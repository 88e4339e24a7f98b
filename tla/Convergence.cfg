SPECIFICATION FairSpec
CONSTANTS
  Keys = {k1}
  Workers = {w1, w2}
  PodSpecs = {v1, v2}
  UserSpecs = {v1, v2}
  Defaulted <- Identity
  ReplicaCounts = {2}
  Hash <- Identity
  Budget <- Edits
  MaxLag = 2
  Absent = Absent
INVARIANTS QuietMeansConverged SettledInv ColorsStay OutageOnlyInRollover
PROPERTIES EventuallyConverged
