SPECIFICATION Spec
CONSTANTS
  Keys = {k1}
  Workers = {w1}
  PodSpecs = {v1, v2}
  UserSpecs = {v1, v2}
  Defaulted <- Identity
  ReplicaCounts = {0}
  Hash <- Identity
  Budget <- OneCreation
  MaxLag = 0
  Absent = Absent
INVARIANTS ReplicasAsDocumented
