SPECIFICATION TwoSpec
CONSTANTS
  Keys = {k1}
  Workers = {w1}
  PodSpecs = {v1, v2}
  UserSpecs = {v1, v2}
  Defaulted <- Identity
  ReplicaCounts = {1}
  Hash <- Identity
  Budget <- OneEdit
  MaxLag = 0
  Absent = Absent
PROPERTIES StatusIsNotReset
