SPECIFICATION Spec
CONSTANTS
  Keys = {k1}
  Workers = {w1}
  PodSpecs = {v1, v2, v3}
  UserSpecs = {v1, v2, v3}
  Defaulted <- Identity
  ReplicaCounts = {1}
  Hash <- Identity
  Budget <- ThreeEdits
  MaxLag = 1
  Absent = Absent
PROPERTIES ServingIsNotDeleted
