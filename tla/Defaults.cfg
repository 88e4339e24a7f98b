SPECIFICATION Spec
CONSTANTS
  Keys = {k1}
  Workers = {w1}
  PodSpecs <- PrunedAndFull
  UserSpecs <- Pruned
  Defaulted <- FillIn
  ReplicaCounts = {1}
  Hash <- Identity
  Budget <- OneCreation
  MaxLag = 0
  Absent = Absent
PROPERTIES NoNeedlessFlip
