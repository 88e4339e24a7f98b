SPECIFICATION Spec
CONSTANTS
  Keys = {k1}
  Workers = {w1, w2}
  PodSpecs <- Mixed
  UserSpecs <- Mixed
  Defaulted <- FillIn
  ReplicaCounts = {1, 2}
  Hash <- Identity
  Budget <- Rollouts
  MaxLag = 0
  Absent = Absent
SYMMETRY SymmetricWorkers
INVARIANTS ServiceBacked ServiceInv
PROPERTIES ServingIsNotDeleted
