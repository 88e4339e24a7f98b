SPECIFICATION DetailedSpec
CONSTANTS
  Keys = {k1}
  Workers = {w1, w2}
  PodSpecs = {v1, v2}
  UserSpecs = {v1, v2}
  Defaulted <- Identity
  ReplicaCounts = {1}
  Hash <- Identity
  Budget <- Faults
  MaxLag = 1
  Absent = Absent
SYMMETRY SymmetricWorkersAndSpecs
INVARIANTS TypeOK ExclusiveSync RolloutInv
PROPERTIES
  ImplementsAtomicWrites ImplementsSwitchover
  SwitchIsBacked ActiveIsNotScaledDown ScaleDownAfterReady
