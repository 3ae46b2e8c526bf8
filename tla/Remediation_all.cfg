CONSTANTS
  Node = {n1, n2}
  Nobody = nobody
  Proc = {"controller", "webhook"}
  Cooldown = 1
  MaxConfirm = 1
SPECIFICATION Spec
SYMMETRY NodeSymmetry
INVARIANTS
  CooldownOnlyIfActed
  StateReadable
  CooldownRespected
  ConfirmationHolds
PROPERTIES
  TableIsAtomic
