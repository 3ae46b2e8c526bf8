CONSTANTS
  Node = {n1}
  Nobody = nobody
  Proc = {"controller", "webhook"}
  Cooldown = 1
  MaxConfirm = 1
SPECIFICATION HSpec
INVARIANT ConfirmationSticks
