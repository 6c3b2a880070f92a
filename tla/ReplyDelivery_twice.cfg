SPECIFICATION Spec
CONSTANTS
  NTurns = 1
  Answer = {a1}
  ErrorText = error
  NoText = none
  DrainLimit = 1
  Dead = {}
  NSlots = 2
  MaxLosses = 0
  MaxRestarts = 0
  AuditFails = FALSE
INVARIANT OneMessagePerAction
CHECK_DEADLOCK FALSE
