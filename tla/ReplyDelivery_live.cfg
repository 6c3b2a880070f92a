SPECIFICATION LiveSpec
CONSTANTS
  NTurns = 3
  Answer = {a1}
  ErrorText = error
  NoText = none
  DrainLimit = 2
  Dead = {1}
  NSlots = 2
  MaxLosses = 1
  MaxRestarts = 1
  AuditFails = FALSE
PROPERTIES
  TurnSettles
  DeliveredInTheEnd
  DeliveredIsCompleted
CHECK_DEADLOCK FALSE
