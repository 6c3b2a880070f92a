SPECIFICATION Spec
CONSTANTS
  NTurns = 2
  Answer = {a1, a2}
  ErrorText = error
  NoText = none
  DrainLimit = 2
  Dead = {}
  NSlots = 2
  MaxLosses = 1
  MaxRestarts = 1
  AuditFails = TRUE
SYMMETRY AnswerSymmetry
INVARIANTS TypeOK CompletedWasPosted AuditedAround RunningIsWorked
PROPERTIES SilentAfterSuccess ReplySpec
CHECK_DEADLOCK FALSE
