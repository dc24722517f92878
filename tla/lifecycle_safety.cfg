SPECIFICATION Spec
CONSTANTS
  Rooms = {a}
  MaxMeetings = 2
  Requests = {r1, r2}
  Ops <- AllOps
  PatchStatuses <- NoPatch
  SaveOutcomes <- SaveOk
  RpcOutcomes <- RpcOkOrNot
  Faults <- LossyHooks
  IdleWaits = FALSE
  MaxParticipants = 1
  MaxHooks = 2
INVARIANTS TypeOK StampsTellStatus
 
SYMMETRY Symmetry
CHECK_DEADLOCK FALSE
