SPECIFICATION Spec
CONSTANTS
  Rooms = {a}
  MaxMeetings = 1
  Requests = {r1, r2}
  Ops <- JoinAndEnd
  PatchStatuses <- NoPatch
  SaveOutcomes <- SaveOk
  RpcOutcomes <- RpcOk
  Faults <- NoFault
  IdleWaits = TRUE
  MaxParticipants = 1
  MaxHooks = 3
INVARIANT EndedRoomEmpty
SYMMETRY Symmetry
CHECK_DEADLOCK FALSE
