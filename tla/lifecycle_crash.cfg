SPECIFICATION Spec
CONSTANTS
  Rooms = {a}
  MaxMeetings = 2
  Requests = {r1, r2}
  Ops <- EndDelete
  PatchStatuses <- PatchAny
  SaveOutcomes <- SaveAny
  RpcOutcomes <- RpcOk
  Faults <- CrashFault
  IdleWaits = TRUE
  MaxParticipants = 1
  MaxHooks = 1
INVARIANTS AckedCreateDurable DeletedStaysDeleted RoomReusedOnlyAfterEnd
PROPERTY ImplementsRegistry
SYMMETRY Symmetry
CHECK_DEADLOCK FALSE
