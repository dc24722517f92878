SPECIFICATION FairSpec
CONSTANTS
  Rooms = {a}
  MaxMeetings = 1
  Requests = {r1, r2, r3}
  Ops <- JoinStartClose
  PatchStatuses <- NoPatch
  SaveOutcomes <- SaveOk
  RpcOutcomes <- AllRpc
  Faults <- TwiceSent
  IdleWaits = FALSE
  MaxParticipants = 2
  MaxHooks = 3
INVARIANT CountCatchesUp
PROPERTY AbandonedCallEnds
CHECK_DEADLOCK FALSE
