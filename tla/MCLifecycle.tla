---------------------------- MODULE MCLifecycle ----------------------------
(* Small instances of Lifecycle for TLC: what clients do, what may fail.     *)
EXTENDS Lifecycle

\* Operations of clients.
AllOps         == ClientOps
JoinStartClose == {"join", "start", "closeRoom"}
JoinAndEnd     == {"join", "end"}
EndDelete      == {"end", "delete"}

\* Statuses a PATCH carries.
NoPatch   == {}
PatchAny  == {"live", "other"}

\* Outcomes of calls to LiveKit and of saves.
AllRpc     == AllRpcOutcomes
RpcOkOrNot == {"ok", "failed"}
RpcOk      == {"ok"}
SaveOk     == {TRUE}
SaveAny    == BOOLEAN

\* Other faults.
TwiceSent  == {"duplicate"}
LossyHooks == {"reorder", "duplicate", "lose"}
CrashFault == {"crash"}
NoFault    == {}

\* Requests are interchangeable; used by runs without liveness properties.
Symmetry == Permutations(Requests)
=============================================================================
