----------------------------- MODULE AtomicStore -----------------------------
(* What package store promises (store.go:1-4): a state in memory, a file that *)
(* always holds a whole state, mutations that are one step for everybody who  *)
(* reads, whether or not their snapshot could be written, and a restart that  *)
(* takes the file.                                                            *)
EXTENDS StoreState

CONSTANT Readers

VARIABLES
  mem,    \* the state every read is answered from
  file,   \* the state the file holds
  seen    \* what each reader was last given

Init == mem = Empty /\ file = Empty /\ seen = [r \in Readers |-> Empty]

Update(c) ==
  /\ mem' = Applied(mem, c)
  /\ file' \in {Persist(mem'), file}
  /\ UNCHANGED seen

Read(r) == seen' = [seen EXCEPT ![r] = mem] /\ UNCHANGED <<mem, file>>

Restart == mem' = Load(file) /\ UNCHANGED <<file, seen>>

Next == \/ \E c \in Changes : Update(c)
        \/ \E r \in Readers : Read(r)
        \/ Restart

Spec == Init /\ [][Next]_<<mem, file, seen>>
=============================================================================
