------------------------------- MODULE Store -------------------------------
(***************************************************************************)
(* internal/store/store.go, one level down: the RWMutex, the mutation in   *)
(* memory, the snapshot written to <path>.tmp and renamed over <path>, and *)
(* a process that may die between any two of these.  A write of the        *)
(* temporary file is not atomic; rename is.                                *)
(***************************************************************************)
EXTENDS StoreState

CONSTANTS
  Writers,   \* goroutines inside a mutating method
  Readers,   \* goroutines inside a reading method
  NoWriter,  \* the lock is free
  Partial    \* no file, or one cut short

ASSUME NamesAssumption ==
  /\ NoWriter \notin Writers
  /\ Partial \notin State

VARIABLES
  mem,      \* Store.meetings and Store.events
  tmp,      \* <path>.tmp
  file,     \* <path>
  seen,     \* what each reader was last given
  pc,       \* where each writer is
  job,      \* the mutation it was called for
  lock,     \* the writer holding Store.mu
  before,   \* memory when the lock was taken (for the refinement mapping)
  unsaved   \* a save failed since the last one that succeeded (history)

disks == <<tmp, file>>
vars  == <<mem, disks, seen, pc, job, lock, before, unsaved>>

Stages == {"idle", "waiting", "locked", "changed", "writing", "renaming"}

\* The ring buffer of events is part of it: State bounds what memory, both
\* files and every reader hold to MaxEvents, also after a restart.
TypeOK ==
  /\ mem \in State /\ before \in State
  /\ tmp \in State \cup {Partial} /\ file \in State \cup {Partial}
  /\ seen \in [Readers -> State]
  /\ pc \in [Writers -> Stages]
  /\ job \in [Writers -> Changes]
  /\ lock \in Writers \cup {NoWriter}
  /\ unsaved \in BOOLEAN

\* The locals of a call are gone when it returns.
NoJob == [kind |-> "put", data |-> FirstData]

Step(w, from, to) == pc[w] = from /\ pc' = [pc EXCEPT ![w] = to]

Init ==
  /\ mem = Empty /\ before = Empty /\ tmp = Partial /\ file = Empty
  /\ seen = [r \in Readers |-> Empty]
  /\ pc = [w \in Writers |-> "idle"]
  /\ job = [w \in Writers |-> NoJob]
  /\ lock = NoWriter
  /\ unsaved = FALSE

Call(w, c) ==
  /\ Step(w, "idle", "waiting")
  /\ job' = [job EXCEPT ![w] = c]
  /\ UNCHANGED <<mem, disks, seen, lock, before, unsaved>>

Lock(w) ==
  /\ Step(w, "waiting", "locked")
  /\ lock = NoWriter
  /\ lock' = w
  /\ before' = mem
  /\ UNCHANGED <<mem, disks, seen, job, unsaved>>

ReturnLocked(w, from) ==  \* mutant: a return path without Unlock
  /\ Step(w, from, "idle")
  /\ job' = [job EXCEPT ![w] = NoJob]
  /\ UNCHANGED <<lock, before>>
\* Every return runs the deferred Unlock.
Return(w, from) ==
  /\ Step(w, from, "idle")
  /\ job' = [job EXCEPT ![w] = NoJob]
  /\ lock' = NoWriter
  /\ before' = Empty

\* Not found, conflict or a mutate that reports an error: nothing changes.
Refuse(w) ==
  /\ Return(w, "locked")
  /\ job[w].kind # "event"
  /\ UNCHANGED <<mem, disks, seen, unsaved>>

Change(w) ==
  /\ Step(w, "locked", "changed")
  /\ mem' = Applied(mem, job[w])
  /\ UNCHANGED <<disks, seen, job, lock, before, unsaved>>

\* MkdirAll, MarshalIndent, WriteFile or Rename fails: the change stays.
SaveFails(w, from) ==
  /\ from \in {"changed", "writing", "renaming"}
  /\ Return(w, from)
  /\ unsaved' = TRUE
  /\ UNCHANGED <<mem, disks, seen>>

WriteInPlace(w) ==  \* mutant: the snapshot goes straight to <path>
  /\ Step(w, "changed", "writing")
  /\ file' = Partial
  /\ UNCHANGED <<mem, tmp, seen, job, lock, before, unsaved>>
\* WriteFile truncates the temporary file first ...
BeginWrite(w) ==
  /\ Step(w, "changed", "writing")
  /\ tmp' = Partial
  /\ UNCHANGED <<mem, file, seen, job, lock, before, unsaved>>

EndWriteOld(w) ==  \* mutant: the snapshot was taken before the mutation
  /\ Step(w, "writing", "renaming")
  /\ tmp' = Persist(before)
  /\ UNCHANGED <<mem, file, seen, job, lock, before, unsaved>>
\* ... and the whole snapshot is there when it returns without an error.
EndWrite(w) ==
  /\ Step(w, "writing", "renaming")
  /\ tmp' = Persist(mem)
  /\ UNCHANGED <<mem, file, seen, job, lock, before, unsaved>>

Rename(w) ==
  /\ Return(w, "renaming")
  /\ file' = tmp
  /\ tmp' = Partial
  /\ unsaved' = FALSE
  /\ UNCHANGED <<mem, seen>>

ReadUnlocked(r) ==  \* mutant: a read that does not take RLock
  /\ seen' = [seen EXCEPT ![r] = mem]
  /\ UNCHANGED <<mem, disks, pc, job, lock, before, unsaved>>
\* GetMeeting, ListMeetings, ListEvents, ...: a copy, under RLock.
Read(r) ==
  /\ lock = NoWriter
  /\ seen' = [seen EXCEPT ![r] = mem]
  /\ UNCHANGED <<mem, disks, pc, job, lock, before, unsaved>>

\* The process dies; New() loads the file, and refuses one it cannot parse.
Crash ==
  /\ file # Partial
  /\ mem' = Load(file)
  /\ pc' = [w \in Writers |-> "idle"]
  /\ lock' = NoWriter
  /\ unsaved' = FALSE
  /\ job' = [w \in Writers |-> NoJob]
  /\ before' = Empty
  /\ UNCHANGED <<disks, seen>>

Progress(w) == \/ Refuse(w) \/ Change(w) \/ BeginWrite(w) \/ EndWrite(w) \/ Rename(w)
               \/ \E from \in Stages : SaveFails(w, from)

Next == \/ \E w \in Writers : Progress(w) \/ Lock(w) \/ \E c \in Changes : Call(w, c)
        \/ \E r \in Readers : Read(r)
        \/ Crash

Spec == Init /\ [][Next]_vars
\* Goroutines run; sync.RWMutex serves a waiting writer in turn.
FairSpec == Spec /\ \A w \in Writers : WF_vars(Progress(w)) /\ SF_vars(Lock(w))

-----------------------------------------------------------------------------
\* Between Lock and the end of save() nobody sees the mutation.
visible == IF lock = NoWriter THEN mem ELSE before
Atomic  == INSTANCE AtomicStore WITH mem <- visible

\* To those who read, a mutation and its snapshot are one step, and the file
\* holds a whole state whenever the process dies.
ImplementsAtomicStore == Atomic!Spec

\* While nobody mutates and no save has failed, the file is the snapshot of
\* memory: a crash costs nothing that was acknowledged, except the guest links.
FileIsSnapshot == lock = NoWriter /\ ~unsaved => file = Persist(mem)

\* Every mutating call returns, also when its save fails.
CallsReturn == \A w \in Writers : pc[w] # "idle" ~> pc[w] = "idle"

\* The package promises that the whole state is loaded from the file at New and
\* that every mutation is written to it (store.go:1-4).
RestartRestoresMemory == lock = NoWriter /\ ~unsaved => Load(file) = mem
=============================================================================
