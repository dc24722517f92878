---------------------------- MODULE StoreProofs ----------------------------
(* Theorems about Store for any data, writers, readers and ring buffer size. *)
EXTENDS Store, TLAPS

-----------------------------------------------------------------------------
(* The operators on states. *)

\* The ring buffer keeps a suffix of at most MaxEvents entries, and leaves
\* alone a log that is short enough.
LEMMA NewestBounds ==
  ASSUME NEW s \in Seq(Events)
  PROVE  /\ Newest(s) \in Logs
         /\ s \in Logs => Newest(s) = s
<1> USE StateAssumption DEF StateAssumption, Newest, Logs
<1>1. CASE Len(s) <= MaxEvents
  BY <1>1
<1>2. CASE Len(s) > MaxEvents
  <2> DEFINE t == SubSeq(s, Len(s) - MaxEvents + 1, Len(s))
  <2>1. Len(s) \in Nat /\ Len(s) - MaxEvents + 1 \in 1..Len(s)
    BY <1>2
  <2>2. t \in Seq(Events) /\ Len(t) = MaxEvents
    BY <2>1
  <2> QED BY <1>2, <2>2
<1>3. Len(s) \in Nat
  OBVIOUS
<1> QED BY <1>1, <1>2, <1>3

LEMMA AppliedType ==
  ASSUME NEW m \in State, NEW c \in Changes
  PROVE  Applied(m, c) \in State
<1>1. CASE c.kind = "put"
  BY <1>1 DEF Applied, State, Changes
<1>2. CASE c.kind = "link"
  BY <1>2 DEF Applied, State, Changes
<1>3. CASE c.kind = "event"
  <2>1. Append(m.events, c.event) \in Seq(Events)
    BY <1>3 DEF State, Logs, Changes
  <2>2. Newest(Append(m.events, c.event)) \in Logs
    BY <2>1, NewestBounds
  <2> QED BY <1>3, <2>2 DEF Applied, State
<1> QED BY <1>1, <1>2, <1>3 DEF Changes

LEMMA PersistType ==
  ASSUME NEW m \in State
  PROVE  Persist(m) \in State
BY DEF Persist, State

\* New() takes back everything save() wrote.
LEMMA LoadPersisted ==
  ASSUME NEW m \in State
  PROVE  /\ Load(m) = m
         /\ Persist(Persist(m)) = Persist(m)
<1>1. m.events \in Logs /\ m.events \in Seq(Events)
  BY DEF State, Logs
<1>2. Newest(m.events) = m.events
  BY <1>1, NewestBounds
<1> QED BY <1>2 DEF Load, Persist, State

LEMMA EmptyType == Empty \in State /\ Persist(Empty) = Empty /\ NoJob \in Changes
<1>1. << >> \in Logs
  BY StateAssumption DEF StateAssumption, Logs
<1> QED BY <1>1, StateAssumption DEF StateAssumption, Empty, State, Persist, NoJob, Changes

-----------------------------------------------------------------------------
(* The inductive invariant. *)

Holding == {"locked", "changed", "writing", "renaming"}

\* Exactly the writer inside its critical section holds the lock.
LockOwned == \A w \in Writers : pc[w] \in Holding <=> lock = w

\* What the holder has done so far: memory is what it was at Lock, then with
\* the mutation; before Rename the temporary file is the snapshot of memory.
HolderProgress ==
  \A w \in Writers :
    /\ pc[w] = "locked" => mem = before
    /\ pc[w] \in {"changed", "writing", "renaming"} => mem = Applied(before, job[w])
    /\ pc[w] = "renaming" => tmp = Persist(mem)

\* The file never holds less than a whole snapshot, and it is the one of the
\* state that can be read unless a save failed.
FileWhole == file # Partial /\ Persist(file) = file /\ (~unsaved => file = Persist(visible))

IInv == TypeOK /\ LockOwned /\ HolderProgress /\ FileWhole

LEMMA InitIInv == Init => IInv
<1> SUFFICES ASSUME Init PROVE IInv
  OBVIOUS
<1>1. TypeOK
  BY EmptyType DEF Init, TypeOK, Stages
<1>2. LockOwned
  BY NamesAssumption DEF Init, LockOwned, Holding, NamesAssumption
<1>3. HolderProgress
  BY DEF Init, HolderProgress
<1>4. FileWhole
  BY EmptyType, NamesAssumption DEF Init, FileWhole, visible, NamesAssumption
<1> QED BY <1>1, <1>2, <1>3, <1>4 DEF IInv
-----------------------------------------------------------------------------
(* Every action keeps the invariant and maps to a step of AtomicStore. *)

\* What the refinement needs to know of a step.
Simulated == [Atomic!Next]_<<visible, file, seen>>

\* Atomic has the operators of StoreState under names of its own.
LEMMA SameOperators ==
  /\ Atomic!Empty = Empty
  /\ Atomic!Changes = Changes
  /\ \A m, c : Atomic!Applied(m, c) = Applied(m, c)
  /\ \A m : Atomic!Persist(m) = Persist(m)
  /\ \A m : Atomic!Load(m) = Load(m)
<1>1. Atomic!Empty = Empty
  BY DEF Empty, Atomic!Empty
<1>2. Atomic!Changes = Changes
  BY DEF Changes, Atomic!Changes
<1>3. \A s : Atomic!Newest(s) = Newest(s)
  BY DEF Newest, Atomic!Newest
<1>4. \A m, c : Atomic!Applied(m, c) = Applied(m, c)
  BY <1>3 DEF Applied, Atomic!Applied
<1>5. \A m : Atomic!Persist(m) = Persist(m)
  BY DEF Persist, Atomic!Persist
<1>6. \A m : Atomic!Load(m) = Load(m)
  BY <1>3 DEF Load, Atomic!Load
<1> QED BY <1>1, <1>2, <1>4, <1>5, <1>6

\* A writer's step leaves the other writers' program counters alone.
LEMMA StepEffect ==
  ASSUME TypeOK, NEW w \in Writers, NEW from \in Stages, NEW to \in Stages, Step(w, from, to)
  PROVE  /\ pc' \in [Writers -> Stages]
         /\ pc[w] = from /\ pc'[w] = to
         /\ \A v \in Writers \ {w} : pc'[v] = pc[v]
BY DEF TypeOK, Step

\* Giving the lock back: nobody is inside, everything typed stays typed.
LEMMA ReturnEffect ==
  ASSUME IInv, NEW w \in Writers, NEW from \in Holding, Return(w, from)
  PROVE  /\ pc' \in [Writers -> Stages] /\ job' \in [Writers -> Changes]
         /\ before' \in State /\ lock' = NoWriter
         /\ lock = w /\ pc[w] = from
         /\ LockOwned' /\ \A v \in Writers : pc'[v] \notin Holding
<1>1. pc[w] = from /\ lock = w
  BY DEF IInv, LockOwned, Return, Step
<1>2. Step(w, from, "idle") /\ lock' = NoWriter /\ before' = Empty
  BY DEF Return
<1>3. pc' \in [Writers -> Stages] /\ pc'[w] = "idle" /\ \A v \in Writers \ {w} : pc'[v] = pc[v]
  BY <1>2, StepEffect DEF IInv, Holding, Stages
<1>4. job' \in [Writers -> Changes]
  BY EmptyType DEF Return, IInv, TypeOK
<1>5. \A v \in Writers : pc'[v] \notin Holding
  BY <1>1, <1>3 DEF IInv, LockOwned, Holding
<1>6. LockOwned'
  BY <1>2, <1>5, NamesAssumption DEF LockOwned, NamesAssumption
<1> QED BY <1>1, <1>2, <1>3, <1>4, <1>5, <1>6, EmptyType

\* Outside the critical section HolderProgress says nothing.
LEMMA NobodyInside ==
  ASSUME \A v \in Writers : pc'[v] \notin Holding
  PROVE  HolderProgress'
BY DEF HolderProgress, Holding

LEMMA CallStep ==
  ASSUME IInv, NEW w \in Writers, NEW c \in Changes, Call(w, c)
  PROVE  IInv' /\ Simulated
<1>1. /\ pc' \in [Writers -> Stages] /\ pc[w] = "idle" /\ pc'[w] = "waiting"
      /\ \A v \in Writers \ {w} : pc'[v] = pc[v]
  BY StepEffect DEF Call, IInv, Stages
<1>2. TypeOK'
  BY <1>1 DEF Call, IInv, TypeOK, disks
<1>3. LockOwned'
  BY <1>1 DEF Call, IInv, LockOwned, Holding
<1>4. HolderProgress'
  BY <1>1 DEF Call, IInv, TypeOK, HolderProgress, disks
<1>5. UNCHANGED <<visible, file, seen>> /\ FileWhole'
  BY DEF Call, IInv, FileWhole, visible, disks
<1> QED BY <1>2, <1>3, <1>4, <1>5 DEF IInv, Simulated

LEMMA LockStep ==
  ASSUME IInv, NEW w \in Writers, Lock(w)
  PROVE  IInv' /\ Simulated
<1>1. /\ pc' \in [Writers -> Stages] /\ pc[w] = "waiting" /\ pc'[w] = "locked"
      /\ \A v \in Writers \ {w} : pc'[v] = pc[v]
  BY StepEffect DEF Lock, IInv, Stages
<1>2. TypeOK'
  BY <1>1 DEF Lock, IInv, TypeOK, disks
<1>3. \A v \in Writers : pc[v] \notin Holding
  BY NamesAssumption DEF Lock, IInv, LockOwned, NamesAssumption
<1>4. LockOwned'
  BY <1>1, <1>3 DEF Lock, LockOwned, Holding
<1>5. HolderProgress'
  BY <1>1, <1>3 DEF Lock, HolderProgress, Holding, disks
<1>6. visible = mem /\ visible' = mem
  BY NamesAssumption DEF Lock, visible, NamesAssumption
<1>7. UNCHANGED <<visible, file, seen>> /\ FileWhole'
  BY <1>6 DEF Lock, IInv, FileWhole, disks
<1> QED BY <1>2, <1>4, <1>5, <1>7 DEF IInv, Simulated
\* A step inside the critical section: the holder moves on, nobody else is in.
LEMMA InsideEffect ==
  ASSUME IInv, NEW w \in Writers, NEW from \in Holding, NEW to \in Holding,
         Step(w, from, to), lock' = lock
  PROVE  /\ pc' \in [Writers -> Stages] /\ pc[w] = from /\ pc'[w] = to
         /\ lock = w /\ LockOwned'
         /\ \A v \in Writers \ {w} : pc'[v] \notin Holding
<1>1. /\ pc' \in [Writers -> Stages] /\ pc[w] = from /\ pc'[w] = to
      /\ \A v \in Writers \ {w} : pc'[v] = pc[v]
  BY StepEffect DEF IInv, Holding, Stages
<1>2. lock = w /\ \A v \in Writers \ {w} : pc[v] \notin Holding
  BY <1>1 DEF IInv, LockOwned
<1>3. LockOwned'
  BY <1>1, <1>2 DEF LockOwned
<1> QED BY <1>1, <1>2, <1>3

\* Seen from outside, memory is still what it was when the lock was taken.
LEMMA HiddenInside ==
  ASSUME NEW w \in Writers, lock = w, lock' = lock, before' = before
  PROVE  visible = before /\ visible' = visible
BY NamesAssumption DEF visible, NamesAssumption

LEMMA ChangeStep ==
  ASSUME IInv, NEW w \in Writers, Change(w)
  PROVE  IInv' /\ Simulated
<1>1. /\ pc' \in [Writers -> Stages] /\ pc[w] = "locked" /\ pc'[w] = "changed"
      /\ lock = w /\ LockOwned' /\ \A v \in Writers \ {w} : pc'[v] \notin Holding
  BY InsideEffect DEF Change, Holding
<1>2. mem = before /\ mem' = Applied(before, job[w])
  BY <1>1 DEF Change, IInv, HolderProgress
<1>3. TypeOK'
  BY <1>1, <1>2, AppliedType DEF Change, IInv, TypeOK, disks
<1>4. HolderProgress'
  BY <1>1, <1>2 DEF Change, HolderProgress, Holding
<1>5. UNCHANGED <<visible, file, seen, unsaved>>
  BY <1>1, HiddenInside DEF Change, disks
<1>6. FileWhole'
  BY <1>5 DEF IInv, FileWhole
<1> QED BY <1>1, <1>3, <1>4, <1>5, <1>6 DEF IInv, Simulated

LEMMA BeginWriteStep ==
  ASSUME IInv, NEW w \in Writers, BeginWrite(w)
  PROVE  IInv' /\ Simulated
<1>1. /\ pc' \in [Writers -> Stages] /\ pc[w] = "changed" /\ pc'[w] = "writing"
      /\ lock = w /\ LockOwned' /\ \A v \in Writers \ {w} : pc'[v] \notin Holding
  BY InsideEffect DEF BeginWrite, Holding
<1>2. TypeOK'
  BY <1>1 DEF BeginWrite, IInv, TypeOK
<1>3. HolderProgress'
  BY <1>1 DEF BeginWrite, IInv, HolderProgress, Holding
<1>4. UNCHANGED <<visible, file, seen, unsaved>>
  BY <1>1, HiddenInside DEF BeginWrite
<1>5. FileWhole'
  BY <1>4 DEF IInv, FileWhole
<1> QED BY <1>1, <1>2, <1>3, <1>4, <1>5 DEF IInv, Simulated

LEMMA EndWriteStep ==
  ASSUME IInv, NEW w \in Writers, EndWrite(w)
  PROVE  IInv' /\ Simulated
<1>1. /\ pc' \in [Writers -> Stages] /\ pc[w] = "writing" /\ pc'[w] = "renaming"
      /\ lock = w /\ LockOwned' /\ \A v \in Writers \ {w} : pc'[v] \notin Holding
  BY InsideEffect DEF EndWrite, Holding
<1>2. TypeOK'
  BY <1>1, PersistType DEF EndWrite, IInv, TypeOK
<1>3. HolderProgress'
  BY <1>1 DEF EndWrite, IInv, HolderProgress, Holding
<1>4. UNCHANGED <<visible, file, seen, unsaved>>
  BY <1>1, HiddenInside DEF EndWrite
<1>5. FileWhole'
  BY <1>4 DEF IInv, FileWhole
<1> QED BY <1>1, <1>2, <1>3, <1>4, <1>5 DEF IInv, Simulated

\* A call refused before it changed anything is no step at all to the others.
LEMMA RefuseStep ==
  ASSUME IInv, NEW w \in Writers, Refuse(w)
  PROVE  IInv' /\ Simulated
<1>1. /\ pc' \in [Writers -> Stages] /\ job' \in [Writers -> Changes]
      /\ before' \in State /\ lock' = NoWriter /\ lock = w /\ pc[w] = "locked"
      /\ LockOwned' /\ \A v \in Writers : pc'[v] \notin Holding
  BY ReturnEffect DEF Refuse, Holding
<1>2. TypeOK'
  BY <1>1 DEF Refuse, IInv, TypeOK, disks
<1>3. HolderProgress'
  BY <1>1, NobodyInside
<1>4. mem = before
  BY <1>1 DEF IInv, HolderProgress
<1>5. UNCHANGED <<visible, file, seen, unsaved>>
  BY <1>1, <1>4, NamesAssumption DEF Refuse, visible, disks, NamesAssumption
<1>6. FileWhole'
  BY <1>5 DEF IInv, FileWhole
<1> QED BY <1>1, <1>2, <1>3, <1>5, <1>6 DEF IInv, Simulated

\* The mutation becomes visible although the file stays what it was.
LEMMA SaveFailsStep ==
  ASSUME IInv, NEW w \in Writers, NEW from \in Stages, SaveFails(w, from)
  PROVE  IInv' /\ Simulated
<1>0. from \in {"changed", "writing", "renaming"} /\ from \in Holding
  BY DEF SaveFails, Holding
<1>1. /\ pc' \in [Writers -> Stages] /\ job' \in [Writers -> Changes]
      /\ before' \in State /\ lock' = NoWriter /\ lock = w /\ pc[w] = from
      /\ LockOwned' /\ \A v \in Writers : pc'[v] \notin Holding
  BY <1>0, ReturnEffect DEF SaveFails
<1>2. TypeOK'
  BY <1>1 DEF SaveFails, IInv, TypeOK, disks
<1>3. HolderProgress'
  BY <1>1, NobodyInside
<1>4. visible = before /\ visible' = Applied(visible, job[w])
  BY <1>0, <1>1, NamesAssumption
  DEF SaveFails, IInv, HolderProgress, visible, NamesAssumption
<1>5. FileWhole'
  BY DEF SaveFails, IInv, FileWhole, disks
<1>6. Atomic!Update(job[w]) /\ job[w] \in Atomic!Changes
  BY <1>4, SameOperators DEF SaveFails, IInv, TypeOK, disks, Atomic!Update
<1> QED BY <1>1, <1>2, <1>3, <1>5, <1>6 DEF IInv, Simulated, Atomic!Next

\* The mutation and its snapshot become visible together.
LEMMA RenameStep ==
  ASSUME IInv, NEW w \in Writers, Rename(w)
  PROVE  IInv' /\ Simulated
<1>1. /\ pc' \in [Writers -> Stages] /\ job' \in [Writers -> Changes]
      /\ before' \in State /\ lock' = NoWriter /\ lock = w /\ pc[w] = "renaming"
      /\ LockOwned' /\ \A v \in Writers : pc'[v] \notin Holding
  BY ReturnEffect DEF Rename, Holding
<1>2. TypeOK'
  BY <1>1 DEF Rename, IInv, TypeOK
<1>3. HolderProgress'
  BY <1>1, NobodyInside
<1>4. /\ visible = before /\ visible' = Applied(visible, job[w])
      /\ visible' = mem /\ file' = Persist(visible')
  BY <1>1, NamesAssumption
  DEF Rename, IInv, HolderProgress, visible, NamesAssumption
<1>5. FileWhole'
  <2>1. file' \in State
    BY <1>4, PersistType DEF IInv, TypeOK
  <2>2. Persist(file') = file'
    BY <1>4, LoadPersisted DEF IInv, TypeOK
  <2> QED BY <1>4, <2>1, <2>2, NamesAssumption DEF FileWhole, NamesAssumption
<1>6. Atomic!Update(job[w]) /\ job[w] \in Atomic!Changes
  BY <1>4, SameOperators DEF Rename, IInv, TypeOK, Atomic!Update
<1> QED BY <1>1, <1>2, <1>3, <1>5, <1>6 DEF IInv, Simulated, Atomic!Next

\* A reader is never inside together with a writer.
LEMMA ReadStep ==
  ASSUME IInv, NEW r \in Readers, Read(r)
  PROVE  IInv' /\ Simulated
<1>1. visible = mem /\ UNCHANGED <<visible, file>>
  BY DEF Read, visible, disks
<1>2. TypeOK'
  BY DEF Read, IInv, TypeOK, disks
<1>3. LockOwned' /\ HolderProgress' /\ FileWhole'
  BY <1>1 DEF Read, IInv, LockOwned, HolderProgress, FileWhole, disks
<1>4. Atomic!Read(r)
  BY <1>1 DEF Read, Atomic!Read
<1> QED BY <1>2, <1>3, <1>4 DEF IInv, Simulated, Atomic!Next

\* A restart in any state takes a whole snapshot.
LEMMA CrashStep ==
  ASSUME IInv, Crash
  PROVE  IInv' /\ Simulated
<1>1. file \in State /\ Load(file) = file
  BY LoadPersisted DEF IInv, TypeOK, FileWhole
<1>2. \A v \in Writers : pc'[v] \notin Holding
  BY DEF Crash, Holding
<1>3. TypeOK'
  BY <1>1, EmptyType DEF Crash, IInv, TypeOK, Stages, disks
<1>4. LockOwned' /\ HolderProgress'
  BY <1>2, NobodyInside, NamesAssumption DEF Crash, LockOwned, NamesAssumption
<1>5. visible' = Load(file) /\ UNCHANGED <<file, seen>>
  BY DEF Crash, visible, disks
<1>6. FileWhole'
  BY <1>1, <1>5 DEF IInv, FileWhole
<1>7. Atomic!Restart
  BY <1>5, SameOperators DEF Atomic!Restart
<1> QED BY <1>3, <1>4, <1>6, <1>7 DEF IInv, Simulated, Atomic!Next

LEMMA NextStep == IInv /\ [Next]_vars => IInv' /\ Simulated
<1> SUFFICES ASSUME IInv, [Next]_vars PROVE IInv' /\ Simulated
  OBVIOUS
<1>1. ASSUME NEW w \in Writers, Progress(w) PROVE IInv' /\ Simulated
  BY <1>1, RefuseStep, ChangeStep, BeginWriteStep, EndWriteStep, RenameStep, SaveFailsStep
  DEF Progress
<1>2. ASSUME NEW w \in Writers, Lock(w) PROVE IInv' /\ Simulated
  BY <1>2, LockStep
<1>3. ASSUME NEW w \in Writers, NEW c \in Changes, Call(w, c) PROVE IInv' /\ Simulated
  BY <1>3, CallStep
<1>4. ASSUME NEW r \in Readers, Read(r) PROVE IInv' /\ Simulated
  BY <1>4, ReadStep
<1>5. CASE Crash
  BY <1>5, CrashStep
<1>6. CASE UNCHANGED vars
  <2>1. UNCHANGED <<visible, file, seen>>
    BY <1>6 DEF vars, disks, visible
  <2>2. IInv'
    BY <1>6, <2>1 DEF vars, disks, IInv, TypeOK, LockOwned, HolderProgress, FileWhole
  <2> QED BY <2>1, <2>2 DEF Simulated
<1> QED BY <1>1, <1>2, <1>3, <1>4, <1>5, <1>6 DEF Next

-----------------------------------------------------------------------------
(* The theorems. *)

\* store.go:39-44, 284-302: every step keeps the types, and with them the
\* capacity of the ring buffer in memory, in the file and in what is read.
THEOREM StoreTypes == Spec => []TypeOK
<1>1. IInv => TypeOK
  BY DEF IInv
<1> QED BY <1>1, InitIInv, NextStep, PTL DEF Spec

\* store.go:84-107: between mutations, and while no save has failed, the file
\* is the snapshot of memory.
THEOREM SnapshotOnDisk == Spec => []FileIsSnapshot
<1>1. IInv => FileIsSnapshot
  BY DEF IInv, FileWhole, FileIsSnapshot, visible
<1> QED BY <1>1, InitIInv, NextStep, PTL DEF Spec

\* store.go:1-4: the locked, staged, crashing store implements the atomic one.
THEOREM Refinement == Spec => ImplementsAtomicStore
<1>1. Init => Atomic!Init
  BY SameOperators, NamesAssumption DEF Init, Atomic!Init, visible, NamesAssumption
<1>2. IInv /\ [Next]_vars => [Atomic!Next]_<<visible, file, seen>>
  BY NextStep DEF Simulated
<1> QED BY <1>1, <1>2, InitIInv, NextStep, PTL DEF Spec, ImplementsAtomicStore, Atomic!Spec
=============================================================================
