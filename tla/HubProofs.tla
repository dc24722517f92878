----------------------------- MODULE HubProofs -----------------------------
(* The hub, for any number of clients and broadcasters and any buffer.       *)
EXTENDS Hub, TLAPS

\* Whoever is in the hub, or about to be, has an open channel, and a broadcast
\* is on its way only to clients in the hub, under the lock.
Locking ==
  /\ clients \cap closed = {}
  /\ \A c \in Clients : reader[c] = "registering" => c \notin closed
  /\ \A b \in Broadcasters : todo[b] \subseteq clients /\ (b \notin sending => todo[b] = {})

IInv == TypeOK /\ Locking

LEMMA InitIInv == Init => IInv
BY BufferAssumption DEF BufferAssumption, Init, IInv, TypeOK, Locking

LEMMA BroadcastStep ==
  ASSUME IInv, NEW b \in Broadcasters, BeginBroadcast(b) \/ EndBroadcast(b)
  PROVE  IInv'
<1>1. CASE BeginBroadcast(b)
  BY <1>1 DEF BeginBroadcast, pumps, IInv, TypeOK, Locking
<1>2. CASE EndBroadcast(b)
  BY <1>2 DEF EndBroadcast, pumps, IInv, TypeOK, Locking
<1> QED BY <1>1, <1>2

LEMMA SendStep ==
  ASSUME IInv, NEW b \in Broadcasters, NEW c \in Clients, Send(b, c)
  PROVE  IInv'
<1>1. queued' \in [Clients -> 0..Buffer]
  <2>1. CASE queued[c] < Buffer
    <3>1. queued[c] + 1 \in 0..Buffer
      BY <2>1, BufferAssumption DEF BufferAssumption, IInv, TypeOK
    <3> QED BY <2>1, <3>1 DEF Send, IInv, TypeOK
  <2>2. CASE ~(queued[c] < Buffer)
    BY <2>2 DEF Send, IInv, TypeOK
  <2> QED BY <2>1, <2>2
<1>2. TypeOK'
  BY <1>1 DEF Send, pumps, IInv, TypeOK
<1>3. Locking'
  BY DEF Send, pumps, IInv, TypeOK, Locking
<1> QED BY <1>2, <1>3 DEF IInv

\* serve, readPump and drop: the last two wait until no broadcast is under way.
LEMMA ReaderStep ==
  ASSUME IInv, NEW c \in Clients, Accept(c) \/ Register(c) \/ ReadFails(c) \/ Drop(c)
  PROVE  IInv'
<1>1. CASE Accept(c)
  BY <1>1, BufferAssumption DEF BufferAssumption, Accept, Gone, IInv, TypeOK, Locking
<1>2. CASE Register(c)
  BY <1>2 DEF Register, IInv, TypeOK, Locking
<1>3. CASE ReadFails(c)
  BY <1>3 DEF ReadFails, IInv, TypeOK, Locking
<1>4. CASE Drop(c)
  BY <1>4 DEF Drop, IInv, TypeOK, Locking
<1> QED BY <1>1, <1>2, <1>3, <1>4

LEMMA WriterStep ==
  ASSUME IInv, NEW c \in Clients, Take(c) \/ Ping(c) \/ Written(c) \/ Leave(c) \/ Break(c)
  PROVE  IInv'
<1>1. CASE Take(c)
  <2>1. queued[c] - 1 \in 0..Buffer
    BY <1>1, BufferAssumption DEF BufferAssumption, Take, IInv, TypeOK
  <2> QED BY <1>1, <2>1 DEF Take, IInv, TypeOK, Locking
<1>2. CASE Ping(c) \/ Written(c)
  BY <1>2 DEF Ping, Written, IInv, TypeOK, Locking
<1>3. CASE Leave(c) \/ Break(c)
  BY <1>3 DEF Leave, Break, IInv, TypeOK, Locking
<1> QED BY <1>1, <1>2, <1>3

LEMMA NextIInv == IInv /\ [Next]_vars => IInv'
<1> SUFFICES ASSUME IInv, [Next]_vars PROVE IInv'
  OBVIOUS
<1>1. CASE UNCHANGED vars
  BY <1>1 DEF vars, pumps, IInv, TypeOK, Locking
<1>2. CASE Next
  BY <1>2, BroadcastStep, SendStep, ReaderStep, WriterStep DEF Next
<1> QED BY <1>1, <1>2

LEMMA Invariance == Spec => []IInv
BY InitIInv, NextIInv, PTL DEF Spec

\* The state of the hub, ws.go:21-40; a channel never holds more than its buffer.
LEMMA HubTypes == Spec => []TypeOK
<1>1. IInv => TypeOK
  BY DEF IInv
<1> QED BY <1>1, Invariance, PTL

\* ws.go:50-57 and 125-133: no broadcast sends on a closed channel.
THEOREM ClosedUntouched == Spec => []NeverSendsOnClosed
<1>1. IInv => NeverSendsOnClosed
  BY DEF IInv, Locking, NeverSendsOnClosed
<1> QED BY <1>1, Invariance, PTL
=============================================================================
