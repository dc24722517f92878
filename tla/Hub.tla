-------------------------------- MODULE Hub --------------------------------
(***************************************************************************)
(* internal/transport/http/ws.go: the hub that pushes changes to WebSocket *)
(* clients.  Each client has a goroutine that reads, one that writes, and  *)
(* a buffered channel between the hub and the writer.  Broadcasts hold the *)
(* read lock, registering and dropping a client the write lock.            *)
(***************************************************************************)
EXTENDS Integers, FiniteSets

CONSTANTS
  Clients,       \* wsClient objects, used again once they are gone
  Broadcasters,  \* goroutines that call Broadcast
  Buffer         \* capacity of wsClient.send, 32 in the code

ASSUME BufferAssumption == Buffer \in Nat \ {0}

VARIABLES
  clients,   \* hub.clients
  queued,    \* length of each client's channel
  closed,    \* clients whose channel is closed
  conn,      \* state of each connection
  reader,    \* serve and readPump of each client
  writer,    \* writePump of each client
  sending,   \* broadcasters holding the read lock
  todo       \* the clients a broadcast has not reached yet

pumps  == <<conn, reader, writer>>
vars   == <<clients, queued, closed, pumps, sending, todo>>

TypeOK ==
  /\ clients \subseteq Clients /\ closed \subseteq Clients
  /\ queued \in [Clients -> 0..Buffer]
  /\ conn \in [Clients -> {"none", "open", "broken", "closed"}]
  /\ reader \in [Clients -> {"none", "registering", "reading", "dropping"}]
  /\ writer \in [Clients -> {"none", "waiting", "writing"}]
  /\ sending \subseteq Broadcasters
  /\ todo \in [Broadcasters -> SUBSET Clients]

Init ==
  /\ clients = {} /\ closed = {}
  /\ queued = [c \in Clients |-> 0]
  /\ conn = [c \in Clients |-> "none"]
  /\ reader = [c \in Clients |-> "none"]
  /\ writer = [c \in Clients |-> "none"]
  /\ sending = {}
  /\ todo = [b \in Broadcasters |-> {}]

\* sync.RWMutex: a writer that waits keeps new readers out.
WriterWaits == \E c \in Clients : reader[c] \in {"registering", "dropping"}

-----------------------------------------------------------------------------
(* Broadcast. *)

BeginBroadcast(b) ==
  /\ b \notin sending /\ ~WriterWaits
  /\ sending' = sending \cup {b}
  /\ todo' = [todo EXCEPT ![b] = clients]
  /\ UNCHANGED <<clients, queued, closed, pumps>>

SendSpinning(b, c) ==  \* mutant: try again until the slow client has room
  /\ c \in todo[b] /\ queued[c] < Buffer
  /\ queued' = [queued EXCEPT ![c] = @ + 1]
  /\ todo' = [todo EXCEPT ![b] = @ \ {c}]
  /\ UNCHANGED <<clients, closed, pumps, sending>>
\* The select: into the channel if it has room, and past the client if not.
Send(b, c) ==
  /\ c \in todo[b]
  /\ queued' = IF queued[c] < Buffer THEN [queued EXCEPT ![c] = @ + 1] ELSE queued
  /\ todo' = [todo EXCEPT ![b] = @ \ {c}]
  /\ UNCHANGED <<clients, closed, pumps, sending>>

EndBroadcast(b) ==
  /\ b \in sending /\ todo[b] = {}
  /\ sending' = sending \ {b}
  /\ UNCHANGED <<clients, queued, closed, pumps, todo>>

-----------------------------------------------------------------------------
(* serve and readPump. *)

Gone(c) == c \notin clients /\ reader[c] = "none" /\ writer[c] = "none"

\* The token is valid and the connection upgraded.
Accept(c) ==
  /\ Gone(c)
  /\ conn' = [conn EXCEPT ![c] = "open"]
  /\ reader' = [reader EXCEPT ![c] = "registering"]
  /\ queued' = [queued EXCEPT ![c] = 0] /\ closed' = closed \ {c}
  /\ UNCHANGED <<clients, writer, sending, todo>>

Register(c) ==
  /\ reader[c] = "registering" /\ sending = {}
  /\ clients' = clients \cup {c}
  /\ reader' = [reader EXCEPT ![c] = "reading"]
  /\ writer' = [writer EXCEPT ![c] = "waiting"]
  /\ UNCHANGED <<queued, closed, conn, sending, todo>>

ReadFailsLate(c) ==  \* mutant: no read deadline, a silent peer goes unnoticed
  /\ reader[c] = "reading" /\ conn[c] = "closed"
  /\ reader' = [reader EXCEPT ![c] = "dropping"]
  /\ UNCHANGED <<clients, queued, closed, conn, writer, sending, todo>>
\* ReadMessage fails: the peer is gone, silent for 90 seconds, or writePump
\* closed the connection.
ReadFails(c) ==
  /\ reader[c] = "reading" /\ conn[c] # "open"
  /\ reader' = [reader EXCEPT ![c] = "dropping"]
  /\ UNCHANGED <<clients, queued, closed, conn, writer, sending, todo>>

DropUnlocked(c) ==  \* mutant: drop without the lock
  /\ reader[c] = "dropping"
  /\ clients' = clients \ {c} /\ closed' = closed \cup {c}
  /\ conn' = [conn EXCEPT ![c] = "closed"]
  /\ reader' = [reader EXCEPT ![c] = "none"]
  /\ UNCHANGED <<queued, writer, sending, todo>>
Drop(c) ==
  /\ reader[c] = "dropping" /\ sending = {}
  /\ clients' = clients \ {c} /\ closed' = closed \cup {c}
  /\ conn' = [conn EXCEPT ![c] = "closed"]
  /\ reader' = [reader EXCEPT ![c] = "none"]
  /\ UNCHANGED <<queued, writer, sending, todo>>

-----------------------------------------------------------------------------
(* writePump. *)

\* A message, also one that was queued before the channel was closed.
Take(c) ==
  /\ writer[c] = "waiting" /\ queued[c] > 0
  /\ queued' = [queued EXCEPT ![c] = @ - 1]
  /\ writer' = [writer EXCEPT ![c] = "writing"]
  /\ UNCHANGED <<clients, closed, conn, reader, sending, todo>>

Ping(c) ==
  /\ writer[c] = "waiting"
  /\ writer' = [writer EXCEPT ![c] = "writing"]
  /\ UNCHANGED <<clients, queued, closed, conn, reader, sending, todo>>

Written(c) ==
  /\ writer[c] = "writing" /\ conn[c] # "closed"
  /\ writer' = [writer EXCEPT ![c] = "waiting"]
  /\ UNCHANGED <<clients, queued, closed, conn, reader, sending, todo>>

LeaveOpen(c) ==  \* mutant: the pump ends and leaves the connection to the reader
  /\ \/ writer[c] = "writing"
     \/ writer[c] = "waiting" /\ c \in closed /\ queued[c] = 0
  /\ writer' = [writer EXCEPT ![c] = "none"]
  /\ UNCHANGED <<clients, queued, closed, conn, reader, sending, todo>>
\* The pump ends and closes the connection: a write failed or took longer than
\* 10 seconds, or the channel is closed and empty.
Leave(c) ==
  /\ \/ writer[c] = "writing"
     \/ writer[c] = "waiting" /\ c \in closed /\ queued[c] = 0
  /\ writer' = [writer EXCEPT ![c] = "none"]
  /\ conn' = [conn EXCEPT ![c] = "closed"]
  /\ UNCHANGED <<clients, queued, closed, reader, sending, todo>>

-----------------------------------------------------------------------------
(* The peer. *)

Break(c) ==
  /\ conn[c] = "open"
  /\ conn' = [conn EXCEPT ![c] = "broken"]
  /\ UNCHANGED <<clients, queued, closed, reader, writer, sending, todo>>

Next ==
  \/ \E b \in Broadcasters :
       BeginBroadcast(b) \/ EndBroadcast(b) \/ \E c \in Clients : Send(b, c)
  \/ \E c \in Clients : \/ Accept(c) \/ Register(c) \/ ReadFails(c) \/ Drop(c)
                        \/ Take(c) \/ Ping(c) \/ Written(c) \/ Leave(c)
                        \/ Break(c)

Spec == Init /\ [][Next]_vars

\* Goroutines run, a lock that becomes free goes to one that waits, and a write
\* returns or runs into its deadline.  Take is fair in the strong sense: a select
\* chooses at random among the cases that are ready, and the ticker has a ping ready
\* once in 30 seconds, so pings do not keep the pump from the channel for ever.
\* Nobody has to connect, publish or break.
FairSpec ==
  /\ Spec
  /\ \A b \in Broadcasters : WF_vars(EndBroadcast(b)) /\ \A c \in Clients : WF_vars(Send(b, c))
  /\ \A c \in Clients : /\ WF_vars(Register(c)) /\ WF_vars(ReadFails(c)) /\ WF_vars(Drop(c))
                        /\ SF_vars(Take(c)) /\ WF_vars(Written(c) \/ Leave(c))

-----------------------------------------------------------------------------
\* ws.go:50-57 and 125-133: a broadcast never sends on a channel that was
\* closed, which would bring the server down.
NeverSendsOnClosed == \A b \in Broadcasters : todo[b] \cap closed = {}

\* ws.go:53-57: however slow the clients, a broadcast ends and gives the lock
\* back, so that handlers that push are not held up.
BroadcastEnds == \A b \in Broadcasters : b \in sending ~> b \notin sending

\* ws.go:53-56 and 100-123: a client whose channel is full misses what is broadcast,
\* but not for ever: its channel has room again, or it is dropped, also when the
\* writer gave up and only the reader could tell the hub.
QueueDrains == \A c \in Clients :
  c \in clients /\ queued[c] = Buffer ~> c \notin clients \/ queued[c] < Buffer

\* ws.go:86-133: when a connection is lost, whoever notices first, the client
\* leaves the hub and both of its goroutines end.
LostClientsGo == \A c \in Clients : conn[c] \in {"broken", "closed"} ~> Gone(c)
=============================================================================
