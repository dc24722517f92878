----------------------------- MODULE StoreState -----------------------------
(* What a Store holds, what save() keeps of it, and what New() reads back.   *)
EXTENDS Integers, Sequences

CONSTANTS
  Data,        \* what the JSON of the meetings may say
  FirstData,   \* ... of no meeting at all
  Secrets,     \* guest tokens with their codes
  NoSecret,    \* the zero value: no guest link
  Events,      \* webhook traces
  MaxEvents    \* maxEvents, 500 in the code

ASSUME StateAssumption ==
  /\ FirstData \in Data
  /\ NoSecret \notin Secrets
  /\ MaxEvents \in Nat \ {0}

Logs  == {s \in Seq(Events) : Len(s) <= MaxEvents}
State == [data : Data, secret : Secrets \cup {NoSecret}, events : Logs]
Empty == [data |-> FirstData, secret |-> NoSecret, events |-> << >>]

\* One mutation: of a meeting's JSON fields, of its guest link, of the log.
Changes == [kind : {"put"}, data : Data] \cup
           [kind : {"link"}, secret : Secrets \cup {NoSecret}] \cup
           [kind : {"event"}, event : Events]

NewestOffByOne(s) ==  \* mutant
  IF Len(s) > MaxEvents + 1 THEN SubSeq(s, Len(s) - MaxEvents, Len(s)) ELSE s
\* The ring buffer: the last MaxEvents entries.
Newest(s) ==
  IF Len(s) > MaxEvents THEN SubSeq(s, Len(s) - MaxEvents + 1, Len(s)) ELSE s

Applied(m, c) ==
  CASE c.kind = "put"   -> [m EXCEPT !.data = c.data]
    [] c.kind = "link"  -> [m EXCEPT !.secret = c.secret]
    [] c.kind = "event" -> [m EXCEPT !.events = Newest(Append(@, c.event))]

\* GuestToken and GuestCode carry json:"-": they are never written.
Persist(m) == [m EXCEPT !.secret = NoSecret]
Load(f)    == [f EXCEPT !.events = Newest(@)]
=============================================================================
