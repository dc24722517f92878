--------------------------- MODULE KeyCacheProofs ---------------------------
(* The key cache, for any number of requests, tokens and key sets.           *)
EXTENDS KeyCache, TLAPS

\* What the cache and the requests hold was published at some time.
Origins ==
  /\ published \in ever /\ cache \in ever \cup {NoKeys}
  /\ \A r \in Requests : step[r] = "fetched" => answer[r] \in ever

Finished == \A r \in Requests : verdict[r] # "none" => step[r] = "done"

Running == /\ \A r \in clear : step[r] # "idle"
           /\ \A r \in steady : step[r] # "idle" /\ Holds(published, token[r])

\* Every set a steady request can meet, once fetches from before its start are
\* gone, holds its key.
Steady ==
  \A r \in steady \cap clear :
    /\ \A q \in Requests : step[q] = "fetched" => Holds(answer[q], token[r])
    /\ step[r] = "again" => Holds(cache, token[r])

IInv == /\ TypeOK /\ Origins /\ Finished /\ Running /\ Steady
        /\ PublishedKeyFound /\ OnlyPublishedKeys

LEMMA InitIInv == Init => IInv
BY KeysAssumption DEF KeysAssumption, Init, IInv, TypeOK, Origins, Finished, Running, Steady,
   PublishedKeyFound, OnlyPublishedKeys, Verdicts

LEMMA RotateStep == ASSUME IInv, Rotate PROVE IInv'
<1>1. TypeOK'
  BY KeysAssumption DEF KeysAssumption, IInv, TypeOK, Rotate, local
<1>2. Origins' /\ Finished'
  BY DEF IInv, Origins, Finished, Rotate, local
<1>3. Running'
  BY DEF IInv, Running, Rotate, local
<1>4. Steady' /\ PublishedKeyFound'
  BY DEF IInv, Steady, PublishedKeyFound, Rotate, local
<1>5. OnlyPublishedKeys'
  BY DEF IInv, OnlyPublishedKeys, Rotate, local
<1> QED BY <1>1, <1>2, <1>3, <1>4, <1>5 DEF IInv

LEMMA BeginStep == ASSUME IInv, NEW r \in Requests, NEW t \in Tokens, Begin(r, t) PROVE IInv'
<1>1. TypeOK'
  BY DEF IInv, TypeOK, Begin
<1>2. Origins' /\ Finished'
  BY DEF IInv, TypeOK, Origins, Finished, Begin
<1>3. Running'
  BY DEF IInv, TypeOK, Running, Begin
<1>4. Steady'
  <2> SUFFICES ASSUME NEW p \in steady' \cap clear'
               PROVE  /\ \A q \in Requests : step'[q] = "fetched" => Holds(answer'[q], token'[p])
                      /\ step'[p] = "again" => Holds(cache', token'[p])
    BY DEF Steady, Holds
  <2>1. CASE p = r
    BY <2>1 DEF IInv, TypeOK, Begin
  <2>2. CASE p # r
    BY <2>2 DEF IInv, TypeOK, Steady, Begin
  <2> QED BY <2>1, <2>2
<1>5. PublishedKeyFound' /\ OnlyPublishedKeys'
  BY DEF IInv, TypeOK, Finished, PublishedKeyFound, OnlyPublishedKeys, Begin
<1> QED BY <1>1, <1>2, <1>3, <1>4, <1>5 DEF IInv

\* A verdict that respects what the two properties ask for keeps the invariant.
LEMMA ReturnStep ==
  ASSUME IInv, NEW r \in Requests, NEW from \in {"lookup", "asked", "again"},
         NEW v \in Verdicts, Return(r, from, v),
         UNCHANGED <<cache, published, rotations, answer, history>>,
         v = "unknown" => r \notin steady \cap clear,
         v = "accepted" => \E set \in ever : \/ Holds(set, token[r])
                                             \/ NoKid \in DOMAIN set /\ set[NoKid] = token[r].key
  PROVE  IInv'
<1>1. TypeOK'
  BY DEF IInv, TypeOK, Return, history
<1>2. Origins' /\ Finished' /\ Running'
  BY DEF IInv, TypeOK, Origins, Finished, Running, Return, history
<1>3. Steady'
  BY DEF IInv, TypeOK, Steady, Return, history
<1>4. PublishedKeyFound'
  BY DEF IInv, TypeOK, PublishedKeyFound, Return, history
<1>5. OnlyPublishedKeys'
  BY DEF IInv, TypeOK, OnlyPublishedKeys, Return, history
<1> QED BY <1>1, <1>2, <1>3, <1>4, <1>5 DEF IInv

\* A key taken out of the cache, for the id of the token or for none.
LEMMA DecideStep ==
  ASSUME IInv, NEW r \in Requests, NEW from \in {"lookup", "asked", "again"},
         NEW kid \in {token[r].kid, NoKid}, kid \in DOMAIN cache, Decide(r, from, cache[kid]),
         UNCHANGED <<cache, published, rotations, answer, history>>
  PROVE  IInv'
<1>1. cache \in ever
  BY KeysAssumption DEF KeysAssumption, IInv, Origins
<1>2. Checked(token[r], cache[kid]) =>
        \E set \in ever : \/ Holds(set, token[r])
                          \/ NoKid \in DOMAIN set /\ set[NoKid] = token[r].key
  BY <1>1 DEF Checked, Holds
<1>3. CASE Checked(token[r], cache[kid])
  <2>1. Return(r, from, "accepted")
    BY <1>3 DEF Decide
  <2> QED BY <1>2, <1>3, <2>1, ReturnStep DEF Verdicts
<1>4. CASE ~Checked(token[r], cache[kid])
  <2>1. Return(r, from, "rejected")
    BY <1>4 DEF Decide
  <2> QED BY <2>1, ReturnStep DEF Verdicts
<1> QED BY <1>3, <1>4

LEMMA LookupStep == ASSUME IInv, NEW r \in Requests, Lookup(r) PROVE IInv'
<1>1. UNCHANGED <<cache, published, rotations, answer, history>>
  BY DEF Lookup
<1>2. CASE token[r].kid \in DOMAIN cache
  <2>1. Decide(r, "lookup", cache[token[r].kid])
    BY <1>2 DEF Lookup
  <2> QED BY <1>1, <1>2, <2>1, DecideStep
<1>3. CASE token[r].kid \notin DOMAIN cache /\ NoKid \in DOMAIN cache
  <2>1. Decide(r, "lookup", cache[NoKid])
    BY <1>3 DEF Lookup
  <2> QED BY <1>1, <1>3, <2>1, DecideStep
<1>4. CASE token[r].kid \notin DOMAIN cache /\ NoKid \notin DOMAIN cache
  <2>1. Goto(r, "lookup", "asked")
    BY <1>4 DEF Lookup
  <2>2. TypeOK' /\ Origins' /\ Finished' /\ Running'
    BY <1>1, <2>1 DEF Goto, history, IInv, TypeOK, Origins, Finished, Running
  <2>3. Steady' /\ PublishedKeyFound' /\ OnlyPublishedKeys'
    BY <1>1, <2>1 DEF Goto, history, IInv, TypeOK, Steady, PublishedKeyFound, OnlyPublishedKeys
  <2> QED BY <2>2, <2>3 DEF IInv
<1> QED BY <1>2, <1>3, <1>4

LEMMA AnsweredStep == ASSUME IInv, NEW r \in Requests, Answered(r) PROVE IInv'
<1>1. TypeOK'
  BY DEF Answered, Goto, history, IInv, TypeOK
<1>2. Origins' /\ Finished' /\ Running'
  BY DEF Answered, Goto, history, IInv, TypeOK, Origins, Finished, Running
<1>3. Steady'
  <2> SUFFICES ASSUME NEW p \in steady \cap clear, NEW q \in Requests
               PROVE  /\ step'[q] = "fetched" => Holds(answer'[q], token[p])
                      /\ step'[p] = "again" => Holds(cache, token[p])
    BY DEF Answered, Goto, history, Steady, Holds
  <2>1. step'[q] = "fetched" => Holds(answer'[q], token[p])
    BY DEF Answered, Goto, IInv, TypeOK, Running, Steady
  <2>2. step'[p] = "again" => Holds(cache, token[p])
    BY DEF Answered, Goto, IInv, TypeOK, Steady
  <2> QED BY <2>1, <2>2
<1>4. PublishedKeyFound' /\ OnlyPublishedKeys'
  BY DEF Answered, Goto, history, IInv, PublishedKeyFound, OnlyPublishedKeys
<1> QED BY <1>1, <1>2, <1>3, <1>4 DEF IInv

LEMMA ReplaceStep == ASSUME IInv, NEW r \in Requests, Replace(r) PROVE IInv'
<1>1. answer[r] \in ever /\ step[r] = "fetched"
  BY DEF Replace, Goto, IInv, Origins
<1>2. TypeOK'
  BY DEF Replace, Goto, history, IInv, TypeOK
<1>3. Origins' /\ Finished' /\ Running'
  BY <1>1 DEF Replace, Goto, history, IInv, TypeOK, Origins, Finished, Running
<1>4. Steady'
  <2> SUFFICES ASSUME NEW p \in steady \cap clear, NEW q \in Requests
               PROVE  /\ step'[q] = "fetched" => Holds(answer'[q], token[p])
                      /\ step'[p] = "again" => Holds(cache', token[p])
    BY DEF Replace, Goto, history, Steady, Holds
  <2>1. step'[q] = "fetched" => Holds(answer'[q], token[p])
    BY DEF Replace, Goto, IInv, TypeOK, Steady
  <2>2. Holds(cache', token[p])
    BY <1>1 DEF Replace, IInv, Steady
  <2> QED BY <2>1, <2>2
<1>5. PublishedKeyFound' /\ OnlyPublishedKeys'
  BY DEF Replace, Goto, history, IInv, PublishedKeyFound, OnlyPublishedKeys
<1> QED BY <1>2, <1>3, <1>4, <1>5 DEF IInv

LEMMA LookAgainStep == ASSUME IInv, NEW r \in Requests, LookAgain(r) PROVE IInv'
<1>1. UNCHANGED <<cache, published, rotations, answer, history>> /\ step[r] = "again"
  BY DEF LookAgain
<1>2. CASE token[r].kid \in DOMAIN cache
  <2>1. Decide(r, "again", cache[token[r].kid])
    BY <1>2 DEF LookAgain
  <2> QED BY <1>1, <1>2, <2>1, DecideStep
<1>3. CASE token[r].kid \notin DOMAIN cache
  <2>1. Return(r, "again", "unknown")
    BY <1>3 DEF LookAgain
  <2>2. r \notin steady \cap clear
    BY <1>1, <1>3 DEF IInv, Steady, Holds
  <2> QED BY <1>1, <2>1, <2>2, ReturnStep DEF Verdicts
<1> QED BY <1>2, <1>3

LEMMA RespondStep == ASSUME IInv, NEW r \in Requests, Respond(r) PROVE IInv'
<1>1. TypeOK'
  BY DEF Respond, IInv, TypeOK, Verdicts
<1>2. Origins' /\ Finished' /\ Running'
  BY DEF Respond, IInv, TypeOK, Origins, Finished, Running
<1>3. Steady' /\ PublishedKeyFound' /\ OnlyPublishedKeys'
  BY DEF Respond, IInv, TypeOK, Steady, PublishedKeyFound, OnlyPublishedKeys
<1> QED BY <1>1, <1>2, <1>3 DEF IInv

LEMMA NextIInv == IInv /\ [Next]_vars => IInv'
<1> SUFFICES ASSUME IInv, [Next]_vars PROVE IInv'
  OBVIOUS
<1>1. CASE Rotate
  BY <1>1, RotateStep
<1>2. ASSUME NEW r \in Requests, NEW t \in Tokens, Begin(r, t) PROVE IInv'
  BY <1>2, BeginStep
<1>3. ASSUME NEW r \in Requests, Lookup(r) \/ Answered(r) PROVE IInv'
  BY <1>3, LookupStep, AnsweredStep
<1>4. ASSUME NEW r \in Requests, FetchFails(r) PROVE IInv'
  BY <1>4, ReturnStep DEF FetchFails, Verdicts
<1>5. ASSUME NEW r \in Requests, Replace(r) \/ LookAgain(r) \/ Respond(r) PROVE IInv'
  BY <1>5, ReplaceStep, LookAgainStep, RespondStep
<1>6. CASE UNCHANGED vars
  BY <1>6 DEF vars, local, history, IInv, TypeOK, Origins, Finished, Running, Steady,
     PublishedKeyFound, OnlyPublishedKeys
<1> QED BY <1>1, <1>2, <1>3, <1>4, <1>5, <1>6 DEF Next

LEMMA Invariance == Spec => []IInv
BY InitIInv, NextIInv, PTL DEF Spec

\* The state of the cache and of the requests, authmw.go:107-271.
THEOREM CacheTypes == Spec => []TypeOK
<1>1. IInv => TypeOK
  BY DEF IInv
<1> QED BY <1>1, Invariance, PTL

\* authmw.go:92-94, with any number of requests that fetch at once: a token whose
\* key stays published is not refused for an unknown key, unless an answer from
\* before its start is still to be stored.
THEOREM KeyFound == Spec => []PublishedKeyFound
<1>1. IInv => PublishedKeyFound
  BY DEF IInv
<1> QED BY <1>1, Invariance, PTL

\* authmw.go:201-241: nobody gets in but with a key the SSO has published.
THEOREM KeyPublished == Spec => []OnlyPublishedKeys
<1>1. IInv => OnlyPublishedKeys
  BY DEF IInv
<1> QED BY <1>1, Invariance, PTL
=============================================================================
