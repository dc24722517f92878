------------------------------ MODULE KeyCache ------------------------------
(***************************************************************************)
(* internal/authmw/authmw.go: how a request is let in.  The public keys of *)
(* the SSO are cached by key id; a request that meets an unknown id        *)
(* fetches the whole set and replaces the cache with it.  The fetch runs   *)
(* without the lock, so other requests may replace the cache meanwhile,    *)
(* also with an older set.                                                 *)
(***************************************************************************)
EXTENDS Integers

CONSTANTS
  Requests,      \* goroutines that verify a token
  Tokens,        \* what they bring: kid, the key that signed, other checks passed
  KeySets,       \* what the SSO may publish: functions from key ids to keys
  NoKid,         \* the key id ""
  NoKeys,        \* the empty set of keys
  NoToken,
  MaxRotations   \* bound of the model: changes of the published set

ASSUME KeysAssumption ==
  /\ MaxRotations \in Nat
  /\ NoToken \notin Tokens
  /\ DOMAIN NoKeys = {}
  /\ \A t \in Tokens : t.good \in BOOLEAN

VARIABLES
  cache,      \* Verifier.keys
  published,  \* the set the SSO serves now
  rotations,
  token,      \* the token each request brings
  step,       \* where the request is in Verify
  answer,     \* the set it has fetched
  verdict,    \* what Verify returned
  steady,     \* its key was published from the start of the request on (history)
  clear,      \* nobody held a fetched set when it started (history)
  ever        \* all sets published so far (history)

local   == <<token, step, answer, verdict>>
history == <<steady, clear, ever>>
vars    == <<cache, published, rotations, local, history>>

Verdicts == {"none", "accepted", "unknown", "unreachable", "rejected"}

TypeOK ==
  /\ cache \in KeySets \cup {NoKeys} /\ published \in KeySets
  /\ rotations \in 0..MaxRotations
  /\ token \in [Requests -> Tokens \cup {NoToken}]
  /\ step \in [Requests -> {"idle", "lookup", "asked", "fetched", "again", "done"}]
  /\ answer \in [Requests -> KeySets \cup {NoKeys}]
  /\ verdict \in [Requests -> Verdicts]
  /\ steady \subseteq Requests /\ clear \subseteq Requests
  /\ ever \subseteq KeySets

\* New: nothing is fetched before the first request (main.go pins no key).
Init ==
  /\ cache = NoKeys /\ published \in KeySets /\ rotations = 0
  /\ token = [r \in Requests |-> NoToken]
  /\ step = [r \in Requests |-> "idle"]
  /\ answer = [r \in Requests |-> NoKeys]
  /\ verdict = [r \in Requests |-> "none"]
  /\ steady = {} /\ clear = {}
  /\ ever = {published}

\* The set holds the key under the id of the token.
Holds(set, t) == t.kid \in DOMAIN set /\ set[t.kid] = t.key

\* The SSO publishes another set.
Rotate ==
  /\ rotations < MaxRotations /\ rotations' = rotations + 1
  /\ published' \in KeySets /\ ever' = ever \cup {published'}
  /\ steady' = {r \in steady : Holds(published', token[r])}
  /\ UNCHANGED <<cache, local, clear>>

Begin(r, t) ==
  /\ step[r] = "idle" /\ step' = [step EXCEPT ![r] = "lookup"]
  /\ token' = [token EXCEPT ![r] = t]
  /\ steady' = IF Holds(published, t) THEN steady \cup {r} ELSE steady \ {r}
  /\ clear' = IF \E q \in Requests : step[q] = "fetched" THEN clear \ {r}
              ELSE clear \cup {r}
  /\ UNCHANGED <<cache, published, rotations, answer, verdict, ever>>

Goto(r, from, to) ==
  /\ step[r] = from /\ step' = [step EXCEPT ![r] = to]
  /\ UNCHANGED <<token, verdict>>

Return(r, from, v) ==
  /\ step[r] = from /\ step' = [step EXCEPT ![r] = "done"]
  /\ verdict' = [verdict EXCEPT ![r] = v]
  /\ UNCHANGED token

CheckedKidOnly(t, key) == t.good  \* mutant: the signature is not compared
\* The rest of Verify, once it has a key: signature, expiry and issuer.
Checked(t, key) == t.key = key /\ t.good

Decide(r, from, key) ==
  Return(r, from, IF Checked(token[r], key) THEN "accepted" ELSE "rejected")

LookupOnce(r) ==  \* mutant: an unknown key id is looked for only in the first set
  /\ step[r] = "lookup"
  /\ LET kid == token[r].kid
     IN  IF kid \in DOMAIN cache THEN Decide(r, "lookup", cache[kid])
         ELSE IF NoKid \in DOMAIN cache THEN Decide(r, "lookup", cache[NoKid])
         ELSE IF cache = NoKeys THEN Goto(r, "lookup", "asked")
         ELSE Return(r, "lookup", "unknown")
  /\ UNCHANGED <<cache, published, rotations, answer, history>>
\* keyFor under the read lock; a key without an id serves every token.
Lookup(r) ==
  /\ step[r] = "lookup"
  /\ LET kid == token[r].kid
     IN  IF kid \in DOMAIN cache THEN Decide(r, "lookup", cache[kid])
         ELSE IF NoKid \in DOMAIN cache THEN Decide(r, "lookup", cache[NoKid])
         ELSE Goto(r, "lookup", "asked")
  /\ UNCHANGED <<cache, published, rotations, answer, history>>

\* fetchJWKS, no lock held: the SSO answers with the set it has now, or the call
\* fails, takes more than 5 seconds, or brings no key that can be used.
Answered(r) ==
  /\ Goto(r, "asked", "fetched")
  /\ answer' = [answer EXCEPT ![r] = published]
  /\ published # NoKeys
  /\ UNCHANGED <<cache, published, rotations, history>>

FetchFails(r) ==
  /\ Return(r, "asked", "unreachable")
  /\ UNCHANGED <<cache, published, rotations, answer, history>>

ReplaceMerged(r) ==  \* mutant: the old keys stay in the cache
  /\ Goto(r, "fetched", "again")
  /\ cache' = [k \in DOMAIN answer[r] \cup DOMAIN cache |->
                IF k \in DOMAIN answer[r] THEN answer[r][k] ELSE cache[k]]
  /\ answer' = [answer EXCEPT ![r] = NoKeys]
  /\ UNCHANGED <<published, rotations, history>>
ReplaceFirst(r) ==  \* mutant: a cache that holds keys is left alone
  /\ Goto(r, "fetched", "again")
  /\ cache' = IF cache = NoKeys THEN answer[r] ELSE cache
  /\ answer' = [answer EXCEPT ![r] = NoKeys]
  /\ UNCHANGED <<published, rotations, history>>
\* The write lock; whatever was stored in between is lost.
Replace(r) ==
  /\ Goto(r, "fetched", "again")
  /\ cache' = answer[r]
  /\ answer' = [answer EXCEPT ![r] = NoKeys]
  /\ UNCHANGED <<published, rotations, history>>

\* keyFor reads the cache again, as it is by now, and only by the id.
LookAgain(r) ==
  /\ step[r] = "again"
  /\ LET kid == token[r].kid
     IN  IF kid \in DOMAIN cache THEN Decide(r, "again", cache[kid])
         ELSE Return(r, "again", "unknown")
  /\ UNCHANGED <<cache, published, rotations, answer, history>>

\* requireAuth passes the request on or answers 401.
Respond(r) ==
  /\ step[r] = "done" /\ step' = [step EXCEPT ![r] = "idle"]
  /\ token' = [token EXCEPT ![r] = NoToken]
  /\ verdict' = [verdict EXCEPT ![r] = "none"]
  /\ steady' = steady \ {r} /\ clear' = clear \ {r}
  /\ UNCHANGED <<cache, published, rotations, answer, ever>>

Next ==
  \/ Rotate
  \/ \E r \in Requests :
       \/ \E t \in Tokens : Begin(r, t)
       \/ Lookup(r) \/ Answered(r) \/ FetchFails(r) \/ Replace(r)
       \/ LookAgain(r) \/ Respond(r)

Spec == Init /\ [][Next]_vars

\* Goroutines run, and the client gives a fetch 5 seconds.  Nobody has to send a
\* request, the SSO need not change its keys nor answer.
FairSpec ==
  /\ Spec
  /\ \A r \in Requests : /\ WF_vars(Lookup(r)) /\ WF_vars(Answered(r) \/ FetchFails(r))
                         /\ WF_vars(Replace(r)) /\ WF_vars(LookAgain(r)) /\ WF_vars(Respond(r))

-----------------------------------------------------------------------------
\* authmw.go:92-94, "re-fetched when an unknown key id is seen": a token whose
\* key was published all the time is not refused for an unknown key, except
\* while another request sits on a set it fetched before this one started.
PublishedKeyFound ==
  \A r \in steady \cap clear : verdict[r] # "unknown"

\* authmw.go:201-241: however fetches overlap, a request gets in only with the
\* signature of a key the SSO published at some time, for this key id or for none.
OnlyPublishedKeys ==
  \A r \in Requests : verdict[r] = "accepted" =>
    \E set \in ever : \/ Holds(set, token[r])
                      \/ NoKid \in DOMAIN set /\ set[NoKid] = token[r].key

Refused(r, t) == token[r] = t /\ verdict[r] \in {"unknown", "rejected"}
KeyStays(t)   == t.good /\ Holds(published, t)

\* authmw.go:201-271: the refusals that rotations and slow fetches cause do not last.
\* A good token whose key stays published is at last let in whenever the SSO answers,
\* provided that no key without an id stays in the way: keyFor takes that one for
\* every id (253) and fetches no more, so that later tokens with another key are
\* refused for as long as it stays.  In this run an id names the same key in all
\* sets; the code does not notice another key under an id it has, either.
RefusalsEnd ==
  \A t \in Tokens : <>[](KeyStays(t) /\ NoKid \notin DOMAIN cache)
                     => <>[](\A r \in Requests : ~Refused(r, t))
=============================================================================
