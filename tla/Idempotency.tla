----------------------------- MODULE Idempotency -----------------------------
(***************************************************************************)
(* Idempotency keys: Begin and Complete of IdempotencyService around an    *)
(* operation that must run once for each key, however often and however    *)
(* concurrently the client sends it.                                       *)
(*                                                                         *)
(* Begin looks the key up, judges what it finds on its copy of the row, or *)
(* inserts a row and lets the operation run; an insert that meets the      *)
(* unique key starts Begin again.  The look-up takes method, path and key  *)
(* as the caller gives them, the insert takes them normalised.             *)
(***************************************************************************)
EXTENDS StoredTime

CONSTANTS
    Scopes, Bodies, Responses,
    Spelling,           \* the normalised scope of each scope (Start)
    Records,            \* bound: ids of rows, one for each Begin under way
    Requests,           \* goroutines that may serve requests at the same time
    TTL,                \* lifetime of a key
    MaxTime             \* bound: the last instant

ASSUME SpellingAssumption ==
    /\ Spelling \in [Scopes -> Scopes]
    /\ \A s \in Scopes : Spelling[Spelling[s]] = Spelling[s]
ASSUME InputAssumption == Scopes # {} /\ Bodies # {} /\ Responses # {}
ASSUME TimeAssumption == TTL \in Nat /\ MaxTime \in Nat

VARIABLES
    now,
    key,            \* idempotency_keys
    beginning,      \* Begin between its look-up and its insert
    judging,        \* Begin with the row it has found
    executing,      \* requests that were told to run the operation
    replays         \* the answers that were replayed

vars == <<now, key, beginning, judging, executing, replays>>

NoKey == [status |-> "none", scope |-> CHOOSE s \in Scopes : TRUE,
          body |-> CHOOSE b \in Bodies : TRUE, response |-> CHOOSE x \in Responses : TRUE,
          expires |-> 0]

Init ==
    /\ now = 0 /\ key = [i \in Records |-> NoKey]
    /\ beginning = {} /\ judging = {} /\ executing = {} /\ replays = {}

InFlight == beginning \cup judging \cup executing
Free(r) == \A q \in InFlight : q.id # r
Stored(i) == key[i].status \in {"started", "completed"}

Tick == now < MaxTime /\ now' = now + 1 /\ UNCHANGED <<key, beginning, judging, executing, replays>>

\* A request ends: it has its answer, a statement fails, the process dies.
Leave(r) ==
    /\ ~Free(r)
    /\ beginning' = {q \in beginning : q.id # r}
    /\ judging' = {q \in judging : q.id # r}
    /\ executing' = {q \in executing : q.id # r}
    /\ UNCHANGED <<now, key, replays>>

------------------------------------------------------------------------------
(* Begin *)

BeginArrives(r, i, scope, body) ==
    /\ Free(r)
    /\ key[i].status = "none" /\ \A q \in InFlight : q.record # i
    /\ beginning' = beginning \cup {[id |-> r, record |-> i, step |-> "look",
                                     scope |-> scope, body |-> body, expires |-> 0]}
    /\ UNCHANGED <<now, key, judging, executing, replays>>

\* Slip: rows past their end are not returned.
FoundAlive(q) == {i \in Records : Stored(i) /\ key[i].scope = q.scope /\ now < key[i].expires}

\* IdempotencyByScope, with the scope as given.
Found(q) == {i \in Records : Stored(i) /\ key[i].scope = q.scope}

BeginFinds(q) ==
    /\ q \in beginning /\ q.step = "look"
    /\ \E i \in Found(q) :
           judging' = judging \cup {[id |-> q.id, record |-> i, scope |-> q.scope, body |-> q.body,
                                     row |-> key[i]]}
    /\ beginning' = beginning \ {q}
    /\ UNCHANGED <<now, key, executing, replays>>

\* Start.
BeginMisses(q) ==
    /\ q \in beginning /\ q.step = "look" /\ Found(q) = {}
    /\ beginning' = (beginning \ {q}) \cup {[q EXCEPT !.step = "insert", !.expires = now + TTL]}
    /\ UNCHANGED <<now, key, judging, executing, replays>>

\* Slip: the unique key has the body in it.
UniqueWithBody(q) ==
    \A j \in Records : Stored(j) => key[j].scope # Spelling[q.scope] \/ key[j].body # q.body

\* UNIQUE(actor_id, method, path, key_value), on the normalised scope.
Unique(q) == \A j \in Records : Stored(j) => key[j].scope # Spelling[q.scope]

\* InsertIdempotency.
BeginInserts(q) ==
    /\ q \in beginning /\ q.step = "insert" /\ Unique(q)
    /\ key' = [key EXCEPT ![q.record] = [NoKey EXCEPT !.status = "started",
                   !.scope = Spelling[q.scope], !.body = q.body, !.expires = q.expires]]
    /\ beginning' = beginning \ {q}
    /\ executing' = executing \cup {[id |-> q.id, record |-> q.record]}
    /\ UNCHANGED <<now, judging, replays>>

\* The conflict that makes Begin call itself.
BeginAgain(q) ==
    /\ q \in beginning /\ q.step = "insert" /\ ~Unique(q)
    /\ beginning' = (beginning \ {q}) \cup {[q EXCEPT !.step = "look"]}
    /\ UNCHANGED <<now, key, judging, executing, replays>>

\* Slip: Replay without Matches.
ReplayableAny(q) == now < q.row.expires /\ q.row.status = "completed"

\* Record.Replay, with the clock read after the row.
Replayable(q) == now < q.row.expires /\ q.row.body = q.body /\ q.row.status = "completed"

BeginReplays(q) ==
    /\ q \in judging /\ Replayable(q)
    /\ replays' = replays \cup {[record |-> q.record, scope |-> q.scope, body |-> q.body,
                                 response |-> q.row.response]}
    /\ judging' = judging \ {q}
    /\ UNCHANGED <<now, key, beginning, executing>>

\* Expired, in progress, or used with another body.
BeginRefuses(q) ==
    /\ q \in judging /\ ~Replayable(q)
    /\ judging' = judging \ {q}
    /\ UNCHANGED <<now, key, beginning, executing, replays>>

------------------------------------------------------------------------------
(* Complete, and the removal of old keys *)

\* Slip: the UPDATE asks for the id alone.
CompletableAny(i) == Stored(i)

\* The condition of CompleteIdempotency.
Completable(i) == key[i].status = "started"

\* Record.Complete works on the copy that Begin returned, which is always started,
\* so a caller that has missed the answer may complete again, with another response.
Complete(q, response) ==
    /\ q \in executing /\ Completable(q.record)
    /\ key' = [key EXCEPT ![q.record].status = "completed", ![q.record].response = response]
    /\ UNCHANGED <<now, beginning, judging, executing, replays>>

\* Slip: created_at instead of expires_at.
ExpiredByAge(i, at) == TextLE(key[i].expires - TTL, at)

\* The WHERE clause of DeleteExpiredIdempotency, over texts.
Expired(i, at) == TextLE(key[i].expires, at)

\* DeleteExpiredIdempotency with a clock that was read at some time before.
DeleteExpired(at) ==
    /\ at \in 0..now
    /\ key' = [i \in Records |-> IF Stored(i) /\ Expired(i, at)
                                 THEN [key[i] EXCEPT !.status = "deleted"] ELSE key[i]]
    /\ UNCHANGED <<now, beginning, judging, executing, replays>>

------------------------------------------------------------------------------

BeginStep(r) ==
    \/ \E q \in beginning : q.id = r /\ (BeginFinds(q) \/ BeginMisses(q) \/ BeginInserts(q)
                                         \/ BeginAgain(q))
    \/ \E q \in judging : q.id = r /\ (BeginReplays(q) \/ BeginRefuses(q))

Next ==
    \/ Tick
    \/ \E r \in Requests :
        \/ Leave(r)
        \/ \E i \in Records, scope \in Scopes, body \in Bodies : BeginArrives(r, i, scope, body)
        \/ BeginStep(r)
    \/ \E q \in executing, response \in Responses : Complete(q, response)
    \/ \E at \in 0..now : DeleteExpired(at)

Spec == Init /\ [][Next]_vars

\* A goroutine that is in Begin keeps running.
FairSpec == Spec /\ \A r \in Requests : WF_vars(BeginStep(r))

------------------------------------------------------------------------------
(* Properties *)

KeyRow == [status : {"none", "started", "completed", "deleted"}, scope : Scopes, body : Bodies,
           response : Responses, expires : Nat]

\* The columns' types, and of the requests in flight.
TypeOK ==
    /\ now \in 0..MaxTime
    /\ key \in [Records -> KeyRow]
    /\ \A q \in beginning : q \in [id : Requests, record : Records, step : {"look", "insert"},
                                   scope : Scopes, body : Bodies, expires : Nat]
    /\ \A q \in judging : q \in [id : Requests, record : Records, scope : Scopes, body : Bodies,
                                 row : KeyRow]
    /\ \A q \in executing : q \in [id : Requests, record : Records]
    /\ \A p \in replays : p \in [record : Records, scope : Scopes, body : Bodies,
                                 response : Responses]

\* The operation is run again for a key, in any spelling, only when the key has
\* expired, or would within the second: not for two requests at the same time, nor
\* for one whose first execution never answered (InsertIdempotency, Begin).
OneExecutionPerKey ==
    [][\A i, j \in Records :
          key[i].status = "none" /\ key'[i].status # "none" /\ j # i
          /\ key[j].status # "none" /\ key[j].scope = key'[i].scope
              => key[j].expires < now + Second]_vars

\* What was replayed is the answer to the same request, and stays the answer: no two
\* clients are told different things about one execution (Replay, Complete).
ReplaysAreAnswers ==
    \A p \in replays :
        /\ key[p.record].scope = p.scope /\ key[p.record].body = p.body
        /\ key[p.record].status \in {"completed", "deleted"}
        /\ key[p.record].response = p.response

\* Begin decides, whatever it finds and however often it conflicts, if the caller
\* spells the scope as Start does (Begin calls itself without a bound).
BeginDecides ==
    \A r \in Requests :
        (\E q \in beginning : q.id = r /\ Spelling[q.scope] = q.scope)
            ~> (\A q \in beginning : q.id # r)
=============================================================================
