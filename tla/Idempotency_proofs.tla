-------------------------- MODULE Idempotency_proofs --------------------------
(***************************************************************************)
(* A key runs its operation once while it lives, and what is replayed is   *)
(* the answer, for any number of requests, scopes and spellings, any       *)
(* lifetime and any resolution of the stored texts.                        *)
(*                                                                         *)
(* The first holds because a row leaves the unique index only when it is   *)
(* deleted, which is at most a second early.  The second because the       *)
(* columns a replay is taken from never change again once the row is       *)
(* completed, so a copy of the row stays good however old it is.           *)
(***************************************************************************)
EXTENDS Idempotency, StoredTime_proofs

\* A row that was deleted had expired, or would have within the second.
DeletedLate == \A i \in Records : key[i].status = "deleted" => key[i].expires < now + Second

\* A Begin under way has an id of its own, which no row has yet.
FreshRecords ==
    /\ \A q \in beginning : key[q.record].status = "none"
    /\ \A p, q \in beginning : p.record = q.record => p = q

\* The copy of a row and the row, which may have been completed or deleted since.
CopiesGood ==
    \A q \in judging :
        /\ key[q.record].status # "none"
        /\ q.scope = q.row.scope
        /\ key[q.record].scope = q.row.scope /\ key[q.record].body = q.row.body
        /\ q.row.status = "completed" =>
               /\ key[q.record].status \in {"completed", "deleted"}
               /\ key[q.record].response = q.row.response

IInv == DeletedLate /\ FreshRecords /\ CopiesGood

-----------------------------------------------------------------------------
(* Types *)

LEMMA NoKeyTyped == NoKey \in KeyRow
<1>1. (CHOOSE s \in Scopes : TRUE) \in Scopes /\ (CHOOSE b \in Bodies : TRUE) \in Bodies
      /\ (CHOOSE x \in Responses : TRUE) \in Responses
  BY InputAssumption
<1> QED BY <1>1 DEF NoKey, KeyRow

LEMMA InitType == Init => TypeOK
BY NoKeyTyped, TimeAssumption DEF Init, TypeOK

LEMMA StepType == TypeOK /\ [Next]_vars => TypeOK'
<1> SUFFICES ASSUME TypeOK, [Next]_vars PROVE TypeOK'
  OBVIOUS
<1> USE TimeAssumption
<1>1. now \in Nat /\ now <= MaxTime
  BY DEF TypeOK
<1>2. CASE UNCHANGED vars
  BY <1>2 DEF TypeOK, vars
<1>3. CASE Tick
  BY <1>3 DEF TypeOK, Tick
<1>4. ASSUME NEW r \in Requests, Leave(r) PROVE TypeOK'
  BY <1>4 DEF TypeOK, Leave
<1>5. ASSUME NEW r \in Requests, NEW i \in Records, NEW scope \in Scopes, NEW body \in Bodies,
             BeginArrives(r, i, scope, body)
      PROVE  TypeOK'
  BY <1>5 DEF TypeOK, BeginArrives
<1>6. ASSUME NEW q \in beginning, BeginFinds(q) PROVE TypeOK'
  BY <1>6 DEF TypeOK, BeginFinds, Found
<1>7. ASSUME NEW q \in beginning, BeginMisses(q) PROVE TypeOK'
  <2>1. now + TTL \in Nat
    BY <1>1
  <2> QED BY <1>7, <2>1 DEF TypeOK, BeginMisses
<1>8. ASSUME NEW q \in beginning, BeginInserts(q) PROVE TypeOK'
  <2>1. Spelling[q.scope] \in Scopes
    BY SpellingAssumption DEF TypeOK
  <2>2. [NoKey EXCEPT !.status = "started", !.scope = Spelling[q.scope], !.body = q.body,
                      !.expires = q.expires] \in KeyRow
    BY NoKeyTyped, <2>1 DEF TypeOK, KeyRow
  <2> QED BY <1>8, <2>2 DEF TypeOK, BeginInserts
<1>9. ASSUME NEW q \in beginning, BeginAgain(q) PROVE TypeOK'
  BY <1>9 DEF TypeOK, BeginAgain
<1>10. ASSUME NEW q \in judging, BeginReplays(q) PROVE TypeOK'
  BY <1>10 DEF TypeOK, BeginReplays, KeyRow
<1>11. ASSUME NEW q \in judging, BeginRefuses(q) PROVE TypeOK'
  BY <1>11 DEF TypeOK, BeginRefuses
<1>12. ASSUME NEW q \in executing, NEW x \in Responses, Complete(q, x) PROVE TypeOK'
  <2>1. \A i \in Records : [[key[i] EXCEPT !.status = "completed"] EXCEPT !.response = x] \in KeyRow
    BY DEF TypeOK, KeyRow
  <2>2. key' = [key EXCEPT ![q.record] =
                    [[key[q.record] EXCEPT !.status = "completed"] EXCEPT !.response = x]]
    BY <1>12 DEF Complete, TypeOK
  <2>3. key' \in [Records -> KeyRow]
    BY <2>1, <2>2 DEF TypeOK
  <2> QED BY <1>12, <2>3 DEF TypeOK, Complete
<1>13. ASSUME NEW at \in 0..now, DeleteExpired(at) PROVE TypeOK'
  <2>1. \A i \in Records : [key[i] EXCEPT !.status = "deleted"] \in KeyRow
    BY DEF TypeOK, KeyRow
  <2> QED BY <1>13, <2>1 DEF TypeOK, DeleteExpired
<1> QED BY <1>2, <1>3, <1>4, <1>5, <1>6, <1>7, <1>8, <1>9, <1>10, <1>11, <1>12, <1>13
    DEF Next, BeginStep

\* The columns and the requests keep their types (TypeOK).
THEOREM TypeCorrect == Spec => []TypeOK
BY InitType, StepType, PTL DEF Spec

-----------------------------------------------------------------------------
(* Rows advance *)

\* What no step takes back from a row that exists.
Advances(i) ==
    key[i].status # "none" =>
        /\ key'[i].status # "none"
        /\ key'[i].scope = key[i].scope /\ key'[i].body = key[i].body
        /\ key'[i].expires = key[i].expires
        /\ key[i].status \in {"completed", "deleted"} =>
               /\ key'[i].status \in {"completed", "deleted"}
               /\ key'[i].response = key[i].response

\* The ways in which one row can change (InsertIdempotency, CompleteIdempotency,
\* DeleteExpiredIdempotency).
LEMMA RowStep ==
    ASSUME TypeOK, FreshRecords, [Next]_vars, NEW i \in Records
    PROVE  \/ key'[i] = key[i]
           \/ \E q \in beginning :
                  /\ BeginInserts(q) /\ i = q.record /\ key[i].status = "none"
                  /\ key'[i].status = "started" /\ key'[i].scope = Spelling[q.scope]
           \/ \E x \in Responses :
                  /\ key[i].status = "started"
                  /\ key'[i] = [[key[i] EXCEPT !.status = "completed"] EXCEPT !.response = x]
           \/ \E at \in 0..now :
                  /\ Stored(i) /\ Expired(i, at)
                  /\ key'[i] = [key[i] EXCEPT !.status = "deleted"]
<1>1. ASSUME NEW q \in beginning, BeginInserts(q), key'[i] # key[i]
      PROVE  /\ i = q.record /\ key[i].status = "none"
             /\ key'[i].status = "started" /\ key'[i].scope = Spelling[q.scope]
  <2>1. i = q.record
    BY <1>1 DEF BeginInserts, TypeOK
  <2>2. key'[i] = [NoKey EXCEPT !.status = "started", !.scope = Spelling[q.scope],
                                !.body = q.body, !.expires = q.expires]
    BY <1>1, <2>1 DEF BeginInserts, TypeOK
  <2> QED BY <2>1, <2>2 DEF NoKey, FreshRecords
<1>2. ASSUME NEW q \in executing, NEW x \in Responses, Complete(q, x), key'[i] # key[i]
      PROVE  /\ key[i].status = "started"
             /\ key'[i] = [[key[i] EXCEPT !.status = "completed"] EXCEPT !.response = x]
  BY <1>2 DEF Complete, Completable, TypeOK
<1>3. ASSUME NEW at \in 0..now, DeleteExpired(at), key'[i] # key[i]
      PROVE  Stored(i) /\ Expired(i, at) /\ key'[i] = [key[i] EXCEPT !.status = "deleted"]
  BY <1>3 DEF DeleteExpired
<1> QED BY <1>1, <1>2, <1>3
    DEF Next, vars, BeginStep, Tick, Leave, BeginArrives, BeginFinds, BeginMisses, BeginAgain,
        BeginReplays, BeginRefuses

LEMMA RowsAdvance ==
    TypeOK /\ FreshRecords /\ [Next]_vars => \A i \in Records : Advances(i)
<1> SUFFICES ASSUME TypeOK, FreshRecords, [Next]_vars, NEW i \in Records,
                    key[i].status # "none"
             PROVE  Advances(i)
  BY DEF Advances
<1>1. key[i] \in KeyRow
  BY DEF TypeOK
<1>2. CASE key'[i] = key[i]
  BY <1>2 DEF Advances
<1>3. ASSUME NEW x, key[i].status = "started",
             key'[i] = [[key[i] EXCEPT !.status = "completed"] EXCEPT !.response = x]
      PROVE  Advances(i)
  BY <1>1, <1>3 DEF Advances, KeyRow
<1>4. ASSUME key'[i] = [key[i] EXCEPT !.status = "deleted"] PROVE Advances(i)
  BY <1>1, <1>4 DEF Advances, KeyRow
<1> QED BY <1>2, <1>3, <1>4, RowStep

LEMMA TimeAdvances == TypeOK /\ [Next]_vars => now \in Int /\ now' \in Int /\ now <= now'
<1> SUFFICES ASSUME TypeOK, [Next]_vars PROVE now \in Int /\ now' \in Int /\ now <= now'
  OBVIOUS
<1>1. now \in Int
  BY DEF TypeOK
<1>2. now' = now \/ now' = now + 1
  BY DEF Next, vars, BeginStep, Tick, Leave, BeginArrives, BeginFinds, BeginMisses,
         BeginInserts, BeginAgain, BeginReplays, BeginRefuses, Complete, DeleteExpired
<1> QED BY <1>1, <1>2

LEMMA InitSound == Init => IInv
BY DEF Init, IInv, DeletedLate, FreshRecords, CopiesGood, NoKey

LEMMA StepDeleted == TypeOK /\ IInv /\ [Next]_vars => DeletedLate'
<1> SUFFICES ASSUME TypeOK, IInv, [Next]_vars, NEW i \in Records, key'[i].status = "deleted"
             PROVE  key'[i].expires < now' + Second
  BY DEF DeletedLate
<1>1. key[i] \in KeyRow /\ key[i].expires \in Int /\ now \in Int /\ now' \in Int /\ now <= now'
      /\ Second \in Int
  BY TimeAdvances, SecondAssumption DEF TypeOK, KeyRow
<1>2. CASE key'[i] = key[i]
  BY <1>1, <1>2 DEF IInv, DeletedLate
<1>3. ASSUME NEW x, key'[i] = [[key[i] EXCEPT !.status = "completed"] EXCEPT !.response = x]
      PROVE  FALSE
  BY <1>1, <1>3 DEF KeyRow
<1>4. ASSUME NEW at \in 0..now, Expired(i, at), key'[i] = [key[i] EXCEPT !.status = "deleted"]
      PROVE  key'[i].expires < now' + Second
  <2>1. key[i].expires < at + Second
    BY <1>1, <1>4, EarlyByLessThanASecond DEF Expired
  <2>2. key'[i].expires = key[i].expires
    BY <1>1, <1>4 DEF KeyRow
  <2> QED BY <1>1, <2>1, <2>2
<1> QED BY <1>2, <1>3, <1>4, RowStep DEF IInv

LEMMA StepFresh == TypeOK /\ IInv /\ [Next]_vars => FreshRecords'
<1> SUFFICES ASSUME TypeOK, IInv, [Next]_vars PROVE FreshRecords'
  OBVIOUS
<1>0. \A q \in beginning : q.record \in Records
  BY DEF TypeOK
<1>1. ASSUME beginning' \subseteq beginning, \A q \in beginning' : key'[q.record] = key[q.record]
      PROVE  FreshRecords'
  BY <1>1 DEF IInv, FreshRecords
<1>2. ASSUME NEW r \in Requests, NEW i \in Records, NEW scope \in Scopes, NEW body \in Bodies,
             BeginArrives(r, i, scope, body)
      PROVE  FreshRecords'
  <2>1. PICK q : q = [id |-> r, record |-> i, step |-> "look",
                      scope |-> scope, body |-> body, expires |-> 0]
    OBVIOUS
  <2>2. beginning' = beginning \cup {q} /\ key' = key /\ key[i].status = "none"
        /\ \A p \in beginning : p.record # i
    BY <1>2, <2>1 DEF BeginArrives, InFlight
  <2> QED BY <2>1, <2>2 DEF IInv, FreshRecords
<1>3. ASSUME NEW q \in beginning, BeginMisses(q) \/ BeginAgain(q) PROVE FreshRecords'
  <2>1. ASSUME NEW r, r.record = q.record, beginning' = (beginning \ {q}) \cup {r}, key' = key
        PROVE  FreshRecords'
    BY <2>1 DEF IInv, FreshRecords
  <2>2. /\ [q EXCEPT !.step = "insert", !.expires = now + TTL].record = q.record
        /\ [q EXCEPT !.step = "look"].record = q.record
    BY DEF TypeOK
  <2> QED BY <1>3, <2>1, <2>2 DEF BeginMisses, BeginAgain
<1>4. ASSUME NEW q \in beginning, BeginInserts(q) PROVE FreshRecords'
  <2>1. beginning' = beginning \ {q}
    BY <1>4 DEF BeginInserts
  <2>2. \A p \in beginning' : p.record # q.record /\ key'[p.record] = key[p.record]
    BY <1>0, <1>4, <2>1 DEF BeginInserts, IInv, FreshRecords, TypeOK
  <2> QED BY <1>1, <2>1, <2>2
<1>5. ASSUME NEW q \in beginning, BeginFinds(q) PROVE FreshRecords'
  BY <1>1, <1>5 DEF BeginFinds
<1>6. ASSUME NEW q \in executing, NEW x \in Responses, Complete(q, x) PROVE FreshRecords'
  <2>1. \A p \in beginning : p.record # q.record
    BY <1>6 DEF Complete, Completable, IInv, FreshRecords
  <2>2. beginning' = beginning /\ \A p \in beginning : key'[p.record] = key[p.record]
    BY <1>0, <1>6, <2>1 DEF Complete, TypeOK
  <2> QED BY <1>1, <2>2
<1>7. ASSUME NEW at \in 0..now, DeleteExpired(at) PROVE FreshRecords'
  <2>1. beginning' = beginning /\ \A p \in beginning : key'[p.record] = key[p.record]
    BY <1>0, <1>7 DEF DeleteExpired, Stored, IInv, FreshRecords
  <2> QED BY <1>1, <2>1
<1>8. CASE key' = key /\ beginning' \subseteq beginning
  BY <1>1, <1>8
<1> QED BY <1>2, <1>3, <1>4, <1>5, <1>6, <1>7, <1>8
    DEF Next, vars, BeginStep, Tick, Leave, BeginReplays, BeginRefuses

LEMMA StepCopies == TypeOK /\ IInv /\ [Next]_vars => CopiesGood'
<1> SUFFICES ASSUME TypeOK, IInv, [Next]_vars PROVE CopiesGood'
  OBVIOUS
<1>1. \A q \in judging :
        /\ key'[q.record].status # "none"
        /\ q.scope = q.row.scope
        /\ key'[q.record].scope = q.row.scope /\ key'[q.record].body = q.row.body
        /\ q.row.status = "completed" =>
               /\ key'[q.record].status \in {"completed", "deleted"}
               /\ key'[q.record].response = q.row.response
  <2> SUFFICES ASSUME NEW q \in judging
               PROVE  /\ key'[q.record].status # "none"
                      /\ q.scope = q.row.scope
                      /\ key'[q.record].scope = q.row.scope /\ key'[q.record].body = q.row.body
                      /\ q.row.status = "completed" =>
                             /\ key'[q.record].status \in {"completed", "deleted"}
                             /\ key'[q.record].response = q.row.response
    OBVIOUS
  <2>1. Advances(q.record)
    BY RowsAdvance DEF IInv, TypeOK
  <2> QED BY <2>1 DEF IInv, CopiesGood, Advances
<1>2. CASE judging' \subseteq judging
  BY <1>1, <1>2 DEF CopiesGood
<1>3. ASSUME NEW q \in beginning, BeginFinds(q) PROVE CopiesGood'
  <2>1. PICK i \in Found(q) :
            judging' = judging \cup {[id |-> q.id, record |-> i, scope |-> q.scope,
                                      body |-> q.body, row |-> key[i]]}
    BY <1>3 DEF BeginFinds
  <2>2. i \in Records /\ Stored(i) /\ key[i].scope = q.scope
    BY DEF Found
  <2>3. key' = key
    BY <1>3 DEF BeginFinds
  <2> QED BY <1>1, <2>1, <2>2, <2>3 DEF CopiesGood, Stored
<1> QED BY <1>2, <1>3
    DEF Next, vars, BeginStep, Tick, Leave, BeginArrives, BeginMisses, BeginInserts, BeginAgain,
        BeginReplays, BeginRefuses, Complete, DeleteExpired

\* Requests in flight and rows are in step.
THEOREM KeysSound == Spec => [](TypeOK /\ IInv)
<1>1. TypeOK /\ IInv /\ [Next]_vars => IInv'
  BY StepDeleted, StepFresh, StepCopies DEF IInv
<1> QED BY <1>1, InitType, InitSound, StepType, PTL DEF Spec

-----------------------------------------------------------------------------
(* The properties *)

\* While a key lives its operation is not run again (OneExecutionPerKey).
THEOREM ExecutedOnce == Spec => OneExecutionPerKey
<1>1. TypeOK /\ IInv /\ [Next]_vars =>
        [\A i, j \in Records :
            key[i].status = "none" /\ key'[i].status # "none" /\ j # i
            /\ key[j].status # "none" /\ key[j].scope = key'[i].scope
                => key[j].expires < now + Second]_vars
  <2> SUFFICES ASSUME TypeOK, IInv, [Next]_vars, NEW i \in Records, NEW j \in Records,
                      key[i].status = "none", key'[i].status # "none", j # i,
                      key[j].status # "none", key[j].scope = key'[i].scope
               PROVE  key[j].expires < now + Second
    OBVIOUS
  <2>1. PICK q \in beginning : BeginInserts(q) /\ key'[i].scope = Spelling[q.scope]
    BY RowStep DEF IInv, Stored
  <2>2. ~Stored(j)
    BY <2>1 DEF BeginInserts, Unique
  <2>3. key[j].status = "deleted"
    BY <2>2 DEF Stored, TypeOK, KeyRow
  <2> QED BY <2>3 DEF IInv, DeletedLate
<1> QED BY <1>1, KeysSound, PTL DEF Spec, OneExecutionPerKey

\* What was replayed is the one answer to the request (ReplaysAreAnswers).
THEOREM AnswersReplayed == Spec => []ReplaysAreAnswers
<1>1. Init => ReplaysAreAnswers
  BY DEF Init, ReplaysAreAnswers
<1>2. TypeOK /\ IInv /\ ReplaysAreAnswers /\ [Next]_vars => ReplaysAreAnswers'
  <2> SUFFICES ASSUME TypeOK, IInv, ReplaysAreAnswers, [Next]_vars PROVE ReplaysAreAnswers'
    OBVIOUS
  <2>1. \A p \in replays :
          /\ key'[p.record].scope = p.scope /\ key'[p.record].body = p.body
          /\ key'[p.record].status \in {"completed", "deleted"}
          /\ key'[p.record].response = p.response
    <3> SUFFICES ASSUME NEW p \in replays
                 PROVE  /\ key'[p.record].scope = p.scope /\ key'[p.record].body = p.body
                        /\ key'[p.record].status \in {"completed", "deleted"}
                        /\ key'[p.record].response = p.response
      OBVIOUS
    <3>1. Advances(p.record)
      BY RowsAdvance DEF IInv, TypeOK
    <3> QED BY <3>1 DEF ReplaysAreAnswers, Advances
  <2>2. CASE UNCHANGED replays
    BY <2>1, <2>2 DEF ReplaysAreAnswers
  <2>3. ASSUME NEW q \in judging, BeginReplays(q) PROVE ReplaysAreAnswers'
    <3>1. q.row.body = q.body /\ q.row.status = "completed" /\ key' = key
      BY <2>3 DEF BeginReplays, Replayable
    <3>2. /\ key[q.record].scope = q.scope /\ key[q.record].body = q.body
          /\ key[q.record].status \in {"completed", "deleted"}
          /\ key[q.record].response = q.row.response
      BY <3>1 DEF IInv, CopiesGood
    <3> QED BY <2>1, <2>3, <3>1, <3>2 DEF BeginReplays, ReplaysAreAnswers
  <2> QED BY <2>2, <2>3
      DEF Next, vars, BeginStep, Tick, Leave, BeginArrives, BeginFinds, BeginMisses,
          BeginInserts, BeginAgain, BeginRefuses, Complete, DeleteExpired
<1> QED BY <1>1, <1>2, KeysSound, PTL DEF Spec
=============================================================================
