------------------------------ MODULE JobLedger ------------------------------
(***************************************************************************)
(* What the execution jobs promise to the devices' owner: a ledger of      *)
(* attempts.  Executors are given jobs that are open, and each giving is a *)
(* new attempt that takes the job away from whoever had it.  An answer     *)
(* counts only if it is the holder's, for the attempt that is open; every  *)
(* other answer is dropped.  There are no clocks, leases, versions,        *)
(* statements or processes here.                                           *)
(***************************************************************************)
EXTENDS Naturals

CONSTANTS Jobs, Executors, NoOne

VARIABLES
    verdict,    \* of each job: "open" until the ledger has one
    holder,     \* who has the open attempt, if anybody
    attempt,    \* how often the job was given
    working     \* attempts somebody is still busy with

ledger == <<verdict, holder, attempt, working>>

Verdicts == {"open", "succeeded", "permanent_failure"}

Init ==
    /\ verdict = [j \in Jobs |-> "open"]
    /\ holder = [j \in Jobs |-> NoOne]
    /\ attempt = [j \in Jobs |-> 0]
    /\ working = {}

Attempt(e, j, n) == [by |-> e, job |-> j, number |-> n]

\* Executor e, which is busy with nothing, is given the open jobs S.
Give(e, S) ==
    /\ \A w \in working : w.by # e
    /\ \A j \in S : verdict[j] = "open"
    /\ holder' = [j \in Jobs |-> IF j \in S THEN e ELSE holder[j]]
    /\ attempt' = [j \in Jobs |-> IF j \in S THEN attempt[j] + 1 ELSE attempt[j]]
    /\ working' = working \cup {Attempt(e, j, attempt[j] + 1) : j \in S}
    /\ UNCHANGED verdict

\* The answer to the attempt that is open; "open" asks for another attempt.
Answer(w, v) ==
    /\ w \in working /\ holder[w.job] = w.by /\ attempt[w.job] = w.number
    /\ verdict[w.job] = "open"
    /\ verdict' = [verdict EXCEPT ![w.job] = v]
    /\ holder' = [holder EXCEPT ![w.job] = NoOne]
    /\ working' = working \ {w}
    /\ UNCHANGED attempt

\* Attempts end without an answer, or with one that no longer counts.
Drop(W) ==
    /\ W \subseteq working
    /\ working' = working \ W
    /\ UNCHANGED <<verdict, holder, attempt>>

Next ==
    \/ \E e \in Executors, S \in SUBSET Jobs : Give(e, S)
    \/ \E w \in working, v \in Verdicts : Answer(w, v)
    \/ \E W \in SUBSET working : Drop(W)

Spec == Init /\ [][Next]_ledger
=============================================================================
