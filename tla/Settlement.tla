----------------------------- MODULE Settlement -----------------------------
(***************************************************************************)
(* Settlement periods of one site: CreatePeriod and CalculateAndClose of   *)
(* SettlementService in goroutines of their own, while plans complete and  *)
(* readings arrive.                                                        *)
(*                                                                         *)
(* A calculation reads the period, the completed plans of its window and   *)
(* the energy of each plan with a statement each, and commits the entries  *)
(* together with the closed period, if the period's version is still the   *)
(* one it has read.  "calculating" is only ever a status of its copy.      *)
(* Amounts of money are a function of an entry's energy and are left out.  *)
(***************************************************************************)
EXTENDS StoredTime, FiniteSets

CONSTANTS
    Plans, Periods, Users,
    Requests,           \* goroutines that may serve requests at the same time
    NoUser,             \* closed_by NULL
    PlanWindow,         \* [start, end] of each plan
    PeriodWindow,       \* [start, end] of each period, all different
    Deltas,             \* energy_delta_wh of a reading, of either sign
    MaxEnergy,          \* bound: the energy recorded for a plan
    MaxTime             \* bound: the last instant

Window == [start : Int, end : Int]
ASSUME WindowAssumption ==
    PlanWindow \in [Plans -> Window] /\ PeriodWindow \in [Periods -> Window]
ASSUME InputAssumption ==
    Deltas \subseteq Int /\ MaxEnergy \in Nat /\ MaxTime \in Nat /\ NoUser \notin Users

VARIABLES
    now,
    completed,      \* dispatch_plans whose status is completed
    energy,         \* telemetry_snapshots: the sum of the readings of each plan
    period,         \* settlement_periods
    entries,        \* settlement_entries
    audits,         \* audit_events about periods
    calculating     \* CalculateAndClose between its reads and its commit

rows == <<completed, energy, period, entries, audits>>
vars == <<now, rows, calculating>>

NoPeriod == [status |-> "none", version |-> 0, closedBy |-> NoUser]

Init ==
    /\ now = 0
    /\ completed = {} /\ energy = [p \in Plans |-> 0]
    /\ period = [i \in Periods |-> NoPeriod]
    /\ entries = {} /\ audits = {}
    /\ calculating = {}

Free(r) == \A q \in calculating : q.id # r

Tick == now < MaxTime /\ now' = now + 1 /\ UNCHANGED <<rows, calculating>>

\* A request is refused, loses its client or its process, or its commit fails.
Leave(q) ==
    /\ q \in calculating
    /\ calculating' = calculating \ {q}
    /\ UNCHANGED <<now, rows>>

------------------------------------------------------------------------------
(* The plans and their readings *)

\* Plan.Complete and its UpdatePlan: a plan with energy completes, and stays so.
\* Nothing calls it yet.  It would also ask for a plan under way whose jobs have
\* all succeeded; neither is kept here, so a plan may complete at any time.
CompletePlan(p) ==
    /\ p \notin completed /\ energy[p] > 0
    /\ completed' = completed \cup {p}
    /\ UNCHANGED <<now, energy, period, entries, audits, calculating>>

\* A reading observed in the window of the plan's reservation, however late it comes.
Reading(p, delta) ==
    /\ energy[p] + delta \in -MaxEnergy..MaxEnergy
    /\ energy' = [energy EXCEPT ![p] = energy[p] + delta]
    /\ UNCHANGED <<now, completed, period, entries, audits, calculating>>

------------------------------------------------------------------------------
(* CreatePeriod *)

\* NewPeriod and InsertPeriod: one period for each window, but windows may overlap.
CreatePeriod(i) ==
    /\ period[i].status = "none"
    /\ period' = [period EXCEPT ![i] = [status |-> "open", version |-> 1, closedBy |-> NoUser]]
    /\ UNCHANGED <<now, completed, energy, entries, audits, calculating>>

------------------------------------------------------------------------------
(* CalculateAndClose *)

\* PeriodByID, and an open period of the version the client names: the one read.
\* due: the plans that have completed by now.
CalculateRead(r, user, i) ==
    /\ Free(r) /\ period[i].status = "open"
    /\ calculating' = calculating \cup
           {[id |-> r, user |-> user, period |-> i, version |-> period[i].version,
             step |-> "list", plans |-> {}, drafts |-> {}, due |-> completed]}
    /\ UNCHANGED <<now, rows>>

\* Slip: any plan that overlaps the period.
CoversAny(i, p) ==
    /\ TextLE(PeriodWindow[i].start, PlanWindow[p].end)
    /\ TextLE(PlanWindow[p].start, PeriodWindow[i].end)

\* Slip: a plan that has an entry in another period is left out.
CoversUnsettled(i, p) ==
    /\ TextLE(PeriodWindow[i].start, PlanWindow[p].start)
    /\ TextLE(PlanWindow[p].end, PeriodWindow[i].end)
    /\ \A e \in entries : e.plan # p

\* starts_at >= ? AND ends_at <= ?, over texts.
Covers(i, p) ==
    /\ TextLE(PeriodWindow[i].start, PlanWindow[p].start)
    /\ TextLE(PlanWindow[p].end, PeriodWindow[i].end)

\* CompletedPlansForPeriod; the rows it reads again one by one have not changed.
CalculateList(q) ==
    /\ q \in calculating /\ q.step = "list"
    /\ calculating' = (calculating \ {q}) \cup
           {[q EXCEPT !.step = "begin", !.plans = {p \in completed : Covers(q.period, p)}]}
    /\ UNCHANGED <<now, rows>>

\* Period.Begin: the clock is read after the list.
HasEnded(i) == now >= PeriodWindow[i].end

\* Period.Begin on the copy; the two counts it compares are the same number.
CalculateBegin(q) ==
    /\ q \in calculating /\ q.step = "begin" /\ HasEnded(q.period) /\ q.plans # {}
    /\ calculating' = (calculating \ {q}) \cup {[q EXCEPT !.step = "sum"]}
    /\ UNCHANGED <<now, rows>>

Drafted(q) == {d.plan : d \in q.drafts}

\* ActualEnergyForPlan and NewEntry, which refuses negative energy: then the
\* whole calculation fails.
CalculateEntry(q, p) ==
    /\ q \in calculating /\ q.step = "sum" /\ p \in q.plans \ Drafted(q) /\ energy[p] >= 0
    /\ calculating' = (calculating \ {q}) \cup
           {[q EXCEPT !.drafts = q.drafts \cup {[plan |-> p, actual |-> energy[p]]}]}
    /\ UNCHANGED <<now, rows>>

\* Slip: the UPDATE of settlement_periods asks for its id alone.
UnchangedSinceAny(q) == TRUE

\* The condition of the UPDATE of settlement_periods.
UnchangedSince(q) == period[q.period].version = q.version

\* ON CONFLICT(period_id,plan_id) DO NOTHING.
Inserted(q) ==
    {[period |-> q.period, plan |-> d.plan, actual |-> d.actual] :
        d \in {x \in q.drafts : \A e \in entries : e.period = q.period => e.plan # x.plan}}

\* Period.Close and InsertEntriesAtomic with its event: the version rises by two.
CalculateClose(q) ==
    /\ q \in calculating /\ q.step = "sum" /\ q.plans = Drafted(q)
    /\ UnchangedSince(q)
    /\ entries' = entries \cup Inserted(q)
    /\ period' = [period EXCEPT ![q.period] =
                      [status |-> "closed", version |-> q.version + 2, closedBy |-> q.user]]
    /\ audits' = audits \cup {[period |-> q.period, user |-> q.user,
                               count |-> Cardinality(q.drafts)]}
    /\ calculating' = calculating \ {q}
    /\ UNCHANGED <<now, completed, energy>>

------------------------------------------------------------------------------

Next ==
    \/ Tick
    \/ \E p \in Plans : CompletePlan(p) \/ \E delta \in Deltas : Reading(p, delta)
    \/ \E i \in Periods : CreatePeriod(i)
    \/ \E r \in Requests, user \in Users, i \in Periods : CalculateRead(r, user, i)
    \/ \E q \in calculating :
        \/ CalculateList(q) \/ CalculateBegin(q) \/ CalculateClose(q) \/ Leave(q)
        \/ \E p \in q.plans : CalculateEntry(q, p)

Spec == Init /\ [][Next]_vars

------------------------------------------------------------------------------
(* Properties *)

PeriodRow == [status : {"none", "open", "closed"}, version : Nat, closedBy : Users \cup {NoUser}]
Draft == [plan : Plans, actual : Nat]
Calculation == [id : Requests, user : Users, period : Periods, version : Nat,
                step : {"list", "begin", "sum"}, plans : SUBSET Plans, drafts : SUBSET Draft,
                due : SUBSET Plans]

\* The columns' types, and of the requests in flight.
TypeOK ==
    /\ now \in 0..MaxTime
    /\ completed \subseteq Plans /\ energy \in [Plans -> Int]
    /\ period \in [Periods -> PeriodRow]
    /\ \A e \in entries : e \in [period : Periods, plan : Plans, actual : Nat]
    /\ \A a \in audits : a \in [period : Periods, user : Users, count : Nat]
    /\ \A q \in calculating : q \in Calculation

EntriesOf(i) == {e \in entries : e.period = i}

\* A period is closed once, by one calculation: an open one has no entries, a closed
\* one has the event of whoever closed it, no other, and that event counts its
\* entries, one for each plan (InsertEntriesAtomic is all or nothing).
ClosedOnce ==
    \A i \in Periods :
        IF period[i].status = "closed"
        THEN /\ {a \in audits : a.period = i} =
                   {[period |-> i, user |-> period[i].closedBy, count |-> Cardinality(EntriesOf(i))]}
             /\ \A d, e \in EntriesOf(i) : d.plan = e.plan => d = e
        ELSE EntriesOf(i) = {} /\ \A a \in audits : a.period # i

\* What is settled belongs there: the period has ended, and the plan has completed
\* and lies in the period but for less than a second (CompletedPlansForPeriod
\* compares texts, Period.Begin the clock).
EntriesBelong ==
    \A e \in entries :
        /\ now >= PeriodWindow[e.period].end
        /\ e.plan \in completed
        /\ PlanWindow[e.plan].start > PeriodWindow[e.period].start - Second
        /\ PlanWindow[e.plan].end < PeriodWindow[e.period].end + Second

\* Settled entries are never changed, removed or added to, whatever readings and
\* calculations come later: they appear with the closing of their period.
SettledIsFinal ==
    [][/\ entries \subseteq entries'
       /\ \A e \in entries' \ entries :
              period[e.period].status = "open" /\ period'[e.period].status = "closed"]_vars

WellInside(i, p) ==
    /\ PeriodWindow[i].start + Second <= PlanWindow[p].start
    /\ PlanWindow[p].end + Second <= PeriodWindow[i].end

\* A calculation that closes a period settles every plan that had completed when it
\* began and lies a second inside the period ("all completed plans must be included
\* in settlement", Period.Begin).
NobodyForgotten ==
    [][\A q \in calculating :
          period[q.period].status # "closed" /\ period'[q.period].status = "closed"
          /\ q \notin calculating' =>
              \A p \in q.due : WellInside(q.period, p) =>
                  \E e \in entries' : e.period = q.period /\ e.plan = p]_vars
=============================================================================
