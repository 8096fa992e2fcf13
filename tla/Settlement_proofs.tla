-------------------------- MODULE Settlement_proofs --------------------------
(***************************************************************************)
(* Proofs about Settlement, for any plans, periods, windows, users and     *)
(* requests.                                                               *)
(*                                                                         *)
(* The inductive invariant says what each calculation has established so   *)
(* far, all of it true for good: its plans have completed and its period   *)
(* has ended.  That nobody else has closed the period is what the version  *)
(* it has read still tells it at the commit.                               *)
(***************************************************************************)
EXTENDS Settlement, StoredTime_proofs, FiniteSetTheorems

\* What a calculation knows.
Sound(q) ==
    /\ q.version = 1 /\ q.due \subseteq completed
    /\ IsFiniteSet(q.drafts)
    /\ \A d, e \in q.drafts : d.plan = e.plan => d = e
    /\ \A d \in q.drafts : d.plan \in q.plans
    /\ q.step = "list" => q.drafts = {}
    /\ q.step # "list" =>
        /\ \A p \in q.plans : p \in completed /\ Covers(q.period, p)
        /\ \A p \in q.due : WellInside(q.period, p) => p \in q.plans
    /\ q.step = "sum" => HasEnded(q.period)

AllSound == \A q \in calculating : Sound(q)

\* The version of a row tells its status.
VersionsTell ==
    \A i \in Periods :
        period[i].version = CASE period[i].status = "none" -> 0
                              [] period[i].status = "open" -> 1
                              [] period[i].status = "closed" -> 3

-----------------------------------------------------------------------------
(* Types *)

LEMMA InitType == Init => TypeOK
BY InputAssumption DEF Init, TypeOK, NoPeriod, PeriodRow

\* A calculation that goes on keeps its type.
LEMMA GoesOnType ==
    ASSUME TypeOK, NEW q \in calculating, NEW r \in Calculation,
           calculating' = (calculating \ {q}) \cup {r}, UNCHANGED <<now, rows>>
    PROVE  TypeOK'
BY DEF TypeOK, rows

LEMMA StepType == TypeOK /\ AllSound /\ [Next]_vars => TypeOK'
<1> SUFFICES ASSUME TypeOK, AllSound, [Next]_vars PROVE TypeOK'
  OBVIOUS
<1>1. CASE Tick
  BY <1>1, InputAssumption DEF Tick, TypeOK, rows
<1>2. ASSUME NEW p \in Plans, CompletePlan(p) PROVE TypeOK'
  BY <1>2 DEF CompletePlan, TypeOK
<1>3. ASSUME NEW p \in Plans, NEW delta \in Deltas, Reading(p, delta) PROVE TypeOK'
  BY <1>3, InputAssumption DEF Reading, TypeOK
<1>4. ASSUME NEW i \in Periods, CreatePeriod(i) PROVE TypeOK'
  BY <1>4 DEF CreatePeriod, TypeOK, PeriodRow
<1>5. ASSUME NEW r \in Requests, NEW user \in Users, NEW i \in Periods, CalculateRead(r, user, i)
      PROVE  TypeOK'
  BY <1>5 DEF CalculateRead, TypeOK, PeriodRow, Calculation, rows
<1>6. ASSUME NEW q \in calculating PROVE
        /\ CalculateList(q) => TypeOK'
        /\ CalculateBegin(q) => TypeOK'
        /\ \A p \in q.plans : CalculateEntry(q, p) => TypeOK'
        /\ CalculateClose(q) => TypeOK'
        /\ Leave(q) => TypeOK'
  <2>0. q \in Calculation /\ Sound(q)
    BY DEF TypeOK, AllSound
  <2>1. CASE CalculateList(q)
    <3>1. [q EXCEPT !.step = "begin", !.plans = {p \in completed : Covers(q.period, p)}]
              \in Calculation
      BY <2>0 DEF Calculation, TypeOK
    <3> QED BY <2>1, <3>1, GoesOnType DEF CalculateList
  <2>2. CASE CalculateBegin(q)
    <3>1. [q EXCEPT !.step = "sum"] \in Calculation
      BY <2>0 DEF Calculation
    <3> QED BY <2>2, <3>1, GoesOnType DEF CalculateBegin
  <2>3. ASSUME NEW p \in q.plans, CalculateEntry(q, p) PROVE TypeOK'
    <3>1. p \in Plans /\ energy[p] \in Nat
      BY <2>0, <2>3 DEF Calculation, CalculateEntry, TypeOK
    <3>2. [q EXCEPT !.drafts = q.drafts \cup {[plan |-> p, actual |-> energy[p]]}]
              \in Calculation
      BY <2>0, <3>1 DEF Calculation, Draft
    <3> QED BY <2>3, <3>2, GoesOnType DEF CalculateEntry
  <2>4. CASE CalculateClose(q)
    <3>1. Cardinality(q.drafts) \in Nat
      BY <2>0, FS_CardinalityType DEF Sound
    <3>2. \A e \in Inserted(q) : e \in [period : Periods, plan : Plans, actual : Nat]
      BY <2>0 DEF Inserted, Calculation, Draft
    <3>3. [status |-> "closed", version |-> q.version + 2, closedBy |-> q.user] \in PeriodRow
      BY <2>0 DEF Calculation, PeriodRow
    <3> QED BY <2>0, <2>4, <3>1, <3>2, <3>3 DEF CalculateClose, TypeOK, Calculation
  <2>5. CASE Leave(q)
    BY <2>5 DEF Leave, TypeOK, rows
  <2> QED BY <2>1, <2>2, <2>3, <2>4, <2>5
<1>7. CASE UNCHANGED vars
  BY <1>7 DEF vars, rows, TypeOK
<1> QED BY <1>1, <1>2, <1>3, <1>4, <1>5, <1>6, <1>7 DEF Next

-----------------------------------------------------------------------------
(* What calculations know stays true *)

LEMMA InitSound == Init => AllSound /\ VersionsTell
BY DEF Init, AllSound, VersionsTell, NoPeriod

\* Nothing that a calculation knows is taken back.
LEMMA SoundStays ==
    ASSUME NEW q, Sound(q), TypeOK, TypeOK', completed \subseteq completed', now <= now',
           q \in Calculation
    PROVE  Sound(q)'
BY WindowAssumption DEF Sound, HasEnded, Covers, WellInside, TypeOK, Window, Calculation

\* A calculation well inside whose period a plan lies finds the plan.
LEMMA InsideIsCovered ==
    ASSUME NEW i \in Periods, NEW p \in Plans, WellInside(i, p)
    PROVE  Covers(i, p)
<1>1. /\ PeriodWindow[i].start \in Int /\ PlanWindow[p].start \in Int
      /\ PeriodWindow[i].end \in Int /\ PlanWindow[p].end \in Int
  BY WindowAssumption DEF Window
<1> QED BY <1>1, DueWithinASecond DEF WellInside, Covers

\* Time and the completed plans only grow.
LEMMA StepGrows ==
    ASSUME TypeOK, [Next]_vars
    PROVE  completed \subseteq completed' /\ now <= now'
<1>1. now \in Int
  BY DEF TypeOK
<1>2. CASE Tick
  BY <1>1, <1>2 DEF Tick, rows
<1>3. ASSUME NEW p \in Plans, CompletePlan(p) \/ \E delta \in Deltas : Reading(p, delta)
      PROVE  completed \subseteq completed' /\ now <= now'
  BY <1>1, <1>3 DEF CompletePlan, Reading
<1>4. ASSUME NEW q \in calculating, CalculateClose(q)
      PROVE  completed \subseteq completed' /\ now <= now'
  BY <1>1, <1>4 DEF CalculateClose
<1>5. CASE UNCHANGED <<now, completed>>
  BY <1>1, <1>5
<1> QED BY <1>2, <1>3, <1>4, <1>5
    DEF Next, vars, rows, CreatePeriod, CalculateRead, CalculateList, CalculateBegin,
        CalculateEntry, Leave

LEMMA StepSound == TypeOK /\ TypeOK' /\ AllSound /\ VersionsTell /\ [Next]_vars => AllSound'
<1> SUFFICES ASSUME TypeOK, TypeOK', AllSound, VersionsTell, [Next]_vars PROVE AllSound'
  OBVIOUS
<1>1. completed \subseteq completed' /\ now <= now'
  BY StepGrows
<1>2. \A q \in calculating : Sound(q)' /\ Sound(q) /\ q \in Calculation
  BY <1>1, SoundStays DEF AllSound, TypeOK
<1>3. CASE calculating' \subseteq calculating
  BY <1>2, <1>3 DEF AllSound
<1>4. ASSUME NEW r \in Requests, NEW user \in Users, NEW i \in Periods, CalculateRead(r, user, i)
      PROVE  AllSound'
  <2>0. PICK q : q = [id |-> r, user |-> user, period |-> i, version |-> period[i].version,
                      step |-> "list", plans |-> {}, drafts |-> {}, due |-> completed]
    OBVIOUS
  <2>1. calculating' = calculating \cup {q} /\ period[i].status = "open"
        /\ completed' = completed
    BY <1>4, <2>0 DEF CalculateRead, rows
  <2>2. period[i].version = 1
    BY <2>1 DEF VersionsTell
  <2>3. /\ q.version = 1 /\ q.due = completed' /\ q.drafts = {} /\ q.step = "list"
    BY <2>0, <2>1, <2>2
  <2>4. Sound(q)'
    BY <2>3, FS_EmptySet DEF Sound
  <2> QED BY <1>2, <2>1, <2>4 DEF AllSound
<1>5. ASSUME NEW q \in calculating, CalculateList(q) PROVE AllSound'
  <2>0. PICK r : r = [q EXCEPT !.step = "begin",
                               !.plans = {p \in completed : Covers(q.period, p)}]
    OBVIOUS
  <2>1. calculating' = (calculating \ {q}) \cup {r} /\ completed' = completed
        /\ q.step = "list"
    BY <1>5, <2>0 DEF CalculateList, rows
  <2>2. /\ r.version = q.version /\ r.due = q.due /\ r.drafts = q.drafts /\ r.period = q.period
        /\ r.step = "begin" /\ r.plans = {p \in completed : Covers(q.period, p)}
    BY <1>2, <2>0 DEF Calculation
  <2>3. \A p \in q.due : p \in Plans /\ p \in completed /\ q.period \in Periods
    BY <1>2 DEF Sound, Calculation
  <2>4. /\ r.version = 1 /\ r.due \subseteq completed' /\ r.drafts = {} /\ IsFiniteSet(r.drafts)
    BY <1>2, <2>1, <2>2 DEF Sound
  <2>5. \A p \in r.plans : p \in completed' /\ Covers(r.period, p)
    BY <2>1, <2>2
  <2>6. \A p \in r.due : WellInside(r.period, p) => p \in r.plans
    BY <2>2, <2>3, InsideIsCovered
  <2>7. Sound(r)'
    BY <2>2, <2>4, <2>5, <2>6 DEF Sound, Covers, WellInside
  <2> QED BY <1>2, <2>1, <2>7 DEF AllSound
<1>6. ASSUME NEW q \in calculating, CalculateBegin(q) PROVE AllSound'
  <2> DEFINE r == [q EXCEPT !.step = "sum"]
  <2>1. calculating' = (calculating \ {q}) \cup {r} /\ completed' = completed /\ now' = now
        /\ q.step = "begin" /\ HasEnded(q.period)
    BY <1>6 DEF CalculateBegin, rows
  <2>2. /\ r.version = q.version /\ r.due = q.due /\ r.drafts = q.drafts /\ r.period = q.period
        /\ r.step = "sum" /\ r.plans = q.plans
    BY <1>2 DEF Calculation
  <2> HIDE DEF r
  <2>3. Sound(r)'
    BY <1>2, <2>1, <2>2 DEF Sound, Covers, WellInside, HasEnded
  <2> QED BY <1>2, <2>1, <2>3 DEF AllSound
<1>7. ASSUME NEW q \in calculating, NEW p \in q.plans, CalculateEntry(q, p) PROVE AllSound'
  <2>0. PICK d, r : /\ d = [plan |-> p, actual |-> energy[p]]
                    /\ r = [q EXCEPT !.drafts = q.drafts \cup {d}]
    OBVIOUS
  <2>1. calculating' = (calculating \ {q}) \cup {r} /\ completed' = completed /\ now' = now
        /\ q.step = "sum" /\ p \notin Drafted(q)
    BY <1>7, <2>0 DEF CalculateEntry, rows
  <2>2. /\ r.version = q.version /\ r.due = q.due /\ r.drafts = q.drafts \cup {d}
        /\ r.period = q.period /\ r.step = q.step /\ r.plans = q.plans
    BY <1>2, <2>0 DEF Calculation
  <2>3. d.plan = p /\ \A e \in q.drafts : e.plan # p
    BY <2>0, <2>1 DEF Drafted
  <2>4. IsFiniteSet(q.drafts \cup {d})
    BY <1>2, FS_AddElement DEF Sound
  <2>5. Sound(r)'
    BY <1>2, <2>1, <2>2, <2>3, <2>4 DEF Sound, Covers, WellInside, HasEnded
  <2> QED BY <1>2, <2>1, <2>5 DEF AllSound
<1> QED BY <1>3, <1>4, <1>5, <1>6, <1>7
    DEF Next, vars, Tick, CompletePlan, Reading, CreatePeriod, CalculateClose, Leave

LEMMA StepVersions == TypeOK /\ AllSound /\ VersionsTell /\ [Next]_vars => VersionsTell'
<1> SUFFICES ASSUME TypeOK, AllSound, VersionsTell, [Next]_vars PROVE VersionsTell'
  OBVIOUS
<1>1. ASSUME NEW i \in Periods, CreatePeriod(i) PROVE VersionsTell'
  BY <1>1 DEF CreatePeriod, VersionsTell, TypeOK
<1>2. ASSUME NEW q \in calculating, CalculateClose(q) PROVE VersionsTell'
  <2>1. q.version = 1 /\ q.period \in Periods
    BY DEF AllSound, Sound, TypeOK, Calculation
  <2>2. period' = [period EXCEPT ![q.period] =
                       [status |-> "closed", version |-> 3, closedBy |-> q.user]]
    BY <1>2, <2>1 DEF CalculateClose
  <2> QED BY <2>1, <2>2 DEF VersionsTell, TypeOK
<1>3. CASE UNCHANGED period
  BY <1>3 DEF VersionsTell
<1> QED BY <1>1, <1>2, <1>3
    DEF Next, vars, rows, Tick, CompletePlan, Reading, CalculateRead, CalculateList,
        CalculateBegin, CalculateEntry, Leave

\* The variables keep their types (TypeOK), and calculations and rows are in step.
THEOREM TypeCorrect == Spec => [](TypeOK /\ AllSound /\ VersionsTell)
BY InitType, InitSound, StepType, StepSound, StepVersions, PTL DEF Spec

-----------------------------------------------------------------------------
(* Closing *)

\* What a commit finds: the open period whose version the calculation read, without
\* an entry of it, so each draft becomes an entry.
LEMMA CloseFinds ==
    ASSUME TypeOK, AllSound, VersionsTell, ClosedOnce, NEW q \in calculating, CalculateClose(q)
    PROVE  /\ q \in Calculation /\ Sound(q) /\ period[q.period].status = "open"
           /\ EntriesOf(q.period) = {}
           /\ Inserted(q) = {[period |-> q.period, plan |-> d.plan, actual |-> d.actual] :
                                 d \in q.drafts}
<1>1. q \in Calculation /\ Sound(q)
  BY DEF TypeOK, AllSound
<1>2. period[q.period].version = 1 /\ q.period \in Periods
  BY <1>1 DEF CalculateClose, UnchangedSince, Sound, Calculation
<1>3. period[q.period].status = "open"
  BY <1>2 DEF VersionsTell, TypeOK, PeriodRow
<1>4. EntriesOf(q.period) = {}
  BY <1>2, <1>3 DEF ClosedOnce
<1>5. \A e \in entries : e.period # q.period
  BY <1>4 DEF EntriesOf
<1> QED BY <1>1, <1>3, <1>4, <1>5 DEF Inserted

\* Each draft becomes one entry.
LEMMA EntriesCounted ==
    ASSUME NEW i, NEW D \in SUBSET Draft, IsFiniteSet(D),
           \A d, e \in D : d.plan = e.plan => d = e
    PROVE  Cardinality({[period |-> i, plan |-> d.plan, actual |-> d.actual] : d \in D})
               = Cardinality(D)
<1> DEFINE E == {[period |-> i, plan |-> d.plan, actual |-> d.actual] : d \in D}
           f == [d \in D |-> [period |-> i, plan |-> d.plan, actual |-> d.actual]]
<1>1. f \in [D -> E]
  OBVIOUS
<1>2. \A d, e \in D : f[d] = f[e] => d = e
  <2>1. \A d \in D : f[d].plan = d.plan
    OBVIOUS
  <2> QED BY <2>1
<1>3. \A x \in E : \E d \in D : f[d] = x
  OBVIOUS
<1> HIDE DEF E, f
<1>4. f \in Bijection(D, E)
  BY <1>1, <1>2, <1>3 DEF Bijection, Injection, Surjection, IsInjective
<1>5. ExistsBijection(D, E)
  BY <1>4 DEF ExistsBijection
<1>6. Cardinality(E) = Cardinality(D)
  BY <1>5, FS_Bijection
<1> QED BY <1>6 DEF E

LEMMA InitClosed == Init => ClosedOnce
BY DEF Init, ClosedOnce, NoPeriod, EntriesOf

LEMMA CloseCloses ==
    ASSUME TypeOK, AllSound, VersionsTell, ClosedOnce, NEW q \in calculating, CalculateClose(q)
    PROVE  ClosedOnce'
<1>1. /\ q \in Calculation /\ Sound(q) /\ period[q.period].status = "open"
      /\ EntriesOf(q.period) = {}
      /\ Inserted(q) = {[period |-> q.period, plan |-> d.plan, actual |-> d.actual] :
                            d \in q.drafts}
  BY CloseFinds
<1>2. q.period \in Periods /\ q.drafts \in SUBSET Draft
  BY <1>1 DEF Calculation
<1>3. \A x \in Inserted(q) : x.period = q.period
  BY <1>1
<1>4. entries' = entries \cup Inserted(q)
  BY DEF CalculateClose
<1>5. \A i \in Periods : EntriesOf(i)' = IF i = q.period THEN Inserted(q) ELSE EntriesOf(i)
  <2> SUFFICES ASSUME NEW i \in Periods
               PROVE  EntriesOf(i)' = IF i = q.period THEN Inserted(q) ELSE EntriesOf(i)
    OBVIOUS
  <2>1. EntriesOf(i)' = EntriesOf(i) \cup {e \in Inserted(q) : e.period = i}
    BY <1>4 DEF EntriesOf
  <2> QED BY <1>1, <1>3, <2>1
<1>6. Cardinality(Inserted(q)) = Cardinality(q.drafts)
  <2>1. IsFiniteSet(q.drafts) /\ \A d, e \in q.drafts : d.plan = e.plan => d = e
    BY <1>1 DEF Sound
  <2>2. Cardinality({[period |-> q.period, plan |-> d.plan, actual |-> d.actual] :
                        d \in q.drafts}) = Cardinality(q.drafts)
    BY <1>2, <2>1, EntriesCounted
  <2> QED BY <1>1, <2>2
<1>7. \A d, e \in Inserted(q) : d.plan = e.plan => d = e
  <2>1. \A d, e \in q.drafts : d.plan = e.plan => d = e
    BY <1>1 DEF Sound
  <2> QED BY <1>1, <2>1
<1>8. /\ audits' = audits \cup {[period |-> q.period, user |-> q.user,
                                count |-> Cardinality(q.drafts)]}
      /\ \A a \in audits : a.period # q.period
  BY <1>1, <1>2 DEF CalculateClose, ClosedOnce
<1>9. /\ period'[q.period].status = "closed" /\ period'[q.period].closedBy = q.user
      /\ \A i \in Periods : i # q.period => period'[i] = period[i]
  BY <1>2 DEF CalculateClose, TypeOK
<1>10. SUFFICES ASSUME NEW i \in Periods PROVE
         IF period'[i].status = "closed"
         THEN /\ {a \in audits' : a.period = i} =
                    {[period |-> i, user |-> period'[i].closedBy,
                      count |-> Cardinality(EntriesOf(i)')]}
              /\ \A d, e \in EntriesOf(i)' : d.plan = e.plan => d = e
         ELSE EntriesOf(i)' = {} /\ \A a \in audits' : a.period # i
  BY DEF ClosedOnce
<1>11. CASE i = q.period
  <2>1. EntriesOf(i)' = Inserted(q)
    BY <1>5, <1>11
  <2>2. {a \in audits' : a.period = i} =
            {[period |-> i, user |-> q.user, count |-> Cardinality(q.drafts)]}
    BY <1>8, <1>11
  <2> QED BY <1>6, <1>7, <1>9, <1>11, <2>1, <2>2
<1>12. CASE i # q.period
  <2>1. EntriesOf(i)' = EntriesOf(i) /\ period'[i] = period[i]
    BY <1>5, <1>9, <1>12
  <2>2. {a \in audits' : a.period = i} = {a \in audits : a.period = i}
    BY <1>8, <1>12
  <2>3. (\A a \in audits : a.period # i) => \A a \in audits' : a.period # i
    BY <1>8, <1>12
  <2> QED BY <2>1, <2>2, <2>3 DEF ClosedOnce
<1> QED BY <1>11, <1>12

LEMMA StepClosed ==
    TypeOK /\ AllSound /\ VersionsTell /\ ClosedOnce /\ [Next]_vars => ClosedOnce'
<1> SUFFICES ASSUME TypeOK, AllSound, VersionsTell, ClosedOnce, [Next]_vars PROVE ClosedOnce'
  OBVIOUS
<1>1. ASSUME NEW i \in Periods, CreatePeriod(i) PROVE ClosedOnce'
  <2>1. /\ period[i].status = "none" /\ period'[i].status = "open"
        /\ \A k \in Periods : k # i => period'[k] = period[k]
        /\ entries' = entries /\ audits' = audits
    BY <1>1 DEF CreatePeriod, TypeOK
  <2> QED BY <2>1 DEF ClosedOnce, EntriesOf
<1>2. ASSUME NEW q \in calculating, CalculateClose(q) PROVE ClosedOnce'
  BY <1>2, CloseCloses
<1>3. CASE UNCHANGED <<period, entries, audits>>
  BY <1>3 DEF ClosedOnce, EntriesOf
<1> QED BY <1>1, <1>2, <1>3
    DEF Next, vars, rows, Tick, CompletePlan, Reading, CalculateRead, CalculateList,
        CalculateBegin, CalculateEntry, Leave

\* A period is closed by one calculation, with the entries and the event of that one
\* (ClosedOnce).
THEOREM PeriodsClosedOnce == Spec => []ClosedOnce
BY InitClosed, StepClosed, TypeCorrect, PTL DEF Spec

\* How one step can change the entries: not at all, or with all the entries of one
\* calculation whose period it closes.
LEMMA EntriesStep ==
    ASSUME TypeOK, AllSound, VersionsTell, ClosedOnce, [Next]_vars
    PROVE  \/ /\ UNCHANGED entries
              /\ \A i \in Periods : period'[i].status = "closed" => period[i].status = "closed"
           \/ \E q \in calculating :
                 /\ CalculateClose(q) /\ q \in Calculation /\ Sound(q)
                 /\ period[q.period].status = "open" /\ period'[q.period].status = "closed"
                 /\ \A i \in Periods : i # q.period => period'[i] = period[i]
                 /\ calculating' = calculating \ {q}
                 /\ entries' = entries \cup
                       {[period |-> q.period, plan |-> d.plan, actual |-> d.actual] :
                           d \in q.drafts}
<1>1. ASSUME NEW i \in Periods, CreatePeriod(i) PROVE
        /\ UNCHANGED entries
        /\ \A k \in Periods : period'[k].status = "closed" => period[k].status = "closed"
  BY <1>1 DEF CreatePeriod, TypeOK
<1>2. ASSUME NEW q \in calculating, CalculateClose(q) PROVE
        /\ q \in Calculation /\ Sound(q)
        /\ period[q.period].status = "open" /\ period'[q.period].status = "closed"
        /\ \A i \in Periods : i # q.period => period'[i] = period[i]
        /\ calculating' = calculating \ {q}
        /\ entries' = entries \cup
              {[period |-> q.period, plan |-> d.plan, actual |-> d.actual] : d \in q.drafts}
  <2>1. q \in Calculation /\ Sound(q) /\ period[q.period].status = "open"
        /\ Inserted(q) = {[period |-> q.period, plan |-> d.plan, actual |-> d.actual] :
                              d \in q.drafts}
    BY <1>2, CloseFinds
  <2>2. /\ entries' = entries \cup Inserted(q) /\ calculating' = calculating \ {q}
    BY <1>2 DEF CalculateClose
  <2>3. /\ period'[q.period].status = "closed"
        /\ \A i \in Periods : i # q.period => period'[i] = period[i]
    BY <1>2, <2>1 DEF CalculateClose, TypeOK, Calculation
  <2> QED BY <2>1, <2>2, <2>3
<1>3. CASE UNCHANGED <<period, entries>>
  BY <1>3
<1> QED BY <1>1, <1>2, <1>3
    DEF Next, vars, rows, Tick, CompletePlan, Reading, CalculateRead, CalculateList,
        CalculateBegin, CalculateEntry, Leave

\* Settled entries are there for good, and come with the closing (SettledIsFinal).
THEOREM SettledForGood == Spec => SettledIsFinal
<1>1. TypeOK /\ AllSound /\ VersionsTell /\ ClosedOnce /\ [Next]_vars =>
        [/\ entries \subseteq entries'
         /\ \A e \in entries' \ entries :
                period[e.period].status = "open" /\ period'[e.period].status = "closed"]_vars
  <2> SUFFICES ASSUME TypeOK, AllSound, VersionsTell, ClosedOnce, [Next]_vars
               PROVE  /\ entries \subseteq entries'
                      /\ \A e \in entries' \ entries :
                            period[e.period].status = "open" /\ period'[e.period].status = "closed"
    OBVIOUS
  <2> QED BY EntriesStep
<1> QED BY <1>1, TypeCorrect, PeriodsClosedOnce, PTL DEF Spec, SettledIsFinal

\* A calculation that closes its period settles every plan well inside it that had
\* completed when it began (NobodyForgotten).
THEOREM NobodyIsForgotten == Spec => NobodyForgotten
<1> DEFINE Complete == \A q \in calculating :
              period[q.period].status # "closed" /\ period'[q.period].status = "closed"
              /\ q \notin calculating' =>
                  \A p \in q.due : WellInside(q.period, p) =>
                      \E e \in entries' : e.period = q.period /\ e.plan = p
<1>1. TypeOK /\ AllSound /\ VersionsTell /\ ClosedOnce /\ [Next]_vars => [Complete]_vars
  <2> SUFFICES ASSUME TypeOK, AllSound, VersionsTell, ClosedOnce, [Next]_vars,
                      NEW q \in calculating,
                      period[q.period].status # "closed", period'[q.period].status = "closed",
                      q \notin calculating', NEW p \in q.due, WellInside(q.period, p)
               PROVE  \E e \in entries' : e.period = q.period /\ e.plan = p
    OBVIOUS
  <2>1. q.period \in Periods
    BY DEF TypeOK, Calculation
  <2>2. PICK r \in calculating :
            /\ CalculateClose(r) /\ r \in Calculation /\ Sound(r)
            /\ calculating' = calculating \ {r}
            /\ entries' = entries \cup
                  {[period |-> r.period, plan |-> d.plan, actual |-> d.actual] : d \in r.drafts}
    BY <2>1, EntriesStep
  <2>3. r = q
    BY <2>2
  <2>4. q.step = "sum" /\ q.plans = Drafted(q)
    BY <2>2, <2>3 DEF CalculateClose
  <2>5. p \in Drafted(q)
    BY <2>2, <2>3, <2>4 DEF Sound
  <2>6. PICK d \in q.drafts : d.plan = p
    BY <2>5 DEF Drafted
  <2>7. [period |-> q.period, plan |-> d.plan, actual |-> d.actual] \in entries'
    BY <2>2, <2>3
  <2> QED BY <2>6, <2>7
<1>2. NobodyForgotten <=> [][Complete]_vars
  BY DEF NobodyForgotten
<1> HIDE DEF Complete
<1> QED BY <1>1, <1>2, TypeCorrect, PeriodsClosedOnce, PTL DEF Spec

\* What is settled belongs there (EntriesBelong).
THEOREM EntriesDoBelong == Spec => []EntriesBelong
<1>1. Init => EntriesBelong
  BY DEF Init, EntriesBelong
<1>2. TypeOK /\ TypeOK' /\ AllSound /\ VersionsTell /\ ClosedOnce /\ EntriesBelong /\ [Next]_vars
          => EntriesBelong'
  <2> SUFFICES ASSUME TypeOK, TypeOK', AllSound, VersionsTell, ClosedOnce, EntriesBelong,
                      [Next]_vars, NEW e \in entries'
               PROVE  /\ now' >= PeriodWindow[e.period].end
                      /\ e.plan \in completed'
                      /\ PlanWindow[e.plan].start > PeriodWindow[e.period].start - Second
                      /\ PlanWindow[e.plan].end < PeriodWindow[e.period].end + Second
    BY DEF EntriesBelong
  <2>0. e.period \in Periods /\ e.plan \in Plans
    BY DEF TypeOK
  <2>1. /\ PeriodWindow[e.period].start \in Int /\ PlanWindow[e.plan].start \in Int
        /\ PeriodWindow[e.period].end \in Int /\ PlanWindow[e.plan].end \in Int
        /\ now \in Int /\ now' \in Int /\ Second \in Int
    BY <2>0, WindowAssumption, SecondAssumption DEF Window, TypeOK
  <2>2. completed \subseteq completed' /\ now <= now'
    BY StepGrows
  <2>3. CASE e \in entries
    BY <2>1, <2>2, <2>3 DEF EntriesBelong
  <2>4. CASE e \notin entries
    <3>1. PICK q \in calculating :
              /\ CalculateClose(q) /\ Sound(q)
              /\ entries' = entries \cup
                    {[period |-> q.period, plan |-> d.plan, actual |-> d.actual] : d \in q.drafts}
      BY <2>4, EntriesStep
    <3>2. PICK d \in q.drafts : e = [period |-> q.period, plan |-> d.plan, actual |-> d.actual]
      BY <2>4, <3>1
    <3>3. e.period = q.period /\ e.plan \in q.plans /\ q.step = "sum"
      BY <3>1, <3>2 DEF Sound, CalculateClose
    <3>4. e.plan \in completed /\ Covers(e.period, e.plan) /\ HasEnded(e.period)
      BY <3>1, <3>3 DEF Sound
    <3>5. /\ PeriodWindow[e.period].start < PlanWindow[e.plan].start + Second
          /\ PlanWindow[e.plan].end < PeriodWindow[e.period].end + Second
      BY <2>1, <3>4, EarlyByLessThanASecond DEF Covers
    <3> QED BY <2>1, <2>2, <3>4, <3>5 DEF HasEnded
  <2> QED BY <2>3, <2>4
<1> QED BY <1>1, <1>2, TypeCorrect, PeriodsClosedOnce, PTL DEF Spec
=============================================================================
