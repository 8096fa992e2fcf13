# GridVault ESS in TLA+

GridVault ESS schedules battery storage: it keeps sites and their battery
clusters, reserves grid capacity for dispatch plans, has plans approved by a
second person, runs the jobs of a dispatched plan against devices, takes
telemetry, raises alarms and settles periods. It is one Go program (or several
processes) over one SQLite database. This directory models the parts of it
whose correctness depends on the order in which things happen.

## 1. The system

| component | source | state | operations |
|---|---|---|---|
| execution jobs | `internal/dispatch/job.go`, `storage/sqlite/dispatch.go` | table `execution_jobs`: status, attempts, next attempt, lease owner and end, version | ClaimJobs (Lease), CompleteJob (Succeed, Fail) |
| executor | `internal/worker/executor.go` | goroutines with their copies of jobs, run context | Run, ProcessOnce, execute, StopAndWait |
| dispatch plans | `internal/dispatch/plan.go`, `service/dispatch.go` | table `dispatch_plans` | Create, Submit, Approve, Dispatch |
| capacity reservations | `internal/dispatch/reservation.go` | table `capacity_reservations` | AllocatePower, NewReservation, SubmitPlanAtomic |
| sites, clusters | `internal/site`, `service/sites.go` | tables `sites` (status, reserved_kw, version), `battery_clusters` (status, SOC, sequence) | Create, Transition, CreateCluster |
| telemetry, alarms | `internal/telemetry`, `internal/alarm`, their services | `telemetry_snapshots`, `alarms` | Record, Acknowledge, Resolve, AcknowledgeBatch |
| sessions, users | `internal/identity`, `service/auth.go`, `worker/maintenance.go` | `users`, `sessions` | Bootstrap, Login, Authenticate, Logout, Cleanup |
| settlement | `internal/settlement`, `service/settlements.go` | `settlement_periods`, `settlement_entries` | CreatePeriod, CalculateAndClose |
| idempotency | `internal/idempotency`, `service/idempotency.go` | `idempotency_keys` | Begin, Complete |
| audit | `internal/audit`, `service/audits.go` | `audit_events` | InsertAudit, ListAudit |
| storage | `storage/sqlite/db.go` | the database, transactions | InTx, expectOne, encodeTime |
| HTTP API, wiring, configuration, clock, errors, migrations | `internal/httpapi`, `app`, `config`, `clock`, `fault`, `migrations` | none of their own | routing, start-up, shutdown |

How they meet: the HTTP server runs each request in a goroutine; a request calls
one service operation, which reads rows one statement at a time, decides on
copies of them, and commits with one statement or one transaction. The only
thing between two requests is the WHERE clause of that commit: an expected
version, a status, a capacity. The executor polls the jobs that Dispatch has
inserted and calls the devices; several executors (several processes, or an old
one that has not noticed that it is late) share the table through leases. On
shutdown the executor's context is cancelled, which reaches both the device call
and the statement that would record its outcome.

What is hard here, and what correctness means:

- **leases** over a shared table with stalls, crashes, lost writes and clocks
  compared as texts: one holder at a time, no verdict from a stale copy, no
  verdict that the device did not give, every job settles in the end;
- **submission** as read-check-commit over four tables: reserved power adds up,
  nothing is reserved twice, all or nothing, no capacity on a retired site;
- **approval and dispatch** repeated or at the same time: four eyes, one job per
  reservation, states only advance, the audit log tells the truth;
- **allocation** in the random order of a Go map: exact, within the ratings, and
  the order deprives nobody of a proportion of a kilowatt or more;
- **stored time**: RFC3339Nano texts do not sort as instants do;
- **telemetry and alarms**: late and repeated readings, one active alarm per
  condition, no resolution without a recovery that was read;
- **sessions**: revocation is immediate whatever else runs, cleanup removes a
  session at most a second before it ends;
- **settlement**: a period is closed once, with every plan that had completed and
  none that does not belong; what is settled stays;
- **idempotency**: at most one execution for each living key, one answer to it.

`PROJECT.json` lists every component and every hazard with its line.

## 2. Modules

| module | models | interacts with |
|---|---|---|
| `StoredTime` | the order that SQL gives stored instants | used by all that compare stored instants |
| `MCStoredTime` | the texts themselves, and the assumption that `StoredTime` orders as they do | evaluated with `MCSettlement` |
| `ExecutionJobs` | jobs, executors, devices, time, faults | rows come from `DispatchCommit` of `DispatchPlans` |
| `JobLedger` | the abstract specification of the jobs: a ledger of attempts | implemented by `ExecutionJobs` (`KeepsLedger`) |
| `DispatchPlans` | plans, reservations, sites, clusters, job rows, audit events, requests in flight | takes the contract of `PowerAllocation` as `Allocations` |
| `PlanBook` | the abstract specification of the plans: a book of asks, bookings, approvals and commands | implemented by `DispatchPlans` (`KeepsBook`) |
| `MCDispatchPlans` | an instance: one site, two clusters, two overlapping windows | |
| `PowerAllocation` | the loop of AllocatePower | |
| `TelemetryAlarms` | readings, the cluster columns they write, alarms, audit events, requests in flight | what a reading does to a submission is `Telemetry` of `DispatchPlans` |
| `MCTelemetryAlarms` | two instances: readings at and between the thresholds | |
| `Sessions` | accounts, sessions, authenticated requests, the cleanup | every request of the other modules is one of its `serving` |
| `Idempotency` | keys, Begin and Complete around an operation | the operation is the caller's |
| `MCIdempotency` | an instance: one scope in two spellings | |
| `Settlement` | periods, entries, completed plans, their energy, calculations in flight | plans complete as `DispatchPlans` has them; readings come as in `TelemetryAlarms` |
| `MCSettlement` | an instance: two overlapping periods | |
| `*_proofs` | theorems about the module they are named for | |

Operators called `...Any`, `...Unguarded` and so on, with a comment that begins
"Slip:", are variants of the operator that follows with a plausible mistake in
it. Nothing uses them; they document what each property guards against, and
`PROJECT.json` ("mutants") pairs them with the property they break.

### ExecutionJobs

`job` is the table, `task[e][j]` the goroutine of executor `e` for job `j` with
its copy of the row, `reading[e]` a claim that has read the clock but not begun
its transaction (`ProcessOnce` passes `e.clock.Now()` into ClaimJobs), `device`
what the device has really answered. `Claim` is the whole transaction of
ClaimJobs: the SELECT with its text comparison, order and limit, then Job.Lease
on each row, which looks at the instants again, as instants. ClaimJobs passes over
a row whose UPDATE fails and commits the others, so `ClaimFails` takes any part of
what `Claim` would take, nothing included. A claimed job has a goroutine that is
not scheduled yet; `Start` is where `execute` begins and the device's time-out is
set. `Device*` is
`execute` from the gateway's reply to the judged copy, `Persist` is
CompleteJob. The owner test of `verifyLease` always succeeds on the executor's
own copy, so what remains of it is the test of the lease's end. The message of
a failure (`last_error`) and `updated_at` are left out.

Time: instants are kept relative to now, so that time is unbounded and the state
space finite. `Past` is further back than any comparison can tell apart. A claim
reads the clock at most `MaxClaimDelay` ticks before its commit as long as its
process runs; that is the bound on how long a busy database delays it. In a process
that stalls between the two the reading may be `MaxStall` ticks old, a bound on the
age of readings and not on stalls, beyond the length of a lease in `jobs_safety`, so
that a lease may be over when it is given. `lease_until` NULL is an instant in
the `Past`; no condition looks at it while the job is not leased.

A process that gets processor time starts a claimed goroutine at once and finishes
it by its deadline, the time-out of half a lease: `Tick` waits for it. A process that does not is
`stalled`, which is a fault, and then time passes it by. Faults (stalls,
crashes, shutdowns, failing claims and writes) are bounded by `MaxFaults`. A
restarted process has a new owner id; the model calls it by the same name,
because the goroutines that carried the old id died with the process.

**The abstract specification.** `JobLedger` knows no clocks, leases, versions or
processes. It gives open jobs to an executor, each giving being a new attempt that
takes the job from whoever had it, and takes an answer only from the holder, for
the open attempt. `ExecutionJobs` maps onto it (`VerdictOf`, `HolderOf`,
`AttemptOf`, `AttemptsUnderWay`): a claim is `Give`, a persisted copy that still
matches is `Answer`, everything that ends a goroutine otherwise is `Drop`, and
time, stalls and restarts stutter. `KeepsLedger` is the ledger's specification
under that mapping.

### DispatchPlans

A request in flight is a record in `submitting`, `approving`, `dispatching`,
`changing` or `auditing` with what it has read. Each read is an action, each
commit is an action, and between them anything may happen. The guards of a
commit are the conditions of the SQL it executes, and a commit whose condition
fails changes nothing, so the model has no action for it; `Abandon` forgets the
request, as does a client that leaves, a busy database or a crash. `auditing`
holds the requests of Create, Approve and Transition that have committed and
still have to insert their audit event, in a statement of its own.

Left out: permissions (any user may try; the roles that separate dispatcher and
operator only remove behaviours), names and energy targets, the version of a
cluster (no condition of these operations reads it), the statuses of plans,
reservations and clusters that no code in the program sets. A client names the
version it has seen; Submit, Approve and Transition compare it with the row they
read, so there it is the version just read, while Dispatch compares it only at
its commit, so there it is any version. Sites and clusters exist from the start.
`Allocations` is any exact allotment within the ratings; the allotments that
AllocatePower can really compute are among them.

**The abstract specification.** `PlanBook` knows no requests, versions, counters of
reserved power, states of clusters or comparisons of windows. A plan books all it
asks for in one step, of clusters that nobody has booked, as long as the site is
open and what is booked there stays within its grid limit; a second person approves
it once; it is commanded once, to the clusters it has booked; a site that has
bookings is never gone. `DispatchPlans` maps onto it with `reservations` as the
bookings and `jobs` as the commands (`DoorsOf`, `AsksOf` and `ApproverOf` give the
rest): a commit of Create is `Ask`, of Submit `Book`, of Approve `Approve`, of
Dispatch `Command`, of Transition `Turn`, and reads, audit events, telemetry and
requests that end otherwise stutter. `KeepsBook` says that what a commit does on
the strength of reads that may be long out of date is right in the state it meets.
It says nothing of which cluster could take power but does not get any, nor of the
state of charge, which the code does not check at the commit.

### PowerAllocation

The clusters are numbered in the order of the walk, so every order of Go's map
iteration is one of the initial states. `upcoming` holds the sums of the ratings
still to come; it never changes and exists for the invariant that
`remainingRating` is one of them, and for the proportions. The second loop of
AllocatePower is left out: `NothingLeftOver` shows that it is dead.

Which clusters of a request go away empty does depend on the order: 3 kW over
ratings 4, 1 and 1 are accepted in the walk 1, 1, 4 and refused by NewReservation
in the walk 4, 1, 1, where the first takes two of them. `ProportionsKept` confines
this to requests whose proportional share of some cluster is below a kilowatt. For
all others every cluster is given its proportion or more in every walk. It is a
property of the rounding and of its carrying over: each share is rounded against
what the earlier ones left.

### TelemetryAlarms

Requests in flight are records in `recording`, `acknowledging`, `resolving` and
`batches`, as in `DispatchPlans`. An alarm is known by its fingerprint (cluster
and type) and by the sequence number of the reading that opened it, since a
reading opens at most one alarm of a type; `status = "none"` is a row that does
not exist. `RecordCommit` is the whole transaction: snapshot, cluster, and an
alarm for each condition that has no active one, which is what ON CONFLICT DO
NOTHING leaves of the insert. `Resolve` reads the alarm and then the cluster
(`ResolveReadAlarm`, `ResolveReadCluster`). The checks that depend only on the
alarm read are made with the first read; in the code they follow the second, but
a request that fails them ends without effect either way. `changed` is the whole
row that UpdateAlarm will write. A batch acknowledges its items one after the
other, in the order its client gives, which the model leaves open; each item may
fail, and the batch goes on. `Leave` stands for the reply as well as
for every way a request ends early.

Left out: permissions, times and the window of observation times, power and
energy, the text of an alarm, the audit event of a reading (inserted with the
snapshot, so `snapshots` has the same information). A submission also raises the
version of a cluster it reserves; all it can do to a reading in flight is to
make its commit fail, and that is `Leave`.

### Sessions

A request goes through `logins`, or through `authenticating`, `touching`,
`serving` and `logouts`, with the copy of the row it has read. Each statement is an
action, and between them `Leave` may end it: the client leaves, the statement
fails, the process dies. A session's row is inserted before the login is audited
and the token handed out, so a login that fails in between leaves a session whose
token nobody has. `known` and `loggedOut` are what the clients have been told;
`late` marks a request whose read came after the answer to a logout.
`TouchSession` and `RevokeSession` are keyed by id alone, without a version, so
everything rests on which columns they write: `Touched` and `Revoked`. The cleanup
reads its clock (`CleanupBegin`) before it deletes by text order (`CleanupCommit`).
`Bootstrap` may run in several processes at once; the unique email decides.

Left out: passwords, roles, names, the e-mail's normalisation, and the status of
an account, which nothing in the program changes.

### Idempotency

`beginning` holds a Begin from its look-up to its insert, `judging` one that has
found a row, with its copy, `executing` the callers that were told to run the
operation. `Found` looks up method, path and key as the caller gives them,
`Start` stores them normalised, and `Spelling` is what it makes of a scope: a
caller that spells its scope otherwise finds nothing, meets the unique index,
and begins again for ever. `Complete` guards on the row being still started, and its
caller may answer again with something else. Keys are removed by text order with a
clock read before. A row keeps its columns when it is deleted; this only serves the
properties that speak of it afterwards.

Left out: the actor as part of the scope (another actor is another scope), the
digest of the body, the limits of key length, status and size.

### Settlement

A calculation is a record in `calculating` with what it has read: the period, then
the list of completed plans in the period's window by text order, then one sum of
readings for each plan. `CalculateClose` is InsertEntriesAtomic: entries, period
and event in one transaction, if the period's version is the one read. `due`, the
plans that had completed when the calculation began, exists for a property.
CreatePeriod allows one period for each window but lets windows overlap, so a plan
may be settled in two periods; the code does not say otherwise. `CompletePlan` is
wider than Plan.Complete, which nothing calls: of its conditions only the positive
energy is kept, while a plan under way and jobs that have all succeeded are states
that the settlement never looks at. So plans complete here whenever the code could
have them complete, and at other times.

Left out: amounts of money, a function of an entry's energy and the price that the
request names (a product of 64-bit integers that the code does not guard), the
clusters and reservations behind a plan's sum, the permissions.

### StoredTime

Ticks are the last digit kept, `Units` the place values of the digits.
`TextLess` says in arithmetic what the bytes do; `MCStoredTime` builds the texts
and compares them, for all instants of three seconds, in an assumption that TLC
evaluates with the `settlement` run.

## 3. Runs

| run | expects | instance | shows |
|---|---|---|---|
| `jobs_safety` | pass | 1 job, 2 executors, 2 attempts, lease of 4 half seconds, readings up to 5 old, 2 faults | leases exclude, verdicts are the device's, nothing starts early, the rows implement the ledger of attempts |
| `jobs_settle` | pass | 2 jobs, 1 executor, batch of 1, fairness | every job settles |
| `jobs_attempts` | violation | as `jobs_safety` | attempts exceed `max_attempts` |
| `allocation` | pass | 3 clusters rated 1 to 6, every request | allocation is exact, within the ratings and in proportion |
| `plans_safety` | pass | 2 plans, 2 clusters, 2 requests, 2 users, site version up to 3 | capacity, clusters, reservations; the rows implement the book of plans |
| `plan_repeats` | pass | 1 plan, 3 requests, 2 states of charge | repeated submits, approvals, dispatches |
| `plans_stale_soc` | violation | 1 plan, 1 request, telemetry | a full cluster reserved for charging |
| `alarms_safety` | pass | 1 cluster, 3 readings, 2 users, 2 requests | sequences, one active alarm, one handler each, batches |
| `alarms_recovery` | violation | 1 cluster, 2 readings, 1 request | a hot cluster's alarm resolved |
| `sessions` | pass | 1 account, 1 token, 2 requests, 6 half seconds, fairness | logout, touches and cleanup against each other; every session goes |
| `idempotency` | pass | 1 key in 2 spellings, 2 bodies, 2 answers, 2 requests, fairness | one execution for each key, one answer, Begin decides |
| `settlement` | pass | 2 overlapping periods, 2 plans, 2 users, 2 requests | periods closed once, nobody forgotten, nothing settled that does not belong |

Why the bounds suffice. Jobs do not influence each other except through the
batch, so one job with two executors has every race of a lease, and two jobs
with a batch of one have the competition for the batch. With batches of one a
claim fails as a whole; batches of which a part is claimed are left to the theorems.
Two attempts are a first
and a last one. A lease of four ticks has a time-out of two, so a stall can end
before, at and after each of them; two ticks to a second let the text order be
wrong. Two faults let one executor stall while its successor crashes. A race in
`DispatchPlans` needs two requests; three let a third commit between the read
and the commit of the second. The two windows of `MCDispatchPlans` overlap by
half a second, an overlap that the text comparison does not see. `MaxSiteVersion`
bounds how often a site changes state before and between submissions; 3 allows
activation, suspension or retirement around one. A transition that reads a
`reserved_kw` other than zero would be the fourth version, whose state space (1.85
million states) is beyond a quick run; TLC finds no violation there either, and `CapacityIsAccounted`
and `RetiredSitesIdle` prove it for all versions. Clusters share nothing in
`TelemetryAlarms`, so one is enough; three readings let a condition come, go and
come back, or arrive out of order, and two requests race for an alarm or hold
two readings at once. A session is used by two requests, so that one may touch it, or log out, while the
other has read it; its life of three ticks is longer than the touch interval of two,
and six ticks let it expire, be revoked and be removed. Two requests for a key race
for its insert and, with two rows, run it a second time once it has expired and was
removed; so `BeginDecides` is checked for a conflict that is repeated once; with three rows
the search takes too long. In `MCSettlement` plan a1 lies a second inside one period and belongs to
the other only by the texts, plan a2 keeps the first period from being empty; energy
of at most one unit, of either sign, tells a plan that can be settled from one that
cannot. The readings of `alarms_safety` lie at the thresholds for
state of charge and critical temperature (two alarms at once), between them, and
out of range. Deadlock is not checked for the
plans, which end when everything is dispatched, the alarms, which end with the
last sequence number, nor for the allocation, which ends.

Fairness (`FairSpec`): time passes; an executor that is not down keeps reading
its clock and claiming (its ticker); each goroutine moves on, since the device's
reply is awaited no longer than the time-out; a stalled process is scheduled
again; a stopped one is restarted by its supervisor. All of it is weak fairness
of steps of processes that stay enabled. Nothing is assumed about which reply the
device gives; a job that always fails settles by using up its attempts.
`FairSpec` of `Sessions`: time passes, the maintenance ticker fires again after each
cleanup (weak), and the statement of the cleanup does not fail for ever, though it
may fail any number of times (strong: a failure disables it until the ticker's next
turn). `FairSpec` of `Idempotency`: a goroutine that is in Begin keeps running;
`BeginDecides` then excludes that the conflict and the look-up chase each other for
ever, for callers that spell their scope as Start does.

The three violations are disagreements between the code and what it says of
itself; `PROJECT.json` ("findings") quotes both sides.

- `AttemptsWithinLimit`: Job.Lease never looks at `max_attempts`, so each lease
  that ends without a verdict in the last attempt is followed by another attempt.
- `EligibleWhenReserved`: the state of charge is checked on a read and is not
  part of the condition that reserves.
- `ResolvedWhenRecovered`: Resolve judges every alarm by the state of charge,
  temperature alarms too.

## 4. Proofs

Assumptions are the ASSUMEs of the modules: sizes and lengths are natural
numbers, the set of jobs is finite, `NoOne` is no executor, digits have place
values that end at the second.

- `ExecutionJobs_proofs`. `CopyMatchesRow` is almost inductive by itself: an
  executing copy either is the row or its lease has ended; a persisting copy
  either belongs to the row's present attempt or is out of date. With the type
  invariant and the ages of copies added it is preserved by every action, and
  exclusion of leases follows at once, because two copies with open leases both
  equal the row, which has one owner. The action properties follow from the same
  invariant: `TerminalIsFinal` because a copy that may be written belongs to a
  leased row, `VerdictFromHolder` because it belongs to the leased row's attempt,
  `NeverEarly` from Job.Lease alone, whatever rows SQL offers it. `JobsKeepLedger`
  is the refinement: the initial states map to an empty ledger, and each action is
  shown to be a `Give`, an `Answer`, a `Drop` or a stutter. The persisted copy
  answers for the holder because a copy that still matches the row's version has the
  row's owner and attempt, which is `CopyMatchesRow` once more; that an executor
  claims only when it is busy with nothing (`ClaimsWhenIdle`) is what `Give` asks for.
  `VerdictsFromDevice` is strengthened by `VerdictsGrounded`: a copy that is to be
  persisted has grounds for its verdict in the device's answers or in the attempts
  made, unless its process is stopping; one that is may hold the verdicts of cancelled
  calls, but it writes nothing, and is down only when its goroutines are gone.
  `OneRun` goes through `Prompt`: until the first fault each executing copy is the
  row, its deadline has not passed, and its lease ends after its deadline by at least
  the half of the lease that the time-out leaves, less what the claim took; a
  goroutine that is not scheduled yet has all of its lease but that. It has
  the hypothesis `MaxClaimDelay + Timeout < LeaseTicks`, and needs it: with a delay
  of two ticks and a lease of four TLC finds two runs at once. The lease counts from
  the clock reading before the claim's transaction, the device's time-out from the
  start of the goroutine after it. The code does not guarantee the hypothesis. A transaction may wait for the
  database up to `busy_timeout(5000)` (`storage/sqlite/db.go:49`) while
  `config.Validate` accepts shorter leases; for leases of more than ten seconds and
  transactions that are delayed by that wait alone it holds.
- `PowerAllocation_proofs`. The invariant says that `remainingRating` is the sum
  of the ratings to come and covers `remaining`. A visit to a cluster rated `r`
  keeps it because a share is at least its proportion `remaining * r / all`,
  rounded down, and what that leaves, `remaining * (all - r) / all` rounded up, is
  at most `all - r` as long as `remaining <= all`. `NothingLeftOver` follows since
  nothing is to come at the end. `SharesTotal` is about a recursive function of the
  state, `Placed`. Its steps need an induction over the clusters, which is made from
  a first-order fact, that a set of naturals has a least member (`InductionTo`): raising one
  share raises the totals from there on (`ShareRaised`), and clusters not yet visited
  add nothing (`NothingPlaced`), so `Placed[N]` is the request less `remaining`
  throughout (`Accounted`). `NobodyShortChanged` needs `InProportion`: what remains
  is to the ratings to come at least as the request is to all ratings. A share that is
  rounded down only adds to what the others can have; a share of one that was rounded
  up would take from them, and the premise of `ProportionsKept` excludes it
  (`FairShare`).
- `DispatchPlans_proofs`. The induction is over `Core`: types, `RequestsInStep`
  and `OneJobPerReservation` together. `RequestsInStep` says that versions tell
  the truth: what a request has read is still true of a row with the version it
  read. The types need it (a submission's plan has a site) and the dispatch needs
  the jobs: it compares the version its client names, not the one it has read, so
  what keeps it from repeating a dispatch is that the first one left a job for
  each reservation. `PlanMove` and `SiteMove` say what any step may do to a row;
  all other theorems rest on them. `RetiredSiteIdle` is strengthened by
  `RetiredEmpty` (a reserving plan's power is in its site's `reserved_kw`, a
  retired site has none), `AuditTrail` by `AuditsOwed` (the events still to be
  inserted are true, and none is a submission or a dispatch). The updates of more
  than one column of a row are named there (`AsSubmitted`, `Charged` and so on),
  so that what they do to the record is proved once.

  The sums of `CapacityAccounted` and `ReservationsCoverPlan` are the community
  modules' `SumFunction`, a fold over a finite set. Induction over the subsets of a
  set is had from the well-foundedness of strict inclusion, applied to the set of
  subsets for which a claim holds (`SubsetInduction`, `ElementInduction`), so no
  operator has to be instantiated. It shows that there is exactly one function that
  sums as the fold does (`SumsAgree`, `SumIs`), that a sum is the sum of its parts
  whichever element the fold takes out first (`SumOfParts`), and that it is the same
  over another set with the same weights (`SumCarried`). `ReservationsCover` then
  needs that a submission's shares add up to what its plan asks for (`SubmitShares`)
  and that the plan had nothing before (`SubmitAlone`). `CapacityIsAccounted` is
  inductive beside `Booked`, which puts a plan's reservations at its own site: a
  submission adds the same number to the counter and to both sums, and a transition
  that rewrites the counter writes what is there, because its version still matches.

  `PlansKeepBook` is the refinement. Each commit is shown to be one entry of the
  book, with the guard of that entry derived from the invariants above and not from
  what was read: `SubmitEnters` gets "nobody has booked this cluster" from
  `ClusterHeldOnce` and the grid limit on the bookings from `CapacityAccounted`,
  `ApproveEnters` "nobody has approved" from the version and "somebody else" from
  `RequestsInStep`, `DispatchEnters` "nothing was commanded" from
  `OneJobPerReservation`, and `TransitionTurns` "no bookings" from the version under
  which `reserved_kw` was zero and `RetiredEmpty`.
- `TelemetryAlarms_proofs`. The induction is over `Core`: an alarm's version says
  which state it is in and who has handled it, so a request whose version still
  matches has read what is there; every alarm has the reading that raised it, and
  a cluster has the state of charge of its newest reading. Hence `OneActiveAlarm`
  (an alarm is raised only where none is active, and no other step makes one
  active) and `RecoveryObserved`: a cluster that is in order when it is read after
  the alarm has a newer reading than the alarm's, because that one was at a
  threshold. `AlarmMove` says what any step may do to an alarm. `BatchTellsTruth`
  is strengthened by `BatchesInStep` (a batch has its request to itself and
  acknowledges in its user's name).
- `Sessions_proofs`. `RowsAdvance` says that only a login writes a whole row, and
  only one that does not exist; every other step keeps what a row has: its expiry
  and, once it is there, its revocation. So copies stay true (`CopiesSound`): a
  request that read after the answer to a logout read a revoked row, and Validate
  refuses it (`LogoutEffective`). A touch writes an instant at which the row, whose
  expiry is the copy's, was valid (`SeenValid`). `LiveSpared` adds the error of the
  text order to the age of the cleanup's clock.
- `Idempotency_proofs`. A row leaves the unique index only by deletion, at most a
  second early (`DeletedLate`), hence `ExecutedOnce`. The columns a replay takes
  never change once a row is completed (`RowsAdvance`), and no insert lands on a row
  that exists because a Begin under way has an id of its own (`FreshRecords`), hence
  `AnswersReplayed`.
- `Settlement_proofs`. The induction is over the types, `VersionsTell` (a period's
  version tells its status) and `AllSound` (what a calculation has established so
  far: its plans have completed and lie in the period, those due and well inside are
  among them, the period has ended). All of that is true for good; that nobody else
  has closed the period is what the version tells at the commit (`CloseFinds`), so
  all its drafts become entries, as many as the event counts.
- `StoredTime_proofs`. Equal quotients by a place value bound the distance of
  two instants; hence the error of the text order stays below a second, and the
  text order is total.

Proved, and not runs of their own because another property of a run contains or
subsumes them: `CopyMatchesRow`, `TerminalIsFinal` and `VerdictFromHolder` of
`ExecutionJobs` (the ledger has them), `Coverable` of `PowerAllocation`,
`RequestsInStep` of `DispatchPlans`, and the type invariants of
`Sessions`, `Idempotency` and `Settlement`.

Only model-checked: liveness (`EveryJobSettles`, `SessionsGoAway`,
`BeginDecides`), which needs fairness and ENABLED and is beyond the prover. That
`TextLess` is the byte order of the texts is checked by evaluation, for two digits of
base three. `OneRunAtATime` is proved under the hypothesis above, which the instance
of `jobs_safety` satisfies. Every other property of a passing run is a theorem for
all values of the constants.

## 5. Not modelled, and the plan

Not modelled because it keeps no state or only reads: decoding and encoding of HTTP
bodies, logging, reading the environment, list filters, audit queries, error
texts, password hashing, the role table. Not modelled because it is sequential
start-up code: running the migrations, opening the database and the server.

Not modelled because nothing in the program calls it: Renew and Cancel of a job;
Rename, Start, Complete, Fail, Cancel and WaitUntilStart of a plan; Consume and
Release of a reservation; Release, MarkDegraded and Recover of a cluster; Escalate of
an alarm; the changes of an account. So reservations and clusters stay held for
ever, and jobs run as soon as their plan is dispatched. Settlement and Idempotency are not wired into
the application; they are modelled from their services, with plans completing as
their code has it.

Known gaps (`PROJECT.json`, "hazards", has the lines of most): a cluster created on a
site that is being retired; the audit events of Create, Approve and Transition,
which follow their commit and may be lost; the ids of alarms that Record replies
with though ON CONFLICT dropped them; an alarm that is resolved on a state of charge
read before the reading that repeats its condition (`RecoveryObserved` asks only for
a recovery after the reading that raised it); lease lengths that the configuration accepts
and Job.Lease refuses; amounts of money beyond 64 bits.

Next, in this order:

1. CreateCluster beside Transition, in a model of sites and clusters: the look at the
   site and the insert are two statements.
2. Plans and jobs together, once a plan's jobs are bound to its window
   (`WaitUntilStart` is called by nobody today).
3. An abstract specification of the alarms, as `PlanBook` is one of the plans.
