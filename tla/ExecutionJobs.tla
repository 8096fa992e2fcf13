---------------------------- MODULE ExecutionJobs ----------------------------
(***************************************************************************)
(* The execution jobs of a dispatched plan and the executors that run them *)
(* against the battery clusters' devices.                                  *)
(*                                                                         *)
(* Several executor processes may share the database.  In each cycle an    *)
(* executor reads its clock, claims a batch of jobs in one transaction,    *)
(* runs one goroutine per claimed job and waits for all of them.  A        *)
(* goroutine calls the device, judges the reply on its own copy of the job *)
(* and writes the copy back if the row still has the version it claimed.   *)
(*                                                                         *)
(* All instants are kept RELATIVE to the present: 0 is now, 2 is two ticks *)
(* ahead, -1 is one tick ago, and Tick moves every stored instant one tick *)
(* into the past.  Past is far enough back for every comparison the code   *)
(* makes, so instants stop there and time is unbounded.  phase is the      *)
(* position of now within its second; the text order needs it.             *)
(***************************************************************************)
EXTENDS StoredTime, FiniteSets, FiniteSetsExt

CONSTANTS
    Jobs,            \* rows of execution_jobs
    Executors,       \* executor processes
    NoOne,           \* lease_owner NULL
    MaxAttempts,     \* max_attempts of a job (5 in DispatchService.Dispatch)
    LeaseTicks,      \* the configured lease duration
    BackoffTicks,    \* Executor.backoff
    MaxBackoff,      \* cap of Backoff (15 minutes)
    Batch,           \* LIMIT of a claim
    MaxClaimDelay,   \* bound: ticks from a claim's clock reading to its commit
                     \* in a process that runs (the wait for the database)
    MaxStall,        \* bound: the same where the process stalls in between
    MaxFaults        \* bound: stalls, crashes, shutdowns and database errors

ASSUME JobsAssumption == IsFiniteSet(Jobs)
ASSUME ExecutorsAssumption == NoOne \notin Executors
ASSUME LimitsAssumption ==
    /\ MaxAttempts \in Nat \ {0}
    /\ LeaseTicks \in Nat /\ BackoffTicks \in Nat /\ MaxBackoff \in Nat
    /\ Batch \in Nat \ {0} /\ MaxClaimDelay \in Nat /\ MaxFaults \in Nat
    /\ MaxStall \in Nat /\ MaxStall >= MaxClaimDelay

VARIABLES
    phase,     \* now, within its second
    job,       \* the rows of execution_jobs
    proc,      \* the state of each executor process
    reading,   \* the clock reading of the claim an executor is making
    task,      \* the goroutine of each executor for each job
    device,    \* what the device has answered for each job so far
    faults     \* faults that have happened

vars == <<phase, job, proc, reading, task, device, faults>>

------------------------------------------------------------------------------
(* Instants *)

Past == -(Second + MaxStall)
NoReading == 1
Age(t) == IF t > Past THEN t - 1 ELSE Past

\* encodeTime(t) <= encodeTime(asOf) in SQL.
StoredLE(t, asOf) == TextLE(phase + t, phase + asOf)

------------------------------------------------------------------------------
(* Job rows and the transitions of dispatch.Job *)

Terminal == {"succeeded", "permanent_failure"}
JobStatus == {"pending", "leased", "retryable"} \cup Terminal

Job == [status : JobStatus, attempts : Nat, next : Int, owner : Executors \cup {NoOne},
        until : Int, version : Nat]

NewJob == [status |-> "pending", attempts |-> 0, next |-> 0, owner |-> NoOne,
           until |-> Past, version |-> 1]

\* Slip: the lease end is left to the SQL filter.
ClaimableAnyLease(j, asOf) ==
    \/ j.status \in {"pending", "retryable"} /\ j.next <= asOf
    \/ j.status = "leased"

\* Slip: the backoff is left to the SQL filter.
ClaimableAnyTime(j, asOf) ==
    \/ j.status \in {"pending", "retryable"}
    \/ j.status = "leased" /\ j.until <= asOf

\* Slip: expired leases are not taken back.
ClaimableWaiting(j, asOf) == j.status \in {"pending", "retryable"} /\ j.next <= asOf

Claimable(j, asOf) ==
    \/ j.status \in {"pending", "retryable"} /\ j.next <= asOf
    \/ j.status = "leased" /\ j.until <= asOf

\* Job.Lease admits lease durations from one second to ten minutes.
LeasePolicy == LeaseTicks >= Second /\ LeaseTicks <= 600 * Second

Lease(j, e, asOf) ==
    [status |-> "leased", attempts |-> j.attempts + 1, next |-> j.next,
     owner |-> e, until |-> asOf + LeaseTicks, version |-> j.version + 1]

Doublings == <<1, 2, 4, 8, 16, 32, 64, 128, 256>>

Backoff(attempt) ==
    LET base  == IF BackoffTicks = 0 THEN Second ELSE BackoffTicks
        value == base * Doublings[IF attempt < 1 THEN 1 ELSE IF attempt > 9 THEN 9 ELSE attempt]
    IN  IF value > MaxBackoff THEN MaxBackoff ELSE value

\* verifyLease on the executor's own copy: at its very end a lease still counts.
LeaseHeld(j) == j.status = "leased" /\ j.until >= 0

Settle(j, status) ==
    [status |-> status, attempts |-> j.attempts, next |-> j.next,
     owner |-> NoOne, until |-> Past, version |-> j.version + 1]

Succeed(j) == Settle(j, "succeeded")

\* Slip: a cancelled call cancels the job.
FailOrCancel(j, retryable) ==
    IF retryable /\ j.attempts < MaxAttempts
    THEN [Settle(j, "retryable") EXCEPT !.next = Backoff(j.attempts)]
    ELSE Settle(j, "cancelled")

Fail(j, retryable) ==
    IF retryable /\ j.attempts < MaxAttempts
    THEN [Settle(j, "retryable") EXCEPT !.next = Backoff(j.attempts)]
    ELSE Settle(j, "permanent_failure")

------------------------------------------------------------------------------
(* Executors *)

Idle == [stage |-> "idle", copy |-> NewJob, deadline |-> 0]
Task == [stage : {"idle", "claimed", "executing", "persisting"}, copy : Job, deadline : Int]

\* Slip: the device gets the whole lease.
WholeLease == LeaseTicks

\* NewExecutor gives the device half of the lease to answer.
Timeout == LeaseTicks \div 2

Working(e, j) == task[e][j].stage # "idle"
Claimed(e, j) == task[e][j].stage = "claimed"
Executing(e, j) == task[e][j].stage = "executing"
Persisting(e, j) == task[e][j].stage = "persisting"
Alive(e) == proc[e] \in {"running", "stopping"}

Fault == faults < MaxFaults /\ faults' = faults + 1

Init ==
    /\ phase \in 0..(Second - 1)
    /\ job = [j \in Jobs |-> NewJob]
    /\ proc = [e \in Executors |-> "running"]
    /\ reading = [e \in Executors |-> NoReading]
    /\ task = [e \in Executors |-> [j \in Jobs |-> Idle]]
    /\ device = [j \in Jobs |-> {}]
    /\ faults = 0

\* The next cycle starts once every goroutine of the last one has returned.
ReadClock(e) ==
    /\ proc[e] = "running" /\ reading[e] = NoReading
    /\ \A j \in Jobs : ~Working(e, j)
    /\ reading' = [reading EXCEPT ![e] = 0]
    /\ UNCHANGED <<phase, job, proc, task, device, faults>>

\* The WHERE clause of ClaimJobs, which compares texts.
Candidate(j, asOf) ==
    \/ job[j].status \in {"pending", "retryable"} /\ StoredLE(job[j].next, asOf)
    \/ job[j].status = "leased" /\ StoredLE(job[j].until, asOf)

\* ORDER BY next_attempt_at, id LIMIT batch; ids are random, so ties are open.
Batches(asOf) ==
    LET candidates == {j \in Jobs : Candidate(j, asOf)}
        size == IF Cardinality(candidates) < Batch THEN Cardinality(candidates) ELSE Batch
    IN  {S \in kSubset(size, candidates) :
            \A j \in S, k \in candidates \ S :
                ~TextLess(phase + job[k].next, phase + job[j].next)}

\* The jobs of a batch that Job.Lease accepts at its second look.
Leasable(e, S) == {j \in S : LeasePolicy /\ Claimable(job[j], reading[e])}

\* The rows of the jobs are leased, and a goroutine is created for each of them.
Take(e, jobs) ==
    LET leased(j) == Lease(job[j], e, reading[e])
    IN  /\ job' = [j \in Jobs |-> IF j \in jobs THEN leased(j) ELSE job[j]]
        /\ task' = [task EXCEPT ![e] = [j \in Jobs |->
               IF j \in jobs
               THEN [stage |-> "claimed", copy |-> leased(j), deadline |-> 0]
               ELSE task[e][j]]]

\* The claim transaction takes all that is leasable of its batch.
Claim(e) ==
    /\ proc[e] = "running" /\ reading[e] # NoReading
    /\ \E S \in Batches(reading[e]) : Take(e, Leasable(e, S))
    /\ reading' = [reading EXCEPT ![e] = NoReading]
    /\ UNCHANGED <<phase, proc, device, faults>>

\* A goroutine is scheduled: it calls the device, whose time counts from now.
Start(e, j) ==
    /\ Alive(e) /\ Claimed(e, j)
    /\ task' = [task EXCEPT ![e][j] =
           [stage |-> "executing", copy |-> task[e][j].copy, deadline |-> Timeout]]
    /\ UNCHANGED <<phase, job, proc, reading, device, faults>>

\* A goroutine acts on the device's reply: the copy judged, or an expired
\* lease noticed and the goroutine gone.
Judge(e, j, judged) ==
    task' = [task EXCEPT ![e][j] =
        IF LeaseHeld(task[e][j].copy)
        THEN [stage |-> "persisting", copy |-> judged, deadline |-> task[e][j].deadline]
        ELSE Idle]

DeviceDone(e, j) ==
    /\ Alive(e) /\ Executing(e, j)
    /\ Judge(e, j, Succeed(task[e][j].copy))
    /\ device' = [device EXCEPT ![j] = device[j] \cup {"done"}]
    /\ UNCHANGED <<phase, job, proc, reading, faults>>

\* ErrPermanent
DeviceRefuses(e, j) ==
    /\ Alive(e) /\ Executing(e, j)
    /\ Judge(e, j, Fail(task[e][j].copy, FALSE))
    /\ device' = [device EXCEPT ![j] = device[j] \cup {"refused"}]
    /\ UNCHANGED <<phase, job, proc, reading, faults>>

\* Any other error, context.DeadlineExceeded at the timeout included.
DeviceFails(e, j) ==
    /\ Alive(e) /\ Executing(e, j)
    /\ Judge(e, j, Fail(task[e][j].copy, TRUE))
    /\ UNCHANGED <<phase, job, proc, reading, device, faults>>

\* context.Canceled once the process is stopping: not retryable.
DeviceCancelled(e, j) ==
    /\ proc[e] = "stopping" /\ Executing(e, j)
    /\ Judge(e, j, Fail(task[e][j].copy, FALSE))
    /\ UNCHANGED <<phase, job, proc, reading, device, faults>>

\* Slip: CompleteJob without its expected version.
PersistUnguarded(e, j) ==
    /\ Alive(e) /\ Persisting(e, j)
    /\ job' = IF proc[e] = "running" THEN [job EXCEPT ![j] = task[e][j].copy] ELSE job
    /\ task' = [task EXCEPT ![e][j] = Idle]
    /\ UNCHANGED <<phase, proc, reading, device, faults>>

\* Slip: CompleteJob with a context of its own, which a shutdown does not cancel.
PersistDetached(e, j) ==
    /\ Alive(e) /\ Persisting(e, j)
    /\ job' = IF job[j].version = task[e][j].copy.version - 1
              THEN [job EXCEPT ![j] = task[e][j].copy]
              ELSE job
    /\ task' = [task EXCEPT ![e][j] = Idle]
    /\ UNCHANGED <<phase, proc, reading, device, faults>>

\* CompleteJob, guarded by the version the goroutine claimed.  A cancelled
\* context refuses the statement.
Persist(e, j) ==
    /\ Alive(e) /\ Persisting(e, j)
    /\ job' = IF proc[e] = "running" /\ job[j].version = task[e][j].copy.version - 1
              THEN [job EXCEPT ![j] = task[e][j].copy]
              ELSE job
    /\ task' = [task EXCEPT ![e][j] = Idle]
    /\ UNCHANGED <<phase, proc, reading, device, faults>>

------------------------------------------------------------------------------
(* Faults and restarts *)

\* A statement of the claim transaction fails: ClaimJobs passes over the rows
\* whose update failed, and takes none if it cannot read or commit.
ClaimFails(e) ==
    /\ Fault
    /\ proc[e] = "running" /\ reading[e] # NoReading
    /\ \E S \in Batches(reading[e]) : \E got \in SUBSET Leasable(e, S) : Take(e, got)
    /\ reading' = [reading EXCEPT ![e] = NoReading]
    /\ UNCHANGED <<phase, proc, device>>

\* The statement of CompleteJob fails: the executor logs it and goes on.
PersistFails(e, j) ==
    /\ Fault
    /\ Alive(e) /\ Persisting(e, j)
    /\ task' = [task EXCEPT ![e][j] = Idle]
    /\ UNCHANGED <<phase, job, proc, reading, device>>

\* The process gets no processor time for a while.
Stall(e) ==
    /\ Fault
    /\ proc[e] = "running"
    /\ proc' = [proc EXCEPT ![e] = "stalled"]
    /\ UNCHANGED <<phase, job, reading, task, device>>

Resume(e) ==
    /\ proc[e] = "stalled"
    /\ proc' = [proc EXCEPT ![e] = "running"]
    /\ UNCHANGED <<phase, job, reading, task, device, faults>>

Crash(e) ==
    /\ Fault
    /\ proc[e] # "down"
    /\ proc' = [proc EXCEPT ![e] = "down"]
    /\ reading' = [reading EXCEPT ![e] = NoReading]
    /\ task' = [task EXCEPT ![e] = [j \in Jobs |-> Idle]]
    /\ UNCHANGED <<phase, job, device>>

\* The run context is cancelled; Run waits for its goroutines, then returns.
Shutdown(e) ==
    /\ Fault
    /\ proc[e] = "running"
    /\ proc' = [proc EXCEPT ![e] = "stopping"]
    /\ reading' = [reading EXCEPT ![e] = NoReading]
    /\ UNCHANGED <<phase, job, task, device>>

Stopped(e) ==
    /\ proc[e] = "stopping"
    /\ \A j \in Jobs : ~Working(e, j)
    /\ proc' = [proc EXCEPT ![e] = "down"]
    /\ UNCHANGED <<phase, job, reading, task, device, faults>>

\* A new process takes over.  It has an owner id of its own; the old id needs
\* no name because the copies that carried it are gone.
Restart(e) ==
    /\ proc[e] = "down"
    /\ proc' = [proc EXCEPT ![e] = "running"]
    /\ UNCHANGED <<phase, job, reading, task, device, faults>>

------------------------------------------------------------------------------
(* Time *)

\* In a process that runs, a goroutine is scheduled at once and done by its
\* timeout, and a claim waits no longer than the database makes it.
Overdue(e) == Alive(e) /\ \E j \in Jobs : Working(e, j) /\ task[e][j].deadline <= 0

AgeJob(r) == [r EXCEPT !.next = Age(r.next), !.until = Age(r.until)]

AgeTask(t) ==
    IF t.stage = "idle" THEN t
    ELSE [t EXCEPT !.copy = AgeJob(t.copy), !.deadline = Age(t.deadline)]

Tick ==
    /\ \A e \in Executors :
          /\ ~Overdue(e)
          /\ reading[e] > -(IF proc[e] = "stalled" THEN MaxStall ELSE MaxClaimDelay)
    /\ phase' = (phase + 1) % Second
    /\ job' = [j \in Jobs |-> AgeJob(job[j])]
    /\ task' = [e \in Executors |-> [j \in Jobs |-> AgeTask(task[e][j])]]
    /\ reading' = [e \in Executors |->
           IF reading[e] = NoReading THEN NoReading ELSE reading[e] - 1]
    /\ UNCHANGED <<proc, device, faults>>

Goroutine(e, j) ==
    \/ Start(e, j)
    \/ DeviceDone(e, j) \/ DeviceRefuses(e, j)
    \/ DeviceFails(e, j) \/ DeviceCancelled(e, j)
    \/ Persist(e, j) \/ PersistFails(e, j)

Process(e) ==
    \/ ReadClock(e) \/ Claim(e) \/ ClaimFails(e)
    \/ Stall(e) \/ Resume(e) \/ Crash(e) \/ Shutdown(e) \/ Stopped(e) \/ Restart(e)

Next ==
    \/ Tick
    \/ \E e \in Executors : Process(e) \/ \E j \in Jobs : Goroutine(e, j)

Spec == Init /\ [][Next]_vars

\* Time passes; an executor that is not down keeps cycling (its ticker), a
\* stalled process is scheduled again and a stopped one is started again; the
\* device's reply is only awaited until the timeout, so each goroutine moves on.
Fairness ==
    /\ WF_vars(Tick)
    /\ \A e \in Executors :
        /\ WF_vars(ReadClock(e)) /\ WF_vars(Claim(e))
        /\ WF_vars(Resume(e)) /\ WF_vars(Stopped(e)) /\ WF_vars(Restart(e))
        /\ \A j \in Jobs :
            WF_vars(Start(e, j)) /\ WF_vars(Persist(e, j))
            /\ WF_vars(DeviceDone(e, j) \/ DeviceRefuses(e, j) \/ DeviceFails(e, j)
                       \/ DeviceCancelled(e, j))

FairSpec == Spec /\ Fairness

------------------------------------------------------------------------------
(* Properties *)

TypeOK ==
    /\ phase \in 0..(Second - 1)
    /\ job \in [Jobs -> Job]
    /\ proc \in [Executors -> {"running", "stopping", "stalled", "down"}]
    /\ reading \in [Executors -> (-MaxStall)..0 \cup {NoReading}]
    /\ task \in [Executors -> [Jobs -> Task]]
    /\ device \in [Jobs -> SUBSET {"done", "refused"}]
    /\ faults \in 0..MaxFaults

\* An executor's copy is the row it claimed, or the row has moved on and the
\* lease of the copy has ended; a verdict not yet written is for the row's
\* present attempt, or for a row that has moved on (ClaimJobs, CompleteJob).
CopyMatchesRow ==
    \A e \in Executors, j \in Jobs :
        LET row  == job[j]
            copy == task[e][j].copy
        IN  /\ Claimed(e, j) \/ Executing(e, j) =>
                /\ copy.status = "leased" /\ copy.owner = e /\ copy.version <= row.version
                /\ IF copy.version = row.version THEN row = copy ELSE copy.until <= 0
            /\ Persisting(e, j) =>
                /\ copy.status # "leased" /\ copy.version - 1 <= row.version
                /\ copy.version - 1 = row.version =>
                       row.status = "leased" /\ row.owner = e /\ row.attempts = copy.attempts

\* Two executors never run a job's command on the strength of leases that are
\* both still open, whatever stalls, crashes and clock-text order do to them
\* (Job.Claimable, the version guard of ClaimJobs).
LeaseExclusive ==
    \A j \in Jobs, e, f \in Executors :
        Executing(e, j) /\ Executing(f, j)
        /\ task[e][j].copy.until > 0 /\ task[f][j].copy.until > 0 => e = f

\* As long as no fault has struck, a device never runs the same command for
\* two executors: the timeout of half a lease ends the first before the lease
\* ends (NewExecutor).
OneRunAtATime ==
    \A j \in Jobs, e, f \in Executors :
        faults = 0 /\ Executing(e, j) /\ Executing(f, j) => e = f

\* A verdict in the table is the device's: succeeded only if the device did the
\* command, and given up only if it refused or the attempts are used up; in
\* particular the cancellation of a shutdown leaves no permanent failure
\* (Executor.execute persists with the cancelled context).
VerdictFromDevice ==
    \A j \in Jobs :
        /\ job[j].status = "succeeded" => "done" \in device[j]
        /\ job[j].status = "permanent_failure" =>
               "refused" \in device[j] \/ job[j].attempts >= MaxAttempts

\* The ledger that the rows and the goroutines keep.
VerdictOf == [j \in Jobs |-> IF job[j].status \in Terminal THEN job[j].status ELSE "open"]
HolderOf == [j \in Jobs |-> job[j].owner]
AttemptOf == [j \in Jobs |-> job[j].attempts]
AttemptsUnderWay ==
    UNION {{[by |-> e, job |-> j, number |-> task[e][j].copy.attempts] :
               j \in {k \in Jobs : Working(e, k)}} : e \in Executors}

Ledger == INSTANCE JobLedger WITH
    verdict <- VerdictOf, holder <- HolderOf, attempt <- AttemptOf, working <- AttemptsUnderWay

\* The jobs, their leases and their versions keep the ledger: a settled job is never
\* given out, run to another verdict or reopened, and an executor that wakes up with
\* the copy of an earlier attempt changes nothing under a later holder (ClaimJobs,
\* CompleteJob's expected version).
KeepsLedger == Ledger!Spec

\* A settled job is never claimed, run to another verdict or reopened, even by
\* an executor that wakes up with a copy from before (CompleteJob).
TerminalIsFinal ==
    [][\A j \in Jobs : job[j].status \in Terminal =>
          /\ job'[j].status = job[j].status
          /\ job'[j].attempts = job[j].attempts
          /\ job'[j].version = job[j].version]_vars

\* A lease is only given up by the executor that holds it and for the attempt it
\* was given for: a late copy from an earlier attempt never settles the job
\* under a later holder (CompleteJob's expected version).
VerdictFromHolder ==
    [][\A j \in Jobs : job[j].status = "leased" /\ job'[j].status # "leased" =>
          \E e \in Executors :
              /\ job[j].owner = e /\ Persisting(e, j) /\ ~Working(e, j)'
              /\ task[e][j].copy.attempts = job[j].attempts
              /\ job'[j].attempts = job[j].attempts]_vars

\* An attempt starts neither before the backoff of the last one nor before the
\* open lease has ended, though SQL picks rows by the order of texts (the second
\* look of Job.Lease in ClaimJobs).
NeverEarly ==
    [][\A j \in Jobs : job'[j].attempts # job[j].attempts =>
          IF job[j].status = "leased" THEN job[j].until <= 0 ELSE job[j].next <= 0]_vars

\* max_attempts is the limit of attempts (NewJob: "attempt limit must be between
\* 1 and 20"; TestJobPermanentFailureAtAttemptLimit).
AttemptsWithinLimit == \A j \in Jobs : job[j].attempts <= MaxAttempts

\* Every job reaches a verdict, though executors may stall, crash, restart and
\* lose writes a bounded number of times.
EveryJobSettles == \A j \in Jobs : <>(job[j].status \in Terminal)
=============================================================================
