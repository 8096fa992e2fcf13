------------------------ MODULE ExecutionJobs_proofs ------------------------
(***************************************************************************)
(* Proofs about ExecutionJobs, for every number of jobs and executors and  *)
(* every lease, backoff, batch size and number of faults.                  *)
(*                                                                         *)
(* TypeOK is inductive alone.  CopyMatchesRow is inductive beside it: an   *)
(* executor's copy equals its row until the row moves on, and a row moves  *)
(* on only when its lease has ended or when its one holder writes.         *)
(* LeaseExclusive, TerminalIsFinal and VerdictFromHolder follow.           *)
(* Grounded ties each judged copy to what the device answered, whence      *)
(* VerdictFromDevice; Prompt follows deadlines and lease ends as long as   *)
(* no fault has struck, whence OneRunAtATime.  Last comes the refinement   *)
(* of JobLedger.                                                           *)
(***************************************************************************)
EXTENDS ExecutionJobs, TLAPS

USE DEF StoredLE

LEMMA PastNegative == Past \in Int /\ Past < 0
BY SecondAssumption, LimitsAssumption DEF Past

LEMMA NewJobType == NewJob \in Job
BY PastNegative DEF NewJob, Job, JobStatus

LEMMA IdleType == Idle \in Task /\ Idle.stage = "idle"
BY NewJobType DEF Idle, Task

\* Half a lease, as NewExecutor rounds it.
LEMMA TimeoutHalf == Timeout \in Nat /\ Timeout <= LeaseTicks
<1>1. LeaseTicks \in Nat
  BY LimitsAssumption
<1> QED BY <1>1 DEF Timeout

\* Aging an instant keeps the past in the past.
LEMMA AgeType == ASSUME NEW t \in Int
                 PROVE  Age(t) \in Int /\ (t <= 0 => Age(t) <= 0)
BY PastNegative DEF Age

LEMMA AgeJobType ==
    ASSUME NEW r \in Job
    PROVE  /\ AgeJob(r) \in Job
           /\ AgeJob(r).status = r.status /\ AgeJob(r).owner = r.owner
           /\ AgeJob(r).attempts = r.attempts /\ AgeJob(r).version = r.version
           /\ r.until <= 0 => AgeJob(r).until <= 0
BY AgeType DEF AgeJob, Job

LEMMA AgeTaskType ==
    ASSUME NEW t \in Task
    PROVE  AgeTask(t) \in Task /\ AgeTask(t).stage = t.stage
           /\ (t.stage # "idle" => AgeTask(t).copy = AgeJob(t.copy))
BY AgeType, AgeJobType DEF AgeTask, Task

\* The backoff of any attempt is a duration.
LEMMA BackoffType == ASSUME NEW a \in Nat PROVE Backoff(a) \in Nat
<1> DEFINE base == IF BackoffTicks = 0 THEN Second ELSE BackoffTicks
           i == IF a < 1 THEN 1 ELSE IF a > 9 THEN 9 ELSE a
<1>1. i \in 1..9
  OBVIOUS
<1>2. Doublings[i] \in Nat
  BY <1>1 DEF Doublings
<1>3. base \in Nat
  BY SecondAssumption, LimitsAssumption
<1> HIDE DEF i, base
<1>4. base * Doublings[i] \in Nat
  BY <1>2, <1>3
<1> QED BY <1>4, LimitsAssumption DEF Backoff, i, base

\* A lease keeps the row's type, takes it one attempt and one version on.
LEMMA LeaseType ==
    ASSUME NEW r \in Job, NEW e \in Executors, NEW t \in Int
    PROVE  /\ Lease(r, e, t) \in Job
           /\ Lease(r, e, t).status = "leased" /\ Lease(r, e, t).owner = e
           /\ Lease(r, e, t).attempts = r.attempts + 1
           /\ Lease(r, e, t).version = r.version + 1
BY LimitsAssumption DEF Lease, Job, JobStatus

LEMMA SettleType ==
    ASSUME NEW r \in Job, NEW s \in JobStatus
    PROVE  /\ Settle(r, s) \in Job
           /\ Settle(r, s).status = s
           /\ Settle(r, s).attempts = r.attempts /\ Settle(r, s).version = r.version + 1
BY PastNegative DEF Settle, Job

\* Either verdict ends the lease, keeps the attempt and takes the version on.
LEMMA JudgedType ==
    ASSUME NEW r \in Job, NEW b \in BOOLEAN, NEW x \in {Succeed(r), Fail(r, b)}
    PROVE  /\ x \in Job /\ x.status # "leased"
           /\ x.attempts = r.attempts /\ x.version = r.version + 1
<1>1. ASSUME NEW s \in JobStatus \ {"leased"} PROVE
         /\ Settle(r, s) \in Job /\ Settle(r, s).status # "leased"
         /\ Settle(r, s).attempts = r.attempts /\ Settle(r, s).version = r.version + 1
  BY SettleType
<1>2. Succeed(r) \in Job /\ Succeed(r).status # "leased"
      /\ Succeed(r).attempts = r.attempts /\ Succeed(r).version = r.version + 1
  BY <1>1 DEF Succeed, JobStatus, Terminal
<1>3. Backoff(r.attempts) \in Nat
  BY BackoffType DEF Job
<1>4. Fail(r, b) \in Job /\ Fail(r, b).status # "leased"
      /\ Fail(r, b).attempts = r.attempts /\ Fail(r, b).version = r.version + 1
  BY <1>1, <1>3 DEF Fail, JobStatus, Terminal, Job
<1> QED BY <1>2, <1>4

-----------------------------------------------------------------------------
(* Type correctness *)

LEMMA InitType == Init => TypeOK
BY SecondAssumption, LimitsAssumption, NewJobType, IdleType DEF Init, TypeOK, NoReading

LEMMA JudgeType ==
    ASSUME TypeOK, NEW e \in Executors, NEW j \in Jobs, NEW x \in Job, Judge(e, j, x)
    PROVE  task' \in [Executors -> [Jobs -> Task]]
BY IdleType DEF TypeOK, Judge, Task

LEMMA TakeType ==
    ASSUME TypeOK, NEW e \in Executors, NEW jobs, reading[e] # NoReading, Take(e, jobs)
    PROVE  job' \in [Jobs -> Job] /\ task' \in [Executors -> [Jobs -> Task]]
<1> DEFINE leased(j) == Lease(job[j], e, reading[e])
           new(j) == [stage |-> "claimed", copy |-> leased(j), deadline |-> 0]
<1>1. /\ job' = [j \in Jobs |-> IF j \in jobs THEN leased(j) ELSE job[j]]
      /\ task' = [task EXCEPT ![e] = [j \in Jobs |-> IF j \in jobs THEN new(j) ELSE task[e][j]]]
  BY DEF Take
<1>2. reading[e] \in Int
  BY LimitsAssumption DEF TypeOK, NoReading
<1>3. \A j \in Jobs : leased(j) \in Job
  BY <1>2, LeaseType DEF TypeOK
<1>4. \A j \in Jobs : new(j) \in Task
  BY <1>3 DEF Task
<1> HIDE DEF leased, new
<1> QED BY <1>1, <1>3, <1>4 DEF TypeOK

LEMMA StepType == TypeOK /\ [Next]_vars => TypeOK'
<1> SUFFICES ASSUME TypeOK, [Next]_vars PROVE TypeOK'
  OBVIOUS
<1> USE DEF TypeOK
<1>1. CASE Tick
  <2>1. phase' \in 0..(Second - 1)
    BY <1>1, SecondAssumption DEF Tick
  <2>2. job' \in [Jobs -> Job]
    BY <1>1, AgeJobType DEF Tick
  <2>3. task' \in [Executors -> [Jobs -> Task]]
    BY <1>1, AgeTaskType DEF Tick
  <2>4. reading' \in [Executors -> (-MaxStall)..0 \cup {NoReading}]
    BY <1>1, LimitsAssumption DEF Tick, NoReading
  <2> QED BY <1>1, <2>1, <2>2, <2>3, <2>4 DEF Tick
<1>2. ASSUME NEW e \in Executors, Process(e) PROVE TypeOK'
  <2>1. CASE ReadClock(e)
    BY <2>1, LimitsAssumption DEF ReadClock
  <2>2. CASE Claim(e)
    BY <2>2, TakeType, LimitsAssumption DEF Claim, NoReading
  <2>3. CASE ClaimFails(e)
    BY <2>3, TakeType, LimitsAssumption DEF ClaimFails, Fault, NoReading
  <2>4. CASE Stall(e)
    BY <2>4, LimitsAssumption DEF Stall, Fault
  <2>5. CASE Resume(e)
    BY <2>5 DEF Resume
  <2>6. CASE Crash(e)
    BY <2>6, IdleType, LimitsAssumption DEF Crash, Fault
  <2>7. CASE Shutdown(e)
    BY <2>7, LimitsAssumption DEF Shutdown, Fault
  <2>8. CASE Stopped(e)
    BY <2>8 DEF Stopped
  <2>9. CASE Restart(e)
    BY <2>9 DEF Restart
  <2> QED BY <1>2, <2>1, <2>2, <2>3, <2>4, <2>5, <2>6, <2>7, <2>8, <2>9 DEF Process
<1>3. ASSUME NEW e \in Executors, NEW j \in Jobs, Goroutine(e, j) PROVE TypeOK'
  <2>0. task[e][j].copy \in Job
    BY DEF Task
  <2>1. \A b \in BOOLEAN : Succeed(task[e][j].copy) \in Job /\ Fail(task[e][j].copy, b) \in Job
    BY <2>0, JudgedType
  <2>2. CASE DeviceDone(e, j)
    BY <2>1, <2>2, JudgeType DEF DeviceDone
  <2>3. CASE DeviceRefuses(e, j)
    BY <2>1, <2>3, JudgeType DEF DeviceRefuses
  <2>4. CASE DeviceFails(e, j)
    BY <2>1, <2>4, JudgeType DEF DeviceFails
  <2>5. CASE DeviceCancelled(e, j)
    BY <2>1, <2>5, JudgeType DEF DeviceCancelled
  <2>6. CASE Persist(e, j)
    BY <2>0, <2>6, IdleType DEF Persist
  <2>7. CASE PersistFails(e, j)
    BY <2>7, IdleType, LimitsAssumption DEF PersistFails, Fault
  <2>8. CASE Start(e, j)
    BY <2>0, <2>8, TimeoutHalf DEF Start, Task
  <2> QED BY <1>3, <2>2, <2>3, <2>4, <2>5, <2>6, <2>7, <2>8 DEF Goroutine
<1>4. CASE UNCHANGED vars
  BY <1>4 DEF vars
<1> QED BY <1>1, <1>2, <1>3, <1>4 DEF Next

\* The variables keep their types: TLC's check of TypeOK for every instance.
THEOREM TypeCorrect == Spec => []TypeOK
BY InitType, StepType, PTL DEF Spec

-----------------------------------------------------------------------------
(* The copies and the rows *)

\* What CopyMatchesRow says of one goroutine.
Matches(t, row, e) ==
    /\ t.stage \in {"claimed", "executing"} =>
        /\ t.copy.status = "leased" /\ t.copy.owner = e /\ t.copy.version <= row.version
        /\ IF t.copy.version = row.version THEN row = t.copy ELSE t.copy.until <= 0
    /\ t.stage = "persisting" =>
        /\ t.copy.status # "leased" /\ t.copy.version - 1 <= row.version
        /\ t.copy.version - 1 = row.version =>
               row.status = "leased" /\ row.owner = e /\ row.attempts = t.copy.attempts

LEMMA MatchesDef ==
    CopyMatchesRow <=> \A e \in Executors, j \in Jobs : Matches(task[e][j], job[j], e)
BY DEF CopyMatchesRow, Matches, Claimed, Executing, Persisting

LEMMA MatchesDefPrime ==
    CopyMatchesRow' <=> \A e \in Executors, j \in Jobs : Matches(task'[e][j], job'[j], e)
BY DEF CopyMatchesRow, Matches, Claimed, Executing, Persisting

LEMMA IdleMatches == ASSUME NEW row, NEW e PROVE Matches(Idle, row, e)
BY DEF Matches, Idle

\* A row and a copy that match still match a tick later.
LEMMA AgedMatches ==
    ASSUME NEW t \in Task, NEW row \in Job, NEW e \in Executors, Matches(t, row, e)
    PROVE  Matches(AgeTask(t), AgeJob(row), e)
<1> DEFINE u == AgeTask(t)
           r == AgeJob(row)
<1>1. u.stage = t.stage /\ (t.stage # "idle" => u.copy = AgeJob(t.copy))
  BY AgeTaskType
<1>2. t.copy \in Job
  BY DEF Task
<1>3. /\ r.status = row.status /\ r.owner = row.owner
      /\ r.attempts = row.attempts /\ r.version = row.version
  BY AgeJobType
<1>4. /\ AgeJob(t.copy).status = t.copy.status /\ AgeJob(t.copy).owner = t.copy.owner
      /\ AgeJob(t.copy).attempts = t.copy.attempts
      /\ AgeJob(t.copy).version = t.copy.version
      /\ t.copy.until <= 0 => AgeJob(t.copy).until <= 0
  BY <1>2, AgeJobType
<1> HIDE DEF u, r
<1>5. CASE t.stage \in {"claimed", "executing"}
  <2>1. t.copy.version = row.version => r = AgeJob(t.copy)
    BY <1>5 DEF Matches, r
  <2> QED BY <1>1, <1>3, <1>4, <1>5, <2>1 DEF Matches, u, r
<1>6. CASE t.stage = "persisting"
  BY <1>1, <1>3, <1>4, <1>6 DEF Matches, u, r
<1> QED BY <1>1, <1>5, <1>6 DEF Matches, u, r

\* The row moves on while its lease is over or held by another executor: a
\* copy that matched it is now a copy from the past.
LEMMA RowMovesOn ==
    ASSUME NEW t \in Task, NEW row \in Job, NEW new \in Job, NEW e \in Executors,
           Matches(t, row, e), new.version = row.version + 1,
           \/ row.status # "leased"
           \/ row.until <= 0
           \/ row.owner # e
    PROVE  Matches(t, new, e)
<1>1. t.copy.version \in Nat /\ row.version \in Nat
  BY DEF Task, Job
<1>2. CASE t.stage \in {"claimed", "executing"}
  BY <1>1, <1>2 DEF Matches
<1>3. CASE t.stage = "persisting"
  BY <1>1, <1>3 DEF Matches
<1> QED BY <1>2, <1>3 DEF Matches

\* Judging a reply keeps the match, whichever verdict comes out.
LEMMA JudgedMatches ==
    ASSUME TypeOK, CopyMatchesRow, NEW e \in Executors, NEW j \in Jobs, Executing(e, j),
           NEW x \in Job, x.status # "leased", x.attempts = task[e][j].copy.attempts,
           x.version = task[e][j].copy.version + 1,
           Judge(e, j, x), UNCHANGED job
    PROVE  CopyMatchesRow'
<1> DEFINE t == [stage |-> "persisting", copy |-> x, deadline |-> task[e][j].deadline]
<1>1. Matches(task[e][j], job[j], e) /\ task[e][j].stage = "executing"
  BY MatchesDef DEF Executing
<1>2. task[e][j].copy.version \in Nat /\ job[j].version \in Nat
  BY DEF TypeOK, Task, Job
<1>3. Matches(t, job[j], e)
  BY <1>1, <1>2 DEF Matches
<1>4. task'[e][j] \in {t, Idle}
  BY DEF Judge, TypeOK
<1>5. \A f \in Executors, k \in Jobs : f # e \/ k # j => task'[f][k] = task[f][k]
  BY DEF Judge, TypeOK
<1>6. \A f \in Executors, k \in Jobs : Matches(task'[f][k], job'[k], f)
  BY <1>3, <1>4, <1>5, IdleMatches, MatchesDef
<1> QED BY <1>6, MatchesDefPrime

LEMMA InitMatches == Init => CopyMatchesRow
<1> SUFFICES ASSUME Init PROVE \A e \in Executors, j \in Jobs : Matches(task[e][j], job[j], e)
  BY MatchesDef
<1> QED BY IdleMatches DEF Init

LEMMA TakeMatches ==
    ASSUME TypeOK, CopyMatchesRow, NEW e \in Executors, NEW S, NEW jobs \in SUBSET Leasable(e, S),
           reading[e] # NoReading, Take(e, jobs)
    PROVE  CopyMatchesRow'
<1> DEFINE leased(j) == Lease(job[j], e, reading[e])
           new(j) == [stage |-> "claimed", copy |-> leased(j), deadline |-> 0]
<1>1. /\ job' = [j \in Jobs |-> IF j \in jobs THEN leased(j) ELSE job[j]]
      /\ task' = [task EXCEPT ![e] = [j \in Jobs |-> IF j \in jobs THEN new(j) ELSE task[e][j]]]
  BY DEF Take
<1>2. reading[e] \in Int /\ reading[e] <= 0
  BY LimitsAssumption DEF TypeOK, NoReading
<1>3. SUFFICES ASSUME NEW f \in Executors, NEW j \in Jobs
               PROVE  Matches(task'[f][j], job'[j], f)
  BY MatchesDefPrime
<1>4. Matches(task[f][j], job[j], f) /\ task[f][j] \in Task /\ job[j] \in Job
  BY MatchesDef DEF TypeOK
<1>5. CASE j \notin jobs
  <2>1. job'[j] = job[j] /\ task'[f][j] = task[f][j]
    BY <1>1, <1>5 DEF TypeOK
  <2> QED BY <1>4, <2>1
<1>6. CASE j \in jobs /\ f = e
  <2>1. job'[j] = leased(j) /\ task'[f][j] = new(j)
    BY <1>1, <1>6 DEF TypeOK
  <2>2. leased(j).status = "leased" /\ leased(j).owner = e /\ leased(j).version \in Nat
    BY <1>2, <1>4, LeaseType DEF Job
  <2> HIDE DEF leased
  <2>3. Matches(new(j), leased(j), f)
    BY <1>6, <2>2 DEF Matches
  <2> QED BY <2>1, <2>3
<1>7. CASE j \in jobs /\ f # e
  <2>1. job'[j] = leased(j) /\ task'[f][j] = task[f][j]
    BY <1>1, <1>7 DEF TypeOK
  <2>2. job[j].status # "leased" \/ job[j].until <= 0
    BY <1>2, <1>4, <1>7 DEF Leasable, Claimable, Job
  <2>3. leased(j) \in Job /\ leased(j).version = job[j].version + 1
    BY <1>2, <1>4, LeaseType
  <2> HIDE DEF leased
  <2>4. Matches(task[f][j], leased(j), f)
    BY <1>4, <2>2, <2>3, RowMovesOn
  <2> QED BY <2>1, <2>4
<1> QED BY <1>5, <1>6, <1>7

LEMMA PersistMatches ==
    ASSUME TypeOK, CopyMatchesRow, NEW e \in Executors, NEW j \in Jobs, Persist(e, j)
    PROVE  CopyMatchesRow'
<1>1. SUFFICES ASSUME NEW f \in Executors, NEW k \in Jobs
               PROVE  Matches(task'[f][k], job'[k], f)
  BY MatchesDefPrime
<1>2. Matches(task[f][k], job[k], f) /\ task[f][k] \in Task /\ job[k] \in Job
  BY MatchesDef DEF TypeOK
<1>3. CASE f = e /\ k = j
  BY <1>3, IdleMatches DEF Persist, TypeOK
<1>4. CASE (f # e \/ k # j) /\ job'[k] = job[k]
  BY <1>2, <1>4 DEF Persist, TypeOK
<1>5. CASE (f # e \/ k # j) /\ job'[k] # job[k]
  <2>1. k = j /\ f # e /\ job'[j] = task[e][j].copy /\ task'[f][j] = task[f][j]
        /\ job[j].version = task[e][j].copy.version - 1
    BY <1>5 DEF Persist, TypeOK
  <2>2. task[e][j].copy \in Job
    BY DEF TypeOK, Task
  <2>3. Matches(task[e][j], job[j], e) /\ task[e][j].stage = "persisting"
    BY MatchesDef DEF Persist, Persisting
  <2>4. job[j].owner = e /\ task[e][j].copy.version = job[j].version + 1
    BY <2>1, <2>2, <2>3 DEF Matches, Job
  <2> QED BY <1>2, <2>1, <2>2, <2>4, RowMovesOn
<1> QED BY <1>3, <1>4, <1>5

LEMMA StepMatches == TypeOK /\ CopyMatchesRow /\ [Next]_vars => CopyMatchesRow'
<1> SUFFICES ASSUME TypeOK, CopyMatchesRow, [Next]_vars PROVE CopyMatchesRow'
  OBVIOUS
<1>1. CASE Tick
  <2>1. SUFFICES ASSUME NEW e \in Executors, NEW j \in Jobs
                 PROVE  Matches(task'[e][j], job'[j], e)
    BY MatchesDefPrime
  <2>2. task'[e][j] = AgeTask(task[e][j]) /\ job'[j] = AgeJob(job[j])
    BY <1>1 DEF Tick
  <2>3. task[e][j] \in Task /\ job[j] \in Job /\ Matches(task[e][j], job[j], e)
    BY MatchesDef DEF TypeOK
  <2> QED BY <2>2, <2>3, AgedMatches
\* Steps that leave the copies and the rows alone.
<1>2. CASE UNCHANGED <<job, task>>
  BY <1>2 DEF CopyMatchesRow, Claimed, Executing, Persisting
<1>3. ASSUME NEW e \in Executors, Process(e) PROVE CopyMatchesRow'
  <2>1. CASE Claim(e)
    BY <2>1, TakeMatches DEF Claim
  <2>3. CASE ClaimFails(e)
    BY <2>3, TakeMatches DEF ClaimFails
  <2>2. CASE Crash(e)
    <3>1. SUFFICES ASSUME NEW f \in Executors, NEW j \in Jobs
                   PROVE  Matches(task'[f][j], job'[j], f)
      BY MatchesDefPrime
    <3>2. job'[j] = job[j] /\ task'[f][j] \in {task[f][j], Idle}
      BY <2>2 DEF Crash, TypeOK
    <3> QED BY <3>2, MatchesDef, IdleMatches
  <2> QED BY <1>2, <1>3, <2>1, <2>2, <2>3
      DEF Process, ReadClock, Stall, Resume, Shutdown, Stopped, Restart
<1>4. ASSUME NEW e \in Executors, NEW j \in Jobs, Goroutine(e, j) PROVE CopyMatchesRow'
  <2>0. task[e][j].copy \in Job
    BY DEF TypeOK, Task
  <2> DEFINE Verdict(x) == /\ x \in Job /\ x.status # "leased"
                           /\ x.attempts = task[e][j].copy.attempts
                           /\ x.version = task[e][j].copy.version + 1
  <2>1. Verdict(Succeed(task[e][j].copy))
        /\ \A b \in BOOLEAN : Verdict(Fail(task[e][j].copy, b))
    BY <2>0, JudgedType
  <2>2. CASE DeviceDone(e, j)
    BY <2>1, <2>2, JudgedMatches DEF DeviceDone
  <2>3. CASE DeviceRefuses(e, j)
    BY <2>1, <2>3, JudgedMatches DEF DeviceRefuses
  <2>4. CASE DeviceFails(e, j)
    BY <2>1, <2>4, JudgedMatches DEF DeviceFails
  <2>5. CASE DeviceCancelled(e, j)
    BY <2>1, <2>5, JudgedMatches DEF DeviceCancelled
  <2>6. CASE Persist(e, j)
    BY <2>6, PersistMatches
  <2>7. CASE PersistFails(e, j)
    <3>1. SUFFICES ASSUME NEW f \in Executors, NEW k \in Jobs
                   PROVE  Matches(task'[f][k], job'[k], f)
      BY MatchesDefPrime
    <3>2. job'[k] = job[k] /\ task'[f][k] \in {task[f][k], Idle}
      BY <2>7 DEF PersistFails, TypeOK
    <3> QED BY <3>2, MatchesDef, IdleMatches
  <2>8. CASE Start(e, j)
    <3>1. SUFFICES ASSUME NEW f \in Executors, NEW k \in Jobs
                   PROVE  Matches(task'[f][k], job'[k], f)
      BY MatchesDefPrime
    <3>2. Matches(task[f][k], job[k], f)
      BY MatchesDef
    <3>3. /\ job' = job
          /\ task'[f][k] = IF f = e /\ k = j
               THEN [stage |-> "executing", copy |-> task[e][j].copy, deadline |-> Timeout]
               ELSE task[f][k]
          /\ task[e][j].stage = "claimed"
      BY <2>8 DEF Start, Claimed, TypeOK
    <3>4. CASE f = e /\ k = j
      BY <3>2, <3>3, <3>4 DEF Matches
    <3> QED BY <3>2, <3>3, <3>4
  <2> QED BY <1>4, <2>2, <2>3, <2>4, <2>5, <2>6, <2>7, <2>8 DEF Goroutine
<1>5. CASE UNCHANGED vars
  BY <1>2, <1>5 DEF vars
<1> QED BY <1>1, <1>3, <1>4, <1>5 DEF Next

\* An executor's copy is its row until the row moves on (CopyMatchesRow).
THEOREM CopiesMatchRows == Spec => []CopyMatchesRow
BY InitMatches, StepMatches, TypeCorrect, PTL DEF Spec

-----------------------------------------------------------------------------
(* What follows from it *)

\* No two executors run a job under open leases (LeaseExclusive): both copies
\* would be the row, which has one owner.
THEOREM LeasesExclusive == Spec => []LeaseExclusive
<1>1. TypeOK /\ CopyMatchesRow => LeaseExclusive
  <2> SUFFICES ASSUME TypeOK, CopyMatchesRow,
                      NEW j \in Jobs, NEW e \in Executors, NEW f \in Executors,
                      Executing(e, j), Executing(f, j),
                      task[e][j].copy.until > 0, task[f][j].copy.until > 0
               PROVE  e = f
    BY DEF LeaseExclusive
  <2>1. task[e][j].copy.until \in Int /\ task[f][j].copy.until \in Int
    BY DEF TypeOK, Task, Job
  <2>2. job[j] = task[e][j].copy /\ job[j] = task[f][j].copy
    BY <2>1 DEF CopyMatchesRow
  <2>3. task[e][j].copy.owner = e /\ task[f][j].copy.owner = f
    BY DEF CopyMatchesRow
  <2> QED BY <2>2, <2>3
<1> QED BY <1>1, TypeCorrect, CopiesMatchRows, PTL

\* A claim, whole or in part, job by job: the row and the goroutine keep still, or
\* the row that Job.Lease accepts is the copy of a new goroutine.
LEMMA ClaimOfJob ==
    ASSUME TypeOK, NEW e \in Executors, Claim(e) \/ ClaimFails(e), NEW j \in Jobs
    PROVE  \/ job'[j] = job[j] /\ \A f \in Executors : task'[f][j] = task[f][j]
           \/ /\ Claimable(job[j], reading[e])
              /\ job'[j] = Lease(job[j], e, reading[e])
              /\ task'[e][j] = [stage |-> "claimed", copy |-> Lease(job[j], e, reading[e]),
                                deadline |-> 0]
              /\ \A f \in Executors \ {e} : task'[f][j] = task[f][j]
<1>0. PICK S \in Batches(reading[e]) : \E got \in SUBSET Leasable(e, S) : Take(e, got)
  BY DEF Claim, ClaimFails
<1>1. PICK jobs \in SUBSET Leasable(e, S) : Take(e, jobs)
  BY <1>0
<1> DEFINE new(k) == [stage |-> "claimed", copy |-> Lease(job[k], e, reading[e]), deadline |-> 0]
<1>2. j \in jobs => Claimable(job[j], reading[e])
  BY <1>1 DEF Leasable
<1>3. job'[j] = IF j \in jobs THEN Lease(job[j], e, reading[e]) ELSE job[j]
  BY <1>1 DEF Take
<1>4. /\ task'[e][j] = IF j \in jobs THEN new(j) ELSE task[e][j]
      /\ \A f \in Executors \ {e} : task'[f][j] = task[f][j]
  BY <1>1 DEF Take, TypeOK
<1> QED BY <1>2, <1>3, <1>4

\* How one step can change a row: it is claimed, it takes a matching verdict, or
\* it only ages.
LEMMA RowStep ==
    ASSUME TypeOK, CopyMatchesRow, [Next]_vars, NEW j \in Jobs
    PROVE  \/ \E e \in Executors :
                 /\ Claimable(job[j], reading[e])
                 /\ job'[j].status = "leased" /\ job'[j].attempts = job[j].attempts + 1
                 /\ reading[e] <= 0
           \/ \E e \in Executors :
                 /\ Persisting(e, j) /\ ~Working(e, j)' /\ job'[j] = task[e][j].copy
                 /\ job[j].version = task[e][j].copy.version - 1
                 /\ job[j].status = "leased" /\ job[j].owner = e
                 /\ job'[j].status # "leased"
                 /\ job[j].attempts = task[e][j].copy.attempts
           \/ /\ job'[j].status = job[j].status /\ job'[j].owner = job[j].owner
              /\ job'[j].attempts = job[j].attempts /\ job'[j].version = job[j].version
<1>0. job[j] \in Job
  BY DEF TypeOK
<1>1. CASE Tick
  BY <1>0, <1>1, AgeJobType DEF Tick
<1>2. CASE UNCHANGED job
  BY <1>2
<1>3. ASSUME NEW e \in Executors, Process(e), job' # job PROVE
        \/ /\ Claimable(job[j], reading[e]) /\ reading[e] <= 0
           /\ job'[j].status = "leased" /\ job'[j].attempts = job[j].attempts + 1
        \/ job'[j] = job[j]
  <2>1. Claim(e) \/ ClaimFails(e)
    BY <1>3 DEF Process, ReadClock, Stall, Resume, Crash, Shutdown, Stopped, Restart
  <2>2. reading[e] \in Int /\ reading[e] <= 0
    BY <2>1, LimitsAssumption DEF Claim, ClaimFails, TypeOK, NoReading
  <2>3. job'[j] # job[j] => /\ Claimable(job[j], reading[e])
                            /\ job'[j] = Lease(job[j], e, reading[e])
    BY <2>1, ClaimOfJob
  <2> QED BY <1>0, <2>2, <2>3, LeaseType
<1>4. ASSUME NEW e \in Executors, NEW k \in Jobs, Goroutine(e, k), job' # job PROVE
        \/ /\ Persisting(e, j) /\ ~Working(e, j)' /\ job'[j] = task[e][j].copy
           /\ job[j].version = task[e][j].copy.version - 1
           /\ job[j].status = "leased" /\ job[j].owner = e /\ job'[j].status # "leased"
           /\ job[j].attempts = task[e][j].copy.attempts
        \/ job'[j] = job[j]
  <2>1. Persist(e, k)
    BY <1>4 DEF Goroutine, Start, DeviceDone, DeviceRefuses, DeviceFails, DeviceCancelled, PersistFails
  <2>2. k # j => job'[j] = job[j]
    BY <2>1 DEF Persist, TypeOK
  <2>3. CASE k = j
    <3>1. /\ Persisting(e, j) /\ job'[j] = task[e][j].copy
          /\ job[j].version = task[e][j].copy.version - 1
      BY <1>4, <2>1, <2>3 DEF Persist, TypeOK
    <3>2. task'[e][j] = Idle
      BY <2>1, <2>3 DEF Persist, TypeOK
    <3>3. ~Working(e, j)'
      BY <3>2, IdleType DEF Working
    <3>4. /\ task[e][j].copy.status # "leased"
          /\ job[j].status = "leased" /\ job[j].owner = e
          /\ job[j].attempts = task[e][j].copy.attempts
      BY <3>1 DEF CopyMatchesRow
    <3> QED BY <3>1, <3>3, <3>4
  <2> QED BY <2>2, <2>3
<1> QED BY <1>1, <1>2, <1>3, <1>4 DEF Next, vars

\* A settled job stays settled (TerminalIsFinal).
THEOREM SettledForGood == Spec => TerminalIsFinal
<1>1. TypeOK /\ CopyMatchesRow /\ [Next]_vars =>
        [\A j \in Jobs : job[j].status \in Terminal =>
            /\ job'[j].status = job[j].status
            /\ job'[j].attempts = job[j].attempts
            /\ job'[j].version = job[j].version]_vars
  <2> SUFFICES ASSUME TypeOK, CopyMatchesRow, [Next]_vars,
                      NEW j \in Jobs, job[j].status \in Terminal
               PROVE  /\ job'[j].status = job[j].status
                      /\ job'[j].attempts = job[j].attempts
                      /\ job'[j].version = job[j].version
    OBVIOUS
  <2>1. \A t : ~Claimable(job[j], t)
    BY DEF Claimable, Terminal
  <2>2. job[j].status # "leased"
    BY DEF Terminal
  <2> QED BY <2>1, <2>2, RowStep
<1> QED BY <1>1, TypeCorrect, CopiesMatchRows, PTL DEF Spec, TerminalIsFinal

\* Only the holder of a lease settles it (VerdictFromHolder).
THEOREM HolderSettles == Spec => VerdictFromHolder
<1>1. TypeOK /\ CopyMatchesRow /\ [Next]_vars =>
        [\A j \in Jobs : job[j].status = "leased" /\ job'[j].status # "leased" =>
            \E e \in Executors :
                /\ job[j].owner = e /\ Persisting(e, j) /\ ~Working(e, j)'
                /\ task[e][j].copy.attempts = job[j].attempts
                /\ job'[j].attempts = job[j].attempts]_vars
  BY RowStep
<1> QED BY <1>1, TypeCorrect, CopiesMatchRows, PTL DEF Spec, VerdictFromHolder

\* No attempt starts early (NeverEarly).
THEOREM AttemptsNeverEarly == Spec => NeverEarly
<1>1. TypeOK /\ CopyMatchesRow /\ [Next]_vars =>
        [\A j \in Jobs : job'[j].attempts # job[j].attempts =>
            IF job[j].status = "leased" THEN job[j].until <= 0 ELSE job[j].next <= 0]_vars
  <2> SUFFICES ASSUME TypeOK, CopyMatchesRow, [Next]_vars,
                      NEW j \in Jobs, job'[j].attempts # job[j].attempts
               PROVE  IF job[j].status = "leased" THEN job[j].until <= 0 ELSE job[j].next <= 0
    OBVIOUS
  <2>1. PICK e \in Executors : Claimable(job[j], reading[e]) /\ reading[e] <= 0
    BY RowStep
  <2>2. job[j] \in Job /\ reading[e] \in Int
    BY LimitsAssumption DEF TypeOK, NoReading
  <2> QED BY <2>1, <2>2 DEF Claimable, Job
<1> QED BY <1>1, TypeCorrect, CopiesMatchRows, PTL DEF Spec, NeverEarly

-----------------------------------------------------------------------------
(* Verdicts come from the device *)

\* A verdict that the device's answers give grounds for, or the limit of attempts.
Grounded(answers, status, attempts) ==
    /\ status = "succeeded" => "done" \in answers
    /\ status = "permanent_failure" => "refused" \in answers \/ attempts >= MaxAttempts

\* Only a process that is stopping holds groundless verdicts, those of cancelled
\* calls; it never writes them, nor lives on with them.
VerdictsGrounded ==
    /\ \A j \in Jobs : Grounded(device[j], job[j].status, job[j].attempts)
    /\ \A e \in Executors, j \in Jobs :
          /\ Persisting(e, j) /\ proc[e] # "stopping" =>
                Grounded(device[j], task[e][j].copy.status, task[e][j].copy.attempts)
          /\ proc[e] = "down" => ~Working(e, j)

LEMMA InitGrounded == Init => VerdictsGrounded
BY IdleType DEF Init, VerdictsGrounded, Grounded, NewJob, Persisting

\* What a goroutine's judgement needs: the grounds of the verdict it comes to.
LEMMA JudgeGrounded ==
    ASSUME TypeOK, VerdictsGrounded, NEW e \in Executors, NEW j \in Jobs, Executing(e, j),
           NEW x, Judge(e, j, x), UNCHANGED <<job, proc>>,
           \A k \in Jobs : device[k] \subseteq device'[k],
           proc[e] # "stopping" => Grounded(device'[j], x.status, x.attempts)
    PROVE  VerdictsGrounded'
<1>1. \A k \in Jobs : \A status, attempts :
          Grounded(device[k], status, attempts) => Grounded(device'[k], status, attempts)
  BY DEF Grounded
<1>2. \A f \in Executors, k \in Jobs : f # e \/ k # j => task'[f][k] = task[f][k]
  BY DEF Judge, TypeOK
<1>3. task'[e][j].stage # "idle" => task'[e][j].copy = x
  BY IdleType DEF Judge, TypeOK
<1>4. proc[e] # "down"
  BY DEF VerdictsGrounded, Executing, Working
<1>5. \A k \in Jobs : Grounded(device'[k], job'[k].status, job'[k].attempts)
  BY <1>1 DEF VerdictsGrounded
<1>6. ASSUME NEW f \in Executors, NEW k \in Jobs
      PROVE  /\ Persisting(f, k)' /\ proc'[f] # "stopping" =>
                   Grounded(device'[k], task'[f][k].copy.status, task'[f][k].copy.attempts)
             /\ proc'[f] = "down" => ~Working(f, k)'
  <2>1. CASE f = e /\ k = j
    BY <1>3, <1>4, <2>1 DEF Persisting
  <2>2. CASE f # e \/ k # j
    BY <1>1, <1>2, <2>2 DEF VerdictsGrounded, Persisting, Working
  <2> QED BY <2>1, <2>2
<1> QED BY <1>5, <1>6 DEF VerdictsGrounded, Grounded

LEMMA StepGrounded == TypeOK /\ VerdictsGrounded /\ [Next]_vars => VerdictsGrounded'
<1> SUFFICES ASSUME TypeOK, VerdictsGrounded, [Next]_vars PROVE VerdictsGrounded'
  OBVIOUS
<1>1. CASE Tick
  <2>1. \A j \in Jobs : job'[j].status = job[j].status /\ job'[j].attempts = job[j].attempts
    BY <1>1, AgeJobType DEF Tick, TypeOK
  <2>2. \A e \in Executors, j \in Jobs :
            /\ task'[e][j].stage = task[e][j].stage
            /\ task[e][j].stage # "idle" =>
                  /\ task'[e][j].copy.status = task[e][j].copy.status
                  /\ task'[e][j].copy.attempts = task[e][j].copy.attempts
    BY <1>1, AgeTaskType, AgeJobType DEF Tick, TypeOK, Task
  <2>3. UNCHANGED <<proc, device>>
    BY <1>1 DEF Tick
  <2> QED BY <2>1, <2>2, <2>3 DEF VerdictsGrounded, Grounded, Persisting, Working
<1>2. ASSUME NEW e \in Executors, Process(e) PROVE VerdictsGrounded'
  <2>1. CASE Claim(e) \/ ClaimFails(e)
    <3>1. UNCHANGED <<proc, device>> /\ proc[e] = "running" /\ reading[e] \in Int
      BY <2>1, LimitsAssumption DEF Claim, ClaimFails, TypeOK, NoReading
    <3>2. ASSUME NEW j \in Jobs
          PROVE  /\ Grounded(device'[j], job'[j].status, job'[j].attempts)
                 /\ \A f \in Executors :
                       \/ task'[f][j] = task[f][j]
                       \/ f = e /\ task'[f][j].stage = "claimed"
      <4>1. Lease(job[j], e, reading[e]).status = "leased"
        BY DEF Lease
      <4>2. Grounded(device[j], job[j].status, job[j].attempts)
        BY DEF VerdictsGrounded
      <4>3. CASE job'[j] = job[j] /\ \A f \in Executors : task'[f][j] = task[f][j]
        BY <3>1, <4>2, <4>3
      <4>4. CASE /\ job'[j] = Lease(job[j], e, reading[e])
                 /\ task'[e][j] = [stage |-> "claimed", copy |-> Lease(job[j], e, reading[e]),
                                   deadline |-> 0]
                 /\ \A f \in Executors \ {e} : task'[f][j] = task[f][j]
        <5>1. Grounded(device'[j], job'[j].status, job'[j].attempts)
          BY <4>1, <4>4 DEF Grounded
        <5>2. task'[e][j].stage = "claimed"
          BY <4>4
        <5> QED BY <4>4, <5>1, <5>2
      <4> QED BY <2>1, <4>3, <4>4, ClaimOfJob
    <3> QED BY <3>1, <3>2 DEF VerdictsGrounded, Grounded, Persisting, Working
  <2>2. CASE Crash(e)
    BY <2>2, IdleType DEF Crash, VerdictsGrounded, Grounded, Persisting, Working, TypeOK
  <2>3. CASE Stopped(e)
    BY <2>3 DEF Stopped, VerdictsGrounded, Grounded, Persisting, Working, TypeOK
  <2>4. CASE Stall(e) \/ Resume(e) \/ Shutdown(e) \/ Restart(e)
    BY <2>4 DEF Stall, Resume, Shutdown, Restart, VerdictsGrounded, Grounded, Persisting,
                Working, TypeOK
  <2>5. CASE UNCHANGED <<job, proc, task, device>>
    BY <2>5 DEF VerdictsGrounded, Grounded, Persisting, Working
  <2> QED BY <1>2, <2>1, <2>2, <2>3, <2>4, <2>5 DEF Process, ReadClock
<1>3. ASSUME NEW e \in Executors, NEW j \in Jobs, Goroutine(e, j) PROVE VerdictsGrounded'
  <2> DEFINE copy == task[e][j].copy
  <2>0. copy \in Job /\ copy.attempts \in Nat
    BY DEF TypeOK, Task, Job
  <2>1. CASE DeviceDone(e, j)
    <3>1. "done" \in device'[j] /\ \A k \in Jobs : device[k] \subseteq device'[k]
      BY <2>1 DEF DeviceDone, TypeOK
    <3>2. Grounded(device'[j], Succeed(copy).status, Succeed(copy).attempts)
      BY <3>1 DEF Grounded, Succeed, Settle
    <3> QED BY <2>1, <3>1, <3>2, JudgeGrounded DEF DeviceDone
  <2>2. CASE DeviceRefuses(e, j)
    <3>1. "refused" \in device'[j] /\ \A k \in Jobs : device[k] \subseteq device'[k]
      BY <2>2 DEF DeviceRefuses, TypeOK
    <3>2. Fail(copy, FALSE).status = "permanent_failure"
      BY DEF Fail, Settle
    <3>3. Grounded(device'[j], Fail(copy, FALSE).status, Fail(copy, FALSE).attempts)
      BY <3>1, <3>2 DEF Grounded
    <3> QED BY <2>2, <3>1, <3>3, JudgeGrounded DEF DeviceRefuses
  <2>3. CASE DeviceFails(e, j)
    <3>1. \/ Fail(copy, TRUE).status = "retryable"
          \/ /\ Fail(copy, TRUE).status = "permanent_failure"
             /\ Fail(copy, TRUE).attempts >= MaxAttempts
      BY <2>0, LimitsAssumption DEF Fail, Settle
    <3>2. Grounded(device'[j], Fail(copy, TRUE).status, Fail(copy, TRUE).attempts)
      BY <3>1 DEF Grounded
    <3> QED BY <2>3, <3>2, JudgeGrounded DEF DeviceFails
  <2>4. CASE DeviceCancelled(e, j)
    BY <2>4, JudgeGrounded DEF DeviceCancelled
  <2>5. CASE Persist(e, j)
    <3>1. /\ UNCHANGED <<proc, device>> /\ Persisting(e, j)
          /\ \A f \in Executors, k \in Jobs :
                task'[f][k] = IF f = e /\ k = j THEN Idle ELSE task[f][k]
      BY <2>5 DEF Persist, TypeOK
    <3>2. \A k \in Jobs : \/ job'[k] = job[k]
                          \/ k = j /\ proc[e] = "running" /\ job'[k] = copy
      BY <2>5 DEF Persist, TypeOK
    <3>3. \A k \in Jobs : Grounded(device[k], job'[k].status, job'[k].attempts)
      BY <3>1, <3>2 DEF VerdictsGrounded
    <3> QED BY <3>1, <3>3, IdleType DEF VerdictsGrounded, Grounded, Persisting, Working
  <2>6. CASE PersistFails(e, j)
    <3>1. /\ UNCHANGED <<job, proc, device>>
          /\ \A f \in Executors, k \in Jobs :
                task'[f][k] = IF f = e /\ k = j THEN Idle ELSE task[f][k]
      BY <2>6 DEF PersistFails, TypeOK
    <3> QED BY <3>1, IdleType DEF VerdictsGrounded, Grounded, Persisting, Working
  <2>7. CASE Start(e, j)
    <3>1. /\ UNCHANGED <<job, proc, device>>
          /\ \A f \in Executors, k \in Jobs :
                task'[f][k] = IF f = e /\ k = j
                  THEN [stage |-> "executing", copy |-> copy, deadline |-> Timeout]
                  ELSE task[f][k]
      BY <2>7 DEF Start, TypeOK
    <3>2. proc[e] # "down"
      BY <2>7 DEF Start, Alive
    <3> QED BY <3>1, <3>2 DEF VerdictsGrounded, Grounded, Persisting, Working
  <2> QED BY <1>3, <2>1, <2>2, <2>3, <2>4, <2>5, <2>6, <2>7 DEF Goroutine
<1>4. CASE UNCHANGED vars
  BY <1>4 DEF vars, VerdictsGrounded, Grounded, Persisting, Working
<1> QED BY <1>1, <1>2, <1>3, <1>4 DEF Next

\* A job succeeds only if the device did the command, and is given up only if it
\* refused or the attempts ran out; a shutdown settles nothing (VerdictFromDevice).
THEOREM VerdictsFromDevice == Spec => []VerdictFromDevice
<1>1. VerdictsGrounded => VerdictFromDevice
  BY DEF VerdictsGrounded, Grounded, VerdictFromDevice
<1> QED BY <1>1, InitGrounded, StepGrounded, TypeCorrect, PTL DEF Spec

-----------------------------------------------------------------------------
(* One run at a time *)

\* A goroutine in time for its row: its copy is still the row, with a lease that
\* outlasts the timeout by all of the second half the claim itself did not use up.
InTime(t, row) ==
    /\ t.stage \in {"claimed", "executing"} => t.copy.version = row.version
    /\ t.stage = "claimed" =>
          t.deadline = 0 /\ t.copy.until + MaxClaimDelay >= LeaseTicks
    /\ t.stage = "executing" =>
          t.deadline >= 0
          /\ t.copy.until + MaxClaimDelay >= t.deadline + (LeaseTicks - Timeout)

\* Until the first fault every process runs, so no claim waits longer than the
\* database makes it and no goroutine is later than its timeout.
Prompt ==
    /\ \A e \in Executors : proc[e] = "running"
    /\ \A e \in Executors : reading[e] # NoReading => reading[e] >= -MaxClaimDelay
    /\ \A e \in Executors, j \in Jobs : InTime(task[e][j], job[j])

PromptUntilFault == faults = 0 => Prompt

LEMMA IdleInTime == ASSUME NEW row PROVE InTime(Idle, row)
BY IdleType DEF InTime

LEMMA InitPrompt == Init => PromptUntilFault
BY IdleInTime DEF Init, PromptUntilFault, Prompt

\* Faults are counted.
LEMMA FaultCounted == ASSUME TypeOK, Fault PROVE faults' # 0
BY LimitsAssumption DEF TypeOK, Fault

\* A goroutine in time is one tick later, once no process is overdue, still in time.
LEMMA TickPrompt ==
    ASSUME TypeOK, Prompt, Tick, MaxClaimDelay + Timeout < LeaseTicks
    PROVE  Prompt'
<1>1. \A e \in Executors : proc'[e] = "running"
  BY DEF Tick, Prompt
<1>2. ASSUME NEW e \in Executors, reading'[e] # NoReading PROVE reading'[e] >= -MaxClaimDelay
  <2>1. reading[e] # NoReading /\ reading'[e] = reading[e] - 1 /\ reading[e] \in Int
    BY <1>2, LimitsAssumption DEF Tick, TypeOK, NoReading
  <2>2. reading[e] > -MaxClaimDelay
    BY DEF Tick, Prompt
  <2> QED BY <2>1, <2>2, LimitsAssumption
<1>3. ASSUME NEW e \in Executors, NEW j \in Jobs PROVE InTime(task'[e][j], job'[j])
  <2> DEFINE t == task[e][j]
  <2>1. t \in Task /\ job[j] \in Job /\ t.copy \in Job /\ InTime(t, job[j])
    BY DEF TypeOK, Task, Prompt
  <2>2. task'[e][j] = AgeTask(t) /\ job'[j] = AgeJob(job[j])
    BY DEF Tick
  <2>3. t.stage # "idle" => t.deadline > 0
    <3>1. ~Overdue(e) /\ Alive(e)
      BY DEF Tick, Prompt, Alive
    <3>2. t.stage # "idle" => ~(t.deadline <= 0)
      BY <3>1 DEF Overdue, Working
    <3> QED BY <2>1, <3>2 DEF Task
  <2>4. AgeTask(t).stage = t.stage
    BY <2>1, AgeTaskType
  <2>5. CASE t.stage = "executing"
    <3>1. /\ t.copy.version = job[j].version /\ t.deadline > 0
          /\ t.copy.until + MaxClaimDelay >= t.deadline + (LeaseTicks - Timeout)
      BY <2>1, <2>3, <2>5 DEF InTime
    <3>2. t.deadline \in Int /\ t.copy.until \in Int
      BY <2>1 DEF Task, Job
    <3>3. t.copy.until > 0
      BY <3>1, <3>2, TimeoutHalf, LimitsAssumption
    <3>4. Age(t.deadline) = t.deadline - 1 /\ Age(t.copy.until) = t.copy.until - 1
      BY <3>1, <3>2, <3>3, PastNegative DEF Age
    <3>5. AgeTask(t) = [t EXCEPT !.copy = AgeJob(t.copy), !.deadline = Age(t.deadline)]
      BY <2>5 DEF AgeTask
    <3>6. AgeTask(t).copy = AgeJob(t.copy) /\ AgeTask(t).deadline = Age(t.deadline)
      BY <2>1, <3>5 DEF Task
    <3>7. /\ AgeJob(t.copy).until = Age(t.copy.until)
          /\ AgeJob(t.copy).version = t.copy.version /\ AgeJob(job[j]).version = job[j].version
      BY <2>1 DEF AgeJob, Job
    <3> HIDE DEF t
    <3>8. /\ t.deadline - 1 >= 0
          /\ (t.copy.until - 1) + MaxClaimDelay >= (t.deadline - 1) + (LeaseTicks - Timeout)
      BY <3>1, <3>2, TimeoutHalf, LimitsAssumption
    <3> QED BY <2>2, <2>4, <2>5, <3>1, <3>4, <3>6, <3>7, <3>8 DEF InTime
  <2>6. CASE t.stage # "executing"
    <3>1. t.stage # "claimed"
      BY <2>1, <2>3 DEF InTime
    <3> QED BY <2>2, <2>4, <2>6, <3>1 DEF InTime
  <2> QED BY <2>5, <2>6
<1> QED BY <1>1, <1>2, <1>3 DEF Prompt

\* No claim touches the row of a goroutine in time: the lease is still open.
LEMMA ClaimPrompt ==
    ASSUME TypeOK, CopyMatchesRow, Prompt, NEW e \in Executors, Claim(e),
           MaxClaimDelay + Timeout < LeaseTicks
    PROVE  Prompt'
<1>1. /\ \A f \in Executors : proc'[f] = "running"
      /\ \A f \in Executors : reading'[f] # NoReading => reading'[f] = reading[f]
  BY DEF Claim, Prompt, TypeOK
<1>2. reading[e] \in Int /\ reading[e] <= 0 /\ reading[e] >= -MaxClaimDelay
  BY LimitsAssumption DEF Claim, TypeOK, NoReading, Prompt
<1>3. ASSUME NEW f \in Executors, NEW j \in Jobs PROVE InTime(task'[f][j], job'[j])
  <2> DEFINE t == task[f][j]
             leased == Lease(job[j], e, reading[e])
  <2>1. InTime(t, job[j])
    BY DEF Prompt
  <2>2. CASE job'[j] = job[j] /\ \A g \in Executors : task'[g][j] = task[g][j]
    BY <2>1, <2>2
  <2>3. CASE /\ Claimable(job[j], reading[e]) /\ job'[j] = Lease(job[j], e, reading[e])
             /\ task'[e][j] = [stage |-> "claimed", copy |-> Lease(job[j], e, reading[e]),
                               deadline |-> 0]
             /\ \A g \in Executors \ {e} : task'[g][j] = task[g][j]
    <3>1. CASE f = e
      <4>1. leased.until = reading[e] + LeaseTicks
        BY DEF Lease
      <4>2. leased.until + MaxClaimDelay >= LeaseTicks
        BY <1>2, <4>1, LimitsAssumption
      <4> HIDE DEF leased
      <4> QED BY <2>3, <3>1, <4>2 DEF InTime, leased
    <3>2. CASE f # e
      <4>1. task'[f][j] = t
        BY <2>3, <3>2
      <4>2. t.stage \notin {"claimed", "executing"}
        <5>1. SUFFICES ASSUME t.stage \in {"claimed", "executing"} PROVE FALSE
          OBVIOUS
        <5>2. job[j] = t.copy /\ job[j].status = "leased"
          BY <2>1, <5>1 DEF InTime, CopyMatchesRow, Claimed, Executing
        <5>3. job[j].until <= reading[e]
          BY <2>3, <5>2 DEF Claimable
        <5>4. /\ t.deadline \in Int /\ t.copy.until \in Int /\ t.deadline >= 0
              /\ \/ t.copy.until + MaxClaimDelay >= LeaseTicks
                 \/ t.copy.until + MaxClaimDelay >= t.deadline + (LeaseTicks - Timeout)
          BY <2>1, <5>1 DEF TypeOK, Task, Job, InTime
        <5> HIDE DEF t
        <5> QED BY <1>2, <5>2, <5>3, <5>4, TimeoutHalf, LimitsAssumption
      <4> HIDE DEF t
      <4> QED BY <4>1, <4>2 DEF InTime
    <3> QED BY <3>1, <3>2
  <2> QED BY <2>2, <2>3, ClaimOfJob
<1> QED BY <1>1, <1>3 DEF Prompt

\* Nor does a verdict: its writer is the holder, who is no longer executing.
LEMMA PersistPrompt ==
    ASSUME TypeOK, CopyMatchesRow, Prompt, NEW e \in Executors, NEW j \in Jobs, Persist(e, j)
    PROVE  Prompt'
<1>1. /\ UNCHANGED <<proc, reading>> /\ Persisting(e, j)
      /\ \A f \in Executors, k \in Jobs :
            task'[f][k] = IF f = e /\ k = j THEN Idle ELSE task[f][k]
      /\ \A k \in Jobs \ {j} : job'[k] = job[k]
  BY DEF Persist, TypeOK
<1>2. ASSUME NEW f \in Executors, Claimed(f, j) \/ Executing(f, j) PROVE job'[j] = job[j]
  <2>1. SUFFICES ASSUME job[j].version = task[e][j].copy.version - 1 PROVE FALSE
    BY DEF Persist
  <2>2. job[j].owner = e
    BY <1>1, <2>1 DEF CopyMatchesRow
  <2>3. job[j] = task[f][j].copy /\ task[f][j].copy.owner = f
    BY <1>2 DEF CopyMatchesRow, Prompt, InTime, Claimed, Executing
  <2>4. f = e
    BY <2>2, <2>3
  <2> QED BY <1>1, <1>2, <2>4 DEF Claimed, Executing, Persisting
<1>3. ASSUME NEW f \in Executors, NEW k \in Jobs PROVE InTime(task'[f][k], job'[k])
  <2>1. InTime(task[f][k], job[k])
    BY DEF Prompt
  <2>2. CASE f = e /\ k = j
    BY <1>1, <2>2, IdleInTime
  <2>3. CASE f # e \/ k # j
    <3>1. task'[f][k] = task[f][k]
      BY <1>1, <2>3
    <3>2. task[f][k].stage \in {"claimed", "executing"} => job'[k] = job[k]
      BY <1>1, <1>2 DEF Claimed, Executing
    <3> QED BY <2>1, <3>1, <3>2 DEF InTime
  <2> QED BY <2>2, <2>3
<1> QED BY <1>1, <1>3 DEF Prompt

LEMMA StepPrompt ==
    ASSUME MaxClaimDelay + Timeout < LeaseTicks
    PROVE  TypeOK /\ CopyMatchesRow /\ PromptUntilFault /\ [Next]_vars => PromptUntilFault'
<1> SUFFICES ASSUME TypeOK, CopyMatchesRow, PromptUntilFault, [Next]_vars, faults' = 0
             PROVE  Prompt'
  BY DEF PromptUntilFault
<1>1. faults = 0
  <2>1. Fault \/ UNCHANGED faults
    BY DEF Next, vars, Tick, Process, Goroutine, ReadClock, Claim, ClaimFails, Stall, Resume,
           Crash, Shutdown, Stopped, Restart, Start, DeviceDone, DeviceRefuses, DeviceFails,
           DeviceCancelled, Persist, PersistFails
  <2> QED BY <2>1, FaultCounted
<1>2. Prompt /\ ~Fault
  BY <1>1, FaultCounted DEF PromptUntilFault
<1>3. CASE Tick
  BY <1>2, <1>3, TickPrompt
<1>4. ASSUME UNCHANGED <<job, proc, reading>>,
             NEW e \in Executors, NEW j \in Jobs, NEW t, InTime(t, job[j]),
             task' = [task EXCEPT ![e][j] = t]
      PROVE  Prompt'
  <2>1. \A f \in Executors, k \in Jobs :
            task'[f][k] = IF f = e /\ k = j THEN t ELSE task[f][k]
    BY <1>4 DEF TypeOK
  <2> QED BY <1>2, <1>4, <2>1 DEF Prompt
<1>5. ASSUME NEW e \in Executors, Process(e) PROVE Prompt'
  <2>1. CASE Claim(e)
    BY <1>2, <2>1, ClaimPrompt
  <2>2. CASE ReadClock(e)
    <3>1. /\ UNCHANGED <<job, proc, task>>
          /\ \A f \in Executors : reading'[f] = IF f = e THEN 0 ELSE reading[f]
      BY <2>2 DEF ReadClock, TypeOK
    <3> QED BY <1>2, <3>1, LimitsAssumption DEF Prompt
  <2>3. CASE Resume(e) \/ Stopped(e) \/ Restart(e)
    BY <1>2, <2>3 DEF Prompt, Resume, Stopped, Restart
  <2> QED BY <1>2, <1>5, <2>1, <2>2, <2>3 DEF Process, ClaimFails, Stall, Crash, Shutdown
<1>6. ASSUME NEW e \in Executors, NEW j \in Jobs, Goroutine(e, j) PROVE Prompt'
  <2>1. CASE Persist(e, j)
    BY <1>2, <2>1, PersistPrompt
  <2>2. CASE DeviceDone(e, j) \/ DeviceRefuses(e, j) \/ DeviceFails(e, j) \/ DeviceCancelled(e, j)
    <3>1. UNCHANGED <<job, proc, reading>>
      BY <2>2 DEF DeviceDone, DeviceRefuses, DeviceFails, DeviceCancelled
    <3>2. PICK x : Judge(e, j, x)
      BY <2>2 DEF DeviceDone, DeviceRefuses, DeviceFails, DeviceCancelled
    <3>3. PICK t : task' = [task EXCEPT ![e][j] = t] /\ InTime(t, job[j])
      <4> DEFINE u == [stage |-> "persisting", copy |-> x, deadline |-> task[e][j].deadline]
      <4>1. InTime(u, job[j]) /\ InTime(Idle, job[j])
        BY IdleInTime DEF InTime
      <4>2. task' = [task EXCEPT ![e][j] = u] \/ task' = [task EXCEPT ![e][j] = Idle]
        BY <3>2 DEF Judge
      <4> QED BY <4>1, <4>2
    <3> QED BY <1>4, <3>1, <3>3
  <2>3. CASE Start(e, j)
    <3> DEFINE t == [stage |-> "executing", copy |-> task[e][j].copy, deadline |-> Timeout]
    <3>1. /\ UNCHANGED <<job, proc, reading>> /\ task[e][j].stage = "claimed"
          /\ task' = [task EXCEPT ![e][j] = t]
      BY <2>3 DEF Start, Claimed
    <3>2. /\ task[e][j].copy.version = job[j].version
          /\ task[e][j].copy.until + MaxClaimDelay >= LeaseTicks
      BY <1>2, <3>1 DEF Prompt, InTime
    <3>3. Timeout + (LeaseTicks - Timeout) = LeaseTicks /\ Timeout >= 0
      BY TimeoutHalf, LimitsAssumption
    <3>4. InTime(t, job[j])
      BY <3>2, <3>3 DEF InTime
    <3> QED BY <1>4, <3>1, <3>4
  <2> QED BY <1>2, <1>6, <2>1, <2>2, <2>3 DEF Goroutine, PersistFails
<1>7. CASE UNCHANGED vars
  BY <1>2, <1>7 DEF vars, Prompt
<1> QED BY <1>3, <1>5, <1>6, <1>7 DEF Next

\* Without faults a device never runs a command for two executors at once
\* (OneRunAtATime), provided a claim is committed while more than half of its lease
\* is left: the lease counts from the clock reading before the transaction, the
\* device's half of it from after (ClaimJobs, NewExecutor).
THEOREM OneRun ==
    ASSUME MaxClaimDelay + Timeout < LeaseTicks
    PROVE  Spec => []OneRunAtATime
<1>1. TypeOK /\ CopyMatchesRow /\ PromptUntilFault => OneRunAtATime
  <2> SUFFICES ASSUME CopyMatchesRow, PromptUntilFault, faults = 0,
                      NEW j \in Jobs, NEW e \in Executors, NEW f \in Executors,
                      Executing(e, j), Executing(f, j)
               PROVE  e = f
    BY DEF OneRunAtATime
  <2>1. task[e][j].copy.version = job[j].version /\ task[f][j].copy.version = job[j].version
    BY DEF PromptUntilFault, Prompt, InTime, Executing
  <2>2. job[j] = task[e][j].copy /\ task[e][j].copy.owner = e
    BY <2>1 DEF CopyMatchesRow
  <2>3. job[j] = task[f][j].copy /\ task[f][j].copy.owner = f
    BY <2>1 DEF CopyMatchesRow
  <2> QED BY <2>2, <2>3
<1>2. TypeOK /\ CopyMatchesRow /\ PromptUntilFault /\ [Next]_vars => PromptUntilFault'
  BY StepPrompt
<1> QED BY <1>1, <1>2, InitPrompt, TypeCorrect, CopiesMatchRows, PTL DEF Spec

-----------------------------------------------------------------------------
(* The rows and the goroutines keep the ledger *)

\* What the ledger needs beside CopyMatchesRow: a claim is made by an executor
\* that is busy with nothing, and a verdict carries no owner.
ClaimsWhenIdle ==
    /\ \A e \in Executors : reading[e] # NoReading => \A j \in Jobs : ~Working(e, j)
    /\ \A e \in Executors, j \in Jobs : Persisting(e, j) => task[e][j].copy.owner = NoOne

\* Either verdict gives up the lease.
LEMMA JudgedOwner ==
    ASSUME NEW r \in Job, NEW b \in BOOLEAN, NEW x \in {Succeed(r), Fail(r, b)}
    PROVE  x.owner = NoOne
BY DEF Succeed, Fail, Settle

LEMMA InitIdle == Init => ClaimsWhenIdle
BY IdleType DEF Init, ClaimsWhenIdle, Working, Persisting

LEMMA JudgeIdle ==
    ASSUME TypeOK, ClaimsWhenIdle, NEW e \in Executors, NEW j \in Jobs, Executing(e, j),
           NEW x, x.owner = NoOne, Judge(e, j, x), UNCHANGED reading
    PROVE  ClaimsWhenIdle'
<1>1. \A f \in Executors, k \in Jobs : f # e \/ k # j => task'[f][k] = task[f][k]
  BY DEF Judge, TypeOK
<1>2. reading[e] = NoReading
  BY DEF ClaimsWhenIdle, Working, Executing
<1>3. task'[e][j].stage # "idle" => task'[e][j].copy = x
  BY IdleType DEF Judge, TypeOK
<1> QED BY <1>1, <1>2, <1>3 DEF ClaimsWhenIdle, Working, Persisting

LEMMA StepIdle == TypeOK /\ ClaimsWhenIdle /\ [Next]_vars => ClaimsWhenIdle'
<1> SUFFICES ASSUME TypeOK, ClaimsWhenIdle, [Next]_vars PROVE ClaimsWhenIdle'
  OBVIOUS
<1>1. CASE Tick
  <2>1. \A e \in Executors, j \in Jobs :
            task[e][j] \in Task /\ task'[e][j] = AgeTask(task[e][j])
    BY <1>1 DEF Tick, TypeOK
  <2>2. \A e \in Executors, j \in Jobs :
            /\ task'[e][j].stage = task[e][j].stage
            /\ task[e][j].stage # "idle" => task'[e][j].copy.owner = task[e][j].copy.owner
    BY <2>1, AgeTaskType, AgeJobType DEF Task
  <2>3. \A e \in Executors : reading'[e] # NoReading => reading[e] # NoReading
    BY <1>1 DEF Tick
  <2> QED BY <2>2, <2>3 DEF ClaimsWhenIdle, Working, Persisting
<1>2. ASSUME NEW e \in Executors, Process(e) PROVE ClaimsWhenIdle'
  <2>1. CASE ReadClock(e)
    BY <2>1 DEF ReadClock, ClaimsWhenIdle, Working, Persisting, TypeOK
  <2>2. CASE Claim(e) \/ ClaimFails(e)
    <3>1. \A f \in Executors : reading'[f] = IF f = e THEN NoReading ELSE reading[f]
      BY <2>2 DEF Claim, ClaimFails, TypeOK
    <3>2. ASSUME NEW f \in Executors, NEW j \in Jobs
          PROVE  \/ task'[f][j] = task[f][j]
                 \/ f = e /\ task'[f][j].stage = "claimed"
      <4> DEFINE leased == Lease(job[j], e, reading[e])
      <4>1. CASE /\ task'[e][j] = [stage |-> "claimed", copy |-> leased, deadline |-> 0]
                 /\ \A g \in Executors \ {e} : task'[g][j] = task[g][j]
        <5> HIDE DEF leased
        <5> QED BY <4>1
      <4> QED BY <2>2, <4>1, ClaimOfJob
    <3> QED BY <3>1, <3>2 DEF ClaimsWhenIdle, Working, Persisting
  <2>3. CASE Crash(e)
    BY <2>3, IdleType DEF Crash, ClaimsWhenIdle, Working, Persisting, TypeOK
  <2>4. CASE Shutdown(e)
    BY <2>4 DEF Shutdown, ClaimsWhenIdle, Working, Persisting, TypeOK
  <2>5. CASE UNCHANGED <<reading, task>>
    BY <2>5 DEF ClaimsWhenIdle, Working, Persisting
  <2> QED BY <1>2, <2>1, <2>2, <2>3, <2>4, <2>5 DEF Process, Stall, Resume, Stopped, Restart
<1>3. ASSUME NEW e \in Executors, NEW j \in Jobs, Goroutine(e, j) PROVE ClaimsWhenIdle'
  <2>0. task[e][j].copy \in Job
    BY DEF TypeOK, Task
  <2>1. Succeed(task[e][j].copy).owner = NoOne
        /\ \A b \in BOOLEAN : Fail(task[e][j].copy, b).owner = NoOne
    BY <2>0, JudgedOwner
  <2>2. CASE DeviceDone(e, j)
    BY <2>1, <2>2, JudgeIdle DEF DeviceDone
  <2>3. CASE DeviceRefuses(e, j)
    BY <2>1, <2>3, JudgeIdle DEF DeviceRefuses
  <2>4. CASE DeviceFails(e, j)
    BY <2>1, <2>4, JudgeIdle DEF DeviceFails
  <2>5. CASE DeviceCancelled(e, j)
    BY <2>1, <2>5, JudgeIdle DEF DeviceCancelled
  <2>6. CASE Persist(e, j) \/ PersistFails(e, j)
    <3>1. UNCHANGED reading /\ task' = [task EXCEPT ![e][j] = Idle]
      BY <2>6 DEF Persist, PersistFails
    <3>2. \A f \in Executors, k \in Jobs :
              IF f = e /\ k = j THEN task'[f][k] = Idle ELSE task'[f][k] = task[f][k]
      BY <3>1 DEF TypeOK
    <3> QED BY <3>1, <3>2, IdleType DEF ClaimsWhenIdle, Working, Persisting
  <2>7. CASE Start(e, j)
    <3>1. UNCHANGED reading /\ reading[e] = NoReading
      BY <2>7 DEF Start, Claimed, Working, ClaimsWhenIdle
    <3>2. \A f \in Executors, k \in Jobs :
              \/ task'[f][k] = task[f][k]
              \/ f = e /\ task'[f][k].stage = "executing"
      BY <2>7 DEF Start, TypeOK
    <3> QED BY <3>1, <3>2 DEF ClaimsWhenIdle, Working, Persisting
  <2> QED BY <1>3, <2>2, <2>3, <2>4, <2>5, <2>6, <2>7 DEF Goroutine
<1>4. CASE UNCHANGED vars
  BY <1>4 DEF vars, ClaimsWhenIdle, Working, Persisting
<1> QED BY <1>1, <1>2, <1>3, <1>4 DEF Next

\* The attempt that a goroutine is busy with.
AttemptOn(e, j) == [by |-> e, job |-> j, number |-> task[e][j].copy.attempts]

LEMMA UnderWay ==
    /\ \A w : w \in AttemptsUnderWay <=>
           \E e \in Executors, j \in Jobs : Working(e, j) /\ w = AttemptOn(e, j)
    /\ \A w : w \in AttemptsUnderWay' <=>
           \E e \in Executors, j \in Jobs : Working(e, j)' /\ w = AttemptOn(e, j)'
BY DEF AttemptsUnderWay, AttemptOn

LEMMA InitLedger == Init => Ledger!Init
<1> SUFFICES ASSUME Init PROVE Ledger!Init
  OBVIOUS
<1>1. AttemptsUnderWay = {}
  BY IdleType DEF Init, AttemptsUnderWay, Working
<1>2. VerdictOf = [j \in Jobs |-> "open"]
  BY DEF Init, VerdictOf, NewJob, Terminal
<1>3. HolderOf = [j \in Jobs |-> NoOne] /\ AttemptOf = [j \in Jobs |-> 0]
  BY DEF Init, HolderOf, AttemptOf, NewJob
<1> QED BY <1>1, <1>2, <1>3 DEF Ledger!Init

\* A goroutine that ends without a write drops its attempt.
LEMMA DroppedOne ==
    ASSUME TypeOK, NEW e \in Executors, NEW j \in Jobs, UNCHANGED job,
           task' = [task EXCEPT ![e][j] = Idle]
    PROVE  [Ledger!Next]_(Ledger!ledger)
<1>1. UNCHANGED <<VerdictOf, HolderOf, AttemptOf>>
  BY DEF VerdictOf, HolderOf, AttemptOf
<1>2. AttemptsUnderWay' = AttemptsUnderWay \ {w \in AttemptsUnderWay : w.by = e /\ w.job = j}
  <2>1. \A f \in Executors, k \in Jobs :
            IF f = e /\ k = j THEN ~Working(f, k)'
            ELSE (Working(f, k)' <=> Working(f, k)) /\ AttemptOn(f, k)' = AttemptOn(f, k)
    BY IdleType DEF TypeOK, Working, AttemptOn
  <2>2. \A f, k : AttemptOn(f, k).by = f /\ AttemptOn(f, k).job = k
    BY DEF AttemptOn
  <2> QED BY <2>1, <2>2, UnderWay
<1>3. Ledger!Drop({w \in AttemptsUnderWay : w.by = e /\ w.job = j})
  BY <1>1, <1>2 DEF Ledger!Drop
<1> QED BY <1>3 DEF Ledger!Next

\* A reply is judged: the goroutine goes on with its attempt, or drops it.
LEMMA JudgedLedger ==
    ASSUME TypeOK, NEW e \in Executors, NEW j \in Jobs, Executing(e, j), UNCHANGED job,
           NEW x, x.attempts = task[e][j].copy.attempts, Judge(e, j, x)
    PROVE  [Ledger!Next]_(Ledger!ledger)
<1>1. CASE ~LeaseHeld(task[e][j].copy)
  BY <1>1, DroppedOne DEF Judge
<1>2. CASE LeaseHeld(task[e][j].copy)
  <2>1. \A f \in Executors, k \in Jobs :
            (Working(f, k)' <=> Working(f, k)) /\ AttemptOn(f, k)' = AttemptOn(f, k)
    BY <1>2 DEF Judge, TypeOK, Working, AttemptOn, Executing
  <2>2. \A w : w \in AttemptsUnderWay' <=> w \in AttemptsUnderWay
    BY <2>1, UnderWay
  <2>3. UNCHANGED <<VerdictOf, HolderOf, AttemptOf>>
    BY DEF VerdictOf, HolderOf, AttemptOf
  <2> QED BY <2>2, <2>3 DEF Ledger!ledger
<1> QED BY <1>1, <1>2

\* A claim, whole or in part, gives the executor jobs that Job.Lease accepts.
LEMMA ClaimGives ==
    ASSUME TypeOK, ClaimsWhenIdle, NEW e \in Executors, Claim(e) \/ ClaimFails(e)
    PROVE  [Ledger!Next]_(Ledger!ledger)
<1>0. PICK S \in Batches(reading[e]) : \E got \in SUBSET Leasable(e, S) : Take(e, got)
  BY DEF Claim, ClaimFails
<1>1. PICK jobs \in SUBSET Leasable(e, S) : Take(e, jobs)
  BY <1>0
<1> DEFINE given == {j \in Jobs : j \in jobs}
           leased(j) == Lease(job[j], e, reading[e])
           new(j) == [stage |-> "claimed", copy |-> leased(j), deadline |-> 0]
<1>2. \A j \in Jobs : job'[j] = IF j \in given THEN leased(j) ELSE job[j]
  BY <1>1 DEF Take
<1>3. \A f \in Executors, j \in Jobs :
          task'[f][j] = IF f = e /\ j \in given THEN new(j) ELSE task[f][j]
  BY <1>1 DEF Take, TypeOK
<1>4. reading[e] \in Int /\ \A j \in Jobs : ~Working(e, j)
  BY LimitsAssumption DEF Claim, ClaimFails, TypeOK, NoReading, ClaimsWhenIdle
<1>5. \A j \in Jobs : job[j] \in Job
  BY DEF TypeOK
<1>6. \A j \in Jobs : /\ leased(j).status = "leased" /\ leased(j).owner = e
                      /\ leased(j).attempts = job[j].attempts + 1
  BY <1>4, <1>5, LeaseType
<1>7. \A j \in given : job[j].status \notin Terminal
  BY <1>1 DEF Leasable, Claimable, Terminal
<1>8. \A j : new(j).stage = "claimed" /\ new(j).copy = leased(j)
  OBVIOUS
<1>9. given \in SUBSET Jobs
  OBVIOUS
<1> HIDE DEF given, leased, new
<1>10. VerdictOf' = VerdictOf
  BY <1>2, <1>6, <1>7 DEF VerdictOf, Terminal
<1>11. HolderOf' = [j \in Jobs |-> IF j \in given THEN e ELSE HolderOf[j]]
  BY <1>2, <1>6 DEF HolderOf
<1>12. AttemptOf' = [j \in Jobs |-> IF j \in given THEN AttemptOf[j] + 1 ELSE AttemptOf[j]]
  BY <1>2, <1>6 DEF AttemptOf
<1>13. \A f \in Executors, j \in Jobs :
          IF f = e /\ j \in given
          THEN /\ Working(f, j)' /\ ~Working(f, j)
               /\ AttemptOn(f, j)' = Ledger!Attempt(e, j, AttemptOf[j] + 1)
          ELSE (Working(f, j)' <=> Working(f, j)) /\ AttemptOn(f, j)' = AttemptOn(f, j)
  BY <1>3, <1>4, <1>6, <1>8 DEF Working, AttemptOn, AttemptOf, Ledger!Attempt
<1>14. \A w : w \in AttemptsUnderWay' <=>
          w \in AttemptsUnderWay \cup {Ledger!Attempt(e, j, AttemptOf[j] + 1) : j \in given}
  BY <1>9, <1>13, UnderWay
<1>15. \A w \in AttemptsUnderWay : w.by # e
  BY <1>4, UnderWay DEF AttemptOn
<1>16. \A j \in given : VerdictOf[j] = "open"
  BY <1>7, <1>9 DEF VerdictOf
<1>17. AttemptsUnderWay' =
          AttemptsUnderWay \cup {Ledger!Attempt(e, j, AttemptOf[j] + 1) : j \in given}
  BY <1>14
<1>18. Ledger!Give(e, given)
  BY <1>10, <1>11, <1>12, <1>15, <1>16, <1>17 DEF Ledger!Give
<1> QED BY <1>9, <1>18 DEF Ledger!Next

\* A write that finds the version of its claim answers the open attempt.
LEMMA WriteAnswers ==
    ASSUME TypeOK, CopyMatchesRow, ClaimsWhenIdle, NEW e \in Executors, NEW j \in Jobs,
           Persist(e, j)
    PROVE  [Ledger!Next]_(Ledger!ledger)
<1> DEFINE copy == task[e][j].copy
<1>1. CASE job' = job
  BY <1>1, DroppedOne DEF Persist
<1>2. CASE job' # job
  <2>1. /\ Persisting(e, j) /\ job[j].version = copy.version - 1
        /\ job' = [job EXCEPT ![j] = copy] /\ task' = [task EXCEPT ![e][j] = Idle]
    BY <1>2 DEF Persist
  <2>2. job[j].status = "leased" /\ job[j].owner = e /\ job[j].attempts = copy.attempts
    BY <2>1 DEF CopyMatchesRow
  <2>3. copy.owner = NoOne
    BY <2>1 DEF ClaimsWhenIdle
  <2> DEFINE w == AttemptOn(e, j)
             v == IF copy.status \in Terminal THEN copy.status ELSE "open"
  <2>4. w \in AttemptsUnderWay
    BY <2>1, UnderWay DEF Persisting, Working
  <2>5. w.by = e /\ w.job = j /\ w.number = copy.attempts
    BY DEF AttemptOn
  <2>6. v \in Ledger!Verdicts
    BY DEF Ledger!Verdicts, Terminal
  <2>7. HolderOf[j] = e /\ AttemptOf[j] = copy.attempts /\ VerdictOf[j] = "open"
    BY <2>2 DEF HolderOf, AttemptOf, VerdictOf, Terminal
  <2>8. \A k \in Jobs : job'[k] = IF k = j THEN copy ELSE job[k]
    BY <2>1 DEF TypeOK
  <2> HIDE DEF copy, w, v
  <2>9. VerdictOf' = [VerdictOf EXCEPT ![j] = v]
    BY <2>8 DEF VerdictOf, v
  <2>10. HolderOf' = [HolderOf EXCEPT ![j] = NoOne]
    BY <2>3, <2>8 DEF HolderOf
  <2>11. AttemptOf' = AttemptOf
    <3>1. copy.attempts = job[j].attempts
      BY <2>2
    <3> QED BY <2>8, <3>1 DEF AttemptOf
  <2>12. \A f \in Executors, k \in Jobs :
             IF f = e /\ k = j THEN ~Working(f, k)'
             ELSE (Working(f, k)' <=> Working(f, k)) /\ AttemptOn(f, k)' = AttemptOn(f, k)
    BY <2>1, IdleType DEF TypeOK, Working, AttemptOn
  <2>13. \A f, k : AttemptOn(f, k).by = f /\ AttemptOn(f, k).job = k
    BY DEF AttemptOn
  <2>14. \A x : x \in AttemptsUnderWay' <=> x \in AttemptsUnderWay \ {w}
    BY <2>12, <2>13, UnderWay DEF w
  <2>15. AttemptsUnderWay' = AttemptsUnderWay \ {w}
    BY <2>14
  <2>16. Ledger!Answer(w, v)
    BY <2>4, <2>5, <2>7, <2>9, <2>10, <2>11, <2>15 DEF Ledger!Answer
  <2> QED BY <2>4, <2>6, <2>16 DEF Ledger!Next
<1> QED BY <1>1, <1>2

\* A process that dies drops all it was busy with.
LEMMA CrashDrops ==
    ASSUME TypeOK, NEW e \in Executors, Crash(e)
    PROVE  [Ledger!Next]_(Ledger!ledger)
<1>1. UNCHANGED <<VerdictOf, HolderOf, AttemptOf>>
  BY DEF Crash, VerdictOf, HolderOf, AttemptOf
<1>2. \A f \in Executors, k \in Jobs :
          IF f = e THEN ~Working(f, k)'
          ELSE (Working(f, k)' <=> Working(f, k)) /\ AttemptOn(f, k)' = AttemptOn(f, k)
  BY IdleType DEF Crash, TypeOK, Working, AttemptOn
<1>3. \A f, k : AttemptOn(f, k).by = f
  BY DEF AttemptOn
<1>4. AttemptsUnderWay' = AttemptsUnderWay \ {w \in AttemptsUnderWay : w.by = e}
  BY <1>2, <1>3, UnderWay
<1>5. Ledger!Drop({w \in AttemptsUnderWay : w.by = e})
  BY <1>1, <1>4 DEF Ledger!Drop
<1> QED BY <1>5 DEF Ledger!Next

\* Time changes nothing in the ledger.
LEMMA TickStutters ==
    ASSUME TypeOK, Tick
    PROVE  UNCHANGED Ledger!ledger
<1>1. \A j \in Jobs : job'[j] = AgeJob(job[j]) /\ job[j] \in Job
  BY DEF Tick, TypeOK
<1>2. \A e \in Executors, j \in Jobs :
          task'[e][j] = AgeTask(task[e][j]) /\ task[e][j] \in Task
  BY DEF Tick, TypeOK
<1>3. UNCHANGED <<VerdictOf, HolderOf, AttemptOf>>
  BY <1>1, AgeJobType DEF VerdictOf, HolderOf, AttemptOf
<1>4. \A e \in Executors, j \in Jobs :
          /\ Working(e, j)' <=> Working(e, j)
          /\ Working(e, j) => AttemptOn(e, j)' = AttemptOn(e, j)
  BY <1>2, AgeTaskType, AgeJobType DEF Working, AttemptOn, Task
<1>5. \A w : w \in AttemptsUnderWay' <=> w \in AttemptsUnderWay
  BY <1>4, UnderWay
<1> QED BY <1>3, <1>5 DEF Ledger!ledger

\* A goroutine that starts goes on with the attempt it was created for.
LEMMA StartStutters ==
    ASSUME TypeOK, NEW e \in Executors, NEW j \in Jobs, Start(e, j)
    PROVE  UNCHANGED Ledger!ledger
<1>1. UNCHANGED <<VerdictOf, HolderOf, AttemptOf>>
  BY DEF Start, VerdictOf, HolderOf, AttemptOf
<1>2. \A f \in Executors, k \in Jobs :
          (Working(f, k)' <=> Working(f, k)) /\ AttemptOn(f, k)' = AttemptOn(f, k)
  BY DEF Start, Claimed, TypeOK, Working, AttemptOn
<1>3. \A w : w \in AttemptsUnderWay' <=> w \in AttemptsUnderWay
  BY <1>2, UnderWay
<1> QED BY <1>1, <1>3 DEF Ledger!ledger

LEMMA StepLedger ==
    TypeOK /\ CopyMatchesRow /\ ClaimsWhenIdle /\ [Next]_vars => [Ledger!Next]_(Ledger!ledger)
<1> SUFFICES ASSUME TypeOK, CopyMatchesRow, ClaimsWhenIdle, [Next]_vars
             PROVE  [Ledger!Next]_(Ledger!ledger)
  OBVIOUS
<1>1. CASE Tick
  BY <1>1, TickStutters
<1>2. CASE UNCHANGED <<job, task>>
  BY <1>2 DEF Ledger!ledger, VerdictOf, HolderOf, AttemptOf, AttemptsUnderWay, Working
<1>3. ASSUME NEW e \in Executors, Process(e) PROVE [Ledger!Next]_(Ledger!ledger)
  <2>1. CASE Claim(e) \/ ClaimFails(e)
    BY <2>1, ClaimGives
  <2>2. CASE Crash(e)
    BY <2>2, CrashDrops
  <2> QED BY <1>2, <1>3, <2>1, <2>2
      DEF Process, ReadClock, Stall, Resume, Shutdown, Stopped, Restart
<1>4. ASSUME NEW e \in Executors, NEW j \in Jobs, Goroutine(e, j)
      PROVE  [Ledger!Next]_(Ledger!ledger)
  <2>0. task[e][j].copy \in Job
    BY DEF TypeOK, Task
  <2>1. /\ Succeed(task[e][j].copy).attempts = task[e][j].copy.attempts
        /\ \A b \in BOOLEAN : Fail(task[e][j].copy, b).attempts = task[e][j].copy.attempts
    BY <2>0, JudgedType
  <2>2. CASE DeviceDone(e, j)
    BY <2>1, <2>2, JudgedLedger DEF DeviceDone
  <2>3. CASE DeviceRefuses(e, j)
    BY <2>1, <2>3, JudgedLedger DEF DeviceRefuses
  <2>4. CASE DeviceFails(e, j)
    BY <2>1, <2>4, JudgedLedger DEF DeviceFails
  <2>5. CASE DeviceCancelled(e, j)
    BY <2>1, <2>5, JudgedLedger DEF DeviceCancelled
  <2>6. CASE Persist(e, j)
    BY <2>6, WriteAnswers
  <2>7. CASE PersistFails(e, j)
    BY <2>7, DroppedOne DEF PersistFails
  <2>8. CASE Start(e, j)
    BY <2>8, StartStutters
  <2> QED BY <1>4, <2>2, <2>3, <2>4, <2>5, <2>6, <2>7, <2>8 DEF Goroutine
<1>5. CASE UNCHANGED vars
  BY <1>2, <1>5 DEF vars
<1> QED BY <1>1, <1>3, <1>4, <1>5 DEF Next

\* The jobs implement the ledger (KeepsLedger): every claim gives, every write that
\* counts answers, and all else drops attempts or stutters.
THEOREM JobsKeepLedger == Spec => KeepsLedger
<1>1. Spec => []ClaimsWhenIdle
  BY InitIdle, StepIdle, TypeCorrect, PTL DEF Spec
<1> QED BY <1>1, InitLedger, StepLedger, TypeCorrect, CopiesMatchRows, PTL
        DEF Spec, KeepsLedger, Ledger!Spec
=============================================================================
