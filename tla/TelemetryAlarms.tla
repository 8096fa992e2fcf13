--------------------------- MODULE TelemetryAlarms ---------------------------
(***************************************************************************)
(* Telemetry of battery clusters and the alarms it raises.                 *)
(*                                                                         *)
(* A reading is judged on a cluster row that was read before, and stored   *)
(* in one transaction with the alarms of its conditions.  Alarms are       *)
(* acknowledged and resolved by requests that read, judge and commit, each *)
(* in a goroutine of its own.  Escalate is called by nothing outside the   *)
(* tests, so alarms keep their severity.                                   *)
(***************************************************************************)
EXTENDS Integers, FiniteSets

CONSTANTS
    Clusters, Users,
    Requests,                 \* goroutines that may serve requests at the same time
    NoUser,                   \* acknowledged_by and resolved_by NULL
    LowSOC, HighSOC, HighTemperature, CriticalTemperature,
    Readings,                 \* what devices report: [soc, temperature]
    MaxSequence               \* bound: sequence numbers of readings

\* Thresholds.Validate; temperatures are in degrees.
ASSUME ThresholdsAssumption ==
    /\ LowSOC \in 0..50 /\ HighSOC \in 50..100 /\ LowSOC < HighSOC
    /\ HighTemperature \in 20..150 /\ CriticalTemperature \in 20..150
    /\ HighTemperature < CriticalTemperature
ASSUME ReadingsAssumption == Readings \subseteq [soc : Int, temperature : Int]
ASSUME BoundsAssumption == MaxSequence \in Nat /\ NoUser \notin Users

VARIABLES
    cluster,       \* battery_clusters: current_soc, latest_sequence, version
    snapshots,     \* telemetry_snapshots
    alarm,         \* alarms
    audits,        \* audit_events about alarms
    recording,     \* Record requests between their read and their commit
    acknowledging, \* Acknowledge requests, likewise, also those of a batch
    resolving,     \* Resolve requests, likewise
    batches        \* AcknowledgeBatch requests

rows == <<cluster, snapshots, alarm, audits>>
requests == <<recording, acknowledging, resolving, batches>>
vars == <<rows, requests>>

------------------------------------------------------------------------------
(* Rows *)

Types == {"soc_low", "soc_high", "temperature_high"}
Status == {"none", "open", "acknowledged", "resolved"}

\* An alarm is known by its fingerprint and the reading that opened it.
AlarmId == Clusters \X Types \X (1..MaxSequence)

NoAlarm == [status |-> "none", severity |-> "warning", version |-> 0,
            acknowledgedBy |-> NoUser, resolvedBy |-> NoUser]

Init ==
    /\ cluster \in [Clusters -> [soc : {r.soc : r \in Readings} \cap 0..100, sequence : {0},
                                version : {1}]]
    /\ snapshots = {}
    /\ alarm = [a \in AlarmId |-> NoAlarm]
    /\ audits = {}
    /\ recording = {} /\ acknowledging = {} /\ resolving = {} /\ batches = {}

Free(r) == \A q \in recording \cup acknowledging \cup resolving \cup batches : q.id # r

\* A request replies, or ends before its next step: its client leaves, the
\* database is busy, a condition of its commit does not hold, the process dies.
\* A submission that reserves the cluster gives it a new version too, and all
\* that it does to a reading in flight is that the reading ends here.
Leave(r) ==
    /\ ~Free(r)
    /\ recording' = {q \in recording : q.id # r}
    /\ acknowledging' = {q \in acknowledging : q.id # r}
    /\ resolving' = {q \in resolving : q.id # r}
    /\ batches' = {b \in batches : b.id # r}
    /\ UNCHANGED rows

------------------------------------------------------------------------------
(* TelemetryService.Record *)

\* Evaluate: the conditions of a reading, and how severe they are.
Conditions(reading) ==
    {k \in [type : Types, severity : {"warning", "critical"}] :
        \/ k.type = "soc_low" /\ k.severity = "critical" /\ reading.soc <= LowSOC
        \/ k.type = "soc_high" /\ k.severity = "warning" /\ reading.soc >= HighSOC
        \/ /\ k.type = "temperature_high"
           /\ reading.temperature >= HighTemperature
           /\ k.severity = "critical" <=> reading.temperature >= CriticalTemperature}

\* NewSnapshot, but for the time of observation.
Plausible(reading) == reading.soc \in 0..100 /\ reading.temperature \in -50..150

\* Cluster.ApplyTelemetry.
InOrder(c, sequence) == sequence > cluster[c].sequence

\* ClusterByID, and the judgements on what it returned.
RecordRead(r, c, sequence, reading) ==
    /\ Free(r)
    /\ Plausible(reading) /\ InOrder(c, sequence)
    /\ recording' = recording \cup {[id |-> r, cluster |-> c, sequence |-> sequence,
                                     reading |-> reading, version |-> cluster[c].version]}
    /\ UNCHANGED <<rows, acknowledging, resolving, batches>>

Active(a) == alarm[a].status \in {"open", "acknowledged"}

\* Slip: one active alarm for each cluster.
QuietCluster(c, type) == \A a \in AlarmId : a[1] = c => ~Active(a)

\* Slip: the unique index is on the alarms nobody has seen.
QuietUnseen(c, type) ==
    \A a \in AlarmId : a[1] = c /\ a[2] = type => alarm[a].status # "open"

\* idx_alarm_active_fingerprint: ON CONFLICT DO NOTHING inserts only if this holds.
Quiet(c, type) == \A a \in AlarmId : a[1] = c /\ a[2] = type => ~Active(a)

\* Slip: the UPDATE of battery_clusters asks for its id alone.
AdvancesAny(q) == TRUE

\* The UPDATE of battery_clusters, and UNIQUE(cluster_id, sequence).
Advances(q) ==
    /\ cluster[q.cluster].version = q.version
    /\ cluster[q.cluster].sequence < q.sequence

\* alarm.Create.
Create(severity) == [NoAlarm EXCEPT !.status = "open", !.severity = severity, !.version = 1]

\* StoreTelemetryAtomic.
RecordCommit(q) ==
    /\ q \in recording
    /\ \A x \in snapshots : x.cluster = q.cluster => x.sequence # q.sequence
    /\ Advances(q)
    /\ snapshots' = snapshots \cup
           {[cluster |-> q.cluster, sequence |-> q.sequence, reading |-> q.reading]}
    /\ cluster' = [cluster EXCEPT ![q.cluster] =
           [soc |-> q.reading.soc, sequence |-> q.sequence,
            version |-> cluster[q.cluster].version + 1]]
    /\ alarm' = [a \in AlarmId |->
           IF /\ a[1] = q.cluster /\ a[3] = q.sequence /\ Quiet(a[1], a[2])
              /\ \E k \in Conditions(q.reading) : k.type = a[2]
           THEN Create((CHOOSE k \in Conditions(q.reading) : k.type = a[2]).severity)
           ELSE alarm[a]]
    /\ recording' = recording \ {q}
    /\ UNCHANGED <<audits, acknowledging, resolving, batches>>

------------------------------------------------------------------------------
(* AlarmService.Acknowledge and AcknowledgeBatch *)

Event(action, a, user) == [action |-> action, alarm |-> a, user |-> user]

\* Slip: UpdateAlarm without the expected version.
UnchangedSinceAny(q) == TRUE

\* The condition of the UPDATE of alarms.
UnchangedSince(q) == alarm[q.alarm].version = q.version

\* UpdateAlarm writes the whole row as it was read and changed.
UpdateAlarm(q) == UnchangedSince(q) /\ alarm' = [alarm EXCEPT ![q.alarm] = q.changed]

\* Alarm.Acknowledge.
Acknowledge(row, user) == [row EXCEPT !.status = "acknowledged", !.acknowledgedBy = user,
                                      !.version = row.version + 1]

\* Slip: an alarm may be acknowledged again.
AcknowledgingAny(id, a, user) ==
    /\ alarm[a].status # "none"
    /\ acknowledging' = acknowledging \cup {[id |-> id, alarm |-> a, version |-> alarm[a].version,
                                             changed |-> Acknowledge(alarm[a], user)]}

\* AlarmByID, and an open alarm of the version the client names: the one read.
Acknowledging(id, a, user) ==
    /\ alarm[a].status = "open"
    /\ acknowledging' = acknowledging \cup {[id |-> id, alarm |-> a, version |-> alarm[a].version,
                                             changed |-> Acknowledge(alarm[a], user)]}

AcknowledgeRead(r, a, user) ==
    /\ Free(r)
    /\ Acknowledging(r, a, user)
    /\ UNCHANGED <<rows, recording, resolving, batches>>

\* In a batch the item is noted as acknowledged.
AcknowledgeCommit(q) ==
    /\ q \in acknowledging
    /\ UpdateAlarm(q)
    /\ audits' = audits \cup {Event("acknowledge", q.alarm, q.changed.acknowledgedBy)}
    /\ acknowledging' = acknowledging \ {q}
    /\ batches' = {IF b.id # q.id THEN b
                   ELSE [b EXCEPT !.todo = b.todo \ {q.alarm}, !.done = b.done \cup {q.alarm}] :
                       b \in batches}
    /\ UNCHANGED <<cluster, snapshots, recording, resolving>>

\* Any alarms, each once: a repeated one is reported as failed and left alone.
BatchStart(r, user, items) ==
    /\ Free(r) /\ items # {}
    /\ batches' = batches \cup {[id |-> r, user |-> user, todo |-> items, done |-> {}]}
    /\ UNCHANGED <<rows, recording, acknowledging, resolving>>

BatchRead(b, a) ==
    /\ b \in batches /\ a \in b.todo
    /\ \A q \in acknowledging : q.id # b.id
    /\ Acknowledging(b.id, a, b.user)
    /\ UNCHANGED <<rows, recording, resolving, batches>>

\* Slip: an item that fails is reported as acknowledged.
BatchItemIgnoresError(b, a) ==
    /\ b \in batches /\ a \in b.todo
    /\ \A q \in acknowledging : q.id = b.id => q.alarm = a
    /\ acknowledging' = {q \in acknowledging : q.id # b.id}
    /\ batches' = (batches \ {b}) \cup {[b EXCEPT !.todo = b.todo \ {a}, !.done = b.done \cup {a}]}
    /\ UNCHANGED <<rows, recording, resolving>>

\* An item fails, at its read or at its commit, and the batch goes on.
BatchItemFails(b, a) ==
    /\ b \in batches /\ a \in b.todo
    /\ \A q \in acknowledging : q.id = b.id => q.alarm = a
    /\ acknowledging' = {q \in acknowledging : q.id # b.id}
    /\ batches' = (batches \ {b}) \cup {[b EXCEPT !.todo = b.todo \ {a}]}
    /\ UNCHANGED <<rows, recording, resolving>>

------------------------------------------------------------------------------
(* AlarmService.Resolve *)

\* Alarm.Resolve.
Resolve(row, user) == [row EXCEPT !.status = "resolved", !.resolvedBy = user,
                                  !.version = row.version + 1]

\* AlarmByID, and an acknowledged alarm of the version the client names.
ResolveReadAlarm(r, a, user) ==
    /\ Free(r)
    /\ alarm[a].status = "acknowledged"
    /\ resolving' = resolving \cup {[id |-> r, alarm |-> a, version |-> alarm[a].version,
                                     changed |-> Resolve(alarm[a], user), healthy |-> FALSE]}
    /\ UNCHANGED <<rows, recording, acknowledging, batches>>

\* Slip: a cluster at a threshold has recovered, and so has one without telemetry.
HealthyAtThreshold(c) == cluster[c].soc >= LowSOC /\ cluster[c].soc <= HighSOC

\* A cluster with telemetry, between the thresholds.
Healthy(c) ==
    cluster[c].sequence > 0 /\ cluster[c].soc > LowSOC /\ cluster[c].soc < HighSOC

\* ClusterByID.
ResolveReadCluster(q) ==
    /\ q \in resolving /\ ~q.healthy
    /\ Healthy(q.alarm[1])
    /\ resolving' = (resolving \ {q}) \cup {[q EXCEPT !.healthy = TRUE]}
    /\ UNCHANGED <<rows, recording, acknowledging, batches>>

ResolveCommit(q) ==
    /\ q \in resolving /\ q.healthy
    /\ UpdateAlarm(q)
    /\ audits' = audits \cup {Event("resolve", q.alarm, q.changed.resolvedBy)}
    /\ resolving' = resolving \ {q}
    /\ UNCHANGED <<cluster, snapshots, recording, acknowledging, batches>>

------------------------------------------------------------------------------

Next ==
    \/ \E r \in Requests :
        \/ Leave(r)
        \/ \E c \in Clusters, sequence \in 1..MaxSequence, reading \in Readings :
               RecordRead(r, c, sequence, reading)
        \/ \E user \in Users :
            \/ \E a \in AlarmId : AcknowledgeRead(r, a, user) \/ ResolveReadAlarm(r, a, user)
            \/ \E items \in SUBSET {a \in AlarmId : alarm[a].status # "none"} :
                   BatchStart(r, user, items)
    \/ \E q \in recording : RecordCommit(q)
    \/ \E q \in acknowledging : AcknowledgeCommit(q)
    \/ \E b \in batches : \E a \in b.todo : BatchRead(b, a) \/ BatchItemFails(b, a)
    \/ \E q \in resolving : ResolveReadCluster(q) \/ ResolveCommit(q)

Spec == Init /\ [][Next]_vars

------------------------------------------------------------------------------
(* Properties *)

ClusterRow == [soc : 0..100, sequence : 0..MaxSequence, version : Nat]
Snapshot == [cluster : Clusters, sequence : 1..MaxSequence, reading : Readings]
AlarmRow == [status : Status, severity : {"warning", "critical"}, version : 0..3,
             acknowledgedBy : Users \cup {NoUser}, resolvedBy : Users \cup {NoUser}]
Events == [action : {"acknowledge", "resolve"}, alarm : AlarmId, user : Users]
Recording == [id : Requests, cluster : Clusters, sequence : 1..MaxSequence, reading : Readings,
              version : Nat]
Acknowledgement == [id : Requests, alarm : AlarmId, version : Nat, changed : AlarmRow]
Resolution == [id : Requests, alarm : AlarmId, version : Nat, changed : AlarmRow,
               healthy : BOOLEAN]
Batch == [id : Requests, user : Users, todo : SUBSET AlarmId, done : SUBSET AlarmId]

\* The columns' types, and of the requests in flight.
TypeOK ==
    /\ cluster \in [Clusters -> ClusterRow]
    /\ \A x \in snapshots : x \in Snapshot
    /\ alarm \in [AlarmId -> AlarmRow]
    /\ \A event \in audits : event \in Events
    /\ \A q \in recording : q \in Recording
    /\ \A q \in acknowledging : q \in Acknowledgement
    /\ \A q \in resolving : q \in Resolution
    /\ \A b \in batches : b \in Batch

\* At most one alarm of a condition is active, whatever readings and resolutions
\* run at the same time (idx_alarm_active_fingerprint, ON CONFLICT DO NOTHING).
OneActiveAlarm ==
    \A a, b \in AlarmId :
        a[1] = b[1] /\ a[2] = b[2] /\ Active(a) /\ Active(b) => a = b

\* A cluster's state of charge is that of its reading with the largest number: no
\* reading that arrives late or is stored beside another overwrites a newer one.
NewestReadingCounts ==
    \A c \in Clusters :
        LET own == {x \in snapshots : x.cluster = c}
        IN  /\ \A x \in own : x.sequence <= cluster[c].sequence
            /\ cluster[c].sequence > 0 =>
                  \E x \in own : x.sequence = cluster[c].sequence /\ x.reading.soc = cluster[c].soc

\* A state-of-charge alarm is resolved only if a later reading than the one that
\* raised it was between the thresholds ("alarm condition must recover before
\* resolution", Resolve reads the alarm before the cluster).
RecoveryObserved ==
    \A a \in AlarmId :
        alarm[a].status = "resolved" /\ a[2] # "temperature_high" =>
            \E x \in snapshots : /\ x.cluster = a[1] /\ x.sequence > a[3]
                                 /\ x.reading.soc > LowSOC /\ x.reading.soc < HighSOC

\* Every alarm was acknowledged and resolved once at most, by the user its row
\* names, and the audit log says so: of two requests at the same time, and of a
\* batch beside another, only one takes effect (UpdateAlarm).
OneHandlerEach ==
    \A a \in AlarmId :
        /\ {e \in audits : e.alarm = a /\ e.action = "acknowledge"} =
               IF alarm[a].acknowledgedBy = NoUser THEN {}
               ELSE {Event("acknowledge", a, alarm[a].acknowledgedBy)}
        /\ {e \in audits : e.alarm = a /\ e.action = "resolve"} =
               IF alarm[a].resolvedBy = NoUser THEN {}
               ELSE {Event("resolve", a, alarm[a].resolvedBy)}
        /\ alarm[a].acknowledgedBy = NoUser <=> alarm[a].status \in {"none", "open"}
        /\ alarm[a].resolvedBy # NoUser <=> alarm[a].status = "resolved"

\* What a batch will report as acknowledged is so, in the name of its user,
\* whichever of the other items fail (AcknowledgeBatch, BuildBatchResult).
BatchTellsTruth ==
    \A b \in batches : \A a \in b.done :
        alarm[a].acknowledgedBy = b.user /\ Event("acknowledge", a, b.user) \in audits

\* When a reading has been stored, each of its conditions has an active alarm:
\* one of its own, or one that was active before (StoreTelemetryAtomic).
ReadingsRaiseAlarms ==
    [][\A x \in snapshots' \ snapshots : \A k \in Conditions(x.reading) :
          \E a \in AlarmId : a[1] = x.cluster /\ a[2] = k.type /\ Active(a)']_vars

\* An alarm that is resolved is one whose condition the newest reading no longer
\* shows ("alarm condition must recover before resolution", Alarm.Resolve).
ResolvedWhenRecovered ==
    [][\A a \in AlarmId :
          alarm[a].status # "resolved" /\ alarm'[a].status = "resolved" =>
              \A x \in snapshots :
                  x.cluster = a[1] /\ x.sequence = cluster[a[1]].sequence =>
                      \A k \in Conditions(x.reading) : k.type # a[2]]_vars
=============================================================================
