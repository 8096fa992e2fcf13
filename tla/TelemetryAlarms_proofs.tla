----------------------- MODULE TelemetryAlarms_proofs -----------------------
(***************************************************************************)
(* Proofs about TelemetryAlarms, for every number of clusters, users,      *)
(* requests and readings.                                                  *)
(***************************************************************************)
EXTENDS TelemetryAlarms, TLAPS

------------------------------------------------------------------------------
(* The inductive invariant *)

\* A row's version and its people say what has happened to the alarm.
AlarmsInStep ==
    \A a \in AlarmId :
        /\ alarm[a].status = "none" <=> alarm[a].version = 0
        /\ alarm[a].status = "open" <=> alarm[a].version = 1
        /\ alarm[a].status = "acknowledged" <=> alarm[a].version = 2
        /\ alarm[a].status = "resolved" <=> alarm[a].version = 3
        /\ alarm[a].acknowledgedBy = NoUser <=> alarm[a].status \in {"none", "open"}
        /\ alarm[a].resolvedBy # NoUser <=> alarm[a].status = "resolved"

\* What an acknowledgement would write, and that the row was open when it was read.
AcknowledgementsInStep ==
    \A q \in acknowledging :
        /\ q.version = 1 /\ alarm[q.alarm].version >= 1
        /\ q.changed.status = "acknowledged" /\ q.changed.version = 2
        /\ q.changed.acknowledgedBy \in Users /\ q.changed.resolvedBy = NoUser

\* There is a reading in order after the one that raised the alarm.
Recovered(a) ==
    \E x \in snapshots : /\ x.cluster = a[1] /\ x.sequence > a[3]
                         /\ x.reading.soc > LowSOC /\ x.reading.soc < HighSOC

\* What a resolution would write; who acknowledged an alarm does not change.
ResolutionsInStep ==
    \A q \in resolving :
        /\ q.version = 2 /\ alarm[q.alarm].version >= 2
        /\ q.changed.status = "resolved" /\ q.changed.version = 3
        /\ q.changed.acknowledgedBy = alarm[q.alarm].acknowledgedBy
        /\ q.changed.resolvedBy \in Users
        /\ q.healthy /\ q.alarm[2] # "temperature_high" => Recovered(q.alarm)

\* Readings in flight have passed the judgements of NewSnapshot.
ReadingsPlausible == \A q \in recording : Plausible(q.reading)

\* UNIQUE(cluster_id, sequence).
SnapshotsUnique ==
    \A x, y \in snapshots : x.cluster = y.cluster /\ x.sequence = y.sequence => x = y

\* Every alarm has the reading that raised it.
AlarmsRaised ==
    \A a \in AlarmId : alarm[a].status # "none" =>
        \E x \in snapshots : /\ x.cluster = a[1] /\ x.sequence = a[3]
                             /\ \E k \in Conditions(x.reading) : k.type = a[2]

Core ==
    /\ TypeOK
    /\ AlarmsInStep /\ AcknowledgementsInStep /\ ResolutionsInStep
    /\ ReadingsPlausible /\ SnapshotsUnique /\ AlarmsRaised
    /\ NewestReadingCounts

------------------------------------------------------------------------------
(* Updates of rows *)

LEMMA NoAlarmType == NoAlarm \in AlarmRow
BY DEF NoAlarm, AlarmRow, Status

\* Rows of any version, and those of AlarmRow among them.
WideRow ==
    [status : Status, severity : {"warning", "critical"}, version : Nat,
     acknowledgedBy : Users \cup {NoUser}, resolvedBy : Users \cup {NoUser}]

LEMMA AlarmRowIsWide == \A r : r \in AlarmRow <=> r \in WideRow /\ r.version \in 0..3
BY DEF WideRow, AlarmRow

\* The updates of a row by more than one column, named: what they do to the record
\* is proved once, here.
AsOpened(r, severity) == [r EXCEPT !.status = "open", !.severity = severity, !.version = 1]

AsAcknowledged(r, user) ==
    [r EXCEPT !.status = "acknowledged", !.acknowledgedBy = user, !.version = 2]

AsResolved(r, user) == [r EXCEPT !.status = "resolved", !.resolvedBy = user, !.version = 3]

LEMMA AlarmCreated ==
    ASSUME NEW severity \in {"warning", "critical"}
    PROVE  LET n == Create(severity)
           IN  /\ n \in AlarmRow /\ n.status = "open" /\ n.version = 1
               /\ n.acknowledgedBy = NoUser /\ n.resolvedBy = NoUser
<1>1. ASSUME NEW r \in WideRow
      PROVE  LET n == AsOpened(r, severity)
             IN  /\ n \in WideRow /\ n.status = "open" /\ n.version = 1
                 /\ n.acknowledgedBy = r.acknowledgedBy /\ n.resolvedBy = r.resolvedBy
    BY DEF AsOpened, WideRow, Status
<1>2. Create(severity) = AsOpened(NoAlarm, severity)
    BY DEF Create, AsOpened
<1>3. NoAlarm.acknowledgedBy = NoUser /\ NoAlarm.resolvedBy = NoUser
    BY DEF NoAlarm
<1> QED BY <1>1, <1>2, <1>3, NoAlarmType, AlarmRowIsWide

LEMMA AlarmAcknowledged ==
    ASSUME NEW r \in AlarmRow, r.version = 1, NEW user \in Users
    PROVE  LET n == Acknowledge(r, user)
           IN  /\ n \in AlarmRow /\ n.status = "acknowledged" /\ n.version = 2
               /\ n.acknowledgedBy = user /\ n.resolvedBy = r.resolvedBy
<1>1. ASSUME NEW w \in WideRow
      PROVE  LET n == AsAcknowledged(w, user)
             IN  /\ n \in WideRow /\ n.status = "acknowledged" /\ n.version = 2
                 /\ n.acknowledgedBy = user /\ n.resolvedBy = w.resolvedBy
    BY DEF AsAcknowledged, WideRow, Status
<1>2. r.version + 1 = 2
    OBVIOUS
<1>3. Acknowledge(r, user) = AsAcknowledged(r, user)
    BY <1>2 DEF Acknowledge, AsAcknowledged
<1> QED BY <1>1, <1>3, AlarmRowIsWide

LEMMA AlarmResolved ==
    ASSUME NEW r \in AlarmRow, r.version = 2, NEW user \in Users
    PROVE  LET n == Resolve(r, user)
           IN  /\ n \in AlarmRow /\ n.status = "resolved" /\ n.version = 3
               /\ n.acknowledgedBy = r.acknowledgedBy /\ n.resolvedBy = user
<1>1. ASSUME NEW w \in WideRow
      PROVE  LET n == AsResolved(w, user)
             IN  /\ n \in WideRow /\ n.status = "resolved" /\ n.version = 3
                 /\ n.acknowledgedBy = w.acknowledgedBy /\ n.resolvedBy = user
    BY DEF AsResolved, WideRow, Status
<1>2. r.version + 1 = 3
    OBVIOUS
<1>3. Resolve(r, user) = AsResolved(r, user)
    BY <1>2 DEF Resolve, AsResolved
<1> QED BY <1>1, <1>3, AlarmRowIsWide

\* Alarms are known by cluster, type and sequence number.
LEMMA AlarmIdParts ==
    /\ \A a \in AlarmId : a[1] \in Clusters /\ a[2] \in Types /\ a[3] \in 1..MaxSequence
    /\ \A c \in Clusters, type \in Types, n \in 1..MaxSequence :
          /\ <<c, type, n>> \in AlarmId
          /\ <<c, type, n>>[1] = c /\ <<c, type, n>>[2] = type /\ <<c, type, n>>[3] = n
    /\ \A a, b \in AlarmId : a[1] = b[1] /\ a[2] = b[2] /\ a[3] = b[3] => a = b
BY DEF AlarmId

AsNoted(b, todo, done) == [b EXCEPT !.todo = todo, !.done = done]

LEMMA BatchNoted ==
    ASSUME NEW b \in Batch, NEW todo \in SUBSET AlarmId, NEW done \in SUBSET AlarmId
    PROVE  LET n == AsNoted(b, todo, done)
           IN  n \in Batch /\ n.id = b.id /\ n.user = b.user /\ n.todo = todo /\ n.done = done
BY DEF AsNoted, Batch

LEMMA HealthNoted ==
    ASSUME NEW q \in Resolution
    PROVE  LET n == [q EXCEPT !.healthy = TRUE]
           IN  /\ n \in Resolution /\ n.healthy
               /\ n.id = q.id /\ n.alarm = q.alarm /\ n.version = q.version
               /\ n.changed = q.changed
BY DEF Resolution

------------------------------------------------------------------------------
(* What the commits do *)

\* The reading q raises the alarm a.
Raises(q, a) ==
    /\ a[1] = q.cluster /\ a[3] = q.sequence /\ Quiet(a[1], a[2])
    /\ \E k \in Conditions(q.reading) : k.type = a[2]

Stored(q) == [cluster |-> q.cluster, sequence |-> q.sequence, reading |-> q.reading]

LEMMA ConditionsType ==
    \A reading : \A k \in Conditions(reading) :
        k.type \in Types /\ k.severity \in {"warning", "critical"}
BY DEF Conditions

LEMMA RecordUpdates ==
    ASSUME TypeOK, ReadingsPlausible, NEW q \in recording, RecordCommit(q)
    PROVE  /\ q.cluster \in Clusters /\ q.sequence \in 1..MaxSequence /\ q.reading \in Readings
           /\ cluster' \in [Clusters -> ClusterRow]
           /\ cluster'[q.cluster].soc = q.reading.soc
           /\ cluster'[q.cluster].sequence = q.sequence
           /\ \A c \in Clusters : c # q.cluster => cluster'[c] = cluster[c]
           /\ snapshots' = snapshots \cup {Stored(q)}
           /\ Stored(q) \in Snapshot
           /\ alarm' \in [AlarmId -> AlarmRow]
           /\ \A a \in AlarmId : ~Raises(q, a) => alarm'[a] = alarm[a]
           /\ \A a \in AlarmId : Raises(q, a) =>
                 /\ alarm'[a].status = "open" /\ alarm'[a].version = 1
                 /\ alarm'[a].acknowledgedBy = NoUser /\ alarm'[a].resolvedBy = NoUser
<1>1. q \in Recording /\ q.cluster \in Clusters /\ q.sequence \in 1..MaxSequence
      /\ q.reading \in Readings
    BY DEF TypeOK, Recording
<1>2. q.reading.soc \in 0..100
    BY <1>1 DEF ReadingsPlausible, Plausible
<1>3. PICK version \in Nat : version = cluster[q.cluster].version + 1
    BY <1>1 DEF TypeOK, ClusterRow
<1>4. cluster' = [cluster EXCEPT ![q.cluster] =
                     [soc |-> q.reading.soc, sequence |-> q.sequence, version |-> version]]
    BY <1>3 DEF RecordCommit
<1>5. [soc |-> q.reading.soc, sequence |-> q.sequence, version |-> version] \in ClusterRow
    BY <1>1, <1>2, BoundsAssumption DEF ClusterRow
<1>6. /\ cluster' \in [Clusters -> ClusterRow]
      /\ cluster'[q.cluster].soc = q.reading.soc /\ cluster'[q.cluster].sequence = q.sequence
      /\ \A c \in Clusters : c # q.cluster => cluster'[c] = cluster[c]
    <2>1. cluster \in [Clusters -> ClusterRow]
        BY DEF TypeOK
    <2> QED BY <1>1, <1>4, <1>5, <2>1
<1>7. snapshots' = snapshots \cup {Stored(q)} /\ Stored(q) \in Snapshot
    BY <1>1 DEF RecordCommit, Stored, Snapshot
<1>8. \A a \in AlarmId :
          alarm'[a] = IF Raises(q, a)
                      THEN Create((CHOOSE k \in Conditions(q.reading) : k.type = a[2]).severity)
                      ELSE alarm[a]
    BY DEF RecordCommit, Raises
<1>9. ASSUME NEW a \in AlarmId, Raises(q, a)
      PROVE  /\ alarm'[a] \in AlarmRow /\ alarm'[a].status = "open" /\ alarm'[a].version = 1
             /\ alarm'[a].acknowledgedBy = NoUser /\ alarm'[a].resolvedBy = NoUser
    <2>1. (CHOOSE k \in Conditions(q.reading) : k.type = a[2]) \in Conditions(q.reading)
        BY <1>9 DEF Raises
    <2>2. (CHOOSE k \in Conditions(q.reading) : k.type = a[2]).severity
              \in {"warning", "critical"}
        BY <2>1, ConditionsType
    <2> QED BY <1>8, <1>9, <2>2, AlarmCreated
<1>10. alarm' \in [AlarmId -> AlarmRow]
    <2>1. \A a \in AlarmId : alarm'[a] \in AlarmRow
        BY <1>8, <1>9 DEF TypeOK
    <2>2. alarm' = [a \in AlarmId |-> alarm'[a]]
        BY DEF RecordCommit
    <2> QED BY <2>1, <2>2
<1> QED BY <1>1, <1>6, <1>7, <1>8, <1>9, <1>10

LEMMA AcknowledgeUpdates ==
    ASSUME TypeOK, AlarmsInStep, AcknowledgementsInStep,
           NEW q \in acknowledging, AcknowledgeCommit(q)
    PROVE  /\ q.alarm \in AlarmId
           /\ alarm[q.alarm].status = "open" /\ alarm[q.alarm].version = 1
           /\ alarm[q.alarm].acknowledgedBy = NoUser /\ alarm[q.alarm].resolvedBy = NoUser
           /\ alarm' \in [AlarmId -> AlarmRow]
           /\ alarm'[q.alarm] = q.changed
           /\ \A a \in AlarmId : a # q.alarm => alarm'[a] = alarm[a]
           /\ q.changed.status = "acknowledged" /\ q.changed.version = 2
           /\ q.changed.acknowledgedBy \in Users /\ q.changed.resolvedBy = NoUser
<1>1. q.alarm \in AlarmId /\ q.changed \in AlarmRow
    BY DEF TypeOK, Acknowledgement
<1>2. alarm[q.alarm].version = 1
    BY DEF AcknowledgeCommit, UpdateAlarm, UnchangedSince, AcknowledgementsInStep
<1>3. alarm' = [alarm EXCEPT ![q.alarm] = q.changed]
    BY DEF AcknowledgeCommit, UpdateAlarm
<1>4. alarm \in [AlarmId -> AlarmRow]
    BY DEF TypeOK
<1>5. /\ alarm[q.alarm].status = "open"
      /\ alarm[q.alarm].acknowledgedBy = NoUser /\ alarm[q.alarm].resolvedBy = NoUser
    BY <1>1, <1>2 DEF AlarmsInStep
<1>6. /\ alarm' \in [AlarmId -> AlarmRow] /\ alarm'[q.alarm] = q.changed
      /\ \A a \in AlarmId : a # q.alarm => alarm'[a] = alarm[a]
    BY <1>1, <1>3, <1>4
<1> QED BY <1>1, <1>2, <1>5, <1>6 DEF AcknowledgementsInStep

LEMMA ResolveUpdates ==
    ASSUME TypeOK, AlarmsInStep, ResolutionsInStep, NEW q \in resolving, ResolveCommit(q)
    PROVE  /\ q.alarm \in AlarmId
           /\ alarm[q.alarm].status = "acknowledged" /\ alarm[q.alarm].version = 2
           /\ alarm[q.alarm].resolvedBy = NoUser
           /\ alarm' \in [AlarmId -> AlarmRow]
           /\ alarm'[q.alarm] = q.changed
           /\ \A a \in AlarmId : a # q.alarm => alarm'[a] = alarm[a]
           /\ q.changed.status = "resolved" /\ q.changed.version = 3
           /\ q.changed.acknowledgedBy = alarm[q.alarm].acknowledgedBy
           /\ q.changed.resolvedBy \in Users
           /\ q.alarm[2] # "temperature_high" => Recovered(q.alarm)
<1>1. q.alarm \in AlarmId /\ q.changed \in AlarmRow
    BY DEF TypeOK, Resolution
<1>2. alarm[q.alarm].version = 2 /\ q.healthy
    BY DEF ResolveCommit, UpdateAlarm, UnchangedSince, ResolutionsInStep
<1>3. alarm' = [alarm EXCEPT ![q.alarm] = q.changed]
    BY DEF ResolveCommit, UpdateAlarm
<1>4. alarm \in [AlarmId -> AlarmRow]
    BY DEF TypeOK
<1>5. alarm[q.alarm].status = "acknowledged" /\ alarm[q.alarm].resolvedBy = NoUser
    BY <1>1, <1>2 DEF AlarmsInStep
<1>6. /\ alarm' \in [AlarmId -> AlarmRow] /\ alarm'[q.alarm] = q.changed
      /\ \A a \in AlarmId : a # q.alarm => alarm'[a] = alarm[a]
    BY <1>1, <1>3, <1>4
<1> QED BY <1>1, <1>2, <1>5, <1>6 DEF ResolutionsInStep

------------------------------------------------------------------------------
(* The rows, step by step *)

\* Three commits write rows; every other step leaves them alone.
LEMMA NextCases ==
    ASSUME [Next]_vars
    PROVE  \/ \E q \in recording : RecordCommit(q)
           \/ \E q \in acknowledging : AcknowledgeCommit(q)
           \/ \E q \in resolving : ResolveCommit(q)
           \/ UNCHANGED rows
<1>1. ASSUME NEW r \in Requests, Leave(r) PROVE UNCHANGED rows
    BY <1>1 DEF Leave
<1>2. ASSUME NEW r \in Requests, NEW c \in Clusters, NEW sequence \in 1..MaxSequence,
             NEW reading \in Readings, RecordRead(r, c, sequence, reading)
      PROVE  UNCHANGED rows
    BY <1>2 DEF RecordRead
<1>3. ASSUME NEW r \in Requests, NEW user \in Users, NEW a \in AlarmId,
             AcknowledgeRead(r, a, user) \/ ResolveReadAlarm(r, a, user)
      PROVE  UNCHANGED rows
    BY <1>3 DEF AcknowledgeRead, ResolveReadAlarm
<1>4. ASSUME NEW r \in Requests, NEW user \in Users, NEW items, BatchStart(r, user, items)
      PROVE  UNCHANGED rows
    BY <1>4 DEF BatchStart
<1>5. ASSUME NEW b \in batches, NEW a \in b.todo, BatchRead(b, a) \/ BatchItemFails(b, a)
      PROVE  UNCHANGED rows
    BY <1>5 DEF BatchRead, BatchItemFails
<1>6. ASSUME NEW q \in resolving, ResolveReadCluster(q) PROVE UNCHANGED rows
    BY <1>6 DEF ResolveReadCluster
<1>7. CASE UNCHANGED vars
    BY <1>7 DEF vars
<1> QED BY <1>1, <1>2, <1>3, <1>4, <1>5, <1>6, <1>7 DEF Next

\* What a step may do to an alarm.
AlarmMove(a) ==
    \/ alarm'[a] = alarm[a]
    \/ /\ alarm[a].version = 0
       /\ alarm'[a].status = "open" /\ alarm'[a].version = 1
       /\ alarm'[a].acknowledgedBy = NoUser /\ alarm'[a].resolvedBy = NoUser
    \/ /\ alarm[a].version = 1
       /\ alarm'[a].status = "acknowledged" /\ alarm'[a].version = 2
       /\ alarm'[a].acknowledgedBy \in Users /\ alarm'[a].resolvedBy = NoUser
    \/ /\ alarm[a].version = 2
       /\ alarm'[a].status = "resolved" /\ alarm'[a].version = 3
       /\ alarm'[a].acknowledgedBy = alarm[a].acknowledgedBy
       /\ alarm'[a].resolvedBy \in Users

LEMMA RaisedOnce ==
    ASSUME Core, NEW q \in recording, RecordCommit(q), NEW a \in AlarmId, Raises(q, a)
    PROVE  alarm[a].status = "none" /\ alarm[a].version = 0
<1>1. \A x \in snapshots : x.cluster = q.cluster => x.sequence # q.sequence
    BY DEF RecordCommit
<1>2. alarm[a].status = "none"
    BY <1>1 DEF Core, AlarmsRaised, Raises
<1> QED BY <1>2 DEF Core, AlarmsInStep

LEMMA AlarmsMove == Core /\ [Next]_vars => \A a \in AlarmId : AlarmMove(a)
<1> SUFFICES ASSUME Core, [Next]_vars, NEW a \in AlarmId PROVE AlarmMove(a)
    OBVIOUS
<1> USE DEF AlarmMove
<1>0. /\ TypeOK /\ AlarmsInStep /\ AcknowledgementsInStep /\ ResolutionsInStep
      /\ ReadingsPlausible
    BY DEF Core
<1>1. ASSUME NEW q \in recording, RecordCommit(q) PROVE AlarmMove(a)
    BY <1>0, <1>1, RecordUpdates, RaisedOnce
<1>2. ASSUME NEW q \in acknowledging, AcknowledgeCommit(q) PROVE AlarmMove(a)
    BY <1>0, <1>2, AcknowledgeUpdates
<1>3. ASSUME NEW q \in resolving, ResolveCommit(q) PROVE AlarmMove(a)
    BY <1>0, <1>3, ResolveUpdates
<1>4. CASE UNCHANGED rows
    BY <1>4 DEF rows
<1> QED BY <1>1, <1>2, <1>3, <1>4, NextCases

LEMMA AlarmsStep == Core /\ [Next]_vars => AlarmsInStep'
<1> SUFFICES ASSUME Core, [Next]_vars, NEW a \in AlarmId
             PROVE  (/\ alarm[a].status = "none" <=> alarm[a].version = 0
                     /\ alarm[a].status = "open" <=> alarm[a].version = 1
                     /\ alarm[a].status = "acknowledged" <=> alarm[a].version = 2
                     /\ alarm[a].status = "resolved" <=> alarm[a].version = 3
                     /\ alarm[a].acknowledgedBy = NoUser <=> alarm[a].status \in {"none", "open"}
                     /\ alarm[a].resolvedBy # NoUser <=> alarm[a].status = "resolved")'
    BY DEF AlarmsInStep
<1>1. AlarmMove(a)
    BY AlarmsMove
<1>2. /\ alarm[a].status = "none" <=> alarm[a].version = 0
      /\ alarm[a].status = "open" <=> alarm[a].version = 1
      /\ alarm[a].status = "acknowledged" <=> alarm[a].version = 2
      /\ alarm[a].status = "resolved" <=> alarm[a].version = 3
      /\ alarm[a].acknowledgedBy = NoUser <=> alarm[a].status \in {"none", "open"}
      /\ alarm[a].resolvedBy # NoUser <=> alarm[a].status = "resolved"
    BY DEF Core, AlarmsInStep
<1> QED BY <1>1, <1>2, BoundsAssumption DEF AlarmMove

\* Readings are added and never changed.
LEMMA SnapshotsGrow == Core /\ [Next]_vars => snapshots \subseteq snapshots'
<1> SUFFICES ASSUME Core, [Next]_vars PROVE snapshots \subseteq snapshots'
    OBVIOUS
<1>1. ASSUME NEW q \in recording, RecordCommit(q) PROVE snapshots \subseteq snapshots'
    BY <1>1 DEF RecordCommit
<1> QED BY <1>1, NextCases DEF AcknowledgeCommit, ResolveCommit, rows

LEMMA SnapshotsStep == Core /\ [Next]_vars => SnapshotsUnique'
<1> SUFFICES ASSUME Core, [Next]_vars PROVE SnapshotsUnique'
    OBVIOUS
<1>0. SnapshotsUnique /\ TypeOK /\ ReadingsPlausible
    BY DEF Core
<1>1. ASSUME NEW q \in recording, RecordCommit(q) PROVE SnapshotsUnique'
    <2>1. snapshots' = snapshots \cup {Stored(q)}
        BY <1>0, <1>1, RecordUpdates
    <2>2. Stored(q).cluster = q.cluster /\ Stored(q).sequence = q.sequence
        BY DEF Stored
    <2>3. \A x \in snapshots : x.cluster = q.cluster => x.sequence # q.sequence
        BY <1>1 DEF RecordCommit
    <2> QED BY <1>0, <2>1, <2>2, <2>3 DEF SnapshotsUnique
<1> QED BY <1>0, <1>1, NextCases DEF SnapshotsUnique, AcknowledgeCommit, ResolveCommit, rows

LEMMA RaisedStep == Core /\ [Next]_vars => AlarmsRaised'
<1> SUFFICES ASSUME Core, [Next]_vars, NEW a \in AlarmId, alarm'[a].status # "none"
             PROVE  \E x \in snapshots' :
                        /\ x.cluster = a[1] /\ x.sequence = a[3]
                        /\ \E k \in Conditions(x.reading) : k.type = a[2]
    BY DEF AlarmsRaised
<1>0. TypeOK /\ ReadingsPlausible /\ AlarmsRaised
    BY DEF Core
<1>1. snapshots \subseteq snapshots'
    BY SnapshotsGrow
<1>2. CASE alarm[a].status # "none"
    BY <1>0, <1>1, <1>2 DEF AlarmsRaised
<1>3. CASE alarm[a].status = "none"
    <2>1. alarm[a].version = 0
        BY <1>3 DEF Core, AlarmsInStep
    <2>2. PICK q \in recording : RecordCommit(q)
        <3>1. ASSUME NEW q \in acknowledging, AcknowledgeCommit(q) PROVE FALSE
            BY <1>0, <1>3, <3>1, AcknowledgeUpdates DEF Core
        <3>2. ASSUME NEW q \in resolving, ResolveCommit(q) PROVE FALSE
            BY <1>0, <1>3, <3>2, ResolveUpdates DEF Core
        <3> QED BY <1>3, <3>1, <3>2, NextCases DEF rows
    <2>3. Raises(q, a)
        BY <1>0, <1>3, <2>2, RecordUpdates
    <2>4. Stored(q) \in snapshots' /\ Stored(q).cluster = a[1] /\ Stored(q).sequence = a[3]
          /\ Stored(q).reading = q.reading
        BY <1>0, <2>2, <2>3, RecordUpdates DEF Stored, Raises
    <2> QED BY <2>3, <2>4 DEF Raises
<1> QED BY <1>2, <1>3

LEMMA NewestStep == Core /\ [Next]_vars => NewestReadingCounts'
<1> SUFFICES ASSUME Core, [Next]_vars PROVE NewestReadingCounts'
    OBVIOUS
<1>0. NewestReadingCounts /\ TypeOK /\ ReadingsPlausible
    BY DEF Core
<1>1. ASSUME NEW q \in recording, RecordCommit(q), NEW c \in Clusters
      PROVE  /\ \A x \in snapshots' : x.cluster = c => x.sequence <= cluster'[c].sequence
             /\ cluster'[c].sequence > 0 =>
                   \E x \in snapshots' : /\ x.cluster = c /\ x.sequence = cluster'[c].sequence
                                         /\ x.reading.soc = cluster'[c].soc
    <2>1. /\ snapshots' = snapshots \cup {Stored(q)}
          /\ cluster'[q.cluster].soc = q.reading.soc /\ cluster'[q.cluster].sequence = q.sequence
          /\ c # q.cluster => cluster'[c] = cluster[c]
          /\ q.sequence \in Nat /\ cluster[c] \in ClusterRow
        BY <1>0, <1>1, RecordUpdates, BoundsAssumption DEF TypeOK
    <2>2. /\ Stored(q).cluster = q.cluster /\ Stored(q).sequence = q.sequence
          /\ Stored(q).reading = q.reading
        BY DEF Stored
    <2>3. cluster[q.cluster].sequence < q.sequence
        BY <1>1 DEF RecordCommit, Advances
    <2>4. /\ \A x \in snapshots : x.cluster = c => x.sequence <= cluster[c].sequence
          /\ cluster[c].sequence > 0 =>
                \E x \in snapshots : /\ x.cluster = c /\ x.sequence = cluster[c].sequence
                                     /\ x.reading.soc = cluster[c].soc
        BY <1>0 DEF NewestReadingCounts
    <2>5. \A x \in snapshots : x.sequence \in Nat
        BY <1>0, BoundsAssumption DEF TypeOK, Snapshot
    <2>6. CASE c = q.cluster
        <3>1. cluster[c].sequence \in Nat
            BY <2>1, BoundsAssumption DEF ClusterRow
        <3> QED BY <2>1, <2>2, <2>3, <2>4, <2>5, <2>6, <3>1
    <2>7. CASE c # q.cluster
        BY <2>1, <2>2, <2>4, <2>7
    <2> QED BY <2>6, <2>7
<1>2. (\E q \in recording : RecordCommit(q)) => NewestReadingCounts'
    BY <1>1 DEF NewestReadingCounts
<1>3. UNCHANGED <<cluster, snapshots>> => NewestReadingCounts'
    BY <1>0 DEF NewestReadingCounts
<1> QED BY <1>2, <1>3, NextCases DEF AcknowledgeCommit, ResolveCommit, rows

------------------------------------------------------------------------------
(* The requests, step by step *)

LEMMA PlausibleStep == Core /\ [Next]_vars => ReadingsPlausible'
<1> SUFFICES ASSUME Core, [Next]_vars PROVE ReadingsPlausible'
    OBVIOUS
<1>0. ReadingsPlausible
    BY DEF Core
<1>1. ASSUME NEW r \in Requests, NEW c \in Clusters, NEW sequence \in 1..MaxSequence,
             NEW reading \in Readings, RecordRead(r, c, sequence, reading)
      PROVE  ReadingsPlausible'
    <2>1. [id |-> r, cluster |-> c, sequence |-> sequence, reading |-> reading,
           version |-> cluster[c].version].reading = reading
        OBVIOUS
    <2> QED BY <1>0, <1>1, <2>1 DEF RecordRead, ReadingsPlausible, Plausible
<1>2. recording' \subseteq recording => ReadingsPlausible'
    BY <1>0 DEF ReadingsPlausible, Plausible
<1> QED BY <1>1, <1>2 DEF Next, Leave, AcknowledgeRead, ResolveReadAlarm, BatchStart, RecordCommit,
        AcknowledgeCommit, BatchRead, BatchItemFails, ResolveReadCluster, ResolveCommit, vars, requests

LEMMA AcknowledgementsStep == Core /\ [Next]_vars => AcknowledgementsInStep'
<1> SUFFICES ASSUME Core, [Next]_vars PROVE AcknowledgementsInStep'
    OBVIOUS
<1>0. TypeOK /\ AlarmsInStep /\ AcknowledgementsInStep
    BY DEF Core
<1>1. ASSUME NEW a \in AlarmId PROVE alarm[a].version >= 1 => alarm'[a].version >= 1
    BY <1>1, AlarmsMove DEF AlarmMove
<1>2. ASSUME NEW q \in acknowledging
      PROVE  /\ q.version = 1 /\ alarm'[q.alarm].version >= 1
             /\ q.changed.status = "acknowledged" /\ q.changed.version = 2
             /\ q.changed.acknowledgedBy \in Users /\ q.changed.resolvedBy = NoUser
    BY <1>0, <1>1 DEF AcknowledgementsInStep, TypeOK, Acknowledgement
<1>3. ASSUME NEW id, NEW a \in AlarmId, NEW user \in Users, Acknowledging(id, a, user)
      PROVE  AcknowledgementsInStep'
    <2> DEFINE new == [id |-> id, alarm |-> a, version |-> alarm[a].version,
                       changed |-> Acknowledge(alarm[a], user)]
    <2>1. alarm[a].version = 1 /\ alarm[a].resolvedBy = NoUser /\ alarm[a] \in AlarmRow
        BY <1>0, <1>3 DEF Acknowledging, AlarmsInStep, TypeOK
    <2>2. /\ new.version = 1 /\ new.alarm = a
          /\ new.changed.status = "acknowledged" /\ new.changed.version = 2
          /\ new.changed.acknowledgedBy = user /\ new.changed.resolvedBy = NoUser
        BY <2>1, AlarmAcknowledged
    <2>3. acknowledging' = acknowledging \cup {new}
        BY <1>3 DEF Acknowledging
    <2>4. alarm'[a].version >= 1
        BY <1>1, <2>1
    <2> QED BY <1>2, <2>2, <2>3, <2>4 DEF AcknowledgementsInStep
<1>4. acknowledging' \subseteq acknowledging => AcknowledgementsInStep'
    BY <1>2 DEF AcknowledgementsInStep
<1>5. ASSUME NEW b \in batches, NEW a \in b.todo, BatchRead(b, a)
      PROVE  a \in AlarmId /\ b.user \in Users /\ Acknowledging(b.id, a, b.user)
    BY <1>0, <1>5 DEF BatchRead, TypeOK, Batch
<1>6. ASSUME NEW r \in Requests, NEW a \in AlarmId, NEW user \in Users, AcknowledgeRead(r, a, user)
      PROVE  Acknowledging(r, a, user)
    BY <1>6 DEF AcknowledgeRead
<1> QED BY <1>3, <1>4, <1>5, <1>6 DEF Next, Leave, RecordRead, ResolveReadAlarm, BatchStart,
        RecordCommit, AcknowledgeCommit, BatchItemFails, ResolveReadCluster, ResolveCommit, vars,
        requests

\* A healthy cluster that is read after the alarm has had a reading since.
LEMMA RecoverySeen ==
    ASSUME Core, NEW a \in AlarmId, alarm[a].version >= 2, Healthy(a[1]),
           a[2] # "temperature_high"
    PROVE  Recovered(a)
<1>1. a[1] \in Clusters /\ a[2] \in {"soc_low", "soc_high"} /\ a[3] \in Nat
    BY AlarmIdParts, BoundsAssumption DEF Types
<1>2. alarm[a].status # "none"
    BY DEF Core, AlarmsInStep
<1>3. PICK x \in snapshots : x.cluster = a[1] /\ x.sequence = a[3]
                             /\ \E k \in Conditions(x.reading) : k.type = a[2]
    BY <1>2 DEF Core, AlarmsRaised
<1>4. PICK y \in snapshots : y.cluster = a[1] /\ y.sequence = cluster[a[1]].sequence
                             /\ y.reading.soc = cluster[a[1]].soc
    BY <1>1 DEF Core, NewestReadingCounts, Healthy
<1>5. x.sequence <= y.sequence
    BY <1>1, <1>3, <1>4 DEF Core, NewestReadingCounts
<1>6. x \in Snapshot /\ y \in Snapshot
    BY <1>3, <1>4 DEF Core, TypeOK
<1>7. /\ LowSOC \in Int /\ HighSOC \in Int /\ x.reading.soc \in Int /\ y.reading.soc \in Int
      /\ x.sequence \in Nat /\ y.sequence \in Nat
    BY <1>6, ThresholdsAssumption, ReadingsAssumption, BoundsAssumption DEF Snapshot
<1>8. x.reading.soc <= LowSOC \/ x.reading.soc >= HighSOC
    BY <1>1, <1>3 DEF Conditions
<1>9. y.reading.soc > LowSOC /\ y.reading.soc < HighSOC
    BY <1>4 DEF Healthy
<1>10. x # y
    BY <1>7, <1>8, <1>9
<1>11. x.sequence # y.sequence
    BY <1>3, <1>4, <1>10 DEF Core, SnapshotsUnique
<1>12. y.sequence > a[3]
    BY <1>3, <1>5, <1>7, <1>11
<1> QED BY <1>4, <1>9, <1>12 DEF Recovered

LEMMA RecoveredKept ==
    ASSUME Core, [Next]_vars, NEW a, Recovered(a)
    PROVE  Recovered(a)'
BY SnapshotsGrow DEF Recovered

LEMMA ResolutionsStep == Core /\ [Next]_vars => ResolutionsInStep'
<1> SUFFICES ASSUME Core, [Next]_vars PROVE ResolutionsInStep'
    OBVIOUS
<1> DEFINE Sound(q) == /\ q.version = 2 /\ alarm'[q.alarm].version >= 2
                       /\ q.changed.status = "resolved" /\ q.changed.version = 3
                       /\ q.changed.acknowledgedBy = alarm'[q.alarm].acknowledgedBy
                       /\ q.changed.resolvedBy \in Users
                       /\ q.healthy /\ q.alarm[2] # "temperature_high" => Recovered(q.alarm)'
<1>0. TypeOK /\ AlarmsInStep /\ ResolutionsInStep
    BY DEF Core
<1>1. ASSUME NEW a \in AlarmId, alarm[a].version >= 2
      PROVE  alarm'[a].version >= 2 /\ alarm'[a].acknowledgedBy = alarm[a].acknowledgedBy
    BY <1>1, AlarmsMove DEF AlarmMove
<1>2. ASSUME NEW q \in resolving PROVE Sound(q)
    <2>1. q.alarm \in AlarmId
        BY <1>0 DEF TypeOK, Resolution
    <2>2. /\ q.version = 2 /\ alarm[q.alarm].version >= 2
          /\ q.changed.status = "resolved" /\ q.changed.version = 3
          /\ q.changed.acknowledgedBy = alarm[q.alarm].acknowledgedBy
          /\ q.changed.resolvedBy \in Users
          /\ q.healthy /\ q.alarm[2] # "temperature_high" => Recovered(q.alarm)
        BY <1>0 DEF ResolutionsInStep
    <2> QED BY <1>1, <2>1, <2>2, RecoveredKept
<1>3. ASSUME NEW r \in Requests, NEW a \in AlarmId, NEW user \in Users,
             ResolveReadAlarm(r, a, user)
      PROVE  \A q \in resolving' : Sound(q)
    <2> DEFINE new == [id |-> r, alarm |-> a, version |-> alarm[a].version,
                       changed |-> Resolve(alarm[a], user), healthy |-> FALSE]
    <2>1. alarm[a].version = 2 /\ alarm[a] \in AlarmRow
        BY <1>0, <1>3 DEF ResolveReadAlarm, AlarmsInStep, TypeOK
    <2>2. /\ new.version = 2 /\ new.alarm = a /\ new.healthy = FALSE
          /\ new.changed.status = "resolved" /\ new.changed.version = 3
          /\ new.changed.acknowledgedBy = alarm[a].acknowledgedBy
          /\ new.changed.resolvedBy = user
        BY <2>1, AlarmResolved
    <2>3. resolving' = resolving \cup {new}
        BY <1>3 DEF ResolveReadAlarm
    <2>4. alarm'[a].version >= 2 /\ alarm'[a].acknowledgedBy = alarm[a].acknowledgedBy
        BY <1>1, <2>1
    <2>5. Sound(new)
        BY <2>2, <2>4
    <2> QED BY <1>2, <2>3, <2>5
<1>4. ASSUME NEW q \in resolving, ResolveReadCluster(q) PROVE \A p \in resolving' : Sound(p)
    <2> DEFINE new == [q EXCEPT !.healthy = TRUE]
    <2>1. q \in Resolution /\ q.alarm \in AlarmId
        BY <1>0 DEF TypeOK, Resolution
    <2>2. /\ new.alarm = q.alarm /\ new.version = q.version /\ new.changed = q.changed
        BY <2>1, HealthNoted
    <2>3. resolving' = (resolving \ {q}) \cup {new} /\ Healthy(q.alarm[1])
        BY <1>4 DEF ResolveReadCluster
    <2>4. alarm[q.alarm].version >= 2
        BY <1>0 DEF ResolutionsInStep
    <2>5. q.alarm[2] # "temperature_high" => Recovered(q.alarm)'
        BY <2>1, <2>3, <2>4, RecoverySeen, RecoveredKept
    <2>6. Sound(q)
        BY <1>2
    <2>7. Sound(new)
        BY <2>2, <2>5, <2>6
    <2> HIDE DEF new, Sound
    <2> QED BY <1>2, <2>3, <2>7
<1>5. resolving' \subseteq resolving => \A q \in resolving' : Sound(q)
    BY <1>2
<1>6. (\A q \in resolving' : Sound(q)) => ResolutionsInStep'
    BY DEF ResolutionsInStep
<1> HIDE DEF Sound
<1> QED BY <1>3, <1>4, <1>5, <1>6 DEF Next, Leave, RecordRead, AcknowledgeRead, BatchStart,
        RecordCommit, AcknowledgeCommit, BatchRead, BatchItemFails, ResolveCommit, vars, requests

LEMMA EventType ==
    \A action \in {"acknowledge", "resolve"}, a \in AlarmId, user \in Users :
        /\ Event(action, a, user) \in Events
        /\ Event(action, a, user).action = action /\ Event(action, a, user).alarm = a
        /\ Event(action, a, user).user = user
BY DEF Event, Events

LEMMA RowTypesStep ==
    ASSUME Core, [Next]_vars
    PROVE  /\ cluster' \in [Clusters -> ClusterRow]
           /\ \A x \in snapshots' : x \in Snapshot
           /\ alarm' \in [AlarmId -> AlarmRow]
           /\ \A event \in audits' : event \in Events
<1>0. /\ TypeOK /\ AlarmsInStep /\ AcknowledgementsInStep /\ ResolutionsInStep
      /\ ReadingsPlausible
    BY DEF Core
<1>1. ASSUME NEW q \in recording, RecordCommit(q)
      PROVE  /\ cluster' \in [Clusters -> ClusterRow]
             /\ \A x \in snapshots' : x \in Snapshot
             /\ alarm' \in [AlarmId -> AlarmRow]
             /\ audits' = audits
    <2>1. /\ cluster' \in [Clusters -> ClusterRow] /\ alarm' \in [AlarmId -> AlarmRow]
          /\ snapshots' = snapshots \cup {Stored(q)} /\ Stored(q) \in Snapshot
        BY <1>0, <1>1, RecordUpdates
    <2>2. audits' = audits
        BY <1>1 DEF RecordCommit
    <2>3. \A x \in snapshots : x \in Snapshot
        BY <1>0 DEF TypeOK
    <2> QED BY <2>1, <2>2, <2>3
<1>2. ASSUME NEW q \in acknowledging, AcknowledgeCommit(q)
      PROVE  /\ alarm' \in [AlarmId -> AlarmRow] /\ cluster' = cluster /\ snapshots' = snapshots
             /\ \A event \in audits' : event \in Events
    <2>1. /\ alarm' \in [AlarmId -> AlarmRow]
          /\ q.alarm \in AlarmId /\ q.changed.acknowledgedBy \in Users
        BY <1>0, <1>2, AcknowledgeUpdates
    <2>2. Event("acknowledge", q.alarm, q.changed.acknowledgedBy) \in Events
        BY <2>1, EventType
    <2> QED BY <1>0, <1>2, <2>1, <2>2 DEF AcknowledgeCommit, TypeOK
<1>3. ASSUME NEW q \in resolving, ResolveCommit(q)
      PROVE  /\ alarm' \in [AlarmId -> AlarmRow] /\ cluster' = cluster /\ snapshots' = snapshots
             /\ \A event \in audits' : event \in Events
    <2>1. /\ alarm' \in [AlarmId -> AlarmRow]
          /\ q.alarm \in AlarmId /\ q.changed.resolvedBy \in Users
        BY <1>0, <1>3, ResolveUpdates
    <2>2. Event("resolve", q.alarm, q.changed.resolvedBy) \in Events
        BY <2>1, EventType
    <2> QED BY <1>0, <1>3, <2>1, <2>2 DEF ResolveCommit, TypeOK
<1>4. /\ cluster \in [Clusters -> ClusterRow] /\ \A x \in snapshots : x \in Snapshot
      /\ alarm \in [AlarmId -> AlarmRow] /\ \A event \in audits : event \in Events
    BY <1>0 DEF TypeOK
<1> QED BY <1>1, <1>2, <1>3, <1>4, NextCases DEF rows

LEMMA RecordingTypeStep ==
    ASSUME Core, [Next]_vars
    PROVE  \A q \in recording' : q \in Recording
<1>0. \A q \in recording : q \in Recording
    BY DEF Core, TypeOK
<1>1. ASSUME NEW r \in Requests, NEW c \in Clusters, NEW sequence \in 1..MaxSequence,
             NEW reading \in Readings, RecordRead(r, c, sequence, reading)
      PROVE  \A q \in recording' : q \in Recording
    <2>1. cluster[c].version \in Nat
        BY DEF Core, TypeOK, ClusterRow
    <2>2. [id |-> r, cluster |-> c, sequence |-> sequence, reading |-> reading,
           version |-> cluster[c].version] \in Recording
        BY <2>1 DEF Recording
    <2> QED BY <1>0, <1>1, <2>2 DEF RecordRead
<1>2. recording' \subseteq recording => \A q \in recording' : q \in Recording
    BY <1>0
<1> QED BY <1>1, <1>2 DEF Next, Leave, AcknowledgeRead, ResolveReadAlarm, BatchStart, RecordCommit,
        AcknowledgeCommit, BatchRead, BatchItemFails, ResolveReadCluster, ResolveCommit, vars, requests

LEMMA AcknowledgementType ==
    ASSUME TypeOK, AlarmsInStep, NEW id \in Requests, NEW a \in AlarmId, NEW user \in Users,
           Acknowledging(id, a, user)
    PROVE  \A q \in acknowledging' : q \in Acknowledgement
<1>1. alarm[a] \in AlarmRow /\ alarm[a].version = 1
    BY DEF Acknowledging, AlarmsInStep, TypeOK
<1>2. Acknowledge(alarm[a], user) \in AlarmRow /\ alarm[a].version \in Nat
    BY <1>1, AlarmAcknowledged
<1>3. [id |-> id, alarm |-> a, version |-> alarm[a].version,
       changed |-> Acknowledge(alarm[a], user)] \in Acknowledgement
    BY <1>2 DEF Acknowledgement
<1> QED BY <1>3 DEF Acknowledging, TypeOK

LEMMA AcknowledgingTypeStep ==
    ASSUME Core, [Next]_vars
    PROVE  \A q \in acknowledging' : q \in Acknowledgement
<1>0. TypeOK /\ AlarmsInStep
    BY DEF Core
<1>1. ASSUME NEW r \in Requests, NEW a \in AlarmId, NEW user \in Users, AcknowledgeRead(r, a, user)
      PROVE  \A q \in acknowledging' : q \in Acknowledgement
    BY <1>0, <1>1, AcknowledgementType DEF AcknowledgeRead
<1>2. ASSUME NEW b \in batches, NEW a \in b.todo, BatchRead(b, a)
      PROVE  \A q \in acknowledging' : q \in Acknowledgement
    <2>1. b.id \in Requests /\ b.user \in Users /\ a \in AlarmId
        BY <1>0, <1>2 DEF TypeOK, Batch
    <2> QED BY <1>0, <1>2, <2>1, AcknowledgementType DEF BatchRead
<1>3. acknowledging' \subseteq acknowledging => \A q \in acknowledging' : q \in Acknowledgement
    BY <1>0 DEF TypeOK
<1> QED BY <1>1, <1>2, <1>3 DEF Next, Leave, RecordRead, ResolveReadAlarm, BatchStart, RecordCommit,
        AcknowledgeCommit, BatchItemFails, ResolveReadCluster, ResolveCommit, vars, requests

LEMMA ResolvingTypeStep ==
    ASSUME Core, [Next]_vars
    PROVE  \A q \in resolving' : q \in Resolution
<1>0. TypeOK /\ AlarmsInStep
    BY DEF Core
<1>1. ASSUME NEW r \in Requests, NEW a \in AlarmId, NEW user \in Users,
             ResolveReadAlarm(r, a, user)
      PROVE  \A q \in resolving' : q \in Resolution
    <2>1. alarm[a] \in AlarmRow /\ alarm[a].version = 2
        BY <1>0, <1>1 DEF ResolveReadAlarm, AlarmsInStep, TypeOK
    <2>2. Resolve(alarm[a], user) \in AlarmRow /\ alarm[a].version \in Nat
        BY <2>1, AlarmResolved
    <2>3. [id |-> r, alarm |-> a, version |-> alarm[a].version,
           changed |-> Resolve(alarm[a], user), healthy |-> FALSE] \in Resolution
        BY <2>2 DEF Resolution
    <2> QED BY <1>0, <1>1, <2>3 DEF ResolveReadAlarm, TypeOK
<1>2. ASSUME NEW q \in resolving, ResolveReadCluster(q)
      PROVE  \A p \in resolving' : p \in Resolution
    <2>1. [q EXCEPT !.healthy = TRUE] \in Resolution
        BY <1>0, HealthNoted DEF TypeOK
    <2> QED BY <1>0, <1>2, <2>1 DEF ResolveReadCluster, TypeOK
<1>3. resolving' \subseteq resolving => \A q \in resolving' : q \in Resolution
    BY <1>0 DEF TypeOK
<1> QED BY <1>1, <1>2, <1>3 DEF Next, Leave, RecordRead, AcknowledgeRead, BatchStart, RecordCommit,
        AcknowledgeCommit, BatchRead, BatchItemFails, ResolveCommit, vars, requests

\* What becomes of the batches when an acknowledgement of theirs commits.
Noted(b, q) ==
    IF b.id # q.id THEN b
    ELSE [b EXCEPT !.todo = b.todo \ {q.alarm}, !.done = b.done \cup {q.alarm}]

LEMMA NotedBatch ==
    ASSUME NEW b \in Batch, NEW q, q.alarm \in AlarmId
    PROVE  /\ Noted(b, q) \in Batch /\ Noted(b, q).id = b.id /\ Noted(b, q).user = b.user
           /\ Noted(b, q).done = IF b.id = q.id THEN b.done \cup {q.alarm} ELSE b.done
<1>1. b.todo \ {q.alarm} \in SUBSET AlarmId /\ b.done \cup {q.alarm} \in SUBSET AlarmId
    BY DEF Batch
<1>2. CASE b.id = q.id
    <2>1. Noted(b, q) = [b EXCEPT !.todo = b.todo \ {q.alarm}, !.done = b.done \cup {q.alarm}]
        BY <1>2 DEF Noted
    <2>2. /\ Noted(b, q) \in Batch /\ Noted(b, q).id = b.id /\ Noted(b, q).user = b.user
          /\ Noted(b, q).done = b.done \cup {q.alarm}
        <3>1. Noted(b, q) = AsNoted(b, b.todo \ {q.alarm}, b.done \cup {q.alarm})
            BY <2>1 DEF AsNoted
        <3> QED BY <1>1, <3>1, BatchNoted
    <2> QED BY <1>2, <2>2
<1>3. CASE b.id # q.id
    BY <1>3 DEF Noted
<1> QED BY <1>2, <1>3

\* The batches after such a commit are those.
LEMMA BatchesNoted ==
    ASSUME NEW q, AcknowledgeCommit(q)
    PROVE  batches' = {Noted(b, q) : b \in batches}
<1>1. batches' = {IF b.id # q.id THEN b
                  ELSE [b EXCEPT !.todo = b.todo \ {q.alarm}, !.done = b.done \cup {q.alarm}] :
                      b \in batches}
    BY DEF AcknowledgeCommit
<1> QED BY <1>1, Zenon DEF Noted

LEMMA BatchesTypeStep ==
    ASSUME Core, [Next]_vars
    PROVE  \A b \in batches' : b \in Batch
<1>0. TypeOK /\ \A b \in batches : b \in Batch
    BY DEF Core, TypeOK
<1>1. ASSUME NEW r \in Requests, NEW user \in Users,
             NEW items \in SUBSET {a \in AlarmId : alarm[a].status # "none"},
             BatchStart(r, user, items)
      PROVE  \A b \in batches' : b \in Batch
    <2>1. [id |-> r, user |-> user, todo |-> items, done |-> {}] \in Batch
        BY DEF Batch
    <2> QED BY <1>0, <1>1, <2>1 DEF BatchStart
<1>2. ASSUME NEW q \in acknowledging, AcknowledgeCommit(q) PROVE \A b \in batches' : b \in Batch
    <2>1. q.alarm \in AlarmId
        BY <1>0 DEF TypeOK, Acknowledgement
    <2>2. batches' = {Noted(b, q) : b \in batches}
        BY <1>2, BatchesNoted
    <2>3. ASSUME NEW b \in batches PROVE Noted(b, q) \in Batch
        BY <1>0, <2>1, NotedBatch
    <2> QED BY <2>2, <2>3
<1>3. ASSUME NEW b \in batches, NEW a \in b.todo, BatchItemFails(b, a)
      PROVE  \A x \in batches' : x \in Batch
    <2>1. b \in Batch /\ b.todo \ {a} \in SUBSET AlarmId
        BY <1>0 DEF Batch
    <2>2. [b EXCEPT !.todo = b.todo \ {a}] \in Batch
        BY <2>1 DEF Batch
    <2> QED BY <1>0, <1>3, <2>2 DEF BatchItemFails
<1>4. batches' \subseteq batches => \A b \in batches' : b \in Batch
    BY <1>0
<1> QED BY <1>1, <1>2, <1>3, <1>4 DEF Next, Leave, RecordRead, AcknowledgeRead, ResolveReadAlarm,
        RecordCommit, BatchRead, ResolveReadCluster, ResolveCommit, vars, requests

LEMMA TypeStep == Core /\ [Next]_vars => TypeOK'
<1> SUFFICES ASSUME Core, [Next]_vars PROVE TypeOK'
    OBVIOUS
<1> QED BY RowTypesStep, RecordingTypeStep, AcknowledgingTypeStep, ResolvingTypeStep,
        BatchesTypeStep DEF TypeOK

LEMMA CoreInit == Init => Core
<1> SUFFICES ASSUME Init PROVE Core
    OBVIOUS
<1>1. cluster \in [Clusters -> ClusterRow]
    <2>1. [soc : {r.soc : r \in Readings} \cap 0..100, sequence : {0}, version : {1}]
              \subseteq ClusterRow
        BY BoundsAssumption DEF ClusterRow
    <2> QED BY <2>1 DEF Init
<1>2. \A a \in AlarmId : alarm[a] = NoAlarm
    BY DEF Init
<1>3. alarm \in [AlarmId -> AlarmRow]
    BY NoAlarmType DEF Init
<1>4. TypeOK
    BY <1>1, <1>3 DEF Init, TypeOK
<1>5. /\ NoAlarm.status = "none" /\ NoAlarm.version = 0
      /\ NoAlarm.acknowledgedBy = NoUser /\ NoAlarm.resolvedBy = NoUser
    BY DEF NoAlarm
<1>6. AlarmsInStep /\ AlarmsRaised
    BY <1>2, <1>5 DEF AlarmsInStep, AlarmsRaised
<1>7. NewestReadingCounts
    <2>1. \A c \in Clusters : cluster[c].sequence = 0
        BY DEF Init
    <2> QED BY <2>1 DEF Init, NewestReadingCounts
<1> QED BY <1>4, <1>6, <1>7 DEF Init, Core, AcknowledgementsInStep, ResolutionsInStep,
        ReadingsPlausible, SnapshotsUnique

------------------------------------------------------------------------------
(* The theorems *)

\* The induction: what readings, alarms and requests know of each other, whatever
\* steps they take in between (Record, Acknowledge, AcknowledgeBatch, Resolve).
THEOREM CoreInvariant == Spec => []Core
<1>1. Core /\ [Next]_vars => Core'
    BY TypeStep, AlarmsStep, AcknowledgementsStep, ResolutionsStep, PlausibleStep, SnapshotsStep,
       RaisedStep, NewestStep DEF Core
<1> QED BY <1>1, CoreInit, PTL DEF Spec

\* The columns' types, and of the requests in flight, for any instance.
THEOREM TypeCorrect == Spec => []TypeOK
BY CoreInvariant, PTL DEF Core

\* No late reading overwrites the state of charge of a newer one, whatever readings
\* are in flight at the same time (ApplyTelemetry, StoreTelemetryAtomic).
THEOREM NewestCounts == Spec => []NewestReadingCounts
BY CoreInvariant, PTL DEF Core

\* However readings and resolutions interleave, a condition has one active alarm at
\* most: a reading raises one only beside resolved ones (idx_alarm_active_fingerprint).
THEOREM OneActive == Spec => []OneActiveAlarm
<1>1. Init => OneActiveAlarm
    <2>1. NoAlarm.status = "none"
        BY DEF NoAlarm
    <2> QED BY <2>1 DEF Init, OneActiveAlarm, Active
<1>2. Core /\ OneActiveAlarm /\ [Next]_vars => OneActiveAlarm'
    <2> SUFFICES ASSUME Core, OneActiveAlarm, [Next]_vars, NEW a \in AlarmId, NEW b \in AlarmId,
                        a[1] = b[1], a[2] = b[2], Active(a)', Active(b)'
                 PROVE  a = b
        BY DEF OneActiveAlarm
    <2>0. TypeOK /\ ReadingsPlausible /\ AlarmsInStep
        BY DEF Core
    <2>1. ASSUME NEW q \in recording, RecordCommit(q) PROVE a = b
        <3>1. \A x \in AlarmId : Raises(q, x) \/ alarm'[x] = alarm[x]
            BY <2>0, <2>1, RecordUpdates
        <3>2. (Raises(q, a) \/ Active(a)) /\ (Raises(q, b) \/ Active(b))
            BY <3>1 DEF Active
        <3>3. CASE Active(a) /\ Active(b)
            BY <3>3 DEF OneActiveAlarm
        <3>4. Raises(q, a) => ~Active(b)
            BY DEF Raises, Quiet
        <3>5. Raises(q, b) => ~Active(a)
            BY DEF Raises, Quiet
        <3>6. CASE Raises(q, a) /\ Raises(q, b)
            BY <3>6, AlarmIdParts DEF Raises
        <3> QED BY <3>2, <3>3, <3>4, <3>5, <3>6
    <2>2. ASSUME ~\E q \in recording : RecordCommit(q), NEW x \in AlarmId, Active(x)'
          PROVE  Active(x)
        <3>1. alarm'[x] = alarm[x] \/ alarm[x].version \in {1, 2}
            <4>1. ASSUME NEW q \in acknowledging, AcknowledgeCommit(q)
                  PROVE  alarm'[x] = alarm[x] \/ alarm[x].version \in {1, 2}
                BY <2>0, <4>1, AcknowledgeUpdates DEF Core
            <4>2. ASSUME NEW q \in resolving, ResolveCommit(q)
                  PROVE  alarm'[x] = alarm[x] \/ alarm[x].version \in {1, 2}
                BY <2>0, <4>2, ResolveUpdates DEF Core
            <4> QED BY <2>2, <4>1, <4>2, NextCases DEF rows
        <3> QED BY <2>0, <2>2, <3>1 DEF Active, AlarmsInStep
    <2>3. CASE ~\E q \in recording : RecordCommit(q)
        BY <2>2, <2>3 DEF OneActiveAlarm
    <2> QED BY <2>1, <2>3
<1> QED BY <1>1, <1>2, CoreInvariant, PTL DEF Spec

\* A state-of-charge alarm is resolved only if a reading after the one that raised it
\* was in order, whatever readings arrive while Resolve runs.
THEOREM RecoveriesObserved == Spec => []RecoveryObserved
<1>1. Init => RecoveryObserved
    <2>1. NoAlarm.status = "none"
        BY DEF NoAlarm
    <2> QED BY <2>1 DEF Init, RecoveryObserved
<1>2. Core /\ RecoveryObserved /\ [Next]_vars => RecoveryObserved'
    <2> SUFFICES ASSUME Core, RecoveryObserved, [Next]_vars, NEW a \in AlarmId,
                        alarm'[a].status = "resolved", a[2] # "temperature_high"
                 PROVE  Recovered(a)'
        BY DEF RecoveryObserved, Recovered
    <2>0. TypeOK /\ ReadingsPlausible /\ AlarmsInStep /\ AcknowledgementsInStep
          /\ ResolutionsInStep
        BY DEF Core
    <2>1. CASE alarm[a].status = "resolved"
        <3>1. Recovered(a)
            BY <2>1 DEF RecoveryObserved, Recovered
        <3> QED BY <3>1, RecoveredKept
    <2>2. CASE alarm[a].status # "resolved"
        <3>1. ASSUME NEW q \in recording, RecordCommit(q) PROVE FALSE
            BY <2>0, <2>2, <3>1, RecordUpdates
        <3>2. ASSUME NEW q \in acknowledging, AcknowledgeCommit(q) PROVE FALSE
            BY <2>0, <2>2, <3>2, AcknowledgeUpdates
        <3>3. ASSUME NEW q \in resolving, ResolveCommit(q) PROVE Recovered(a)'
            <4>1. Recovered(a)
                BY <2>0, <2>2, <3>3, ResolveUpdates
            <4> QED BY <4>1, RecoveredKept
        <3> QED BY <2>2, <3>1, <3>2, <3>3, NextCases DEF rows
    <2> QED BY <2>1, <2>2
<1> QED BY <1>1, <1>2, CoreInvariant, PTL DEF Spec

\* The events of one kind about one alarm.
EventsOf(action, a) == {e \in audits : e.alarm = a /\ e.action = action}

LEMMA HandlersStep == Core /\ OneHandlerEach /\ [Next]_vars => OneHandlerEach'
<1> SUFFICES ASSUME Core, OneHandlerEach, [Next]_vars, NEW a \in AlarmId
             PROVE  /\ EventsOf("acknowledge", a)' =
                           IF alarm'[a].acknowledgedBy = NoUser THEN {}
                           ELSE {Event("acknowledge", a, alarm'[a].acknowledgedBy)}
                    /\ EventsOf("resolve", a)' =
                           IF alarm'[a].resolvedBy = NoUser THEN {}
                           ELSE {Event("resolve", a, alarm'[a].resolvedBy)}
                    /\ alarm'[a].acknowledgedBy = NoUser <=>
                           alarm'[a].status \in {"none", "open"}
                    /\ alarm'[a].resolvedBy # NoUser <=> alarm'[a].status = "resolved"
    BY DEF OneHandlerEach, EventsOf
<1>0. /\ TypeOK /\ AlarmsInStep /\ AcknowledgementsInStep /\ ResolutionsInStep
      /\ ReadingsPlausible
    BY DEF Core
<1>1. AlarmsInStep'
    BY AlarmsStep
<1>2. /\ EventsOf("acknowledge", a) =
             IF alarm[a].acknowledgedBy = NoUser THEN {}
             ELSE {Event("acknowledge", a, alarm[a].acknowledgedBy)}
      /\ EventsOf("resolve", a) =
             IF alarm[a].resolvedBy = NoUser THEN {}
             ELSE {Event("resolve", a, alarm[a].resolvedBy)}
    BY DEF OneHandlerEach, EventsOf
<1> DEFINE Logged ==
        /\ EventsOf("acknowledge", a)' =
               IF alarm'[a].acknowledgedBy = NoUser THEN {}
               ELSE {Event("acknowledge", a, alarm'[a].acknowledgedBy)}
        /\ EventsOf("resolve", a)' =
               IF alarm'[a].resolvedBy = NoUser THEN {}
               ELSE {Event("resolve", a, alarm'[a].resolvedBy)}
<1>3. ASSUME NEW q \in recording, RecordCommit(q) PROVE Logged
    <2>1. audits' = audits
        BY <1>3 DEF RecordCommit
    <2>2. CASE Raises(q, a)
        <3>1. alarm[a].acknowledgedBy = NoUser /\ alarm[a].resolvedBy = NoUser
            BY <1>0, <1>3, <2>2, RaisedOnce DEF AlarmsInStep
        <3>2. alarm'[a].acknowledgedBy = NoUser /\ alarm'[a].resolvedBy = NoUser
            BY <1>0, <1>3, <2>2, RecordUpdates
        <3> QED BY <1>2, <2>1, <3>1, <3>2 DEF EventsOf
    <2>3. CASE ~Raises(q, a)
        <3>1. alarm'[a] = alarm[a]
            BY <1>0, <1>3, <2>3, RecordUpdates
        <3> QED BY <1>2, <2>1, <3>1 DEF EventsOf
    <2> QED BY <2>2, <2>3
<1>4. ASSUME NEW q \in acknowledging, AcknowledgeCommit(q) PROVE Logged
    <2> DEFINE event == Event("acknowledge", q.alarm, q.changed.acknowledgedBy)
    <2>1. /\ q.alarm \in AlarmId /\ q.changed.acknowledgedBy \in Users
          /\ q.changed.resolvedBy = NoUser /\ alarm'[q.alarm] = q.changed
          /\ alarm[q.alarm].acknowledgedBy = NoUser /\ alarm[q.alarm].resolvedBy = NoUser
          /\ a # q.alarm => alarm'[a] = alarm[a]
        BY <1>0, <1>4, AcknowledgeUpdates
    <2>2. event.alarm = q.alarm /\ event.action = "acknowledge"
        BY <2>1, EventType
    <2>3. audits' = audits \cup {event}
        BY <1>4 DEF AcknowledgeCommit
    <2>4. EventsOf("resolve", a)' = EventsOf("resolve", a)
        BY <2>2, <2>3 DEF EventsOf
    <2>5. CASE a = q.alarm
        <3>1. EventsOf("acknowledge", a)' = EventsOf("acknowledge", a) \cup {event}
            BY <2>2, <2>3, <2>5 DEF EventsOf
        <3>2. EventsOf("acknowledge", a) = {}
            BY <1>2, <2>1, <2>5
        <3>3. EventsOf("acknowledge", a)' = {event}
            BY <3>1, <3>2
        <3>4. alarm'[a].acknowledgedBy # NoUser
            BY <2>1, <2>5, BoundsAssumption
        <3>5. event = Event("acknowledge", a, alarm'[a].acknowledgedBy)
            BY <2>1, <2>5
        <3>6. EventsOf("resolve", a) = {} /\ alarm'[a].resolvedBy = NoUser
            BY <1>2, <2>1, <2>5
        <3> HIDE DEF event
        <3> QED BY <2>4, <3>3, <3>4, <3>5, <3>6
    <2>6. CASE a # q.alarm
        <3>1. EventsOf("acknowledge", a)' = EventsOf("acknowledge", a)
            BY <2>2, <2>3, <2>6 DEF EventsOf
        <3> QED BY <1>2, <2>1, <2>4, <2>6, <3>1
    <2> QED BY <2>5, <2>6
<1>5. ASSUME NEW q \in resolving, ResolveCommit(q) PROVE Logged
    <2> DEFINE event == Event("resolve", q.alarm, q.changed.resolvedBy)
    <2>1. /\ q.alarm \in AlarmId /\ q.changed.resolvedBy \in Users
          /\ q.changed.acknowledgedBy = alarm[q.alarm].acknowledgedBy
          /\ alarm'[q.alarm] = q.changed /\ alarm[q.alarm].resolvedBy = NoUser
          /\ a # q.alarm => alarm'[a] = alarm[a]
        BY <1>0, <1>5, ResolveUpdates
    <2>2. event.alarm = q.alarm /\ event.action = "resolve"
        BY <2>1, EventType
    <2>3. audits' = audits \cup {event}
        BY <1>5 DEF ResolveCommit
    <2>4. EventsOf("acknowledge", a)' = EventsOf("acknowledge", a)
        BY <2>2, <2>3 DEF EventsOf
    <2>5. CASE a = q.alarm
        <3>1. EventsOf("resolve", a)' = EventsOf("resolve", a) \cup {event}
            BY <2>2, <2>3, <2>5 DEF EventsOf
        <3>2. EventsOf("resolve", a) = {}
            BY <1>2, <2>1, <2>5
        <3>3. EventsOf("resolve", a)' = {event}
            BY <3>1, <3>2
        <3>4. alarm'[a].resolvedBy # NoUser
            BY <2>1, <2>5, BoundsAssumption
        <3>5. event = Event("resolve", a, alarm'[a].resolvedBy)
            BY <2>1, <2>5
        <3>6. alarm'[a].acknowledgedBy = alarm[a].acknowledgedBy
            BY <2>1, <2>5
        <3> HIDE DEF event
        <3> QED BY <1>2, <2>4, <3>3, <3>4, <3>5, <3>6
    <2>6. CASE a # q.alarm
        <3>1. EventsOf("resolve", a)' = EventsOf("resolve", a)
            BY <2>2, <2>3, <2>6 DEF EventsOf
        <3> QED BY <1>2, <2>1, <2>4, <2>6, <3>1
    <2> QED BY <2>5, <2>6
<1>6. ASSUME UNCHANGED rows PROVE Logged
    <2>1. alarm' = alarm /\ audits' = audits
        BY <1>6 DEF rows
    <2>2. /\ EventsOf("acknowledge", a)' = EventsOf("acknowledge", a)
          /\ EventsOf("resolve", a)' = EventsOf("resolve", a)
        BY <2>1 DEF EventsOf
    <2>3. alarm'[a] = alarm[a]
        BY <2>1
    <2> QED BY <1>2, <2>2, <2>3
<1>7. Logged
    BY <1>3, <1>4, <1>5, <1>6, NextCases
<1> QED BY <1>1, <1>7 DEF AlarmsInStep

\* Of the people who handle an alarm at the same time, alone or in a batch, one is
\* let through, and the row and the audit log agree on who it was (UpdateAlarm).
THEOREM HandledOnce == Spec => []OneHandlerEach
<1>1. Init => OneHandlerEach
    <2>1. NoAlarm.status = "none" /\ NoAlarm.acknowledgedBy = NoUser /\ NoAlarm.resolvedBy = NoUser
        BY DEF NoAlarm
    <2> QED BY <2>1 DEF Init, OneHandlerEach
<1> QED BY <1>1, HandlersStep, CoreInvariant, PTL DEF Spec

\* A batch has its request to itself, acknowledges in its user's name, and what it
\* has noted is so.
BatchesInStep ==
    /\ \A b, c \in batches : b.id = c.id => b = c
    /\ \A b \in batches, q \in acknowledging : q.id = b.id => q.changed.acknowledgedBy = b.user
    /\ \A b \in batches : \A a \in b.done : alarm[a].acknowledgedBy = b.user

\* Acknowledged alarms keep their person.
LEMMA AcknowledgedKept ==
    ASSUME Core, [Next]_vars, NEW a \in AlarmId, alarm[a].acknowledgedBy \in Users
    PROVE  alarm'[a].acknowledgedBy = alarm[a].acknowledgedBy
<1>1. alarm[a].version >= 2
    <2>1. alarm[a].acknowledgedBy # NoUser
        BY BoundsAssumption
    <2>2. alarm[a] \in AlarmRow
        BY DEF Core, TypeOK
    <2> QED BY <2>1, <2>2 DEF Core, AlarmsInStep, AlarmRow, Status
<1> QED BY <1>1, AlarmsMove DEF AlarmMove

LEMMA DoneKept ==
    ASSUME Core, BatchesInStep, [Next]_vars, NEW b \in batches, NEW a \in b.done
    PROVE  alarm'[a].acknowledgedBy = b.user
<1>1. b \in Batch
    BY DEF Core, TypeOK
<1>2. a \in AlarmId /\ b.user \in Users
    BY <1>1 DEF Batch
<1>3. alarm[a].acknowledgedBy = b.user
    BY DEF BatchesInStep
<1> QED BY <1>2, <1>3, AcknowledgedKept

LEMMA BatchesStep == Core /\ BatchesInStep /\ [Next]_vars => BatchesInStep'
<1> SUFFICES ASSUME Core, BatchesInStep, [Next]_vars PROVE BatchesInStep'
    OBVIOUS
<1>0. TypeOK /\ AlarmsInStep /\ AcknowledgementsInStep /\ \A b \in batches : b \in Batch
    BY DEF Core, TypeOK
<1>1. \A b \in batches : \A a \in b.done : alarm'[a].acknowledgedBy = b.user
    BY DoneKept
<1>2. ASSUME batches' \subseteq batches, acknowledging' \subseteq acknowledging
      PROVE  BatchesInStep'
    BY <1>1, <1>2 DEF BatchesInStep
<1>3. ASSUME NEW r, NEW a \in AlarmId, NEW user \in Users, Acknowledging(r, a, user),
             batches' = batches, \A b \in batches : b.id = r => b.user = user
      PROVE  BatchesInStep'
    <2> DEFINE new == [id |-> r, alarm |-> a, version |-> alarm[a].version,
                       changed |-> Acknowledge(alarm[a], user)]
    <2>1. alarm[a] \in AlarmRow /\ alarm[a].version = 1
        BY <1>0, <1>3 DEF Acknowledging, AlarmsInStep, TypeOK
    <2>2. new.id = r /\ new.changed.acknowledgedBy = user
        BY <2>1, AlarmAcknowledged
    <2>3. acknowledging' = acknowledging \cup {new}
        BY <1>3 DEF Acknowledging
    <2> HIDE DEF new
    <2> QED BY <1>1, <1>3, <2>2, <2>3 DEF BatchesInStep
<1>4. ASSUME NEW r \in Requests, NEW a \in AlarmId, NEW user \in Users, AcknowledgeRead(r, a, user)
      PROVE  BatchesInStep'
    <2>1. /\ Acknowledging(r, a, user) /\ batches' = batches
          /\ \A b \in batches : b.id # r
        BY <1>4 DEF AcknowledgeRead, Free
    <2> QED BY <1>3, <2>1
<1>5. ASSUME NEW b \in batches, NEW a \in b.todo, BatchRead(b, a) PROVE BatchesInStep'
    <2>1. Acknowledging(b.id, a, b.user) /\ batches' = batches
        BY <1>5 DEF BatchRead
    <2>2. a \in AlarmId /\ b.user \in Users
        BY <1>0 DEF Batch
    <2>3. \A c \in batches : c.id = b.id => c.user = b.user
        BY DEF BatchesInStep
    <2> QED BY <1>3, <2>1, <2>2, <2>3
<1>6. ASSUME NEW r \in Requests, NEW user \in Users, NEW items, BatchStart(r, user, items)
      PROVE  BatchesInStep'
    <2> DEFINE new == [id |-> r, user |-> user, todo |-> items, done |-> {}]
    <2>1. /\ batches' = batches \cup {new} /\ acknowledging' = acknowledging
          /\ \A b \in batches : b.id # r
          /\ \A q \in acknowledging : q.id # r
        BY <1>6 DEF BatchStart, Free
    <2>2. new.id = r /\ new.done = {}
        OBVIOUS
    <2> HIDE DEF new
    <2> QED BY <1>1, <2>1, <2>2 DEF BatchesInStep
<1>7. ASSUME NEW q \in acknowledging, AcknowledgeCommit(q) PROVE BatchesInStep'
    <2>1. /\ q.alarm \in AlarmId /\ alarm'[q.alarm] = q.changed
        BY <1>0, <1>7, AcknowledgeUpdates
    <2>2. batches' = {Noted(b, q) : b \in batches}
        BY <1>7, BatchesNoted
    <2>3. ASSUME NEW b \in batches
          PROVE  /\ Noted(b, q).id = b.id /\ Noted(b, q).user = b.user
                 /\ \A a \in Noted(b, q).done : alarm'[a].acknowledgedBy = b.user
        <3>1. /\ Noted(b, q).id = b.id /\ Noted(b, q).user = b.user
              /\ Noted(b, q).done = IF b.id = q.id THEN b.done \cup {q.alarm} ELSE b.done
            BY <1>0, <2>1, NotedBatch
        <3>2. b.id = q.id => alarm'[q.alarm].acknowledgedBy = b.user
            BY <2>1 DEF BatchesInStep
        <3> QED BY <1>1, <3>1, <3>2
    <2>4. acknowledging' \subseteq acknowledging
        BY <1>7 DEF AcknowledgeCommit
    <2>5. \A b, c \in batches' : b.id = c.id => b = c
        <3> SUFFICES ASSUME NEW b \in batches, NEW c \in batches, Noted(b, q).id = Noted(c, q).id
                     PROVE  Noted(b, q) = Noted(c, q)
            BY <2>2
        <3>1. b.id = c.id
            BY <2>3
        <3> QED BY <3>1 DEF BatchesInStep
    <2>6. \A b \in batches', p \in acknowledging' : p.id = b.id => p.changed.acknowledgedBy = b.user
        BY <2>2, <2>3, <2>4 DEF BatchesInStep
    <2>7. \A b \in batches' : \A a \in b.done : alarm'[a].acknowledgedBy = b.user
        BY <2>2, <2>3
    <2> QED BY <2>5, <2>6, <2>7 DEF BatchesInStep
<1>8. ASSUME NEW b \in batches, NEW a \in b.todo, BatchItemFails(b, a) PROVE BatchesInStep'
    <2> DEFINE new == [b EXCEPT !.todo = b.todo \ {a}]
    <2>1. new.id = b.id /\ new.user = b.user /\ new.done = b.done
        BY <1>0 DEF Batch
    <2>2. /\ batches' = (batches \ {b}) \cup {new}
          /\ acknowledging' \subseteq acknowledging
        BY <1>8 DEF BatchItemFails
    <2> HIDE DEF new
    <2> QED BY <1>1, <2>1, <2>2 DEF BatchesInStep
<1> QED BY <1>2, <1>4, <1>5, <1>6, <1>7, <1>8 DEF Next, Leave, RecordRead, ResolveReadAlarm,
        RecordCommit, ResolveReadCluster, ResolveCommit, vars, requests

\* What a batch reports as acknowledged was acknowledged by its user and is in the
\* audit log, whichever items fail and whoever works on the same alarms
\* (AcknowledgeBatch).
THEOREM BatchesTellTruth == Spec => []BatchTellsTruth
<1>1. Init => BatchesInStep
    BY DEF Init, BatchesInStep
<1>2. Core /\ OneHandlerEach /\ BatchesInStep => BatchTellsTruth
    <2> SUFFICES ASSUME Core, OneHandlerEach, BatchesInStep, NEW b \in batches, NEW a \in b.done
                 PROVE  alarm[a].acknowledgedBy = b.user /\ Event("acknowledge", a, b.user) \in audits
        BY DEF BatchTellsTruth
    <2>1. b \in Batch
        BY DEF Core, TypeOK
    <2>2. a \in AlarmId /\ b.user \in Users
        BY <2>1 DEF Batch
    <2>3. alarm[a].acknowledgedBy = b.user /\ b.user # NoUser
        BY <2>2, BoundsAssumption DEF BatchesInStep
    <2>4. {e \in audits : e.alarm = a /\ e.action = "acknowledge"} =
              {Event("acknowledge", a, b.user)}
        BY <2>2, <2>3 DEF OneHandlerEach
    <2> QED BY <2>3, <2>4
<1> QED BY <1>1, <1>2, BatchesStep, CoreInvariant, HandledOnce, PTL DEF Spec

\* Storing a reading leaves each of its conditions with an active alarm, although the
\* insert gives way to one that is there (StoreTelemetryAtomic).
THEOREM ConditionsRaised == Spec => ReadingsRaiseAlarms
<1>1. Core /\ [Next]_vars =>
          \A x \in snapshots' \ snapshots : \A k \in Conditions(x.reading) :
              \E a \in AlarmId : a[1] = x.cluster /\ a[2] = k.type /\ Active(a)'
    <2> SUFFICES ASSUME Core, [Next]_vars, NEW x \in snapshots' \ snapshots,
                        NEW k \in Conditions(x.reading)
                 PROVE  \E a \in AlarmId : a[1] = x.cluster /\ a[2] = k.type /\ Active(a)'
        OBVIOUS
    <2>0. TypeOK /\ ReadingsPlausible
        BY DEF Core
    <2>1. PICK q \in recording : RecordCommit(q)
        BY NextCases DEF AcknowledgeCommit, ResolveCommit, rows
    <2>2. x = Stored(q) /\ q.cluster \in Clusters /\ q.sequence \in 1..MaxSequence
        BY <2>0, <2>1, RecordUpdates
    <2>3. x.cluster = q.cluster /\ x.reading = q.reading /\ k.type \in Types
        BY <2>2, ConditionsType DEF Stored
    <2>4. CASE Quiet(q.cluster, k.type)
        <3>1. PICK a \in AlarmId : a[1] = q.cluster /\ a[2] = k.type /\ a[3] = q.sequence
            <4>1. <<q.cluster, k.type, q.sequence>> \in AlarmId
                BY <2>2, <2>3 DEF AlarmId
            <4> QED BY <4>1
        <3>2. Raises(q, a)
            BY <2>3, <2>4, <3>1 DEF Raises
        <3>3. alarm'[a].status = "open"
            BY <2>0, <2>1, <3>2, RecordUpdates
        <3> QED BY <2>3, <3>1, <3>3 DEF Active
    <2>5. CASE ~Quiet(q.cluster, k.type)
        <3>1. PICK a \in AlarmId : a[1] = q.cluster /\ a[2] = k.type /\ Active(a)
            BY <2>5 DEF Quiet
        <3>2. ~Raises(q, a)
            BY <3>1 DEF Raises, Quiet
        <3>3. alarm'[a] = alarm[a]
            BY <2>0, <2>1, <3>2, RecordUpdates
        <3> QED BY <2>3, <3>1, <3>3 DEF Active
    <2> QED BY <2>4, <2>5
<1> QED BY <1>1, CoreInvariant, PTL DEF Spec, ReadingsRaiseAlarms

=============================================================================
