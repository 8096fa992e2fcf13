---------------------------- MODULE DispatchPlans ----------------------------
(***************************************************************************)
(* Dispatch plans, the capacity they reserve and the jobs they release.    *)
(*                                                                         *)
(* Every HTTP request runs in a goroutine of its own: it reads rows one by *)
(* one, decides on what it read, and commits in one SQL transaction (or    *)
(* statement) whose conditions on versions and states are all that guards  *)
(* against the requests running beside it.  A request may end anywhere:    *)
(* its client leaves, the database is busy, the process dies.  A refusal   *)
(* changes nothing, so a request that is refused is only forgotten.        *)
(*                                                                         *)
(* The plans of the wired program stop at "dispatched": nothing calls      *)
(* Plan.Start, Complete, Fail or Cancel, Reservation.Release,              *)
(* Cluster.Release or Site.Release, so neither does the model.             *)
(***************************************************************************)
EXTENDS StoredTime, FiniteSets, Functions

CONSTANTS
    Sites, Clusters, Plans, Users,
    Requests,      \* goroutines that may serve requests at the same time
    NoUser,        \* approved_by NULL
    NoSite,        \* the site of a plan that does not exist yet
    Home,          \* the site of each cluster
    Rated,         \* rated power of each cluster
    GridLimit,     \* grid limit of each site
    Inputs,        \* what clients ask for: [site, kw, direction, window]
    Socs,          \* states of charge, against the cluster's SOC window
    MaxSiteVersion \* bound: sites change state only below this version

ASSUME PlantAssumption ==
    /\ Home \in [Clusters -> Sites]
    /\ Rated \in [Clusters -> Nat \ {0}]
    /\ GridLimit \in [Sites -> Nat \ {0}]
    /\ IsFiniteSet(Clusters) /\ IsFiniteSet(Plans)
    /\ NoUser \notin Users /\ NoSite \notin Sites
    /\ Socs \subseteq {"low", "within", "high"}
    /\ MaxSiteVersion \in Nat

Window == {w \in Nat \X Nat : w[1] < w[2]}
Directions == {"charge", "discharge"}

ASSUME InputsAssumption ==
    Inputs \subseteq [site : Sites, kw : Nat \ {0}, direction : Directions, window : Window]

VARIABLES
    site,         \* sites: status, reserved_kw, version
    cluster,      \* battery_clusters: status, SOC
    plan,         \* dispatch_plans
    reservations, \* capacity_reservations
    jobs,         \* how many execution_jobs rows a plan has for a cluster
    audits,       \* audit_events
    submitting,   \* Submit requests between their first read and their commit
    approving,    \* Approve requests, likewise
    dispatching,  \* Dispatch requests, likewise
    changing,     \* site Transition requests, likewise
    auditing      \* requests that have committed and still owe their audit event

rows == <<site, cluster, plan, reservations, jobs, audits>>
requests == <<submitting, approving, dispatching, changing, auditing>>
vars == <<rows, requests>>

------------------------------------------------------------------------------
(* Rows *)

SiteStatus == {"commissioning", "active", "suspended", "retired"}
PlanStatus == {"none", "draft", "submitted", "approved", "dispatched"}

NoPlan == [status |-> "none", version |-> 0, site |-> NoSite, kw |-> 0,
           direction |-> "charge", window |-> <<0, 1>>, createdBy |-> NoUser,
           approvedBy |-> NoUser]

Reserving(p) == plan[p].status \in {"submitted", "approved", "dispatched"}

Event(action, object) == [action |-> action, object |-> object]

Init ==
    /\ site = [s \in Sites |-> [status |-> "commissioning", reserved |-> 0, version |-> 1]]
    /\ cluster \in [Clusters -> [status : {"available"}, soc : Socs]]
    /\ plan = [p \in Plans |-> NoPlan]
    /\ reservations = {}
    /\ jobs = [p \in Plans |-> [c \in Clusters |-> 0]]
    /\ audits = {}
    /\ submitting = {} /\ approving = {} /\ dispatching = {} /\ changing = {}
    /\ auditing = {}

Free(r) ==
    \A q \in submitting \cup approving \cup dispatching \cup changing \cup auditing : q.id # r

\* The audit event that a handler inserts after its own commit.
OwesAudit(r, event) == auditing' = auditing \cup {[id |-> r, event |-> event]}

InsertAudit(q) ==
    /\ q \in auditing
    /\ auditing' = auditing \ {q}
    /\ audits' = audits \cup {q.event}
    /\ UNCHANGED <<site, cluster, plan, reservations, jobs, submitting, approving,
                   dispatching, changing>>

\* The request of r ends before its next step.
Abandon(r) ==
    /\ ~Free(r)
    /\ submitting' = {q \in submitting : q.id # r}
    /\ approving' = {q \in approving : q.id # r}
    /\ dispatching' = {q \in dispatching : q.id # r}
    /\ changing' = {q \in changing : q.id # r}
    /\ auditing' = {q \in auditing : q.id # r}
    /\ UNCHANGED rows

------------------------------------------------------------------------------
(* DispatchService.Create *)

Create(r, p, user, input) ==
    /\ Free(r)
    /\ plan[p].status = "none"
    /\ plan' = [plan EXCEPT ![p] =
           [status |-> "draft", version |-> 1, site |-> input.site, kw |-> input.kw,
            direction |-> input.direction, window |-> input.window,
            createdBy |-> user, approvedBy |-> NoUser]]
    /\ OwesAudit(r, Event("create", p))
    /\ UNCHANGED <<site, cluster, reservations, jobs, audits, submitting, approving,
                   dispatching, changing>>

------------------------------------------------------------------------------
(* DispatchService.Submit *)

Unread == 0

\* PlanByID: the draft that its creator submits, at the version he names, and the
\* clusters he selected for it.
SubmitReadPlan(r, p, selected) ==
    /\ Free(r)
    /\ plan[p].status = "draft"
    /\ selected # {}
    /\ submitting' = submitting \cup
           {[id |-> r, plan |-> p, version |-> plan[p].version, siteVersion |-> Unread,
             selected |-> selected, unchecked |-> selected]}
    /\ UNCHANGED <<rows, approving, dispatching, changing, auditing>>

\* SiteByID and CanAcceptPlans.
SubmitReadSite(q) ==
    /\ q \in submitting /\ q.siteVersion = Unread
    /\ site[plan[q.plan].site].status = "active"
    /\ submitting' = (submitting \ {q}) \cup
           {[q EXCEPT !.siteVersion = site[plan[q.plan].site].version]}
    /\ UNCHANGED <<rows, approving, dispatching, changing, auditing>>

\* Cluster.Eligible.  Its power test cannot fail here: Submit asks for the
\* smaller of the plan's power and the rating.
Eligible(c, direction) ==
    /\ cluster[c].status = "available"
    /\ direction = "charge" => cluster[c].soc # "high"
    /\ direction = "discharge" => cluster[c].soc # "low"

\* ClusterByID for one of the selected clusters.
SubmitCheckCluster(q, c) ==
    /\ q \in submitting /\ q.siteVersion # Unread /\ c \in q.unchecked
    /\ Home[c] = plan[q.plan].site
    /\ Eligible(c, plan[q.plan].direction)
    /\ submitting' = (submitting \ {q}) \cup {[q EXCEPT !.unchecked = q.unchecked \ {c}]}
    /\ UNCHANGED <<rows, approving, dispatching, changing, auditing>>

\* What AllocatePower promises, whatever order Go walks its map in: shares
\* within the ratings that add up to the request (module PowerAllocation).
Allocations(kw, selected) ==
    {share \in [selected -> 0..kw] :
        /\ \A c \in selected : share[c] <= Rated[c]
        /\ SumFunction(share) = kw}

\* reservationConflict: status <> 'released', and the windows compared as texts.
Conflict(c, window) ==
    \E x \in reservations :
        x.cluster = c /\ TextLess(x.window[1], window[2]) /\ TextLess(window[1], x.window[2])

\* Slip: the site is charged whatever became of it since it was read.
SiteTakesAnyVersion(s, kw, version) == site[s].reserved + kw <= GridLimit[s]

\* The conditions of the UPDATE of sites.
SiteTakes(s, kw, version) ==
    /\ site[s].version = version /\ site[s].status = "active"
    /\ site[s].reserved + kw <= GridLimit[s]

\* The condition of the UPDATE of battery_clusters.
ClusterTakes(c) == cluster[c].status = "available"

\* All that Submit looks at before its commit has been read.
Checked(q) == q \in submitting /\ q.siteVersion # Unread /\ q.unchecked = {}

\* Slip: rows are updated by their ids, and the windows alone keep plans apart.
AdmittedByWindows(q) ==
    LET row == plan[q.plan]
    IN  /\ row.version = q.version
        /\ site[row.site].status = "active"
        /\ site[row.site].reserved + row.kw <= GridLimit[row.site]
        /\ \A c \in q.selected : ~Conflict(c, row.window)

\* All conditions of SubmitPlanAtomic: if one fails the transaction is rolled back.
Admitted(q) ==
    LET row == plan[q.plan]
    IN  /\ row.version = q.version
        /\ SiteTakes(row.site, row.kw, q.siteVersion)
        /\ \A c \in q.selected : ~Conflict(c, row.window) /\ ClusterTakes(c)

\* NewReservation for each cluster, which refuses an empty share.
Reservable(share) == \A c \in DOMAIN share : share[c] > 0

\* The rows that SubmitPlanAtomic writes for the shares.
Reserve(q) ==
    LET row == plan[q.plan]
    IN  /\ \E share \in Allocations(row.kw, q.selected) :
             /\ Reservable(share)
             /\ reservations' = reservations \cup
                   {[plan |-> q.plan, cluster |-> c, kw |-> share[c], window |-> row.window] :
                        c \in q.selected}
        /\ site' = [site EXCEPT ![row.site].reserved = site[row.site].reserved + row.kw,
                                ![row.site].version = site[row.site].version + 1]
        /\ cluster' = [c \in Clusters |->
               IF c \in q.selected THEN [cluster[c] EXCEPT !.status = "reserved"] ELSE cluster[c]]

Submitted(q) ==
    plan' = [plan EXCEPT ![q.plan].status = "submitted", ![q.plan].version = q.version + 1]

\* Slip: the audit event is inserted after the transaction, as Approve does.
SubmitCommitAuditLater(q) ==
    /\ Checked(q) /\ Admitted(q) /\ Reserve(q) /\ Submitted(q)
    /\ submitting' = submitting \ {q}
    /\ OwesAudit(q.id, Event("submit", q.plan))
    /\ UNCHANGED <<jobs, audits, approving, dispatching, changing>>

\* Slip: the capacity is reserved outside the transaction that updates the plan,
\* so a submission that the plan's version refuses leaves its reservations behind.
SubmitCommitNoRollback(q) ==
    /\ Checked(q) /\ Reserve(q)
    /\ \A c \in q.selected : ClusterTakes(c)
    /\ IF Admitted(q) THEN Submitted(q) ELSE UNCHANGED plan
    /\ audits' = audits \cup {Event("submit", q.plan)}
    /\ submitting' = submitting \ {q}
    /\ UNCHANGED <<jobs, approving, dispatching, changing, auditing>>

\* SubmitPlanAtomic.
SubmitCommit(q) ==
    /\ Checked(q) /\ Admitted(q) /\ Reserve(q) /\ Submitted(q)
    /\ audits' = audits \cup {Event("submit", q.plan)}
    /\ submitting' = submitting \ {q}
    /\ UNCHANGED <<jobs, approving, dispatching, changing, auditing>>

------------------------------------------------------------------------------
(* DispatchService.Approve *)

\* Slip: Plan.Approve leaves the four eyes to the role.
ApproveReadAnyone(r, p, user) ==
    /\ Free(r)
    /\ plan[p].status = "submitted" /\ user \in Users
    /\ approving' = approving \cup
           {[id |-> r, plan |-> p, version |-> plan[p].version, user |-> user]}
    /\ UNCHANGED <<rows, submitting, dispatching, changing, auditing>>

\* PlanByID and Plan.Approve, on the version the client names: the one just read.
ApproveRead(r, p, user) ==
    /\ Free(r)
    /\ plan[p].status = "submitted" /\ plan[p].createdBy # user
    /\ approving' = approving \cup
           {[id |-> r, plan |-> p, version |-> plan[p].version, user |-> user]}
    /\ UNCHANGED <<rows, submitting, dispatching, changing, auditing>>

\* Slip: UpdatePlan without the expected version.
ApproveCommitUnguarded(q) ==
    /\ q \in approving
    /\ plan' = [plan EXCEPT ![q.plan].status = "approved", ![q.plan].approvedBy = q.user,
                            ![q.plan].version = q.version + 1]
    /\ approving' = approving \ {q}
    /\ OwesAudit(q.id, Event("approve", q.plan))
    /\ UNCHANGED <<site, cluster, reservations, jobs, audits, submitting, dispatching,
                   changing>>

ApproveCommit(q) ==
    /\ q \in approving
    /\ plan[q.plan].version = q.version
    /\ plan' = [plan EXCEPT ![q.plan].status = "approved", ![q.plan].approvedBy = q.user,
                            ![q.plan].version = q.version + 1]
    /\ approving' = approving \ {q}
    /\ OwesAudit(q.id, Event("approve", q.plan))
    /\ UNCHANGED <<site, cluster, reservations, jobs, audits, submitting, dispatching,
                   changing>>

------------------------------------------------------------------------------
(* DispatchService.Dispatch *)

\* PlanByID.  The version the client expects is not compared with the one read;
\* versions only grow, so one below it could only be refused.
DispatchReadPlan(r, p, expected) ==
    /\ Free(r)
    /\ plan[p].status = "approved" /\ expected >= plan[p].version
    /\ dispatching' = dispatching \cup
           {[id |-> r, plan |-> p, version |-> plan[p].version, expected |-> expected,
             targets |-> {}]}
    /\ UNCHANGED <<rows, submitting, approving, changing, auditing>>

Reserved(p) == {x.cluster : x \in {y \in reservations : y.plan = p}}

\* ReservationsByPlan: a job for each, and at least one.
DispatchReadReservations(q) ==
    /\ q \in dispatching /\ q.targets = {}
    /\ Reserved(q.plan) # {}
    /\ dispatching' = (dispatching \ {q}) \cup {[q EXCEPT !.targets = Reserved(q.plan)]}
    /\ UNCHANGED <<rows, submitting, approving, changing, auditing>>

\* Slip: no unique constraint on the jobs.
AnotherJob(p, c) == jobs[p][c] >= 0

\* UNIQUE(plan_id, cluster_id) and the unique command_key.
NoJobYet(p, c) == jobs[p][c] = 0

DispatchCommit(q) ==
    /\ q \in dispatching /\ q.targets # {}
    /\ \A c \in q.targets : NoJobYet(q.plan, c)
    /\ plan[q.plan].version = q.expected
    /\ jobs' = [jobs EXCEPT ![q.plan] =
           [c \in Clusters |-> jobs[q.plan][c] + (IF c \in q.targets THEN 1 ELSE 0)]]
    /\ plan' = [plan EXCEPT ![q.plan].status = "dispatched",
                            ![q.plan].version = q.version + 1]
    /\ audits' = audits \cup {Event("dispatch", q.plan)}
    /\ dispatching' = dispatching \ {q}
    /\ UNCHANGED <<site, cluster, reservations, submitting, approving, changing, auditing>>

------------------------------------------------------------------------------
(* SiteService.Transition *)

\* What clients may ask for; the handler passes any text on.
Asked == SiteStatus \cup {"unknown"}

\* Slip: the current state does not matter, nor does what is asked for.
AllowedAnything(status) == Asked \ {status}

Allowed(status) ==
    CASE status = "commissioning" -> {"active", "retired"}
      [] status = "active"        -> {"suspended", "retired"}
      [] status = "suspended"     -> {"active", "retired"}
      [] OTHER                    -> {}

TransitionRead(r, s, next) ==
    /\ Free(r)
    /\ site[s].version < MaxSiteVersion
    /\ next \in Allowed(site[s].status)
    /\ next = "retired" => site[s].reserved = 0
    /\ changing' = changing \cup {[id |-> r, site |-> s, next |-> next,
                                   reserved |-> site[s].reserved, version |-> site[s].version]}
    /\ UNCHANGED <<rows, submitting, approving, dispatching, auditing>>

\* Slip: UpdateSite without the expected version.
TransitionCommitUnguarded(q) ==
    /\ q \in changing
    /\ site' = [site EXCEPT ![q.site] =
           [status |-> q.next, reserved |-> q.reserved, version |-> q.version + 1]]
    /\ changing' = changing \ {q}
    /\ OwesAudit(q.id, Event("transition", q.site))
    /\ UNCHANGED <<cluster, plan, reservations, jobs, audits, submitting, approving,
                   dispatching>>

\* UpdateSite writes the whole row as it was read, reserved_kw included.
TransitionCommit(q) ==
    /\ q \in changing
    /\ site[q.site].version = q.version
    /\ site' = [site EXCEPT ![q.site] =
           [status |-> q.next, reserved |-> q.reserved, version |-> q.version + 1]]
    /\ changing' = changing \ {q}
    /\ OwesAudit(q.id, Event("transition", q.site))
    /\ UNCHANGED <<cluster, plan, reservations, jobs, audits, submitting, approving,
                   dispatching>>

------------------------------------------------------------------------------
(* Telemetry moves a cluster's state of charge at any time (StoreTelemetry-   *)
(* Atomic); its own guards are about telemetry alone.                         *)

Telemetry(c, soc) ==
    /\ cluster[c].soc # soc
    /\ cluster' = [cluster EXCEPT ![c].soc = soc]
    /\ UNCHANGED <<site, plan, reservations, jobs, audits, requests>>

------------------------------------------------------------------------------

MaxPlanVersion == 4     \* create, submit, approve, dispatch

Next ==
    \/ \E r \in Requests :
        \/ Abandon(r)
        \/ \E p \in Plans :
            \/ \E user \in Users, input \in Inputs : Create(r, p, user, input)
            \/ \E selected \in SUBSET Clusters : SubmitReadPlan(r, p, selected)
            \/ \E user \in Users : ApproveRead(r, p, user)
            \/ \E expected \in 1..MaxPlanVersion : DispatchReadPlan(r, p, expected)
        \/ \E s \in Sites, next \in Asked : TransitionRead(r, s, next)
    \/ \E q \in submitting :
        SubmitReadSite(q) \/ SubmitCommit(q) \/ \E c \in q.unchecked : SubmitCheckCluster(q, c)
    \/ \E q \in approving : ApproveCommit(q)
    \/ \E q \in dispatching : DispatchReadReservations(q) \/ DispatchCommit(q)
    \/ \E q \in changing : TransitionCommit(q)
    \/ \E q \in auditing : InsertAudit(q)
    \/ \E c \in Clusters, soc \in Socs : Telemetry(c, soc)

Spec == Init /\ [][Next]_vars

------------------------------------------------------------------------------
(* Properties *)

SiteRow == [status : SiteStatus, reserved : Nat, version : Nat]
ClusterRow == [status : {"available", "reserved"}, soc : Socs]
PlanRow == [status : PlanStatus, version : Nat, site : Sites \cup {NoSite}, kw : Nat,
            direction : Directions, window : Window, createdBy : Users \cup {NoUser},
            approvedBy : Users \cup {NoUser}]
Reservation == [plan : Plans, cluster : Clusters, kw : Nat, window : Window]

Actions == {"create", "submit", "approve", "dispatch", "transition"}
Events == [action : Actions, object : Plans \cup Sites]

Submission == [id : Requests, plan : Plans, version : Nat, siteVersion : Nat,
               selected : SUBSET Clusters, unchecked : SUBSET Clusters]
Approval == [id : Requests, plan : Plans, version : Nat, user : Users]
Dispatching == [id : Requests, plan : Plans, version : Nat, expected : Nat,
                targets : SUBSET Clusters]
Change == [id : Requests, site : Sites, next : SiteStatus, reserved : Nat, version : Nat]
AuditDue == [id : Requests, event : Events]

\* The columns' types, and of the requests in flight.
TypeOK ==
    /\ site \in [Sites -> SiteRow]
    /\ cluster \in [Clusters -> ClusterRow]
    /\ plan \in [Plans -> PlanRow]
    /\ \A x \in reservations : x \in Reservation
    /\ jobs \in [Plans -> [Clusters -> Nat]]
    /\ \A event \in audits : event \in Events
    /\ \A q \in submitting : q \in Submission
    /\ \A q \in approving : q \in Approval
    /\ \A q \in dispatching : q \in Dispatching
    /\ \A q \in changing : q \in Change
    /\ \A q \in auditing : q \in AuditDue

PlansInStep ==
    \A p \in Plans :
        /\ plan[p].version = CASE plan[p].status = "none"      -> 0
                               [] plan[p].status = "draft"     -> 1
                               [] plan[p].status = "submitted" -> 2
                               [] plan[p].status = "approved"  -> 3
                               [] OTHER                        -> 4
        /\ plan[p].approvedBy = NoUser <=> plan[p].version < 3
        /\ plan[p].version > 0 =>
              plan[p].site \in Sites /\ plan[p].kw > 0 /\ plan[p].createdBy \in Users

SubmissionsInStep ==
    \A q \in submitting : q.version = 1 /\ plan[q.plan].version >= 1 /\ q.selected # {}

ApprovalsInStep ==
    \A q \in approving :
        q.version = 2 /\ plan[q.plan].version >= 2 /\ q.user # plan[q.plan].createdBy

DispatchesInStep ==
    \A q \in dispatching :
        /\ q.version = 3 /\ q.expected >= 3 /\ plan[q.plan].version >= 3
        /\ q.targets \in {{}, Reserved(q.plan)}

ChangesInStep ==
    \A q \in changing :
        /\ q.version <= site[q.site].version
        /\ q.version = site[q.site].version =>
              /\ q.reserved = site[q.site].reserved
              /\ q.next \in Allowed(site[q.site].status)
              /\ q.next = "retired" => site[q.site].reserved = 0

\* A plan's version tells its state, and what a request in flight has read was
\* true of the row at the version it holds: a site that still has that version
\* still has the power and the state the request has judged (the version columns).
RequestsInStep ==
    PlansInStep /\ SubmissionsInStep /\ ApprovalsInStep /\ DispatchesInStep /\ ChangesInStep

\* A site's reserved power is exactly what its submitted plans asked for, and
\* what the reservations on its clusters add up to, within the grid limit: no
\* race of submissions and site transitions loses or counts power twice
\* (SubmitPlanAtomic adds to a row that UpdateSite rewrites whole).
CapacityAccounted ==
    \A s \in Sites :
        /\ site[s].reserved =
               SumFunction([p \in {p \in Plans : Reserving(p) /\ plan[p].site = s} |-> plan[p].kw])
        /\ site[s].reserved =
               SumFunction([x \in {x \in reservations : Home[x.cluster] = s} |-> x.kw])
        /\ site[s].reserved <= GridLimit[s]

\* A retired site has nothing reserved, though retiring looks at reserved_kw
\* before its commit and a submission may commit in between (Site.Transition).
RetiredSiteIdle ==
    \A s \in Sites : site[s].status = "retired" =>
        \A p \in Plans : plan[p].site = s => ~Reserving(p)

\* A cluster is held exactly while a plan has reserved it, and never by two plans:
\* the comparison of windows as texts misses some overlaps, but the versions and
\* states that SubmitPlanAtomic asks for do not let a second plan through.
ClusterHeldOnce ==
    \A c \in Clusters :
        /\ cluster[c].status = "reserved" <=> \E x \in reservations : x.cluster = c
        /\ \A x, y \in reservations : x.cluster = c /\ y.cluster = c => x = y

\* The reservations of a plan that has been submitted are on its own site, for its
\* own window, and cover its power exactly; a plan that has not has none, even if
\* a submission was refused halfway (SubmitPlanAtomic is all or nothing).
ReservationsCoverPlan ==
    \A p \in Plans :
        LET own == {x \in reservations : x.plan = p}
        IN  /\ own # {} <=> Reserving(p)
            /\ \A x \in own : /\ Home[x.cluster] = plan[p].site /\ x.window = plan[p].window
                              /\ x.kw \in 1..Rated[x.cluster]
            /\ Reserving(p) => SumFunction([x \in own |-> x.kw]) = plan[p].kw

\* A dispatched plan has exactly one job for each of its reservations, any other
\* plan has none, however often the dispatch is repeated and with whatever
\* expected version (DispatchPlanAtomic, the unique keys of execution_jobs).
OneJobPerReservation ==
    \A p \in Plans, c \in Clusters :
        jobs[p][c] = IF plan[p].status = "dispatched" /\ c \in Reserved(p) THEN 1 ELSE 0

\* The book that the rows keep.
DoorsOf ==
    [s \in Sites |-> CASE site[s].status = "active"  -> "open"
                       [] site[s].status = "retired" -> "gone"
                       [] OTHER                      -> "closed"]
AskOf(row) ==
    [site |-> row.site, kw |-> row.kw, window |-> row.window, by |-> row.createdBy]
AsksOf == [p \in Plans |-> AskOf(plan[p])]
ApproverOf == [p \in Plans |-> plan[p].approvedBy]

Book == INSTANCE PlanBook WITH
    Nothing <- AskOf(NoPlan), doors <- DoorsOf, asks <- AsksOf, bookings <- reservations,
    approver <- ApproverOf, commands <- jobs

\* The versions, states and conditions of the commits keep the book: whatever was
\* read, and whatever has committed since, each commit does in one step what would
\* be right in the state it meets (SubmitPlanAtomic, UpdateSite, UpdatePlan and
\* DispatchPlanAtomic beside each other).
KeepsBook == Book!Spec

\* A plan only goes on to the next state, one version at a time; what it asks for
\* and who created it never change, and the approver, once set, is for good: a
\* late commit of one approver undoes neither another's approval nor a dispatch.
PlanOnlyAdvances ==
    [][\A p \in Plans : plan'[p] # plan[p] =>
          /\ <<plan[p].status, plan'[p].status>> \in
                {<<"none", "draft">>, <<"draft", "submitted">>, <<"submitted", "approved">>,
                 <<"approved", "dispatched">>}
          /\ plan'[p].version = plan[p].version + 1
          /\ plan[p].status # "none" =>
                /\ plan'[p].kw = plan[p].kw /\ plan'[p].window = plan[p].window
                /\ plan'[p].createdBy = plan[p].createdBy
          /\ plan[p].approvedBy # NoUser => plan'[p].approvedBy = plan[p].approvedBy]_vars

\* Nobody is recorded as the approver of a plan of his own, and nothing is
\* dispatched that no second person approved (Plan.Approve, four_eyes_required).
FourEyes ==
    \A p \in Plans : plan[p].status \in {"approved", "dispatched"} =>
        plan[p].approvedBy \in Users \ {plan[p].createdBy}

\* Submissions and dispatches are in the audit log exactly if they happened, and
\* no other step is in the log unless it happened (the audit event is part of
\* SubmitPlanAtomic and DispatchPlanAtomic).
AuditTrail ==
    \A p \in Plans :
        /\ Event("submit", p) \in audits <=> Reserving(p)
        /\ Event("dispatch", p) \in audits <=> plan[p].status = "dispatched"
        /\ Event("approve", p) \in audits => plan[p].status \in {"approved", "dispatched"}
        /\ Event("create", p) \in audits => plan[p].status # "none"

\* A cluster that a submission reserves may do what the plan wants of it at that
\* moment ("cluster cannot charge above maximum SOC", Cluster.Eligible).
EligibleWhenReserved ==
    [][\A c \in Clusters, p \in Plans :
          cluster[c].status = "available" /\ cluster'[c].status = "reserved"
          /\ plan[p].status = "draft" /\ plan'[p].status = "submitted"
            => Eligible(c, plan[p].direction)]_vars
=============================================================================
