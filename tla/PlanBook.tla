------------------------------- MODULE PlanBook -------------------------------
(***************************************************************************)
(* What the dispatch plans promise to the people at a site: one book, kept *)
(* one entry at a time.  A plan books all it asks for in one step, from    *)
(* what is free at that moment, is approved by a second person, and is     *)
(* commanded once.  A site takes bookings while it is open and goes when   *)
(* it has none.  There are no requests, versions, counters of reserved     *)
(* power, states of clusters or comparisons of windows here.               *)
(***************************************************************************)
EXTENDS Integers, FiniteSets, Functions

CONSTANTS Sites, Clusters, Plans, Users, Inputs, NoUser, Nothing, Home, Rated, GridLimit

VARIABLES
    doors,      \* of each site: "open", "closed" or "gone"
    asks,       \* what a plan asks for, and who asks
    bookings,   \* power of a cluster that a plan has booked
    approver,   \* of each plan, if anybody
    commands    \* how many commands a plan has sent to a cluster

book == <<doors, asks, bookings, approver, commands>>

Init ==
    /\ doors = [s \in Sites |-> "closed"]
    /\ asks = [p \in Plans |-> Nothing]
    /\ bookings = {}
    /\ approver = [p \in Plans |-> NoUser]
    /\ commands = [p \in Plans |-> [c \in Clusters |-> 0]]

BookedBy(p) == {b.cluster : b \in {x \in bookings : x.plan = p}}
Unbooked(s) == {c \in Clusters : Home[c] = s /\ \A b \in bookings : b.cluster # c}
At(s) == {b \in bookings : Home[b.cluster] = s}
Power(B) == SumFunction([b \in B |-> b.kw])

Ask(p, input, user) ==
    /\ asks[p] = Nothing
    /\ asks' = [asks EXCEPT ![p] = [site |-> input.site, kw |-> input.kw,
                                    window |-> input.window, by |-> user]]
    /\ UNCHANGED <<doors, bookings, approver, commands>>

\* Bookings that plan p may make: one for a cluster, within its rating.
Offers(p) ==
    UNION {[plan : {p}, cluster : {c}, kw : 1..Rated[c], window : {asks[p].window}] :
               c \in Unbooked(asks[p].site)}

Book(p) ==
    /\ asks[p] # Nothing /\ BookedBy(p) = {} /\ doors[asks[p].site] = "open"
    /\ Power(At(asks[p].site)) + asks[p].kw <= GridLimit[asks[p].site]
    /\ \E B \in SUBSET Offers(p) :
           /\ bookings' = bookings \cup B
           /\ \A b, d \in B : b.cluster = d.cluster => b = d
           /\ Power(B) = asks[p].kw
    /\ UNCHANGED <<doors, asks, approver, commands>>

Approve(p, user) ==
    /\ BookedBy(p) # {} /\ approver[p] = NoUser /\ user # asks[p].by
    /\ approver' = [approver EXCEPT ![p] = user]
    /\ UNCHANGED <<doors, asks, bookings, commands>>

Command(p) ==
    /\ approver[p] # NoUser /\ \A c \in Clusters : commands[p][c] = 0
    /\ commands' = [commands EXCEPT ![p] =
           [c \in Clusters |-> IF c \in BookedBy(p) THEN 1 ELSE 0]]
    /\ UNCHANGED <<doors, asks, bookings, approver>>

Turn(s, next) ==
    /\ doors[s] # "gone"
    /\ next = "gone" => At(s) = {}
    /\ doors' = [doors EXCEPT ![s] = next]
    /\ UNCHANGED <<asks, bookings, approver, commands>>

Next ==
    \/ \E p \in Plans :
        \/ \E input \in Inputs, user \in Users : Ask(p, input, user)
        \/ Book(p)
        \/ \E user \in Users : Approve(p, user)
        \/ Command(p)
    \/ \E s \in Sites, next \in {"open", "closed", "gone"} : Turn(s, next)

Spec == Init /\ [][Next]_book
===============================================================================
