--------------------------- MODULE PowerAllocation ---------------------------
(***************************************************************************)
(* dispatch.AllocatePower: a plan's power is shared out over the selected  *)
(* clusters in proportion to their ratings, in whole kilowatts.            *)
(*                                                                         *)
(* Go walks the map of ratings in a random order.  Clusters are numbered   *)
(* here in the order of that walk; every order of every set of ratings is  *)
(* a function from 1..N.  The products stay far below 2^63: CreatePlan     *)
(* bounds the request by 10^7 and CreateCluster a rating by 2 * 10^6.      *)
(***************************************************************************)
EXTENDS Integers

CONSTANTS
    N,            \* selected clusters
    MaxRating     \* bound: highest rating

ASSUME SizeAssumption == N \in Nat \ {0} /\ MaxRating \in Nat \ {0}

VARIABLES
    total,            \* the requested power
    rating,           \* the clusters' ratings, in the order of the walk
    upcoming,         \* upcoming[k]: the ratings of clusters k..N together
    next,             \* the cluster whose turn it is, N + 1 after the last
    result,           \* the shares given so far
    remaining,        \* power not yet given
    remainingRating   \* ratings of the clusters not yet visited

vars == <<total, rating, upcoming, next, result, remaining, remainingRating>>

\* Running totals of r from its end.
Totals(r) ==
    {t \in [1..(N + 1) -> 0..(N * MaxRating)] :
        t[N + 1] = 0 /\ \A k \in 1..N : t[k] = r[k] + t[k + 1]}

\* A request above the ratings' total is refused before the loop.
Init ==
    /\ rating \in [1..N -> 1..MaxRating]
    /\ upcoming \in Totals(rating)
    /\ total \in 1..upcoming[1]
    /\ next = 1
    /\ result = [k \in 1..N |-> 0]
    /\ remaining = total
    /\ remainingRating = upcoming[1]

\* Slip: rounded up, so that those who come first take from those who come last.
ShareRoundedUp(m, r, all) == (m * r + all - 1) \div all

\* The share of a cluster rated r out of m kW for ratings worth all: rounded
\* down, at least one while there is power left, at most the rating.
Share(m, r, all) ==
    LET proportional == (m * r) \div all
        atLeast == IF proportional = 0 /\ m > 0 THEN 1 ELSE proportional
    IN  IF atLeast > r THEN r ELSE atLeast

\* Slip: the ratings already served still count.
VisitKeepRating ==
    /\ next <= N
    /\ LET share == Share(remaining, rating[next], remainingRating)
       IN  /\ result' = [result EXCEPT ![next] = share]
           /\ remaining' = remaining - share
    /\ next' = next + 1
    /\ UNCHANGED <<total, rating, upcoming, remainingRating>>

\* One turn of the loop.
Visit ==
    /\ next <= N
    /\ LET share == Share(remaining, rating[next], remainingRating)
       IN  /\ result' = [result EXCEPT ![next] = share]
           /\ remaining' = remaining - share
    /\ remainingRating' = remainingRating - rating[next]
    /\ next' = next + 1
    /\ UNCHANGED <<total, rating, upcoming>>

Next == Visit

Spec == Init /\ [][Next]_vars

Served == next = N + 1

------------------------------------------------------------------------------

\* The clusters still to come can always take what remains, and no cluster has
\* been given more than its rating; the division never meets a zero.
Coverable ==
    /\ 0 <= remaining /\ remaining <= remainingRating
    /\ next <= N => remainingRating > 0
    /\ \A k \in 1..N : result[k] \in 0..rating[k]

\* When the loop ends everything is placed: AllocatePower's second loop, which
\* would place a rest, never runs, and power_allocation_failed never happens.
NothingLeftOver == Served => remaining = 0

\* What the first k clusters of the walk have been given together.
Placed[k \in 0..N] == IF k = 0 THEN 0 ELSE Placed[k - 1] + result[k]

\* The shares add up to the request exactly and are within the ratings: the
\* contract that DispatchPlans takes for granted in Allocations, which
\* TestAllocatePowerPreservesTotalAndRatings tries for one request.
SharesAddUp == Served => Placed[N] = total /\ \A k \in 1..N : result[k] \in 0..rating[k]

\* A cluster's proportion of the request, rounded down.
Proportion(k) == (total * rating[k]) \div upcoming[1]

\* If each cluster's proportion is a kilowatt at least, each is given its proportion
\* or more, wherever it stands in the walk: the roundings of those before it do not
\* add up to a loss, and NewReservation, which refuses an empty share, refuses none
\* of them in any order of the map.  (With smaller proportions the order decides
\* who goes away empty.)
ProportionsKept ==
    (\A k \in 1..N : Proportion(k) > 0) => \A k \in 1..(next - 1) : result[k] >= Proportion(k)
=============================================================================
