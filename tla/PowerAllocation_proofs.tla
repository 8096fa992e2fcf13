----------------------- MODULE PowerAllocation_proofs -----------------------
(***************************************************************************)
(* Proofs about PowerAllocation, for every number of clusters, all ratings *)
(* and every request.  The heart is ShareBounds: rounding down never       *)
(* leaves the clusters still to come more than they can take.  That the    *)
(* shares add up is an invariant of the running totals: those of the       *)
(* clusters served are the request less what remains.  That nobody is      *)
(* given less than the proportion rests on a walk that never falls behind: *)
(* what remains is to the ratings to come at least as the request is to    *)
(* all ratings (InProportion).                                             *)
(***************************************************************************)
EXTENDS PowerAllocation, WellFoundedInduction, TLAPS

\* q kW short of m - (all - r) would make the rounding drop a whole unit.
LEMMA FloorLeavesRoom ==
    ASSUME NEW m \in Nat, NEW r \in Nat \ {0}, NEW all \in Nat \ {0}, NEW q \in Int,
           m <= all, r <= all, q * all <= m * r, m * r < (q + 1) * all
    PROVE  q >= 0 /\ q <= r /\ q <= m /\ m - q <= all - r
<1>1. m * r <= all * r /\ m * r <= m * all /\ 0 <= m * r
  OBVIOUS
<1>2. (all - m) * (all - r) >= 0
  OBVIOUS
<1>3. (all - m) * (all - r) = all * all - all * r - m * all + m * r
  OBVIOUS
<1>4. q >= 0
  <2>1. SUFFICES ASSUME q + 1 <= 0 PROVE FALSE
    OBVIOUS
  <2>2. (q + 1) * all <= 0
    BY <2>1
  <2> QED BY <1>1, <2>2
<1>5. q <= r
  <2>1. SUFFICES ASSUME r + 1 <= q PROVE FALSE
    OBVIOUS
  <2>2. (r + 1) * all <= q * all
    BY <2>1
  <2>3. (r + 1) * all = all * r + all
    OBVIOUS
  <2> QED BY <1>1, <2>2, <2>3
<1>6. q <= m
  <2>1. SUFFICES ASSUME m + 1 <= q PROVE FALSE
    OBVIOUS
  <2>2. (m + 1) * all <= q * all
    BY <2>1
  <2>3. (m + 1) * all = m * all + all
    OBVIOUS
  <2> QED BY <1>1, <2>2, <2>3
<1>7. m - q <= all - r
  <2>1. SUFFICES ASSUME q + 1 <= m + r - all PROVE FALSE
    OBVIOUS
  <2>2. (q + 1) * all <= (m + r - all) * all
    BY <2>1
  <2>3. (m + r - all) * all = m * all + all * r - all * all
    OBVIOUS
  <2> QED BY <1>2, <1>3, <2>2, <2>3
<1> QED BY <1>4, <1>5, <1>6, <1>7

\* What is left after a share is neither negative nor more than the other
\* clusters can take, and a share is within the rating (Share).
LEMMA ShareBounds ==
    ASSUME NEW m \in Nat, NEW r \in Nat \ {0}, NEW all \in Nat, m <= all, r <= all
    PROVE  /\ Share(m, r, all) \in 0..r
           /\ m - Share(m, r, all) \in 0..(all - r)
<1> DEFINE q == (m * r) \div all
<1>1. all \in Nat \ {0}
  OBVIOUS
<1>2. m * r \in Nat
  OBVIOUS
<1>3. q \in Int /\ q * all <= m * r /\ m * r < (q + 1) * all
  BY <1>1, <1>2
<1>4. q >= 0 /\ q <= r /\ q <= m /\ m - q <= all - r
  BY <1>1, <1>3, FloorLeavesRoom
<1> HIDE DEF q
<1>5. Share(m, r, all) = IF q = 0 /\ m > 0 THEN 1 ELSE q
  <2>1. (IF q = 0 /\ m > 0 THEN 1 ELSE q) <= r
    BY <1>3, <1>4
  <2> QED BY <1>3, <2>1 DEF Share, q
<1> QED BY <1>3, <1>4, <1>5

-----------------------------------------------------------------------------
(* What the shares add up to *)

\* Induction up to n, over the set of the numbers for which a claim holds.
LEMMA InductionTo ==
    ASSUME NEW n \in Nat, NEW G, 0 \in G, \A k \in 0..(n - 1) : k \in G => k + 1 \in G
    PROVE  \A k \in 0..n : k \in G
<1> DEFINE Bad == {k \in 0..n : k \notin G}
<1>1. SUFFICES ASSUME Bad # {} PROVE FALSE
  OBVIOUS
<1>2. Bad \subseteq Nat
  OBVIOUS
<1>3. PICK k \in Bad : \A l \in Bad : <<l, k>> \notin OpToRel(<, Nat)
  BY <1>1, <1>2, NatLessThanWellFounded, WFMin
<1>4. k \in 1..n /\ k - 1 \in Nat /\ k - 1 < k
  OBVIOUS
<1>5. <<k - 1, k>> \in OpToRel(<, Nat)
  BY <1>2, <1>4 DEF OpToRel
<1>6. k - 1 \notin Bad
  BY <1>3, <1>5
<1>7. k - 1 \in G
  BY <1>4, <1>6
<1> QED BY <1>4, <1>7

\* The running total of r, if g is one.
RunningTotal(g, r, n) == g = [k \in 0..n |-> IF k = 0 THEN 0 ELSE g[k - 1] + r[k]]

\* Every r has a running total: one for the first k clusters is continued by one more.
LEMMA RunningTotalExists ==
    ASSUME NEW n \in Nat, NEW r
    PROVE  \E g : RunningTotal(g, r, n)
<1> DEFINE G == {k \in 0..n : \E g : RunningTotal(g, r, k)}
<1>1. 0 \in G
  <2>1. RunningTotal([k \in 0..0 |-> 0], r, 0)
    BY DEF RunningTotal
  <2> QED BY <2>1
<1>2. ASSUME NEW k \in 0..(n - 1), k \in G PROVE k + 1 \in G
  <2>1. PICK g : RunningTotal(g, r, k)
    BY <1>2
  <2> DEFINE h == [i \in 0..(k + 1) |-> IF i = k + 1 THEN g[k] + r[k + 1] ELSE g[i]]
  <2>2. ASSUME NEW i \in 0..(k + 1)
        PROVE  h[i] = IF i = 0 THEN 0 ELSE h[i - 1] + r[i]
    <3>1. CASE i = k + 1
      BY <3>1
    <3>2. CASE i # k + 1
      <4>1. i \in 0..k
        BY <3>2
      <4>2. g[i] = IF i = 0 THEN 0 ELSE g[i - 1] + r[i]
        BY <2>1, <4>1 DEF RunningTotal
      <4>3. h[i] = g[i] /\ (i # 0 => h[i - 1] = g[i - 1])
        BY <4>1
      <4> QED BY <4>2, <4>3
    <3> QED BY <3>1, <3>2
  <2>3. RunningTotal(h, r, k + 1)
    <3>1. h = [i \in 0..(k + 1) |-> h[i]]
      OBVIOUS
    <3> HIDE DEF h
    <3> QED BY <2>2, <3>1 DEF RunningTotal
  <2> QED BY <2>3
<1> HIDE DEF G
<1>3. n \in G
  BY <1>1, <1>2, InductionTo
<1> QED BY <1>3 DEF G

\* Placed satisfies the equation it is defined by.
LEMMA PlacedIs == RunningTotal(Placed, result, N) /\ RunningTotal(Placed', result', N)
<1>1. \A r : \E g : RunningTotal(g, r, N)
  BY RunningTotalExists, SizeAssumption
<1>2. RunningTotal(Placed, result, N)
  BY <1>1 DEF Placed, RunningTotal
<1>3. RunningTotal(Placed', result', N)
  BY <1>1 DEF Placed, RunningTotal
<1> QED BY <1>2, <1>3

\* A running total, one cluster at a time.
LEMMA RunningTotalSteps ==
    ASSUME NEW n \in Nat, NEW r, NEW g, RunningTotal(g, r, n)
    PROVE  g[0] = 0 /\ \A i \in 0..(n - 1) : g[i + 1] = g[i] + r[i + 1]
<1>1. \A i \in 0..n : g[i] = IF i = 0 THEN 0 ELSE g[i - 1] + r[i]
  BY DEF RunningTotal
<1>2. \A i \in 0..(n - 1) : i + 1 \in 0..n /\ i + 1 # 0 /\ (i + 1) - 1 = i
  OBVIOUS
<1> QED BY <1>1, <1>2

\* What has been placed before and after the k-th share has been raised by v.
LEMMA ShareRaised ==
    ASSUME NEW k \in 1..N, NEW v \in Int,
           \A i \in 1..N :
              result[i] \in Int /\ result'[i] = IF i = k THEN result[i] + v ELSE result[i]
    PROVE  Placed[N] \in Int /\ Placed'[N] = Placed[N] + v
<1> DEFINE G == {i \in 0..N : /\ Placed[i] \in Int
                              /\ Placed'[i] = IF i < k THEN Placed[i] ELSE Placed[i] + v}
<1>1. Placed[0] = 0 /\ \A i \in 0..(N - 1) : Placed[i + 1] = Placed[i] + result[i + 1]
  BY PlacedIs, RunningTotalSteps, SizeAssumption
<1>2. Placed'[0] = 0 /\ \A i \in 0..(N - 1) : Placed'[i + 1] = Placed'[i] + result'[i + 1]
  BY PlacedIs, RunningTotalSteps, SizeAssumption
<1>3. N \in Nat /\ 0 \in G
  BY <1>1, <1>2, SizeAssumption
<1>4. ASSUME NEW i \in 0..(N - 1), i \in G PROVE i + 1 \in G
  <2>1. i + 1 \in 1..N
    BY <1>3
  <2>2. /\ result[i + 1] \in Int
        /\ result'[i + 1] = IF i + 1 = k THEN result[i + 1] + v ELSE result[i + 1]
    BY <2>1
  <2> QED BY <1>1, <1>2, <1>4, <2>1, <2>2
<1>5. N \in G
  <2> HIDE DEF G
  <2>1. \A i \in 0..N : i \in G
    BY <1>3, <1>4, InductionTo
  <2> QED BY <1>3, <2>1
<1> QED BY <1>5

\* Nothing has been given at the start.
LEMMA NothingPlaced ==
    ASSUME NEW n \in Nat, NEW r, NEW g, RunningTotal(g, r, n), \A i \in 1..n : r[i] = 0
    PROVE  g[n] = 0
<1> DEFINE G == {i \in 0..n : g[i] = 0}
<1>1. g[0] = 0 /\ \A i \in 0..(n - 1) : g[i + 1] = g[i] + r[i + 1]
  BY RunningTotalSteps
<1>2. 0 \in G
  BY <1>1
<1>3. ASSUME NEW i \in 0..(n - 1), i \in G PROVE i + 1 \in G
  BY <1>1, <1>3
<1> HIDE DEF G
<1>4. n \in G
  BY <1>2, <1>3, InductionTo
<1> QED BY <1>4 DEF G

\* The state of the walk: remainingRating is the total still to come.
Walk ==
    /\ rating \in [1..N -> Nat \ {0}]
    /\ upcoming \in [1..(N + 1) -> Nat]
    /\ upcoming[N + 1] = 0 /\ \A k \in 1..N : upcoming[k] = rating[k] + upcoming[k + 1]
    /\ next \in 1..(N + 1)
    /\ result \in [1..N -> Nat]
    /\ remaining \in Nat
    /\ remainingRating = upcoming[next]

IInv == Walk /\ Coverable

LEMMA InitWalk == Init => IInv
<1> SUFFICES ASSUME Init PROVE IInv
  OBVIOUS
<1>1. rating \in [1..N -> Nat \ {0}]
  BY SizeAssumption DEF Init
<1>2. /\ upcoming \in [1..(N + 1) -> Nat]
      /\ upcoming[N + 1] = 0 /\ \A k \in 1..N : upcoming[k] = rating[k] + upcoming[k + 1]
  <2>1. N * MaxRating \in Nat
    BY SizeAssumption
  <2> QED BY <2>1 DEF Init, Totals
<1>3. upcoming[1] \in Nat
  BY <1>2, SizeAssumption
<1>4. remaining \in Nat /\ 0 < remaining /\ remaining <= remainingRating
  BY <1>3 DEF Init
<1>5. next \in 1..(N + 1) /\ remainingRating = upcoming[next] /\ result \in [1..N -> Nat]
  BY SizeAssumption DEF Init
<1>6. \A k \in 1..N : result[k] \in 0..rating[k]
  BY <1>1 DEF Init
<1> QED BY <1>1, <1>2, <1>3, <1>4, <1>5, <1>6 DEF IInv, Walk, Coverable, Init

LEMMA StepWalk == IInv /\ [Next]_vars => IInv'
<1> SUFFICES ASSUME IInv, [Next]_vars PROVE IInv'
  OBVIOUS
<1>1. CASE Visit
  <2> DEFINE r == rating[next]
             share == Share(remaining, r, remainingRating)
  <2>1. next \in 1..N /\ next + 1 \in 1..(N + 1)
    BY <1>1, SizeAssumption DEF Visit, IInv, Walk
  <2>2. r \in Nat \ {0} /\ remaining \in Nat /\ upcoming[next + 1] \in Nat
        /\ remainingRating = r + upcoming[next + 1]
    BY <2>1 DEF IInv, Walk
  <2>3. remaining <= remainingRating
    BY DEF IInv, Coverable
  <2>4. share \in 0..r /\ remaining - share \in 0..(remainingRating - r)
    <3>1. r <= remainingRating /\ remainingRating \in Nat
      BY <2>2
    <3> HIDE DEF r
    <3> QED BY <2>2, <2>3, <3>1, ShareBounds
  <2>5. /\ result' = [result EXCEPT ![next] = share] /\ remaining' = remaining - share
        /\ remainingRating' = remainingRating - r /\ next' = next + 1
        /\ UNCHANGED <<total, rating, upcoming>>
    BY <1>1 DEF Visit
  <2> HIDE DEF share, r
  <2>6. remainingRating' = upcoming'[next']
    BY <2>2, <2>5
  <2>7. result' \in [1..N -> Nat]
    BY <2>1, <2>2, <2>4, <2>5 DEF IInv, Walk
  <2>8. \A k \in 1..N : result'[k] \in 0..rating'[k]
    BY <2>1, <2>4, <2>5 DEF IInv, Walk, Coverable, r
  <2>9. next' <= N => remainingRating' > 0
    <3>1. SUFFICES ASSUME next + 1 \in 1..N PROVE upcoming[next + 1] > 0
      BY <2>1, <2>2, <2>5, <2>6, SizeAssumption
    <3>2. upcoming[next + 1] = rating[next + 1] + upcoming[(next + 1) + 1]
          /\ rating[next + 1] \in Nat \ {0}
      BY <3>1 DEF IInv, Walk
    <3>3. (next + 1) + 1 \in 1..(N + 1)
      BY <3>1, SizeAssumption
    <3>4. upcoming[(next + 1) + 1] \in Nat
      BY <3>3 DEF IInv, Walk
    <3> QED BY <3>2, <3>4
  <2>10. remaining' \in Nat /\ remaining' <= remainingRating'
    BY <2>2, <2>4, <2>5
  <2>11. Walk'
    BY <2>1, <2>5, <2>6, <2>7, <2>10 DEF IInv, Walk
  <2>12. Coverable'
    BY <2>8, <2>9, <2>10 DEF Coverable
  <2> QED BY <2>11, <2>12 DEF IInv
<1>2. CASE UNCHANGED vars
  BY <1>2 DEF IInv, Walk, Coverable, vars
<1> QED BY <1>1, <1>2 DEF Next

LEMMA WalkInvariant == Spec => []IInv
BY InitWalk, StepWalk, PTL DEF Spec

\* The clusters to come can always take the rest (Coverable).
THEOREM AlwaysCoverable == Spec => []Coverable
<1>1. IInv => Coverable
  BY DEF IInv
<1> QED BY <1>1, WalkInvariant, PTL

\* The second loop of AllocatePower is never entered (NothingLeftOver).
THEOREM AllPlaced == Spec => []NothingLeftOver
<1>1. IInv => NothingLeftOver
  <2> SUFFICES ASSUME IInv, Served PROVE remaining = 0
    BY DEF NothingLeftOver
  <2>1. remainingRating = 0
    BY DEF IInv, Walk, Served
  <2> QED BY <2>1 DEF IInv, Walk, Coverable
<1> QED BY <1>1, WalkInvariant, PTL

\* What has been given and what remains make up the request, and a cluster whose
\* turn has not come has nothing yet.
Accounted ==
    /\ Placed[N] \in Int /\ Placed[N] + remaining = total
    /\ \A k \in next..N : result[k] = 0

LEMMA InitAccounted == Init => Accounted
<1> SUFFICES ASSUME Init PROVE Accounted
  OBVIOUS
<1>1. Placed[N] = 0
  BY PlacedIs, NothingPlaced, SizeAssumption DEF Init
<1>2. total \in Int
  BY SizeAssumption DEF Init, Totals
<1> QED BY <1>1, <1>2, SizeAssumption DEF Init, Accounted

LEMMA StepAccounted == IInv /\ Accounted /\ [Next]_vars => Accounted'
<1> SUFFICES ASSUME IInv, Accounted, [Next]_vars PROVE Accounted'
  OBVIOUS
<1>1. CASE Visit
  <2> DEFINE share == Share(remaining, rating[next], remainingRating)
  <2>1. next \in 1..N /\ result[next] = 0
    BY <1>1, SizeAssumption DEF Visit, IInv, Walk, Accounted
  <2>2. /\ result' = [result EXCEPT ![next] = share] /\ remaining' = remaining - share
        /\ next' = next + 1 /\ total' = total
    BY <1>1 DEF Visit
  <2>3. result \in [1..N -> Nat] /\ result' \in [1..N -> Nat] /\ remaining \in Nat
    BY <1>1, StepWalk DEF IInv, Walk, Next
  <2>4. share \in Int
    <3>1. result'[next] = share
      BY <2>1, <2>2, <2>3
    <3> QED BY <2>1, <2>3, <3>1
  <2> HIDE DEF share
  <2>5. \A k \in 1..N :
           result[k] \in Int /\ result'[k] = IF k = next THEN result[k] + share ELSE result[k]
    BY <2>1, <2>2, <2>3, <2>4
  <2>6. Placed[N] \in Int /\ Placed'[N] = Placed[N] + share
    BY <2>1, <2>4, <2>5, ShareRaised
  <2>7. Placed'[N] \in Int /\ Placed'[N] + remaining' = total'
    BY <2>2, <2>3, <2>4, <2>6 DEF Accounted
  <2>8. \A k \in next'..N : result'[k] = 0
    BY <2>1, <2>2, <2>3 DEF Accounted
  <2> QED BY <2>7, <2>8 DEF Accounted
<1>2. CASE UNCHANGED vars
  BY <1>2 DEF vars, Accounted, Placed
<1> QED BY <1>1, <1>2 DEF Next

\* The shares add up to the request and are within the ratings (SharesAddUp):
\* AllocatePower loses no kilowatt to rounding, whatever the order of the walk.
THEOREM SharesTotal == Spec => []SharesAddUp
<1>1. IInv /\ Accounted => SharesAddUp
  <2> SUFFICES ASSUME IInv, Accounted, Served
               PROVE  Placed[N] = total /\ \A k \in 1..N : result[k] \in 0..rating[k]
    BY DEF SharesAddUp
  <2>1. remaining = 0
    <3>1. remainingRating = 0
      BY DEF IInv, Walk, Served
    <3> QED BY <3>1 DEF IInv, Walk, Coverable
  <2>2. \A k \in 1..N : result[k] \in 0..rating[k]
    BY DEF IInv, Coverable
  <2> QED BY <2>1, <2>2 DEF Accounted
<1> QED BY <1>1, InitAccounted, StepAccounted, WalkInvariant, PTL DEF Spec

-----------------------------------------------------------------------------
(* Nobody falls below the proportion *)

\* Where x * c is no more than y * c, x is no more than y.
LEMMA Cancel ==
    ASSUME NEW x \in Int, NEW y \in Int, NEW c \in Nat \ {0}, x * c <= y * c
    PROVE  x <= y
<1>1. SUFFICES ASSUME y + 1 <= x PROVE FALSE
  OBVIOUS
<1>2. (y + 1) * c <= x * c
  BY <1>1
<1>3. (y + 1) * c = y * c + c
  OBVIOUS
<1> QED BY <1>2, <1>3

\* As long as what remains is to the ratings to come at least as the request t is to
\* all ratings a, a cluster rated r gets its proportion, and the same is true after.
LEMMA FairShare ==
    ASSUME NEW t \in Nat \ {0}, NEW a \in Nat \ {0}, NEW m \in Nat, NEW all \in Nat \ {0},
           NEW r \in Nat \ {0}, r <= all, m <= all, m * a >= t * all, (t * r) \div a > 0
    PROVE  /\ Share(m, r, all) >= (t * r) \div a
           /\ (m - Share(m, r, all)) * a >= t * (all - r)
<1> DEFINE q == (m * r) \div all
           p == (t * r) \div a
<1>1. /\ q \in Int /\ q * all <= m * r /\ m * r < (q + 1) * all
      /\ p \in Int /\ p * a <= t * r /\ p > 0
  OBVIOUS
<1>2. q >= 0 /\ q <= r /\ q <= m /\ m - q <= all - r
  BY <1>1, FloorLeavesRoom
<1> HIDE DEF p, q
<1>3. r * (t * all) <= r * (m * a)
  OBVIOUS
<1>4. p <= q
  <2>1. (p * a) * all <= (t * r) * all
    BY <1>1
  <2>2. (p * all) * a <= (m * r) * a
    <3>1. /\ p * all \in Int /\ (p * all) * a = (p * a) * all
          /\ (t * r) * all = r * (t * all) /\ (m * r) * a = r * (m * a)
      BY <1>1
    <3>2. /\ (p * a) * all \in Int /\ r * (t * all) \in Int /\ r * (m * a) \in Int
      BY <1>1
    <3> QED BY <1>3, <2>1, <3>1, <3>2
  <2>3. p * all \in Int /\ m * r \in Int
    BY <1>1
  <2>4. p * all <= m * r
    BY <2>2, <2>3, Cancel
  <2>5. p * all < (q + 1) * all
    BY <1>1, <2>3, <2>4
  <2> QED
    <3>1. SUFFICES ASSUME q + 1 <= p PROVE FALSE
      BY <1>1
    <3>2. (q + 1) * all <= p * all
      BY <1>1, <3>1
    <3> QED BY <1>1, <2>3, <2>5, <3>2
<1>5. Share(m, r, all) = q
  BY <1>1, <1>2, <1>4 DEF Share, q
<1>6. (m - q) * a >= t * (all - r)
  <2> DEFINE d == m * a - t * all
  <2>1. d \in Nat
    OBVIOUS
  <2>2. (q * all) * a <= (m * r) * a
    BY <1>1
  <2>3. (q * all) * a = (q * a) * all /\ (m * r) * a = r * d + (t * r) * all
    BY <1>1
  <2>4. r * d <= all * d
    BY <2>1
  <2>5. (q * a) * all <= (d + t * r) * all
    <3>1. (d + t * r) * all = all * d + (t * r) * all
      BY <2>1
    <3> HIDE DEF d
    <3>2. /\ (q * all) * a \in Int /\ (m * r) * a \in Int /\ (q * a) * all \in Int
          /\ r * d \in Int /\ all * d \in Int /\ (t * r) * all \in Int
      BY <1>1, <2>1
    <3> QED BY <2>2, <2>3, <2>4, <3>1, <3>2
  <2>6. q * a \in Int /\ d + t * r \in Int
    BY <1>1, <2>1
  <2>7. q * a <= d + t * r
    <3> HIDE DEF d
    <3> QED BY <2>5, <2>6, Cancel
  <2>8. (m - q) * a = m * a - q * a /\ t * (all - r) = t * all - t * r
    BY <1>1
  <2> QED BY <1>1, <2>7, <2>8
<1> QED BY <1>4, <1>5, <1>6 DEF p

\* The clusters to come are owed no more than their proportion of the request, as
\* long as nobody's is empty; those served have had theirs.
InProportion ==
    (\A k \in 1..N : Proportion(k) > 0) =>
        /\ remaining * upcoming[1] >= total * remainingRating
        /\ \A k \in 1..(next - 1) : result[k] >= Proportion(k)

\* The request and the ratings' total, which the walk does not change.
Requested == total \in Nat \ {0} /\ upcoming[1] \in Nat \ {0}

LEMMA InitProportion == Init => Requested /\ InProportion
<1> SUFFICES ASSUME Init PROVE Requested /\ InProportion
  OBVIOUS
<1>1. upcoming[1] \in Nat
  BY InitWalk, SizeAssumption DEF IInv, Walk
<1>2. Requested
  BY <1>1 DEF Init, Requested
<1>3. /\ remaining = total /\ remainingRating = upcoming[1]
      /\ \A k \in 1..(next - 1) : FALSE
  BY DEF Init
<1>4. remaining * upcoming[1] >= total * remainingRating
  BY <1>2, <1>3 DEF Requested
<1> QED BY <1>2, <1>3, <1>4 DEF InProportion

LEMMA StepProportion ==
    IInv /\ Requested /\ InProportion /\ [Next]_vars => Requested' /\ InProportion'
<1> SUFFICES ASSUME IInv, Requested, InProportion, [Next]_vars
             PROVE  Requested' /\ InProportion'
  OBVIOUS
<1>1. CASE Visit
  <2> DEFINE r == rating[next]
             share == Share(remaining, r, remainingRating)
  <2>1. /\ next \in 1..N /\ next' = next + 1
        /\ result' = [result EXCEPT ![next] = share] /\ remaining' = remaining - share
        /\ remainingRating' = remainingRating - r
        /\ UNCHANGED <<total, rating, upcoming>>
    BY <1>1, SizeAssumption DEF Visit, IInv, Walk
  <2>2. /\ r \in Nat \ {0} /\ remaining \in Nat /\ remainingRating \in Nat \ {0}
        /\ r <= remainingRating /\ remaining <= remainingRating
        /\ result \in [1..N -> Nat]
    <3>1. next + 1 \in 1..(N + 1)
      BY <2>1, SizeAssumption
    <3> QED BY <2>1, <3>1 DEF IInv, Walk, Coverable
  <2>3. Requested'
    BY <2>1 DEF Requested
  <2>4. ASSUME \A k \in 1..N : Proportion(k)' > 0
        PROVE  /\ remaining' * upcoming'[1] >= total' * remainingRating'
               /\ \A k \in 1..(next' - 1) : result'[k] >= Proportion(k)'
    <3>1. \A k \in 1..N : Proportion(k)' = Proportion(k)
      BY <2>1 DEF Proportion
    <3>2. /\ remaining * upcoming[1] >= total * remainingRating
          /\ \A k \in 1..(next - 1) : result[k] >= Proportion(k)
      BY <2>4, <3>1 DEF InProportion
    <3>3. (total * r) \div upcoming[1] > 0
      BY <2>1, <2>4, <3>1 DEF Proportion
    <3>4. /\ share >= Proportion(next)
          /\ (remaining - share) * upcoming[1] >= total * (remainingRating - r)
      <4> HIDE DEF r
      <4>1. /\ share >= (total * r) \div upcoming[1]
            /\ (remaining - share) * upcoming[1] >= total * (remainingRating - r)
        BY <2>2, <3>2, <3>3, FairShare DEF Requested
      <4> QED BY <4>1 DEF Proportion, r
    <3> HIDE DEF share
    <3>5. ASSUME NEW k \in 1..(next' - 1) PROVE result'[k] >= Proportion(k)'
      <4>1. k \in 1..N /\ (k = next \/ k \in 1..(next - 1))
        BY <2>1, SizeAssumption
      <4> QED BY <2>1, <2>2, <3>1, <3>2, <3>4, <4>1
    <3> QED BY <2>1, <3>4, <3>5
  <2> QED BY <2>3, <2>4 DEF InProportion
<1>2. CASE UNCHANGED vars
  BY <1>2 DEF vars, Requested, InProportion, Proportion
<1> QED BY <1>1, <1>2 DEF Next

\* Where every proportion is a kilowatt at least, every cluster gets its own,
\* whatever the order of the walk (ProportionsKept).
THEOREM NobodyShortChanged == Spec => []ProportionsKept
<1>1. InProportion => ProportionsKept
  BY DEF InProportion, ProportionsKept
<1> QED BY <1>1, InitProportion, StepProportion, WalkInvariant, PTL DEF Spec
=============================================================================
