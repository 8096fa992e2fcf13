------------------------ MODULE DispatchPlans_proofs ------------------------
(***************************************************************************)
(* Proofs about DispatchPlans, for every number of sites, clusters, plans, *)
(* users and requests.  First comes what is needed about sums over finite  *)
(* sets, then the inductive core (types, versions, jobs) and the moves     *)
(* that rows can make, then one section for each property: retired sites,  *)
(* clusters, reservations, capacity, audit and the refinement of PlanBook. *)
(***************************************************************************)
EXTENDS DispatchPlans, FiniteSetTheorems, TLAPS

------------------------------------------------------------------------------
(* Sums over finite sets *)

\* Induction over the subsets of a finite set, over the set of those for which a
\* claim holds.
LEMMA SubsetInduction ==
    ASSUME NEW S, IsFiniteSet(S), NEW G,
           \A T \in SUBSET S : (\A U \in SUBSET T : U # T => U \in G) => T \in G
    PROVE  \A T \in SUBSET S : T \in G
<1> DEFINE Bad == {T \in SUBSET S : T \notin G}
<1>1. SUFFICES ASSUME Bad # {} PROVE FALSE
    OBVIOUS
<1>2. IsWellFoundedOn(StrictSubsetOrdering(S), SUBSET S)
    BY FS_FiniteSubsetsOfFinite, FS_StrictSubsetOrderingWellFounded
<1>3. PICK T \in Bad : \A U \in Bad : <<U, T>> \notin StrictSubsetOrdering(S)
    <2>1. Bad \subseteq SUBSET S
        OBVIOUS
    <2> HIDE DEF Bad
    <2> QED BY <1>1, <1>2, <2>1, WFMin
<1>4. ASSUME NEW U \in SUBSET T, U # T PROVE U \in G
    <2>1. <<U, T>> \in StrictSubsetOrdering(S)
        BY <1>3, <1>4 DEF StrictSubsetOrdering
    <2> QED BY <1>3, <2>1
<1> QED BY <1>3, <1>4

\* The same, one element at a time.
LEMMA ElementInduction ==
    ASSUME NEW S, IsFiniteSet(S), NEW G, {} \in G,
           \A T \in SUBSET S : T # {} /\ (\A x \in T : T \ {x} \in G) => T \in G
    PROVE  \A T \in SUBSET S : T \in G
<1>1. ASSUME NEW T \in SUBSET S, \A U \in SUBSET T : U # T => U \in G PROVE T \in G
    <2>1. \A x \in T : T \ {x} \in SUBSET T /\ T \ {x} # T
        OBVIOUS
    <2> QED BY <1>1, <2>1
<1> QED BY <1>1, SubsetInduction

\* The element that SumFunction takes out of s next.
Pick(s) == CHOOSE x \in s : TRUE

\* g gives the sum of f over each subset of S, as SumFunction computes it.
Sums(g, f, S) ==
    g = [s \in SUBSET S |-> IF s = {} THEN 0 ELSE f[Pick(s)] + g[s \ {Pick(s)}]]

LEMMA Picked == \A s : s # {} => Pick(s) \in s
BY DEF Pick

LEMMA SumsStep ==
    ASSUME NEW S, NEW f, NEW g, Sums(g, f, S), NEW s \in SUBSET S
    PROVE  g[s] = IF s = {} THEN 0 ELSE f[Pick(s)] + g[s \ {Pick(s)}]
BY DEF Sums

\* Two ways to sum agree where their sets and weights do.
LEMMA SumsAgree ==
    ASSUME NEW S, NEW T, NEW f, NEW h, NEW g, NEW k, Sums(g, f, S), Sums(k, h, T),
           NEW U, U \subseteq S, U \subseteq T, IsFiniteSet(U), \A x \in U : f[x] = h[x]
    PROVE  g[U] = k[U]
<1> DEFINE G == {V \in SUBSET U : g[V] = k[V]}
<1>1. {} \in G
    <2>1. g[{}] = 0 /\ k[{}] = 0
        BY SumsStep
    <2> QED BY <2>1
<1>2. ASSUME NEW V \in SUBSET U, V # {}, \A x \in V : V \ {x} \in G PROVE V \in G
    <2>1. Pick(V) \in V
        BY <1>2, Picked
    <2>2. g[V] = f[Pick(V)] + g[V \ {Pick(V)}]
        BY <1>2, SumsStep
    <2>3. k[V] = h[Pick(V)] + k[V \ {Pick(V)}]
        BY <1>2, SumsStep
    <2>4. f[Pick(V)] = h[Pick(V)] /\ g[V \ {Pick(V)}] = k[V \ {Pick(V)}]
        BY <1>2, <2>1
    <2> QED BY <2>2, <2>3, <2>4
<1>3. U \in G
    <2> HIDE DEF G
    <2>1. \A V \in SUBSET U : V \in G
        BY <1>1, <1>2, ElementInduction
    <2> QED BY <2>1
<1> QED BY <1>3

\* There is such a g for every finite set.
LEMMA SumsExist ==
    ASSUME NEW S, IsFiniteSet(S), NEW f
    PROVE  \E g : Sums(g, f, S)
<1> DEFINE G == {T \in SUBSET S : \E g : Sums(g, f, T)}
<1>1. ASSUME NEW T \in SUBSET S, \A U \in SUBSET T : U # T => U \in G PROVE T \in G
    <2> DEFINE Of(U) == CHOOSE g : Sums(g, f, U)
               h == [s \in SUBSET T |->
                        IF s = {} THEN 0 ELSE f[Pick(s)] + Of(s \ {Pick(s)})[s \ {Pick(s)}]]
    <2>1. \A U \in SUBSET T : U # T => Sums(Of(U), f, U)
        BY <1>1
    <2>2. ASSUME NEW U \in SUBSET T, U # T PROVE h[U] = Of(U)[U]
        <3>1. Sums(Of(U), f, U)
            BY <2>1, <2>2
        <3>2. CASE U = {}
            <4>1. Of(U)[U] = 0
                BY <3>1, <3>2, SumsStep
            <4> QED BY <3>2, <4>1
        <3>3. CASE U # {}
            <4> DEFINE V == U \ {Pick(U)}
            <4>1. Pick(U) \in U
                BY <3>3, Picked
            <4>2. V \in SUBSET T /\ V # T /\ V \subseteq U /\ IsFiniteSet(V)
                BY <4>1, FS_Subset
            <4>3. Sums(Of(V), f, V)
                BY <2>1, <4>2
            <4>4. Of(U)[U] = f[Pick(U)] + Of(U)[V]
                BY <3>1, <3>3, SumsStep
            <4>5. Of(U)[V] = Of(V)[V]
                <5> HIDE DEF V, Of
                <5> QED BY <3>1, <4>2, <4>3, SumsAgree
            <4>6. h[U] = f[Pick(U)] + Of(V)[V]
                BY <3>3
            <4> QED BY <4>4, <4>5, <4>6
        <3> QED BY <3>2, <3>3
    <2>3. ASSUME NEW s \in SUBSET T
          PROVE  h[s] = IF s = {} THEN 0 ELSE f[Pick(s)] + h[s \ {Pick(s)}]
        <3>1. CASE s = {}
            BY <3>1
        <3>2. CASE s # {}
            <4>1. s \ {Pick(s)} \in SUBSET T /\ s \ {Pick(s)} # T
                BY <3>2, Picked
            <4>2. h[s \ {Pick(s)}] = Of(s \ {Pick(s)})[s \ {Pick(s)}]
                BY <2>2, <4>1
            <4> QED BY <3>2, <4>2
        <3> QED BY <3>1, <3>2
    <2>4. Sums(h, f, T)
        <3>1. h = [s \in SUBSET T |-> h[s]]
            OBVIOUS
        <3> HIDE DEF h
        <3> QED BY <2>3, <3>1 DEF Sums
    <2> QED BY <2>4
<1>2. S \in G
    <2> HIDE DEF G
    <2> QED BY <1>1, SubsetInduction
<1> QED BY <1>2

LEMMA SumIs ==
    ASSUME NEW f, IsFiniteSet(DOMAIN f)
    PROVE  \E g : Sums(g, f, DOMAIN f) /\ SumFunction(f) = g[DOMAIN f]
<1> DEFINE g == CHOOSE g : Sums(g, f, DOMAIN f)
<1>1. SumFunction(f) = g[DOMAIN f]
    BY DEF SumFunction, SumFunctionOnSet, FoldFunctionOnSet, MapThenFoldSet, Sums, Pick
<1>2. Sums(g, f, DOMAIN f)
    BY SumsExist
<1> QED BY <1>1, <1>2

\* Sums of natural weights.
Totals(g, f, S) == Sums(g, f, S) /\ IsFiniteSet(S) /\ \A x \in S : f[x] \in Nat

\* A sum takes its elements in any order.
AnyOrder(g, f, S) ==
    /\ \A s \in SUBSET S : g[s] \in Nat
    /\ \A s \in SUBSET S : \A x \in s : g[s] = f[x] + g[s \ {x}]

LEMMA SumsRemove ==
    ASSUME NEW S, NEW f, NEW g, Totals(g, f, S)
    PROVE  AnyOrder(g, f, S)
<1> DEFINE Typed == {s \in SUBSET S : g[s] \in Nat}
           G == {s \in SUBSET S : \A x \in s : g[s] = f[x] + g[s \ {x}]}
<1>0. Sums(g, f, S) /\ IsFiniteSet(S) /\ \A x \in S : f[x] \in Nat
    BY DEF Totals
<1>1. {} \in Typed
    <2>1. g[{}] = 0
        BY <1>0, SumsStep
    <2> QED BY <2>1
<1>2. ASSUME NEW s \in SUBSET S, s # {}, \A x \in s : s \ {x} \in Typed PROVE s \in Typed
    <2>1. Pick(s) \in s
        BY <1>2, Picked
    <2>2. g[s] = f[Pick(s)] + g[s \ {Pick(s)}]
        BY <1>0, <1>2, SumsStep
    <2> QED BY <1>0, <1>2, <2>1, <2>2
<1>3. \A s \in SUBSET S : s \in Typed
    <2> HIDE DEF Typed
    <2> QED BY <1>0, <1>1, <1>2, ElementInduction
<1>4. ASSUME NEW s \in SUBSET S, s # {}, \A x \in s : s \ {x} \in G PROVE s \in G
    <2>1. SUFFICES ASSUME NEW x \in s PROVE g[s] = f[x] + g[s \ {x}]
        OBVIOUS
    <2> DEFINE y == Pick(s)
               t == s \ {y}
               u == s \ {x}
               v == (s \ {x}) \ {y}
    <2>2. y \in s /\ f[x] \in Nat /\ f[y] \in Nat
        BY <1>0, <2>1, Picked
    <2>3. g[s] = f[y] + g[t]
        BY <1>0, <2>1, SumsStep
    <2>4. CASE x = y
        BY <2>3, <2>4
    <2>5. CASE x # y
        <3>1. x \in t /\ y \in u /\ t \ {x} = v /\ u \ {y} = v
            BY <2>1, <2>2, <2>5
        <3>2. t \in G /\ u \in G
            BY <1>4, <2>2
        <3>3. g[t] = f[x] + g[v] /\ g[u] = f[y] + g[v] /\ g[v] \in Nat
            BY <1>3, <3>1, <3>2
        <3> QED BY <2>2, <2>3, <3>3
    <2> QED BY <2>4, <2>5
<1>5. \A s \in SUBSET S : s \in G
    <2>1. {} \in G
        OBVIOUS
    <2> HIDE DEF G
    <2> QED BY <1>0, <1>4, <2>1, ElementInduction
<1> QED BY <1>3, <1>5 DEF AnyOrder

\* The sums over two parts of a set.
LEMMA SumsOfParts ==
    ASSUME NEW S, NEW f, NEW g, Totals(g, f, S),
           NEW A, NEW B, A \cup B = S, A \cap B = {}
    PROVE  g[S] = g[A] + g[B]
<1> DEFINE G == {V \in SUBSET B : g[A \cup V] = g[A] + g[V]}
<1>1. AnyOrder(g, f, S)
    BY SumsRemove
<1>2. {} \in G
    <2>1. g[{}] = 0 /\ g[A] \in Nat /\ A \cup {} = A
        BY <1>1, SumsStep DEF Totals, AnyOrder
    <2> QED BY <2>1
<1>3. ASSUME NEW V \in SUBSET B, V # {}, \A x \in V : V \ {x} \in G PROVE V \in G
    <2>1. PICK x \in V : V \ {x} \in G
        BY <1>3
    <2>2. /\ A \cup V \in SUBSET S /\ x \in A \cup V /\ (A \cup V) \ {x} = A \cup (V \ {x})
          /\ V \in SUBSET S /\ V \ {x} \in SUBSET S /\ A \in SUBSET S
        BY <2>1
    <2>3. g[A \cup V] = f[x] + g[A \cup (V \ {x})]
        <3>1. g[A \cup V] = f[x] + g[(A \cup V) \ {x}]
            BY <1>1, <2>2, Zenon DEF AnyOrder
        <3> QED BY <2>2, <3>1
    <2>4. g[V] = f[x] + g[V \ {x}]
        BY <1>1, <2>2 DEF AnyOrder
    <2>5. g[V \ {x}] \in Nat /\ g[A] \in Nat /\ f[x] \in Nat
        BY <1>1, <2>2 DEF AnyOrder, Totals
    <2>6. g[A \cup (V \ {x})] = g[A] + g[V \ {x}]
        BY <2>1
    <2>7. g[A \cup V] = g[A] + g[V]
        BY <2>3, <2>4, <2>5, <2>6
    <2> QED BY <2>7
<1>4. \A V \in SUBSET B : V \in G
    <2>1. IsFiniteSet(B)
        BY FS_Subset DEF Totals
    <2> HIDE DEF G
    <2> QED BY <1>2, <1>3, <2>1, ElementInduction
<1>5. B \in G
    BY <1>4
<1> QED BY <1>5

\* The same weights, carried by other things.
LEMMA SumsCarried ==
    ASSUME NEW S, NEW T, NEW f, NEW h, NEW g, NEW k, Totals(g, f, S), Totals(k, h, T),
           NEW b \in [S -> T], \A x, y \in S : b[x] = b[y] => x = y,
           \A x \in S : h[b[x]] = f[x]
    PROVE  g[S] = k[{b[x] : x \in S}]
<1> DEFINE Image(s) == {b[x] : x \in s}
           G == {s \in SUBSET S : g[s] = k[Image(s)]}
<1>1. AnyOrder(g, f, S) /\ AnyOrder(k, h, T)
    BY SumsRemove
<1>2. {} \in G
    <2>1. g[{}] = 0 /\ k[{}] = 0 /\ Image({}) = {}
        BY SumsStep DEF Totals
    <2> QED BY <2>1
<1>3. ASSUME NEW s \in SUBSET S, s # {}, \A x \in s : s \ {x} \in G PROVE s \in G
    <2>1. PICK x \in s : s \ {x} \in G
        BY <1>3
    <2>2. Image(s) \in SUBSET T /\ b[x] \in Image(s) /\ h[b[x]] = f[x]
        OBVIOUS
    <2>3. Image(s \ {x}) = Image(s) \ {b[x]}
        OBVIOUS
    <2>4. k[Image(s)] = h[b[x]] + k[Image(s) \ {b[x]}]
        <3> HIDE DEF Image
        <3> QED BY <1>1, <2>2 DEF AnyOrder
    <2>5. g[s] = f[x] + g[s \ {x}] /\ g[s \ {x}] = k[Image(s \ {x})]
        BY <1>1, <2>1 DEF AnyOrder
    <2> QED BY <2>2, <2>3, <2>4, <2>5
<1>4. \A s \in SUBSET S : s \in G
    <2> HIDE DEF G
    <2> QED BY <1>2, <1>3, ElementInduction DEF Totals
<1>5. S \in G
    BY <1>4
<1> QED BY <1>5

\* Functions of finitely many weights.
Weights(f) == IsFiniteSet(DOMAIN f) /\ \A x \in DOMAIN f : f[x] \in Nat

LEMMA SumNat ==
    ASSUME NEW f, Weights(f)
    PROVE  SumFunction(f) \in Nat /\ (DOMAIN f = {} => SumFunction(f) = 0)
<1>1. PICK g : Sums(g, f, DOMAIN f) /\ SumFunction(f) = g[DOMAIN f]
    BY SumIs DEF Weights
<1>2. g[DOMAIN f] \in Nat
    BY <1>1, SumsRemove DEF Weights, Totals, AnyOrder
<1>3. DOMAIN f = {} => g[DOMAIN f] = 0
    BY <1>1, SumsStep
<1> QED BY <1>1, <1>2, <1>3

\* A sum is that of its parts.
LEMMA SumOfParts ==
    ASSUME NEW f, Weights(f), NEW h, NEW k,
           DOMAIN f = DOMAIN h \cup DOMAIN k, DOMAIN h \cap DOMAIN k = {},
           \A x \in DOMAIN h : h[x] = f[x], \A x \in DOMAIN k : k[x] = f[x]
    PROVE  /\ Weights(h) /\ Weights(k)
           /\ SumFunction(f) = SumFunction(h) + SumFunction(k)
<1>1. Weights(h) /\ Weights(k)
    <2>1. IsFiniteSet(DOMAIN h) /\ IsFiniteSet(DOMAIN k)
        BY FS_Subset DEF Weights
    <2> QED BY <2>1 DEF Weights
<1>2. PICK g : Sums(g, f, DOMAIN f) /\ SumFunction(f) = g[DOMAIN f]
    BY SumIs DEF Weights
<1>3. ASSUME NEW l, DOMAIN l \subseteq DOMAIN f, Weights(l), \A x \in DOMAIN l : l[x] = f[x]
      PROVE  SumFunction(l) = g[DOMAIN l]
    <2>1. PICK m : Sums(m, l, DOMAIN l) /\ SumFunction(l) = m[DOMAIN l]
        BY <1>3, SumIs DEF Weights
    <2>2. m[DOMAIN l] = g[DOMAIN l]
        BY <1>2, <1>3, <2>1, SumsAgree DEF Weights
    <2> QED BY <2>1, <2>2
<1>4. g[DOMAIN f] = g[DOMAIN h] + g[DOMAIN k]
    BY <1>2, SumsOfParts DEF Weights, Totals
<1> QED BY <1>1, <1>2, <1>3, <1>4

LEMMA SumOfOne ==
    ASSUME NEW f, Weights(f), NEW x, DOMAIN f = {x}
    PROVE  SumFunction(f) = f[x]
<1>1. PICK g : Sums(g, f, {x}) /\ SumFunction(f) = g[{x}]
    BY SumIs DEF Weights
<1>2. Totals(g, f, {x}) /\ f[x] \in Nat
    BY <1>1 DEF Weights, Totals
<1>3. AnyOrder(g, f, {x})
    BY <1>2, SumsRemove
<1>4. g[{x}] = f[x] + g[{x} \ {x}]
    BY <1>3 DEF AnyOrder
<1>5. g[{x} \ {x}] = 0
    BY <1>1, SumsStep
<1> QED BY <1>1, <1>2, <1>4, <1>5

\* The sum of the same weights carried by other things.
LEMMA SumCarried ==
    ASSUME NEW f, Weights(f), NEW h, Weights(h),
           NEW b \in [DOMAIN f -> DOMAIN h], \A x, y \in DOMAIN f : b[x] = b[y] => x = y,
           \A y \in DOMAIN h : \E x \in DOMAIN f : y = b[x],
           \A x \in DOMAIN f : h[b[x]] = f[x]
    PROVE  SumFunction(h) = SumFunction(f)
<1>1. PICK g : Sums(g, f, DOMAIN f) /\ SumFunction(f) = g[DOMAIN f]
    BY SumIs DEF Weights
<1>2. PICK k : Sums(k, h, DOMAIN h) /\ SumFunction(h) = k[DOMAIN h]
    BY SumIs DEF Weights
<1>3. g[DOMAIN f] = k[{b[x] : x \in DOMAIN f}]
    BY <1>1, <1>2, SumsCarried DEF Weights, Totals
<1>4. {b[x] : x \in DOMAIN f} = DOMAIN h
    OBVIOUS
<1> QED BY <1>1, <1>2, <1>3, <1>4

------------------------------------------------------------------------------
(* Updates of rows *)

LEMMA NoPlanType == NoPlan \in PlanRow
BY DEF NoPlan, PlanRow, PlanStatus, Directions, Window

\* The updates of a row by more than one column, named: the provers tell what
\* they do to a row once, here, and use them by name elsewhere.
AsSubmitted(r) == [r EXCEPT !.status = "submitted", !.version = 2]

AsDispatched(r) == [r EXCEPT !.status = "dispatched", !.version = 4]

AsApproved(r, user) == [r EXCEPT !.status = "approved", !.approvedBy = user, !.version = 3]

Charged(r, kw) ==
    [r EXCEPT !.reserved = r.reserved + kw, !.version = r.version + 1]

LEMMA PlanSubmitted ==
    ASSUME NEW r \in PlanRow
    PROVE  LET n == AsSubmitted(r)
           IN  /\ n \in PlanRow /\ n.status = "submitted" /\ n.version = 2
               /\ n.site = r.site /\ n.kw = r.kw /\ n.window = r.window
               /\ n.createdBy = r.createdBy /\ n.approvedBy = r.approvedBy
BY DEF AsSubmitted, PlanRow, PlanStatus

LEMMA PlanDispatched ==
    ASSUME NEW r \in PlanRow
    PROVE  LET n == AsDispatched(r)
           IN  /\ n \in PlanRow /\ n.status = "dispatched" /\ n.version = 4
               /\ n.site = r.site /\ n.kw = r.kw /\ n.window = r.window
               /\ n.createdBy = r.createdBy /\ n.approvedBy = r.approvedBy
BY DEF AsDispatched, PlanRow, PlanStatus

LEMMA PlanApproved ==
    ASSUME NEW r \in PlanRow, NEW user \in Users
    PROVE  LET n == AsApproved(r, user)
           IN  /\ n \in PlanRow /\ n.status = "approved" /\ n.version = 3
               /\ n.site = r.site /\ n.kw = r.kw /\ n.window = r.window
               /\ n.createdBy = r.createdBy /\ n.approvedBy = user
BY DEF AsApproved, PlanRow, PlanStatus

LEMMA SiteCharged ==
    ASSUME NEW r \in SiteRow, NEW kw \in Nat
    PROVE  LET n == Charged(r, kw)
           IN  /\ n \in SiteRow /\ n.status = r.status
               /\ n.reserved = r.reserved + kw /\ n.version = r.version + 1
<1>1. PICK reserved \in Nat, version \in Nat :
          reserved = r.reserved + kw /\ version = r.version + 1
    BY DEF SiteRow
<1>2. Charged(r, kw) = [r EXCEPT !.reserved = reserved, !.version = version]
    BY <1>1 DEF Charged
<1> QED BY <1>1, <1>2 DEF SiteRow

LEMMA ClusterReserved ==
    ASSUME NEW r \in ClusterRow
    PROVE  /\ [r EXCEPT !.status = "reserved"] \in ClusterRow
           /\ [r EXCEPT !.status = "reserved"].status = "reserved"
BY DEF ClusterRow

LEMMA EventType ==
    ASSUME NEW action \in Actions, NEW object \in Plans \cup Sites
    PROVE  Event(action, object) \in Events
BY DEF Event, Events

\* A request that notes what it has read next.
LEMMA SiteVersionNoted ==
    ASSUME NEW q \in Submission, NEW version \in Nat,
           NEW n, n = [q EXCEPT !.siteVersion = version]
    PROVE  /\ n \in Submission /\ n.plan = q.plan /\ n.version = q.version
           /\ n.selected = q.selected
BY DEF Submission

LEMMA ClusterNoted ==
    ASSUME NEW q \in Submission, NEW S \in SUBSET Clusters,
           NEW n, n = [q EXCEPT !.unchecked = S]
    PROVE  /\ n \in Submission /\ n.plan = q.plan /\ n.version = q.version
           /\ n.selected = q.selected
BY DEF Submission

LEMMA DispatchingNoted ==
    ASSUME NEW q \in Dispatching, NEW S \in SUBSET Clusters
    PROVE  /\ [q EXCEPT !.targets = S] \in Dispatching
           /\ [q EXCEPT !.targets = S].plan = q.plan
           /\ [q EXCEPT !.targets = S].version = q.version
           /\ [q EXCEPT !.targets = S].expected = q.expected
           /\ [q EXCEPT !.targets = S].targets = S
BY DEF Dispatching

\* An identified request that owes the event of an action on an object.
LEMMA OwedType ==
    ASSUME NEW id \in Requests, NEW action \in Actions, NEW object \in Plans \cup Sites,
           OwesAudit(id, Event(action, object)),
           \A q \in auditing : q \in AuditDue
    PROVE  \A q \in auditing' : q \in AuditDue
<1>1. [id |-> id, event |-> Event(action, object)] \in AuditDue
    BY EventType DEF AuditDue
<1> QED BY <1>1 DEF OwesAudit

------------------------------------------------------------------------------
(* What the commits do to the rows *)

\* The rows a submission in flight is about.
LEMMA SubmissionOf ==
    ASSUME TypeOK, RequestsInStep, NEW q \in submitting
    PROVE  /\ q \in Submission /\ q.plan \in Plans
           /\ plan[q.plan] \in PlanRow
           /\ plan[q.plan].site \in Sites /\ plan[q.plan].kw \in Nat \ {0}
           /\ site[plan[q.plan].site] \in SiteRow
<1>1. q \in Submission /\ q.plan \in Plans
    BY DEF TypeOK, Submission
<1>2. plan[q.plan] \in PlanRow
    BY <1>1 DEF TypeOK
<1>3. plan[q.plan].version >= 1 /\ plan[q.plan].version \in Nat /\ plan[q.plan].kw \in Nat
    BY <1>2 DEF RequestsInStep, PlansInStep, SubmissionsInStep, PlanRow
<1>4. plan[q.plan].site \in Sites /\ plan[q.plan].kw > 0
    BY <1>1, <1>3 DEF RequestsInStep, PlansInStep
<1> QED BY <1>1, <1>2, <1>3, <1>4 DEF TypeOK

\* What SubmitPlanAtomic adds: a reservation for each selected cluster, and in all
\* what the plan asks for.
Covers(new, q) ==
    /\ IsFiniteSet(new)
    /\ \A x \in new : x.kw \in 1..Rated[x.cluster]
    /\ SumFunction([x \in new |-> x.kw]) = plan[q.plan].kw

LEMMA SubmitShares ==
    ASSUME TypeOK, RequestsInStep, NEW q \in submitting, SubmitCommit(q)
    PROVE  \E new \in SUBSET Reservation :
              /\ reservations' = reservations \cup new
              /\ {x.cluster : x \in new} = q.selected
              /\ \A x \in new : x.plan = q.plan /\ x.window = plan[q.plan].window
              /\ \A x, y \in new : x.cluster = y.cluster => x = y
              /\ Covers(new, q)
<1> DEFINE row == plan[q.plan]
<1>1. q.plan \in Plans /\ q.selected \in SUBSET Clusters /\ row \in PlanRow /\ row.kw \in Nat
    BY SubmissionOf DEF Submission
<1>2. PICK share \in [q.selected -> 0..row.kw] :
          /\ \A c \in q.selected : share[c] > 0
          /\ \A c \in q.selected : share[c] <= Rated[c]
          /\ SumFunction(share) = row.kw
          /\ reservations' = reservations \cup
                {[plan |-> q.plan, cluster |-> c, kw |-> share[c], window |-> row.window] :
                     c \in q.selected}
    BY DEF SubmitCommit, Reserve, Allocations, Reservable
<1> DEFINE Of(c) == [plan |-> q.plan, cluster |-> c, kw |-> share[c], window |-> row.window]
           new == {Of(c) : c \in q.selected}
           b == [c \in q.selected |-> Of(c)]
           h == [x \in new |-> x.kw]
<1>3. \A c \in q.selected : share[c] \in Nat /\ Rated[c] \in Nat
    BY <1>1, <1>2, PlantAssumption
<1>4. new \in SUBSET Reservation
    BY <1>1, <1>3 DEF Reservation, PlanRow
<1>5. /\ reservations' = reservations \cup new
      /\ {x.cluster : x \in new} = q.selected
      /\ \A x \in new : x.plan = q.plan /\ x.window = row.window
      /\ \A x, y \in new : x.cluster = y.cluster => x = y
    <2>1. reservations' = reservations \cup new
        BY <1>2
    <2>2. {x.cluster : x \in new} = q.selected
      <3>1. \A c \in q.selected : Of(c) \in new /\ Of(c).cluster = c
          OBVIOUS
      <3>2. \A c \in q.selected : \E x \in new : x.cluster = c
          BY <3>1
      <3>3. \A x \in new : x.cluster \in q.selected
          OBVIOUS
      <3> HIDE DEF new
      <3> QED BY <3>2, <3>3
    <2>3. \A x \in new : x.plan = q.plan /\ x.window = row.window
        OBVIOUS
    <2>4. \A x, y \in new : x.cluster = y.cluster => x = y
        OBVIOUS
    <2> QED BY <2>1, <2>2, <2>3, <2>4
<1>6. \A x \in new : x.kw \in 1..Rated[x.cluster]
    <2>1. \A c \in q.selected : share[c] \in 1..Rated[c]
        BY <1>2, <1>3
    <2>2. \A c \in q.selected : Of(c).kw = share[c] /\ Of(c).cluster = c
        OBVIOUS
    <2> HIDE DEF Of
    <2> QED BY <2>1, <2>2
<1>7. IsFiniteSet(q.selected) /\ IsFiniteSet(new)
    <2>1. IsFiniteSet(q.selected)
        BY <1>1, PlantAssumption, FS_Subset
    <2>2. b \in Surjection(q.selected, new)
        BY DEF Surjection
    <2> HIDE DEF b, new
    <2> QED BY <2>1, <2>2, FS_Surjection
<1>8. SumFunction(h) = row.kw
    <2>1. DOMAIN share = q.selected /\ DOMAIN h = new
        BY <1>2
    <2>2. Weights(share)
        BY <1>3, <1>7, <2>1 DEF Weights
    <2>3. \A x \in new : h[x] = x.kw /\ x.kw \in Nat
        BY <1>4 DEF Reservation
    <2>4. Weights(h)
        <3> HIDE DEF h, new
        <3> QED BY <1>7, <2>1, <2>3 DEF Weights
    <2>5. /\ b \in [q.selected -> new]
          /\ \A c \in q.selected : b[c].cluster = c /\ h[b[c]] = share[c]
          /\ \A x \in new : \E c \in q.selected : x = b[c]
        OBVIOUS
    <2>6. \A c, d \in q.selected : b[c] = b[d] => c = d
        <3> HIDE DEF b
        <3> QED BY <2>5
    <2>7. SumFunction(h) = SumFunction(share)
        <3> HIDE DEF b, h, new
        <3> QED BY <2>1, <2>2, <2>4, <2>5, <2>6, SumCarried
    <2> QED BY <1>2, <2>7
<1>9. Covers(new, q)
    BY <1>6, <1>7, <1>8 DEF Covers
<1> HIDE DEF new
<1> QED BY <1>4, <1>5, <1>9

\* The reservations alone.
LEMMA SubmitReserves ==
    ASSUME TypeOK, RequestsInStep, NEW q \in submitting, SubmitCommit(q)
    PROVE  \E new \in SUBSET Reservation :
              /\ reservations' = reservations \cup new
              /\ {x.cluster : x \in new} = q.selected
              /\ \A x \in new : x.plan = q.plan /\ x.window = plan[q.plan].window
              /\ \A x, y \in new : x.cluster = y.cluster => x = y
BY SubmitShares

\* SubmitPlanAtomic, row by row.
LEMMA SubmitUpdates ==
    ASSUME TypeOK, RequestsInStep, NEW q \in submitting, SubmitCommit(q)
    PROVE  LET row == plan[q.plan]
               n == plan'[q.plan]
           IN  /\ row.version = 1
               /\ n.status = "submitted" /\ n.version = 2
               /\ n.site = row.site /\ n.kw = row.kw /\ n.window = row.window
               /\ n.createdBy = row.createdBy /\ n.approvedBy = row.approvedBy
               /\ plan' \in [Plans -> PlanRow]
               /\ \A p \in Plans \ {q.plan} : plan'[p] = plan[p]
               /\ site[row.site].status = "active"
               /\ site' \in [Sites -> SiteRow]
               /\ site'[row.site].status = "active"
               /\ site'[row.site].reserved = site[row.site].reserved + row.kw
               /\ site'[row.site].version = site[row.site].version + 1
               /\ \A s \in Sites \ {row.site} : site'[s] = site[s]
               /\ cluster' \in [Clusters -> ClusterRow]
               /\ \A c \in Clusters \ q.selected : cluster'[c] = cluster[c]
               /\ \A c \in q.selected : cluster[c].status = "available"
               /\ \A c \in q.selected : cluster'[c].status = "reserved"
               /\ \A x \in reservations' : x \in Reservation
<1> DEFINE row == plan[q.plan]
<1>1. /\ q.plan \in Plans /\ q.selected \in SUBSET Clusters
      /\ row \in PlanRow /\ row.site \in Sites /\ row.kw \in Nat \ {0}
      /\ site[row.site] \in SiteRow
    BY SubmissionOf DEF Submission
<1>2. q.version = 1 /\ row.version = 1
    BY DEF SubmitCommit, Admitted, RequestsInStep, SubmissionsInStep
<1>3. /\ plan' = [plan EXCEPT ![q.plan].status = "submitted", ![q.plan].version = 2]
      /\ plan \in [Plans -> PlanRow]
    BY <1>2 DEF SubmitCommit, Submitted, TypeOK
<1>4. /\ plan'[q.plan] = AsSubmitted(row)
      /\ \A p \in Plans \ {q.plan} : plan'[p] = plan[p]
      /\ DOMAIN plan' = Plans /\ plan' = [p \in Plans |-> plan'[p]]
    BY <1>1, <1>3 DEF AsSubmitted, AsApproved
<1>5. LET n == plan'[q.plan]
      IN  /\ n \in PlanRow /\ n.status = "submitted" /\ n.version = 2
          /\ n.site = row.site /\ n.kw = row.kw /\ n.window = row.window
          /\ n.createdBy = row.createdBy /\ n.approvedBy = row.approvedBy
    BY <1>1, <1>4, PlanSubmitted
<1>6. /\ site' = [site EXCEPT ![row.site].reserved = site[row.site].reserved + row.kw,
                              ![row.site].version = site[row.site].version + 1]
      /\ site \in [Sites -> SiteRow]
      /\ site[row.site].status = "active"
    BY DEF SubmitCommit, Admitted, SiteTakes, Reserve, TypeOK
<1>7. /\ site'[row.site] = Charged(site[row.site], row.kw)
      /\ \A s \in Sites \ {row.site} : site'[s] = site[s]
      /\ site' = [s \in Sites |-> site'[s]]
    BY <1>1, <1>6 DEF Charged
<1>9. /\ site'[row.site] \in SiteRow /\ site'[row.site].status = "active"
      /\ site'[row.site].reserved = site[row.site].reserved + row.kw
      /\ site'[row.site].version = site[row.site].version + 1
    <2>1. row.kw \in Nat /\ site[row.site] \in SiteRow
        BY <1>1
    <2>2. LET n == Charged(site[row.site], row.kw)
          IN  /\ n \in SiteRow /\ n.status = site[row.site].status
              /\ n.reserved = site[row.site].reserved + row.kw
              /\ n.version = site[row.site].version + 1
        BY <2>1, SiteCharged
    <2> QED BY <1>6, <1>7, <2>2
<1>10. site' \in [Sites -> SiteRow]
    BY <1>6, <1>7, <1>9
<1>11. /\ cluster' = [c \in Clusters |-> IF c \in q.selected
                         THEN [cluster[c] EXCEPT !.status = "reserved"] ELSE cluster[c]]
       /\ \A c \in q.selected : cluster[c].status = "available"
    BY DEF SubmitCommit, Reserve, Admitted, ClusterTakes
<1>12. cluster' \in [Clusters -> ClusterRow] /\ \A c \in q.selected : cluster'[c].status = "reserved"
    BY <1>1, <1>11, ClusterReserved DEF TypeOK
<1>13. \A x \in reservations' : x \in Reservation
    BY SubmitReserves DEF TypeOK
<1>14. plan' \in [Plans -> PlanRow]
    BY <1>3, <1>4, <1>5
<1> QED BY <1>2, <1>4, <1>5, <1>6, <1>7, <1>9, <1>10, <1>11, <1>12, <1>13, <1>14

\* UpdatePlan of an approval.
LEMMA ApproveUpdates ==
    ASSUME TypeOK, RequestsInStep, NEW q \in approving, ApproveCommit(q)
    PROVE  LET row == plan[q.plan]
               n == plan'[q.plan]
           IN  /\ q.plan \in Plans /\ row.version = 2
               /\ n.status = "approved" /\ n.version = 3
               /\ n.site = row.site /\ n.kw = row.kw /\ n.window = row.window
               /\ n.createdBy = row.createdBy /\ n.approvedBy = q.user
               /\ q.user \in Users /\ q.user # row.createdBy
               /\ plan' \in [Plans -> PlanRow]
               /\ \A p \in Plans \ {q.plan} : plan'[p] = plan[p]
<1> DEFINE row == plan[q.plan]
<1>1. q.plan \in Plans /\ q.user \in Users /\ row \in PlanRow
    BY DEF TypeOK, Approval
<1>2. q.version = 2 /\ row.version = 2 /\ q.user # row.createdBy
    BY DEF ApproveCommit, RequestsInStep, ApprovalsInStep
<1>3. /\ plan' = [plan EXCEPT ![q.plan].status = "approved", ![q.plan].approvedBy = q.user,
                              ![q.plan].version = 3]
      /\ plan \in [Plans -> PlanRow]
    BY <1>2 DEF ApproveCommit, TypeOK
<1>4. /\ plan'[q.plan] = AsApproved(row, q.user)
      /\ \A p \in Plans \ {q.plan} : plan'[p] = plan[p]
      /\ plan' = [p \in Plans |-> plan'[p]]
    BY <1>1, <1>3 DEF AsSubmitted, AsApproved
<1>5. LET n == plan'[q.plan]
      IN  /\ n \in PlanRow /\ n.status = "approved" /\ n.version = 3
          /\ n.site = row.site /\ n.kw = row.kw /\ n.window = row.window
          /\ n.createdBy = row.createdBy /\ n.approvedBy = q.user
    BY <1>1, <1>4, PlanApproved
<1>6. plan' \in [Plans -> PlanRow]
    BY <1>3, <1>4, <1>5
<1> QED BY <1>1, <1>2, <1>4, <1>5, <1>6

\* DispatchPlanAtomic.
LEMMA DispatchUpdates ==
    ASSUME TypeOK, RequestsInStep, NEW q \in dispatching, DispatchCommit(q)
    PROVE  LET row == plan[q.plan]
               n == plan'[q.plan]
           IN  /\ q.plan \in Plans /\ row.version >= 3
               /\ n.status = "dispatched" /\ n.version = 4
               /\ n.site = row.site /\ n.kw = row.kw /\ n.window = row.window
               /\ n.createdBy = row.createdBy /\ n.approvedBy = row.approvedBy
               /\ plan' \in [Plans -> PlanRow]
               /\ \A p \in Plans \ {q.plan} : plan'[p] = plan[p]
               /\ q.targets # {} /\ q.targets = Reserved(q.plan)
               /\ \A c \in q.targets : jobs[q.plan][c] = 0
               /\ jobs' \in [Plans -> [Clusters -> Nat]]
               /\ \A p \in Plans \ {q.plan} : jobs'[p] = jobs[p]
               /\ \A c \in q.targets : jobs'[q.plan][c] = 1
               /\ \A c \in Clusters \ q.targets : jobs'[q.plan][c] = jobs[q.plan][c]
<1> DEFINE row == plan[q.plan]
<1>1. q.plan \in Plans /\ q.targets \in SUBSET Clusters /\ row \in PlanRow
    BY DEF TypeOK, Dispatching
<1>2. q.version = 3 /\ row.version >= 3 /\ q.targets # {} /\ q.targets = Reserved(q.plan)
    BY DEF DispatchCommit, RequestsInStep, DispatchesInStep
<1>3. /\ plan' = [plan EXCEPT ![q.plan].status = "dispatched", ![q.plan].version = 4]
      /\ plan \in [Plans -> PlanRow]
    BY <1>2 DEF DispatchCommit, TypeOK
<1>4. /\ plan'[q.plan] = AsDispatched(row)
      /\ \A p \in Plans \ {q.plan} : plan'[p] = plan[p]
      /\ plan' = [p \in Plans |-> plan'[p]]
    BY <1>1, <1>3 DEF AsDispatched
<1>5. LET n == plan'[q.plan]
      IN  /\ n \in PlanRow /\ n.status = "dispatched" /\ n.version = 4
          /\ n.site = row.site /\ n.kw = row.kw /\ n.window = row.window
          /\ n.createdBy = row.createdBy /\ n.approvedBy = row.approvedBy
    BY <1>1, <1>4, PlanDispatched
<1>6. plan' \in [Plans -> PlanRow]
    BY <1>3, <1>4, <1>5
<1>7. /\ jobs \in [Plans -> [Clusters -> Nat]]
      /\ jobs' = [jobs EXCEPT ![q.plan] =
             [c \in Clusters |-> jobs[q.plan][c] + (IF c \in q.targets THEN 1 ELSE 0)]]
      /\ \A c \in q.targets : jobs[q.plan][c] = 0
    BY DEF DispatchCommit, TypeOK, NoJobYet
<1>8. /\ jobs' \in [Plans -> [Clusters -> Nat]]
      /\ \A p \in Plans \ {q.plan} : jobs'[p] = jobs[p]
      /\ \A c \in q.targets : jobs'[q.plan][c] = 1
      /\ \A c \in Clusters \ q.targets : jobs'[q.plan][c] = jobs[q.plan][c]
    BY <1>1, <1>7
<1> QED BY <1>1, <1>2, <1>4, <1>5, <1>6, <1>7, <1>8

------------------------------------------------------------------------------
(* Types *)

LEMMA TypeInit == Init => TypeOK
<1> SUFFICES ASSUME Init PROVE TypeOK
    OBVIOUS
<1>1. site \in [Sites -> SiteRow]
    BY DEF Init, SiteRow, SiteStatus
<1>2. cluster \in [Clusters -> ClusterRow]
    BY DEF Init, ClusterRow
<1>3. plan \in [Plans -> PlanRow]
    BY NoPlanType DEF Init
<1>4. jobs \in [Plans -> [Clusters -> Nat]]
    BY DEF Init
<1> QED BY <1>1, <1>2, <1>3, <1>4 DEF Init, TypeOK

\* Each action keeps the types, one step for each.
LEMMA TypeStep == TypeOK /\ RequestsInStep /\ [Next]_vars => TypeOK'
<1> SUFFICES ASSUME TypeOK, RequestsInStep, [Next]_vars PROVE TypeOK'
    OBVIOUS
<1>1. ASSUME NEW r \in Requests, Abandon(r) PROVE TypeOK'
    BY <1>1 DEF Abandon, TypeOK, rows
<1>2. ASSUME NEW r \in Requests, NEW p \in Plans, NEW user \in Users, NEW input \in Inputs,
             Create(r, p, user, input)
      PROVE  TypeOK'
    <2>1. plan' \in [Plans -> PlanRow]
        BY <1>2, InputsAssumption DEF Create, TypeOK, PlanRow, PlanStatus
    <2>2. \A q \in auditing' : q \in AuditDue
        BY <1>2, OwedType DEF Create, TypeOK, Actions
    <2> QED BY <1>2, <2>1, <2>2 DEF Create, TypeOK
<1>3. ASSUME NEW r \in Requests, NEW p \in Plans, NEW selected \in SUBSET Clusters,
             SubmitReadPlan(r, p, selected)
      PROVE  TypeOK'
    <2>1. plan[p].version \in Nat
        BY DEF TypeOK, PlanRow
    <2> QED BY <1>3, <2>1 DEF SubmitReadPlan, TypeOK, rows, Submission, Unread
<1>4. ASSUME NEW r \in Requests, NEW p \in Plans, NEW user \in Users, ApproveRead(r, p, user)
      PROVE  TypeOK'
    <2>1. plan[p].version \in Nat
        BY DEF TypeOK, PlanRow
    <2> QED BY <1>4, <2>1 DEF ApproveRead, TypeOK, rows, Approval
<1>5. ASSUME NEW r \in Requests, NEW p \in Plans, NEW expected \in 1..MaxPlanVersion,
             DispatchReadPlan(r, p, expected)
      PROVE  TypeOK'
    <2>1. plan[p].version \in Nat /\ expected \in Nat
        BY DEF TypeOK, PlanRow
    <2> QED BY <1>5, <2>1 DEF DispatchReadPlan, TypeOK, rows, Dispatching
<1>6. ASSUME NEW r \in Requests, NEW s \in Sites, NEW next \in Asked, TransitionRead(r, s, next)
      PROVE  TypeOK'
    <2>1. site[s].reserved \in Nat /\ site[s].version \in Nat
        BY DEF TypeOK, SiteRow
    <2>2. next \in SiteStatus
        BY <1>6 DEF TransitionRead, Allowed, SiteStatus
    <2> QED BY <1>6, <2>1, <2>2 DEF TransitionRead, TypeOK, rows, Change
<1>7. ASSUME NEW q \in submitting, SubmitReadSite(q) PROVE TypeOK'
    <2>1. site[plan[q.plan].site].version \in Nat
        BY SubmissionOf DEF SiteRow
    <2> QED BY <1>7, <2>1, SubmissionOf, SiteVersionNoted DEF SubmitReadSite, TypeOK, rows
<1>8. ASSUME NEW q \in submitting, NEW c \in q.unchecked, SubmitCheckCluster(q, c)
      PROVE  TypeOK'
    <2>1. q.unchecked \ {c} \in SUBSET Clusters
        BY SubmissionOf DEF Submission
    <2> QED BY <1>8, <2>1, SubmissionOf, ClusterNoted DEF SubmitCheckCluster, TypeOK, rows
<1>9. ASSUME NEW q \in submitting, SubmitCommit(q) PROVE TypeOK'
    <2>1. site' \in [Sites -> SiteRow]
        BY <1>9, SubmitUpdates DEF TypeOK
    <2>2. cluster' \in [Clusters -> ClusterRow]
        BY <1>9, SubmitUpdates DEF TypeOK
    <2>3. plan' \in [Plans -> PlanRow]
        BY <1>9, SubmitUpdates DEF TypeOK
    <2>4. \A x \in reservations' : x \in Reservation
        BY <1>9, SubmitUpdates DEF TypeOK
    <2>5. \A event \in audits' : event \in Events
        BY <1>9, SubmissionOf, EventType DEF SubmitCommit, TypeOK, Submission, Actions
    <2> QED BY <1>9, <2>1, <2>2, <2>3, <2>4, <2>5 DEF SubmitCommit, TypeOK
<1>10. ASSUME NEW q \in approving, ApproveCommit(q) PROVE TypeOK'
    <2>1. q \in Approval
        BY DEF TypeOK
    <2>2. plan' \in [Plans -> PlanRow]
        BY <1>10, ApproveUpdates
    <2>3. \A d \in auditing' : d \in AuditDue
        BY <1>10, <2>1, OwedType DEF ApproveCommit, TypeOK, Actions, Approval
    <2> QED BY <1>10, <2>2, <2>3 DEF ApproveCommit, TypeOK
<1>11. ASSUME NEW q \in dispatching, DispatchReadReservations(q) PROVE TypeOK'
    <2>1. q \in Dispatching
        BY DEF TypeOK
    <2>2. Reserved(q.plan) \in SUBSET Clusters
        BY DEF Reserved, TypeOK, Reservation
    <2> QED BY <1>11, <2>1, <2>2, DispatchingNoted DEF DispatchReadReservations, TypeOK, rows
<1>12. ASSUME NEW q \in dispatching, DispatchCommit(q) PROVE TypeOK'
    <2>1. q \in Dispatching
        BY DEF TypeOK
    <2>2. plan' \in [Plans -> PlanRow] /\ jobs' \in [Plans -> [Clusters -> Nat]]
        BY <1>12, DispatchUpdates
    <2>3. \A event \in audits' : event \in Events
        BY <1>12, <2>1, EventType DEF DispatchCommit, TypeOK, Dispatching, Actions
    <2> QED BY <1>12, <2>2, <2>3 DEF DispatchCommit, TypeOK
<1>13. ASSUME NEW q \in changing, TransitionCommit(q) PROVE TypeOK'
    <2>1. q \in Change
        BY DEF TypeOK
    <2>2. site' \in [Sites -> SiteRow]
        BY <1>13, <2>1 DEF TransitionCommit, TypeOK, SiteRow, Change
    <2>3. \A d \in auditing' : d \in AuditDue
        BY <1>13, <2>1, OwedType DEF TransitionCommit, TypeOK, Actions, Change
    <2> QED BY <1>13, <2>2, <2>3 DEF TransitionCommit, TypeOK
<1>14. ASSUME NEW q \in auditing, InsertAudit(q) PROVE TypeOK'
    BY <1>14 DEF InsertAudit, TypeOK, AuditDue
<1>15. ASSUME NEW c \in Clusters, NEW soc \in Socs, Telemetry(c, soc) PROVE TypeOK'
    <2>1. cluster' \in [Clusters -> ClusterRow]
        BY <1>15 DEF Telemetry, TypeOK, ClusterRow
    <2> QED BY <1>15, <2>1 DEF Telemetry, TypeOK, requests
<1>16. CASE UNCHANGED vars
    BY <1>16 DEF vars, rows, requests, TypeOK
<1> QED BY <1>1, <1>2, <1>3, <1>4, <1>5, <1>6, <1>7, <1>8, <1>9, <1>10, <1>11, <1>12, <1>13,
           <1>14, <1>15, <1>16 DEF Next

------------------------------------------------------------------------------
(* The versions *)

\* What the induction is about: a dispatch names a version of its own choice, and
\* that it cannot repeat one that was made follows from the jobs that one left.
Core == TypeOK /\ RequestsInStep /\ OneJobPerReservation

\* The steps that change rows other than states of charge.
LEMMA NextCases ==
    ASSUME [Next]_vars
    PROVE  \/ \E r \in Requests, p \in Plans, user \in Users, input \in Inputs :
                  Create(r, p, user, input)
           \/ \E q \in submitting : SubmitCommit(q)
           \/ \E q \in approving : ApproveCommit(q)
           \/ \E q \in dispatching : DispatchCommit(q)
           \/ \E q \in changing : TransitionCommit(q)
           \/ \E q \in auditing : InsertAudit(q)
           \/ /\ UNCHANGED <<site, plan, reservations, jobs, audits>>
              /\ auditing' \subseteq auditing
              /\ \/ UNCHANGED cluster
                 \/ /\ UNCHANGED requests
                    /\ \E c \in Clusters, soc \in Socs : cluster' = [cluster EXCEPT ![c].soc = soc]
<1> USE DEF rows
<1>1. ASSUME NEW r \in Requests, Abandon(r)
      PROVE  UNCHANGED rows /\ auditing' \subseteq auditing
    BY <1>1 DEF Abandon
<1>2. ASSUME NEW r \in Requests, NEW p \in Plans, NEW selected, SubmitReadPlan(r, p, selected)
      PROVE  UNCHANGED rows /\ auditing' \subseteq auditing
    BY <1>2 DEF SubmitReadPlan
<1>3. ASSUME NEW r \in Requests, NEW p \in Plans, NEW user, ApproveRead(r, p, user)
      PROVE  UNCHANGED rows /\ auditing' \subseteq auditing
    BY <1>3 DEF ApproveRead
<1>4. ASSUME NEW r \in Requests, NEW p \in Plans, NEW expected, DispatchReadPlan(r, p, expected)
      PROVE  UNCHANGED rows /\ auditing' \subseteq auditing
    BY <1>4 DEF DispatchReadPlan
<1>5. ASSUME NEW r \in Requests, NEW s \in Sites, NEW next, TransitionRead(r, s, next)
      PROVE  UNCHANGED rows /\ auditing' \subseteq auditing
    BY <1>5 DEF TransitionRead
<1>6. ASSUME NEW q, SubmitReadSite(q)
      PROVE  UNCHANGED rows /\ auditing' \subseteq auditing
    BY <1>6 DEF SubmitReadSite
<1>7. ASSUME NEW q, NEW c, SubmitCheckCluster(q, c)
      PROVE  UNCHANGED rows /\ auditing' \subseteq auditing
    BY <1>7 DEF SubmitCheckCluster
<1>8. ASSUME NEW q, DispatchReadReservations(q)
      PROVE  UNCHANGED rows /\ auditing' \subseteq auditing
    BY <1>8 DEF DispatchReadReservations
<1>9. ASSUME NEW c \in Clusters, NEW soc \in Socs, Telemetry(c, soc)
      PROVE  /\ UNCHANGED <<site, plan, reservations, jobs, audits, requests>>
             /\ cluster' = [cluster EXCEPT ![c].soc = soc]
             /\ auditing' \subseteq auditing
    BY <1>9 DEF Telemetry, requests
<1>10. CASE UNCHANGED vars
    BY <1>10 DEF vars, requests
<1> QED BY <1>1, <1>2, <1>3, <1>4, <1>5, <1>6, <1>7, <1>8, <1>9, <1>10 DEF Next

\* How a plan may move: its versions count its states, and what it asks for, who
\* created it and who approved it are for good.
PlanMove(p) ==
    \/ plan'[p] = plan[p]
    \/ /\ <<plan[p].status, plan'[p].status>> \in
              {<<"none", "draft">>, <<"draft", "submitted">>, <<"submitted", "approved">>,
               <<"approved", "dispatched">>}
       /\ plan'[p].version = plan[p].version + 1
       /\ plan[p].version > 0 =>
              /\ plan'[p].site = plan[p].site /\ plan'[p].kw = plan[p].kw
              /\ plan'[p].window = plan[p].window /\ plan'[p].createdBy = plan[p].createdBy
       /\ plan[p].version = 0 =>
              plan'[p].site \in Sites /\ plan'[p].kw > 0 /\ plan'[p].createdBy \in Users
       /\ IF plan[p].version = 2
          THEN plan'[p].approvedBy \in Users \ {plan[p].createdBy}
          ELSE plan'[p].approvedBy = plan[p].approvedBy

\* A plan's status, from its version.
LEMMA VersionTells ==
    ASSUME TypeOK, RequestsInStep, NEW p \in Plans
    PROVE  /\ plan[p] \in PlanRow
           /\ plan[p].version = 0 <=> plan[p].status = "none"
           /\ plan[p].version = 1 <=> plan[p].status = "draft"
           /\ plan[p].version = 2 <=> plan[p].status = "submitted"
           /\ plan[p].version = 3 <=> plan[p].status = "approved"
           /\ plan[p].version = 4 <=> plan[p].status = "dispatched"
           /\ plan[p].version \in 0..4
<1>1. plan[p] \in PlanRow /\ plan[p].status \in PlanStatus
    BY DEF TypeOK, PlanRow
<1> QED BY <1>1 DEF RequestsInStep, PlansInStep, PlanStatus

\* A dispatch that commits is the first one of an approved plan.
LEMMA DispatchOnce ==
    ASSUME Core, NEW q \in dispatching, DispatchCommit(q)
    PROVE  plan[q.plan].status = "approved" /\ plan[q.plan].version = 3
<1>1. q.plan \in Plans /\ plan[q.plan].version >= 3
    BY DispatchUpdates DEF Core
<1>2. PICK c \in Clusters : c \in Reserved(q.plan) /\ jobs[q.plan][c] = 0
    BY DispatchUpdates DEF Core, TypeOK, Dispatching, Reserved, Reservation
<1>3. plan[q.plan].status # "dispatched"
    BY <1>1, <1>2 DEF Core, OneJobPerReservation
<1> QED BY <1>1, <1>3, VersionTells DEF Core

LEMMA PlansMove == Core /\ [Next]_vars => \A p \in Plans : PlanMove(p)
<1> SUFFICES ASSUME Core, [Next]_vars, NEW p \in Plans PROVE PlanMove(p)
    OBVIOUS
<1>1. ASSUME NEW r \in Requests, NEW k \in Plans, NEW user \in Users, NEW input \in Inputs,
             Create(r, k, user, input)
      PROVE  PlanMove(p)
    <2>1. CASE p = k
        BY <1>1, <2>1, InputsAssumption, VersionTells
           DEF Create, Core, TypeOK, PlanMove, RequestsInStep, PlansInStep
    <2>2. CASE p # k
        BY <1>1, <2>2 DEF Create, PlanMove, Core, TypeOK
    <2> QED BY <2>1, <2>2
<1>2. ASSUME NEW q \in submitting, SubmitCommit(q) PROVE PlanMove(p)
    <2>1. CASE p = q.plan
        BY <1>2, <2>1, SubmitUpdates, VersionTells DEF Core, PlanMove
    <2>2. CASE p # q.plan
        BY <1>2, <2>2, SubmitUpdates DEF Core, PlanMove
    <2> QED BY <2>1, <2>2
<1>3. ASSUME NEW q \in approving, ApproveCommit(q) PROVE PlanMove(p)
    <2>1. CASE p = q.plan
        BY <1>3, <2>1, ApproveUpdates, VersionTells DEF Core, PlanMove
    <2>2. CASE p # q.plan
        BY <1>3, <2>2, ApproveUpdates DEF Core, PlanMove
    <2> QED BY <2>1, <2>2
<1>4. ASSUME NEW q \in dispatching, DispatchCommit(q) PROVE PlanMove(p)
    <2>1. CASE p = q.plan
        BY <1>4, <2>1, DispatchUpdates, DispatchOnce DEF Core, PlanMove
    <2>2. CASE p # q.plan
        BY <1>4, <2>2, DispatchUpdates DEF Core, PlanMove
    <2> QED BY <2>1, <2>2
<1>5. CASE UNCHANGED plan
    BY <1>5 DEF PlanMove
<1> QED BY <1>1, <1>2, <1>3, <1>4, <1>5, NextCases DEF TransitionCommit, InsertAudit

LEMMA PlansStep == Core /\ [Next]_vars => PlansInStep'
<1> SUFFICES ASSUME Core, [Next]_vars, NEW p \in Plans
             PROVE  /\ plan'[p].version = CASE plan'[p].status = "none"      -> 0
                                            [] plan'[p].status = "draft"     -> 1
                                            [] plan'[p].status = "submitted" -> 2
                                            [] plan'[p].status = "approved"  -> 3
                                            [] OTHER                         -> 4
                    /\ plan'[p].approvedBy = NoUser <=> plan'[p].version < 3
                    /\ plan'[p].version > 0 =>
                          /\ plan'[p].site \in Sites /\ plan'[p].kw > 0
                          /\ plan'[p].createdBy \in Users
    BY DEF PlansInStep
<1>1. PlanMove(p)
    BY PlansMove
<1>2. /\ plan[p].version = CASE plan[p].status = "none"      -> 0
                             [] plan[p].status = "draft"     -> 1
                             [] plan[p].status = "submitted" -> 2
                             [] plan[p].status = "approved"  -> 3
                             [] OTHER                        -> 4
      /\ plan[p].approvedBy = NoUser <=> plan[p].version < 3
      /\ plan[p].version > 0 =>
            plan[p].site \in Sites /\ plan[p].kw > 0 /\ plan[p].createdBy \in Users
    BY DEF Core, RequestsInStep, PlansInStep
<1>3. CASE plan'[p] = plan[p]
    BY <1>2, <1>3
<1>4. CASE plan'[p] # plan[p]
    <2>1. plan[p].version \in 0..4
        BY VersionTells DEF Core
    <2>2. /\ plan'[p].version = plan[p].version + 1
          /\ <<plan[p].status, plan'[p].status>> \in
                {<<"none", "draft">>, <<"draft", "submitted">>, <<"submitted", "approved">>,
                 <<"approved", "dispatched">>}
        BY <1>1, <1>4 DEF PlanMove
    <2>3. /\ plan'[p].version = CASE plan'[p].status = "none"      -> 0
                                  [] plan'[p].status = "draft"     -> 1
                                  [] plan'[p].status = "submitted" -> 2
                                  [] plan'[p].status = "approved"  -> 3
                                  [] OTHER                         -> 4
        BY <1>2, <2>2
    <2>4. plan'[p].approvedBy = NoUser <=> plan'[p].version < 3
        BY <1>1, <1>2, <1>4, <2>1, <2>2, PlantAssumption DEF PlanMove
    <2>5. /\ plan'[p].site \in Sites /\ plan'[p].kw > 0
          /\ plan'[p].createdBy \in Users
        BY <1>1, <1>2, <1>4, <2>1 DEF PlanMove
    <2> QED BY <2>3, <2>4, <2>5
<1> QED BY <1>3, <1>4

LEMMA SubmissionsStep == Core /\ [Next]_vars => SubmissionsInStep'
<1> SUFFICES ASSUME Core, [Next]_vars, NEW q \in submitting'
             PROVE  q.version = 1 /\ plan'[q.plan].version >= 1 /\ q.selected # {}
    BY DEF SubmissionsInStep
<1>1. CASE q \in submitting
    <2>1. q.plan \in Plans
        BY <1>1 DEF Core, TypeOK, Submission
    <2>2. q.version = 1 /\ plan[q.plan].version >= 1 /\ q.selected # {}
        BY <1>1 DEF Core, RequestsInStep, SubmissionsInStep
    <2>3. plan[q.plan].version \in 0..4 /\ PlanMove(q.plan)
        BY <2>1, VersionTells, PlansMove DEF Core
    <2> QED BY <2>2, <2>3 DEF PlanMove
<1>2. ASSUME NEW r \in Requests, NEW p \in Plans, NEW selected \in SUBSET Clusters,
             SubmitReadPlan(r, p, selected), q \notin submitting
      PROVE  q.version = 1 /\ plan'[q.plan].version >= 1 /\ q.selected # {}
    <2>1. q.plan = p /\ q.version = plan[p].version /\ q.selected = selected
        BY <1>2 DEF SubmitReadPlan
    <2>2. plan' = plan /\ selected # {} /\ plan[p].version = 1
        BY <1>2, VersionTells DEF SubmitReadPlan, rows, Core
    <2> QED BY <2>1, <2>2
<1>3. ASSUME NEW k \in submitting, SubmitReadSite(k), q \notin submitting
      PROVE  q.version = 1 /\ plan'[q.plan].version >= 1 /\ q.selected # {}
    <2>1. k \in Submission /\ q = [k EXCEPT !.siteVersion = site[plan[k.plan].site].version]
        BY <1>3 DEF SubmitReadSite, Core, TypeOK
    <2>2. site[plan[k.plan].site].version \in Nat
        BY SubmissionOf DEF SiteRow, Core
    <2>3. q.plan = k.plan /\ q.version = k.version /\ q.selected = k.selected
        BY <2>1, <2>2, SiteVersionNoted
    <2> QED BY <1>3, <2>3 DEF SubmitReadSite, rows, Core, RequestsInStep, SubmissionsInStep
<1>4. ASSUME NEW k \in submitting, NEW c \in k.unchecked, SubmitCheckCluster(k, c),
             q \notin submitting
      PROVE  q.version = 1 /\ plan'[q.plan].version >= 1 /\ q.selected # {}
    <2>1. k \in Submission /\ q = [k EXCEPT !.unchecked = k.unchecked \ {c}]
        BY <1>4 DEF SubmitCheckCluster, Core, TypeOK
    <2>2. k.unchecked \ {c} \in SUBSET Clusters
        BY <2>1 DEF Submission
    <2>3. q.plan = k.plan /\ q.version = k.version /\ q.selected = k.selected
        BY <2>1, <2>2, ClusterNoted
    <2> QED BY <1>4, <2>3 DEF SubmitCheckCluster, rows, Core, RequestsInStep, SubmissionsInStep
<1>5. CASE submitting' \subseteq submitting
    BY <1>1, <1>5
<1> QED BY <1>1, <1>2, <1>3, <1>4, <1>5
       DEF Next, vars, requests, Abandon, Create, ApproveRead, DispatchReadPlan, TransitionRead,
           SubmitCommit, ApproveCommit, DispatchReadReservations, DispatchCommit,
           TransitionCommit, InsertAudit, Telemetry

LEMMA ApprovalsStep == Core /\ [Next]_vars => ApprovalsInStep'
<1> SUFFICES ASSUME Core, [Next]_vars, NEW q \in approving'
             PROVE  /\ q.version = 2 /\ plan'[q.plan].version >= 2
                    /\ q.user # plan'[q.plan].createdBy
    BY DEF ApprovalsInStep
<1>1. CASE q \in approving
    <2>1. q.plan \in Plans
        BY <1>1 DEF Core, TypeOK, Approval
    <2>2. /\ q.version = 2 /\ plan[q.plan].version >= 2
          /\ q.user # plan[q.plan].createdBy
        BY <1>1 DEF Core, RequestsInStep, ApprovalsInStep
    <2>3. plan[q.plan].version \in 0..4 /\ PlanMove(q.plan)
        BY <2>1, VersionTells, PlansMove DEF Core
    <2> QED BY <2>2, <2>3 DEF PlanMove
<1>2. ASSUME NEW r \in Requests, NEW p \in Plans, NEW user \in Users, ApproveRead(r, p, user),
             q \notin approving
      PROVE  /\ q.version = 2 /\ plan'[q.plan].version >= 2
             /\ q.user # plan'[q.plan].createdBy
    <2>1. q.plan = p /\ q.version = plan[p].version /\ q.user = user
        BY <1>2 DEF ApproveRead
    <2>2. plan' = plan /\ plan[p].version = 2 /\ user # plan[p].createdBy
        BY <1>2, VersionTells DEF ApproveRead, rows, Core
    <2> QED BY <2>1, <2>2
<1>3. CASE approving' \subseteq approving
    BY <1>1, <1>3
<1> QED BY <1>1, <1>2, <1>3
       DEF Next, vars, requests, Abandon, Create, SubmitReadPlan, DispatchReadPlan,
           TransitionRead, SubmitReadSite, SubmitCheckCluster, SubmitCommit, ApproveCommit,
           DispatchReadReservations, DispatchCommit, TransitionCommit, InsertAudit, Telemetry

\* What a plan has reserved changes with its submission alone.
LEMMA ReservedKept ==
    ASSUME Core, [Next]_vars, NEW p \in Plans, plan[p].version # 1
    PROVE  Reserved(p)' = Reserved(p)
<1>1. ASSUME NEW q \in submitting, SubmitCommit(q) PROVE Reserved(p)' = Reserved(p)
    <2>1. q.plan # p
        BY <1>1, SubmitUpdates DEF Core
    <2>2. TypeOK /\ RequestsInStep
        BY DEF Core
    <2>3. \E new \in SUBSET Reservation :
              /\ reservations' = reservations \cup new
              /\ \A x \in new : x.plan = q.plan
        BY <1>1, <2>2, SubmitReserves
    <2> QED BY <2>1, <2>3 DEF Reserved
<1>2. CASE UNCHANGED reservations
    BY <1>2 DEF Reserved
<1> QED BY <1>1, <1>2, NextCases
       DEF Create, ApproveCommit, DispatchCommit, TransitionCommit, InsertAudit

LEMMA DispatchesStep == Core /\ [Next]_vars => DispatchesInStep'
<1> SUFFICES ASSUME Core, [Next]_vars, NEW q \in dispatching'
             PROVE  /\ q.version = 3 /\ q.expected >= 3 /\ plan'[q.plan].version >= 3
                    /\ q.targets \in {{}, Reserved(q.plan)'}
    BY DEF DispatchesInStep, Reserved
<1>1. CASE q \in dispatching
    <2>1. q.plan \in Plans
        BY <1>1 DEF Core, TypeOK, Dispatching
    <2>2. /\ q.version = 3 /\ q.expected >= 3 /\ plan[q.plan].version >= 3
          /\ q.targets \in {{}, Reserved(q.plan)}
        BY <1>1 DEF Core, RequestsInStep, DispatchesInStep
    <2>3. plan[q.plan].version \in 0..4 /\ PlanMove(q.plan)
        BY <2>1, VersionTells, PlansMove DEF Core
    <2>4. Reserved(q.plan)' = Reserved(q.plan)
        BY <2>1, <2>2, ReservedKept
    <2> QED BY <2>2, <2>3, <2>4 DEF PlanMove
<1>2. ASSUME NEW r \in Requests, NEW p \in Plans, NEW expected \in 1..MaxPlanVersion,
             DispatchReadPlan(r, p, expected), q \notin dispatching
      PROVE  /\ q.version = 3 /\ q.expected >= 3 /\ plan'[q.plan].version >= 3
             /\ q.targets \in {{}, Reserved(q.plan)'}
    <2>1. /\ q.plan = p /\ q.version = plan[p].version /\ q.expected = expected
          /\ q.targets = {}
        BY <1>2 DEF DispatchReadPlan
    <2>2. plan' = plan /\ plan[p].version = 3 /\ expected >= plan[p].version
        BY <1>2, VersionTells DEF DispatchReadPlan, rows, Core
    <2> QED BY <2>1, <2>2
<1>3. ASSUME NEW k \in dispatching, DispatchReadReservations(k), q \notin dispatching
      PROVE  /\ q.version = 3 /\ q.expected >= 3 /\ plan'[q.plan].version >= 3
             /\ q.targets \in {{}, Reserved(q.plan)'}
    <2>1. k \in Dispatching /\ q = [k EXCEPT !.targets = Reserved(k.plan)]
        BY <1>3 DEF DispatchReadReservations, Core, TypeOK
    <2>2. Reserved(k.plan) \in SUBSET Clusters
        BY DEF Reserved, Core, TypeOK, Reservation
    <2>3. /\ q.plan = k.plan /\ q.version = k.version /\ q.expected = k.expected
          /\ q.targets = Reserved(k.plan)
        BY <2>1, <2>2, DispatchingNoted
    <2>4. plan' = plan /\ reservations' = reservations
        BY <1>3 DEF DispatchReadReservations, rows
    <2>5. Reserved(q.plan)' = Reserved(k.plan)
        BY <2>3, <2>4 DEF Reserved
    <2> QED BY <2>3, <2>4, <2>5 DEF Core, RequestsInStep, DispatchesInStep
<1>4. CASE dispatching' \subseteq dispatching
    BY <1>1, <1>4
<1> QED BY <1>1, <1>2, <1>3, <1>4
       DEF Next, vars, requests, Abandon, Create, SubmitReadPlan, ApproveRead, TransitionRead,
           SubmitReadSite, SubmitCheckCluster, SubmitCommit, ApproveCommit, DispatchCommit,
           TransitionCommit, InsertAudit, Telemetry

\* How a site may move: a submission adds power to an active one, a transition
\* takes it to a state its own allows, and every change makes a new version.
SiteMove(s) ==
    \/ site'[s] = site[s]
    \/ /\ site'[s].version = site[s].version + 1
       /\ \/ /\ site[s].status = "active" /\ site'[s].status = "active"
             /\ site'[s].reserved > site[s].reserved
          \/ /\ site'[s].status \in Allowed(site[s].status)
             /\ site'[s].reserved = site[s].reserved
             /\ site'[s].status = "retired" => site[s].reserved = 0

LEMMA SitesMove == Core /\ [Next]_vars => \A s \in Sites : SiteMove(s)
<1> SUFFICES ASSUME Core, [Next]_vars, NEW s \in Sites PROVE SiteMove(s)
    OBVIOUS
<1>1. TypeOK /\ RequestsInStep /\ site[s] \in SiteRow
    BY DEF Core, TypeOK
<1>2. ASSUME NEW q \in submitting, SubmitCommit(q) PROVE SiteMove(s)
    <2>1. CASE s = plan[q.plan].site
        BY <1>1, <1>2, <2>1, SubmitUpdates, SubmissionOf DEF SiteMove, SiteRow
    <2>2. CASE s # plan[q.plan].site
        BY <1>1, <1>2, <2>2, SubmitUpdates DEF SiteMove
    <2> QED BY <2>1, <2>2
<1>3. ASSUME NEW q \in changing, TransitionCommit(q) PROVE SiteMove(s)
    <2>1. CASE s = q.site
        <3>1. /\ site[s].version = q.version
              /\ site'[s] = [status |-> q.next, reserved |-> q.reserved, version |-> q.version + 1]
            BY <1>3, <2>1 DEF TransitionCommit, Core, TypeOK
        <3> QED BY <1>1, <2>1, <3>1 DEF RequestsInStep, ChangesInStep, SiteMove
    <2>2. CASE s # q.site
        BY <1>3, <2>2 DEF TransitionCommit, SiteMove, Core, TypeOK
    <2> QED BY <2>1, <2>2
<1>4. CASE UNCHANGED site
    BY <1>4 DEF SiteMove
<1> QED BY <1>2, <1>3, <1>4, NextCases DEF Create, ApproveCommit, DispatchCommit, InsertAudit

LEMMA ChangesStep == Core /\ [Next]_vars => ChangesInStep'
<1> SUFFICES ASSUME Core, [Next]_vars, NEW q \in changing'
             PROVE  /\ q.version <= site'[q.site].version
                    /\ q.version = site'[q.site].version =>
                          /\ q.reserved = site'[q.site].reserved
                          /\ q.next \in Allowed(site'[q.site].status)
                          /\ q.next = "retired" => site'[q.site].reserved = 0
    BY DEF ChangesInStep
<1>1. CASE q \in changing
    <2>1. q \in Change /\ q.site \in Sites /\ q.version \in Nat
        BY <1>1 DEF Core, TypeOK, Change
    <2>2. SiteMove(q.site) /\ site[q.site].version \in Nat
        BY <2>1, SitesMove DEF Core, TypeOK, SiteRow
    <2>3. /\ q.version <= site[q.site].version
          /\ q.version = site[q.site].version =>
                /\ q.reserved = site[q.site].reserved
                /\ q.next \in Allowed(site[q.site].status)
                /\ q.next = "retired" => site[q.site].reserved = 0
        BY <1>1 DEF Core, RequestsInStep, ChangesInStep
    <2> QED BY <2>1, <2>2, <2>3 DEF SiteMove
<1>2. ASSUME NEW r \in Requests, NEW s \in Sites, NEW next \in Asked, TransitionRead(r, s, next),
             q \notin changing
      PROVE  /\ q.version <= site'[q.site].version
             /\ q.version = site'[q.site].version =>
                   /\ q.reserved = site'[q.site].reserved
                   /\ q.next \in Allowed(site'[q.site].status)
                   /\ q.next = "retired" => site'[q.site].reserved = 0
    <2>1. /\ q.site = s /\ q.next = next /\ q.reserved = site[s].reserved
          /\ q.version = site[s].version
        BY <1>2 DEF TransitionRead
    <2>2. /\ site' = site /\ next \in Allowed(site[s].status)
          /\ next = "retired" => site[s].reserved = 0
        BY <1>2 DEF TransitionRead, rows
    <2>3. site[s].version \in Nat
        BY DEF Core, TypeOK, SiteRow
    <2> QED BY <2>1, <2>2, <2>3
<1>3. CASE changing' \subseteq changing
    BY <1>1, <1>3
<1> QED BY <1>1, <1>2, <1>3
       DEF Next, vars, requests, Abandon, Create, SubmitReadPlan, ApproveRead, DispatchReadPlan,
           SubmitReadSite, SubmitCheckCluster, SubmitCommit, ApproveCommit,
           DispatchReadReservations, DispatchCommit, TransitionCommit, InsertAudit, Telemetry

LEMMA JobsStep == Core /\ [Next]_vars => OneJobPerReservation'
<1> SUFFICES ASSUME Core, [Next]_vars, NEW p \in Plans, NEW c \in Clusters
             PROVE  jobs'[p][c] =
                       IF plan'[p].status = "dispatched" /\ c \in Reserved(p)' THEN 1 ELSE 0
    BY DEF OneJobPerReservation, Reserved
<1>1. TypeOK /\ RequestsInStep
    BY DEF Core
<1>2. jobs[p][c] = IF plan[p].status = "dispatched" /\ c \in Reserved(p) THEN 1 ELSE 0
    BY DEF Core, OneJobPerReservation
<1>3. ASSUME NEW q \in dispatching, DispatchCommit(q), p = q.plan
      PROVE  jobs'[p][c] =
                IF plan'[p].status = "dispatched" /\ c \in Reserved(p)' THEN 1 ELSE 0
    <2>1. plan[p].status = "approved" /\ plan'[p].status = "dispatched"
        BY <1>1, <1>3, DispatchOnce, DispatchUpdates
    <2>2. /\ q.targets = Reserved(p)
          /\ c \in q.targets => jobs'[p][c] = 1
          /\ c \notin q.targets => jobs'[p][c] = jobs[p][c]
        BY <1>1, <1>3, DispatchUpdates
    <2>3. Reserved(p)' = Reserved(p)
        BY <1>3 DEF DispatchCommit, Reserved
    <2> QED BY <1>2, <2>1, <2>2, <2>3
<1>4. CASE jobs'[p] = jobs[p]
    <2>1. CASE plan'[p].status = "dispatched" /\ plan[p].status # "dispatched"
        <3>1. plan'[p] # plan[p]
            BY <2>1
        <3>2. \A q \in dispatching : DispatchCommit(q) => q.plan # p
            <4> SUFFICES ASSUME NEW q \in dispatching, DispatchCommit(q), q.plan = p
                         PROVE  FALSE
                OBVIOUS
            <4>1. PICK k \in Clusters : k \in Reserved(p) /\ jobs[p][k] = 0 /\ jobs'[p][k] = 1
                BY <1>1, DispatchUpdates DEF TypeOK, Reserved, Reservation
            <4> QED BY <1>4, <4>1
        <3>3. CASE \E q \in dispatching : DispatchCommit(q)
            BY <1>1, <3>1, <3>2, <3>3, DispatchUpdates
        <3>4. CASE \E q \in submitting : SubmitCommit(q)
            BY <1>1, <2>1, <3>1, <3>4, SubmitUpdates
        <3>5. CASE \E q \in approving : ApproveCommit(q)
            BY <1>1, <2>1, <3>1, <3>5, ApproveUpdates
        <3>6. CASE \E r \in Requests, k \in Plans, user \in Users, input \in Inputs :
                       Create(r, k, user, input)
            BY <1>1, <2>1, <3>1, <3>6 DEF Create, TypeOK
        <3> QED BY <3>1, <3>3, <3>4, <3>5, <3>6, NextCases DEF TransitionCommit, InsertAudit
    <2>2. CASE plan'[p].status # "dispatched"
        <3>1. plan[p].status # "dispatched"
            BY <2>2, PlansMove DEF PlanMove
        <3> QED BY <1>2, <1>4, <2>2, <3>1
    <2>3. CASE plan'[p].status = "dispatched" /\ plan[p].status = "dispatched"
        <3>1. Reserved(p)' = Reserved(p)
            BY <1>1, <2>3, VersionTells, ReservedKept
        <3> QED BY <1>2, <1>4, <2>3, <3>1
    <2> QED BY <2>1, <2>2, <2>3
<1>5. ASSUME NEW q \in dispatching, DispatchCommit(q), p # q.plan PROVE jobs'[p] = jobs[p]
    BY <1>1, <1>5, DispatchUpdates
<1> QED BY <1>3, <1>4, <1>5, NextCases
       DEF Create, SubmitCommit, ApproveCommit, TransitionCommit, InsertAudit

\* The rows and the requests in flight have their types, and requests are never
\* ahead of the rows nor wrong about the version they have read; no dispatch
\* makes a second set of jobs (the versions of plans and sites, the unique keys).
THEOREM CoreInvariant == Spec => []Core
<1>1. Init => Core
    <2> SUFFICES ASSUME Init PROVE Core
        OBVIOUS
    <2>1. TypeOK
        BY TypeInit
    <2>2. RequestsInStep
        BY DEF Init, RequestsInStep, PlansInStep, SubmissionsInStep, ApprovalsInStep,
               DispatchesInStep, ChangesInStep, NoPlan
    <2>3. OneJobPerReservation
        BY DEF Init, OneJobPerReservation, NoPlan
    <2> QED BY <2>1, <2>2, <2>3 DEF Core
<1>2. Core /\ [Next]_vars => Core'
    BY TypeStep, PlansStep, SubmissionsStep, ApprovalsStep, DispatchesStep, ChangesStep, JobsStep
       DEF Core, RequestsInStep
<1> QED BY <1>1, <1>2, PTL DEF Spec

\* The types alone (rows of the tables and what the handlers hold).
THEOREM TypeCorrect == Spec => []TypeOK
BY CoreInvariant, PTL DEF Core

\* What a request has read is true at the version it holds (the version columns).
THEOREM RequestsStayInStep == Spec => []RequestsInStep
BY CoreInvariant, PTL DEF Core

\* A plan is dispatched once, with one job for each of its reservations
\* (DispatchPlanAtomic).
THEOREM DispatchedOnce == Spec => []OneJobPerReservation
BY CoreInvariant, PTL DEF Core

------------------------------------------------------------------------------
(* What the versions protect *)

\* A plan goes through its states one version at a time and keeps what it asks
\* for, its creator and its approver, whichever of two late commits wins
\* (UpdatePlan, SubmitPlanAtomic, DispatchPlanAtomic).
THEOREM PlansOnlyAdvance == Spec => PlanOnlyAdvances
<1>1. ASSUME Core, [Next]_vars
      PROVE  [\A p \in Plans : plan'[p] # plan[p] =>
                /\ <<plan[p].status, plan'[p].status>> \in
                      {<<"none", "draft">>, <<"draft", "submitted">>, <<"submitted", "approved">>,
                       <<"approved", "dispatched">>}
                /\ plan'[p].version = plan[p].version + 1
                /\ plan[p].status # "none" =>
                      /\ plan'[p].kw = plan[p].kw /\ plan'[p].window = plan[p].window
                      /\ plan'[p].createdBy = plan[p].createdBy
                /\ plan[p].approvedBy # NoUser => plan'[p].approvedBy = plan[p].approvedBy]_vars
    <2> SUFFICES ASSUME NEW p \in Plans, plan'[p] # plan[p]
                 PROVE  /\ <<plan[p].status, plan'[p].status>> \in
                              {<<"none", "draft">>, <<"draft", "submitted">>,
                               <<"submitted", "approved">>, <<"approved", "dispatched">>}
                        /\ plan'[p].version = plan[p].version + 1
                        /\ plan[p].status # "none" =>
                              /\ plan'[p].kw = plan[p].kw /\ plan'[p].window = plan[p].window
                              /\ plan'[p].createdBy = plan[p].createdBy
                        /\ plan[p].approvedBy # NoUser =>
                              plan'[p].approvedBy = plan[p].approvedBy
        OBVIOUS
    <2>1. PlanMove(p)
        BY <1>1, PlansMove
    <2>2. /\ plan[p].version \in 0..4
          /\ plan[p].version = 0 <=> plan[p].status = "none"
        BY <1>1, VersionTells DEF Core
    <2>3. plan[p].version = 2 => plan[p].approvedBy = NoUser
        BY <1>1 DEF Core, RequestsInStep, PlansInStep
    <2> QED BY <2>1, <2>2, <2>3 DEF PlanMove
<1> QED BY <1>1, CoreInvariant, PTL DEF Spec, PlanOnlyAdvances

\* Two people stand behind every dispatched plan (Plan.Approve).
THEOREM TwoPeople == Spec => []FourEyes
<1>1. Init => FourEyes
    BY DEF Init, FourEyes, NoPlan
<1>2. Core /\ FourEyes /\ [Next]_vars => FourEyes'
    <2> SUFFICES ASSUME Core, FourEyes, [Next]_vars, NEW p \in Plans,
                        plan'[p].status \in {"approved", "dispatched"}
                 PROVE  plan'[p].approvedBy \in Users \ {plan'[p].createdBy}
        BY DEF FourEyes
    <2>1. PlanMove(p)
        BY PlansMove
    <2>2. /\ plan[p].version = 2 <=> plan[p].status = "submitted"
          /\ plan[p].version = 3 <=> plan[p].status = "approved"
          /\ plan[p].version \in 0..4
        BY VersionTells DEF Core
    <2> QED BY <2>1, <2>2 DEF FourEyes, PlanMove
<1> QED BY <1>1, <1>2, CoreInvariant, PTL DEF Spec

\* The power of a plan that reserves is in its site's reserved_kw, and a retired
\* site has none: what Site.Transition looks at, it looks at in the same version.
RetiredEmpty ==
    /\ \A p \in Plans : Reserving(p) => site[plan[p].site].reserved > 0
    /\ \A s \in Sites : site[s].status = "retired" => site[s].reserved = 0

LEMMA RetiredEmptyStep == Core /\ RetiredEmpty /\ [Next]_vars => RetiredEmpty'
<1> SUFFICES ASSUME Core, RetiredEmpty, [Next]_vars PROVE RetiredEmpty'
    OBVIOUS
<1>1. TypeOK /\ RequestsInStep
    BY DEF Core
<1>2. ASSUME NEW s \in Sites
      PROVE  /\ SiteMove(s) /\ site[s] \in SiteRow /\ site[s].reserved \in Nat
             /\ site'[s].reserved \in Nat /\ site'[s].reserved >= site[s].reserved
    <2>1. SiteMove(s) /\ TypeOK'
        BY <1>1, SitesMove, TypeStep
    <2>2. site[s] \in SiteRow /\ site[s].reserved \in Nat /\ site'[s].reserved \in Nat
        BY <1>1, <2>1 DEF TypeOK, SiteRow
    <2> QED BY <2>1, <2>2 DEF SiteMove
<1>3. ASSUME NEW p \in Plans, Reserving(p)' PROVE site'[plan'[p].site].reserved > 0
    <2>1. /\ plan'[p].status \in {"submitted", "approved", "dispatched"}
          /\ PlanMove(p)
        BY <1>3, PlansMove DEF Reserving
    <2>2. CASE Reserving(p)
        <3>1. plan[p].version >= 2 /\ plan[p].version \in Nat
            BY <1>1, <2>2, VersionTells DEF Reserving
        <3>2. plan[p].site \in Sites /\ plan'[p].site = plan[p].site
            BY <1>1, <2>1, <3>1 DEF PlanMove, RequestsInStep, PlansInStep
        <3>3. site[plan[p].site].reserved > 0
            BY <2>2 DEF RetiredEmpty
        <3>4. /\ site'[plan[p].site].reserved >= site[plan[p].site].reserved
              /\ site'[plan[p].site].reserved \in Nat /\ site[plan[p].site].reserved \in Nat
            BY <1>2, <3>2
        <3> QED BY <3>2, <3>3, <3>4
    <2>3. CASE ~Reserving(p)
        <3>1. plan'[p] # plan[p] /\ plan[p].status = "draft"
            BY <2>1, <2>3 DEF Reserving, PlanMove
        <3>2. PICK q \in submitting : SubmitCommit(q) /\ q.plan = p
            <4>1. CASE \E q \in dispatching : DispatchCommit(q)
                BY <1>1, <3>1, <4>1, DispatchOnce, DispatchUpdates
            <4>2. CASE \E q \in approving : ApproveCommit(q)
                BY <1>1, <3>1, <4>2, ApproveUpdates, VersionTells
            <4>3. CASE \E q \in submitting : SubmitCommit(q)
                BY <1>1, <3>1, <4>3, SubmitUpdates
            <4>4. CASE \E r \in Requests, k \in Plans, user \in Users, input \in Inputs :
                           Create(r, k, user, input)
                BY <1>1, <3>1, <4>4 DEF Create, TypeOK
            <4> QED BY <3>1, <4>1, <4>2, <4>3, <4>4, NextCases DEF TransitionCommit, InsertAudit
        <3>3. /\ plan'[p].site = plan[p].site /\ plan[p].site \in Sites
              /\ plan[p].kw \in Nat \ {0}
              /\ site'[plan[p].site].reserved = site[plan[p].site].reserved + plan[p].kw
            BY <1>1, <3>2, SubmitUpdates, SubmissionOf
        <3> QED BY <1>2, <3>3
    <2> QED BY <2>2, <2>3
<1>4. ASSUME NEW s \in Sites, site'[s].status = "retired" PROVE site'[s].reserved = 0
    BY <1>2, <1>4 DEF SiteMove, RetiredEmpty
<1> QED BY <1>3, <1>4 DEF RetiredEmpty

\* No plan holds power of a retired site (Site.Transition against SubmitPlanAtomic).
THEOREM RetiredSitesIdle == Spec => []RetiredSiteIdle
<1>1. Init => RetiredEmpty
    BY DEF Init, RetiredEmpty, Reserving, NoPlan
<1>2. RetiredEmpty => RetiredSiteIdle
    BY DEF RetiredEmpty, RetiredSiteIdle
<1> QED BY <1>1, <1>2, RetiredEmptyStep, CoreInvariant, PTL DEF Spec

\* A cluster is held by one plan at most, and is held exactly when its state says
\* so: SubmitPlanAtomic takes available clusters only, whatever it finds of the
\* windows.
THEOREM ClustersHeldOnce == Spec => []ClusterHeldOnce
<1>1. Init => ClusterHeldOnce
    BY DEF Init, ClusterHeldOnce
<1>2. Core /\ ClusterHeldOnce /\ [Next]_vars => ClusterHeldOnce'
    <2> SUFFICES ASSUME Core, ClusterHeldOnce, [Next]_vars, NEW c \in Clusters
                 PROVE  /\ cluster'[c].status = "reserved" <=> \E x \in reservations' : x.cluster = c
                        /\ \A x, y \in reservations' : x.cluster = c /\ y.cluster = c => x = y
        BY DEF ClusterHeldOnce
    <2>1. /\ cluster[c].status = "reserved" <=> \E x \in reservations : x.cluster = c
          /\ \A x, y \in reservations : x.cluster = c /\ y.cluster = c => x = y
        BY DEF ClusterHeldOnce
    <2>2. ASSUME NEW q \in submitting, SubmitCommit(q)
          PROVE  /\ cluster'[c].status = "reserved" <=> \E x \in reservations' : x.cluster = c
                 /\ \A x, y \in reservations' : x.cluster = c /\ y.cluster = c => x = y
        <3>1. TypeOK /\ RequestsInStep
            BY DEF Core
        <3>2. PICK new \in SUBSET Reservation :
                 /\ reservations' = reservations \cup new
                 /\ {x.cluster : x \in new} = q.selected
                 /\ \A x, y \in new : x.cluster = y.cluster => x = y
            BY <2>2, <3>1, SubmitReserves
        <3>3. /\ c \in q.selected => cluster[c].status = "available" /\ cluster'[c].status = "reserved"
              /\ c \notin q.selected => cluster'[c] = cluster[c]
            BY <2>2, <3>1, SubmitUpdates
        <3>4. CASE c \in q.selected
            <4>1. \A x \in reservations : x.cluster # c
                BY <2>1, <3>3, <3>4
            <4>2. \E x \in new : x.cluster = c
                BY <3>2, <3>4
            <4> QED BY <3>2, <3>3, <3>4, <4>1, <4>2
        <3>5. CASE c \notin q.selected
            <4>1. \A x \in new : x.cluster # c
                BY <3>2, <3>5
            <4> QED BY <2>1, <3>2, <3>3, <3>5, <4>1
        <3> QED BY <3>4, <3>5
    <2>3. ASSUME NEW k \in Clusters, NEW soc \in Socs, cluster' = [cluster EXCEPT ![k].soc = soc]
          PROVE  cluster'[c].status = cluster[c].status
        BY <2>3 DEF Core, TypeOK, ClusterRow
    <2>4. CASE UNCHANGED reservations /\ cluster'[c].status = cluster[c].status
        BY <2>1, <2>4
    <2> QED BY <2>2, <2>3, <2>4, NextCases
           DEF Create, ApproveCommit, DispatchCommit, TransitionCommit, InsertAudit
<1> QED BY <1>1, <1>2, CoreInvariant, PTL DEF Spec

------------------------------------------------------------------------------
(* The capacity *)

\* Submissions alone reserve: any other step keeps the reservations, which plans
\* reserve and what they asked for, and the power that sites have reserved.
LEMMA SubmitAlone ==
    ASSUME Core, [Next]_vars
    PROVE  \/ \E q \in submitting : SubmitCommit(q)
           \/ /\ UNCHANGED reservations
              /\ \A p \in Plans :
                    /\ Reserving(p)' <=> Reserving(p)
                    /\ Reserving(p) => /\ plan'[p].site = plan[p].site /\ plan'[p].kw = plan[p].kw
                                       /\ plan'[p].window = plan[p].window
              /\ \A s \in Sites : site'[s].reserved = site[s].reserved
<1>1. SUFFICES ASSUME \A q \in submitting : ~SubmitCommit(q)
      PROVE  /\ UNCHANGED reservations
             /\ \A p \in Plans :
                   /\ Reserving(p)' <=> Reserving(p)
                   /\ Reserving(p) => /\ plan'[p].site = plan[p].site /\ plan'[p].kw = plan[p].kw
                                      /\ plan'[p].window = plan[p].window
             /\ \A s \in Sites : site'[s].reserved = site[s].reserved
    OBVIOUS
<1>2. TypeOK /\ RequestsInStep
    BY DEF Core
<1>3. UNCHANGED reservations
    BY <1>1, NextCases DEF Create, ApproveCommit, DispatchCommit, TransitionCommit, InsertAudit
<1>4. ASSUME NEW p \in Plans
      PROVE  /\ Reserving(p)' <=> Reserving(p)
             /\ Reserving(p) => /\ plan'[p].site = plan[p].site /\ plan'[p].kw = plan[p].kw
                                /\ plan'[p].window = plan[p].window
    <2>1. PlanMove(p) /\ (Reserving(p) => plan[p].version > 0)
        BY <1>2, PlansMove, VersionTells DEF Reserving
    <2>2. ~(plan[p].status = "draft" /\ plan'[p].status = "submitted")
        <3>1. ASSUME NEW q \in dispatching, DispatchCommit(q)
              PROVE  plan'[p] = plan[p] \/ plan[p].status # "draft"
            BY <1>2, <3>1, DispatchOnce, DispatchUpdates
        <3>2. ASSUME NEW q \in approving, ApproveCommit(q)
              PROVE  plan'[p] = plan[p] \/ plan[p].status # "draft"
            BY <1>2, <3>2, ApproveUpdates, VersionTells
        <3>3. ASSUME NEW r \in Requests, NEW k \in Plans, NEW user \in Users, NEW input \in Inputs,
                     Create(r, k, user, input)
              PROVE  plan'[p] = plan[p] \/ plan[p].status # "draft"
            BY <1>2, <3>3 DEF Create, TypeOK
        <3> QED BY <1>1, <3>1, <3>2, <3>3, NextCases DEF TransitionCommit, InsertAudit
    <2> QED BY <2>1, <2>2 DEF Reserving, PlanMove
<1>5. ASSUME NEW s \in Sites PROVE site'[s].reserved = site[s].reserved
    <2>1. ASSUME NEW q \in changing, TransitionCommit(q)
          PROVE  site'[s].reserved = site[s].reserved
        <3>1. CASE s = q.site
            <4>1. /\ site[s].version = q.version
                  /\ site'[s] = [status |-> q.next, reserved |-> q.reserved,
                                 version |-> q.version + 1]
                BY <1>2, <2>1, <3>1 DEF TransitionCommit, TypeOK
            <4> QED BY <1>2, <3>1, <4>1 DEF RequestsInStep, ChangesInStep
        <3>2. CASE s # q.site
            BY <1>2, <2>1, <3>2 DEF TransitionCommit, TypeOK
        <3> QED BY <3>1, <3>2
    <2>2. CASE UNCHANGED site
        BY <2>2
    <2> QED BY <1>1, <2>1, <2>2, NextCases DEF Create, ApproveCommit, DispatchCommit, InsertAudit
<1> QED BY <1>3, <1>4, <1>5

\* The clusters that a submission has checked are on the site of its plan.
CheckedAtHome ==
    \A q \in submitting : \A c \in q.selected \ q.unchecked : Home[c] = plan[q.plan].site

LEMMA CheckedStep == Core /\ CheckedAtHome /\ [Next]_vars => CheckedAtHome'
<1> SUFFICES ASSUME Core, CheckedAtHome, [Next]_vars,
                    NEW q \in submitting', NEW c \in q.selected \ q.unchecked
             PROVE  Home[c] = plan'[q.plan].site
    BY DEF CheckedAtHome
<1>0. TypeOK /\ RequestsInStep
    BY DEF Core
<1>1. ASSUME NEW k \in submitting PROVE plan'[k.plan].site = plan[k.plan].site
    <2>1. k.plan \in Plans /\ plan[k.plan].version >= 1
        BY <1>0, <1>1, SubmissionOf DEF RequestsInStep, SubmissionsInStep
    <2>2. PlanMove(k.plan) /\ plan[k.plan].version \in 0..4
        BY <1>0, <2>1, PlansMove, VersionTells
    <2> QED BY <2>1, <2>2 DEF PlanMove
<1>2. CASE q \in submitting
    BY <1>1, <1>2 DEF CheckedAtHome
<1>3. ASSUME NEW r \in Requests, NEW p \in Plans, NEW selected \in SUBSET Clusters,
             SubmitReadPlan(r, p, selected), q \notin submitting
      PROVE  FALSE
    BY <1>3 DEF SubmitReadPlan
<1>4. ASSUME NEW k \in submitting, SubmitReadSite(k), q \notin submitting
      PROVE  Home[c] = plan'[q.plan].site
    <2>1. k \in Submission /\ q = [k EXCEPT !.siteVersion = site[plan[k.plan].site].version]
        BY <1>0, <1>4 DEF SubmitReadSite, TypeOK
    <2>2. q.plan = k.plan /\ q.selected = k.selected /\ q.unchecked = k.unchecked
        BY <2>1 DEF Submission
    <2> QED BY <1>1, <1>4, <2>2 DEF CheckedAtHome
<1>5. ASSUME NEW k \in submitting, NEW d \in k.unchecked, SubmitCheckCluster(k, d),
             q \notin submitting
      PROVE  Home[c] = plan'[q.plan].site
    <2>1. /\ k \in Submission /\ q = [k EXCEPT !.unchecked = k.unchecked \ {d}]
          /\ Home[d] = plan[k.plan].site
        BY <1>0, <1>5 DEF SubmitCheckCluster, TypeOK
    <2>2. q.plan = k.plan /\ q.selected = k.selected /\ q.unchecked = k.unchecked \ {d}
        BY <2>1 DEF Submission
    <2>3. c = d \/ c \in k.selected \ k.unchecked
        BY <2>2
    <2> QED BY <1>1, <1>5, <2>1, <2>2, <2>3 DEF CheckedAtHome
<1>6. CASE submitting' \subseteq submitting
    BY <1>2, <1>6
<1> QED BY <1>2, <1>3, <1>4, <1>5, <1>6
       DEF Next, vars, requests, Abandon, Create, ApproveRead, DispatchReadPlan, TransitionRead,
           SubmitCommit, ApproveCommit, DispatchReadReservations, DispatchCommit,
           TransitionCommit, InsertAudit, Telemetry

\* The reservations of a plan.
Own(p) == {x \in reservations : x.plan = p}

\* ReservationsCoverPlan of one plan.
Covered(p) ==
    /\ Own(p) # {} <=> Reserving(p)
    /\ \A x \in Own(p) : /\ Home[x.cluster] = plan[p].site /\ x.window = plan[p].window
                         /\ x.kw \in 1..Rated[x.cluster]
    /\ Reserving(p) => SumFunction([x \in Own(p) |-> x.kw]) = plan[p].kw

\* What the induction needs besides Core.
Booked == CheckedAtHome /\ IsFiniteSet(reservations) /\ \A p \in Plans : Covered(p)

\* A submission's reservations are all that its plan has, and leave those of the
\* other plans alone.
LEMMA SubmitBooks ==
    ASSUME Core, Booked, NEW q \in submitting, SubmitCommit(q)
    PROVE  \E new \in SUBSET Reservation :
              /\ reservations' = reservations \cup new /\ reservations \cap new = {}
              /\ new # {}
              /\ \A x \in new : /\ x.plan = q.plan /\ x.window = plan[q.plan].window
                                /\ Home[x.cluster] = plan[q.plan].site
              /\ Covers(new, q)
              /\ Own(q.plan)' = new
              /\ \A p \in Plans \ {q.plan} : Own(p)' = Own(p)
<1>1. TypeOK /\ RequestsInStep /\ q.plan \in Plans /\ q.selected # {} /\ q.unchecked = {}
    BY SubmissionOf DEF Core, RequestsInStep, SubmissionsInStep, SubmitCommit, Checked
<1>2. PICK new \in SUBSET Reservation :
          /\ reservations' = reservations \cup new
          /\ {x.cluster : x \in new} = q.selected
          /\ \A x \in new : x.plan = q.plan /\ x.window = plan[q.plan].window
          /\ Covers(new, q)
    BY <1>1, SubmitShares
<1>3. Own(q.plan) = {}
    <2>1. ~Reserving(q.plan)
        BY <1>1, SubmitUpdates, VersionTells DEF Reserving
    <2> QED BY <1>1, <2>1 DEF Booked, Covered
<1>4. \A x \in new : Home[x.cluster] = plan[q.plan].site
    BY <1>1, <1>2 DEF Booked, CheckedAtHome
<1>5. new # {} /\ reservations \cap new = {}
    BY <1>1, <1>2, <1>3 DEF Own
<1>6. Own(q.plan)' = new
    BY <1>2, <1>3 DEF Own
<1>7. \A p \in Plans \ {q.plan} : Own(p)' = Own(p)
    BY <1>2 DEF Own
<1> QED BY <1>2, <1>4, <1>5, <1>6, <1>7

LEMMA BookedStep == Core /\ Booked /\ [Next]_vars => Booked'
<1> SUFFICES ASSUME Core, Booked, [Next]_vars PROVE Booked'
    OBVIOUS
<1>1. CheckedAtHome'
    BY CheckedStep DEF Booked
<1>2. ASSUME NEW q \in submitting, SubmitCommit(q)
      PROVE  IsFiniteSet(reservations') /\ \A p \in Plans : Covered(p)'
    <2>1. TypeOK /\ RequestsInStep
        BY DEF Core
    <2>2. PICK new \in SUBSET Reservation :
              /\ reservations' = reservations \cup new
              /\ new # {}
              /\ \A x \in new : /\ x.plan = q.plan /\ x.window = plan[q.plan].window
                                /\ Home[x.cluster] = plan[q.plan].site
              /\ Covers(new, q)
              /\ Own(q.plan)' = new
              /\ \A p \in Plans \ {q.plan} : Own(p)' = Own(p)
        BY <1>2, SubmitBooks
    <2>3. IsFiniteSet(reservations')
        BY <2>2, FS_Union DEF Booked, Covers
    <2>4. Covered(q.plan)'
        <3>1. /\ plan'[q.plan].status = "submitted" /\ plan'[q.plan].site = plan[q.plan].site
              /\ plan'[q.plan].kw = plan[q.plan].kw /\ plan'[q.plan].window = plan[q.plan].window
            BY <1>2, <2>1, SubmitUpdates
        <3>2. Own(q.plan)' = new /\ Reserving(q.plan)'
            BY <2>2, <3>1 DEF Reserving
        <3> QED BY <2>2, <3>1, <3>2 DEF Covered, Covers
    <2>5. ASSUME NEW p \in Plans \ {q.plan} PROVE Covered(p)'
        <3>1. plan'[p] = plan[p] /\ Own(p)' = Own(p)
            BY <1>2, <2>1, <2>2, SubmitUpdates
        <3>2. Covered(p)
            BY DEF Booked
        <3> QED BY <3>1, <3>2 DEF Covered, Reserving
    <2> QED BY <2>3, <2>4, <2>5
<1>3. CASE /\ UNCHANGED reservations
           /\ \A p \in Plans :
                 /\ Reserving(p)' <=> Reserving(p)
                 /\ Reserving(p) => /\ plan'[p].site = plan[p].site /\ plan'[p].kw = plan[p].kw
                                    /\ plan'[p].window = plan[p].window
    <2>1. ASSUME NEW p \in Plans PROVE Covered(p)'
        <3>1. Own(p)' = Own(p) /\ Covered(p)
            BY <1>3 DEF Own, Booked
        <3> QED BY <1>3, <3>1 DEF Covered
    <2> QED BY <1>1, <1>3, <2>1 DEF Booked
<1> QED BY <1>1, <1>2, <1>3, SubmitAlone DEF Booked

LEMMA BookedInvariant == Spec => []Booked
<1>1. Init => Booked
    BY FS_EmptySet DEF Init, Booked, CheckedAtHome, Covered, Own, Reserving, NoPlan
<1> QED BY <1>1, BookedStep, CoreInvariant, PTL DEF Spec

\* The reservations of a submitted plan cover what it asks for, on its own site;
\* no other plan has any (SubmitPlanAtomic, with AllocatePower's shares).
THEOREM ReservationsCover == Spec => []ReservationsCoverPlan
<1>1. Booked => ReservationsCoverPlan
    BY DEF Booked, Covered, Own, ReservationsCoverPlan
<1> QED BY <1>1, BookedInvariant, PTL

\* CapacityAccounted of one site: the plans it is charged for, and the reservations
\* on its clusters.
ChargedFor(s) == {p \in Plans : Reserving(p) /\ plan[p].site = s}
HeldAt(s) == {x \in reservations : Home[x.cluster] = s}

Accounted(s) ==
    /\ site[s].reserved = SumFunction([p \in ChargedFor(s) |-> plan[p].kw])
    /\ site[s].reserved = SumFunction([x \in HeldAt(s) |-> x.kw])
    /\ site[s].reserved <= GridLimit[s]

\* A submission adds its power to both sums, and to no other site's.
LEMMA SubmitAccounted ==
    ASSUME Core, Booked, NEW s \in Sites, Accounted(s), NEW q \in submitting, SubmitCommit(q)
    PROVE  Accounted(s)'
<1> DEFINE row == plan[q.plan]
<1>1. /\ TypeOK /\ RequestsInStep /\ TypeOK'
      /\ q.plan \in Plans /\ row.kw \in Nat /\ row.site \in Sites
    <2>1. TypeOK /\ RequestsInStep
        BY DEF Core
    <2>2. [Next]_vars
        BY DEF Next
    <2> QED BY <2>1, <2>2, TypeStep, SubmissionOf
<1>2. PICK new \in SUBSET Reservation :
          /\ reservations' = reservations \cup new /\ reservations \cap new = {}
          /\ \A x \in new : Home[x.cluster] = row.site
          /\ Covers(new, q)
    BY SubmitBooks
<1>3. /\ Reserving(q.plan)' /\ ~Reserving(q.plan)
      /\ plan'[q.plan].site = row.site /\ plan'[q.plan].kw = row.kw
      /\ \A p \in Plans \ {q.plan} : plan'[p] = plan[p] /\ (Reserving(p)' <=> Reserving(p))
    BY <1>1, SubmitUpdates, VersionTells DEF Reserving
<1>4. CASE s = row.site
    <2> DEFINE charges == [p \in ChargedFor(s)' |-> plan'[p].kw]
               charged == [p \in ChargedFor(s) |-> plan[p].kw]
               charge == [p \in {q.plan} |-> row.kw]
               holds == [x \in HeldAt(s)' |-> x.kw]
               held == [x \in HeldAt(s) |-> x.kw]
               hold == [x \in new |-> x.kw]
    <2>1. site'[s].reserved = site[s].reserved + row.kw /\ site'[s].reserved <= GridLimit[s]
        BY <1>1, <1>4, SubmitUpdates DEF SubmitCommit, Admitted, SiteTakes
    <2>2. SumFunction(charges) = SumFunction(charged) + row.kw
        <3>1. /\ ChargedFor(s)' = ChargedFor(s) \cup {q.plan}
              /\ ChargedFor(s) \cap {q.plan} = {}
            BY <1>1, <1>3, <1>4 DEF ChargedFor
        <3>2. \A p \in ChargedFor(s) : plan'[p] = plan[p]
            BY <1>3 DEF ChargedFor
        <3>3. IsFiniteSet(ChargedFor(s)') /\ \A p \in ChargedFor(s)' : plan'[p].kw \in Nat
            <4>1. ChargedFor(s)' \subseteq Plans
                BY DEF ChargedFor
            <4> QED BY <1>1, <4>1, FS_Subset, PlantAssumption DEF TypeOK, PlanRow
        <3>4. Weights(charges)
            BY <3>3 DEF Weights
        <3>5. /\ \A p \in DOMAIN charged : charged[p] = charges[p]
              /\ \A p \in DOMAIN charge : charge[p] = charges[p]
              /\ DOMAIN charges = DOMAIN charged \cup DOMAIN charge
              /\ DOMAIN charged \cap DOMAIN charge = {}
            BY <1>3, <3>1, <3>2
        <3>6. DOMAIN charge = {q.plan} /\ charge[q.plan] = row.kw
            OBVIOUS
        <3> HIDE DEF charges, charged, charge
        <3>7. Weights(charge) /\ SumFunction(charges) = SumFunction(charged) + SumFunction(charge)
            BY <3>4, <3>5, SumOfParts
        <3>8. SumFunction(charge) = row.kw
            BY <3>6, <3>7, SumOfOne
        <3> QED BY <3>7, <3>8
    <2>3. SumFunction(holds) = SumFunction(held) + row.kw
        <3>1. HeldAt(s)' = HeldAt(s) \cup new /\ HeldAt(s) \cap new = {}
            BY <1>2, <1>4 DEF HeldAt
        <3>2. IsFiniteSet(HeldAt(s)') /\ \A x \in HeldAt(s)' : x.kw \in Nat
            <4>1. HeldAt(s)' \subseteq reservations' /\ IsFiniteSet(reservations')
                BY <1>2, FS_Union DEF HeldAt, Booked, Covers
            <4> QED BY <1>1, <4>1, FS_Subset DEF TypeOK, Reservation
        <3>3. Weights(holds)
            BY <3>2 DEF Weights
        <3>4. /\ \A x \in DOMAIN held : held[x] = holds[x]
              /\ \A x \in DOMAIN hold : hold[x] = holds[x]
              /\ DOMAIN holds = DOMAIN held \cup DOMAIN hold
              /\ DOMAIN held \cap DOMAIN hold = {}
            BY <3>1
        <3>5. SumFunction(hold) = row.kw
            BY <1>2 DEF Covers
        <3> HIDE DEF holds, held, hold
        <3>6. SumFunction(holds) = SumFunction(held) + SumFunction(hold)
            BY <3>3, <3>4, SumOfParts
        <3> QED BY <3>5, <3>6
    <2>4. site[s].reserved = SumFunction(charged) /\ site[s].reserved = SumFunction(held)
        BY DEF Accounted
    <2> QED BY <2>1, <2>2, <2>3, <2>4 DEF Accounted
<1>5. CASE s # row.site
    <2>1. site'[s] = site[s]
        BY <1>1, <1>5, SubmitUpdates
    <2>2. ChargedFor(s)' = ChargedFor(s) /\ \A p \in ChargedFor(s) : plan'[p] = plan[p]
        BY <1>1, <1>3, <1>5 DEF ChargedFor
    <2>3. HeldAt(s)' = HeldAt(s)
        BY <1>2, <1>5 DEF HeldAt
    <2>4. [p \in ChargedFor(s)' |-> plan'[p].kw] = [p \in ChargedFor(s) |-> plan[p].kw]
        BY <2>2
    <2> QED BY <2>1, <2>3, <2>4 DEF Accounted
<1> QED BY <1>4, <1>5

LEMMA AccountedStep ==
    Core /\ Booked /\ (\A s \in Sites : Accounted(s)) /\ [Next]_vars
        => (\A s \in Sites : Accounted(s))'
<1> SUFFICES ASSUME Core, Booked, \A s \in Sites : Accounted(s), [Next]_vars, NEW s \in Sites
             PROVE  Accounted(s)'
    OBVIOUS
<1>1. CASE \E q \in submitting : SubmitCommit(q)
    BY <1>1, SubmitAccounted
<1>2. CASE /\ UNCHANGED reservations
           /\ \A p \in Plans :
                 /\ Reserving(p)' <=> Reserving(p)
                 /\ Reserving(p) => /\ plan'[p].site = plan[p].site /\ plan'[p].kw = plan[p].kw
                                    /\ plan'[p].window = plan[p].window
           /\ \A t \in Sites : site'[t].reserved = site[t].reserved
    <2>1. ChargedFor(s)' = ChargedFor(s) /\ HeldAt(s)' = HeldAt(s)
        BY <1>2 DEF ChargedFor, HeldAt
    <2>2. [p \in ChargedFor(s)' |-> plan'[p].kw] = [p \in ChargedFor(s) |-> plan[p].kw]
        <3>1. \A p \in ChargedFor(s) : plan'[p].kw = plan[p].kw
            BY <1>2 DEF ChargedFor
        <3> QED BY <2>1, <3>1
    <2>3. Accounted(s) /\ site'[s].reserved = site[s].reserved
        BY <1>2
    <2> QED BY <2>1, <2>2, <2>3 DEF Accounted
<1> QED BY <1>1, <1>2, SubmitAlone

LEMMA AccountedInvariant == Spec => [](\A s \in Sites : Accounted(s))
<1>1. Init => \A s \in Sites : Accounted(s)
    <2> SUFFICES ASSUME Init, NEW s \in Sites PROVE Accounted(s)
        OBVIOUS
    <2> DEFINE charged == [p \in ChargedFor(s) |-> plan[p].kw]
               held == [x \in HeldAt(s) |-> x.kw]
    <2>1. DOMAIN charged = {} /\ DOMAIN held = {}
        BY DEF Init, ChargedFor, HeldAt, Reserving, NoPlan
    <2>2. Weights(charged) /\ Weights(held)
        BY <2>1, FS_EmptySet DEF Weights
    <2>3. SumFunction(charged) = 0 /\ SumFunction(held) = 0
        <3> HIDE DEF charged, held
        <3> QED BY <2>1, <2>2, SumNat
    <2>4. site[s].reserved = 0 /\ 0 <= GridLimit[s]
        BY PlantAssumption DEF Init
    <2> QED BY <2>3, <2>4 DEF Accounted
<1> QED BY <1>1, AccountedStep, BookedInvariant, CoreInvariant, PTL DEF Spec

\* A site's reserved_kw is what its plans asked for and what their reservations
\* add up to, within the grid limit (SubmitPlanAtomic against UpdateSite).
THEOREM CapacityIsAccounted == Spec => []CapacityAccounted
<1>1. (\A s \in Sites : Accounted(s)) => CapacityAccounted
    BY DEF Accounted, ChargedFor, HeldAt, CapacityAccounted
<1> QED BY <1>1, AccountedInvariant, PTL

\* The events that are still owed are true, and none is of a transaction that
\* writes its own.
AuditsOwed ==
    \A q \in auditing :
        \/ \E p \in Plans : q.event = Event("create", p) /\ plan[p].version >= 1
        \/ \E p \in Plans : q.event = Event("approve", p) /\ plan[p].version >= 3
        \/ \E s \in Sites : q.event = Event("transition", s)

LEMMA EventEqual ==
    ASSUME NEW a, NEW b, NEW x, NEW y, Event(a, x) = Event(b, y)
    PROVE  a = b /\ x = y
BY DEF Event

LEMMA AuditsOwedStep == Core /\ AuditsOwed /\ [Next]_vars => AuditsOwed'
<1> SUFFICES ASSUME Core, AuditsOwed, [Next]_vars, NEW q \in auditing'
             PROVE  \/ \E p \in Plans : q.event = Event("create", p) /\ plan'[p].version >= 1
                    \/ \E p \in Plans : q.event = Event("approve", p) /\ plan'[p].version >= 3
                    \/ \E s \in Sites : q.event = Event("transition", s)
    BY DEF AuditsOwed, Event
<1>1. TypeOK /\ RequestsInStep
    BY DEF Core
<1>2. ASSUME NEW p \in Plans
      PROVE  plan[p].version \in Nat /\ plan'[p].version >= plan[p].version /\ plan'[p].version \in Nat
    <2>1. PlanMove(p) /\ plan[p].version \in 0..4
        BY <1>1, PlansMove, VersionTells
    <2> QED BY <2>1 DEF PlanMove
<1>3. CASE q \in auditing
    <2>1. CASE \E p \in Plans : q.event = Event("create", p) /\ plan[p].version >= 1
        BY <1>2, <2>1
    <2>2. CASE \E p \in Plans : q.event = Event("approve", p) /\ plan[p].version >= 3
        BY <1>2, <2>2
    <2> QED BY <1>3, <2>1, <2>2 DEF AuditsOwed
<1>4. CASE q \notin auditing
    <2>1. ASSUME NEW r \in Requests, NEW p \in Plans, NEW user \in Users, NEW input \in Inputs,
                 Create(r, p, user, input)
          PROVE  q.event = Event("create", p) /\ plan'[p].version >= 1
        BY <1>1, <1>4, <2>1 DEF Create, OwesAudit, TypeOK
    <2>2. ASSUME NEW k \in approving, ApproveCommit(k)
          PROVE  /\ k.plan \in Plans /\ q.event = Event("approve", k.plan)
                 /\ plan'[k.plan].version >= 3
        <3>1. q.event = Event("approve", k.plan)
            BY <1>4, <2>2 DEF ApproveCommit, OwesAudit
        <3>2. k.plan \in Plans /\ plan'[k.plan].version = 3
            BY <1>1, <2>2, ApproveUpdates
        <3> QED BY <3>1, <3>2
    <2>3. ASSUME NEW k \in changing, TransitionCommit(k)
          PROVE  k.site \in Sites /\ q.event = Event("transition", k.site)
        BY <1>1, <1>4, <2>3 DEF TransitionCommit, OwesAudit, TypeOK, Change
    <2> QED BY <1>4, <2>1, <2>2, <2>3, NextCases DEF SubmitCommit, DispatchCommit, InsertAudit
<1> QED BY <1>3, <1>4

\* The audit log tells of every submission and dispatch, and of nothing that did
\* not happen (the audit events inside the transactions, and those after them).
THEOREM AuditTruthful == Spec => []AuditTrail
<1>1. Init => AuditsOwed /\ AuditTrail
    BY DEF Init, AuditsOwed, AuditTrail, Reserving, NoPlan
<1>2. Core /\ AuditsOwed /\ AuditTrail /\ [Next]_vars => AuditTrail'
    <2> SUFFICES ASSUME Core, AuditsOwed, AuditTrail, [Next]_vars, NEW p \in Plans
                 PROVE  /\ Event("submit", p) \in audits' <=> Reserving(p)'
                        /\ Event("dispatch", p) \in audits' <=> plan'[p].status = "dispatched"
                        /\ Event("approve", p) \in audits' =>
                              plan'[p].status \in {"approved", "dispatched"}
                        /\ Event("create", p) \in audits' => plan'[p].status # "none"
        BY DEF AuditTrail, Event, Reserving
    <2> DEFINE Told == /\ Event("submit", p) \in audits' <=> Reserving(p)'
                       /\ Event("dispatch", p) \in audits' <=> plan'[p].status = "dispatched"
                       /\ Event("approve", p) \in audits' =>
                             plan'[p].status \in {"approved", "dispatched"}
                       /\ Event("create", p) \in audits' => plan'[p].status # "none"
    <2>1. TypeOK /\ RequestsInStep
        BY DEF Core
    <2>2. /\ Event("submit", p) \in audits <=> plan[p].status \in {"submitted", "approved", "dispatched"}
          /\ Event("dispatch", p) \in audits <=> plan[p].status = "dispatched"
          /\ Event("approve", p) \in audits => plan[p].status \in {"approved", "dispatched"}
          /\ Event("create", p) \in audits => plan[p].status # "none"
        BY DEF AuditTrail, Reserving
    <2>3. ASSUME NEW r \in Requests, NEW k \in Plans, NEW user \in Users, NEW input \in Inputs,
                 Create(r, k, user, input)
          PROVE  Told
        <3>1. CASE p = k
            BY <2>1, <2>2, <2>3, <3>1 DEF Create, TypeOK, Reserving
        <3>2. CASE p # k
            BY <2>1, <2>2, <2>3, <3>2 DEF Create, TypeOK, Reserving
        <3> QED BY <3>1, <3>2
    <2>4. ASSUME NEW q \in submitting, SubmitCommit(q) PROVE Told
        <3>1. audits' = audits \cup {Event("submit", q.plan)}
            BY <2>4 DEF SubmitCommit
        <3>2. /\ Event("dispatch", p) # Event("submit", q.plan)
              /\ Event("approve", p) # Event("submit", q.plan)
              /\ Event("create", p) # Event("submit", q.plan)
              /\ p # q.plan => Event("submit", p) # Event("submit", q.plan)
            BY EventEqual
        <3>3. CASE p = q.plan
            <4>1. plan[p].status = "draft" /\ plan'[p].status = "submitted"
                BY <2>1, <2>4, <3>3, SubmitUpdates, VersionTells
            <4> QED BY <2>2, <3>1, <3>2, <3>3, <4>1 DEF Reserving
        <3>4. CASE p # q.plan
            <4>1. plan'[p] = plan[p]
                BY <2>1, <2>4, <3>4, SubmitUpdates
            <4> QED BY <2>2, <3>1, <3>2, <3>4, <4>1 DEF Reserving
        <3> QED BY <3>3, <3>4
    <2>5. ASSUME NEW q \in approving, ApproveCommit(q) PROVE Told
        <3>1. audits' = audits
            BY <2>5 DEF ApproveCommit
        <3>2. CASE p = q.plan
            <4>1. plan[p].status = "submitted" /\ plan'[p].status = "approved"
                BY <2>1, <2>5, <3>2, ApproveUpdates, VersionTells
            <4> QED BY <2>2, <3>1, <4>1 DEF Reserving
        <3>3. CASE p # q.plan
            <4>1. plan'[p] = plan[p]
                BY <2>1, <2>5, <3>3, ApproveUpdates
            <4> QED BY <2>2, <3>1, <4>1 DEF Reserving
        <3> QED BY <3>2, <3>3
    <2>6. ASSUME NEW q \in dispatching, DispatchCommit(q) PROVE Told
        <3>1. audits' = audits \cup {Event("dispatch", q.plan)}
            BY <2>6 DEF DispatchCommit
        <3>2. /\ Event("submit", p) # Event("dispatch", q.plan)
              /\ Event("approve", p) # Event("dispatch", q.plan)
              /\ Event("create", p) # Event("dispatch", q.plan)
              /\ p # q.plan => Event("dispatch", p) # Event("dispatch", q.plan)
            BY EventEqual
        <3>3. CASE p = q.plan
            <4>1. plan[p].status = "approved" /\ plan'[p].status = "dispatched"
                BY <2>1, <2>6, <3>3, DispatchOnce, DispatchUpdates
            <4> QED BY <2>2, <3>1, <3>2, <3>3, <4>1 DEF Reserving
        <3>4. CASE p # q.plan
            <4>1. plan'[p] = plan[p]
                BY <2>1, <2>6, <3>4, DispatchUpdates
            <4> QED BY <2>2, <3>1, <3>2, <3>4, <4>1 DEF Reserving
        <3> QED BY <3>3, <3>4
    <2>7. ASSUME NEW q \in auditing, InsertAudit(q) PROVE Told
        <3>1. audits' = audits \cup {q.event} /\ plan' = plan
            BY <2>7 DEF InsertAudit
        <3>2. /\ Event("submit", p) # q.event
              /\ Event("dispatch", p) # q.event
              /\ Event("approve", p) = q.event => plan[p].version >= 3
              /\ Event("create", p) = q.event => plan[p].version >= 1
            BY EventEqual DEF AuditsOwed
        <3>3. /\ plan[p].version >= 3 => plan[p].status \in {"approved", "dispatched"}
              /\ plan[p].version >= 1 => plan[p].status # "none"
            BY <2>1, VersionTells
        <3> QED BY <2>2, <3>1, <3>2, <3>3 DEF Reserving
    <2>8. CASE UNCHANGED <<plan, audits>>
        BY <2>2, <2>8 DEF Reserving
    <2> QED BY <2>3, <2>4, <2>5, <2>6, <2>7, <2>8, NextCases DEF TransitionCommit
<1> QED BY <1>1, <1>2, AuditsOwedStep, CoreInvariant, PTL DEF Spec

------------------------------------------------------------------------------
(* The rows keep the book *)

\* A plan that nobody has drafted is as it was at first.
Undrafted == \A p \in Plans : plan[p].status = "none" => plan[p] = NoPlan

LEMMA UndraftedStep == Core /\ Undrafted /\ [Next]_vars => Undrafted'
<1> SUFFICES ASSUME Core, Undrafted, [Next]_vars, NEW p \in Plans, plan'[p].status = "none"
             PROVE  plan'[p] = NoPlan
    BY DEF Undrafted, NoPlan
<1>1. PlanMove(p)
    BY PlansMove
<1>2. plan'[p] = plan[p]
    BY <1>1 DEF PlanMove
<1> QED BY <1>2 DEF Undrafted

\* All that the book rests on.
Bookable ==
    /\ Core /\ Undrafted /\ Booked /\ RetiredEmpty /\ ClusterHeldOnce
    /\ \A s \in Sites : Accounted(s)

LEMMA InitBook == Init => Book!Init
<1> SUFFICES ASSUME Init PROVE Book!Init
    OBVIOUS
<1>1. DoorsOf = [s \in Sites |-> "closed"]
    BY DEF Init, DoorsOf
<1>2. AsksOf = [p \in Plans |-> AskOf(NoPlan)] /\ ApproverOf = [p \in Plans |-> NoUser]
    BY DEF Init, AsksOf, ApproverOf, NoPlan
<1> QED BY <1>1, <1>2 DEF Init, Book!Init

\* A step that leaves what the plans ask for keeps the book's column of it.
LEMMA AsksKept ==
    ASSUME \A p \in Plans : /\ plan'[p].site = plan[p].site /\ plan'[p].kw = plan[p].kw
                            /\ plan'[p].window = plan[p].window
                            /\ plan'[p].createdBy = plan[p].createdBy
    PROVE  AsksOf' = AsksOf
BY DEF AsksOf, AskOf

\* What a plan that is more than drafted asks for, it does ask for.
LEMMA AsksSomething ==
    ASSUME Core, NEW p \in Plans, plan[p].version >= 1
    PROVE  AsksOf[p] = AskOf(plan[p]) /\ AsksOf[p] # AskOf(NoPlan)
<1>1. plan[p].version \in 0..4
    BY VersionTells DEF Core
<1>2. plan[p].createdBy \in Users
    BY <1>1 DEF Core, RequestsInStep, PlansInStep
<1>3. AskOf(plan[p]).by # AskOf(NoPlan).by
    BY <1>2, PlantAssumption DEF AskOf, NoPlan
<1> QED BY <1>3 DEF AsksOf

\* The book adds up as the rows do.
LEMMA PowerIs == \A B : Book!Power(B) = SumFunction([b \in B |-> b.kw])
BY DEF Book!Power, Book!SumFunction, Book!SumFunctionOnSet, Book!FoldFunctionOnSet,
       SumFunction, SumFunctionOnSet, FoldFunctionOnSet, Book!MapThenFoldSet, MapThenFoldSet

LEMMA CreateAsks ==
    ASSUME Bookable, NEW r \in Requests, NEW p \in Plans, NEW user \in Users, NEW input \in Inputs,
           Create(r, p, user, input)
    PROVE  Book!Ask(p, input, user)
<1>1. /\ plan \in [Plans -> PlanRow] /\ plan[p].status = "none" /\ plan[p] = NoPlan
      /\ plan' = [plan EXCEPT ![p] =
             [status |-> "draft", version |-> 1, site |-> input.site, kw |-> input.kw,
              direction |-> input.direction, window |-> input.window,
              createdBy |-> user, approvedBy |-> NoUser]]
      /\ UNCHANGED <<site, reservations, jobs>>
    BY DEF Create, Bookable, Core, TypeOK, Undrafted
<1>2. AsksOf[p] = AskOf(NoPlan)
    BY <1>1 DEF AsksOf
<1>3. AsksOf' = [AsksOf EXCEPT ![p] = [site |-> input.site, kw |-> input.kw,
                                       window |-> input.window, by |-> user]]
    BY <1>1 DEF AsksOf, AskOf
<1>4. ApproverOf' = ApproverOf
    BY <1>1 DEF ApproverOf, NoPlan
<1>5. DoorsOf' = DoorsOf
    BY <1>1 DEF DoorsOf
<1> QED BY <1>1, <1>2, <1>3, <1>4, <1>5 DEF Book!Ask

LEMMA SubmitEnters ==
    ASSUME Bookable, NEW q \in submitting, SubmitCommit(q)
    PROVE  Book!Book(q.plan)
<1> DEFINE row == plan[q.plan]
<1>1. /\ Core /\ Booked /\ TypeOK /\ RequestsInStep
      /\ q.plan \in Plans /\ row.site \in Sites /\ row.version = 1
    BY SubmissionOf, SubmitUpdates DEF Bookable, Core
<1>2. AsksOf[q.plan] = AskOf(row) /\ AsksOf[q.plan] # AskOf(NoPlan)
    BY <1>1, AsksSomething
<1>3. PICK new \in SUBSET Reservation :
          /\ reservations' = reservations \cup new
          /\ \A x \in new : /\ x.plan = q.plan /\ x.window = row.window
                            /\ Home[x.cluster] = row.site
          /\ Covers(new, q)
          /\ Own(q.plan)' = new
    BY <1>1, SubmitBooks
<1>4. /\ \A x \in new : \A y \in reservations : y.cluster # x.cluster
      /\ \A x, y \in new : x.cluster = y.cluster => x = y
    <2>1. PICK more \in SUBSET Reservation :
              /\ reservations' = reservations \cup more
              /\ {x.cluster : x \in more} = q.selected
              /\ \A x \in more : x.plan = q.plan
              /\ \A x, y \in more : x.cluster = y.cluster => x = y
        BY <1>1, SubmitReserves
    <2>2. \A c \in q.selected : c \in Clusters /\ cluster[c].status = "available"
        BY <1>1, SubmitUpdates, SubmissionOf DEF Submission
    <2>3. \A x \in more : \A y \in reservations : y.cluster # x.cluster
        BY <2>1, <2>2 DEF Bookable, ClusterHeldOnce
    <2>4. Own(q.plan) = {}
        <3>1. ~Reserving(q.plan)
            BY <1>1, VersionTells DEF Reserving
        <3> QED BY <1>1, <3>1 DEF Booked, Covered
    <2>5. new = more
        BY <1>3, <2>1, <2>4 DEF Own
    <2> QED BY <2>1, <2>3, <2>5
<1>5. Book!BookedBy(q.plan) = {}
    <2>1. ~Reserving(q.plan)
        BY <1>1, VersionTells DEF Reserving
    <2> QED BY <1>1, <2>1 DEF Booked, Covered, Own, Book!BookedBy
<1>6. DoorsOf[row.site] = "open" /\ DoorsOf' = DoorsOf
    <2>1. /\ site[row.site].status = "active" /\ site'[row.site].status = "active"
          /\ \A s \in Sites \ {row.site} : site'[s] = site[s]
        BY <1>1, SubmitUpdates
    <2> QED BY <1>1, <2>1 DEF DoorsOf
<1>7. Book!Power(Book!At(row.site)) + row.kw <= GridLimit[row.site]
    <2>1. site[row.site].reserved + row.kw <= GridLimit[row.site]
        BY DEF SubmitCommit, Admitted, SiteTakes
    <2>2. site[row.site].reserved = Book!Power(Book!At(row.site))
        BY <1>1, PowerIs DEF Bookable, Accounted, HeldAt, Book!At
    <2> QED BY <2>1, <2>2
<1>8. new \in SUBSET Book!Offers(q.plan)
    <2> SUFFICES ASSUME NEW x \in new PROVE x \in Book!Offers(q.plan)
        OBVIOUS
    <2>1. /\ x \in Reservation /\ x.plan = q.plan /\ x.window = row.window
          /\ x.kw \in 1..Rated[x.cluster]
        BY <1>3 DEF Covers
    <2>2. x.cluster \in Book!Unbooked(AsksOf[q.plan].site)
        BY <1>2, <1>3, <1>4, <2>1 DEF Book!Unbooked, Reservation, AskOf
    <2>3. AsksOf[q.plan].window = row.window
        BY <1>2 DEF AskOf
    <2>4. x \in [plan : {q.plan}, cluster : {x.cluster}, kw : 1..Rated[x.cluster],
                 window : {AsksOf[q.plan].window}]
        BY <2>1, <2>3 DEF Reservation
    <2> QED BY <2>2, <2>4 DEF Book!Offers
<1>9. Book!Power(new) = row.kw
    BY <1>3, PowerIs DEF Covers
<1>10. AsksOf' = AsksOf /\ ApproverOf' = ApproverOf
    <2>1. \A p \in Plans : /\ plan'[p].site = plan[p].site /\ plan'[p].kw = plan[p].kw
                           /\ plan'[p].window = plan[p].window
                           /\ plan'[p].createdBy = plan[p].createdBy
                           /\ plan'[p].approvedBy = plan[p].approvedBy
        BY <1>1, SubmitUpdates
    <2> QED BY <2>1, AsksKept DEF ApproverOf
<1>11. jobs' = jobs
    BY DEF SubmitCommit
<1>12. AsksOf[q.plan].site = row.site /\ AsksOf[q.plan].kw = row.kw
    BY <1>2 DEF AskOf
<1> QED BY <1>2, <1>3, <1>4, <1>5, <1>6, <1>7, <1>8, <1>9, <1>10, <1>11, <1>12 DEF Book!Book

LEMMA ApproveEnters ==
    ASSUME Bookable, NEW q \in approving, ApproveCommit(q)
    PROVE  q.user \in Users /\ Book!Approve(q.plan, q.user)
<1>1. /\ Core /\ Booked /\ TypeOK /\ RequestsInStep
      /\ q.plan \in Plans /\ plan[q.plan].version = 2 /\ q.user \in Users
      /\ q.user # plan[q.plan].createdBy
    BY ApproveUpdates DEF Bookable, Core
<1>2. ApproverOf[q.plan] = NoUser
    BY <1>1 DEF ApproverOf, RequestsInStep, PlansInStep
<1>3. Book!BookedBy(q.plan) # {}
    <2>1. Reserving(q.plan)
        BY <1>1, VersionTells DEF Reserving
    <2> QED BY <1>1, <2>1 DEF Booked, Covered, Own, Book!BookedBy
<1>4. q.user # AsksOf[q.plan].by
    BY <1>1 DEF AsksOf, AskOf
<1>5. AsksOf' = AsksOf /\ ApproverOf' = [ApproverOf EXCEPT ![q.plan] = q.user]
    <2>1. /\ \A p \in Plans : /\ plan'[p].site = plan[p].site /\ plan'[p].kw = plan[p].kw
                              /\ plan'[p].window = plan[p].window
                              /\ plan'[p].createdBy = plan[p].createdBy
          /\ \A p \in Plans : plan'[p].approvedBy = IF p = q.plan THEN q.user
                                                    ELSE plan[p].approvedBy
        BY <1>1, ApproveUpdates
    <2> QED BY <2>1, AsksKept DEF ApproverOf
<1>6. DoorsOf' = DoorsOf /\ UNCHANGED <<reservations, jobs>>
    BY DEF ApproveCommit, DoorsOf
<1> QED BY <1>1, <1>2, <1>3, <1>4, <1>5, <1>6 DEF Book!Approve

LEMMA DispatchEnters ==
    ASSUME Bookable, NEW q \in dispatching, DispatchCommit(q)
    PROVE  q.plan \in Plans /\ Book!Command(q.plan)
<1>1. /\ Core /\ TypeOK /\ RequestsInStep /\ q.plan \in Plans
      /\ plan[q.plan].status = "approved" /\ plan[q.plan].version = 3
    BY DispatchUpdates, DispatchOnce DEF Bookable, Core
<1>2. ApproverOf[q.plan] # NoUser
    BY <1>1 DEF ApproverOf, RequestsInStep, PlansInStep
<1>3. \A c \in Clusters : jobs[q.plan][c] = 0
    BY <1>1 DEF Core, OneJobPerReservation
<1>4. q.targets = Book!BookedBy(q.plan)
    BY <1>1, DispatchUpdates DEF Reserved, Book!BookedBy
<1>5. jobs' = [jobs EXCEPT ![q.plan] =
                  [c \in Clusters |-> IF c \in Book!BookedBy(q.plan) THEN 1 ELSE 0]]
    <2>1. jobs' = [jobs EXCEPT ![q.plan] =
              [c \in Clusters |-> jobs[q.plan][c] + (IF c \in q.targets THEN 1 ELSE 0)]]
        BY DEF DispatchCommit
    <2>2. [c \in Clusters |-> jobs[q.plan][c] + (IF c \in q.targets THEN 1 ELSE 0)]
              = [c \in Clusters |-> IF c \in Book!BookedBy(q.plan) THEN 1 ELSE 0]
        BY <1>3, <1>4
    <2> QED BY <2>1, <2>2
<1>6. AsksOf' = AsksOf /\ ApproverOf' = ApproverOf
    <2>1. \A p \in Plans : /\ plan'[p].site = plan[p].site /\ plan'[p].kw = plan[p].kw
                           /\ plan'[p].window = plan[p].window
                           /\ plan'[p].createdBy = plan[p].createdBy
                           /\ plan'[p].approvedBy = plan[p].approvedBy
        BY <1>1, DispatchUpdates
    <2> QED BY <2>1, AsksKept DEF ApproverOf
<1>7. DoorsOf' = DoorsOf /\ UNCHANGED reservations
    BY DEF DispatchCommit, DoorsOf
<1> QED BY <1>1, <1>2, <1>3, <1>5, <1>6, <1>7 DEF Book!Command

LEMMA TransitionTurns ==
    ASSUME Bookable, NEW q \in changing, TransitionCommit(q)
    PROVE  /\ q.site \in Sites /\ DoorsOf'[q.site] \in {"open", "closed", "gone"}
           /\ Book!Turn(q.site, DoorsOf'[q.site])
<1> DEFINE s == q.site
<1>1. /\ TypeOK /\ RequestsInStep /\ q \in Change /\ s \in Sites
      /\ site[s].version = q.version /\ site \in [Sites -> SiteRow]
      /\ site' = [site EXCEPT ![s] =
             [status |-> q.next, reserved |-> q.reserved, version |-> q.version + 1]]
      /\ UNCHANGED <<plan, reservations, jobs>>
    BY DEF TransitionCommit, Bookable, Core, TypeOK, Change
<1>2. /\ q.next \in Allowed(site[s].status)
      /\ q.next = "retired" => site[s].reserved = 0
    BY <1>1 DEF RequestsInStep, ChangesInStep
<1>3. site'[s].status = q.next /\ \A t \in Sites \ {s} : site'[t] = site[t]
    BY <1>1
<1>4. site[s].status # "retired" /\ site[s].status \in SiteStatus
    BY <1>1, <1>2 DEF Allowed, SiteRow
<1>5. DoorsOf[s] # "gone" /\ DoorsOf'[s] \in {"open", "closed", "gone"}
      /\ (DoorsOf'[s] = "gone" => q.next = "retired")
    <2>1. DoorsOf[s] # "gone"
        BY <1>1, <1>4 DEF DoorsOf
    <2>2. DoorsOf'[s] = CASE q.next = "active"  -> "open"
                          [] q.next = "retired" -> "gone"
                          [] OTHER              -> "closed"
        BY <1>1, <1>3 DEF DoorsOf
    <2> QED BY <2>1, <2>2
<1>6. DoorsOf' = [DoorsOf EXCEPT ![s] = DoorsOf'[s]]
    BY <1>1, <1>3 DEF DoorsOf
<1>7. ASSUME q.next = "retired" PROVE Book!At(s) = {}
    <2> SUFFICES ASSUME NEW x \in reservations, Home[x.cluster] = s PROVE FALSE
        BY DEF Book!At
    <2>1. x.plan \in Plans /\ x \in Own(x.plan)
        BY <1>1 DEF TypeOK, Reservation, Own
    <2>2. Reserving(x.plan) /\ plan[x.plan].site = s
        BY <2>1 DEF Bookable, Booked, Covered
    <2>3. site[s].reserved > 0 /\ site[s].reserved = 0
        BY <1>2, <1>7, <2>1, <2>2 DEF Bookable, RetiredEmpty
    <2> QED BY <2>3
<1>8. AsksOf' = AsksOf /\ ApproverOf' = ApproverOf
    BY <1>1 DEF AsksOf, ApproverOf
<1> QED BY <1>1, <1>5, <1>6, <1>7, <1>8 DEF Book!Turn

LEMMA StepBook == Bookable /\ [Next]_vars => [Book!Next]_(Book!book)
<1> SUFFICES ASSUME Bookable, [Next]_vars PROVE [Book!Next]_(Book!book)
    OBVIOUS
<1>1. ASSUME NEW r \in Requests, NEW p \in Plans, NEW user \in Users, NEW input \in Inputs,
             Create(r, p, user, input)
      PROVE  Book!Next
    BY <1>1, CreateAsks DEF Book!Next
<1>2. ASSUME NEW q \in submitting, SubmitCommit(q) PROVE Book!Next
    <2>1. q.plan \in Plans
        BY SubmissionOf DEF Bookable, Core
    <2> QED BY <1>2, <2>1, SubmitEnters DEF Book!Next
<1>3. ASSUME NEW q \in approving, ApproveCommit(q) PROVE Book!Next
    <2>1. q.plan \in Plans
        BY <1>3, ApproveUpdates DEF Bookable, Core
    <2> QED BY <1>3, <2>1, ApproveEnters DEF Book!Next
<1>4. ASSUME NEW q \in dispatching, DispatchCommit(q) PROVE Book!Next
    BY <1>4, DispatchEnters DEF Book!Next
<1>5. ASSUME NEW q \in changing, TransitionCommit(q) PROVE Book!Next
    BY <1>5, TransitionTurns DEF Book!Next
<1>6. CASE UNCHANGED <<site, plan, reservations, jobs>>
    BY <1>6 DEF Book!book, DoorsOf, AsksOf, ApproverOf
<1> QED BY <1>1, <1>2, <1>3, <1>4, <1>5, <1>6, NextCases DEF InsertAudit

LEMMA BookableInvariant == Spec => []Bookable
<1>1. Init => Undrafted
    BY DEF Init, Undrafted
<1>2. Init => RetiredEmpty /\ ClusterHeldOnce
    BY DEF Init, RetiredEmpty, ClusterHeldOnce, Reserving, NoPlan
<1>3. Spec => []RetiredEmpty
    BY <1>2, RetiredEmptyStep, CoreInvariant, PTL DEF Spec
<1>4. Spec => []Undrafted
    BY <1>1, UndraftedStep, CoreInvariant, PTL DEF Spec
<1>5. Spec => [](\A s \in Sites : Accounted(s))
    BY AccountedInvariant
<1>6. Core /\ Undrafted /\ Booked /\ RetiredEmpty /\ ClusterHeldOnce
          /\ (\A s \in Sites : Accounted(s)) => Bookable
    BY DEF Bookable
<1> QED BY <1>3, <1>4, <1>5, <1>6, ClustersHeldOnce, BookedInvariant, CoreInvariant, PTL

\* The rows keep the book (KeepsBook): every commit is one entry of it, right in the
\* state that the commit meets, and every other step is none.
THEOREM PlansKeepBook == Spec => KeepsBook
BY BookableInvariant, InitBook, StepBook, PTL DEF Spec, KeepsBook, Book!Spec
=============================================================================
