--------------------------- MODULE MCDispatchPlans ---------------------------
(* Instances of DispatchPlans for TLC: one site with two clusters, where two *)
(* plans compete for the clusters and for the grid limit.                    *)
EXTENDS DispatchPlans, TLC

CONSTANTS s1, c1, c2

MCHome == c1 :> s1 @@ c2 :> s1
MCRated == c1 :> 2 @@ c2 :> 3
MCGridLimit == s1 :> 5

\* Two plans whose windows overlap, by less than a second: 2..4 and 0..3 in
\* half seconds.
MCInputs ==
    {[site |-> s1, kw |-> 3, direction |-> "charge", window |-> <<2, 4>>],
     [site |-> s1, kw |-> 2, direction |-> "discharge", window |-> <<0, 3>>]}

Symmetric == Permutations(Requests) \cup Permutations(Plans) \cup Permutations(Users)
=============================================================================
