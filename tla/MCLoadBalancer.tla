----------------------------- MODULE MCLoadBalancer -----------------------------
(* Instances of LoadBalancer for TLC. *)
EXTENDS LoadBalancer, TLC

CONSTANTS n1, n2, n3

\* The lists that reloads may lead to.
NoneOneOrThree == {<<>>, <<n2>>, <<n1, n2, n3>>}

Weights == n1 :> 1 @@ n2 :> 2 @@ n3 :> 1

AllPolicies == {"ACTIVE", "RANDOM", "HASH", "ROUND_ROBIN", "RANDOM_WEIGHT"}

Alike == Permutations(Callers)
=============================================================================
