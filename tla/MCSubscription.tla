---------------------------- MODULE MCSubscription ---------------------------
(* Subscription with a monthly plan, and a lifetime plan that a coupon     *)
(* makes free.                                                             *)
EXTENDS Subscription, TLC

CONSTANTS monthly, lifetime, q1, q2, s1, s2

MCTerm == monthly :> 2 @@ [p \in Plans \ {monthly} |-> 0]
MCShortTerm == monthly :> 1 @@ [p \in Plans \ {monthly} |-> 0]
Symmetry == Permutations({q1, q2})
MCFree == {<<p, TRUE>> : p \in Plans \ {monthly}}
==============================================================================
