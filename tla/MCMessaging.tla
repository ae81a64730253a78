----------------------------- MODULE MCMessaging -----------------------------
(***************************************************************************)
(* Two messages, two sends at once, a plan that asks two paise for a       *)
(* marketing message and nothing for a service one, and one that asks one  *)
(* for either.                                                             *)
(* Meta prices a message as estimated, or as free.                         *)
(***************************************************************************)
EXTENDS Messaging, TLC

CONSTANTS m1, m2, s1, s2, h1, h2, full, cheap, marketing, service

MCPrice == full :> (marketing :> 2 @@ service :> 0)
             @@ cheap :> (marketing :> 1 @@ service :> 1)
MCPricings == {[category |-> None, billable |-> TRUE],
               [category |-> service, billable |-> TRUE]}
MCSymmetry == Permutations({m1, m2}) \union Permutations({s1, s2})
                \union Permutations({h1, h2})
=============================================================================
