------------------------------ MODULE MCWallet ------------------------------
(***************************************************************************)
(* A small wallet-service: one owner, one keyed debit that callers retry,  *)
(* unkeyed debits and credits, and one order that may be verified twice.   *)
(***************************************************************************)
EXTENDS Wallet, TLC

CONSTANTS u1, r1, r2, k1, o1

MCKeyCharge == k1 :> [user |-> u1, type |-> "debit", amount |-> 118]
MCRequests == Permutations({r1, r2})
=============================================================================
