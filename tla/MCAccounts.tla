------------------------------ MODULE MCAccounts -----------------------------
EXTENDS Accounts, TLC

CONSTANTS q1, q2

Symmetry == Permutations(Requests)
==============================================================================
