------------------------------- MODULE Ledger -------------------------------
(***************************************************************************)
(* What wallet-service promises its callers, apart from how it does it.    *)
(* Every account has an append-only list of postings.  A posting is a      *)
(* credit or a debit of a positive amount that carries the balance it left *)
(* behind, no debit may leave a negative balance, and an idempotency key   *)
(* is used by at most one posting of the whole book.                       *)
(***************************************************************************)
EXTENDS Integers, Sequences

CONSTANTS Users,    \* the account owners
          Keys,     \* the idempotency keys callers may send
          NoKey,    \* the absent idempotency key (NULL in the table)
          Amounts   \* the amounts, in paise, that postings move

VARIABLES balance,  \* balance[u]: what the owner can spend now
          ledger    \* ledger[u]: the postings of u, oldest first

vars == <<balance, ledger>>

Posting == [type : {"credit", "debit"}, amount : Nat, balance_after : Nat,
            key : Keys \union {NoKey}]

KeyTaken(k) == \E u \in Users : \E i \in DOMAIN ledger[u] : ledger[u][i].key = k

(* The balance an account of balance b is left with by a posting.          *)
After(b, type, amount) == IF type = "credit" THEN b + amount ELSE b - amount

Init == /\ balance = [u \in Users |-> 0]
        /\ ledger = [u \in Users |-> <<>>]

(* One posting: all of it happens, or none of it.                          *)
Post(u, type, amount, key) ==
    /\ After(balance[u], type, amount) >= 0
    /\ key # NoKey => ~KeyTaken(key)
    /\ balance' = [balance EXCEPT ![u] = After(@, type, amount)]
    /\ ledger' = [ledger EXCEPT ![u] =
                    Append(@, [type |-> type, amount |-> amount,
                               balance_after |-> After(balance[u], type, amount),
                               key |-> key])]

Next == \E u \in Users, type \in {"credit", "debit"}, amount \in Amounts,
           key \in Keys \union {NoKey} : Post(u, type, amount, key)

Spec == Init /\ [][Next]_vars

=============================================================================
