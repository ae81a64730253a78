---------------------------- MODULE WalletProofs ----------------------------
(***************************************************************************)
(* What wallet-service keeps for every number of owners, handlers, keys,   *)
(* amounts and orders.  The properties are those of module Wallet; here    *)
(* they are strengthened to an inductive invariant and proved.             *)
(***************************************************************************)
EXTENDS Wallet, TLAPS

(* A handler past its commit holds the position of the row it inserted.    *)
HeldIsPosting ==
    \A r \in Requests : pc[r] \in {"invalidate", "announce"} =>
                            held[r] \in DOMAIN ledger[req[r].user]

(* What handlers are about to post is one of the amounts that can move.    *)
AmountsAreMoved ==
    /\ \A o \in Orders : orders[o].status # "none" => Credited(orders[o]) \in Moved
    /\ \A r \in Requests : pc[r] # "idle" =>
          /\ req[r].op \in {"charge", "admin_credit"} => req[r].amount \in Moved
          /\ req[r].op = "recharge" => req[r].amount \in Amounts /\ req[r].amount >= MinRecharge
          /\ req[r].op = "verify" => /\ req[r].order \in Orders
                                     /\ orders[req[r].order].status # "none"
          /\ pc[r] = "order" => req[r].op = "recharge"
          /\ pc[r] \in {"lookup", "relookup"} => req[r].op \in {"charge", "admin_credit"}
          /\ pc[r] = "txn" => req[r].op \in {"charge", "admin_credit", "verify"}
          /\ pc[r] = "fetch" => req[r].op = "verify"
          /\ pc[r] = "cache" => req[r].op = "balance"
          /\ pc[r] \in {"find", "create"} => req[r].op \in {"balance", "admin_credit", "recharge"}

IInv == TypeOK /\ HeldIsPosting /\ AmountsAreMoved

-----------------------------------------------------------------------------
(* Rounding a nonnegative quotient gives a natural number.                 *)
LEMMA RoundIsNat ==
    ASSUME NEW num \in Nat, NEW den \in Nat \ {0}
    PROVE  Round(num, den) \in Nat
BY DEF Round

(* The base of a recharge is a natural number, no larger than the amount   *)
(* when the amount includes the tax.                                       *)
LEMMA BaseIsNat ==
    ASSUME NEW amount \in Nat, NEW inclusive \in BOOLEAN
    PROVE  /\ BaseAmount(amount, inclusive) \in Nat
           /\ inclusive => BaseAmount(amount, inclusive) <= amount
<1>1. 100 * amount \in Nat /\ 100 + TaxRate \in Nat \ {0}
  BY TaxAssumption
<1>2. Round(100 * amount, 100 + TaxRate) \in Nat
  BY <1>1, RoundIsNat
<1>3. Round(100 * amount, 100 + TaxRate) <= amount
  BY <1>1, TaxAssumption DEF Round
<1>4. QED
  BY <1>2, <1>3 DEF BaseAmount

(* So is its tax.                                                          *)
LEMMA TaxIsNat ==
    ASSUME NEW amount \in Nat, NEW inclusive \in BOOLEAN
    PROVE  TaxAmount(amount, inclusive) \in Nat
<1>1. CASE inclusive
  <2>1. /\ BaseAmount(amount, inclusive) \in Nat
        /\ BaseAmount(amount, inclusive) <= amount
    BY <1>1, BaseIsNat
  <2>2. TaxAmount(amount, inclusive) = amount - BaseAmount(amount, inclusive)
    BY <1>1 DEF TaxAmount
  <2>3. QED
    BY <2>1, <2>2
<1>2. CASE ~inclusive
  <2>1. amount * TaxRate \in Nat
    BY TaxAssumption
  <2>2. Round(amount * TaxRate, 100) \in Nat
    BY <2>1, RoundIsNat
  <2>3. QED
    BY <1>2, <2>2 DEF TaxAmount
<1>3. QED
  BY <1>1, <1>2

(* What an order is credited with is a natural number.                     *)
LEMMA CreditedIsNat ==
    ASSUME NEW order \in Order
    PROVE  Credited(order) \in Nat
BY DEF Credited, Order

-----------------------------------------------------------------------------
(* The invariant holds before any request.                                 *)
LEMMA InitHolds == Init => IInv
<1>1. ASSUME Init
      PROVE  Anyone \in Users
  BY UserAssumption DEF Anyone
<1>2. QED
  BY <1>1 DEF Init, IInv, TypeOK, HeldIsPosting, AmountsAreMoved, Posting,
              Request, Order, Answer, Steps, Types

(* A row found by its key is a posting.                                    *)
LEMMA FoundByKey ==
    ASSUME TypeOK, NEW k, KeyTaken(k)
    PROVE  PostingWithKey(k).balance_after \in Nat
<1> DEFINE rows == UNION {{ledger[u][i] : i \in DOMAIN ledger[u]} : u \in Users}
<1>1. \A p \in rows : p \in Posting
  BY DEF TypeOK
<1>2. \E p \in rows : p.key = k
  BY DEF KeyTaken
<1>3. PostingWithKey(k) \in rows
  BY <1>2 DEF PostingWithKey
<1>4. QED
  BY <1>1, <1>3 DEF Posting

(* A committed transaction keeps the types and leaves the handler with the *)
(* position of its row.                                                    *)
LEMMA CommitKeepsTypes ==
    ASSUME IInv, NEW r \in Requests, pc[r] # "idle",
           NEW type \in Types, NEW amount \in Nat,
           NEW key \in Keys \union {NoKey}, NEW order \in Orders \union {NoOrder},
           type = "debit" => balance[req[r].user] >= amount,
           Commit(r, type, amount, key, order),
           invoices' \subseteq Users \X Nat
    PROVE  IInv'
<1> DEFINE u == req[r].user
           b == After(balance[u], type, amount)
           row == [type |-> type, amount |-> amount, balance_after |-> b,
                   key |-> key, order |-> order]
<1>1. u \in Users /\ balance[u] \in Nat /\ ledger[u] \in Seq(Posting)
  BY DEF IInv, TypeOK, Request
<1>2. b \in Nat
  BY <1>1 DEF After, Types
<1>3. row \in Posting
  BY <1>2 DEF Posting
<1>4. ledger' = [ledger EXCEPT ![u] = Append(@, row)]
  BY DEF Commit
<1> HIDE DEF row
<1>5. ledger' \in [Users -> Seq(Posting)] /\ Len(ledger'[u]) = Len(ledger[u]) + 1
  BY <1>1, <1>3, <1>4 DEF IInv, TypeOK
<1>6. balance' \in [Users -> Nat]
  BY <1>2 DEF Commit, IInv, TypeOK
<1>7. held' \in [Requests -> Nat] /\ held'[r] = Len(ledger'[u])
  BY <1>1, <1>5 DEF Commit, IInv, TypeOK
<1>8. TypeOK'
  BY <1>5, <1>6, <1>7 DEF Commit, Goto, IInv, TypeOK, Steps
<1>9. \A v \in Users : DOMAIN ledger[v] \subseteq DOMAIN ledger'[v]
  BY <1>1, <1>3, <1>4 DEF IInv, TypeOK
<1>10. HeldIsPosting'
  <2> SUFFICES ASSUME NEW q \in Requests, pc'[q] \in {"invalidate", "announce"}
               PROVE  held'[q] \in DOMAIN ledger'[req'[q].user]
    BY DEF HeldIsPosting
  <2>1. CASE q = r
    BY <2>1, <1>1, <1>5, <1>7 DEF Commit
  <2>2. CASE q # r
    BY <2>2, <1>9 DEF Commit, Goto, IInv, TypeOK, HeldIsPosting, Request
  <2>3. QED
    BY <2>1, <2>2
<1>11. AmountsAreMoved'
  BY DEF Commit, Goto, IInv, TypeOK, AmountsAreMoved
<1>12. QED
  BY <1>8, <1>10, <1>11 DEF IInv

(* A request that begins is well formed and asks for an amount that moves. *)
LEMMA BeginKeepsTypes ==
    ASSUME IInv, NEW r \in Requests, NEW u \in Users, NEW step \in Steps,
           NEW op \in {"charge", "admin_credit", "balance", "recharge", "verify"},
           NEW type \in Types, NEW amount \in Nat,
           NEW key \in Keys \union {NoKey}, NEW order \in Orders \union {NoOrder},
           Begin(r, step, op, u, type, amount, key, order),
           step \in {"lookup", "find", "cache", "fetch"},
           op \in {"charge", "admin_credit"} => amount \in Moved,
           op = "recharge" => amount \in Amounts /\ amount >= MinRecharge,
           op = "verify" => order \in Orders /\ orders[order].status # "none",
           step = "lookup" => op = "charge",
           step = "find" => op \in {"admin_credit", "recharge"},
           step = "cache" => op = "balance",
           step = "fetch" => op = "verify"
    PROVE  IInv'
<1>1. TypeOK'
  BY DEF Begin, Goto, database, IInv, TypeOK, Request, Steps
<1>2. HeldIsPosting'
  BY DEF Begin, Goto, database, IInv, TypeOK, HeldIsPosting
<1>3. AmountsAreMoved'
  BY DEF Begin, Goto, database, IInv, TypeOK, AmountsAreMoved
<1>4. QED
  BY <1>1, <1>2, <1>3 DEF IInv

(* The same of each kind of request the service takes.                     *)
LEMMA RequestKeepsTypes ==
    ASSUME IInv, NEW r \in Requests,
           \/ ChargeRequest(r) \/ AdminCreditRequest(r) \/ BalanceRequest(r)
           \/ RechargeRequest(r) \/ VerifyRequest(r)
    PROVE  IInv'
<1>1. Amounts \subseteq Nat \ {0} /\ Amounts \subseteq Moved
  BY AmountAssumption DEF Moved
<1>2. \A k \in Keys : /\ KeyCharge[k].user \in Users
                      /\ KeyCharge[k].type \in Types
                      /\ KeyCharge[k].amount \in Nat
                      /\ KeyCharge[k].amount \in Moved
  BY KeyAssumption DEF Moved, Types
<1>3. CASE ChargeRequest(r)
  <2>1. CASE \E k \in Keys : Begin(r, "lookup", "charge", KeyCharge[k].user,
                                   KeyCharge[k].type, KeyCharge[k].amount, k, NoOrder)
    BY <2>1, <1>2, BeginKeepsTypes DEF Steps
  <2>2. CASE \E u \in Users, type \in Types, amount \in Amounts :
                Begin(r, "lookup", "charge", u, type, amount, NoKey, NoOrder)
    BY <2>2, <1>1, BeginKeepsTypes DEF Steps
  <2>3. QED
    BY <1>3, <2>1, <2>2 DEF ChargeRequest
<1>4. CASE AdminCreditRequest(r)
  BY <1>4, <1>1, BeginKeepsTypes DEF AdminCreditRequest, Steps, Types
<1>5. CASE BalanceRequest(r)
  BY <1>5, BeginKeepsTypes DEF BalanceRequest, Steps, Types
<1>6. CASE RechargeRequest(r)
  BY <1>6, <1>1, BeginKeepsTypes DEF RechargeRequest, Steps, Types
<1>7. CASE VerifyRequest(r)
  BY <1>7, BeginKeepsTypes DEF VerifyRequest, Steps, Types
<1>8. QED
  BY <1>3, <1>4, <1>5, <1>6, <1>7

(* What is left to show of a step of handler r that changes no posting, no *)
(* order and no request.                                                   *)
LEMMA QuietStep ==
    ASSUME IInv, NEW r \in Requests, NEW step \in Steps, NEW number \in Nat,
           wallets' \subseteq Users,
           cache' \in [Users -> Nat \union {None}],
           events' \in [Users -> Seq(Nat)],
           answer' \in [Requests -> Answer \union {None}],
           UNCHANGED <<balance, ledger, invoices, orders, req>>,
           Goto(r, step),
           held' = [held EXCEPT ![r] = number],
           pc[r] # "idle",
           step \in {"invalidate", "announce"} =>
               pc[r] \in {"invalidate", "announce"} /\ number = held[r],
           step = "order" => req[r].op = "recharge",
           step \in {"lookup", "relookup"} => req[r].op \in {"charge", "admin_credit"},
           step = "txn" => req[r].op \in {"charge", "admin_credit", "verify"},
           step = "fetch" => req[r].op = "verify",
           step = "cache" => req[r].op = "balance",
           step \in {"find", "create"} => req[r].op \in {"balance", "admin_credit", "recharge"}
    PROVE  IInv'
<1>1. \A q \in Requests : /\ pc'[q] = IF q = r THEN step ELSE pc[q]
                          /\ held'[q] = IF q = r THEN number ELSE held[q]
  BY DEF IInv, TypeOK, Goto
<1>2. HeldIsPosting'
  BY <1>1 DEF IInv, HeldIsPosting
<1>3. AmountsAreMoved'
  BY <1>1 DEF IInv, AmountsAreMoved
<1>4. TypeOK'
  BY DEF IInv, TypeOK, Goto
<1>5. QED
  BY <1>2, <1>3, <1>4 DEF IInv

(* An answer ends the handler.                                             *)
LEMMA ReplyStep ==
    ASSUME IInv, NEW r \in Requests, NEW a \in Answer, pc[r] # "idle",
           Reply(r, a),
           wallets' \subseteq Users,
           cache' \in [Users -> Nat \union {None}],
           events' \in [Users -> Seq(Nat)],
           UNCHANGED <<balance, ledger, invoices, orders, req>>
    PROVE  IInv'
<1>1. answer' \in [Requests -> Answer \union {None}]
  BY DEF Reply, IInv, TypeOK
<1>2. Goto(r, "idle") /\ held' = [held EXCEPT ![r] = 0]
  BY DEF Reply
<1>3. QED
  BY <1>1, <1>2, QuietStep DEF Steps

(* The steps that change no table but wallets, no order and no request.    *)
LEMMA QuietStepKeepsTypes ==
    ASSUME IInv, NEW r \in Requests,
           \/ FindWallet(r) \/ CreateWallet(r) \/ LookupKey(r) \/ RelookupKey(r)
           \/ Invalidate(r) \/ Announce(r) \/ ReadCache(r) \/ FillCache(r)
           \/ FetchOrder(r)
    PROVE  IInv'
<1> DEFINE q == req[r]
<1>0. /\ q.user \in Users
      /\ held[r] \in Nat
      /\ held = [held EXCEPT ![r] = held[r]]
      /\ balance[q.user] \in Nat
      /\ cache[q.user] \in Nat \union {None}
      /\ wallets \subseteq Users
      /\ cache \in [Users -> Nat \union {None}]
      /\ events \in [Users -> Seq(Nat)]
      /\ answer \in [Requests -> Answer \union {None}]
      /\ q.op \in {"charge", "admin_credit", "balance", "recharge", "verify"}
  BY DEF IInv, TypeOK, Request
<1>a. Failed \in Answer /\ \A n \in Nat : Ok(n) \in Answer
  BY DEF Ok, Failed, Answer
<1>k. \A k : KeyTaken(k) => PostingWithKey(k).balance_after \in Nat
  BY FoundByKey DEF IInv
<1>1. CASE FindWallet(r)
  <2>1. pc[r] = "find" /\ q.op \in {"balance", "admin_credit", "recharge"}
    BY <1>1 DEF FindWallet, IInv, AmountsAreMoved
  <2>2. CASE q.user \in wallets
    BY <1>1, <1>0, <2>1, <2>2, QuietStep DEF FindWallet, AfterWallet, Steps, database
  <2>3. CASE q.user \notin wallets
    BY <1>1, <1>0, <2>1, <2>3, QuietStep DEF FindWallet, Steps, database
  <2>4. QED
    BY <2>2, <2>3
<1>2. CASE CreateWallet(r)
  <2>1. pc[r] = "create" /\ q.op \in {"balance", "admin_credit", "recharge"}
    BY <1>2 DEF CreateWallet, IInv, AmountsAreMoved
  <2>2. CASE q.user \in wallets
    BY <1>2, <1>0, <1>a, <2>1, <2>2, ReplyStep DEF CreateWallet
  <2>3. CASE q.user \notin wallets
    BY <1>2, <1>0, <2>1, <2>3, QuietStep, ZenonT(30) DEF CreateWallet, AfterWallet, Steps
  <2>4. QED
    BY <2>2, <2>3
<1>3. CASE LookupKey(r)
  <2>1. pc[r] = "lookup" /\ q.op \in {"charge", "admin_credit"}
    BY <1>3 DEF LookupKey, IInv, AmountsAreMoved
  <2>2. CASE q.key # NoKey /\ KeyTaken(q.key)
    BY <1>3, <1>0, <1>a, <1>k, <2>1, <2>2, ReplyStep DEF LookupKey, database
  <2>3. CASE ~(q.key # NoKey /\ KeyTaken(q.key))
    <3>1. /\ Goto(r, "txn")
          /\ UNCHANGED <<held, answer, wallets, balance, ledger, invoices,
                         orders, cache, events, req>>
      BY <1>3, <2>3 DEF LookupKey, database
    <3>2. QED
      BY <3>1, <1>0, <2>1, QuietStep DEF Steps
  <2>4. QED
    BY <2>2, <2>3
<1>4. CASE RelookupKey(r)
  <2>1. CASE KeyTaken(q.key)
    BY <1>4, <1>0, <1>a, <1>k, <2>1, ReplyStep DEF RelookupKey, database
  <2>2. CASE ~KeyTaken(q.key)
    BY <1>4, <1>0, <1>a, <2>2, ReplyStep DEF RelookupKey, database
  <2>3. QED
    BY <2>1, <2>2
<1>5. CASE Invalidate(r)
  <2>1. pc[r] = "invalidate" /\ cache' \in [Users -> Nat \union {None}]
    BY <1>5, <1>0 DEF Invalidate
  <2>2. QED
    BY <1>5, <1>0, <2>1, QuietStep DEF Invalidate, Steps, database
<1>6. CASE Announce(r)
  <2>1. ledger[q.user][held[r]].balance_after \in Nat
    <3>1. held[r] \in DOMAIN ledger[q.user]
      BY <1>6 DEF Announce, IInv, HeldIsPosting
    <3>2. ledger[q.user] \in Seq(Posting)
      BY <1>0 DEF IInv, TypeOK
    <3>3. ledger[q.user][held[r]] \in Posting
      BY <3>1, <3>2
    <3>4. QED
      BY <3>3 DEF Posting
  <2>2. pc[r] = "announce" /\ events' \in [Users -> Seq(Nat)]
    <3>1. Append(events[q.user], held[r]) \in Seq(Nat)
      BY <1>0
    <3>2. [events EXCEPT ![q.user] = Append(@, held[r])] \in [Users -> Seq(Nat)]
      BY <1>0, <3>1
    <3>3. QED
      BY <1>6, <1>0, <3>2 DEF Announce
  <2>3. Ok(ledger[q.user][held[r]].balance_after) \in Answer
    BY <2>1, <1>a
  <2>4. QED
    BY <1>6, <1>0, <2>2, <2>3, ReplyStep DEF Announce, database
<1>7. CASE ReadCache(r)
  <2>1. CASE cache[q.user] # None /\ Reply(r, Ok(cache[q.user]))
    BY <1>7, <1>0, <1>a, <2>1, ReplyStep DEF ReadCache, database
  <2>2. pc[r] = "cache" /\ q.op = "balance"
    BY <1>7 DEF ReadCache, IInv, AmountsAreMoved
  <2>3. CASE Goto(r, "find") /\ UNCHANGED <<held, answer>>
    BY <1>7, <1>0, <2>2, <2>3, QuietStep DEF ReadCache, Steps, database
  <2>4. QED
    BY <1>7, <2>1, <2>3 DEF ReadCache
<1>8. CASE FillCache(r)
  <2>1. cache' \in [Users -> Nat \union {None}]
    BY <1>8, <1>0 DEF FillCache
  <2>2. QED
    BY <1>8, <1>0, <1>a, <2>1, ReplyStep DEF FillCache, database
<1>9. CASE FetchOrder(r)
  <2>1. pc[r] = "fetch" /\ q.op = "verify"
    BY <1>9 DEF FetchOrder, IInv, AmountsAreMoved
  <2>2. CASE Goto(r, "txn") /\ UNCHANGED <<held, answer>>
    BY <1>9, <1>0, <2>1, <2>2, QuietStep DEF FetchOrder, Steps, database
  <2>3. CASE Reply(r, Failed)
    BY <1>9, <1>0, <1>a, <2>1, <2>3, ReplyStep DEF FetchOrder, database
  <2>4. QED
    BY <1>9, <2>2, <2>3 DEF FetchOrder
<1>10. QED
  BY <1>1, <1>2, <1>3, <1>4, <1>5, <1>6, <1>7, <1>8, <1>9

(* A refusal leaves everything but the handler as it was.                  *)
LEMMA RefusalKeepsTypes ==
    ASSUME IInv, NEW r \in Requests, pc[r] # "idle", Reply(r, Failed),
           UNCHANGED <<database, orders, cache, events, req>>
    PROVE  IInv'
<1>1. Failed \in Answer
  BY DEF Failed, Answer
<1>2. QED
  BY <1>1, ReplyStep DEF database, IInv, TypeOK

(* A debit or credit, refused, repeated or committed, keeps the invariant: *)
(* a debit commits only what the locked balance covers.                    *)
LEMMA ChargeKeepsTypes ==
    ASSUME IInv, NEW r \in Requests, Charge(r)
    PROVE  IInv'
<1> DEFINE q == req[r]
<1>1. pc[r] = "txn" /\ q.op \in {"charge", "admin_credit"}
  BY DEF Charge, IInv, AmountsAreMoved
<1>2. CASE Reply(r, Failed) /\ UNCHANGED <<database, orders, cache, events, req>>
  BY <1>1, <1>2, RefusalKeepsTypes
<1>3. CASE /\ Goto(r, "relookup")
           /\ UNCHANGED <<database, orders, cache, events, req, held, answer>>
  <2>1. held[r] \in Nat /\ held' = [held EXCEPT ![r] = held[r]]
    BY <1>3 DEF IInv, TypeOK
  <2>2. /\ wallets' \subseteq Users
        /\ cache' \in [Users -> Nat \union {None}]
        /\ events' \in [Users -> Seq(Nat)]
        /\ answer' \in [Requests -> Answer \union {None}]
        /\ UNCHANGED <<balance, ledger, invoices, orders, req>>
    BY <1>3 DEF IInv, TypeOK, database
  <2>3. QED
    BY <1>1, <1>3, <2>1, <2>2, QuietStep DEF Steps
<1>4. CASE /\ ~Refused(q)
           /\ Commit(r, q.type, q.amount, q.key, NoOrder)
           /\ UNCHANGED invoices
  <2>1. /\ q.type \in Types /\ q.amount \in Nat /\ q.key \in Keys \union {NoKey}
        /\ balance[q.user] \in Nat
    BY DEF IInv, TypeOK, Request
  <2>2. q.type = "debit" => balance[q.user] >= q.amount
    BY <1>4, <2>1 DEF Refused
  <2>3. invoices' \subseteq Users \X Nat
    BY <1>4 DEF IInv, TypeOK
  <2>4. QED
    BY <1>1, <1>4, <2>1, <2>2, <2>3, CommitKeepsTypes
<1>5. QED
  BY <1>2, <1>3, <1>4 DEF Charge

(* So does the credit of a recharge, committed with its invoice or rolled  *)
(* back.                                                                   *)
LEMMA CreditRechargeKeepsTypes ==
    ASSUME IInv, NEW r \in Requests, CreditRecharge(r)
    PROVE  IInv'
<1> DEFINE q == req[r]
<1>1. pc[r] = "txn" /\ q.op = "verify" /\ q.order \in Orders
  BY DEF CreditRecharge, IInv, AmountsAreMoved
<1>2. CASE Reply(r, Failed) /\ UNCHANGED <<database, orders, cache, events, req>>
  BY <1>1, <1>2, RefusalKeepsTypes
<1>3. CASE /\ Commit(r, "credit", Credited(orders[q.order]), NoKey, q.order)
           /\ invoices' = invoices \union {<<q.user, Len(ledger[q.user]) + 1>>}
  <2>1. q.user \in Users /\ Credited(orders[q.order]) \in Nat
    BY <1>1, CreditedIsNat DEF IInv, TypeOK, Request
  <2>2. Len(ledger[q.user]) + 1 \in Nat
    BY <2>1 DEF IInv, TypeOK
  <2>3. invoices' \subseteq Users \X Nat
    BY <1>3, <2>1, <2>2 DEF IInv, TypeOK
  <2>4. QED
    BY <1>1, <1>3, <2>1, <2>3, CommitKeepsTypes DEF Types
<1>4. QED
  BY <1>2, <1>3 DEF CreditRecharge

(* So does a new order, whose base and tax are those of an amount.         *)
LEMMA CreateOrderKeepsTypes ==
    ASSUME IInv, NEW r \in Requests, CreateOrder(r)
    PROVE  IInv'
<1> DEFINE q == req[r]
<1>1. pc[r] = "order" /\ q.op = "recharge" /\ q.amount \in Amounts /\ q.amount >= MinRecharge
  BY DEF CreateOrder, IInv, AmountsAreMoved
<1>2. CASE Reply(r, Failed) /\ UNCHANGED orders
  BY <1>1, <1>2, RefusalKeepsTypes DEF CreateOrder
<1>3. ASSUME NEW o \in Orders,
             NEW inclusive \in TaxModes, NEW base, NEW tax,
             base = BaseAmount(q.amount, inclusive),
             tax = TaxAmount(q.amount, inclusive),
             orders[o].status = "none",
             orders' = [orders EXCEPT ![o] =
                          [status |-> "created", total |-> base + tax,
                           base |-> base, tax |-> tax]],
             Reply(r, Ok(0))
      PROVE  IInv'
  <2>1. /\ base \in Nat /\ tax \in Nat
        /\ q.user \in Users /\ q.amount \in Nat \ {0}
    BY <1>1, <1>3, BaseIsNat, TaxIsNat, TaxAssumption, AmountAssumption
       DEF IInv, TypeOK, Request
  <2>2. base \in Moved /\ q.amount \in Moved
    BY <1>1, <1>3 DEF Moved
  <2>3. orders' \in [Orders -> Order]
    BY <1>3, <2>1 DEF IInv, TypeOK, Order
  <2>4. \A p \in Orders : orders'[p].status # "none" => Credited(orders'[p]) \in Moved
    <3>1. base = 0 => base + tax = q.amount
      BY <1>3, <2>1 DEF BaseAmount, TaxAmount
    <3>2. Credited(orders'[o]) \in Moved
      BY <1>3, <2>2, <3>1 DEF IInv, TypeOK, Credited
    <3>3. QED
      BY <1>3, <3>2 DEF IInv, TypeOK, AmountsAreMoved
  <2>5. \A p \in Orders : orders[p].status # "none" => orders'[p].status # "none"
    BY <1>3 DEF IInv, TypeOK
  <2>6. /\ pc' = [pc EXCEPT ![r] = "idle"]
        /\ held' = [held EXCEPT ![r] = 0]
        /\ answer' = [answer EXCEPT ![r] = Ok(0)]
        /\ UNCHANGED <<wallets, balance, ledger, invoices, cache, events, req>>
    BY <1>3 DEF CreateOrder, Reply, Goto, database
  <2>7. TypeOK'
    BY <2>3, <2>6 DEF IInv, TypeOK, Ok, Answer, Steps
  <2>8. HeldIsPosting'
    BY <2>6 DEF IInv, TypeOK, HeldIsPosting
  <2>9. AmountsAreMoved'
    BY <2>4, <2>5, <2>6 DEF IInv, TypeOK, AmountsAreMoved
  <2>10. QED
    BY <2>7, <2>8, <2>9 DEF IInv
<1>4. QED
  BY <1>2, <1>3 DEF CreateOrder

(* Steps of the environment: another service makes an order, the customer  *)
(* pays, the cache expires, the process dies.                              *)
LEMMA EnvironmentKeepsTypes ==
    ASSUME IInv, \/ \E o \in Orders : OrderElsewhere(o) \/ Pay(o)
                 \/ \E u \in Users : Expire(u)
                 \/ Crash
    PROVE  IInv'
<1>1. ASSUME NEW o \in Orders, Pay(o)
      PROVE  IInv'
  <2>1. orders' \in [Orders -> Order]
    <3>1. orders \in [Orders -> Order] /\ orders[o] \in Order
      BY DEF IInv, TypeOK
    <3>2. [orders[o] EXCEPT !.status = "paid"] \in Order
      BY <3>1 DEF Order
    <3>3. orders' = [orders EXCEPT ![o] = [orders[o] EXCEPT !.status = "paid"]]
      BY <1>1 DEF Pay
    <3>4. QED
      BY <3>1, <3>2, <3>3
  <2>2. TypeOK'
    BY <1>1, <2>1 DEF Pay, IInv, TypeOK, database
  <2>3. \A p \in Orders : /\ Credited(orders'[p]) = Credited(orders[p])
                          /\ (orders'[p].status = "none") <=> (orders[p].status = "none")
    BY <1>1 DEF Pay, IInv, TypeOK, Order, Credited
  <2>4. HeldIsPosting'
    BY <1>1 DEF Pay, IInv, HeldIsPosting, database
  <2>5. AmountsAreMoved'
    BY <1>1, <2>3 DEF Pay, IInv, AmountsAreMoved
  <2>6. QED
    BY <2>2, <2>4, <2>5 DEF IInv
<1>2. ASSUME NEW u \in Users, Expire(u)
      PROVE  IInv'
  BY <1>2 DEF Expire, IInv, TypeOK, HeldIsPosting, AmountsAreMoved, database
<1>3. CASE Crash
  BY <1>3 DEF Crash, IInv, TypeOK, HeldIsPosting, AmountsAreMoved, database, Steps
<1>4. ASSUME NEW o \in Orders, OrderElsewhere(o)
      PROVE  IInv'
  <2>1. PICK amount \in Amounts :
           orders' = [orders EXCEPT ![o] = [status |-> "created", total |-> amount,
                                            base |-> 0, tax |-> 0]]
    BY <1>4 DEF OrderElsewhere
  <2>2. amount \in Nat /\ amount \in Moved
    BY AmountAssumption DEF Moved
  <2>3. orders' \in [Orders -> Order]
    BY <2>1, <2>2 DEF IInv, TypeOK, Order
  <2>4. \A p \in Orders : /\ orders'[p].status # "none" => Credited(orders'[p]) \in Moved
                          /\ orders[p].status # "none" => orders'[p].status # "none"
    BY <2>1, <2>2 DEF IInv, TypeOK, AmountsAreMoved, Credited
  <2>5. TypeOK'
    BY <1>4, <2>3 DEF OrderElsewhere, IInv, TypeOK, database
  <2>6. HeldIsPosting'
    BY <1>4 DEF OrderElsewhere, IInv, HeldIsPosting, database
  <2>7. AmountsAreMoved'
    BY <1>4, <2>4 DEF OrderElsewhere, IInv, AmountsAreMoved
  <2>8. QED
    BY <2>5, <2>6, <2>7 DEF IInv
<1>5. QED
  BY <1>1, <1>2, <1>3, <1>4

(* The invariant is inductive: every step of the service keeps it.         *)
LEMMA StepHolds == IInv /\ [Next]_vars => IInv'
<1> SUFFICES ASSUME IInv, [Next]_vars
             PROVE  IInv'
  OBVIOUS
<1>1. ASSUME NEW r \in Requests, Handle(r)
      PROVE  IInv'
  BY <1>1, RequestKeepsTypes, QuietStepKeepsTypes, ChargeKeepsTypes,
     CreditRechargeKeepsTypes, CreateOrderKeepsTypes DEF Handle
<1>2. CASE UNCHANGED vars
  BY <1>2 DEF vars, database, IInv, TypeOK, HeldIsPosting, AmountsAreMoved
<1>3. QED
  BY <1>1, <1>2, EnvironmentKeepsTypes DEF Next

(* The types of all state, and with them that no balance is negative: a    *)
(* debit is refused under the lock that protects the balance it read.      *)
THEOREM TypeCorrect == Spec => []TypeOK
<1>1. IInv => TypeOK
  BY DEF IInv
<1>2. QED
  BY <1>1, InitHolds, StepHolds, PTL DEF Spec

-----------------------------------------------------------------------------
Row(u, type, amount, key, order) ==
    [type |-> type, amount |-> amount,
     balance_after |-> After(balance[u], type, amount), key |-> key, order |-> order]

Posts(u, type, amount, key, order) ==
    /\ After(balance[u], type, amount) \in Nat
    /\ key # NoKey => ~KeyTaken(key)
    /\ balance' = [balance EXCEPT ![u] = After(balance[u], type, amount)]
    /\ ledger' = [ledger EXCEPT ![u] = Append(@, Row(u, type, amount, key, order))]

(* Every step posts one whole row to one account, or no account changes.   *)
LEMMA StepPosts ==
    ASSUME IInv, [Next]_vars
    PROVE  \/ UNCHANGED <<balance, ledger>>
           \/ \E u \in Users, type \in Types, amount \in Moved \cap Nat,
                key \in Keys \union {NoKey}, order \in Orders \union {NoOrder} :
                 Posts(u, type, amount, key, order)
<1>1. ASSUME NEW r \in Requests, Charge(r), ~UNCHANGED <<balance, ledger>>
      PROVE  Posts(req[r].user, req[r].type, req[r].amount, req[r].key, NoOrder)
  <2> DEFINE q == req[r]
  <2>1. /\ q.user \in Users /\ q.type \in Types /\ q.amount \in Nat
        /\ balance[q.user] \in Nat
    BY DEF IInv, TypeOK, Request
  <2>2. /\ ~Refused(q)
        /\ q.key # NoKey => ~KeyTaken(q.key)
        /\ Commit(r, q.type, q.amount, q.key, NoOrder)
    BY <1>1 DEF Charge, database
  <2>3. After(balance[q.user], q.type, q.amount) \in Nat
    BY <2>1, <2>2 DEF Refused, After, Types
  <2>4. QED
    BY <2>2, <2>3 DEF Commit, Posts, Row
<1>2. ASSUME NEW r \in Requests, Charge(r)
      PROVE  /\ req[r].user \in Users /\ req[r].type \in Types
             /\ req[r].amount \in Moved \cap Nat
             /\ req[r].key \in Keys \union {NoKey}
  BY <1>2 DEF Charge, IInv, TypeOK, AmountsAreMoved, Request
<1>3. ASSUME NEW r \in Requests, CreditRecharge(r), ~UNCHANGED <<balance, ledger>>
      PROVE  Posts(req[r].user, "credit", Credited(orders[req[r].order]), NoKey, req[r].order)
  <2> DEFINE q == req[r]
  <2>1. Commit(r, "credit", Credited(orders[q.order]), NoKey, q.order)
    BY <1>3 DEF CreditRecharge, database
  <2>2. q.user \in Users /\ q.order \in Orders
    BY <1>3 DEF CreditRecharge, IInv, TypeOK, AmountsAreMoved, Request
  <2>3. balance[q.user] \in Nat /\ Credited(orders[q.order]) \in Nat
    BY <2>2, CreditedIsNat DEF IInv, TypeOK
  <2>4. After(balance[q.user], "credit", Credited(orders[q.order])) \in Nat
    BY <2>3 DEF After
  <2>5. QED
    BY <2>1, <2>4 DEF Commit, Posts, Row
<1>4. ASSUME NEW r \in Requests, CreditRecharge(r)
      PROVE  /\ req[r].user \in Users /\ req[r].order \in Orders
             /\ Credited(orders[req[r].order]) \in Moved \cap Nat
  BY <1>4, CreditedIsNat DEF CreditRecharge, IInv, TypeOK, AmountsAreMoved, Request
<1>5. ASSUME NEW r \in Requests, Handle(r), ~Charge(r), ~CreditRecharge(r)
      PROVE  UNCHANGED <<balance, ledger>>
  <2>1. CASE \/ ChargeRequest(r) \/ AdminCreditRequest(r) \/ BalanceRequest(r)
             \/ RechargeRequest(r) \/ VerifyRequest(r)
    BY <2>1 DEF ChargeRequest, AdminCreditRequest, BalanceRequest, RechargeRequest,
       VerifyRequest, Begin, database
  <2>2. CASE \/ FindWallet(r) \/ CreateWallet(r) \/ LookupKey(r) \/ RelookupKey(r)
    BY <2>2 DEF FindWallet, CreateWallet, LookupKey, RelookupKey, database
  <2>3. CASE \/ Invalidate(r) \/ Announce(r) \/ ReadCache(r) \/ FillCache(r)
    BY <2>3 DEF Invalidate, Announce, ReadCache, FillCache, database
  <2>4. CASE CreateOrder(r) \/ FetchOrder(r)
    BY <2>4 DEF CreateOrder, FetchOrder, database
  <2>5. QED
    BY <1>5, <2>1, <2>2, <2>3, <2>4 DEF Handle
<1>6. ASSUME \/ \E o \in Orders : OrderElsewhere(o) \/ Pay(o)
             \/ \E u \in Users : Expire(u)
             \/ Crash
             \/ UNCHANGED vars
      PROVE  UNCHANGED <<balance, ledger>>
  BY <1>6 DEF OrderElsewhere, Pay, Expire, Crash, vars, database
<1>7. ASSUME NEW r \in Requests, Charge(r) \/ CreditRecharge(r),
             ~UNCHANGED <<balance, ledger>>
      PROVE  \E u \in Users, type \in Types, amount \in Moved \cap Nat,
                key \in Keys \union {NoKey}, order \in Orders \union {NoOrder} :
                 Posts(u, type, amount, key, order)
  <2>1. CASE Charge(r)
    BY <1>7, <2>1, <1>1, <1>2
  <2>2. CASE CreditRecharge(r)
    <3>1. "credit" \in Types
      BY DEF Types
    <3>2. QED
      BY <1>7, <2>2, <3>1, <1>3, <1>4
  <2>3. QED
    BY <1>7, <2>1, <2>2
<1>8. QED
  BY <1>5, <1>6, <1>7 DEF Next

(* The balance column is always explained by the rows, whatever handlers   *)
(* ran at the same time, failed or died.                                   *)
THEOREM LedgerAlwaysExplainsBalance == Spec => []LedgerExplainsBalance
<1>1. Init => LedgerExplainsBalance
  <2>1. Init => \A u \in Users : balance[u] = 0 /\ ledger[u] = <<>>
    BY DEF Init
  <2>2. DOMAIN <<>> = {}
    OBVIOUS
  <2>3. QED
    BY <2>1, <2>2 DEF LedgerExplainsBalance
<1>2. IInv /\ LedgerExplainsBalance /\ [Next]_vars => LedgerExplainsBalance'
  <2> SUFFICES ASSUME IInv, LedgerExplainsBalance, [Next]_vars
               PROVE  LedgerExplainsBalance'
    OBVIOUS
  <2>1. CASE UNCHANGED <<balance, ledger>>
    BY <2>1 DEF LedgerExplainsBalance, BalanceBefore
  <2>2. ASSUME NEW u \in Users, NEW type \in Types, NEW amount \in Moved \cap Nat,
               NEW key \in Keys \union {NoKey}, NEW order \in Orders \union {NoOrder},
               Posts(u, type, amount, key, order)
        PROVE  LedgerExplainsBalance'
    <3> DEFINE n == Len(ledger[u])
               row == Row(u, type, amount, key, order)
    <3>1. /\ ledger \in [Users -> Seq(Posting)] /\ ledger[u] \in Seq(Posting)
          /\ balance \in [Users -> Nat] /\ n \in Nat
      BY DEF IInv, TypeOK
    <3>2. row \in Posting
      BY <2>2 DEF Posts, Row, Posting
    <3>3. /\ row.balance_after = After(balance[u], type, amount)
          /\ row.type = type /\ row.amount = amount
      BY DEF Row
    <3> HIDE DEF row
    <3>4. ledger' = [ledger EXCEPT ![u] = Append(ledger[u], row)]
      BY <2>2 DEF Posts, row
    <3>5. /\ Len(ledger'[u]) = n + 1
          /\ ledger'[u][n + 1] = row
          /\ DOMAIN ledger'[u] = 1 .. n + 1
          /\ DOMAIN ledger[u] = 1 .. n
          /\ \A i \in 1 .. n : ledger'[u][i] = ledger[u][i]
      BY <3>1, <3>2, <3>4
    <3>6. \A v \in Users \ {u} : ledger'[v] = ledger[v] /\ balance'[v] = balance[v]
      BY <2>2, <3>1, <3>4 DEF Posts
    <3>7. balance'[u] = row.balance_after /\ ledger'[u] # <<>>
      BY <2>2, <3>1, <3>3, <3>5 DEF Posts
    <3>8. balance[u] = IF n = 0 THEN 0 ELSE ledger[u][n].balance_after
      BY <3>1 DEF LedgerExplainsBalance
    <3>9. ASSUME NEW i \in 1 .. n + 1
          PROVE  ledger'[u][i].balance_after =
                    After(IF i = 1 THEN 0 ELSE ledger'[u][i - 1].balance_after,
                          ledger'[u][i].type, ledger'[u][i].amount)
      <4>1. CASE i = n + 1
        BY <4>1, <3>1, <3>3, <3>5, <3>8
      <4>2. CASE i \in 1 .. n
        <5>1. ledger[u][i].balance_after =
                 After(IF i = 1 THEN 0 ELSE ledger[u][i - 1].balance_after,
                       ledger[u][i].type, ledger[u][i].amount)
          BY <4>2, <3>5 DEF LedgerExplainsBalance, BalanceBefore
        <5>2. i # 1 => i - 1 \in 1 .. n
          BY <4>2, <3>1
        <5>3. QED
          BY <4>2, <3>5, <5>1, <5>2
      <4>3. QED
        BY <4>1, <4>2, <3>1
    <3>10. QED
      <4> SUFFICES ASSUME NEW v \in Users
                   PROVE  /\ balance'[v] = IF ledger'[v] = <<>> THEN 0
                                           ELSE ledger'[v][Len(ledger'[v])].balance_after
                          /\ \A i \in DOMAIN ledger'[v] :
                                ledger'[v][i].balance_after =
                                  After(IF i = 1 THEN 0 ELSE ledger'[v][i - 1].balance_after,
                                        ledger'[v][i].type, ledger'[v][i].amount)
        BY DEF LedgerExplainsBalance, BalanceBefore
      <4>1. CASE v = u
        BY <4>1, <3>5, <3>7, <3>9
      <4>2. CASE v # u
        BY <4>2, <3>6 DEF LedgerExplainsBalance, BalanceBefore
      <4>3. QED
        BY <4>1, <4>2
  <2>3. QED
    BY <2>1, <2>2, StepPosts
<1>3. QED
  BY <1>1, <1>2, InitHolds, StepHolds, PTL DEF Spec

(* An idempotency key is in the book once at most.                         *)
THEOREM KeyAlwaysChargedOnce == Spec => []KeyChargedOnce
<1>1. Init => KeyChargedOnce
  <2>1. Init => \A u \in Users : ledger[u] = <<>>
    BY DEF Init
  <2>2. DOMAIN <<>> = {}
    OBVIOUS
  <2>3. QED
    BY <2>1, <2>2 DEF KeyChargedOnce
<1>2. IInv /\ KeyChargedOnce /\ [Next]_vars => KeyChargedOnce'
  <2> SUFFICES ASSUME IInv, KeyChargedOnce, [Next]_vars
               PROVE  KeyChargedOnce'
    OBVIOUS
  <2>1. CASE UNCHANGED <<balance, ledger>>
    BY <2>1 DEF KeyChargedOnce
  <2>2. ASSUME NEW w \in Users, NEW type \in Types, NEW amount \in Moved \cap Nat,
               NEW key \in Keys \union {NoKey}, NEW order \in Orders \union {NoOrder},
               Posts(w, type, amount, key, order)
        PROVE  KeyChargedOnce'
    <3> DEFINE n == Len(ledger[w])
               row == Row(w, type, amount, key, order)
    <3>1. ledger \in [Users -> Seq(Posting)] /\ ledger[w] \in Seq(Posting) /\ n \in Nat
      BY DEF IInv, TypeOK
    <3>2. row.key = key
      BY DEF Row
    <3> HIDE DEF row
    <3>3. ledger' = [ledger EXCEPT ![w] = Append(ledger[w], row)]
      BY <2>2 DEF Posts, row
    <3>4. /\ DOMAIN ledger'[w] = 1 .. n + 1
          /\ DOMAIN ledger[w] = 1 .. n
          /\ ledger'[w][n + 1] = row
          /\ \A i \in 1 .. n : ledger'[w][i] = ledger[w][i]
          /\ \A v \in Users \ {w} : ledger'[v] = ledger[v]
      BY <3>1, <3>3
    <3>5. \A v \in Users : \A i \in DOMAIN ledger'[v] :
             \/ i \in DOMAIN ledger[v] /\ ledger'[v][i] = ledger[v][i]
             \/ v = w /\ i = n + 1 /\ ledger'[v][i].key = key
      BY <3>1, <3>2, <3>4
    <3>6. key # NoKey => \A v \in Users : \A i \in DOMAIN ledger[v] : ledger[v][i].key # key
      BY <2>2 DEF Posts, KeyTaken
    <3>7. QED
      BY <3>5, <3>6 DEF KeyChargedOnce
  <2>3. QED
    BY <2>1, <2>2, StepPosts
<1>3. QED
  BY <1>1, <1>2, InitHolds, StepHolds, PTL DEF Spec

(* Forgetting the orders commutes with appending a row.                    *)
LEMMA PlainOfAppend ==
    ASSUME NEW s \in Seq(Posting), NEW p \in Posting
    PROVE  [i \in DOMAIN Append(s, p) |-> Plain(Append(s, p)[i])]
              = Append([i \in DOMAIN s |-> Plain(s[i])], Plain(p))
<1> DEFINE plain == [i \in DOMAIN s |-> Plain(s[i])]
           both == [i \in DOMAIN Append(s, p) |-> Plain(Append(s, p)[i])]
<1>1. \A q \in Posting : Plain(q) \in [type : Types, amount : Nat, balance_after : Nat,
                                      key : Keys \union {NoKey}]
  BY DEF Plain, Posting
<1> DEFINE PlainPosting == [type : Types, amount : Nat, balance_after : Nat,
                            key : Keys \union {NoKey}]
<1> HIDE DEF PlainPosting
<1>2. Len(s) \in Nat /\ DOMAIN s = 1 .. Len(s) /\ DOMAIN Append(s, p) = 1 .. Len(s) + 1
  OBVIOUS
<1>3. plain \in Seq(PlainPosting) /\ Len(plain) = Len(s)
  BY <1>1, <1>2 DEF PlainPosting
<1>4. Append(plain, Plain(p)) \in Seq(PlainPosting)
  BY <1>1, <1>3 DEF PlainPosting
<1>5. DOMAIN Append(plain, Plain(p)) = 1 .. Len(s) + 1
  BY <1>2, <1>3
<1>6. \A i \in 1 .. Len(s) + 1 : Append(plain, Plain(p))[i] = both[i]
  BY <1>2, <1>3
<1>7. QED
  BY <1>2, <1>4, <1>5, <1>6

(* A committed posting is a posting of the abstract ledger.                *)
LEMMA StepPostsInBook ==
    ASSUME IInv, NEW u \in Users, NEW type \in Types, NEW amount \in Moved \cap Nat,
           NEW key \in Keys \union {NoKey}, NEW order \in Orders \union {NoOrder},
           Posts(u, type, amount, key, order)
    PROVE  Book!Post(u, type, amount, key)
<1> DEFINE row == Row(u, type, amount, key, order)
           plain(v) == [i \in DOMAIN ledger[v] |-> Plain(ledger[v][i])]
<1>1. ledger \in [Users -> Seq(Posting)] /\ ledger[u] \in Seq(Posting) /\ row \in Posting
  BY DEF IInv, TypeOK, Posts, Row, Posting
<1>2. Plain(row) = [type |-> type, amount |-> amount,
                    balance_after |-> After(balance[u], type, amount), key |-> key]
  BY DEF Plain, Row
<1>3. Book!After(balance[u], type, amount) = After(balance[u], type, amount)
  BY DEF Book!After, After
<1>4. Book!After(balance[u], type, amount) >= 0
  BY <1>3 DEF Posts
<1>5. Book!KeyTaken(key) <=> KeyTaken(key)
  BY DEF Book!KeyTaken, KeyTaken, PlainLedger, Plain
<1>6. balance' = [balance EXCEPT ![u] = Book!After(@, type, amount)]
  BY <1>3 DEF Posts, IInv, TypeOK
<1> HIDE DEF row
<1>7. ledger' = [ledger EXCEPT ![u] = Append(ledger[u], row)]
  BY DEF Posts, row
<1>8. [i \in DOMAIN ledger'[u] |-> Plain(ledger'[u][i])] = Append(plain(u), Plain(row))
  BY <1>1, <1>7, PlainOfAppend
<1>9. PlainLedger' = [PlainLedger EXCEPT ![u] = Append(plain(u), Plain(row))]
  <2>1. \A v \in Users : [i \in DOMAIN ledger'[v] |-> Plain(ledger'[v][i])]
                          = IF v = u THEN Append(plain(u), Plain(row)) ELSE plain(v)
    BY <1>1, <1>7, <1>8
  <2>2. QED
    BY <2>1 DEF PlainLedger
<1>10. QED
  BY <1>2, <1>3, <1>4, <1>5, <1>6, <1>9 DEF Book!Post, Posts, PlainLedger

(* The handlers implement the ledger: each of their steps is one posting   *)
(* of the abstract book, or leaves every account alone.                    *)
THEOREM WalletImplementsLedger == Spec => ImplementsLedger
<1>1. Init => Book!Init
  <2>1. Init => ledger = [u \in Users |-> <<>>] /\ balance = [u \in Users |-> 0]
    BY DEF Init
  <2>2. [i \in DOMAIN <<>> |-> Plain(<<>>[i])] = <<>>
    OBVIOUS
  <2>3. QED
    BY <2>1, <2>2 DEF Book!Init, PlainLedger
<1>2. IInv /\ [Next]_vars => [Book!Next]_(Book!vars)
  <2> SUFFICES ASSUME IInv, [Next]_vars
               PROVE  [Book!Next]_(Book!vars)
    OBVIOUS
  <2>1. CASE UNCHANGED <<balance, ledger>>
    BY <2>1 DEF Book!vars, PlainLedger
  <2>2. ASSUME NEW u \in Users, NEW type \in Types, NEW amount \in Moved \cap Nat,
               NEW key \in Keys \union {NoKey}, NEW order \in Orders \union {NoOrder},
               Posts(u, type, amount, key, order)
        PROVE  Book!Next
    BY <2>2, StepPostsInBook DEF Book!Next, Types
  <2>3. QED
    BY <2>1, <2>2, StepPosts
<1>3. QED
  BY <1>1, <1>2, InitHolds, StepHolds, PTL DEF Spec, ImplementsLedger, Book!Spec

-----------------------------------------------------------------------------
(* Rounding is off by half the divisor at most.                            *)
LEMMA RoundingError ==
    ASSUME NEW num \in Nat, NEW den \in Nat \ {0}
    PROVE  /\ 2 * (den * Round(num, den)) <= 2 * num + den
           /\ 2 * num + den < 2 * (den * Round(num, den)) + 2 * den
<1> DEFINE x == 2 * num + den
           y == 2 * den
           z == x \div y
<1>1. x \in Nat /\ y \in Nat \ {0} /\ z \in Nat
  OBVIOUS
<1>2. y * z <= x /\ x < y * z + y
  BY <1>1
<1>3. y * z = 2 * (den * z)
  BY <1>1
<1>4. QED
  BY <1>2, <1>3 DEF Round

(* The split of an amount taxes its base at the rate, to half a paisa.     *)
LEMMA TaxOfAnAmount ==
    ASSUME NEW a \in Nat, NEW inclusive \in BOOLEAN
    PROVE  2 * (100 * TaxAmount(a, inclusive) - TaxRate * BaseAmount(a, inclusive))
              \in -(100 + TaxRate) .. 100 + TaxRate
<1>1. BaseAmount(a, inclusive) \in Nat /\ TaxAmount(a, inclusive) \in Nat /\ TaxRate \in Nat
  BY BaseIsNat, TaxIsNat, TaxAssumption
<1>2. CASE inclusive
  <2> DEFINE b == BaseAmount(a, inclusive)
             d == 100 + TaxRate
  <2>1. b = Round(100 * a, d) /\ TaxAmount(a, inclusive) = a - b
    BY <1>2 DEF BaseAmount, TaxAmount
  <2>2. 100 * a \in Nat /\ d \in Nat \ {0}
    BY <1>1
  <2>3. 2 * (d * b) <= 2 * (100 * a) + d /\ 2 * (100 * a) + d < 2 * (d * b) + 2 * d
    BY <2>1, <2>2, RoundingError
  <2>4. d * b = 100 * b + TaxRate * b
    BY <1>1
  <2>5. TaxRate * b \in Nat
    BY <1>1
  <2>6. QED
    BY <1>1, <2>1, <2>3, <2>4, <2>5
<1>3. CASE ~inclusive
  <2> DEFINE t == Round(a * TaxRate, 100)
  <2>1. BaseAmount(a, inclusive) = a /\ TaxAmount(a, inclusive) = t
    BY <1>3 DEF BaseAmount, TaxAmount
  <2>2. a * TaxRate \in Nat /\ a * TaxRate = TaxRate * a
    BY <1>1
  <2>3. 2 * (100 * t) <= 2 * (a * TaxRate) + 100
        /\ 2 * (a * TaxRate) + 100 < 2 * (100 * t) + 200
    BY <2>2, RoundingError
  <2>4. QED
    BY <1>1, <2>1, <2>2, <2>3
<1>4. QED
  BY <1>2, <1>3

(* Every order is taxed at the configured rate, to half a paisa of         *)
(* rounding, whether the amount included the tax or not.                   *)
THEOREM TaxAlwaysFollowsRate == Spec => []TaxFollowsRate
<1>1. Init => TaxFollowsRate
  BY TaxAssumption DEF Init, TaxFollowsRate
<1>2. IInv /\ TaxFollowsRate /\ [Next]_vars => TaxFollowsRate'
  <2> SUFFICES ASSUME IInv, TaxFollowsRate, [Next]_vars
               PROVE  TaxFollowsRate'
    OBVIOUS
  <2>1. CASE UNCHANGED orders
    BY <2>1 DEF TaxFollowsRate
  <2>2. ASSUME NEW r \in Requests, CreateOrder(r), ~UNCHANGED orders
        PROVE  TaxFollowsRate'
    <3> DEFINE a == req[r].amount
    <3>1. a \in Nat
      BY DEF IInv, TypeOK, Request
    <3>2. PICK o \in Orders, inclusive \in TaxModes :
             LET base == BaseAmount(a, inclusive)
                 tax == TaxAmount(a, inclusive)
             IN  orders' = [orders EXCEPT ![o] =
                              [status |-> "created", total |-> base + tax,
                               base |-> base, tax |-> tax]]
      BY <2>2 DEF CreateOrder
    <3>3. /\ orders'[o].base = BaseAmount(a, inclusive)
          /\ orders'[o].tax = TaxAmount(a, inclusive)
          /\ \A p \in Orders \ {o} : orders'[p] = orders[p]
      BY <3>2 DEF IInv, TypeOK
    <3>4. QED
      BY <3>1, <3>3, TaxOfAnAmount, TaxAssumption DEF TaxFollowsRate
  <2>3. ASSUME NEW o \in Orders, Pay(o)
        PROVE  TaxFollowsRate'
    <3>1. \A p \in Orders : /\ orders'[p].base = orders[p].base
                            /\ orders'[p].tax = orders[p].tax
      BY <2>3 DEF Pay, IInv, TypeOK, Order
    <3>2. QED
      BY <3>1 DEF TaxFollowsRate
  <2>4. ASSUME NEW o \in Orders, OrderElsewhere(o)
        PROVE  TaxFollowsRate'
    <3>1. /\ orders'[o].base = 0 /\ orders'[o].tax = 0
          /\ \A p \in Orders \ {o} : orders'[p] = orders[p]
      BY <2>4 DEF OrderElsewhere, IInv, TypeOK
    <3>2. QED
      BY <3>1, TaxAssumption DEF TaxFollowsRate
  <2>5. QED
    <3>1. ASSUME NEW r \in Requests, Handle(r), ~CreateOrder(r)
          PROVE  UNCHANGED orders
      <4>1. CASE \/ ChargeRequest(r) \/ AdminCreditRequest(r) \/ BalanceRequest(r)
                 \/ RechargeRequest(r) \/ VerifyRequest(r)
        BY <4>1 DEF ChargeRequest, AdminCreditRequest, BalanceRequest, RechargeRequest,
           VerifyRequest, Begin
      <4>2. CASE \/ FindWallet(r) \/ CreateWallet(r) \/ LookupKey(r) \/ RelookupKey(r)
                 \/ Invalidate(r) \/ Announce(r) \/ ReadCache(r) \/ FillCache(r)
                 \/ FetchOrder(r)
        BY <4>2 DEF FindWallet, CreateWallet, LookupKey, RelookupKey, Invalidate,
           Announce, ReadCache, FillCache, FetchOrder
      <4>3. CASE Charge(r) \/ CreditRecharge(r)
        BY <4>3 DEF Charge, CreditRecharge, Commit
      <4>4. QED
        BY <3>1, <4>1, <4>2, <4>3 DEF Handle
    <3>2. ASSUME (\E u \in Users : Expire(u)) \/ Crash \/ UNCHANGED vars
          PROVE  UNCHANGED orders
      BY <3>2 DEF Expire, Crash, vars
    <3>3. QED
      BY <2>1, <2>2, <2>3, <2>4, <3>1, <3>2 DEF Next
<1>3. QED
  BY <1>1, <1>2, InitHolds, StepHolds, PTL DEF Spec

=============================================================================
