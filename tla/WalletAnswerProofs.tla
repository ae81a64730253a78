------------------------- MODULE WalletAnswerProofs -------------------------
(***************************************************************************)
(* What wallet-service tells of its book: answers, invoices, events and    *)
(* cached balances, for every number of owners, handlers, keys and orders. *)
(***************************************************************************)
EXTENDS WalletProofs

(* A handler serves a request that a caller could make; the order that a   *)
(* verified payment is credited for is paid.                               *)
Fits(r) ==
    pc[r] # "idle" =>
        /\ pc[r] = "fill" => req[r].op = "balance"
        /\ pc[r] = "relookup" => req[r].key # NoKey
        /\ req[r].op # "verify" => req[r].order = NoOrder
        /\ req[r].op = "verify" =>
              /\ req[r].key = NoKey
              /\ pc[r] = "txn" => orders[req[r].order].status = "paid"
        /\ req[r].key # NoKey =>
              /\ KeyCharge[req[r].key].user = req[r].user
              /\ KeyCharge[req[r].key].type = req[r].type
              /\ KeyCharge[req[r].key].amount = req[r].amount

RequestsFit == \A r \in Requests : Fits(r)

(* An order keeps what it is credited with once it is made, and is paid    *)
(* for good.                                                               *)
OrdersStay ==
    \A o \in Orders : orders[o].status # "none" =>
        /\ Credited(orders'[o]) = Credited(orders[o])
        /\ orders[o].status = "paid" => orders'[o].status = "paid"

(* Every step keeps the orders that way.                                   *)
LEMMA OrdersAlwaysStay ==
    ASSUME IInv, [Next]_vars
    PROVE  OrdersStay
<1>0. orders \in [Orders -> Order]
  BY DEF IInv, TypeOK
<1>1. ASSUME NEW r \in Requests, Handle(r), ~CreateOrder(r)
      PROVE  orders' = orders
  <2>1. CASE \/ ChargeRequest(r) \/ AdminCreditRequest(r) \/ BalanceRequest(r)
             \/ RechargeRequest(r) \/ VerifyRequest(r)
    BY <2>1 DEF ChargeRequest, AdminCreditRequest, BalanceRequest, RechargeRequest,
       VerifyRequest, Begin
  <2>2. CASE \/ FindWallet(r) \/ CreateWallet(r) \/ LookupKey(r) \/ RelookupKey(r)
    BY <2>2 DEF FindWallet, CreateWallet, LookupKey, RelookupKey
  <2>3. CASE \/ Invalidate(r) \/ Announce(r) \/ ReadCache(r) \/ FillCache(r) \/ FetchOrder(r)
    BY <2>3 DEF Invalidate, Announce, ReadCache, FillCache, FetchOrder
  <2>4. CASE Charge(r) \/ CreditRecharge(r)
    BY <2>4 DEF Charge, CreditRecharge, Commit
  <2>5. QED
    BY <1>1, <2>1, <2>2, <2>3, <2>4 DEF Handle
<1>2. ASSUME NEW r \in Requests, CreateOrder(r)
      PROVE  OrdersStay
  BY <1>0, <1>2 DEF CreateOrder, OrdersStay
<1>3. ASSUME NEW o \in Orders, Pay(o)
      PROVE  OrdersStay
  BY <1>0, <1>3 DEF Pay, OrdersStay, Order, Credited
<1>4. ASSUME \/ \E u \in Users : Expire(u)
             \/ Crash
             \/ UNCHANGED vars
      PROVE  orders' = orders
  BY <1>4 DEF Expire, Crash, vars
<1>5. orders' = orders => OrdersStay
  BY DEF OrdersStay
<1>6. ASSUME NEW o \in Orders, OrderElsewhere(o)
      PROVE  OrdersStay
  BY <1>0, <1>6 DEF OrderElsewhere, OrdersStay
<1>7. QED
  BY <1>1, <1>2, <1>3, <1>4, <1>5, <1>6 DEF Next

-----------------------------------------------------------------------------
(* The kinds of steps.                                                     *)

Told == {"invalidate", "announce"}

Others(r) == \A s \in Requests \ {r} : /\ pc'[s] = pc[s] /\ held'[s] = held[s]
                                       /\ answer'[s] = answer[s] /\ req'[s] = req[s]

(* A request begins.                                                       *)
Starts(r) ==
    /\ Others(r)
    /\ pc[r] = "idle" /\ pc'[r] \notin Told \union {"fill", "txn", "relookup", "idle"}
    /\ answer'[r] = None
    /\ UNCHANGED <<balance, ledger, invoices, orders, cache, events, held>>
    /\ req'[r].op # "verify" => req'[r].order = NoOrder
    /\ req'[r].op = "verify" =>
          req'[r].key = NoKey /\ req'[r].order \in Orders
    /\ req'[r].key # NoKey =>
          /\ KeyCharge[req'[r].key].user = req'[r].user
          /\ KeyCharge[req'[r].key].type = req'[r].type
          /\ KeyCharge[req'[r].key].amount = req'[r].amount

(* A handler posts a row.                                                  *)
Commits(r) ==
    LET u == req[r].user
    IN  /\ Others(r)
        /\ pc[r] = "txn" /\ pc'[r] = "invalidate"
        /\ UNCHANGED <<orders, cache, events, req, answer>>
        /\ held'[r] = Len(ledger[u]) + 1
        /\ \E p \in Posting :
              /\ ledger' = [ledger EXCEPT ![u] = Append(@, p)]
              /\ p.key = req[r].key
              /\ p.order = req[r].order
              /\ req[r].op # "verify" => p.type = req[r].type /\ p.amount = req[r].amount
              /\ req[r].op = "verify" => /\ p.type = "credit"
                                          /\ p.amount = Credited(orders[req[r].order])
        /\ invoices' = IF req[r].op = "verify"
                       THEN invoices \union {<<u, Len(ledger[u]) + 1>>} ELSE invoices

(* A handler announces its row, or not, and answers.                       *)
Tells(r) ==
    LET u == req[r].user
    IN  /\ Others(r)
        /\ pc[r] = "announce" /\ pc'[r] = "idle" /\ held'[r] = 0
        /\ UNCHANGED <<balance, ledger, invoices, orders, cache, req>>
        /\ events' \in {events, [events EXCEPT ![u] = Append(@, held[r])]}
        /\ answer'[r] = Ok(ledger[u][held[r]].balance_after)

(* A handler goes on, and touches neither the book nor its announcements.  *)
Quiet(r) ==
    LET q == req[r]
    IN  /\ Others(r)
        /\ pc[r] # "idle"
        /\ UNCHANGED <<balance, ledger, invoices, events, req>>
        /\ pc'[r] \in Told => pc[r] \in Told /\ held'[r] = held[r]
        /\ pc'[r] = "fill" => /\ q.op = "balance" /\ cache' = cache
                              /\ held'[r] \in {0, balance[q.user]}
        /\ pc'[r] = "relookup" => q.key # NoKey
        /\ pc'[r] = "txn" /\ q.op = "verify" => orders'[q.order].status = "paid"
        /\ cache' \in {cache, [cache EXCEPT ![q.user] = None]}
              \union (IF pc[r] = "fill" THEN {[cache EXCEPT ![q.user] = held[r]]} ELSE {})
        /\ \/ answer'[r] = answer[r]
           \/ answer'[r] = Failed
           \/ q.op \in {"balance", "recharge"}
           \/ /\ q.key # NoKey /\ KeyTaken(q.key)
              /\ answer'[r] = Ok(PostingWithKey(q.key).balance_after)

(* Begin is a start, given that what it begins could be asked for.         *)
LEMMA BeginStarts ==
    ASSUME IInv, NEW r \in Requests, NEW u \in Users, NEW step \in Steps,
           NEW op, NEW type, NEW amount, NEW key, NEW order,
           Begin(r, step, op, u, type, amount, key, order),
           step \in {"lookup", "find", "cache", "fetch"},
           op # "verify" => order = NoOrder,
           op = "verify" => key = NoKey /\ order \in Orders,
           key # NoKey => /\ KeyCharge[key].user = u /\ KeyCharge[key].type = type
                          /\ KeyCharge[key].amount = amount
    PROVE  Starts(r)
<1> DEFINE q == [op |-> op, user |-> u, type |-> type, amount |-> amount,
                 key |-> key, order |-> order]
<1>1. /\ q.op = op /\ q.user = u /\ q.type = type /\ q.amount = amount
      /\ q.key = key /\ q.order = order
  OBVIOUS
<1> HIDE DEF q
<1>2. /\ pc[r] = "idle"
      /\ pc' = [pc EXCEPT ![r] = step]
      /\ req' = [req EXCEPT ![r] = q]
      /\ answer' = [answer EXCEPT ![r] = None]
      /\ UNCHANGED <<database, orders, cache, events, held>>
  BY DEF Begin, Goto, q
<1>3. req'[r] = q /\ pc'[r] = step /\ answer'[r] = None /\ Others(r)
  BY <1>2 DEF IInv, TypeOK, Others
<1>4. QED
  BY <1>1, <1>2, <1>3 DEF Starts, Told, database

(* Each of the five kinds of requests is a start.                          *)
LEMMA RequestStarts ==
    ASSUME IInv, NEW r \in Requests,
           \/ ChargeRequest(r) \/ AdminCreditRequest(r) \/ BalanceRequest(r)
           \/ RechargeRequest(r) \/ VerifyRequest(r)
    PROVE  Starts(r)
<1>1. \A k \in Keys : KeyCharge[k].user \in Users /\ k # NoKey
  BY KeyAssumption
<1>2. CASE ChargeRequest(r)
  <2>1. CASE \E k \in Keys : Begin(r, "lookup", "charge", KeyCharge[k].user,
                                   KeyCharge[k].type, KeyCharge[k].amount, k, NoOrder)
    BY <2>1, <1>1, BeginStarts DEF Steps
  <2>2. CASE \E u \in Users, type \in Types, amount \in Amounts :
                Begin(r, "lookup", "charge", u, type, amount, NoKey, NoOrder)
    BY <2>2, BeginStarts DEF Steps
  <2>3. QED
    BY <1>2, <2>1, <2>2 DEF ChargeRequest
<1>3. CASE AdminCreditRequest(r)
  BY <1>3, BeginStarts DEF AdminCreditRequest, Steps
<1>4. CASE BalanceRequest(r)
  BY <1>4, BeginStarts DEF BalanceRequest, Steps
<1>5. CASE RechargeRequest(r)
  BY <1>5, BeginStarts DEF RechargeRequest, Steps
<1>6. CASE VerifyRequest(r)
  BY <1>6, BeginStarts DEF VerifyRequest, Steps
<1>7. QED
  BY <1>2, <1>3, <1>4, <1>5, <1>6

(* Commit posts one row, for the request it serves.                        *)
LEMMA CommitCommits ==
    ASSUME IInv, RequestsFit, NEW r \in Requests, pc[r] = "txn",
           NEW type \in Types, NEW amount \in Nat,
           NEW key \in Keys \union {NoKey}, NEW order \in Orders \union {NoOrder},
           type = "debit" => balance[req[r].user] >= amount,
           Commit(r, type, amount, key, order),
           key = req[r].key, order = req[r].order,
           req[r].op # "verify" => type = req[r].type /\ amount = req[r].amount,
           req[r].op = "verify" => /\ type = "credit"
                                     /\ amount = Credited(orders[req[r].order]),
           invoices' = IF req[r].op = "verify"
                       THEN invoices \union {<<req[r].user, Len(ledger[req[r].user]) + 1>>}
                       ELSE invoices
    PROVE  Commits(r)
<1> DEFINE u == req[r].user
           b == After(balance[u], type, amount)
           p == [type |-> type, amount |-> amount, balance_after |-> b,
                 key |-> key, order |-> order]
<1>1. u \in Users /\ balance[u] \in Nat
  BY DEF IInv, TypeOK, Request
<1>2. b \in Nat
  BY <1>1 DEF After, Types
<1>3. p \in Posting
  BY <1>2 DEF Posting
<1>4. p.key = key /\ p.order = order /\ p.type = type /\ p.amount = amount
  OBVIOUS
<1>5. ledger' = [ledger EXCEPT ![u] = Append(@, p)]
  BY DEF Commit
<1> HIDE DEF p
<1>6. /\ held' = [held EXCEPT ![r] = Len(ledger[u]) + 1]
      /\ pc' = [pc EXCEPT ![r] = "invalidate"]
      /\ UNCHANGED <<orders, cache, events, req, answer>>
  BY DEF Commit, Goto
<1>7. Others(r) /\ held'[r] = Len(ledger[u]) + 1 /\ pc'[r] = "invalidate"
  BY <1>6 DEF IInv, TypeOK, Others
<1>8. QED
  BY <1>3, <1>4, <1>5, <1>6, <1>7 DEF Commits

(* What a step of a handler is that has begun, and neither posts nor       *)
(* announces.                                                              *)
LEMMA ReplyIsQuiet ==
    ASSUME IInv, NEW r \in Requests, NEW a, pc[r] # "idle", Reply(r, a),
           UNCHANGED <<balance, ledger, invoices, events, req, cache>>,
           \/ a = Failed
           \/ req[r].op \in {"balance", "recharge"}
           \/ /\ req[r].key # NoKey /\ KeyTaken(req[r].key)
              /\ a = Ok(PostingWithKey(req[r].key).balance_after)
    PROVE  Quiet(r)
<1>1. pc'[r] = "idle" /\ answer'[r] = a /\ Others(r)
  BY DEF Reply, Goto, IInv, TypeOK, Others
<1>2. QED
  BY <1>1 DEF Quiet, Told

(* A handler that only goes on to its next step is quiet.                  *)
LEMMA GotoIsQuiet ==
    ASSUME IInv, NEW r \in Requests, NEW step, NEW n, pc[r] # "idle", Goto(r, step),
           held' = [held EXCEPT ![r] = n],
           UNCHANGED <<balance, ledger, invoices, events, req, answer>>,
           step \in Told => pc[r] \in Told /\ n = held[r],
           step = "fill" => /\ req[r].op = "balance" /\ cache' = cache
                            /\ n \in {0, balance[req[r].user]},
           step = "relookup" => req[r].key # NoKey,
           step = "txn" /\ req[r].op = "verify" => orders'[req[r].order].status = "paid",
           cache' \in {cache, [cache EXCEPT ![req[r].user] = None]}
    PROVE  Quiet(r)
<1>1. pc'[r] = step /\ held'[r] = n /\ answer'[r] = answer[r] /\ Others(r)
  BY DEF Goto, IInv, TypeOK, Others
<1>2. QED
  BY <1>1 DEF Quiet

(* Every step of a handler is of one of the four kinds.                    *)
LEMMA StepOfHandler ==
    ASSUME IInv, RequestsFit, NEW r \in Requests, Handle(r)
    PROVE  Starts(r) \/ Commits(r) \/ Tells(r) \/ Quiet(r)
<1> DEFINE q == req[r]
<1>0. /\ q.user \in Users /\ held[r] \in Nat
      /\ held = [held EXCEPT ![r] = held[r]]
      /\ answer = [answer EXCEPT ![r] = answer[r]]
      /\ balance[q.user] \in Nat
  BY DEF IInv, TypeOK, Request
<1>1. CASE \/ ChargeRequest(r) \/ AdminCreditRequest(r) \/ BalanceRequest(r)
           \/ RechargeRequest(r) \/ VerifyRequest(r)
  BY <1>1, RequestStarts
<1>2. CASE FindWallet(r)
  <2>1. CASE q.user \in wallets
    BY <1>0, <1>2, <2>1, GotoIsQuiet DEF FindWallet, AfterWallet, Told, database
  <2>2. CASE q.user \notin wallets
    BY <1>0, <1>2, <2>2, GotoIsQuiet DEF FindWallet, Told, database
  <2>3. QED
    BY <2>1, <2>2
<1>3. CASE CreateWallet(r)
  <2>1. CASE q.user \in wallets
    BY <1>3, <2>1, ReplyIsQuiet DEF CreateWallet
  <2>2. CASE q.user \notin wallets
    BY <1>0, <1>3, <2>2, GotoIsQuiet DEF CreateWallet, AfterWallet, Told
  <2>3. QED
    BY <2>1, <2>2
<1>4. CASE LookupKey(r)
  <2>1. pc[r] = "lookup" /\ q.op # "verify"
    BY <1>4 DEF LookupKey, IInv, AmountsAreMoved
  <2>2. CASE q.key # NoKey /\ KeyTaken(q.key)
    BY <1>4, <2>1, <2>2, ReplyIsQuiet DEF LookupKey, database
  <2>3. CASE ~(q.key # NoKey /\ KeyTaken(q.key))
    BY <1>0, <1>4, <2>1, <2>3, GotoIsQuiet DEF LookupKey, Told, database
  <2>4. QED
    BY <2>2, <2>3
<1>5. CASE RelookupKey(r)
  <2>1. CASE KeyTaken(q.key) /\ q.key # NoKey
    BY <1>5, <2>1, ReplyIsQuiet DEF RelookupKey, database
  <2>2. CASE ~KeyTaken(q.key)
    BY <1>5, <2>2, ReplyIsQuiet DEF RelookupKey, database
  <2>3. q.key # NoKey
    BY <1>5 DEF RelookupKey, RequestsFit, Fits
  <2>4. QED
    BY <2>1, <2>2, <2>3
<1>6. CASE Invalidate(r)
  BY <1>0, <1>6, GotoIsQuiet DEF Invalidate, Told, database
<1>7. CASE Announce(r)
  <2>1. /\ pc' = [pc EXCEPT ![r] = "idle"] /\ held' = [held EXCEPT ![r] = 0]
        /\ answer' = [answer EXCEPT ![r] = Ok(ledger[q.user][held[r]].balance_after)]
        /\ UNCHANGED req
    BY <1>7 DEF Announce, Reply, Goto
  <2>2. /\ pc'[r] = "idle" /\ held'[r] = 0 /\ Others(r)
        /\ answer'[r] = Ok(ledger[q.user][held[r]].balance_after)
    BY <2>1 DEF IInv, TypeOK, Others
  <2>3. QED
    BY <1>7, <2>2 DEF Announce, Tells, database
<1>8. CASE ReadCache(r)
  <2>1. pc[r] = "cache" /\ q.op = "balance"
    BY <1>8 DEF ReadCache, IInv, AmountsAreMoved
  <2>2. CASE cache[q.user] # None /\ Reply(r, Ok(cache[q.user]))
    BY <1>8, <2>1, <2>2, ReplyIsQuiet DEF ReadCache, database
  <2>3. CASE Goto(r, "find") /\ UNCHANGED <<held, answer>>
    BY <1>0, <1>8, <2>1, <2>3, GotoIsQuiet DEF ReadCache, Told, database
  <2>4. QED
    BY <1>8, <2>2, <2>3 DEF ReadCache
<1>9. CASE FillCache(r)
  <2>1. pc[r] = "fill" /\ q.op = "balance"
    BY <1>9 DEF FillCache, RequestsFit, Fits
  <2>2. pc'[r] = "idle" /\ Others(r)
    BY <1>9 DEF FillCache, Reply, Goto, IInv, TypeOK, Others
  <2>3. QED
    BY <1>9, <2>1, <2>2 DEF FillCache, Quiet, Told, database
<1>10. CASE CreateOrder(r)
  <2>1. pc[r] = "order" /\ q.op = "recharge"
    BY <1>10 DEF CreateOrder, IInv, AmountsAreMoved
  <2>2. \E a : Reply(r, a)
    BY <1>10 DEF CreateOrder
  <2>3. QED
    BY <1>10, <2>1, <2>2, ReplyIsQuiet DEF CreateOrder, database
<1>11. CASE FetchOrder(r)
  <2>1. CASE Reply(r, Failed)
    BY <1>11, <2>1, ReplyIsQuiet DEF FetchOrder, database
  <2>2. CASE orders[q.order].status = "paid" /\ Goto(r, "txn") /\ UNCHANGED <<held, answer>>
    BY <1>0, <1>11, <2>2, GotoIsQuiet DEF FetchOrder, Told, database
  <2>3. QED
    BY <1>11, <2>1, <2>2 DEF FetchOrder
<1>12. CASE Charge(r)
  <2>1. pc[r] = "txn" /\ q.op # "verify" /\ q.order = NoOrder
    BY <1>12 DEF Charge, RequestsFit, Fits
  <2>2. CASE Reply(r, Failed) /\ UNCHANGED <<database, orders, cache, events, req>>
    BY <2>1, <2>2, ReplyIsQuiet DEF database
  <2>3. CASE /\ q.key # NoKey /\ Goto(r, "relookup")
             /\ UNCHANGED <<database, orders, cache, events, req, held, answer>>
    BY <1>0, <2>1, <2>3, GotoIsQuiet DEF Told, database
  <2>4. CASE ~Refused(q) /\ Commit(r, q.type, q.amount, q.key, NoOrder) /\ UNCHANGED invoices
    <3>1. /\ q.type \in Types /\ q.amount \in Nat /\ q.key \in Keys \union {NoKey}
          /\ q.type = "debit" => balance[q.user] >= q.amount
      BY <1>0, <2>4 DEF IInv, TypeOK, Request, Refused
    <3>2. QED
      BY <2>1, <2>4, <3>1, CommitCommits
  <2>5. QED
    BY <1>12, <2>2, <2>3, <2>4 DEF Charge
<1>13. CASE CreditRecharge(r)
  <2>1. /\ pc[r] = "txn" /\ q.op = "verify" /\ q.order \in Orders /\ q.key = NoKey
    BY <1>13 DEF CreditRecharge, IInv, AmountsAreMoved, RequestsFit, Fits
  <2>2. CASE Reply(r, Failed) /\ UNCHANGED <<database, orders, cache, events, req>>
    BY <2>1, <2>2, ReplyIsQuiet DEF database
  <2>3. CASE /\ Commit(r, "credit", Credited(orders[q.order]), NoKey, q.order)
             /\ invoices' = invoices \union {<<q.user, Len(ledger[q.user]) + 1>>}
    <3>1. Credited(orders[q.order]) \in Nat /\ "credit" \in Types
      BY <2>1, CreditedIsNat DEF IInv, TypeOK, Types
    <3>2. QED
      BY <2>1, <2>3, <3>1, CommitCommits
  <2>4. QED
    BY <1>13, <2>2, <2>3 DEF CreditRecharge
<1>14. QED
  BY <1>1, <1>2, <1>3, <1>4, <1>5, <1>6, <1>7, <1>8, <1>9, <1>10, <1>11, <1>12, <1>13
     DEF Handle

(* A step of the environment: a payment, an expiry, a death.               *)
Outside ==
    /\ UNCHANGED <<balance, ledger, invoices, events, req, answer>>
    /\ cache' = cache \/ \E u \in Users : cache' = [cache EXCEPT ![u] = None]
    /\ UNCHANGED <<pc, held>> \/ \A r \in Requests : pc'[r] = "idle"

(* Every step of the service is one of a handler, of some kind, or outside. *)
LEMMA StepKinds ==
    ASSUME IInv, RequestsFit, [Next]_vars
    PROVE  \/ Outside
           \/ \E r \in Requests : Starts(r) \/ Commits(r) \/ Tells(r) \/ Quiet(r)
<1>1. ASSUME NEW o \in Orders, OrderElsewhere(o) \/ Pay(o)
      PROVE  Outside
  BY <1>1 DEF OrderElsewhere, Pay, Outside, database
<1>2. ASSUME NEW u \in Users, Expire(u)
      PROVE  Outside
  BY <1>2 DEF Expire, Outside, database
<1>3. ASSUME Crash
      PROVE  Outside
  BY <1>3 DEF Crash, Outside, database
<1>4. ASSUME UNCHANGED vars
      PROVE  Outside
  BY <1>4 DEF vars, Outside
<1>5. QED
  BY <1>1, <1>2, <1>3, <1>4, StepOfHandler DEF Next

-----------------------------------------------------------------------------
(* Requests fit, whatever orders are made and paid meanwhile.              *)
LEMMA InitFits == Init => RequestsFit
BY DEF Init, RequestsFit, Fits

(* A request that fits still does when only the orders move on.            *)
LEMMA FitsAcross ==
    ASSUME IInv, NEW r \in Requests, Fits(r), OrdersStay, req'[r] = req[r],
           pc'[r] = "idle" \/ pc[r] # "idle",
           pc'[r] # pc[r] /\ pc'[r] = "fill" => req[r].op = "balance",
           pc'[r] # pc[r] /\ pc'[r] = "relookup" => req[r].key # NoKey,
           pc'[r] # pc[r] /\ pc'[r] = "txn" /\ req[r].op = "verify" =>
               orders'[req[r].order].status = "paid"
    PROVE  Fits(r)'
<1>1. pc[r] # "idle" /\ req[r].op = "verify" =>
          /\ req[r].order \in Orders /\ orders[req[r].order].status # "none"
  BY DEF IInv, AmountsAreMoved
<1>2. QED
  BY <1>1 DEF Fits, OrdersStay

(* Every step leaves requests that fit.                                    *)
LEMMA StepFits ==
    ASSUME IInv, RequestsFit, [Next]_vars
    PROVE  RequestsFit'
<1>0. OrdersStay
  BY OrdersAlwaysStay
<1>1. CASE Outside
  <2> SUFFICES ASSUME NEW s \in Requests
               PROVE  Fits(s)'
    BY DEF RequestsFit
  <2>1. Fits(s) /\ req'[s] = req[s] /\ (pc'[s] = pc[s] \/ pc'[s] = "idle")
    BY <1>1 DEF Outside, RequestsFit
  <2>2. CASE pc'[s] = "idle"
    BY <2>2 DEF Fits
  <2>3. CASE pc'[s] = pc[s] /\ pc'[s] # "idle"
    BY <1>0, <2>1, <2>3, FitsAcross
  <2>4. QED
    BY <2>1, <2>2, <2>3
<1>2. ASSUME NEW r \in Requests, Starts(r) \/ Commits(r) \/ Tells(r) \/ Quiet(r)
      PROVE  RequestsFit'
  <2> SUFFICES ASSUME NEW s \in Requests
               PROVE  Fits(s)'
    BY DEF RequestsFit
  <2>1. Fits(s) /\ Fits(r)
    BY DEF RequestsFit
  <2>2. CASE s # r
    <3>1. pc'[s] = pc[s] /\ req'[s] = req[s]
      BY <1>2, <2>2 DEF Starts, Commits, Tells, Quiet, Others
    <3>2. CASE pc'[s] = "idle"
      BY <3>2 DEF Fits
    <3>3. CASE pc'[s] # "idle"
      BY <1>0, <2>1, <3>1, <3>3, FitsAcross
    <3>4. QED
      BY <3>2, <3>3
  <2>3. CASE s = r /\ Starts(r)
    BY <2>3 DEF Starts, Fits
  <2>4. CASE s = r /\ (Commits(r) \/ Tells(r) \/ Quiet(r))
    <3>1. CASE Commits(r)
      BY <1>0, <2>1, <2>4, <3>1, FitsAcross DEF Commits
    <3>2. CASE Tells(r)
      BY <2>4, <3>2 DEF Tells, Fits
    <3>3. CASE Quiet(r)
      BY <1>0, <2>1, <2>4, <3>3, FitsAcross DEF Quiet
    <3>4. QED
      BY <2>4, <3>1, <3>2, <3>3
  <2>5. QED
    BY <1>2, <2>2, <2>3, <2>4
<1>3. QED
  BY <1>1, <1>2, StepKinds

(* A posted row stays where it is; the account it belongs to grows by one. *)
LEMMA RowsStay ==
    ASSUME IInv, RequestsFit, [Next]_vars, NEW v \in Users, NEW i \in DOMAIN ledger[v]
    PROVE  i \in DOMAIN ledger'[v] /\ ledger'[v][i] = ledger[v][i]
<1>0. ledger \in [Users -> Seq(Posting)]
  BY DEF IInv, TypeOK
<1>1. ASSUME NEW r \in Requests, Commits(r)
      PROVE  i \in DOMAIN ledger'[v] /\ ledger'[v][i] = ledger[v][i]
  BY <1>0, <1>1 DEF Commits
<1>2. ledger' = ledger => i \in DOMAIN ledger'[v] /\ ledger'[v][i] = ledger[v][i]
  OBVIOUS
<1>3. QED
  BY <1>1, <1>2, StepKinds DEF Outside, Starts, Tells, Quiet

(* The row that a commit posts is the last of its account.                 *)
LEMMA NewRow ==
    ASSUME IInv, NEW r \in Requests, Commits(r)
    PROVE  \E p \in Posting :
              LET u == req[r].user
                  n == Len(ledger[u]) + 1
              IN  /\ u \in Users /\ n \in Nat
                  /\ n \in DOMAIN ledger'[u] /\ ledger'[u][n] = p
                  /\ n \notin DOMAIN ledger[u]
                  /\ held'[r] = n
                  /\ \A v \in Users : \A i \in DOMAIN ledger'[v] :
                        \/ i \in DOMAIN ledger[v] /\ ledger'[v][i] = ledger[v][i]
                        \/ v = u /\ i = n
                  /\ \A v \in Users : \A i \in DOMAIN ledger[v] :
                        i \in DOMAIN ledger'[v] /\ ledger'[v][i] = ledger[v][i]
                  /\ p.key = req[r].key
                  /\ p.order = req[r].order
                  /\ req[r].op # "verify" => p.type = req[r].type /\ p.amount = req[r].amount
                  /\ req[r].op = "verify" => /\ p.type = "credit"
                                          /\ p.amount = Credited(orders[req[r].order])
<1> DEFINE u == req[r].user
           n == Len(ledger[u]) + 1
<1>0. ledger \in [Users -> Seq(Posting)] /\ u \in Users
  BY DEF IInv, TypeOK, Request
<1>1. PICK p \in Posting :
              /\ ledger' = [ledger EXCEPT ![u] = Append(@, p)]
              /\ p.key = req[r].key
              /\ p.order = req[r].order
              /\ req[r].op # "verify" => p.type = req[r].type /\ p.amount = req[r].amount
              /\ req[r].op = "verify" => /\ p.type = "credit"
                                          /\ p.amount = Credited(orders[req[r].order])
  BY DEF Commits
<1>2. ledger[u] \in Seq(Posting) /\ Len(ledger[u]) \in Nat
  BY <1>0
<1>3. /\ ledger'[u] = Append(ledger[u], p)
      /\ \A v \in Users \ {u} : ledger'[v] = ledger[v]
  BY <1>0, <1>1
<1>4. /\ DOMAIN ledger'[u] = 1 .. n /\ DOMAIN ledger[u] = 1 .. n - 1
      /\ ledger'[u][n] = p
      /\ \A i \in 1 .. n - 1 : ledger'[u][i] = ledger[u][i]
  BY <1>2, <1>3
<1>5. held'[r] = n
  BY DEF Commits
<1>6. n \in Nat /\ n \in 1 .. n /\ n \notin 1 .. n - 1 /\ \A i \in 1 .. n : i = n \/ i \in 1 .. n - 1
  BY <1>2
<1>7. \A i \in 1 .. n - 1 : i \in 1 .. n
  BY <1>2
<1> HIDE DEF n
<1>8. QED
  <2>1. \A v \in Users : \A i \in DOMAIN ledger'[v] :
                        \/ i \in DOMAIN ledger[v] /\ ledger'[v][i] = ledger[v][i]
                        \/ v = u /\ i = n
    BY <1>3, <1>4, <1>6
  <2>2. \A v \in Users : \A i \in DOMAIN ledger[v] :
                        i \in DOMAIN ledger'[v] /\ ledger'[v][i] = ledger[v][i]
    BY <1>3, <1>4, <1>7
  <2>3. QED
    <3>1. /\ p \in Posting /\ u \in Users /\ n \in Nat
          /\ n \in DOMAIN ledger'[u] /\ ledger'[u][n] = p /\ n \notin DOMAIN ledger[u]
      BY <1>0, <1>4, <1>6
    <3> HIDE DEF u
    <3>2. QED
      BY <1>1, <1>5, <2>1, <2>2, <3>1 DEF n, u

-----------------------------------------------------------------------------
(* Invoices.                                                               *)

(* Every step keeps invoices and recharges one to one.                     *)
LEMMA InvoicesStep ==
    ASSUME IInv, RequestsFit, InvoicePerRecharge, [Next]_vars
    PROVE  InvoicePerRecharge'
<1>0. OrdersStay
  BY OrdersAlwaysStay
<1>1. ASSUME NEW inv \in invoices
      PROVE  /\ inv[1] \in Users /\ inv[2] \in DOMAIN ledger[inv[1]]
             /\ inv = <<inv[1], inv[2]>>
             /\ ledger[inv[1]][inv[2]].order \in Orders
  <2>1. /\ inv[1] \in Users /\ inv[2] \in DOMAIN ledger[inv[1]]
        /\ inv = <<inv[1], inv[2]>>
    BY DEF IInv, TypeOK, InvoicePerRecharge
  <2>2. ledger[inv[1]][inv[2]].order # NoOrder
    BY <2>1 DEF InvoicePerRecharge
  <2>3. ledger[inv[1]] \in Seq(Posting)
    BY <2>1 DEF IInv, TypeOK
  <2>4. ledger[inv[1]][inv[2]] \in Posting
    BY <2>1, <2>3
  <2>5. QED
    BY <2>1, <2>2, <2>4 DEF Posting
(* The invoices of rows that stay are still good.                          *)
<1>2. ASSUME NEW inv \in invoices,
             inv[2] \in DOMAIN ledger'[inv[1]],
             ledger'[inv[1]][inv[2]] = ledger[inv[1]][inv[2]]
      PROVE  LET p == ledger'[inv[1]][inv[2]]
             IN  /\ orders'[p.order].status = "paid"
                 /\ p.type = "credit"
                 /\ p.amount = Credited(orders'[p.order])
  <2> DEFINE p == ledger[inv[1]][inv[2]]
  <2>1. /\ orders[p.order].status = "paid" /\ p.type = "credit"
        /\ p.amount = Credited(orders[p.order])
    BY <1>2 DEF InvoicePerRecharge
  <2>2. p.order \in Orders
    BY <1>1
  <2> HIDE DEF p
  <2>3. /\ orders'[p.order].status = "paid" /\ p.type = "credit"
        /\ p.amount = Credited(orders'[p.order])
    BY <1>0, <2>1, <2>2 DEF OrdersStay
  <2>4. QED
    BY <1>2, <2>3 DEF p
<1>3. CASE ledger' = ledger /\ invoices' = invoices
  BY <1>1, <1>2, <1>3 DEF InvoicePerRecharge
<1>4. ASSUME NEW r \in Requests, Commits(r)
      PROVE  InvoicePerRecharge'
  <2> DEFINE u == req[r].user
             n == Len(ledger[u]) + 1
  <2>1. PICK p \in Posting :
               /\ u \in Users /\ n \in Nat
               /\ n \in DOMAIN ledger'[u] /\ ledger'[u][n] = p
               /\ n \notin DOMAIN ledger[u]
               /\ \A v \in Users : \A i \in DOMAIN ledger'[v] :
                     \/ i \in DOMAIN ledger[v] /\ ledger'[v][i] = ledger[v][i]
                     \/ v = u /\ i = n
               /\ \A v \in Users : \A i \in DOMAIN ledger[v] :
                     i \in DOMAIN ledger'[v] /\ ledger'[v][i] = ledger[v][i]
               /\ p.order = req[r].order
               /\ req[r].op = "verify" => /\ p.type = "credit"
                                          /\ p.amount = Credited(orders[req[r].order])
    BY <1>4, NewRow
  <2>2. /\ pc[r] = "txn" /\ Fits(r) /\ orders' = orders
        /\ invoices' = IF req[r].op = "verify" THEN invoices \union {<<u, n>>} ELSE invoices
    BY <1>4 DEF Commits, RequestsFit
  <2> HIDE DEF n, u
  <2>3. <<u, n>> \notin invoices
    BY <1>1, <2>1
  <2>4. CASE req[r].op # "verify"
    <3>1. p.order = NoOrder /\ invoices' = invoices
      BY <2>1, <2>2, <2>4 DEF Fits
    <3>2. \A v \in Users : \A i \in DOMAIN ledger'[v] :
             (<<v, i>> \in invoices) <=> (ledger'[v][i].order # NoOrder)
      <4> SUFFICES ASSUME NEW v \in Users, NEW i \in DOMAIN ledger'[v]
                   PROVE  (<<v, i>> \in invoices) <=> (ledger'[v][i].order # NoOrder)
        OBVIOUS
      <4>1. CASE i \in DOMAIN ledger[v] /\ ledger'[v][i] = ledger[v][i]
        BY <4>1 DEF InvoicePerRecharge
      <4>2. CASE v = u /\ i = n
        BY <2>1, <2>3, <3>1, <4>2
      <4>3. QED
        BY <2>1, <4>1, <4>2
    <3>3. ASSUME NEW inv \in invoices
          PROVE  /\ inv[2] \in DOMAIN ledger'[inv[1]]
                 /\ LET row == ledger'[inv[1]][inv[2]]
                    IN  /\ orders'[row.order].status = "paid"
                        /\ row.type = "credit"
                        /\ row.amount = Credited(orders'[row.order])
      BY <1>1, <1>2, <2>1
    <3>4. QED
      BY <3>1, <3>2, <3>3 DEF InvoicePerRecharge
  <2>5. CASE req[r].op = "verify"
    <3>1. /\ req[r].order \in Orders /\ p.order = req[r].order /\ p.order # NoOrder
          /\ invoices' = invoices \union {<<u, n>>}
      BY <2>1, <2>2, <2>5, OrderAssumption DEF IInv, AmountsAreMoved
    <3>2. \A v \in Users : \A i \in DOMAIN ledger'[v] :
             (<<v, i>> \in invoices') <=> (ledger'[v][i].order # NoOrder)
      <4> SUFFICES ASSUME NEW v \in Users, NEW i \in DOMAIN ledger'[v]
                   PROVE  (<<v, i>> \in invoices') <=> (ledger'[v][i].order # NoOrder)
        OBVIOUS
      <4>1. CASE i \in DOMAIN ledger[v] /\ ledger'[v][i] = ledger[v][i]
        <5>1. <<v, i>> # <<u, n>>
          BY <2>1, <4>1
        <5>2. QED
          BY <3>1, <4>1, <5>1 DEF InvoicePerRecharge
      <4>2. CASE v = u /\ i = n
        BY <2>1, <3>1, <4>2
      <4>3. QED
        BY <2>1, <4>1, <4>2
    <3>3. /\ orders[p.order].status = "paid" /\ p.type = "credit"
          /\ p.amount = Credited(orders[p.order])
      BY <2>1, <2>2, <2>5, <3>1 DEF Fits, u
    <3>4. ASSUME NEW inv \in invoices'
          PROVE  /\ inv[2] \in DOMAIN ledger'[inv[1]]
                 /\ LET row == ledger'[inv[1]][inv[2]]
                    IN  /\ orders'[row.order].status = "paid"
                        /\ row.type = "credit"
                        /\ row.amount = Credited(orders'[row.order])
      <4>1. CASE inv \in invoices
        BY <1>1, <1>2, <2>1, <4>1
      <4>2. CASE inv = <<u, n>>
        BY <2>1, <2>2, <3>3, <4>2
      <4>3. QED
        BY <3>1, <4>1, <4>2
    <3>5. QED
      BY <3>2, <3>4 DEF InvoicePerRecharge
  <2>6. QED
    BY <2>4, <2>5
<1>5. QED
  BY <1>3, <1>4, StepKinds DEF Outside, Starts, Tells, Quiet

(* Invoices and credited payments are one to one, and each credits the     *)
(* account that sent the order with the base, or else the total, of an     *)
(* order that was paid.                                                    *)
THEOREM InvoicesMatchRecharges == Spec => []InvoicePerRecharge
<1>1. Init => InvoicePerRecharge
  <2>1. DOMAIN <<>> = {}
    OBVIOUS
  <2>2. QED
    BY <2>1 DEF Init, InvoicePerRecharge
<1>2. QED
  BY <1>1, InitHolds, StepHolds, InitFits, StepFits, InvoicesStep, PTL DEF Spec

-----------------------------------------------------------------------------
(* Events.                                                                 *)

(* What a handler is about to announce is its own, and not yet announced.  *)
HeldIsUntold ==
    /\ \A r \in Requests : pc[r] \in Told =>
          \A i \in DOMAIN events[req[r].user] : events[req[r].user][i] # held[r]
    /\ \A r, s \in Requests :
          /\ pc[r] \in Told /\ pc[s] \in Told
          /\ req[r].user = req[s].user /\ held[r] = held[s]
          => r = s

(* Every step announces a row no other handler may still announce.         *)
LEMMA EventsStep ==
    ASSUME IInv, RequestsFit, HeldIsUntold, PostingToldOnce, [Next]_vars
    PROVE  HeldIsUntold' /\ PostingToldOnce'
<1>0. /\ events \in [Users -> Seq(Nat)] /\ \A s \in Requests : req[s].user \in Users
      /\ \A s \in Requests : held[s] \in Nat
  BY DEF IInv, TypeOK, Request
<1>1. \A s \in Requests : pc[s] \in Told => held[s] \in DOMAIN ledger[req[s].user]
  BY DEF IInv, HeldIsPosting, Told
<1>2. \A v \in Users : \A i \in DOMAIN ledger[v] : i \in DOMAIN ledger'[v]
  BY RowsStay
<1>3. events' = events => PostingToldOnce'
  BY <1>2 DEF PostingToldOnce
(* Handlers that hold what they held, or nothing, change nothing.          *)
<1>4. ASSUME events' = events,
             \A s \in Requests : pc'[s] \in Told =>
                pc[s] \in Told /\ held'[s] = held[s] /\ req'[s] = req[s]
      PROVE  HeldIsUntold'
  BY <1>4 DEF HeldIsUntold
<1>5. CASE Outside
  <2>1. "idle" \notin Told
    BY DEF Told
  <2>2. QED
    BY <1>3, <1>4, <1>5, <2>1 DEF Outside
<1>6. ASSUME NEW r \in Requests, Starts(r) \/ Quiet(r)
      PROVE  HeldIsUntold' /\ PostingToldOnce'
  BY <1>3, <1>4, <1>6 DEF Starts, Quiet, Others
<1>7. ASSUME NEW r \in Requests, Commits(r)
      PROVE  HeldIsUntold' /\ PostingToldOnce'
  <2>1. events' = events /\ req' = req /\ Others(r) /\ pc'[r] \in Told
    BY <1>7 DEF Commits, Told
  <2>2. held'[r] \notin DOMAIN ledger[req[r].user]
    BY <1>7, NewRow
  <2>3. ASSUME NEW s \in Requests, pc'[s] \in Told
        PROVE  \/ s = r
               \/ /\ s # r /\ pc[s] \in Told /\ held'[s] = held[s]
                  /\ held[s] \in DOMAIN ledger[req[s].user]
    BY <1>1, <2>1, <2>3 DEF Others
  <2>4. \A i \in DOMAIN events[req[r].user] :
           events[req[r].user][i] \in DOMAIN ledger[req[r].user]
    BY <1>0 DEF PostingToldOnce
  <2>5. HeldIsUntold'
    BY <2>1, <2>2, <2>3, <2>4 DEF HeldIsUntold
  <2>6. QED
    BY <1>3, <2>1, <2>5
<1>8. ASSUME NEW r \in Requests, Tells(r)
      PROVE  HeldIsUntold' /\ PostingToldOnce'
  <2> DEFINE u == req[r].user
  <2>1. /\ pc[r] \in Told /\ pc'[r] \notin Told /\ Others(r) /\ req' = req /\ ledger' = ledger
        /\ u \in Users
    BY <1>0, <1>8 DEF Tells, Told
  <2>2. \A s \in Requests : pc'[s] \in Told =>
           s # r /\ pc[s] \in Told /\ held'[s] = held[s] /\ req'[s] = req[s]
    BY <2>1 DEF Others
  <2>3. CASE events' = events
    BY <1>3, <1>4, <2>2, <2>3
  <2>4. CASE events' = [events EXCEPT ![u] = Append(@, held[r])]
    <3> DEFINE n == Len(events[u]) + 1
    <3>1. /\ events'[u] = Append(events[u], held[r])
          /\ \A v \in Users \ {u} : events'[v] = events[v]
          /\ events[u] \in Seq(Nat)
      BY <1>0, <2>1, <2>4
    <3>2. /\ DOMAIN events'[u] = DOMAIN events[u] \union {n}
          /\ events'[u][n] = held[r] /\ n \notin DOMAIN events[u]
          /\ \A i \in DOMAIN events[u] : events'[u][i] = events[u][i]
      BY <1>0, <3>1
    <3> HIDE DEF n
    <3>3. /\ held[r] \in DOMAIN ledger[u]
          /\ \A i \in DOMAIN events[u] : events[u][i] # held[r]
      BY <1>1, <2>1 DEF HeldIsUntold
    <3>4. PostingToldOnce'
      <4> SUFFICES ASSUME NEW v \in Users
                   PROVE  /\ \A i \in DOMAIN events'[v] : events'[v][i] \in DOMAIN ledger'[v]
                          /\ \A i, j \in DOMAIN events'[v] :
                                events'[v][i] = events'[v][j] => i = j
        BY DEF PostingToldOnce
      <4>1. CASE v = u
        BY <2>1, <3>2, <3>3, <4>1 DEF PostingToldOnce
      <4>2. CASE v # u
        BY <2>1, <3>1, <4>2 DEF PostingToldOnce
      <4>3. QED
        BY <4>1, <4>2
    <3>5. \A s \in Requests : pc'[s] \in Told =>
             \A i \in DOMAIN events'[req[s].user] : events'[req[s].user][i] # held[s]
      <4> SUFFICES ASSUME NEW s \in Requests, pc'[s] \in Told
                   PROVE  \A i \in DOMAIN events'[req[s].user] :
                             events'[req[s].user][i] # held[s]
        OBVIOUS
      <4>1. /\ pc[s] \in Told /\ req[s].user \in Users
            /\ \A i \in DOMAIN events[req[s].user] : events[req[s].user][i] # held[s]
        BY <1>0, <2>2 DEF HeldIsUntold
      <4>2. CASE req[s].user = u
        <5>1. held[s] # held[r]
          BY <2>1, <2>2, <4>2 DEF HeldIsUntold
        <5>2. QED
          BY <3>2, <4>1, <4>2, <5>1
      <4>3. CASE req[s].user # u
        BY <3>1, <4>1, <4>3
      <4>4. QED
        BY <4>2, <4>3
    <3>6. HeldIsUntold'
      BY <2>2, <3>5 DEF HeldIsUntold
    <3>7. QED
      BY <3>4, <3>6
  <2>5. QED
    BY <1>8, <2>3, <2>4 DEF Tells
<1>9. QED
  BY <1>5, <1>6, <1>7, <1>8, StepKinds

(* A posting is announced at most once, and only postings are.             *)
THEOREM PostingsToldOnce == Spec => []PostingToldOnce
<1>1. Init => HeldIsUntold /\ PostingToldOnce
  <2>1. DOMAIN <<>> = {}
    OBVIOUS
  <2>2. QED
    BY <2>1 DEF Init, HeldIsUntold, PostingToldOnce, Told
<1>2. QED
  BY <1>1, InitHolds, StepHolds, InitFits, StepFits, EventsStep, PTL DEF Spec

-----------------------------------------------------------------------------
(* Answers.                                                                *)

(* A row with a key is the one charge the key comes with.                  *)
KeysFit ==
    \A u \in Users : \A i \in DOMAIN ledger[u] :
        LET p == ledger[u][i]
        IN  p.key # NoKey =>
               /\ KeyCharge[p.key].user = u
               /\ KeyCharge[p.key].type = p.type
               /\ KeyCharge[p.key].amount = p.amount
               /\ p.order = NoOrder

RowAnswers(p, q) ==
    /\ p.key = q.key
    /\ p.order = q.order
    /\ q.op # "verify" => p.type = q.type /\ p.amount = q.amount

(* What a handler past its commit holds is the row of its request.         *)
HeldFits ==
    \A r \in Requests : pc[r] \in Told =>
        RowAnswers(ledger[req[r].user][held[r]], req[r])

(* A taken key is found in the account its charge is for.                  *)
LEMMA FoundRow ==
    ASSUME NEW k, KeyTaken(k)
    PROVE  \E u \in Users : \E i \in DOMAIN ledger[u] :
              PostingWithKey(k) = ledger[u][i] /\ ledger[u][i].key = k
<1> DEFINE rows == UNION {{ledger[u][i] : i \in DOMAIN ledger[u]} : u \in Users}
<1>1. \E p \in rows : p.key = k
  BY DEF KeyTaken
<1>2. PostingWithKey(k) \in rows /\ PostingWithKey(k).key = k
  BY <1>1 DEF PostingWithKey
<1>3. QED
  BY <1>2

(* Every step posts a keyed row only for the charge of its key.            *)
LEMMA KeysFitStep ==
    ASSUME IInv, RequestsFit, KeysFit, [Next]_vars
    PROVE  KeysFit'
<1>1. ASSUME NEW r \in Requests, Commits(r)
      PROVE  KeysFit'
  <2>1. PICK p \in Posting :
               /\ ledger'[req[r].user][Len(ledger[req[r].user]) + 1] = p
               /\ \A v \in Users : \A i \in DOMAIN ledger'[v] :
                     \/ i \in DOMAIN ledger[v] /\ ledger'[v][i] = ledger[v][i]
                     \/ v = req[r].user /\ i = Len(ledger[req[r].user]) + 1
               /\ p.key = req[r].key
               /\ p.order = req[r].order
               /\ req[r].op # "verify" => p.type = req[r].type /\ p.amount = req[r].amount
    BY <1>1, NewRow
  <2>2. pc[r] = "txn" /\ Fits(r)
    BY <1>1 DEF Commits, RequestsFit
  <2>3. p.key # NoKey => /\ KeyCharge[p.key].user = req[r].user
                         /\ KeyCharge[p.key].type = p.type
                         /\ KeyCharge[p.key].amount = p.amount
                         /\ p.order = NoOrder
    BY <2>1, <2>2 DEF Fits
  <2>4. QED
    BY <2>1, <2>3 DEF KeysFit
<1>2. ledger' = ledger => KeysFit'
  BY DEF KeysFit
<1>3. QED
  BY <1>1, <1>2, StepKinds DEF Outside, Starts, Tells, Quiet

(* Every step leaves handlers that carry the row of their own charge.      *)
LEMMA HeldFitsStep ==
    ASSUME IInv, RequestsFit, HeldFits, [Next]_vars
    PROVE  HeldFits'
<1>1. ASSUME NEW s \in Requests, pc[s] \in Told, held'[s] = held[s], req'[s] = req[s]
      PROVE  RowAnswers(ledger'[req'[s].user][held'[s]], req'[s])
  <2>1. req[s].user \in Users /\ held[s] \in DOMAIN ledger[req[s].user]
    BY <1>1 DEF IInv, TypeOK, HeldIsPosting, Request, Told
  <2>2. ledger'[req[s].user][held[s]] = ledger[req[s].user][held[s]]
    BY <2>1, RowsStay
  <2>3. QED
    BY <1>1, <2>2 DEF HeldFits
<1>2. CASE Outside
  <2>1. "idle" \notin Told
    BY DEF Told
  <2>2. QED
    BY <1>1, <1>2, <2>1 DEF Outside, HeldFits
<1>3. ASSUME NEW r \in Requests, Starts(r) \/ Tells(r) \/ Quiet(r)
      PROVE  HeldFits'
  <2>1. \A s \in Requests : pc'[s] \in Told =>
           pc[s] \in Told /\ held'[s] = held[s] /\ req'[s] = req[s]
    BY <1>3 DEF Starts, Tells, Quiet, Others, Told
  <2>2. QED
    BY <1>1, <2>1 DEF HeldFits
<1>4. ASSUME NEW r \in Requests, Commits(r)
      PROVE  HeldFits'
  <2>1. req' = req /\ Others(r)
    BY <1>4 DEF Commits
  <2>2. RowAnswers(ledger'[req[r].user][held'[r]], req[r])
    BY <1>4, NewRow DEF RowAnswers
  <2>3. QED
    BY <1>1, <2>1, <2>2 DEF HeldFits, Others
<1>5. QED
  BY <1>2, <1>3, <1>4, StepKinds

(* Slot r has been told of a row of its own.                               *)
Answered(r) ==
    \E i \in DOMAIN ledger[req[r].user] :
        /\ ledger[req[r].user][i].balance_after = answer[r].balance
        /\ RowAnswers(ledger[req[r].user][i], req[r])

Asks(r) == req[r].op \in {"charge", "admin_credit", "verify"}

(* AnswerIsPosted, slot by slot.                                           *)
LEMMA AnswerIsAnswered ==
    AnswerIsPosted <=> \A r \in Requests :
                          Asks(r) /\ answer[r] # None /\ answer[r].ok => Answered(r)
BY DEF AnswerIsPosted, Answered, RowAnswers, Asks

(* An answer that stands goes on standing, as no row is ever changed.      *)
LEMMA AnsweredStays ==
    ASSUME IInv, RequestsFit, [Next]_vars, NEW r \in Requests, Answered(r),
           req'[r] = req[r], answer'[r] = answer[r]
    PROVE  Answered(r)'
<1>1. PICK i \in DOMAIN ledger[req[r].user] :
              /\ ledger[req[r].user][i].balance_after = answer[r].balance
              /\ RowAnswers(ledger[req[r].user][i], req[r])
  BY DEF Answered
<1>2. req[r].user \in Users
  BY DEF IInv, TypeOK, Request
<1>3. /\ i \in DOMAIN ledger'[req[r].user]
      /\ ledger'[req[r].user][i] = ledger[req[r].user][i]
  BY <1>2, RowsStay
<1>4. QED
  BY <1>1, <1>3 DEF Answered

(* Every step gives only answers that stand.                               *)
LEMMA AnswersStep ==
    ASSUME IInv, RequestsFit, KeysFit, HeldFits, AnswerIsPosted, [Next]_vars
    PROVE  AnswerIsPosted'
<1> DEFINE Right(s) == Asks(s) /\ answer[s] # None /\ answer[s].ok => Answered(s)
<1>1. \A s \in Requests : Right(s)
  BY AnswerIsAnswered
<1>2. ASSUME NEW s \in Requests, req'[s] = req[s], answer'[s] = answer[s]
      PROVE  Right(s)'
  BY <1>1, <1>2, AnsweredStays DEF Asks
<1> SUFFICES \A s \in Requests : Right(s)'
  BY DEF AnswerIsPosted, Answered, RowAnswers, Asks
<1> HIDE DEF Right
<1>3. CASE Outside
  BY <1>2, <1>3 DEF Outside
<1>4. ASSUME NEW r \in Requests, Starts(r) \/ Commits(r) \/ Tells(r) \/ Quiet(r),
             NEW s \in Requests \ {r}
      PROVE  Right(s)'
  BY <1>2, <1>4 DEF Starts, Commits, Tells, Quiet, Others
<1>5. ASSUME NEW r \in Requests, Starts(r)
      PROVE  Right(r)'
  BY <1>5 DEF Starts, Right
<1>6. ASSUME NEW r \in Requests, Commits(r)
      PROVE  Right(r)'
  BY <1>2, <1>6 DEF Commits
<1>7. ASSUME NEW r \in Requests, Tells(r)
      PROVE  Right(r)'
  <2> DEFINE u == req[r].user
  <2>1. /\ pc[r] \in Told /\ held[r] \in DOMAIN ledger[u]
        /\ RowAnswers(ledger[u][held[r]], req[r])
    BY <1>7 DEF Tells, Told, IInv, HeldIsPosting, HeldFits
  <2>2. /\ ledger' = ledger /\ req' = req
        /\ answer'[r] = Ok(ledger[u][held[r]].balance_after)
    BY <1>7 DEF Tells
  <2>3. answer'[r].balance = ledger[u][held[r]].balance_after
    BY <2>2 DEF Ok
  <2>4. QED
    BY <2>1, <2>2, <2>3 DEF Right, Answered
<1>8. ASSUME NEW r \in Requests, Quiet(r)
      PROVE  Right(r)'
  <2> DEFINE q == req[r]
  <2>1. req' = req /\ ledger' = ledger /\ pc[r] # "idle" /\ Fits(r) /\ q.user \in Users
    BY <1>8 DEF Quiet, RequestsFit, IInv, TypeOK, Request
  <2>2. CASE answer'[r] = answer[r]
    BY <1>2, <2>1, <2>2
  <2>3. CASE answer'[r] = Failed
    BY <2>3 DEF Failed, Right
  <2>4. CASE q.op \in {"balance", "recharge"}
    BY <2>1, <2>4 DEF Right, Asks
  <2>5. CASE /\ q.key # NoKey /\ KeyTaken(q.key)
             /\ answer'[r] = Ok(PostingWithKey(q.key).balance_after)
    <3>1. PICK v \in Users : \E i \in DOMAIN ledger[v] :
             PostingWithKey(q.key) = ledger[v][i] /\ ledger[v][i].key = q.key
      BY <2>5, FoundRow
    <3>2. PICK i \in DOMAIN ledger[v] :
             PostingWithKey(q.key) = ledger[v][i] /\ ledger[v][i].key = q.key
      BY <3>1
    <3>3. /\ v = q.user /\ ledger[v][i].type = q.type /\ ledger[v][i].amount = q.amount
          /\ ledger[v][i].order = NoOrder /\ q.order = NoOrder
      BY <2>1, <2>5, <3>2 DEF KeysFit, Fits
    <3>4. answer'[r].balance = ledger[v][i].balance_after
      BY <2>5, <3>2 DEF Ok
    <3>5. RowAnswers(ledger[v][i], q)
      BY <3>2, <3>3 DEF RowAnswers
    <3>6. QED
      BY <2>1, <3>3, <3>4, <3>5 DEF Right, Answered
  <2>6. QED
    BY <1>8, <2>2, <2>3, <2>4, <2>5 DEF Quiet
<1>9. QED
  BY <1>3, <1>4, <1>5, <1>6, <1>7, <1>8, StepKinds

(* Whoever is told that its charge succeeded is told the balance of the    *)
(* row of that charge.                                                     *)
THEOREM AnswersArePosted == Spec => []AnswerIsPosted
<1>1. Init => KeysFit /\ HeldFits /\ AnswerIsPosted
  <2>1. DOMAIN <<>> = {}
    OBVIOUS
  <2>2. QED
    BY <2>1 DEF Init, KeysFit, HeldFits, AnswerIsPosted, Told
<1>2. QED
  BY <1>1, InitHolds, StepHolds, InitFits, StepFits, KeysFitStep, HeldFitsStep, AnswersStep,
     PTL DEF Spec

-----------------------------------------------------------------------------
(* Cached balances.                                                        *)

(* Account u had balance b at some time.                                   *)
WasReal(u, b) == b = 0 \/ \E i \in DOMAIN ledger[u] : b = ledger[u][i].balance_after

FillIsReal == \A r \in Requests : pc[r] = "fill" => WasReal(req[r].user, held[r])

(* The balance column is the balance of the last row.                      *)
LEMMA BalanceIsReal ==
    ASSUME IInv, LedgerExplainsBalance, NEW u \in Users
    PROVE  WasReal(u, balance[u])
<1>1. ledger[u] \in Seq(Posting)
  BY DEF IInv, TypeOK
<1>2. ledger[u] # <<>> => Len(ledger[u]) \in DOMAIN ledger[u]
  BY <1>1
<1>3. QED
  BY <1>2 DEF LedgerExplainsBalance, WasReal

(* The same of the accounts after a step.                                  *)
RealNext(u, b) == b = 0 \/ \E i \in DOMAIN ledger'[u] : b = ledger'[u][i].balance_after

(* A balance the account had is one it has had ever after.                 *)
LEMMA RealStays ==
    ASSUME IInv, RequestsFit, [Next]_vars, NEW u \in Users, NEW b, WasReal(u, b)
    PROVE  RealNext(u, b)
<1>1. CASE b = 0
  BY <1>1 DEF RealNext
<1>2. ASSUME NEW i \in DOMAIN ledger[u], b = ledger[u][i].balance_after
      PROVE  RealNext(u, b)
  <2>1. i \in DOMAIN ledger'[u] /\ ledger'[u][i] = ledger[u][i]
    BY <1>2, RowsStay
  <2>2. QED
    BY <1>2, <2>1 DEF RealNext
<1>3. QED
  BY <1>1, <1>2 DEF WasReal

(* The cache after a step: what it held, nothing, or what a handler that   *)
(* was to fill it carried.                                                 *)
LEMMA CacheMoves ==
    ASSUME IInv, RequestsFit, [Next]_vars, NEW u \in Users, cache'[u] # None
    PROVE  \/ cache'[u] = cache[u]
           \/ \E r \in Requests : /\ pc[r] = "fill" /\ req[r].user = u
                                  /\ cache'[u] = held[r]
<1>0. cache \in [Users -> Nat \union {None}]
  BY DEF IInv, TypeOK
<1>1. CASE Outside
  BY <1>0, <1>1 DEF Outside
<1>2. ASSUME NEW r \in Requests, Starts(r) \/ Commits(r) \/ Tells(r)
      PROVE  cache' = cache
  BY <1>2 DEF Starts, Commits, Tells
<1>3. ASSUME NEW r \in Requests, Quiet(r)
      PROVE  \/ cache'[u] = cache[u]
             \/ pc[r] = "fill" /\ req[r].user = u /\ cache'[u] = held[r]
  <2>1. CASE cache' = cache
    BY <2>1
  <2>2. CASE cache' = [cache EXCEPT ![req[r].user] = None]
    BY <1>0, <2>2
  <2>3. CASE pc[r] = "fill" /\ cache' = [cache EXCEPT ![req[r].user] = held[r]]
    BY <1>0, <2>3
  <2>4. QED
    BY <1>3, <2>1, <2>2, <2>3 DEF Quiet
<1>4. QED
  BY <1>1, <1>2, <1>3, StepKinds

(* What a handler carries to fill the cache: what it carried, zero, or the *)
(* balance it has just read.                                               *)
LEMMA FillMoves ==
    ASSUME IInv, RequestsFit, [Next]_vars, NEW s \in Requests, pc'[s] = "fill"
    PROVE  /\ req'[s] = req[s]
           /\ \/ pc[s] = "fill" /\ held'[s] = held[s]
              \/ held'[s] \in {0, balance[req[s].user]}
<1>1. CASE Outside
  BY <1>1 DEF Outside
<1>2. ASSUME NEW r \in Requests, Starts(r) \/ Commits(r) \/ Tells(r) \/ Quiet(r), r # s
      PROVE  req'[s] = req[s] /\ pc[s] = "fill" /\ held'[s] = held[s]
  BY <1>2 DEF Starts, Commits, Tells, Quiet, Others
<1>3. ~(Starts(s) \/ Commits(s) \/ Tells(s))
  BY DEF Starts, Commits, Tells
<1>4. CASE Quiet(s)
  BY <1>4 DEF Quiet
<1>5. QED
  BY <1>1, <1>2, <1>3, <1>4, StepKinds

(* Every step fills the cache with balances that were real.                *)
LEMMA CacheStep ==
    ASSUME IInv, RequestsFit, LedgerExplainsBalance, FillIsReal, CachedBalanceWasReal,
           [Next]_vars
    PROVE  FillIsReal' /\ CachedBalanceWasReal'
<1>0. \A r \in Requests : req[r].user \in Users
  BY DEF IInv, TypeOK, Request
<1>1. ASSUME NEW u \in Users, cache'[u] # None
      PROVE  RealNext(u, cache'[u])
  <2>1. CASE cache'[u] = cache[u]
    <3>1. WasReal(u, cache[u])
      BY <1>1, <2>1 DEF CachedBalanceWasReal, WasReal
    <3>2. QED
      BY <2>1, <3>1, RealStays
  <2>2. ASSUME NEW r \in Requests, pc[r] = "fill", req[r].user = u,
               cache'[u] = held[r]
        PROVE  RealNext(u, cache'[u])
    BY <2>2, RealStays DEF FillIsReal
  <2>3. QED
    BY <1>1, <2>1, <2>2, CacheMoves
<1>2. ASSUME NEW s \in Requests, pc'[s] = "fill"
      PROVE  RealNext(req'[s].user, held'[s])
  <2>1. CASE pc[s] = "fill" /\ held'[s] = held[s]
    <3>1. WasReal(req[s].user, held[s])
      BY <2>1 DEF FillIsReal
    <3>2. QED
      BY <1>0, <1>2, <2>1, <3>1, FillMoves, RealStays
  <2>2. CASE held'[s] = balance[req[s].user]
    <3>1. WasReal(req[s].user, balance[req[s].user])
      BY <1>0, BalanceIsReal
    <3>2. QED
      BY <1>0, <1>2, <2>2, <3>1, FillMoves, RealStays
  <2>3. CASE held'[s] = 0
    BY <2>3 DEF RealNext
  <2>4. QED
    BY <1>2, <2>1, <2>2, <2>3, FillMoves
<1>3. CachedBalanceWasReal'
  BY <1>1 DEF CachedBalanceWasReal, RealNext
<1>4. FillIsReal'
  BY <1>2 DEF FillIsReal, WasReal, RealNext
<1>5. QED
  BY <1>3, <1>4

(* What the cache holds for an owner is a balance that this owner's        *)
(* account had at some time, however late a reader of getBalance fills it. *)
THEOREM CacheWasReal == Spec => []CachedBalanceWasReal
<1>1. Init => FillIsReal /\ CachedBalanceWasReal
  BY DEF Init, FillIsReal, CachedBalanceWasReal
<1>2. IInv /\ RequestsFit /\ LedgerExplainsBalance /\ FillIsReal /\ CachedBalanceWasReal
        /\ [Next]_vars => FillIsReal' /\ CachedBalanceWasReal'
  BY CacheStep
<1>3. QED
  BY <1>1, <1>2, InitHolds, StepHolds, InitFits, StepFits,
     LedgerAlwaysExplainsBalance, PTL DEF Spec

=============================================================================
