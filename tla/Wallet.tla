------------------------------- MODULE Wallet -------------------------------
(***************************************************************************)
(* wallet-service: its handlers run concurrently against MySQL (the tables *)
(* wallets, wallet_transactions, invoices), a Redis cache of balances and  *)
(* Razorpay orders.  Every await of a handler is a point where the others  *)
(* may step in, so a handler is a sequence of steps kept in pc.  A MySQL   *)
(* transaction that locks the wallet row FOR UPDATE is one step.           *)
(***************************************************************************)
EXTENDS Integers, Sequences

CONSTANTS Users,           \* account owners
          Requests,        \* slots for the handlers in flight
          Keys,            \* idempotency keys sent by callers
          NoKey,           \* "no idempotency key"
          KeyCharge,       \* KeyCharge[k]: the one charge key k is sent with
          Amounts,         \* paise, of debits and credits without a key and of recharges
          Orders,          \* Razorpay order ids
          NoOrder,         \* "no order"
          TaxRate,         \* config.tax.rate, in percent
          TaxModes,        \* the settings of config.tax.inclusive instances run with
          MinRecharge,     \* config.minRechargeAmount, in paise
          None,            \* "no value"
          MaxPostings      \* bound: no unkeyed charge begins on an account this long

ASSUME UserAssumption == Users # {}
ASSUME AmountAssumption == Amounts \subseteq Nat \ {0}
ASSUME TaxAssumption == TaxRate \in 0 .. 100 /\ TaxModes \subseteq BOOLEAN
ASSUME KeyAssumption ==
    /\ NoKey \notin Keys
    /\ KeyCharge \in [Keys -> [user : Users, type : {"credit", "debit"},
                               amount : Nat \ {0}]]
ASSUME OrderAssumption == NoOrder \notin Orders

VARIABLES wallets,   \* owners that have a row in wallets
          balance,   \* the balance column (0 where there is no row)
          ledger,    \* wallet_transactions per owner, in commit order
          invoices,  \* invoice rows: <<owner, position of the posting>>
          orders,    \* the orders of the Razorpay key, with the split in their notes
          cache,     \* Redis wallet:balance:<owner>, or None
          events,    \* positions announced on the topic wallet.transaction
          pc, req,   \* where each handler is, and the request it serves
          held,      \* the number a handler carries to its next step
          answer     \* the last answer given in a slot

database == <<wallets, balance, ledger, invoices>>
vars == <<wallets, balance, ledger, invoices, orders, cache, events,
          pc, req, held, answer>>

-----------------------------------------------------------------------------
(* The tax split of a recharge (Math.round rounds halves up).              *)

Round(num, den) == (2 * num + den) \div (2 * den)

(* Mutant: an inclusive amount taxed as if it were the base.               *)
BaseAmountOfGross(amount, inclusive) ==
    IF inclusive THEN amount - Round(amount * TaxRate, 100) ELSE amount

BaseAmount(amount, inclusive) ==
    IF inclusive THEN Round(100 * amount, 100 + TaxRate) ELSE amount

TaxAmount(amount, inclusive) ==
    IF inclusive THEN amount - BaseAmount(amount, inclusive)
                 ELSE Round(amount * TaxRate, 100)

(* What a verified order is credited with: notes.base_amount, or the total *)
(* where the notes have none.                                              *)
Credited(order) == IF order.base = 0 THEN order.total ELSE order.base

-----------------------------------------------------------------------------
(* Types.                                                                  *)

Types == {"credit", "debit"}
Posting == [type : Types, amount : Nat, balance_after : Nat,
            key : Keys \union {NoKey}, order : Orders \union {NoOrder}]
Request == [op : {"charge", "admin_credit", "balance", "recharge", "verify"},
            user : Users, type : Types, amount : Nat,
            key : Keys \union {NoKey}, order : Orders \union {NoOrder}]
Order == [status : {"none", "created", "paid"}, total : Nat, base : Nat, tax : Nat]
Answer == [ok : BOOLEAN, balance : Nat]
Steps == {"idle", "find", "create", "lookup", "txn", "relookup", "invalidate",
          "announce", "cache", "fill", "order", "fetch"}

TypeOK == /\ wallets \subseteq Users
          /\ balance \in [Users -> Nat]
          /\ ledger \in [Users -> Seq(Posting)]
          /\ invoices \subseteq Users \X Nat
          /\ orders \in [Orders -> Order]
          /\ cache \in [Users -> Nat \union {None}]
          /\ events \in [Users -> Seq(Nat)]
          /\ pc \in [Requests -> Steps]
          /\ req \in [Requests -> Request]
          /\ held \in [Requests -> Nat]
          /\ answer \in [Requests -> Answer \union {None}]

-----------------------------------------------------------------------------
(* Reading the tables.                                                     *)

KeyTaken(k) == \E u \in Users : \E i \in DOMAIN ledger[u] : ledger[u][i].key = k

PostingWithKey(k) ==
    CHOOSE p \in UNION {{ledger[u][i] : i \in DOMAIN ledger[u]} : u \in Users} :
        p.key = k

After(b, type, amount) == IF type = "credit" THEN b + amount ELSE b - amount

(* Mutant: the balance is not compared with the amount.                    *)
RefusedWithoutWallet(q) == q.user \notin wallets

(* What a charge is refused for, in the order the handlers test it.        *)
Refused(q) == \/ q.user \notin wallets
              \/ q.type = "debit" /\ balance[q.user] < q.amount

(* The bound: no request without a key, that may post, begins on a full    *)
(* account; one with a key posts once at most.                             *)
Room(u) == Len(ledger[u]) < MaxPostings

-----------------------------------------------------------------------------
(* Steps that handlers share.                                              *)

Goto(r, step) == pc' = [pc EXCEPT ![r] = step]

Reply(r, a) == /\ Goto(r, "idle")
               /\ answer' = [answer EXCEPT ![r] = a]
               /\ held' = [held EXCEPT ![r] = 0]

Failed == [ok |-> FALSE, balance |-> 0]
Ok(b) == [ok |-> TRUE, balance |-> b]

Begin(r, step, op, u, type, amount, key, order) ==
    /\ pc[r] = "idle"
    /\ (op \in {"charge", "admin_credit", "verify"} /\ key = NoKey) => Room(u)
    /\ Goto(r, step)
    /\ req' = [req EXCEPT ![r] = [op |-> op, user |-> u, type |-> type,
                                  amount |-> amount, key |-> key, order |-> order]]
    /\ answer' = [answer EXCEPT ![r] = None]
    /\ UNCHANGED <<database, orders, cache, events, held>>

(* Mutant: the new balance is computed from a read made before the lock.   *)
CommitFromEarlierRead(r, type, amount, key, order) ==
    LET u == req[r].user
        b == After(held[r], type, amount)
    IN  /\ b >= 0
        /\ balance' = [balance EXCEPT ![u] = b]
        /\ ledger' = [ledger EXCEPT ![u] =
                        Append(@, [type |-> type, amount |-> amount,
                                   balance_after |-> b, key |-> key,
                                   order |-> order])]
        /\ held' = [held EXCEPT ![r] = Len(ledger[u]) + 1]
        /\ Goto(r, "invalidate")
        /\ UNCHANGED <<wallets, orders, cache, events, req, answer>>

(* The committed transaction of a charge or of a recharge: the locked      *)
(* balance moves and the row of wallet_transactions is inserted.           *)
Commit(r, type, amount, key, order) ==
    LET u == req[r].user
        b == After(balance[u], type, amount)
    IN  /\ balance' = [balance EXCEPT ![u] = b]
        /\ ledger' = [ledger EXCEPT ![u] =
                        Append(@, [type |-> type, amount |-> amount,
                                   balance_after |-> b, key |-> key,
                                   order |-> order])]
        /\ held' = [held EXCEPT ![r] = Len(ledger[u]) + 1]
        /\ Goto(r, "invalidate")
        /\ UNCHANGED <<wallets, orders, cache, events, req, answer>>

-----------------------------------------------------------------------------
(* Requests.  POST /debit and POST /credit take an optional key.           *)

ChargeRequest(r) ==
    \/ \E k \in Keys : Begin(r, "lookup", "charge", KeyCharge[k].user,
                             KeyCharge[k].type, KeyCharge[k].amount, k, NoOrder)
    \/ \E u \in Users, type \in Types, amount \in Amounts :
          Begin(r, "lookup", "charge", u, type, amount, NoKey, NoOrder)

AdminCreditRequest(r) ==
    \E u \in Users, amount \in Amounts :
        Begin(r, "find", "admin_credit", u, "credit", amount, NoKey, NoOrder)

BalanceRequest(r) ==
    \E u \in Users : Begin(r, "cache", "balance", u, "credit", 0, NoKey, NoOrder)

RechargeRequest(r) ==
    \E u \in Users, amount \in Amounts :
        /\ amount >= MinRecharge
        /\ Begin(r, "find", "recharge", u, "credit", amount, NoKey, NoOrder)

(* Anyone who was handed an order of the key sends it with its signature,  *)
(* once or again: nothing ties the order to the wallet of the caller, nor  *)
(* to a recharge.                                                          *)
VerifyRequest(r) ==
    \E o \in Orders, u \in Users :
        /\ orders[o].status # "none"
        /\ Begin(r, "fetch", "verify", u, "credit", 0, NoKey, o)

(* getOrCreateWallet reads the row, and inserts it if it was not there; a  *)
(* second insert of the same owner breaks the unique index on user_id and  *)
(* fails the request.                                                      *)
AfterWallet(op) == CASE op = "balance" -> "fill"
                     [] op = "admin_credit" -> "lookup"
                     [] OTHER -> "order"

FindWallet(r) ==
    LET q == req[r]
    IN  /\ pc[r] = "find"
        /\ IF q.user \in wallets
           THEN /\ Goto(r, AfterWallet(q.op))
                /\ held' = [held EXCEPT ![r] = balance[q.user]]
           ELSE Goto(r, "create") /\ UNCHANGED held
        /\ UNCHANGED <<database, orders, cache, events, req, answer>>

CreateWallet(r) ==
    LET q == req[r]
    IN  /\ pc[r] = "create"
        /\ \/ /\ q.user \in wallets
              /\ Reply(r, Failed)
              /\ UNCHANGED wallets
           \/ /\ q.user \notin wallets
              /\ wallets' = wallets \union {q.user}
              /\ held' = [held EXCEPT ![r] = 0]
              /\ Goto(r, AfterWallet(q.op))
              /\ UNCHANGED answer
        /\ UNCHANGED <<balance, ledger, invoices, orders, cache, events, req>>

(* Mutant: a repeated key is answered with the balance of the moment.      *)
LookupKeyForBalance(r) ==
    LET q == req[r]
    IN  /\ pc[r] = "lookup"
        /\ IF q.key # NoKey /\ KeyTaken(q.key)
           THEN Reply(r, Ok(balance[q.user]))
           ELSE Goto(r, "txn") /\ UNCHANGED <<held, answer>>
        /\ UNCHANGED <<database, orders, cache, events, req>>

(* debitWallet and creditWallet.                                           *)
LookupKey(r) ==
    LET k == req[r].key
    IN  /\ pc[r] = "lookup"
        /\ IF k # NoKey /\ KeyTaken(k)
           THEN Reply(r, Ok(PostingWithKey(k).balance_after))
           ELSE Goto(r, "txn") /\ UNCHANGED <<held, answer>>
        /\ UNCHANGED <<database, orders, cache, events, req>>

(* Mutant: no unique index, the first lookup alone guards the key.         *)
ChargeWithoutIndex(r) ==
    LET q == req[r]
    IN  /\ pc[r] = "txn"
        /\ q.op # "verify"
        /\ ~Refused(q)
        /\ Commit(r, q.type, q.amount, q.key, NoOrder)
        /\ UNCHANGED invoices

(* The transaction is refused, finds its key taken, commits, or is rolled  *)
(* back by a failure of the database.                                      *)
Charge(r) ==
    LET q == req[r]
    IN  /\ pc[r] = "txn"
        /\ q.op # "verify"
        /\ \/ /\ Reply(r, Failed)
              /\ UNCHANGED <<database, orders, cache, events, req>>
           \/ /\ ~Refused(q)
              /\ q.key # NoKey /\ KeyTaken(q.key)
              /\ Goto(r, "relookup")
              /\ UNCHANGED <<database, orders, cache, events, req, held, answer>>
           \/ /\ ~Refused(q)
              /\ q.key # NoKey => ~KeyTaken(q.key)
              /\ Commit(r, q.type, q.amount, q.key, NoOrder)
              /\ UNCHANGED invoices

(* Mutant: the second lookup goes on as if this request had posted.        *)
RelookupKeyAndTell(r) ==
    LET u == req[r].user
    IN  /\ pc[r] = "relookup"
        /\ held' = [held EXCEPT ![r] = CHOOSE i \in DOMAIN ledger[u] :
                                         ledger[u][i].key = req[r].key]
        /\ Goto(r, "invalidate")
        /\ UNCHANGED <<database, orders, cache, events, req, answer>>

RelookupKey(r) ==
    /\ pc[r] = "relookup"
    /\ IF KeyTaken(req[r].key)
       THEN Reply(r, Ok(PostingWithKey(req[r].key).balance_after))
       ELSE Reply(r, Failed)
    /\ UNCHANGED <<database, orders, cache, events, req>>

(* Mutant: the cached balance is adjusted instead of dropped.              *)
InvalidateByAdjusting(r) ==
    LET u == req[r].user
        p == ledger[u][held[r]]
    IN  /\ pc[r] = "invalidate"
        /\ cache' = IF cache[u] = None THEN cache
                    ELSE [cache EXCEPT ![u] = After(@, p.type, p.amount)]
        /\ Goto(r, "announce")
        /\ UNCHANGED <<database, orders, events, req, held, answer>>

(* The cache is dropped, unless Redis fails, which is only logged.         *)
Invalidate(r) ==
    LET u == req[r].user
    IN  /\ pc[r] = "invalidate"
        /\ cache' \in {cache, [cache EXCEPT ![u] = None]}
        /\ Goto(r, "announce")
        /\ UNCHANGED <<database, orders, events, req, held, answer>>

(* The event is best effort; the answer is the new balance either way.     *)
Announce(r) ==
    LET u == req[r].user
    IN  /\ pc[r] = "announce"
        /\ events' \in {events, [events EXCEPT ![u] = Append(@, held[r])]}
        /\ Reply(r, Ok(ledger[u][held[r]].balance_after))
        /\ UNCHANGED <<database, orders, cache, req>>

(* getBalance: a read-through cache whose read and write may both fail.    *)
ReadCache(r) ==
    LET u == req[r].user
    IN  /\ pc[r] = "cache"
        /\ \/ cache[u] # None /\ Reply(r, Ok(cache[u]))
           \/ Goto(r, "find") /\ UNCHANGED <<held, answer>>
        /\ UNCHANGED <<database, orders, cache, events, req>>

FillCache(r) ==
    /\ pc[r] = "fill"
    /\ cache' \in {cache, [cache EXCEPT ![req[r].user] = held[r]]}
    /\ Reply(r, Ok(held[r]))
    /\ UNCHANGED <<database, orders, events, req>>

(* initiateRecharge: Razorpay makes a new order, or the request fails.     *)
CreateOrder(r) ==
    LET q == req[r]
    IN  /\ pc[r] = "order"
        /\ \/ Reply(r, Failed) /\ UNCHANGED orders
           \/ \E o \in Orders, inclusive \in TaxModes :
                 LET base == BaseAmount(q.amount, inclusive)
                     tax == TaxAmount(q.amount, inclusive)
                 IN  /\ orders[o].status = "none"
                     /\ orders' = [orders EXCEPT ![o] =
                                     [status |-> "created", total |-> base + tax,
                                      base |-> base, tax |-> tax]]
                     /\ Reply(r, Ok(0))
        /\ UNCHANGED <<database, cache, events, req>>

(* verifyRechargePayment: Razorpay is asked for the order, and may not     *)
(* answer.                                                                 *)
FetchOrder(r) ==
    /\ pc[r] = "fetch"
    /\ \/ Reply(r, Failed)
       \/ /\ orders[req[r].order].status = "paid"
          /\ Goto(r, "txn")
          /\ UNCHANGED <<held, answer>>
    /\ UNCHANGED <<database, orders, cache, events, req>>

(* Mutant: the invoice is inserted after the commit, and its failure is    *)
(* left as it is.                                                          *)
CreditRechargeThenInvoice(r) ==
    LET q == req[r]
    IN  /\ pc[r] = "txn"
        /\ q.op = "verify"
        /\ q.user \in wallets
        /\ Commit(r, "credit", Credited(orders[q.order]), NoKey, q.order)
        /\ invoices' \in {invoices, invoices \union {<<q.user, Len(ledger[q.user]) + 1>>}}

(* Mutant: no transaction at all, the balance moved before the insert that *)
(* failed.                                                                 *)
CreditRechargeUnprotected(r) ==
    LET q == req[r]
    IN  /\ pc[r] = "txn"
        /\ q.op = "verify"
        /\ q.user \in wallets
        /\ \/ /\ Reply(r, Failed)
              /\ balance' = [balance EXCEPT ![q.user] = @ + Credited(orders[q.order])]
              /\ UNCHANGED <<wallets, ledger, invoices, orders, cache, events, req>>
           \/ /\ Commit(r, "credit", Credited(orders[q.order]), NoKey, q.order)
              /\ invoices' = invoices \union {<<q.user, Len(ledger[q.user]) + 1>>}

(* The invoice number is drawn at random in a small space and is unique:   *)
(* when it is taken the whole transaction is rolled back.                  *)
CreditRecharge(r) ==
    LET q == req[r]
    IN  /\ pc[r] = "txn"
        /\ q.op = "verify"
        /\ \/ /\ Reply(r, Failed)
              /\ UNCHANGED <<database, orders, cache, events, req>>
           \/ /\ q.user \in wallets
              /\ Commit(r, "credit", Credited(orders[q.order]), NoKey, q.order)
              /\ invoices' = invoices \union {<<q.user, Len(ledger[q.user]) + 1>>}

-----------------------------------------------------------------------------
(* The environment.  Subscription-service makes orders of the same key, of *)
(* a plan's price and without a base amount.                               *)

OrderElsewhere(o) ==
    /\ orders[o].status = "none"
    /\ \E amount \in Amounts :
          orders' = [orders EXCEPT ![o] = [status |-> "created", total |-> amount,
                                           base |-> 0, tax |-> 0]]
    /\ UNCHANGED <<database, cache, events, pc, req, held, answer>>

Pay(o) ==
    /\ orders[o].status = "created"
    /\ orders' = [orders EXCEPT ![o].status = "paid"]
    /\ UNCHANGED <<database, cache, events, pc, req, held, answer>>

Expire(u) ==
    /\ cache[u] # None
    /\ cache' = [cache EXCEPT ![u] = None]
    /\ UNCHANGED <<database, orders, events, pc, req, held, answer>>

(* The process dies: every handler in flight is gone, its caller unanswered. *)
Crash ==
    /\ \E r \in Requests : pc[r] # "idle"
    /\ pc' = [r \in Requests |-> "idle"]
    /\ held' = [r \in Requests |-> 0]
    /\ UNCHANGED <<database, orders, cache, events, req, answer>>

Anyone == CHOOSE u \in Users : TRUE

Init == /\ wallets = {}
        /\ balance = [u \in Users |-> 0]
        /\ ledger = [u \in Users |-> <<>>]
        /\ invoices = {}
        /\ orders = [o \in Orders |-> [status |-> "none", total |-> 0,
                                       base |-> 0, tax |-> 0]]
        /\ cache = [u \in Users |-> None]
        /\ events = [u \in Users |-> <<>>]
        /\ pc = [r \in Requests |-> "idle"]
        /\ req = [r \in Requests |-> [op |-> "balance", user |-> Anyone,
                                      type |-> "credit", amount |-> 0,
                                      key |-> NoKey, order |-> NoOrder]]
        /\ held = [r \in Requests |-> 0]
        /\ answer = [r \in Requests |-> None]

Handle(r) == \/ ChargeRequest(r) \/ AdminCreditRequest(r) \/ BalanceRequest(r)
             \/ RechargeRequest(r) \/ VerifyRequest(r)
             \/ FindWallet(r) \/ CreateWallet(r)
             \/ LookupKey(r) \/ Charge(r) \/ RelookupKey(r)
             \/ Invalidate(r) \/ Announce(r)
             \/ ReadCache(r) \/ FillCache(r)
             \/ CreateOrder(r) \/ FetchOrder(r) \/ CreditRecharge(r)

Next == \/ \E r \in Requests : Handle(r)
        \/ \E o \in Orders : OrderElsewhere(o) \/ Pay(o)
        \/ \E u \in Users : Expire(u)
        \/ Crash

Spec == Init /\ [][Next]_vars

-----------------------------------------------------------------------------
(* Properties.                                                             *)

BalanceBefore(u, i) == IF i = 1 THEN 0 ELSE ledger[u][i - 1].balance_after

(* The balance column is what the postings of the owner add up to, and     *)
(* every posting recorded the balance it left: debits and credits that run *)
(* at the same time never lose one another's update (the row lock of       *)
(* debitWallet, creditWallet and verifyRechargePayment).                   *)
LedgerExplainsBalance ==
    \A u \in Users :
        /\ balance[u] = IF ledger[u] = <<>> THEN 0
                        ELSE ledger[u][Len(ledger[u])].balance_after
        /\ \A i \in DOMAIN ledger[u] :
              ledger[u][i].balance_after =
                  After(BalanceBefore(u, i), ledger[u][i].type, ledger[u][i].amount)

(* A key moves money once, however often and however concurrently a caller *)
(* repeats the request (unique index on idempotency_key and the second     *)
(* lookup), across crashes that leave the caller without an answer.        *)
KeyChargedOnce ==
    \A u, v \in Users : \A i \in DOMAIN ledger[u], j \in DOMAIN ledger[v] :
        (ledger[u][i].key = ledger[v][j].key /\ ledger[u][i].key # NoKey)
            => u = v /\ i = j

(* A caller told that its charge succeeded is told the balance of a posting *)
(* that is in the book for that very charge, also when the answer is that  *)
(* of an earlier attempt (buildIdempotentTransactionResult).               *)
AnswerIsPosted ==
    \A r \in Requests :
        (/\ req[r].op \in {"charge", "admin_credit", "verify"}
         /\ answer[r] # None
         /\ answer[r].ok) =>
                \E i \in DOMAIN ledger[req[r].user] :
                    LET p == ledger[req[r].user][i]
                    IN  /\ p.balance_after = answer[r].balance
                        /\ p.key = req[r].key
                        /\ p.order = req[r].order
                        /\ req[r].op # "verify" =>
                              p.type = req[r].type /\ p.amount = req[r].amount

(* Invoices and verified payments that were credited are one to one, also  *)
(* when the insert of the invoice fails on its unique number or when one   *)
(* order is verified twice; and each credits, to whoever sent the order,   *)
(* what the notes of a payment that Razorpay did receive say of its base,  *)
(* or its total if they say nothing (verifyRechargePayment).               *)
InvoicePerRecharge ==
    /\ \A u \in Users : \A i \in DOMAIN ledger[u] :
          (<<u, i>> \in invoices) <=> (ledger[u][i].order # NoOrder)
    /\ \A inv \in invoices :
          /\ inv[2] \in DOMAIN ledger[inv[1]]
          /\ LET p == ledger[inv[1]][inv[2]]
             IN  /\ orders[p.order].status = "paid"
                 /\ p.type = "credit"
                 /\ p.amount = Credited(orders[p.order])

(* The two ways of taxing a recharge, rounding up and down, agree with the *)
(* rate to half a paisa: the tax of an order is TaxRate percent of its     *)
(* base.                                                                   *)
TaxFollowsRate ==
    \A o \in Orders :
        LET error == 100 * orders[o].tax - TaxRate * orders[o].base
        IN  2 * error \in -(100 + TaxRate) .. 100 + TaxRate

(* The cache may be behind, but what it holds for an owner is a balance    *)
(* that this owner's account had at some time, although a reader may fill  *)
(* it long after it read the table, on either side of an invalidation.     *)
CachedBalanceWasReal ==
    \A u \in Users : cache[u] # None =>
        \/ cache[u] = 0
        \/ \E i \in DOMAIN ledger[u] : cache[u] = ledger[u][i].balance_after

(* The topic wallet.transaction tells a posting at most once, and none     *)
(* that is not in the book: a repeated key is answered without an event.   *)
PostingToldOnce ==
    \A u \in Users :
        /\ \A i \in DOMAIN events[u] : events[u][i] \in DOMAIN ledger[u]
        /\ \A i, j \in DOMAIN events[u] : events[u][i] = events[u][j] => i = j

(* The handlers, with their lookups, caches, races and crashes, implement  *)
(* the ledger: every step is one whole posting or changes no account.      *)
Plain(p) == [type |-> p.type, amount |-> p.amount,
             balance_after |-> p.balance_after, key |-> p.key]
PlainLedger == [u \in Users |-> [i \in DOMAIN ledger[u] |-> Plain(ledger[u][i])]]
Moved == Amounts \union {KeyCharge[k].amount : k \in Keys}
                 \union {BaseAmount(a, inclusive) :
                           a \in {b \in Amounts : b >= MinRecharge}, inclusive \in TaxModes}

Book == INSTANCE Ledger WITH Amounts <- Moved, ledger <- PlainLedger
ImplementsLedger == Book!Spec
=============================================================================
