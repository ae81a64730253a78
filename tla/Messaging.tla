------------------------------ MODULE Messaging ------------------------------
(***************************************************************************)
(* whatsapp-service: what a message costs.  A send (performAccountedSend)  *)
(* debits wallet-service, calls Meta and counts one message in the usage   *)
(* kept by subscription-service; Meta's webhooks (updateMessageStatus)     *)
(* move the status and settle the price (reconcileMessageBilling).  Sends  *)
(* and webhooks run concurrently; every await is a point where the others  *)
(* may step in.  A call of wallet-service is one posting or none.          *)
(***************************************************************************)
EXTENDS Integers, Sequences, FiniteSets

CONSTANTS Messages,    \* ids of outbound rows of wa_messages
          Senders,     \* sends in flight
          Hooks,       \* webhook statuses in flight
          Reported,    \* statuses Meta reports
          Categories,  \* billing categories
          Plans,       \* the plans, or editions of one, that may be active
          Price,       \* what a plan asks for a message of a category, in paise
          Pricings,    \* the pricings Meta reports
          Limit,       \* max_messages_per_month of the plan, 0 for no limit
          Funds,       \* the wallet at the start
          None,        \* "no value", "no message"
          MaxReports,  \* bound: webhook statuses that find their row
          MaxFaults    \* bound: lost answers, failed counts, crashes, new plans

ASSUME PriceAssumption == Price \in [Plans -> [Categories -> Nat]] /\ Plans # {}
Pricing == [category : Categories \union {None}, billable : BOOLEAN]

ASSUME PricingAssumption == Pricings \subseteq Pricing
ASSUME FundsAssumption == Funds \in Nat /\ Limit \in Nat
ASSUME ReportedAssumption == Reported \subseteq {"sent", "delivered", "read", "failed"}
ASSUME NoneAssumption == None \notin Categories \union Messages \union Nat \union Pricing
ASSUME SizeAssumption == IsFiniteSet(Messages) /\ IsFiniteSet(Senders)

VARIABLES row,       \* wa_messages
          balance,   \* the owner's wallet
          book,      \* its postings per message: <<source, amount>>
          paid,      \* history: what these postings of a message add up to
          plan,      \* the plan of the active subscription
          usage,     \* messages_this_month of the active subscription
          accepted,  \* messages Meta accepted, with the price class it reports
          sender,    \* the sends in flight
          hook,      \* the webhook statuses in flight
          doubtful,  \* history: messages whose price a fault, two webhooks handled
                     \* at once, or a change of the plan left uncertain
          reports, faults

vars == <<row, balance, book, paid, plan, usage, accepted, sender, hook, doubtful, reports,
          faults>>

-----------------------------------------------------------------------------
(* Rows.                                                                   *)

Statuses == {"absent", "pending", "sent", "delivered", "read", "failed"}
BillingStatuses ==
    {"pending_debit", "pending_reconcile", "free_pending", "debit_failed", "debited",
     "debited_pending_reconcile", "free", "refunded_failed_send", "refund_pending",
     "free_failed", "reconciled", "adjusted", "adjustment_failed"}
Kinds == {"template", "direct"}

Row == [status : Statuses, kind : Kinds, meta : BOOLEAN, billing : BillingStatuses,
        estimated : Categories \union {None}, estimate : Nat,
        actual : Categories \union {None}, amount : Nat \union {None}, debit : BOOLEAN, adjustment : BOOLEAN,
        counted : BOOLEAN, reconciled : BOOLEAN]

Absent == [status |-> "absent", kind |-> "direct", meta |-> FALSE,
           billing |-> "free_pending", estimated |-> None, estimate |-> 0,
           actual |-> None, amount |-> None, debit |-> FALSE, adjustment |-> FALSE,
           counted |-> FALSE, reconciled |-> FALSE]

Sources == {"message_debit", "message_refund", "message_adjustment"}
Posting == Sources \X Nat

EstimatedAmount(w) == w.estimate

(* What the plan that is active now asks for a message.                    *)
PriceNow(category) == IF category = None THEN 0 ELSE Price[plan][category]

(* The row a send creates.                                                 *)
NewRow(kind, category) ==
    LET w == [Absent EXCEPT !.status = "pending", !.kind = kind, !.estimated = category,
                            !.estimate = PriceNow(category)]
    IN  [w EXCEPT !.billing = IF kind = "direct" THEN "free_pending"
                              ELSE IF EstimatedAmount(w) > 0 THEN "pending_debit"
                              ELSE "pending_reconcile"]

IsWalletBilled(w) == w.kind = "template" \/ w.debit

(* Meta's pricing of an accepted message is the same in each of its        *)
(* webhooks; a category it does not name is the estimated one.  The price  *)
(* is that of the plan of the moment.                                      *)
ActualCategory(w, p) == IF p.category = None THEN w.estimated ELSE p.category
ActualAmount(w, p) == IF p.billable THEN PriceNow(ActualCategory(w, p)) ELSE 0

-----------------------------------------------------------------------------
(* Handlers.                                                               *)

Sender == [pc : {"idle", "debit", "mark", "meta", "record", "count", "increment",
                 "apply", "refund", "fail"},
           msg : Messages \union {None}, held : Nat]
IdleSender == [pc |-> "idle", msg |-> None, held |-> 0]

Hook == [pc : {"idle", "update", "price", "write"}, msg : Messages \union {None},
         status : Statuses, priced : BOOLEAN, copy : Row,
         billing : BillingStatuses, cost : Nat, moved : BOOLEAN]
IdleHook == [pc |-> "idle", msg |-> None, status |-> "pending", priced |-> FALSE,
             copy |-> Absent, billing |-> "free", cost |-> 0, moved |-> FALSE]

TypeOK == /\ row \in [Messages -> Row]
          /\ balance \in Nat
          /\ book \in [Messages -> Seq(Posting)]
          /\ paid \in [Messages -> Int]
          /\ plan \in Plans
          /\ usage \in Nat
          /\ accepted \in [Messages -> Pricing \union {None}]
          /\ sender \in [Senders -> Sender]
          /\ hook \in [Hooks -> Hook]
          /\ doubtful \subseteq Messages
          /\ reports \in Nat /\ faults \in Nat

Fault == faults < MaxFaults /\ faults' = faults + 1
NoFault == UNCHANGED faults

Goto(s, step, held) == sender' = [sender EXCEPT ![s].pc = step, ![s].held = held]
Leave(s) == sender' = [sender EXCEPT ![s] = IdleSender]

(* Mutant: the wallet does not compare the amount with the balance.        *)
PostUnchecked(m, source, amount) ==
    /\ balance' = balance - amount
    /\ book' = [book EXCEPT ![m] = Append(@, <<source, amount>>)]
    /\ paid' = [paid EXCEPT ![m] = @ + amount]

(* What wallet-service does with a keyless debit or credit.                *)
PostDebit(m, source, amount) ==
    /\ balance >= amount
    /\ balance' = balance - amount
    /\ book' = [book EXCEPT ![m] = Append(@, <<source, amount>>)]
    /\ paid' = [paid EXCEPT ![m] = @ + amount]

PostCredit(m, amount) ==
    /\ balance' = balance + amount
    /\ book' = [book EXCEPT ![m] = Append(@, <<"message_refund", amount>>)]
    /\ paid' = [paid EXCEPT ![m] = @ - amount]

NoPosting == UNCHANGED <<balance, book, paid>>

-----------------------------------------------------------------------------
(* A send.  The quota is compared with a usage read now; the balance in    *)
(* the cache of wallet-service may be an old one, so that check may pass   *)
(* or refuse whatever the balance is.                                      *)

Begin(s) ==
    /\ sender[s].pc = "idle"
    /\ Limit = 0 \/ usage < Limit
    /\ \E m \in Messages, kind \in Kinds, c \in Categories \union {None} :
          /\ row[m].status = "absent"
          /\ kind = "direct" <=> c = None
          /\ row' = [row EXCEPT ![m] = NewRow(kind, c)]
          /\ sender' = [sender EXCEPT ![s] =
                [pc |-> IF EstimatedAmount(NewRow(kind, c)) > 0 THEN "debit" ELSE "meta",
                 msg |-> m, held |-> 0]]
    /\ UNCHANGED <<balance, book, paid, plan, usage, accepted, hook, doubtful, reports, faults>>

DebitFailed(w) == [w EXCEPT !.status = "failed", !.billing = "debit_failed"]

(* Mutant: a refused debit is logged and the message sent all the same.    *)
DebitOrSend(s) ==
    LET m == sender[s].msg
        amount == EstimatedAmount(row[m])
    IN  /\ sender[s].pc = "debit"
        /\ \/ NoPosting /\ Goto(s, "meta", 0)
           \/ PostDebit(m, "message_debit", amount) /\ Goto(s, "mark", 0)
        /\ UNCHANGED <<row, plan, usage, accepted, hook, doubtful, reports, faults>>

(* Refused by wallet-service or not reached; posted, with the answer lost; *)
(* or posted and answered.                                                 *)
Debit(s) ==
    LET m == sender[s].msg
        amount == EstimatedAmount(row[m])
    IN  /\ sender[s].pc = "debit"
        /\ \/ /\ NoPosting /\ NoFault /\ Leave(s)
              /\ row' = [row EXCEPT ![m] = DebitFailed(@)]
           \/ /\ PostDebit(m, "message_debit", amount) /\ Fault /\ Leave(s)
              /\ row' = [row EXCEPT ![m] = DebitFailed(@)]
           \/ /\ PostDebit(m, "message_debit", amount) /\ NoFault /\ Goto(s, "mark", 0)
              /\ UNCHANGED row
        /\ UNCHANGED <<plan, usage, accepted, hook, doubtful, reports>>

MarkDebited(s) ==
    /\ sender[s].pc = "mark"
    /\ row' = [row EXCEPT ![sender[s].msg].debit = TRUE,
                          ![sender[s].msg].billing = "debited"]
    /\ Goto(s, "meta", 0)
    /\ UNCHANGED <<balance, book, paid, plan, usage, accepted, hook, doubtful, reports, faults>>

(* Meta refuses; accepts and answers; or accepts and the answer is lost.   *)
CallMeta(s) ==
    LET m == sender[s].msg
    IN  /\ sender[s].pc = "meta"
        /\ \/ /\ Goto(s, "refund", 0) /\ NoFault
              /\ UNCHANGED accepted
           \/ \E p \in Pricings :
                 /\ accepted' = [accepted EXCEPT ![m] = p]
                 /\ \/ Goto(s, "record", 0) /\ NoFault
                    \/ Goto(s, "refund", 0) /\ Fault
        /\ UNCHANGED <<row, balance, book, paid, plan, usage, hook, doubtful, reports>>

Record(s) ==
    LET m == sender[s].msg
        w == [row[m] EXCEPT !.meta = TRUE, !.status = "sent"]
    IN  /\ sender[s].pc = "record"
        /\ row' = [row EXCEPT ![m] =
              IF w.kind = "direct"
              THEN [w EXCEPT !.billing = "free", !.amount = 0, !.reconciled = TRUE]
              ELSE [w EXCEPT !.billing = IF EstimatedAmount(w) > 0
                                         THEN "debited_pending_reconcile"
                                         ELSE "pending_reconcile"]]
        /\ Goto(s, "count", 0)
        /\ UNCHANGED <<balance, book, paid, plan, usage, accepted, hook, doubtful, reports, faults>>

(* incrementUsage of subscription-service reads its JSON column and writes *)
(* it back.  A failure of the call is taken for a failure of the send.     *)
CountFails(s) ==
    /\ Fault
    /\ Goto(s, "refund", 0)
    /\ doubtful' = doubtful \union {sender[s].msg}

ReadUsage(s) ==
    /\ sender[s].pc = "count"
    /\ \/ Goto(s, "increment", usage) /\ NoFault /\ UNCHANGED doubtful
       \/ CountFails(s)
    /\ UNCHANGED <<row, balance, book, paid, plan, usage, accepted, hook, reports>>

(* Mutant: a count whose answer is lost is made again.                     *)
WriteUsageRetried(s) ==
    /\ sender[s].pc = "increment"
    /\ usage' = sender[s].held + 1
    /\ \/ Goto(s, "apply", 0) /\ NoFault
       \/ Goto(s, "count", 0) /\ Fault
    /\ UNCHANGED <<row, balance, book, paid, plan, accepted, hook, doubtful, reports>>

WriteUsage(s) ==
    /\ sender[s].pc = "increment"
    /\ usage' = sender[s].held + 1
    /\ \/ Goto(s, "apply", 0) /\ NoFault /\ UNCHANGED doubtful
       \/ CountFails(s)
    /\ UNCHANGED <<row, balance, book, paid, plan, accepted, hook, reports>>

Apply(s) ==
    /\ sender[s].pc = "apply"
    /\ row' = [row EXCEPT ![sender[s].msg].counted = TRUE]
    /\ Leave(s)
    /\ UNCHANGED <<balance, book, paid, plan, usage, accepted, hook, doubtful, reports, faults>>

(* The catch block.  held is 1 when a refund was answered.                 *)
Refund(s) ==
    LET m == sender[s].msg
        amount == EstimatedAmount(row[m])
    IN  /\ sender[s].pc = "refund"
        /\ \/ row[m].debit /\ PostCredit(m, amount) /\ Goto(s, "fail", 1) /\ NoFault
           \/ row[m].debit /\ PostCredit(m, amount) /\ Goto(s, "fail", 0) /\ Fault
           \/ NoPosting /\ Goto(s, "fail", 0) /\ NoFault
        /\ UNCHANGED <<row, plan, usage, accepted, hook, doubtful, reports>>

(* Mutant: a failed send is marked refunded whether or not it was.         *)
FailRefunded(s) ==
    /\ sender[s].pc = "fail"
    /\ row' = [row EXCEPT ![sender[s].msg] =
          [@ EXCEPT !.status = "failed", !.amount = 0,
                    !.billing = "refunded_failed_send", !.reconciled = TRUE]]
    /\ Leave(s)
    /\ UNCHANGED <<balance, book, paid, plan, usage, accepted, hook, doubtful, reports, faults>>

Fail(s) ==
    LET m == sender[s].msg
        w == row[m]
        refunded == sender[s].held = 1
        free == w.kind = "direct"
    IN  /\ sender[s].pc = "fail"
        /\ row' = [row EXCEPT ![m] =
              [w EXCEPT !.status = "failed", !.amount = 0,
                        !.billing = IF free THEN "free_failed"
                                    ELSE IF refunded THEN "refunded_failed_send"
                                    ELSE "refund_pending",
                        !.adjustment = @ \/ refunded,
                        !.reconciled = @ \/ refunded \/ free]]
        /\ Leave(s)
        /\ UNCHANGED <<balance, book, paid, plan, usage, accepted, hook, doubtful, reports, faults>>

-----------------------------------------------------------------------------
(* Webhooks.  A status that comes before the id is stored finds no row and *)
(* changes nothing.  The statuses of one envelope are handled in parallel, *)
(* as are envelopes.                                                       *)

HookAt(h, step) == hook[h].pc = step
HookGoto(h, step, copy) == hook' = [hook EXCEPT ![h].pc = step, ![h].copy = copy]
HookLeave(h) == hook' = [hook EXCEPT ![h] = IdleHook]

FindRow(h) ==
    /\ HookAt(h, "idle")
    /\ reports < MaxReports
    /\ \E m \in Messages, s \in Reported, priced \in BOOLEAN :
          /\ accepted[m] # None
          /\ row[m].meta
          /\ hook' = [hook EXCEPT ![h] = [IdleHook EXCEPT !.pc = "update", !.msg = m,
                                                         !.status = s, !.priced = priced,
                                                         !.copy = row[m]]]
          /\ doubtful' = IF \E g \in Hooks : hook[g].msg = m THEN doubtful \union {m}
                         ELSE doubtful
    /\ reports' = reports + 1
    /\ UNCHANGED <<row, balance, book, paid, plan, usage, accepted, sender, faults>>

Order(s) == CASE s = "sent" -> 1 [] s = "delivered" -> 2 [] s = "read" -> 3
              [] s = "failed" -> 4 [] OTHER -> 0

Forward(from, to) == Order(to) > Order(from) \/ to = "failed"

(* instance.update of Sequelize: only what differs from the copy that was  *)
(* read is written, over whatever the row has become.                      *)
Assigned(current, copy, new) ==
    [x \in DOMAIN current |-> IF new[x] = copy[x] THEN current[x] ELSE new[x]]

UpdateStatus(h) ==
    LET m == hook[h].msg
        copy == hook[h].copy
        new == IF Forward(copy.status, hook[h].status)
               THEN [copy EXCEPT !.status = hook[h].status] ELSE copy
    IN  /\ HookAt(h, "update")
        /\ row' = [row EXCEPT ![m] = Assigned(@, copy, new)]
        /\ IF hook[h].priced THEN HookGoto(h, "price", new) ELSE HookLeave(h)
        /\ UNCHANGED <<balance, book, paid, plan, usage, accepted, sender, doubtful, reports, faults>>

(* A message that the wallet does not pay for.                             *)
SettleFree(h) ==
    LET m == hook[h].msg
        copy == hook[h].copy
        new == [copy EXCEPT !.actual = ActualCategory(copy, accepted[m]), !.amount = 0,
                            !.billing = "free", !.reconciled = TRUE]
    IN  /\ HookAt(h, "price")
        /\ ~ IsWalletBilled(copy)
        /\ row' = [row EXCEPT ![m] = Assigned(@, copy, new)]
        /\ HookLeave(h)
        /\ UNCHANGED <<balance, book, paid, plan, usage, accepted, sender, doubtful, reports, faults>>

(* Mutant: the price is compared with the estimate.                        *)
SettledAtEstimate(copy, p) == copy.reconciled /\ EstimatedAmount(copy) = ActualAmount(copy, p)

(* What the row already says, so that a repeated webhook adjusts nothing.  *)
AlreadySettled(copy, p) ==
    /\ copy.reconciled
    /\ copy.amount = ActualAmount(copy, p)
    /\ ActualCategory(copy, p) = IF copy.actual # None THEN copy.actual ELSE copy.estimated

Decide(h, billing, cost, moved) ==
    hook' = [hook EXCEPT ![h].pc = "write", ![h].billing = billing, ![h].cost = cost,
                         ![h].moved = moved]

(* The row was settled, with a difference to its estimate, at another      *)
(* price than the one another plan now asks.                               *)
Repriced(copy, cost) ==
    copy.reconciled /\ copy.amount \notin {cost, EstimatedAmount(copy)}

(* The difference between the estimate and the price of Meta's category    *)
(* goes back to the wallet or is taken from it, also when a difference was *)
(* moved before.  Without an active subscription the webhook fails.  A     *)
(* wallet that refuses, or whose answer is lost, leaves the row to be      *)
(* settled by a later webhook.                                             *)
Reconcile(h) ==
    LET m == hook[h].msg
        copy == hook[h].copy
        cost == ActualAmount(copy, accepted[m])
        delta == EstimatedAmount(copy) - cost
        lost == IF Repriced(copy, cost) THEN doubtful \union {m} ELSE doubtful
    IN  /\ HookAt(h, "price")
        /\ IsWalletBilled(copy)
        /\ \/ HookLeave(h) /\ NoPosting /\ NoFault /\ UNCHANGED doubtful
           \/ /\ ~ AlreadySettled(copy, accepted[m])
              /\ \/ delta > 0 /\ PostCredit(m, delta) /\ NoFault
                    /\ Decide(h, "reconciled", cost, TRUE) /\ doubtful' = lost
                 \/ delta < 0 /\ PostDebit(m, "message_adjustment", -delta) /\ NoFault
                    /\ Decide(h, "adjusted", cost, TRUE) /\ doubtful' = lost
                 \/ delta = 0 /\ NoPosting /\ NoFault
                    /\ Decide(h, "reconciled", cost, FALSE) /\ doubtful' = lost
                 \/ delta # 0 /\ NoPosting /\ NoFault
                    /\ Decide(h, "adjustment_failed", cost, FALSE) /\ doubtful' = lost
                 \/ /\ \/ delta > 0 /\ PostCredit(m, delta)
                       \/ delta < 0 /\ PostDebit(m, "message_adjustment", -delta)
                    /\ Fault
                    /\ Decide(h, "adjustment_failed", cost, FALSE)
                    /\ doubtful' = doubtful \union {m}
        /\ UNCHANGED <<row, plan, usage, accepted, sender, reports>>

WriteBilling(h) ==
    LET m == hook[h].msg
        copy == hook[h].copy
        new == [copy EXCEPT !.actual = ActualCategory(copy, accepted[m]),
                            !.amount = hook[h].cost,
                            !.billing = hook[h].billing,
                            !.adjustment = @ \/ hook[h].moved,
                            !.reconciled = hook[h].billing # "adjustment_failed"]
    IN  /\ HookAt(h, "write")
        /\ row' = [row EXCEPT ![m] = Assigned(@, copy, new)]
        /\ HookLeave(h)
        /\ UNCHANGED <<balance, book, paid, plan, usage, accepted, sender, doubtful, reports, faults>>

-----------------------------------------------------------------------------
(* Another plan, or another price list of the plan, becomes the active one. *)
ChangePlan ==
    /\ plan' \in Plans \ {plan}
    /\ Fault
    /\ UNCHANGED <<row, balance, book, paid, usage, accepted, sender, hook, doubtful, reports>>

(* The process dies: sends and webhooks in flight are gone.  Meta had its  *)
(* answer before a webhook was handled and does not repeat it for that.    *)
Crash ==
    /\ \/ \E s \in Senders : sender[s].pc # "idle"
       \/ \E h \in Hooks : ~ HookAt(h, "idle")
    /\ Fault
    /\ sender' = [s \in Senders |-> IdleSender]
    /\ hook' = [h \in Hooks |-> IdleHook]
    /\ doubtful' = doubtful \union {hook[h].msg : h \in {g \in Hooks : hook[g].moved}}
    /\ UNCHANGED <<row, balance, book, paid, plan, usage, accepted, reports>>

Init == /\ row = [m \in Messages |-> Absent]
        /\ balance = Funds
        /\ book = [m \in Messages |-> <<>>]
        /\ paid = [m \in Messages |-> 0]
        /\ plan \in Plans
        /\ usage = 0
        /\ accepted = [m \in Messages |-> None]
        /\ sender = [s \in Senders |-> IdleSender]
        /\ hook = [h \in Hooks |-> IdleHook]
        /\ doubtful = {}
        /\ reports = 0 /\ faults = 0

Send(s) == \/ Begin(s) \/ Debit(s) \/ MarkDebited(s) \/ CallMeta(s) \/ Record(s)
           \/ ReadUsage(s) \/ WriteUsage(s) \/ Apply(s) \/ Refund(s) \/ Fail(s)

Webhook(h) == \/ FindRow(h) \/ UpdateStatus(h) \/ SettleFree(h)
              \/ Reconcile(h) \/ WriteBilling(h)

Next == \/ \E s \in Senders : Send(s)
        \/ \E h \in Hooks : Webhook(h)
        \/ ChangePlan
        \/ Crash

Spec == Init /\ [][Next]_vars

-----------------------------------------------------------------------------
(* Properties.                                                             *)

(* What Meta's pricing of a message costs in one of the plans; a message   *)
(* that has no id of Meta's costs nothing.                                 *)
Asked(m) ==
    LET category == ActualCategory(row[m], accepted[m])
    IN  IF row[m].meta /\ accepted[m].billable /\ category # None
        THEN {Price[p][category] : p \in Plans} ELSE {0}

(* A message whose price is settled cost what its row says, and that is    *)
(* what Meta reported at the price of some plan, whatever the estimate     *)
(* was, when webhooks repeat their pricing, when the wallet refuses an     *)
(* adjustment and a later webhook makes it, when the plan changes between  *)
(* the estimate and the reconciliation; and nothing when a failed send was *)
(* refunded (reconcileMessageBilling, performAccountedSend).  Not promised *)
(* where a fault cut a call of the wallet or of the usage short, where two *)
(* webhooks of the message were handled at once, nor where a message       *)
(* settled with a difference to its estimate was taken up again at the     *)
(* price of another plan: a difference then moves a second time.           *)
Settled(m) == /\ row[m].kind = "template"
              /\ row[m].reconciled
              /\ m \notin doubtful
              /\ \A h \in Hooks : ~ (hook[h].msg = m /\ hook[h].moved)
ChargedAsReported ==
    \A m \in Messages : Settled(m) => /\ paid[m] = row[m].amount
                                      /\ row[m].amount \in Asked(m)

(* A template message that Meta accepted had been paid for before, at the  *)
(* estimate: neither a refusal of the wallet nor a lost answer lets a      *)
(* message out unpaid.                                                     *)
SentIsPaid ==
    \A m \in Messages :
        (accepted[m] # None /\ EstimatedAmount(row[m]) > 0) =>
            /\ book[m] # <<>>
            /\ book[m][1] = <<"message_debit", EstimatedAmount(row[m])>>

(* The wallet transactions a row names were posted for that message, on    *)
(* either side of every crash and lost answer.                             *)
RowNamesItsPostings ==
    \A m \in Messages :
        LET sources == {book[m][i][1] : i \in DOMAIN book[m]}
        IN  /\ row[m].debit => "message_debit" \in sources
            /\ row[m].adjustment =>
                  sources \intersect {"message_refund", "message_adjustment"} # {}
            /\ row[m].billing = "refunded_failed_send" => "message_refund" \in sources
            /\ row[m].billing = "adjusted" => "message_adjustment" \in sources

(* The quota is never charged for a message that Meta did not accept, and  *)
(* for an accepted one at most once, although concurrent sends overwrite   *)
(* one another's counts (incrementUsage).                                  *)
QuotaNotOvercharged ==
    usage <= Cardinality({m \in Messages : accepted[m] # None})
=============================================================================
