-------------------------- MODULE MessagingProofs ---------------------------
(***************************************************************************)
(* What a message costs, for every number of messages, sends and webhooks, *)
(* every plan and every pricing that Meta may report.                      *)
(***************************************************************************)
EXTENDS Messaging, FiniteSetTheorems, TLAPS

(* A send and a webhook hold a message; that of a webhook was accepted.    *)
HandlersHoldMessages ==
    /\ \A s \in Senders : sender[s].pc # "idle" => sender[s].msg \in Messages
    /\ \A h \in Hooks : hook[h].pc # "idle" => /\ hook[h].msg \in Messages
                                               /\ accepted[hook[h].msg] # None
    /\ \A h \in Hooks : hook[h].moved => hook[h].pc # "idle"

TInv == TypeOK /\ HandlersHoldMessages

-----------------------------------------------------------------------------
(* Values.                                                                 *)

(* Every amount is a natural number.                                       *)
LEMMA AmountsAreNat == \A w \in Row : EstimatedAmount(w) \in Nat
BY DEF EstimatedAmount, Row

(* What Meta's pricing comes to, in a category and in money.               *)
LEMMA ActualsHaveTypes ==
    ASSUME TypeOK, NEW w \in Row, NEW p \in Pricing
    PROVE  /\ ActualCategory(w, p) \in Categories \union {None}
           /\ ActualAmount(w, p) \in Nat
<1>1. ActualCategory(w, p) \in Categories \union {None}
  BY DEF ActualCategory, Row, Pricing
<1>2. \A c \in Categories \union {None} : PriceNow(c) \in Nat
  BY PriceAssumption DEF PriceNow, TypeOK
<1>3. QED
  BY <1>1, <1>2 DEF ActualAmount

(* "No value" is not a pricing: a pricing has a category.                  *)
LEMMA NoneIsNoPricing == None \notin Pricing
BY NoneAssumption

(* A new row is a row.                                                     *)
LEMMA NewRowIsRow ==
    ASSUME TypeOK, NEW kind \in Kinds, NEW c \in Categories \union {None}
    PROVE  /\ NewRow(kind, c) \in Row
           /\ NewRow(kind, c).estimated = c
           /\ NewRow(kind, c).debit = FALSE /\ NewRow(kind, c).adjustment = FALSE
           /\ NewRow(kind, c).billing \in {"free_pending", "pending_debit", "pending_reconcile"}
           /\ NewRow(kind, c).status = "pending" /\ NewRow(kind, c).meta = FALSE
<1>0. PriceNow(c) \in Nat
  BY PriceAssumption DEF PriceNow, TypeOK
<1> DEFINE w == [Absent EXCEPT !.status = "pending", !.kind = kind, !.estimated = c,
                               !.estimate = PriceNow(c)]
           b == IF kind = "direct" THEN "free_pending"
                ELSE IF EstimatedAmount(w) > 0 THEN "pending_debit" ELSE "pending_reconcile"
<1>1. NewRow(kind, c) = [w EXCEPT !.billing = b]
  BY DEF NewRow
<1>2. w \in Row
  BY <1>0 DEF Absent, Row, Statuses, BillingStatuses, Kinds
<1>3. /\ w.estimated = c /\ w.debit = FALSE /\ w.adjustment = FALSE
      /\ w.status = "pending" /\ w.meta = FALSE
  BY DEF Absent
<1>4. b \in {"free_pending", "pending_debit", "pending_reconcile"}
  OBVIOUS
<1> HIDE DEF w, b
<1>5. QED
  BY <1>1, <1>2, <1>3, <1>4 DEF Row, BillingStatuses

(* instance.update keeps a row a row, and gives each column the value it   *)
(* has or the one the handler wants.                                       *)
LEMMA AssignedIsRow ==
    ASSUME NEW current \in Row, NEW copy \in Row, NEW new \in Row
    PROVE  LET r == Assigned(current, copy, new)
           IN  /\ r \in Row
               /\ r.debit = (IF new.debit = copy.debit THEN current.debit ELSE new.debit)
               /\ r.adjustment = (IF new.adjustment = copy.adjustment
                                  THEN current.adjustment ELSE new.adjustment)
               /\ r.billing = (IF new.billing = copy.billing
                               THEN current.billing ELSE new.billing)
               /\ r.estimated = (IF new.estimated = copy.estimated
                                 THEN current.estimated ELSE new.estimated)
               /\ r.estimate = (IF new.estimate = copy.estimate
                                THEN current.estimate ELSE new.estimate)
               /\ r.status = (IF new.status = copy.status
                              THEN current.status ELSE new.status)
BY DEF Assigned, Row

(* The row of a failed send is a row.                                      *)
LEMMA FailedRowsAreRows ==
    ASSUME NEW w \in Row, NEW b \in BillingStatuses, NEW d \in BOOLEAN, NEW e \in BOOLEAN
    PROVE  /\ DebitFailed(w) \in Row
           /\ [w EXCEPT !.status = "failed", !.amount = 0, !.billing = b,
                        !.adjustment = d, !.reconciled = e] \in Row
<1>1. DebitFailed(w) \in Row
  BY DEF DebitFailed, Row, Statuses, BillingStatuses
<1>2. [w EXCEPT !.status = "failed", !.amount = 0, !.billing = b,
               !.adjustment = d, !.reconciled = e] \in Row
  BY DEF Row, Statuses
<1>3. QED
  BY <1>1, <1>2

(* The row of a message whose price a webhook settles is a row.            *)
LEMMA BilledRowsAreRows ==
    ASSUME NEW w \in Row, NEW c \in Categories \union {None}, NEW a \in Nat,
           NEW b \in BillingStatuses, NEW d \in BOOLEAN, NEW e \in BOOLEAN
    PROVE  [w EXCEPT !.actual = c, !.amount = a, !.billing = b,
                     !.adjustment = d, !.reconciled = e] \in Row
BY DEF Row

(* A posting keeps the types of the wallet and of its book.                *)
LEMMA PostingsKeepTypes ==
    ASSUME TypeOK, NEW m \in Messages, NEW amount \in Nat,
           \/ \E source \in Sources : PostDebit(m, source, amount)
           \/ PostCredit(m, amount)
           \/ NoPosting
    PROVE  /\ balance' \in Nat /\ book' \in [Messages -> Seq(Posting)]
           /\ paid' \in [Messages -> Int]
<1>1. ASSUME NEW source \in Sources,
             book' = [book EXCEPT ![m] = Append(@, <<source, amount>>)]
      PROVE  book' \in [Messages -> Seq(Posting)]
  <2>1. <<source, amount>> \in Posting
    BY DEF Posting
  <2>2. book[m] \in Seq(Posting)
    BY DEF TypeOK
  <2>3. Append(book[m], <<source, amount>>) \in Seq(Posting)
    BY <2>1, <2>2
  <2>4. QED
    BY <1>1, <2>3 DEF TypeOK
<1>2. CASE \E source \in Sources : PostDebit(m, source, amount)
  <2>1. PICK source \in Sources : PostDebit(m, source, amount)
    BY <1>2
  <2>2. balance' \in Nat
    BY <2>1 DEF PostDebit, TypeOK
  <2>3. paid' \in [Messages -> Int]
    BY <2>1 DEF PostDebit, TypeOK
  <2>4. QED
    BY <1>1, <2>1, <2>2, <2>3 DEF PostDebit
<1>3. CASE PostCredit(m, amount)
  BY <1>1, <1>3 DEF PostCredit, TypeOK, Sources
<1>4. CASE NoPosting
  BY <1>4 DEF NoPosting, TypeOK
<1>5. QED
  BY <1>2, <1>3, <1>4

-----------------------------------------------------------------------------
(* The types.                                                              *)

LEMMA InitTypes == Init => TInv
<1>1. Init => TypeOK
  BY FundsAssumption DEF Init, TypeOK, Absent, Row, IdleSender, Sender, IdleHook, Hook,
     Statuses, BillingStatuses, Kinds
<1>2. Init => HandlersHoldMessages
  BY DEF Init, HandlersHoldMessages, IdleSender, IdleHook
<1>3. QED
  BY <1>1, <1>2 DEF TInv

(* A step of a send keeps the handlers' types: it goes on, or leaves.      *)
LEMMA SenderKeepsTypes ==
    ASSUME TInv, NEW s \in Senders, sender[s].pc # "idle",
           UNCHANGED hook,
           \A m \in Messages : accepted[m] # None => accepted'[m] # None,
           \/ Leave(s)
           \/ \E step \in {"debit", "mark", "meta", "record", "count", "increment",
                           "apply", "refund", "fail"}, held \in Nat : Goto(s, step, held)
    PROVE  /\ sender' \in [Senders -> Sender]
           /\ HandlersHoldMessages'
<1>1. CASE Leave(s)
  <2>1. IdleSender \in Sender /\ IdleSender.pc = "idle"
    BY DEF Sender, IdleSender
  <2>2. sender' \in [Senders -> Sender]
    BY <1>1, <2>1 DEF TInv, TypeOK, Leave
  <2>3. HandlersHoldMessages'
    BY <1>1, <2>1 DEF TInv, TypeOK, HandlersHoldMessages, Leave
  <2>4. QED
    BY <2>2, <2>3
<1>2. ASSUME NEW step \in {"debit", "mark", "meta", "record", "count", "increment",
                           "apply", "refund", "fail"}, NEW held \in Nat,
             Goto(s, step, held)
      PROVE  /\ sender' \in [Senders -> Sender]
             /\ HandlersHoldMessages'
  <2>1. sender' = [sender EXCEPT ![s] = [sender[s] EXCEPT !.pc = step, !.held = held]]
    BY <1>2 DEF Goto, TInv, TypeOK, Sender
  <2>2. /\ [sender[s] EXCEPT !.pc = step, !.held = held] \in Sender
        /\ [sender[s] EXCEPT !.pc = step, !.held = held].msg = sender[s].msg
    BY DEF TInv, TypeOK, Sender
  <2>3. sender' \in [Senders -> Sender]
    BY <2>1, <2>2 DEF TInv, TypeOK
  <2>4. HandlersHoldMessages'
    BY <2>1, <2>2 DEF TInv, TypeOK, HandlersHoldMessages
  <2>5. QED
    BY <2>3, <2>4
<1>3. QED
  BY <1>1, <1>2

(* Every step of a send keeps the types.                                   *)
LEMMA SendKeepsTypes ==
    ASSUME TInv, NEW s \in Senders, Send(s)
    PROVE  TInv'
<1> DEFINE m == sender[s].msg
<1> USE DEF TInv
<1>0. sender[s].pc # "idle" => /\ m \in Messages /\ row[m] \in Row
                               /\ EstimatedAmount(row[m]) \in Nat
  BY AmountsAreNat DEF TypeOK, HandlersHoldMessages
<1>f. Fault \/ NoFault => faults' \in Nat
  BY DEF TypeOK, Fault, NoFault
<1>1. CASE Begin(s)
  <2>1. PICK n \in Messages, kind \in Kinds, c \in Categories \union {None} :
           /\ row' = [row EXCEPT ![n] = NewRow(kind, c)]
           /\ sender' = [sender EXCEPT ![s] =
                [pc |-> IF EstimatedAmount(NewRow(kind, c)) > 0 THEN "debit" ELSE "meta",
                 msg |-> n, held |-> 0]]
    BY <1>1 DEF Begin
  <2>2. row' \in [Messages -> Row]
    BY <2>1, NewRowIsRow DEF TInv, TypeOK
  <2>3. sender' \in [Senders -> Sender] /\ HandlersHoldMessages'
    BY <1>1, <2>1 DEF TypeOK, HandlersHoldMessages, Sender, Begin
  <2>4. QED
    BY <1>1, <2>2, <2>3 DEF Begin, TypeOK
<1>2. CASE Debit(s)
  <2>1. row' \in [Messages -> Row]
    BY <1>2, <1>0, FailedRowsAreRows DEF Debit, TypeOK, BillingStatuses
  <2>2. /\ balance' \in Nat /\ book' \in [Messages -> Seq(Posting)]
        /\ paid' \in [Messages -> Int]
    BY <1>2, <1>0, PostingsKeepTypes DEF Debit, Sources
  <2>3. QED
    BY <1>2, <1>f, <2>1, <2>2, SenderKeepsTypes DEF Debit, TypeOK
<1>3. CASE MarkDebited(s)
  <2>1. row' \in [Messages -> Row]
    BY <1>3, <1>0 DEF MarkDebited, TypeOK, Row, BillingStatuses
  <2>2. QED
    BY <1>3, <2>1, SenderKeepsTypes DEF MarkDebited, TypeOK
<1>4. CASE CallMeta(s)
  <2>1. accepted' \in [Messages -> Pricing \union {None}]
    BY <1>4, <1>0, PricingAssumption DEF CallMeta, TypeOK
  <2>2. \A n \in Messages : accepted[n] # None => accepted'[n] # None
    BY <1>4, <1>0, PricingAssumption, NoneIsNoPricing DEF CallMeta, TypeOK
  <2>3. QED
    BY <1>4, <1>f, <2>1, <2>2, SenderKeepsTypes DEF CallMeta, TypeOK
<1>5. CASE Record(s)
  <2>1. row' \in [Messages -> Row]
    BY <1>5, <1>0 DEF Record, TypeOK, Row, Statuses, BillingStatuses
  <2>2. QED
    BY <1>5, <2>1, SenderKeepsTypes DEF Record, TypeOK
<1>6. CASE ReadUsage(s)
  BY <1>6, <1>0, <1>f, SenderKeepsTypes DEF ReadUsage, CountFails, TypeOK
<1>7. CASE WriteUsage(s)
  <2>1. usage' \in Nat
    BY <1>7 DEF WriteUsage, TypeOK, Sender
  <2>2. QED
    BY <1>7, <1>0, <1>f, <2>1, SenderKeepsTypes DEF WriteUsage, CountFails, TypeOK
<1>8. CASE Apply(s)
  <2>1. row' \in [Messages -> Row]
    BY <1>8, <1>0 DEF Apply, TypeOK, Row
  <2>2. QED
    BY <1>8, <2>1, SenderKeepsTypes DEF Apply, TypeOK
<1>9. CASE Refund(s)
  <2>1. /\ balance' \in Nat /\ book' \in [Messages -> Seq(Posting)]
        /\ paid' \in [Messages -> Int]
    BY <1>9, <1>0, PostingsKeepTypes DEF Refund
  <2>2. QED
    BY <1>9, <1>f, <2>1, SenderKeepsTypes DEF Refund, TypeOK
<1>10. CASE Fail(s)
  <2>1. row' \in [Messages -> Row]
    <3>1. PICK b \in BillingStatuses, d \in BOOLEAN, e \in BOOLEAN :
             row' = [row EXCEPT ![m] =
                        [row[m] EXCEPT !.status = "failed", !.amount = 0, !.billing = b,
                                       !.adjustment = d, !.reconciled = e]]
      <4>1. row[m].adjustment \in BOOLEAN /\ row[m].reconciled \in BOOLEAN
        BY <1>10, <1>0 DEF Fail, Row
      <4> DEFINE b == IF row[m].kind = "direct" THEN "free_failed"
                      ELSE IF sender[s].held = 1 THEN "refunded_failed_send"
                      ELSE "refund_pending"
                 d == row[m].adjustment \/ sender[s].held = 1
                 e == row[m].reconciled \/ sender[s].held = 1 \/ row[m].kind = "direct"
      <4>2. b \in BillingStatuses /\ d \in BOOLEAN /\ e \in BOOLEAN
        BY <4>1 DEF BillingStatuses
      <4>3. row' = [row EXCEPT ![m] =
                        [row[m] EXCEPT !.status = "failed", !.amount = 0, !.billing = b,
                                       !.adjustment = d, !.reconciled = e]]
        BY <1>10 DEF Fail
      <4> HIDE DEF b, d, e
      <4>4. QED
        BY <4>2, <4>3
    <3>2. m \in Messages /\ row[m] \in Row
      BY <1>10, <1>0 DEF Fail
    <3>3. [row[m] EXCEPT !.status = "failed", !.amount = 0, !.billing = b,
                         !.adjustment = d, !.reconciled = e] \in Row
      BY <3>2, FailedRowsAreRows
    <3>4. QED
      BY <3>1, <3>2, <3>3 DEF TypeOK
  <2>2. QED
    BY <1>10, <2>1, SenderKeepsTypes DEF Fail, TypeOK
<1>11. QED
  BY <1>1, <1>2, <1>3, <1>4, <1>5, <1>6, <1>7, <1>8, <1>9, <1>10 DEF Send

(* A webhook goes on or leaves.                                            *)
LEMMA HookKeepsTypes ==
    ASSUME TInv, NEW h \in Hooks, hook[h].pc # "idle",
           UNCHANGED <<sender, accepted>>,
           \/ HookLeave(h)
           \/ \E step \in {"update", "price", "write"}, copy \in Row : HookGoto(h, step, copy)
           \/ \E b \in BillingStatuses, cost \in Nat, moved \in BOOLEAN : Decide(h, b, cost, moved)
    PROVE  /\ hook' \in [Hooks -> Hook]
           /\ HandlersHoldMessages'
<1>1. ASSUME NEW x \in Hook, hook' = [hook EXCEPT ![h] = x],
             x.pc # "idle" => x.msg = hook[h].msg, x.moved => x.pc # "idle"
      PROVE  /\ hook' \in [Hooks -> Hook]
             /\ HandlersHoldMessages'
  BY <1>1 DEF TInv, TypeOK, HandlersHoldMessages
<1>2. CASE HookLeave(h)
  <2>1. IdleHook \in Hook /\ IdleHook.pc = "idle"
    BY DEF IdleHook, Hook, Absent, Row, Statuses, BillingStatuses, Kinds
  <2>2. ~ IdleHook.moved
    BY DEF IdleHook
  <2>3. QED
    BY <1>1, <1>2, <2>1, <2>2 DEF HookLeave
<1>3. CASE \E step \in {"update", "price", "write"}, copy \in Row : HookGoto(h, step, copy)
  <2>1. PICK step \in {"update", "price", "write"}, copy \in Row : HookGoto(h, step, copy)
    BY <1>3
  <2>2. hook' = [hook EXCEPT ![h] = [hook[h] EXCEPT !.pc = step, !.copy = copy]]
    BY <2>1 DEF HookGoto, TInv, TypeOK, Hook
  <2>3. /\ [hook[h] EXCEPT !.pc = step, !.copy = copy] \in Hook
        /\ [hook[h] EXCEPT !.pc = step, !.copy = copy].msg = hook[h].msg
        /\ [hook[h] EXCEPT !.pc = step, !.copy = copy].pc # "idle"
    BY DEF TInv, TypeOK, Hook
  <2>4. QED
    BY <1>1, <2>2, <2>3
<1>4. CASE \E b \in BillingStatuses, cost \in Nat, moved \in BOOLEAN : Decide(h, b, cost, moved)
  <2>1. PICK b \in BillingStatuses, cost \in Nat, moved \in BOOLEAN : Decide(h, b, cost, moved)
    BY <1>4
  <2> DEFINE x == [hook[h] EXCEPT !.pc = "write", !.billing = b, !.cost = cost,
                                  !.moved = moved]
  <2>2. hook' = [hook EXCEPT ![h] = x]
    BY <2>1 DEF Decide, TInv, TypeOK, Hook
  <2>3. x \in Hook /\ x.msg = hook[h].msg /\ x.pc # "idle"
    BY DEF TInv, TypeOK, Hook
  <2> HIDE DEF x
  <2>4. QED
    BY <1>1, <2>2, <2>3
<1>5. QED
  BY <1>2, <1>3, <1>4

(* What a webhook holds, and what it can write.                            *)
LEMMA HookValues ==
    ASSUME TInv, NEW h \in Hooks, hook[h].pc # "idle"
    PROVE  LET m == hook[h].msg
               copy == hook[h].copy
           IN  /\ m \in Messages /\ row[m] \in Row /\ copy \in Row
               /\ accepted[m] \in Pricing
               /\ ActualCategory(copy, accepted[m]) \in Categories \union {None}
               /\ hook[h].status \in Statuses /\ hook[h].cost \in Nat
               /\ hook[h].billing \in BillingStatuses /\ hook[h].moved \in BOOLEAN
               /\ EstimatedAmount(copy) \in Nat /\ ActualAmount(copy, accepted[m]) \in Nat
<1>1. /\ hook[h].msg \in Messages /\ accepted[hook[h].msg] # None
      /\ hook[h] \in Hook
  BY DEF TInv, TypeOK, HandlersHoldMessages
<1>2. row[hook[h].msg] \in Row /\ accepted[hook[h].msg] \in Pricing
  BY <1>1 DEF TInv, TypeOK
<1>3. /\ hook[h].copy \in Row /\ hook[h].status \in Statuses /\ hook[h].cost \in Nat
      /\ hook[h].billing \in BillingStatuses /\ hook[h].moved \in BOOLEAN
  BY <1>1 DEF Hook
<1>4. QED
  BY <1>1, <1>2, <1>3, AmountsAreNat, ActualsHaveTypes DEF TInv

(* Every step of a webhook keeps the types.                                *)
LEMMA WebhookKeepsTypes ==
    ASSUME TInv, NEW h \in Hooks, Webhook(h)
    PROVE  TInv'
<1> DEFINE m == hook[h].msg
           copy == hook[h].copy
<1> USE DEF TInv
<1>0. hook[h].pc # "idle" =>
        /\ m \in Messages /\ row[m] \in Row /\ copy \in Row
        /\ ActualCategory(copy, accepted[m]) \in Categories \union {None}
        /\ hook[h].status \in Statuses /\ hook[h].cost \in Nat
        /\ hook[h].billing \in BillingStatuses /\ hook[h].moved \in BOOLEAN
        /\ EstimatedAmount(copy) \in Nat /\ ActualAmount(copy, accepted[m]) \in Nat
  BY HookValues
<1>f. Fault \/ NoFault => faults' \in Nat
  BY DEF TypeOK, Fault, NoFault
<1>r. ASSUME NEW new \in Row, hook[h].pc # "idle",
             row' = [row EXCEPT ![m] = Assigned(@, copy, new)]
      PROVE  row' \in [Messages -> Row]
  BY <1>0, <1>r, AssignedIsRow DEF TypeOK
<1>1. CASE FindRow(h)
  <2>1. PICK n \in Messages, s \in Reported, priced \in BOOLEAN :
           /\ accepted[n] # None
           /\ hook' = [hook EXCEPT ![h] = [IdleHook EXCEPT !.pc = "update", !.msg = n,
                                                          !.status = s, !.priced = priced,
                                                          !.copy = row[n]]]
           /\ doubtful' \in {doubtful, doubtful \union {n}}
    BY <1>1 DEF FindRow
  <2> DEFINE x == [IdleHook EXCEPT !.pc = "update", !.msg = n, !.status = s,
                                   !.priced = priced, !.copy = row[n]]
  <2>2. row[n] \in Row /\ s \in Statuses
    BY ReportedAssumption DEF TypeOK, Statuses
  <2>3. x \in Hook /\ x.msg = n /\ x.pc # "idle"
    BY <2>2 DEF IdleHook, Hook, BillingStatuses
  <2> HIDE DEF x
  <2>4. hook' \in [Hooks -> Hook] /\ HandlersHoldMessages'
    BY <1>1, <2>1, <2>3 DEF TypeOK, HandlersHoldMessages, FindRow, x
  <2>5. reports' \in Nat
    BY <1>1 DEF FindRow, TypeOK
  <2>6. QED
    BY <1>1, <2>1, <2>4, <2>5 DEF FindRow, TypeOK
<1>2. CASE UpdateStatus(h)
  <2> DEFINE new == IF Forward(copy.status, hook[h].status)
                    THEN [copy EXCEPT !.status = hook[h].status] ELSE copy
  <2>1. new \in Row
    BY <1>2, <1>0 DEF UpdateStatus, HookAt, Row
  <2>2. row' \in [Messages -> Row]
    BY <1>2, <2>1, <1>r DEF UpdateStatus, HookAt
  <2>3. HookLeave(h) \/ HookGoto(h, "price", new)
    BY <1>2 DEF UpdateStatus
  <2> HIDE DEF new
  <2>4. hook' \in [Hooks -> Hook] /\ HandlersHoldMessages'
    BY <1>2, <2>1, <2>3, HookKeepsTypes DEF UpdateStatus, HookAt
  <2>5. QED
    BY <1>2, <2>2, <2>4 DEF UpdateStatus, TypeOK
<1>3. CASE SettleFree(h)
  <2> DEFINE new == [copy EXCEPT !.actual = ActualCategory(copy, accepted[m]), !.amount = 0,
                                 !.billing = "free", !.reconciled = TRUE]
  <2>1. new \in Row
    BY <1>3, <1>0 DEF SettleFree, HookAt, Row, BillingStatuses
  <2>2. row' \in [Messages -> Row]
    BY <1>3, <2>1, <1>r DEF SettleFree, HookAt
  <2>3. hook' \in [Hooks -> Hook] /\ HandlersHoldMessages'
    BY <1>3, HookKeepsTypes DEF SettleFree, HookAt
  <2>4. QED
    BY <1>3, <2>2, <2>3 DEF SettleFree, TypeOK
<1>4. CASE Reconcile(h)
  <2> DEFINE delta == EstimatedAmount(copy) - ActualAmount(copy, accepted[m])
  <2>0. hook[h].pc # "idle"
    BY <1>4 DEF Reconcile, HookAt
  <2>1. delta \in Int
    BY <1>0, <2>0
  <2>2. \/ NoPosting
        \/ delta > 0 /\ PostCredit(m, delta)
        \/ delta < 0 /\ PostDebit(m, "message_adjustment", -delta)
    BY <1>4 DEF Reconcile
  <2>3. \/ HookLeave(h)
        \/ \E b \in BillingStatuses, cost \in Nat, moved \in BOOLEAN : Decide(h, b, cost, moved)
    BY <1>4, <1>0, <2>0 DEF Reconcile, BillingStatuses
  <2>4. Fault \/ NoFault
    BY <1>4 DEF Reconcile
  <2>5. doubtful' \subseteq Messages
    BY <1>4, <1>0, <2>0 DEF Reconcile, TypeOK
  <2> HIDE DEF delta
  <2>6. /\ balance' \in Nat /\ book' \in [Messages -> Seq(Posting)]
        /\ paid' \in [Messages -> Int]
    BY <1>0, <2>0, <2>1, <2>2, PostingsKeepTypes DEF Sources
  <2>7. hook' \in [Hooks -> Hook] /\ HandlersHoldMessages'
    BY <1>4, <2>0, <2>3, HookKeepsTypes DEF Reconcile
  <2>8. QED
    BY <1>4, <1>f, <2>4, <2>5, <2>6, <2>7 DEF Reconcile, TypeOK
<1>5. CASE WriteBilling(h)
  <2> DEFINE new == [copy EXCEPT !.actual = ActualCategory(copy, accepted[m]),
                                 !.amount = hook[h].cost,
                                 !.billing = hook[h].billing,
                                 !.adjustment = copy.adjustment \/ hook[h].moved,
                                 !.reconciled = hook[h].billing # "adjustment_failed"]
  <2>1. new \in Row
    <3> DEFINE adjusted == copy.adjustment \/ hook[h].moved
               settled == hook[h].billing # "adjustment_failed"
               price == hook[h].cost
               c == ActualCategory(copy, accepted[m])
               b == hook[h].billing
    <3>1. new = [copy EXCEPT !.actual = c, !.amount = price, !.billing = b,
                             !.adjustment = adjusted, !.reconciled = settled]
      OBVIOUS
    <3>2. /\ copy \in Row /\ c \in Categories \union {None}
          /\ price \in Nat /\ b \in BillingStatuses
          /\ adjusted \in BOOLEAN /\ settled \in BOOLEAN
      BY <1>5, <1>0 DEF WriteBilling, HookAt
    <3> HIDE DEF new, adjusted, settled, price, c, b
    <3>3. QED
      BY <3>1, <3>2, BilledRowsAreRows
  <2>2. row' = [row EXCEPT ![m] = Assigned(@, copy, new)]
    BY <1>5 DEF WriteBilling
  <2> HIDE DEF new
  <2>3. row' \in [Messages -> Row]
    BY <1>5, <2>1, <2>2, <1>r DEF WriteBilling, HookAt
  <2>4. hook' \in [Hooks -> Hook] /\ HandlersHoldMessages'
    BY <1>5, HookKeepsTypes DEF WriteBilling, HookAt
  <2>5. QED
    BY <1>5, <2>3, <2>4 DEF WriteBilling, TypeOK
<1>6. QED
  BY <1>1, <1>2, <1>3, <1>4, <1>5 DEF Webhook

(* A crash keeps the types.                                                *)
LEMMA CrashKeepsTypes ==
    ASSUME TInv, Crash
    PROVE  TInv'
<1>1. IdleSender \in Sender /\ IdleHook \in Hook
  BY DEF IdleSender, Sender, IdleHook, Hook, Absent, Row, Statuses, BillingStatuses, Kinds
<1>2. /\ sender' \in [Senders -> Sender] /\ hook' \in [Hooks -> Hook]
      /\ HandlersHoldMessages'
  BY <1>1 DEF Crash, HandlersHoldMessages, IdleSender, IdleHook
<1>3. \A g \in Hooks : hook[g].moved => hook[g].msg \in Messages
  BY DEF TInv, HandlersHoldMessages
<1>4. QED
  BY <1>2, <1>3 DEF TInv, TypeOK, Crash, Fault

(* Another plan changes nothing but the price of what comes.               *)
LEMMA PlanLeavesAll ==
    ASSUME ChangePlan
    PROVE  UNCHANGED <<row, balance, book, paid, usage, accepted, sender, hook, doubtful,
                       reports>>
BY DEF ChangePlan

LEMMA StepTypes == TInv /\ [Next]_vars => TInv'
<1>1. TInv /\ UNCHANGED vars => TInv'
  BY DEF vars, TInv, TypeOK, HandlersHoldMessages
<1>2. TInv /\ ChangePlan => TInv'
  BY DEF ChangePlan, Fault, TInv, TypeOK, HandlersHoldMessages
<1>3. QED
  BY <1>1, <1>2, SendKeepsTypes, WebhookKeepsTypes, CrashKeepsTypes DEF Next

LEMMA AlwaysTyped == Spec => []TInv
BY InitTypes, StepTypes, PTL DEF Spec

(* The rows, the wallet, the usage and the handlers always have their      *)
(* types: the balance never falls below zero, a row only has statuses the  *)
(* code writes, and a handler holds a message of the table.                *)
THEOREM TypeCorrect == Spec => []TypeOK
<1>1. TInv => TypeOK
  BY DEF TInv
<1>2. QED
  BY <1>1, AlwaysTyped, PTL

-----------------------------------------------------------------------------
(* Where a send stands.                                                    *)

(* A message has one send.  Before Meta's answer the message is not        *)
(* accepted, after a good answer it is; a row nobody made has no posting.  *)
SendStages ==
    /\ \A s, t \in Senders :
          sender[s].pc # "idle" /\ sender[t].pc # "idle" /\ sender[s].msg = sender[t].msg
             => s = t
    /\ \A s \in Senders :
          /\ sender[s].pc # "idle" => row[sender[s].msg].status # "absent"
          /\ sender[s].pc \in {"debit", "mark", "meta"} => accepted[sender[s].msg] = None
          /\ sender[s].pc \in {"record", "count", "increment"}
                => accepted[sender[s].msg] # None
          /\ sender[s].pc = "debit" => book[sender[s].msg] = <<>>
    /\ \A m \in Messages :
          row[m].status = "absent" => book[m] = <<>> /\ accepted[m] = None

(* The first posting of a message took its estimate.                       *)
PaidFirst(m) ==
    /\ book[m] # <<>>
    /\ book[m][1] = <<"message_debit", EstimatedAmount(row[m])>>

(* A send is past its debit only when it was paid for, or costs nothing.   *)
PaidSends ==
    /\ SentIsPaid
    /\ \A s \in Senders, m \in Messages :
          (sender[s].pc \in {"mark", "meta"} /\ sender[s].msg = m
              /\ EstimatedAmount(row[m]) > 0) => PaidFirst(m)

(* A posting of this kind was made for the message.                        *)
Posted(m, source) == \E i \in DOMAIN book[m] : book[m][i][1] = source

(* The transactions a row names.                                           *)
RowNamed(m) ==
    /\ row[m].debit => Posted(m, "message_debit")
    /\ row[m].adjustment => Posted(m, "message_refund") \/ Posted(m, "message_adjustment")
    /\ row[m].billing = "refunded_failed_send" => Posted(m, "message_refund")
    /\ row[m].billing = "adjusted" => Posted(m, "message_adjustment")

(* What a handler is about to write on a row names postings too.           *)
HandlersNamePostings ==
    /\ \A s \in Senders, m \in Messages : sender[s].msg = m =>
          /\ sender[s].pc = "mark" => Posted(m, "message_debit")
          /\ sender[s].pc = "fail" /\ sender[s].held = 1 => Posted(m, "message_refund")
    /\ \A h \in Hooks, m \in Messages : hook[h].pc = "write" /\ hook[h].msg = m =>
          /\ hook[h].billing \in {"reconciled", "adjusted", "adjustment_failed"}
          /\ hook[h].moved => \/ Posted(m, "message_refund")
                              \/ Posted(m, "message_adjustment")
          /\ hook[h].billing = "adjusted" => Posted(m, "message_adjustment")

(* The accepted messages that no send still has to count.                  *)
Uncounted == {sender[s].msg : s \in {t \in Senders :
                 sender[t].pc \in {"record", "count", "increment"}}}
Countable == {m \in Messages : accepted[m] # None} \ Uncounted

(* Neither the usage nor a copy of it about to be written back is more     *)
(* than these messages.                                                    *)
UsageBounded ==
    /\ usage <= Cardinality(Countable)
    /\ \A s \in Senders : sender[s].pc = "increment"
                             => sender[s].held <= Cardinality(Countable)

-----------------------------------------------------------------------------
(* What a step leaves alone.                                               *)

LEMMA GotoValues ==
    ASSUME TInv, NEW s \in Senders, NEW step, NEW held, Goto(s, step, held)
    PROVE  /\ sender'[s].pc = step /\ sender'[s].held = held
           /\ sender'[s].msg = sender[s].msg
           /\ \A t \in Senders : t # s => sender'[t] = sender[t]
BY DEF Goto, TInv, TypeOK, Sender

LEMMA LeaveValues ==
    ASSUME TInv, NEW s \in Senders, Leave(s)
    PROVE  /\ sender'[s].pc = "idle"
           /\ \A t \in Senders : t # s => sender'[t] = sender[t]
BY DEF Leave, TInv, TypeOK, IdleSender

(* A posting of a message is appended to its own book.                     *)
LEMMA PostingValues ==
    ASSUME TInv, NEW m \in Messages, NEW source, NEW amount,
           \/ PostDebit(m, source, amount)
           \/ PostCredit(m, amount) /\ source = "message_refund"
    PROVE  /\ book'[m] = Append(book[m], <<source, amount>>)
           /\ \A n \in Messages : n # m => book'[n] = book[n]
BY DEF PostDebit, PostCredit, TInv, TypeOK

(* A send that goes on holds its message.                                  *)
LEMMA SendMoves ==
    ASSUME TInv, NEW s \in Senders, Send(s), ~ Begin(s)
    PROVE  /\ sender[s].pc # "idle" /\ sender[s].msg \in Messages
           /\ \A t \in Senders : t # s => sender'[t] = sender[t]
           /\ sender'[s].pc # "idle" => sender'[s].msg = sender[s].msg
           /\ UNCHANGED hook
<1>1. sender[s].pc # "idle" /\ UNCHANGED hook
  BY DEF Send, Debit, MarkDebited, CallMeta, Record, ReadUsage, WriteUsage, Apply,
         Refund, Fail
<1>2. Leave(s) \/ \E step, held : Goto(s, step, held)
  BY DEF Send, Debit, MarkDebited, CallMeta, Record, ReadUsage, WriteUsage, Apply,
         Refund, Fail, CountFails
<1>3. QED
  BY <1>1, <1>2, GotoValues, LeaveValues DEF TInv, HandlersHoldMessages

(* A new send takes an absent row.                                         *)
LEMMA BeginValues ==
    ASSUME TInv, NEW s \in Senders, Begin(s)
    PROVE  \E m \in Messages, kind \in Kinds, c \in Categories \union {None} :
              /\ sender[s].pc = "idle"
              /\ row[m].status = "absent"
              /\ row'[m] = NewRow(kind, c) /\ row'[m] \in Row
              /\ \A n \in Messages : n # m => row'[n] = row[n]
              /\ sender'[s].msg = m
              /\ sender'[s].pc = IF EstimatedAmount(row'[m]) > 0 THEN "debit" ELSE "meta"
              /\ \A t \in Senders : t # s => sender'[t] = sender[t]
<1>1. PICK m \in Messages, kind \in Kinds, c \in Categories \union {None} :
        /\ sender[s].pc = "idle"
        /\ row[m].status = "absent"
        /\ row' = [row EXCEPT ![m] = NewRow(kind, c)]
        /\ sender' = [sender EXCEPT ![s] =
             [pc |-> IF EstimatedAmount(NewRow(kind, c)) > 0 THEN "debit" ELSE "meta",
              msg |-> m, held |-> 0]]
  BY DEF Begin
<1>2. row'[m] = NewRow(kind, c) /\ \A n \in Messages : n # m => row'[n] = row[n]
  BY <1>1 DEF TInv, TypeOK
<1>3. /\ sender'[s].msg = m
      /\ sender'[s].pc = IF EstimatedAmount(NewRow(kind, c)) > 0 THEN "debit" ELSE "meta"
      /\ \A t \in Senders : t # s => sender'[t] = sender[t]
  BY <1>1 DEF TInv, TypeOK
<1>4. NewRow(kind, c) \in Row
  BY NewRowIsRow DEF TInv
<1>5. QED
  BY <1>1, <1>2, <1>3, <1>4

(* A send changes only the row of its message, of which it keeps the       *)
(* estimate; an existing row never becomes absent.                         *)
LEMMA SendRows ==
    ASSUME TInv, NEW s \in Senders, Send(s), ~ Begin(s)
    PROVE  /\ \A m \in Messages : m # sender[s].msg => row'[m] = row[m]
           /\ row'[sender[s].msg].estimated = row[sender[s].msg].estimated
           /\ row'[sender[s].msg].estimate = row[sender[s].msg].estimate
           /\ row[sender[s].msg].status # "absent" => row'[sender[s].msg].status # "absent"
<1> DEFINE m == sender[s].msg
<1>1. m \in Messages /\ row[m] \in Row /\ row \in [Messages -> Row]
  BY SendMoves DEF TInv, TypeOK
<1> HIDE DEF m
<1> USE <1>1
<1>2. CASE UNCHANGED row
  BY <1>2 DEF m
<1>3. CASE row' = [row EXCEPT ![m] = DebitFailed(@)]
  BY <1>3 DEF DebitFailed, Row, m
<1>4. CASE MarkDebited(s)
  BY <1>4 DEF MarkDebited, Row, m
<1>5. CASE Record(s)
  BY <1>5 DEF Record, Row, m
<1>6. CASE Apply(s)
  BY <1>6 DEF Apply, Row, m
<1>7. CASE Fail(s)
  BY <1>7 DEF Fail, Row, m
<1>8. QED
  BY <1>2, <1>3, <1>4, <1>5, <1>6, <1>7
     DEF Send, Debit, CallMeta, ReadUsage, WriteUsage, Refund, m

(* A send posts on its own message only.                                   *)
LEMMA SendBooks ==
    ASSUME TInv, NEW s \in Senders, Send(s), ~ Begin(s)
    PROVE  /\ \A m \in Messages : m # sender[s].msg => book'[m] = book[m]
           /\ \/ book'[sender[s].msg] = book[sender[s].msg]
              \/ \E p \in Posting : book'[sender[s].msg] = Append(book[sender[s].msg], p)
<1> DEFINE m == sender[s].msg
           amount == EstimatedAmount(row[m])
<1>1. m \in Messages /\ amount \in Nat
  BY SendMoves, AmountsAreNat DEF TInv, TypeOK
<1>2. \/ UNCHANGED book
      \/ PostDebit(m, "message_debit", amount)
      \/ PostCredit(m, amount)
  BY DEF Send, Debit, MarkDebited, CallMeta, Record, ReadUsage, WriteUsage, Apply,
         Refund, Fail, NoPosting
<1>3. <<"message_debit", amount>> \in Posting /\ <<"message_refund", amount>> \in Posting
  BY <1>1 DEF Posting, Sources
<1> HIDE DEF m, amount
<1>4. /\ \A n \in Messages : n # m => book'[n] = book[n]
      /\ \/ book'[m] = book[m]
         \/ \E p \in Posting : book'[m] = Append(book[m], p)
  BY <1>1, <1>2, <1>3, PostingValues
<1>5. QED
  BY <1>4 DEF m

(* A webhook changes only the row of its message, of which it keeps the    *)
(* estimate; an existing row never becomes absent.                         *)
LEMMA WebhookRows ==
    ASSUME TInv, NEW h \in Hooks, Webhook(h)
    PROVE  \A m \in Messages :
              /\ row'[m].estimated = row[m].estimated
              /\ row'[m].estimate = row[m].estimate
              /\ row[m].status # "absent" => row'[m].status # "absent"
              /\ row[m].status = "absent" /\ accepted[m] = None => row'[m] = row[m]
<1> DEFINE m == hook[h].msg
           copy == hook[h].copy
<1>1. ASSUME NEW new \in Row, hook[h].pc # "idle",
             row' = [row EXCEPT ![m] = Assigned(@, copy, new)],
             new.estimated = copy.estimated /\ new.estimate = copy.estimate,
             new.status = copy.status \/ new.status # "absent"
      PROVE  \A n \in Messages :
                /\ row'[n].estimated = row[n].estimated
                /\ row'[n].estimate = row[n].estimate
                /\ row[n].status # "absent" => row'[n].status # "absent"
                /\ row[n].status = "absent" /\ accepted[n] = None => row'[n] = row[n]
  <2>1. /\ m \in Messages /\ row[m] \in Row /\ copy \in Row /\ accepted[m] # None
        /\ row \in [Messages -> Row]
    BY <1>1, HookValues DEF TInv, TypeOK, HandlersHoldMessages
  <2> HIDE DEF m, copy
  <2> DEFINE r == Assigned(row[m], copy, new)
  <2>2. /\ r.estimated = (IF new.estimated = copy.estimated
                          THEN row[m].estimated ELSE new.estimated)
        /\ r.estimate = (IF new.estimate = copy.estimate
                         THEN row[m].estimate ELSE new.estimate)
        /\ r.status = (IF new.status = copy.status THEN row[m].status ELSE new.status)
    BY <2>1, AssignedIsRow
  <2>3. row' = [row EXCEPT ![m] = r]
    BY <1>1
  <2> HIDE DEF r
  <2>4. QED
    BY <1>1, <2>1, <2>2, <2>3
<1>2. CASE UNCHANGED row
  BY <1>2
<1>3. CASE UpdateStatus(h)
  <2> DEFINE new == IF Forward(copy.status, hook[h].status)
                    THEN [copy EXCEPT !.status = hook[h].status] ELSE copy
  <2>0. hook[h].pc # "idle"
    BY <1>3 DEF UpdateStatus, HookAt
  <2>1. copy \in Row /\ hook[h].status \in Statuses
    BY <2>0, HookValues
  <2>2. ~ Forward(copy.status, "absent")
    BY <2>1 DEF Forward, Order, Row, Statuses
  <2>3. /\ new \in Row /\ new.estimated = copy.estimated
        /\ new.estimate = copy.estimate
        /\ new.status = copy.status \/ new.status # "absent"
    BY <2>1, <2>2 DEF Row
  <2>4. row' = [row EXCEPT ![m] = Assigned(@, copy, new)]
    BY <1>3 DEF UpdateStatus
  <2> HIDE DEF new, m, copy
  <2>5. QED
    BY <1>1, <2>0, <2>3, <2>4
<1>4. CASE SettleFree(h)
  <2> DEFINE new == [copy EXCEPT !.actual = ActualCategory(copy, accepted[m]), !.amount = 0,
                                 !.billing = "free", !.reconciled = TRUE]
  <2>0. hook[h].pc # "idle"
    BY <1>4 DEF SettleFree, HookAt
  <2>1. copy \in Row /\ ActualCategory(copy, accepted[m]) \in Categories \union {None}
    BY <2>0, HookValues
  <2>2. /\ new \in Row /\ new.estimated = copy.estimated
        /\ new.estimate = copy.estimate /\ new.status = copy.status
    BY <2>1 DEF Row, BillingStatuses
  <2>3. row' = [row EXCEPT ![m] = Assigned(@, copy, new)]
    BY <1>4 DEF SettleFree
  <2> HIDE DEF new, m, copy
  <2>4. QED
    BY <1>1, <2>0, <2>2, <2>3
<1>5. CASE WriteBilling(h)
  <2> DEFINE new == [copy EXCEPT !.actual = ActualCategory(copy, accepted[m]),
                                 !.amount = hook[h].cost,
                                 !.billing = hook[h].billing,
                                 !.adjustment = copy.adjustment \/ hook[h].moved,
                                 !.reconciled = hook[h].billing # "adjustment_failed"]
  <2>0. hook[h].pc # "idle"
    BY <1>5 DEF WriteBilling, HookAt
  <2>1. /\ copy \in Row /\ ActualCategory(copy, accepted[m]) \in Categories \union {None}
        /\ hook[h].billing \in BillingStatuses /\ hook[h].moved \in BOOLEAN
        /\ hook[h].cost \in Nat
    BY <2>0, HookValues
  <2>2. /\ new \in Row /\ new.estimated = copy.estimated
        /\ new.estimate = copy.estimate /\ new.status = copy.status
    <3> DEFINE category == ActualCategory(copy, accepted[m])
               moved == copy.adjustment \/ hook[h].moved
               settled == hook[h].billing # "adjustment_failed"
    <3>1. moved \in BOOLEAN /\ settled \in BOOLEAN
      BY <2>1 DEF Row
    <3> HIDE DEF copy, category, moved, settled
    <3>2. new \in Row
      BY <2>1, <3>1, BilledRowsAreRows DEF category
    <3>3. /\ new.estimated = copy.estimated
          /\ new.estimate = copy.estimate /\ new.status = copy.status
      BY <2>1 DEF Row
    <3>4. QED
      BY <3>2, <3>3
  <2>3. row' = [row EXCEPT ![m] = Assigned(@, copy, new)]
    BY <1>5 DEF WriteBilling
  <2> HIDE DEF new, m, copy
  <2>4. QED
    BY <1>1, <2>0, <2>2, <2>3
<1>6. QED
  BY <1>2, <1>3, <1>4, <1>5 DEF Webhook, FindRow, Reconcile

(* A webhook posts on its own message, which Meta had accepted.            *)
LEMMA WebhookBooks ==
    ASSUME TInv, NEW h \in Hooks, Webhook(h)
    PROVE  /\ UNCHANGED <<sender, accepted, usage>>
           /\ \A m \in Messages :
                 \/ book'[m] = book[m]
                 \/ /\ accepted[m] # None
                    /\ \E p \in Posting : book'[m] = Append(book[m], p)
<1> DEFINE m == hook[h].msg
           delta == EstimatedAmount(hook[h].copy)
                      - ActualAmount(hook[h].copy, accepted[m])
<1>1. UNCHANGED <<sender, accepted, usage>>
  BY DEF Webhook, FindRow, UpdateStatus, SettleFree, Reconcile, WriteBilling
<1>2. CASE UNCHANGED book
  BY <1>1, <1>2
<1>3. ASSUME hook[h].pc # "idle",
             \/ delta > 0 /\ PostCredit(m, delta)
             \/ delta < 0 /\ PostDebit(m, "message_adjustment", -delta)
      PROVE  \A n \in Messages :
                 \/ book'[n] = book[n]
                 \/ /\ accepted[n] # None
                    /\ \E p \in Posting : book'[n] = Append(book[n], p)
  <2>1. m \in Messages /\ accepted[m] # None /\ delta \in Int
    BY <1>3, HookValues DEF TInv, HandlersHoldMessages
  <2>2. /\ delta > 0 => <<"message_refund", delta>> \in Posting
        /\ delta < 0 => <<"message_adjustment", -delta>> \in Posting
    BY <2>1 DEF Posting, Sources
  <2> HIDE DEF m, delta
  <2>3. QED
    BY <1>3, <2>1, <2>2, PostingValues
<1>4. QED
  BY <1>1, <1>2, <1>3
     DEF Webhook, FindRow, UpdateStatus, SettleFree, Reconcile, WriteBilling, NoPosting, HookAt

-----------------------------------------------------------------------------
(* The stages of a send.                                                   *)

LEMMA InitStages == Init => SendStages
BY DEF Init, SendStages, IdleSender

(* What a step of a send does to Meta's answer, by the stage it leaves.    *)
LEMMA SendAnswers ==
    ASSUME TInv, NEW s \in Senders, Send(s), ~ Begin(s)
    PROVE  /\ \A m \in Messages : m # sender[s].msg => accepted'[m] = accepted[m]
           /\ sender'[s].pc # "debit"
           /\ sender'[s].pc \in {"mark", "meta"}
                 => sender[s].pc \in {"debit", "mark"} /\ UNCHANGED accepted
           /\ sender'[s].pc \in {"record", "count", "increment"}
                 => \/ accepted'[sender[s].msg] # None
                    \/ /\ sender[s].pc \in {"record", "count", "increment"}
                       /\ UNCHANGED accepted
           /\ sender[s].pc # "meta" => UNCHANGED accepted
<1> DEFINE m == sender[s].msg
<1>0. m \in Messages
  BY SendMoves
<1> HIDE DEF m
<1>1. CASE Debit(s)
  <2>1. UNCHANGED accepted /\ sender[s].pc = "debit"
    BY <1>1 DEF Debit
  <2>2. Leave(s) \/ Goto(s, "mark", 0)
    BY <1>1 DEF Debit
  <2>3. QED
    BY <2>1, <2>2, LeaveValues, GotoValues
<1>2. CASE MarkDebited(s)
  BY <1>2, GotoValues DEF MarkDebited
<1>3. CASE CallMeta(s)
  <2>1. \/ Goto(s, "refund", 0) /\ UNCHANGED accepted
        \/ \E p \in Pricing : /\ accepted' = [accepted EXCEPT ![m] = p]
                              /\ Goto(s, "record", 0) \/ Goto(s, "refund", 0)
    BY <1>3, PricingAssumption DEF CallMeta, m
  <2>2. CASE Goto(s, "refund", 0) /\ UNCHANGED accepted
    BY <2>2, GotoValues
  <2>3. ASSUME NEW p \in Pricing, accepted' = [accepted EXCEPT ![m] = p],
               Goto(s, "record", 0) \/ Goto(s, "refund", 0)
        PROVE  /\ \A n \in Messages : n # m => accepted'[n] = accepted[n]
               /\ accepted'[m] # None
               /\ sender'[s].pc \in {"record", "refund"}
    BY <1>0, <2>3, GotoValues, NoneIsNoPricing DEF TInv, TypeOK
  <2>4. sender[s].pc = "meta"
    BY <1>3 DEF CallMeta
  <2>5. QED
    BY <2>1, <2>2, <2>3, <2>4 DEF m
<1>4. CASE Record(s)
  BY <1>4, GotoValues DEF Record
<1>5. CASE ReadUsage(s)
  <2>1. /\ UNCHANGED accepted /\ sender[s].pc = "count"
        /\ Goto(s, "increment", usage) \/ Goto(s, "refund", 0)
    BY <1>5 DEF ReadUsage, CountFails
  <2>2. QED
    BY <2>1, GotoValues
<1>6. CASE WriteUsage(s)
  <2>1. /\ UNCHANGED accepted /\ sender[s].pc = "increment"
        /\ Goto(s, "apply", 0) \/ Goto(s, "refund", 0)
    BY <1>6 DEF WriteUsage, CountFails
  <2>2. QED
    BY <2>1, GotoValues
<1>7. CASE Apply(s)
  BY <1>7, LeaveValues DEF Apply
<1>8. CASE Refund(s)
  <2>1. /\ UNCHANGED accepted /\ sender[s].pc = "refund"
        /\ Goto(s, "fail", 1) \/ Goto(s, "fail", 0)
    BY <1>8 DEF Refund
  <2>2. QED
    BY <2>1, GotoValues
<1>9. CASE Fail(s)
  BY <1>9, LeaveValues DEF Fail
<1>10. QED
  BY <1>1, <1>2, <1>3, <1>4, <1>5, <1>6, <1>7, <1>8, <1>9 DEF Send

LEMMA SendKeepsStages ==
    ASSUME TInv, SendStages, NEW s \in Senders, Send(s)
    PROVE  SendStages'
<1>1. CASE Begin(s)
  <2>1. PICK m \in Messages, kind \in Kinds, c \in Categories \union {None} :
              /\ sender[s].pc = "idle"
              /\ row[m].status = "absent"
              /\ row'[m] = NewRow(kind, c) /\ row'[m] \in Row
              /\ \A n \in Messages : n # m => row'[n] = row[n]
              /\ sender'[s].msg = m
              /\ sender'[s].pc = IF EstimatedAmount(row'[m]) > 0 THEN "debit" ELSE "meta"
              /\ \A t \in Senders : t # s => sender'[t] = sender[t]
    BY <1>1, BeginValues
  <2>2. row'[m].status = "pending"
    <3>1. NewRow(kind, c).status = "pending"
      BY NewRowIsRow DEF TInv
    <3>2. QED
      BY <2>1, <3>1
  <2>3. UNCHANGED <<book, accepted>>
    BY <1>1 DEF Begin
  <2>4. book[m] = <<>> /\ accepted[m] = None
    BY <2>1 DEF SendStages
  <2>5. \A t \in Senders : sender[t].pc # "idle" => sender[t].msg # m
    BY <2>1 DEF SendStages
  <2>6. \A t \in Senders : sender[t].pc # "idle" => sender[t].msg \in Messages
    BY DEF TInv, HandlersHoldMessages
  <2>7. \A t, u \in Senders :
          sender'[t].pc # "idle" /\ sender'[u].pc # "idle" /\ sender'[t].msg = sender'[u].msg
             => t = u
    BY <2>1, <2>5 DEF SendStages
  <2>8. \A t \in Senders :
          /\ sender'[t].pc # "idle" => row'[sender'[t].msg].status # "absent"
          /\ sender'[t].pc \in {"debit", "mark", "meta"} => accepted'[sender'[t].msg] = None
          /\ sender'[t].pc \in {"record", "count", "increment"}
                => accepted'[sender'[t].msg] # None
          /\ sender'[t].pc = "debit" => book'[sender'[t].msg] = <<>>
    <3>1. ASSUME NEW t \in Senders, t # s
          PROVE  /\ sender'[t].pc # "idle" => row'[sender'[t].msg].status # "absent"
                 /\ sender'[t].pc \in {"debit", "mark", "meta"}
                       => accepted'[sender'[t].msg] = None
                 /\ sender'[t].pc \in {"record", "count", "increment"}
                       => accepted'[sender'[t].msg] # None
                 /\ sender'[t].pc = "debit" => book'[sender'[t].msg] = <<>>
      BY <2>1, <2>3, <2>5, <2>6, <3>1 DEF SendStages
    <3>2. /\ sender'[s].msg = m /\ sender'[s].pc \in {"debit", "meta"}
          /\ row'[m].status # "absent" /\ accepted'[m] = None /\ book'[m] = <<>>
      BY <2>1, <2>2, <2>3, <2>4
    <3>3. QED
      BY <3>1, <3>2
  <2>9. \A n \in Messages :
          row'[n].status = "absent" => book'[n] = <<>> /\ accepted'[n] = None
    BY <2>1, <2>2, <2>3 DEF SendStages
  <2>10. QED
    BY <2>7, <2>8, <2>9 DEF SendStages
<1>2. CASE ~ Begin(s)
  <2> DEFINE m == sender[s].msg
  <2>1. /\ sender[s].pc # "idle" /\ m \in Messages
        /\ \A t \in Senders : t # s => sender'[t] = sender[t]
        /\ sender'[s].pc # "idle" => sender'[s].msg = m
    BY <1>2, SendMoves
  <2>2. /\ \A n \in Messages : n # m => row'[n] = row[n]
        /\ row[m].status # "absent" => row'[m].status # "absent"
    BY <1>2, SendRows
  <2>3. \A n \in Messages : n # m => book'[n] = book[n]
    BY <1>2, SendBooks
  <2>4. /\ \A n \in Messages : n # m => accepted'[n] = accepted[n]
        /\ sender'[s].pc # "debit"
        /\ sender'[s].pc \in {"mark", "meta"}
              => sender[s].pc \in {"debit", "mark"} /\ UNCHANGED accepted
        /\ sender'[s].pc \in {"record", "count", "increment"}
              => \/ accepted'[m] # None
                 \/ sender[s].pc \in {"record", "count", "increment"} /\ UNCHANGED accepted
    BY <1>2, SendAnswers
  <2>5. /\ row[m].status # "absent"
        /\ \A t \in Senders : t # s /\ sender[t].pc # "idle" => sender[t].msg # m
        /\ \A t \in Senders : sender[t].pc # "idle" => sender[t].msg \in Messages
    BY <2>1 DEF SendStages, TInv, HandlersHoldMessages
  <2> HIDE DEF m
  <2>6. \A t, u \in Senders :
          sender'[t].pc # "idle" /\ sender'[u].pc # "idle" /\ sender'[t].msg = sender'[u].msg
             => t = u
    BY <2>1, <2>5 DEF SendStages
  <2>7. ASSUME NEW t \in Senders, t # s
        PROVE  /\ sender'[t].pc # "idle" => row'[sender'[t].msg].status # "absent"
               /\ sender'[t].pc \in {"debit", "mark", "meta"}
                     => accepted'[sender'[t].msg] = None
               /\ sender'[t].pc \in {"record", "count", "increment"}
                     => accepted'[sender'[t].msg] # None
               /\ sender'[t].pc = "debit" => book'[sender'[t].msg] = <<>>
    BY <2>1, <2>2, <2>3, <2>4, <2>5, <2>7 DEF SendStages
  <2>8. /\ sender'[s].pc # "idle" => row'[sender'[s].msg].status # "absent"
        /\ sender'[s].pc \in {"debit", "mark", "meta"} => accepted'[sender'[s].msg] = None
        /\ sender'[s].pc \in {"record", "count", "increment"}
              => accepted'[sender'[s].msg] # None
        /\ sender'[s].pc = "debit" => book'[sender'[s].msg] = <<>>
    BY <2>1, <2>2, <2>4, <2>5 DEF SendStages, m
  <2>9. \A n \in Messages :
          row'[n].status = "absent" => book'[n] = <<>> /\ accepted'[n] = None
    BY <2>2, <2>3, <2>4, <2>5 DEF SendStages
  <2>10. \A t \in Senders :
          /\ sender'[t].pc # "idle" => row'[sender'[t].msg].status # "absent"
          /\ sender'[t].pc \in {"debit", "mark", "meta"} => accepted'[sender'[t].msg] = None
          /\ sender'[t].pc \in {"record", "count", "increment"}
                => accepted'[sender'[t].msg] # None
          /\ sender'[t].pc = "debit" => book'[sender'[t].msg] = <<>>
    BY <2>7, <2>8
  <2>11. QED
    BY <2>6, <2>9, <2>10 DEF SendStages
<1>3. QED
  BY <1>1, <1>2

LEMMA WebhookKeepsStages ==
    ASSUME TInv, SendStages, NEW h \in Hooks, Webhook(h)
    PROVE  SendStages'
<1>1. /\ UNCHANGED <<sender, accepted>>
      /\ \A m \in Messages :
            \/ book'[m] = book[m]
            \/ accepted[m] # None
  BY WebhookBooks
<1>2. \A m \in Messages :
        /\ row[m].status # "absent" => row'[m].status # "absent"
        /\ row[m].status = "absent" /\ accepted[m] = None => row'[m] = row[m]
  BY WebhookRows
<1>3. \A s \in Senders : sender[s].pc # "idle" => sender[s].msg \in Messages
  BY DEF TInv, HandlersHoldMessages
<1>4. \A s \in Senders :
        /\ sender'[s].pc # "idle" => row'[sender'[s].msg].status # "absent"
        /\ sender'[s].pc = "debit" => book'[sender'[s].msg] = <<>>
  BY <1>1, <1>2, <1>3 DEF SendStages
<1>5. \A m \in Messages :
        row'[m].status = "absent" => book'[m] = <<>> /\ accepted'[m] = None
  BY <1>1, <1>2 DEF SendStages
<1>6. QED
  BY <1>1, <1>4, <1>5 DEF SendStages

LEMMA StepStages == TInv /\ SendStages /\ [Next]_vars => SendStages'
<1>1. SendStages /\ UNCHANGED vars => SendStages'
  BY DEF vars, SendStages
<1>2. SendStages /\ Crash => SendStages'
  BY DEF SendStages, Crash, IdleSender
<1>3. SendStages /\ ChangePlan => SendStages'
  BY PlanLeavesAll DEF SendStages
<1>4. QED
  BY <1>1, <1>2, <1>3, SendKeepsStages, WebhookKeepsStages DEF Next

LEMMA AlwaysStaged == Spec => []SendStages
BY InitStages, StepStages, AlwaysTyped, PTL DEF Spec

-----------------------------------------------------------------------------
(* A message goes out paid for.                                            *)

(* An appended posting leaves the first one.                               *)
LEMMA FirstStays ==
    ASSUME TypeOK, NEW m \in Messages, book[m] # <<>>,
           book'[m] = book[m] \/ \E p \in Posting : book'[m] = Append(book[m], p)
    PROVE  book'[m] # <<>> /\ book'[m][1] = book[m][1]
<1>1. book[m] \in Seq(Posting)
  BY DEF TypeOK
<1>2. ASSUME NEW p \in Posting
      PROVE  Append(book[m], p) # <<>> /\ Append(book[m], p)[1] = book[m][1]
  BY <1>1
<1>3. QED
  BY <1>2

(* The estimate of a row stays in its column.                              *)
LEMMA EstimateStays ==
    ASSUME NEW w, NEW v, w.estimate = v.estimate
    PROVE  EstimatedAmount(w) = EstimatedAmount(v)
BY DEF EstimatedAmount

(* A paid message stays paid in every step of the system.                  *)
LEMMA PaidStays ==
    ASSUME TInv, NEW m \in Messages, PaidFirst(m),
           book'[m] = book[m] \/ \E p \in Posting : book'[m] = Append(book[m], p),
           row'[m].estimate = row[m].estimate
    PROVE  PaidFirst(m)'
BY FirstStays, EstimateStays DEF PaidFirst, TInv

LEMMA SendKeepsPaid ==
    ASSUME TInv, SendStages, PaidSends, NEW s \in Senders, Send(s)
    PROVE  PaidSends'
<1>1. CASE Begin(s)
  <2>1. PICK m \in Messages, kind \in Kinds, c \in Categories \union {None} :
              /\ sender[s].pc = "idle"
              /\ row[m].status = "absent"
              /\ row'[m] = NewRow(kind, c) /\ row'[m] \in Row
              /\ \A n \in Messages : n # m => row'[n] = row[n]
              /\ sender'[s].msg = m
              /\ sender'[s].pc = IF EstimatedAmount(row'[m]) > 0 THEN "debit" ELSE "meta"
              /\ \A t \in Senders : t # s => sender'[t] = sender[t]
    BY <1>1, BeginValues
  <2>2. UNCHANGED <<book, accepted>>
    BY <1>1 DEF Begin
  <2>3. accepted[m] = None /\ \A t \in Senders : sender[t].pc # "idle" => sender[t].msg # m
    BY <2>1 DEF SendStages
  <2>4. SentIsPaid'
    BY <2>1, <2>2, <2>3 DEF PaidSends, SentIsPaid
  <2>5. ASSUME NEW t \in Senders, NEW n \in Messages,
               sender'[t].pc \in {"mark", "meta"}, sender'[t].msg = n,
               EstimatedAmount(row'[n]) > 0
        PROVE  PaidFirst(n)'
    <3>1. t # s
      BY <2>1, <2>5
    <3>2. sender'[t] = sender[t] /\ n # m
      BY <3>1, <2>1, <2>3, <2>5
    <3>3. PaidFirst(n)
      BY <3>2, <2>1, <2>5 DEF PaidSends
    <3>4. QED
      BY <3>2, <3>3, <2>1, <2>2 DEF PaidFirst
  <2>6. QED
    BY <2>4, <2>5 DEF PaidSends
<1>2. CASE ~ Begin(s)
  <2>0. PICK m \in Messages : m = sender[s].msg
    BY <1>2, SendMoves
  <2>a. PICK amount : amount = EstimatedAmount(row[m])
    OBVIOUS
  <2>1. /\ sender[s].pc # "idle"
        /\ \A t \in Senders : t # s => sender'[t] = sender[t]
        /\ sender'[s].pc # "idle" => sender'[s].msg = m
    BY <1>2, <2>0, SendMoves
  <2>2. /\ \A n \in Messages : n # m => row'[n] = row[n]
        /\ row'[m].estimated = row[m].estimated
        /\ row'[m].estimate = row[m].estimate
    BY <1>2, <2>0, SendRows
  <2>3. /\ \A n \in Messages : n # m => book'[n] = book[n]
        /\ book'[m] = book[m] \/ \E p \in Posting : book'[m] = Append(book[m], p)
    BY <1>2, <2>0, SendBooks
  <2>4. /\ \A n \in Messages : n # m => accepted'[n] = accepted[n]
        /\ sender'[s].pc \in {"mark", "meta"} => sender[s].pc \in {"debit", "mark"}
        /\ sender[s].pc # "meta" => UNCHANGED accepted
    BY <1>2, <2>0, SendAnswers
  <2>5. \A n \in Messages : PaidFirst(n) => PaidFirst(n)'
    <3>1. ASSUME NEW n \in Messages, PaidFirst(n)
          PROVE  /\ book'[n] = book[n] \/ \E p \in Posting : book'[n] = Append(book[n], p)
                 /\ row'[n].estimated = row[n].estimated
                 /\ row'[n].estimate = row[n].estimate
      BY <2>2, <2>3
    <3>2. QED
      BY <3>1, PaidStays
  <2>6. \A n \in Messages : EstimatedAmount(row'[n]) = EstimatedAmount(row[n])
    BY <2>2, EstimateStays
  <2>7. ASSUME sender[s].pc = "debit", sender'[s].pc \in {"mark", "meta"}
        PROVE  PaidFirst(m)'
    <3>2. Debit(s)
      BY <2>7, <1>2 DEF Send, Debit, MarkDebited, CallMeta, Record, ReadUsage, WriteUsage,
                        Apply, Refund, Fail
    <3>3. ~ Leave(s)
      BY <2>7, LeaveValues
    <3>4. PostDebit(m, "message_debit", amount)
      BY <3>2, <3>3, <2>0, <2>a DEF Debit
    <3>5. book[m] = <<>>
      BY <2>7, <2>0 DEF SendStages
    <3>6. book'[m] = Append(<<>>, <<"message_debit", amount>>)
      BY <3>4, <3>5, PostingValues
    <3>7. book'[m] # <<>> /\ book'[m][1] = <<"message_debit", amount>>
      BY <3>6
    <3>8. EstimatedAmount(row'[m]) = amount
      BY <2>a, <2>6
    <3>9. QED
      BY <3>7, <3>8 DEF PaidFirst
  <2>8. ASSUME NEW t \in Senders, NEW n \in Messages,
               sender'[t].pc \in {"mark", "meta"}, sender'[t].msg = n,
               EstimatedAmount(row'[n]) > 0
        PROVE  PaidFirst(n)'
    <3>1. CASE t # s
      BY <3>1, <2>1, <2>5, <2>6, <2>8 DEF PaidSends
    <3>2. CASE t = s
      <4>1. n = m /\ sender[s].pc \in {"debit", "mark"}
        BY <3>2, <2>1, <2>4, <2>8
      <4>2. CASE sender[s].pc = "debit"
        BY <4>1, <4>2, <3>2, <2>7, <2>8
      <4>3. CASE sender[s].pc = "mark"
        BY <4>1, <4>3, <2>0, <2>5, <2>6, <2>8 DEF PaidSends
      <4>4. QED
        BY <4>1, <4>2, <4>3
    <3>3. QED
      BY <3>1, <3>2
  <2>9. ASSUME NEW n \in Messages, accepted'[n] # None, EstimatedAmount(row'[n]) > 0
        PROVE  PaidFirst(n)'
    <3>1. CASE accepted[n] # None
      <4>1. PaidFirst(n)
        BY <3>1, <2>6, <2>9 DEF PaidSends, SentIsPaid, PaidFirst
      <4>2. QED
        BY <4>1, <2>5
    <3>2. CASE accepted[n] = None
      <4>1. n = m /\ sender[s].pc = "meta"
        BY <3>2, <2>4, <2>9
      <4>2. PaidFirst(n)
        BY <4>1, <2>0, <2>6, <2>9 DEF PaidSends
      <4>3. QED
        BY <4>2, <2>5
    <3>3. QED
      BY <3>1, <3>2
  <2>10. SentIsPaid'
    BY <2>9 DEF SentIsPaid, PaidFirst
  <2>11. QED
    BY <2>8, <2>10 DEF PaidSends
<1>3. QED
  BY <1>1, <1>2

LEMMA WebhookKeepsPaid ==
    ASSUME TInv, PaidSends, NEW h \in Hooks, Webhook(h)
    PROVE  PaidSends'
<1>1. /\ UNCHANGED <<sender, accepted>>
      /\ \A m \in Messages :
            book'[m] = book[m] \/ \E p \in Posting : book'[m] = Append(book[m], p)
  BY WebhookBooks
<1>2. \A m \in Messages : row'[m].estimate = row[m].estimate
  BY WebhookRows
<1>3. \A m \in Messages : PaidFirst(m) => PaidFirst(m)'
  BY <1>1, <1>2, PaidStays
<1>4. \A m \in Messages : EstimatedAmount(row'[m]) = EstimatedAmount(row[m])
  BY <1>2, EstimateStays
<1>5. ASSUME NEW m \in Messages, accepted'[m] # None, EstimatedAmount(row'[m]) > 0
      PROVE  PaidFirst(m)'
  <2>1. PaidFirst(m)
    BY <1>1, <1>4, <1>5 DEF PaidSends, SentIsPaid, PaidFirst
  <2>2. QED
    BY <2>1, <1>3
<1>6. SentIsPaid'
  BY <1>5 DEF SentIsPaid, PaidFirst
<1>7. ASSUME NEW s \in Senders, NEW m \in Messages,
             sender'[s].pc \in {"mark", "meta"}, sender'[s].msg = m,
             EstimatedAmount(row'[m]) > 0
      PROVE  PaidFirst(m)'
  BY <1>1, <1>3, <1>4, <1>7 DEF PaidSends
<1>8. QED
  BY <1>6, <1>7 DEF PaidSends

LEMMA StepPaid == TInv /\ SendStages /\ PaidSends /\ [Next]_vars => PaidSends'
<1>1. PaidSends /\ UNCHANGED vars => PaidSends'
  BY DEF vars, PaidSends, SentIsPaid, PaidFirst
<1>2. PaidSends /\ Crash => PaidSends'
  BY DEF PaidSends, SentIsPaid, PaidFirst, Crash, IdleSender
<1>3. PaidSends /\ ChangePlan => PaidSends'
  BY PlanLeavesAll DEF PaidSends, SentIsPaid, PaidFirst, EstimatedAmount
<1>4. QED
  BY <1>1, <1>2, <1>3, SendKeepsPaid, WebhookKeepsPaid DEF Next

(* A message that Meta accepted, and that the plan asks a price for, was   *)
(* debited before the call: no interleaving of sends, webhooks, lost       *)
(* answers and crashes lets one out unpaid.                                *)
THEOREM SendsArePaid == Spec => []SentIsPaid
<1>1. Init => PaidSends
  BY DEF Init, PaidSends, SentIsPaid, IdleSender
<1>2. PaidSends => SentIsPaid
  BY DEF PaidSends
<1>3. QED
  BY <1>1, <1>2, StepPaid, AlwaysTyped, AlwaysStaged, PTL DEF Spec

-----------------------------------------------------------------------------
(* A row names transactions that were posted.                              *)

NamesInv == (\A m \in Messages : RowNamed(m)) /\ HandlersNamePostings

LEMMA NamesImplies == NamesInv => RowNamesItsPostings
BY DEF NamesInv, RowNamed, Posted, RowNamesItsPostings

(* An appended posting keeps the others, and is there.                     *)
LEMMA PostedGrows ==
    ASSUME TypeOK, NEW m \in Messages, NEW p \in Posting, book'[m] = Append(book[m], p)
    PROVE  /\ \A source \in Sources : Posted(m, source) => Posted(m, source)'
           /\ Posted(m, p[1])'
<1>1. book[m] \in Seq(Posting)
  BY DEF TypeOK
<1>2. /\ DOMAIN book[m] \subseteq DOMAIN book'[m]
      /\ \A i \in DOMAIN book[m] : book'[m][i] = book[m][i]
      /\ Len(book[m]) + 1 \in DOMAIN book'[m]
      /\ book'[m][Len(book[m]) + 1] = p
  BY <1>1
<1>3. QED
  BY <1>2 DEF Posted

LEMMA PostedStays ==
    ASSUME TypeOK, NEW m \in Messages,
           book'[m] = book[m] \/ \E p \in Posting : book'[m] = Append(book[m], p)
    PROVE  \A source \in Sources : Posted(m, source) => Posted(m, source)'
<1>1. CASE book'[m] = book[m]
  BY <1>1 DEF Posted
<1>2. QED
  BY <1>1, PostedGrows

(* What a send writes on the row it holds.                                 *)
LEMMA SendNames ==
    ASSUME TInv, NEW s \in Senders, Send(s), ~ Begin(s),
           NEW m \in Messages, m = sender[s].msg
    PROVE  /\ row'[m].debit => row[m].debit \/ sender[s].pc = "mark"
           /\ row'[m].adjustment
                 => row[m].adjustment \/ (sender[s].pc = "fail" /\ sender[s].held = 1)
           /\ \/ row'[m].billing = row[m].billing
              \/ row'[m].billing \notin {"refunded_failed_send", "adjusted"}
              \/ /\ row'[m].billing = "refunded_failed_send"
                 /\ sender[s].pc = "fail" /\ sender[s].held = 1
<1>1. row[m] \in Row /\ row \in [Messages -> Row]
  BY DEF TInv, TypeOK
<1>2. CASE UNCHANGED row
  BY <1>2
<1>3. CASE row' = [row EXCEPT ![m] = DebitFailed(@)]
  BY <1>1, <1>3 DEF DebitFailed, Row
<1>4. CASE MarkDebited(s)
  BY <1>1, <1>4 DEF MarkDebited, Row
<1>5. CASE Record(s)
  BY <1>1, <1>5 DEF Record, Row
<1>6. CASE Apply(s)
  BY <1>1, <1>6 DEF Apply, Row
<1>7. CASE Fail(s)
  BY <1>1, <1>7 DEF Fail, Row
<1>8. QED
  BY <1>2, <1>3, <1>4, <1>5, <1>6, <1>7
     DEF Send, Debit, CallMeta, ReadUsage, WriteUsage, Refund

(* Where a send comes to hold a posting.                                   *)
LEMMA SendPosts ==
    ASSUME TInv, NEW s \in Senders, Send(s), ~ Begin(s),
           NEW m \in Messages, m = sender[s].msg
    PROVE  /\ sender'[s].pc = "mark" => Posted(m, "message_debit")'
           /\ sender'[s].pc = "fail" /\ sender'[s].held = 1 => Posted(m, "message_refund")'
<1>0. PICK amount \in Nat : amount = EstimatedAmount(row[m])
  BY AmountsAreNat DEF TInv, TypeOK
<1>1. <<"message_debit", amount>> \in Posting /\ <<"message_refund", amount>> \in Posting
  BY DEF Posting, Sources
<1>2. PostDebit(m, "message_debit", amount) => Posted(m, "message_debit")'
  <2>1. PostDebit(m, "message_debit", amount)
          => book'[m] = Append(book[m], <<"message_debit", amount>>)
    BY DEF PostDebit, TInv, TypeOK
  <2>2. <<"message_debit", amount>>[1] = "message_debit"
    OBVIOUS
  <2>3. TypeOK
    BY DEF TInv
  <2>4. QED
    BY <1>1, <2>1, <2>2, <2>3, PostedGrows
<1>3. PostCredit(m, amount) => Posted(m, "message_refund")'
  <2>1. PostCredit(m, amount)
          => book'[m] = Append(book[m], <<"message_refund", amount>>)
    BY DEF PostCredit, TInv, TypeOK
  <2>2. <<"message_refund", amount>>[1] = "message_refund"
    OBVIOUS
  <2>3. TypeOK
    BY DEF TInv
  <2>4. QED
    BY <1>1, <2>1, <2>2, <2>3, PostedGrows
<1>4. CASE Debit(s)
  <2>1. Leave(s) \/ (Goto(s, "mark", 0) /\ PostDebit(m, "message_debit", amount))
    BY <1>0, <1>4 DEF Debit
  <2>2. QED
    BY <2>1, <1>2, LeaveValues, GotoValues
<1>5. CASE Refund(s)
  <2>1. \/ Goto(s, "fail", 1) /\ PostCredit(m, amount)
        \/ Goto(s, "fail", 0)
    BY <1>0, <1>5 DEF Refund
  <2>2. QED
    BY <2>1, <1>3, GotoValues
<1>6. CASE ~ Debit(s) /\ ~ Refund(s)
  <2>1. \/ Leave(s)
        \/ \E step \in {"meta", "record", "count", "increment", "apply", "refund"} : \E held :
              Goto(s, step, held)
    BY <1>6 DEF Send, MarkDebited, CallMeta, Record, ReadUsage, WriteUsage, Apply, Fail,
                CountFails
  <2>2. QED
    BY <2>1, LeaveValues, GotoValues
<1>7. QED
  BY <1>4, <1>5, <1>6

LEMMA SendKeepsNames ==
    ASSUME TInv, SendStages, NamesInv, NEW s \in Senders, Send(s)
    PROVE  NamesInv'
<1>1. CASE Begin(s)
  <2>1. PICK m \in Messages, kind \in Kinds, c \in Categories \union {None} :
              /\ sender[s].pc = "idle"
              /\ row[m].status = "absent"
              /\ row'[m] = NewRow(kind, c) /\ row'[m] \in Row
              /\ \A n \in Messages : n # m => row'[n] = row[n]
              /\ sender'[s].msg = m
              /\ sender'[s].pc = IF EstimatedAmount(row'[m]) > 0 THEN "debit" ELSE "meta"
              /\ \A t \in Senders : t # s => sender'[t] = sender[t]
    BY <1>1, BeginValues
  <2>2. UNCHANGED <<book, hook>>
    BY <1>1 DEF Begin
  <2>3. /\ ~ NewRow(kind, c).debit /\ ~ NewRow(kind, c).adjustment
        /\ NewRow(kind, c).billing \notin {"refunded_failed_send", "adjusted"}
    BY NewRowIsRow DEF TInv
  <2>4. \A n \in Messages : RowNamed(n)'
    BY <2>1, <2>2, <2>3 DEF NamesInv, RowNamed, Posted
  <2>5. HandlersNamePostings'
    BY <2>1, <2>2 DEF NamesInv, HandlersNamePostings, Posted
  <2>6. QED
    BY <2>4, <2>5 DEF NamesInv
<1>2. CASE ~ Begin(s)
  <2>0. PICK m \in Messages : m = sender[s].msg
    BY <1>2, SendMoves
  <2>1. /\ UNCHANGED hook
        /\ \A t \in Senders : t # s => sender'[t] = sender[t]
        /\ sender'[s].pc # "idle" => sender'[s].msg = m
    BY <1>2, <2>0, SendMoves
  <2>2. \A n \in Messages : n # m => row'[n] = row[n]
    BY <1>2, <2>0, SendRows
  <2>3. \A n \in Messages : \A source \in Sources : Posted(n, source) => Posted(n, source)'
    <3>1. \A n \in Messages :
            book'[n] = book[n] \/ \E p \in Posting : book'[n] = Append(book[n], p)
      BY <1>2, <2>0, SendBooks
    <3>2. QED
      BY <3>1, PostedStays DEF TInv
  <2>4. \A n \in Messages :
          /\ Posted(n, "message_debit") => Posted(n, "message_debit")'
          /\ Posted(n, "message_refund") => Posted(n, "message_refund")'
          /\ Posted(n, "message_adjustment") => Posted(n, "message_adjustment")'
    BY <2>3 DEF Sources
  <2>5. ASSUME NEW n \in Messages, n # m
        PROVE  RowNamed(n)'
    BY <2>2, <2>4, <2>5 DEF NamesInv, RowNamed
  <2>6. RowNamed(m)'
    <3>1. /\ row'[m].debit => row[m].debit \/ sender[s].pc = "mark"
          /\ row'[m].adjustment
                => row[m].adjustment \/ (sender[s].pc = "fail" /\ sender[s].held = 1)
          /\ \/ row'[m].billing = row[m].billing
             \/ row'[m].billing \notin {"refunded_failed_send", "adjusted"}
             \/ /\ row'[m].billing = "refunded_failed_send"
                /\ sender[s].pc = "fail" /\ sender[s].held = 1
      BY <1>2, <2>0, SendNames
    <3>2. /\ sender[s].pc = "mark" => Posted(m, "message_debit")
          /\ sender[s].pc = "fail" /\ sender[s].held = 1 => Posted(m, "message_refund")
      BY <2>0 DEF NamesInv, HandlersNamePostings
    <3>3. RowNamed(m)
      BY DEF NamesInv
    <3>4. QED
      BY <3>1, <3>2, <3>3, <2>4 DEF RowNamed
  <2>7. ASSUME NEW t \in Senders, NEW n \in Messages, sender'[t].msg = n
        PROVE  /\ sender'[t].pc = "mark" => Posted(n, "message_debit")'
               /\ sender'[t].pc = "fail" /\ sender'[t].held = 1
                     => Posted(n, "message_refund")'
    <3>1. CASE t # s
      BY <3>1, <2>1, <2>4, <2>7 DEF NamesInv, HandlersNamePostings
    <3>2. CASE t = s
      BY <3>2, <1>2, <2>0, <2>1, <2>7, SendPosts
    <3>3. QED
      BY <3>1, <3>2
  <2>8. HandlersNamePostings'
    BY <2>1, <2>4, <2>7 DEF NamesInv, HandlersNamePostings
  <2>9. QED
    BY <2>5, <2>6, <2>8 DEF NamesInv
<1>3. QED
  BY <1>1, <1>2

(* What a webhook writes on the row of its message.                        *)
LEMMA WebhookNames ==
    ASSUME TInv, NEW h \in Hooks, Webhook(h), NEW m \in Messages
    PROVE  /\ row'[m].debit = row[m].debit
           /\ row'[m].adjustment
                 => \/ row[m].adjustment
                    \/ hook[h].msg = m /\ hook[h].pc = "write" /\ hook[h].moved
           /\ \/ row'[m].billing = row[m].billing
              \/ row'[m].billing = "free"
              \/ /\ hook[h].msg = m /\ hook[h].pc = "write"
                 /\ row'[m].billing = hook[h].billing
<1>1. ASSUME NEW new \in Row, hook[h].pc # "idle",
             row' = [row EXCEPT ![hook[h].msg] = Assigned(@, hook[h].copy, new)],
             new.debit = hook[h].copy.debit,
             \/ new.adjustment = hook[h].copy.adjustment
             \/ hook[h].pc = "write" /\ hook[h].moved,
             \/ new.billing = hook[h].copy.billing
             \/ new.billing = "free"
             \/ hook[h].pc = "write" /\ new.billing = hook[h].billing
      PROVE  /\ row'[m].debit = row[m].debit
             /\ row'[m].adjustment
                   => \/ row[m].adjustment
                      \/ hook[h].msg = m /\ hook[h].pc = "write" /\ hook[h].moved
             /\ \/ row'[m].billing = row[m].billing
                \/ row'[m].billing = "free"
                \/ /\ hook[h].msg = m /\ hook[h].pc = "write"
                   /\ row'[m].billing = hook[h].billing
  <2>1. PICK copy \in Row : copy = hook[h].copy
    BY <1>1, HookValues
  <2>2. row[m] \in Row
    BY DEF TInv, TypeOK
  <2>3. PICK r : r = Assigned(row[m], copy, new)
    OBVIOUS
  <2>4. /\ r.debit = (IF new.debit = copy.debit THEN row[m].debit ELSE new.debit)
        /\ r.adjustment = (IF new.adjustment = copy.adjustment
                           THEN row[m].adjustment ELSE new.adjustment)
        /\ r.billing = (IF new.billing = copy.billing THEN row[m].billing ELSE new.billing)
    BY <2>2, <2>3, AssignedIsRow
  <2>5. IF m = hook[h].msg THEN row'[m] = r ELSE row'[m] = row[m]
    BY <1>1, <2>1, <2>3 DEF TInv, TypeOK
  <2>6. QED
    BY <1>1, <2>1, <2>4, <2>5
<1>2. CASE UNCHANGED row
  BY <1>2
<1>3. CASE UpdateStatus(h)
  <2>0. hook[h].pc # "idle"
    BY <1>3 DEF UpdateStatus, HookAt
  <2>1. PICK copy \in Row : copy = hook[h].copy
    BY <2>0, HookValues
  <2>2. PICK new : new = IF Forward(copy.status, hook[h].status)
                         THEN [copy EXCEPT !.status = hook[h].status] ELSE copy
    OBVIOUS
  <2>3. /\ new \in Row /\ new.debit = copy.debit /\ new.adjustment = copy.adjustment
        /\ new.billing = copy.billing
    BY <2>0, <2>2, HookValues DEF Row
  <2>4. row' = [row EXCEPT ![hook[h].msg] = Assigned(@, copy, new)]
    BY <1>3, <2>1, <2>2 DEF UpdateStatus
  <2>5. QED
    BY <1>1, <2>0, <2>1, <2>3, <2>4
<1>4. CASE SettleFree(h)
  <2>0. hook[h].pc # "idle"
    BY <1>4 DEF SettleFree, HookAt
  <2>1. PICK copy \in Row : copy = hook[h].copy
    BY <2>0, HookValues
  <2>2. PICK new : new = [copy EXCEPT !.actual = ActualCategory(copy, accepted[hook[h].msg]),
                                      !.amount = 0, !.billing = "free",
                                      !.reconciled = TRUE]
    OBVIOUS
  <2>3. ActualCategory(copy, accepted[hook[h].msg]) \in Categories \union {None}
    BY <2>0, <2>1, HookValues
  <2>4. /\ new \in Row /\ new.debit = copy.debit /\ new.adjustment = copy.adjustment
        /\ new.billing = "free"
    BY <2>2, <2>3 DEF Row, BillingStatuses
  <2>5. row' = [row EXCEPT ![hook[h].msg] = Assigned(@, copy, new)]
    BY <1>4, <2>1, <2>2 DEF SettleFree
  <2>6. QED
    BY <1>1, <2>0, <2>1, <2>4, <2>5
<1>5. CASE WriteBilling(h)
  <2>0. hook[h].pc = "write"
    BY <1>5 DEF WriteBilling, HookAt
  <2>1. PICK copy \in Row : copy = hook[h].copy
    BY <2>0, HookValues
  <2>2. PICK new : new = [copy EXCEPT !.actual = ActualCategory(copy, accepted[hook[h].msg]),
                                 !.amount = hook[h].cost,
                                 !.billing = hook[h].billing,
                                 !.adjustment = copy.adjustment \/ hook[h].moved,
                                 !.reconciled = hook[h].billing # "adjustment_failed"]
    OBVIOUS
  <2>3. /\ ActualCategory(copy, accepted[hook[h].msg]) \in Categories \union {None}
        /\ hook[h].billing \in BillingStatuses /\ hook[h].moved \in BOOLEAN
        /\ hook[h].cost \in Nat
    BY <2>0, <2>1, HookValues
  <2>4. /\ new \in Row /\ new.debit = copy.debit
        /\ new.adjustment = copy.adjustment \/ hook[h].moved
        /\ new.billing = hook[h].billing
    BY <2>2, <2>3 DEF Row
  <2>5. row' = [row EXCEPT ![hook[h].msg] = Assigned(@, copy, new)]
    BY <1>5, <2>1, <2>2 DEF WriteBilling
  <2>6. QED
    BY <1>1, <2>0, <2>1, <2>4, <2>5
<1>6. QED
  BY <1>2, <1>3, <1>4, <1>5 DEF Webhook, FindRow, Reconcile

(* Where a webhook comes to hold a posting.                                *)
LEMMA WebhookPosts ==
    ASSUME TInv, NEW h \in Hooks, Webhook(h), NEW m \in Messages,
           hook'[h].pc = "write", hook'[h].msg = m
    PROVE  /\ hook'[h].billing \in {"reconciled", "adjusted", "adjustment_failed"}
           /\ hook'[h].moved => \/ Posted(m, "message_refund")'
                                \/ Posted(m, "message_adjustment")'
           /\ hook'[h].billing = "adjusted" => Posted(m, "message_adjustment")'
<1>1. Reconcile(h)
  <2>1. CASE FindRow(h)
    <3>1. \E x : x.pc = "update" /\ hook' = [hook EXCEPT ![h] = x]
      BY <2>1 DEF FindRow, IdleHook
    <3>2. hook'[h].pc = "update"
      BY <3>1 DEF TInv, TypeOK
    <3>3. QED
      BY <3>2
  <2>2. CASE UpdateStatus(h)
    BY <2>2 DEF UpdateStatus, HookLeave, HookGoto, IdleHook, TInv, TypeOK, Hook
  <2>3. CASE SettleFree(h) \/ WriteBilling(h)
    BY <2>3 DEF SettleFree, WriteBilling, HookLeave, IdleHook, TInv, TypeOK
  <2>4. QED
    BY <2>1, <2>2, <2>3 DEF Webhook
<1>2. /\ hook[h].pc = "price" /\ ~ HookLeave(h)
  BY <1>1 DEF Reconcile, HookAt, HookLeave, IdleHook, TInv, TypeOK
<1>3. PICK delta : delta = EstimatedAmount(hook[h].copy)
                              - ActualAmount(hook[h].copy, accepted[hook[h].msg])
  OBVIOUS
<1>c. PICK cost : cost = ActualAmount(hook[h].copy, accepted[hook[h].msg])
  OBVIOUS
<1>4. \E b, c, u : Decide(h, b, c, u)
  BY <1>1, <1>2 DEF Reconcile
<1>5. hook[h].msg = m
  <2>1. PICK b, c, u : Decide(h, b, c, u)
    BY <1>4
  <2>2. hook'[h] = [hook[h] EXCEPT !.pc = "write", !.billing = b, !.cost = c, !.moved = u]
    BY <2>1 DEF Decide, TInv, TypeOK, Hook
  <2>3. hook'[h].msg = hook[h].msg
    BY <2>2 DEF TInv, TypeOK, Hook
  <2>4. QED
    BY <2>3
<1>6. \/ /\ delta > 0 /\ PostCredit(m, delta)
         /\ Decide(h, "reconciled", cost, TRUE) \/ Decide(h, "adjustment_failed", cost, FALSE)
      \/ /\ delta < 0 /\ PostDebit(m, "message_adjustment", -delta)
         /\ Decide(h, "adjusted", cost, TRUE) \/ Decide(h, "adjustment_failed", cost, FALSE)
      \/ Decide(h, "reconciled", cost, FALSE)
      \/ Decide(h, "adjustment_failed", cost, FALSE)
  BY <1>1, <1>2, <1>3, <1>5, <1>c DEF Reconcile
<1>7. delta \in Int
  BY <1>2, <1>3, HookValues
<1>8. delta > 0 /\ PostCredit(m, delta) => Posted(m, "message_refund")'
  <2>1. SUFFICES ASSUME delta > 0, PostCredit(m, delta)
                 PROVE  Posted(m, "message_refund")'
    OBVIOUS
  <2>2. book'[m] = Append(book[m], <<"message_refund", delta>>)
    BY <2>1 DEF PostCredit, TInv, TypeOK
  <2>3. <<"message_refund", delta>> \in Posting /\ <<"message_refund", delta>>[1] = "message_refund"
    BY <1>7, <2>1 DEF Posting, Sources
  <2>4. QED
    BY <2>2, <2>3, PostedGrows DEF TInv
<1>9. delta < 0 /\ PostDebit(m, "message_adjustment", -delta)
        => Posted(m, "message_adjustment")'
  <2>1. SUFFICES ASSUME delta < 0, PostDebit(m, "message_adjustment", -delta)
                 PROVE  Posted(m, "message_adjustment")'
    OBVIOUS
  <2>2. book'[m] = Append(book[m], <<"message_adjustment", -delta>>)
    BY <2>1 DEF PostDebit, TInv, TypeOK
  <2>3. /\ <<"message_adjustment", -delta>> \in Posting
        /\ <<"message_adjustment", -delta>>[1] = "message_adjustment"
    BY <1>7, <2>1 DEF Posting, Sources
  <2>4. QED
    BY <2>2, <2>3, PostedGrows DEF TInv
<1>10. /\ Decide(h, "reconciled", cost, TRUE) => hook'[h].billing = "reconciled"
       /\ Decide(h, "adjusted", cost, TRUE) => hook'[h].billing = "adjusted"
       /\ Decide(h, "reconciled", cost, FALSE)
             => hook'[h].billing = "reconciled" /\ ~ hook'[h].moved
       /\ Decide(h, "adjustment_failed", cost, FALSE)
             => hook'[h].billing = "adjustment_failed" /\ ~ hook'[h].moved
  BY DEF Decide, TInv, TypeOK, Hook
<1>11. CASE Decide(h, "reconciled", cost, TRUE) /\ delta > 0 /\ PostCredit(m, delta)
  BY <1>8, <1>10, <1>11
<1>12. CASE Decide(h, "adjusted", cost, TRUE) /\ delta < 0
            /\ PostDebit(m, "message_adjustment", -delta)
  BY <1>9, <1>10, <1>12
<1>13. CASE Decide(h, "reconciled", cost, FALSE) \/ Decide(h, "adjustment_failed", cost, FALSE)
  BY <1>10, <1>13
<1>14. QED
  BY <1>6, <1>11, <1>12, <1>13

LEMMA WebhookKeepsNames ==
    ASSUME TInv, NamesInv, NEW h \in Hooks, Webhook(h)
    PROVE  NamesInv'
<1>1. /\ UNCHANGED sender
      /\ \A m \in Messages :
            book'[m] = book[m] \/ \E p \in Posting : book'[m] = Append(book[m], p)
  BY WebhookBooks
<1>2. \A m \in Messages :
        /\ Posted(m, "message_debit") => Posted(m, "message_debit")'
        /\ Posted(m, "message_refund") => Posted(m, "message_refund")'
        /\ Posted(m, "message_adjustment") => Posted(m, "message_adjustment")'
  BY <1>1, PostedStays DEF Sources, TInv
<1>3. ASSUME NEW m \in Messages
      PROVE  RowNamed(m)'
  <2>1. /\ row'[m].debit = row[m].debit
        /\ row'[m].adjustment
              => \/ row[m].adjustment
                 \/ hook[h].msg = m /\ hook[h].pc = "write" /\ hook[h].moved
        /\ \/ row'[m].billing = row[m].billing
           \/ row'[m].billing = "free"
           \/ /\ hook[h].msg = m /\ hook[h].pc = "write"
              /\ row'[m].billing = hook[h].billing
    BY WebhookNames
  <2>2. RowNamed(m)
    BY DEF NamesInv
  <2>3. hook[h].pc = "write" /\ hook[h].msg = m =>
          /\ hook[h].billing \in {"reconciled", "adjusted", "adjustment_failed"}
          /\ hook[h].moved => \/ Posted(m, "message_refund")
                              \/ Posted(m, "message_adjustment")
          /\ hook[h].billing = "adjusted" => Posted(m, "message_adjustment")
    BY DEF NamesInv, HandlersNamePostings
  <2>4. QED
    BY <2>1, <2>2, <2>3, <1>2 DEF RowNamed
<1>4. ASSUME NEW g \in Hooks, NEW m \in Messages, hook'[g].pc = "write", hook'[g].msg = m
      PROVE  /\ hook'[g].billing \in {"reconciled", "adjusted", "adjustment_failed"}
             /\ hook'[g].moved => \/ Posted(m, "message_refund")'
                                  \/ Posted(m, "message_adjustment")'
             /\ hook'[g].billing = "adjusted" => Posted(m, "message_adjustment")'
  <2>1. CASE g = h
    BY <2>1, <1>4, WebhookPosts
  <2>2. CASE g # h
    <3>1. hook'[g] = hook[g]
      BY <2>2 DEF Webhook, FindRow, UpdateStatus, SettleFree, Reconcile, WriteBilling,
                  HookLeave, HookGoto, Decide, TInv, TypeOK
    <3>2. QED
      BY <3>1, <1>2, <1>4 DEF NamesInv, HandlersNamePostings
  <2>3. QED
    BY <2>1, <2>2
<1>5. HandlersNamePostings'
  BY <1>1, <1>2, <1>4 DEF NamesInv, HandlersNamePostings
<1>6. QED
  BY <1>3, <1>5 DEF NamesInv

LEMMA StepNames == TInv /\ SendStages /\ NamesInv /\ [Next]_vars => NamesInv'
<1>1. NamesInv /\ UNCHANGED vars => NamesInv'
  BY DEF vars, NamesInv, RowNamed, Posted, HandlersNamePostings
<1>2. NamesInv /\ Crash => NamesInv'
  BY DEF NamesInv, RowNamed, Posted, HandlersNamePostings, Crash, IdleSender, IdleHook
<1>3. NamesInv /\ ChangePlan => NamesInv'
  BY PlanLeavesAll DEF NamesInv, RowNamed, Posted, HandlersNamePostings
<1>4. QED
  BY <1>1, <1>2, <1>3, SendKeepsNames, WebhookKeepsNames DEF Next

(* Every wallet transaction a row names was posted for that message, in    *)
(* every interleaving of sends and webhooks and after every crash and lost *)
(* answer.                                                                 *)
THEOREM RowsNameTheirPostings == Spec => []RowNamesItsPostings
<1>1. Init => NamesInv
  BY DEF Init, NamesInv, RowNamed, Absent, HandlersNamePostings, IdleSender, IdleHook
<1>2. QED
  BY <1>1, StepNames, NamesImplies, AlwaysTyped, AlwaysStaged, PTL DEF Spec

-----------------------------------------------------------------------------
(* The quota.                                                              *)

Counting == {"record", "count", "increment"}

LEMMA CountableIsFinite ==
    /\ IsFiniteSet(Countable) /\ Cardinality(Countable) \in Nat
    /\ IsFiniteSet(Countable)' /\ Cardinality(Countable)' \in Nat
<1>1. Countable \subseteq Messages /\ Countable' \subseteq Messages
  BY DEF Countable
<1>2. IsFiniteSet(Countable) /\ IsFiniteSet(Countable')
  BY <1>1, SizeAssumption, FS_Subset
<1>3. QED
  BY <1>2, FS_CardinalityType

(* More messages to count are a higher bound.                              *)
LEMMA CountableGrows ==
    ASSUME Countable \subseteq Countable'
    PROVE  Cardinality(Countable) <= Cardinality(Countable)'
BY CountableIsFinite, FS_Subset

(* A send comes to be counted from Meta's answer.                          *)
LEMMA SendCounts ==
    ASSUME TInv, NEW s \in Senders, Send(s), ~ Begin(s)
    PROVE  /\ sender'[s].pc \in Counting => sender[s].pc \in {"meta"} \union Counting
           /\ \A m \in Messages : accepted[m] # None => accepted'[m] # None
           /\ ~ WriteUsage(s) => UNCHANGED usage
           /\ ~ WriteUsage(s) /\ sender'[s].pc = "increment" => sender'[s].held = usage
<1>1. CASE CallMeta(s)
  <2>1. sender[s].pc = "meta" /\ UNCHANGED usage
    BY <1>1 DEF CallMeta
  <2>2. sender[s].msg \in Messages
    BY SendMoves
  <2>3. \A m \in Messages : accepted[m] # None => accepted'[m] # None
    BY <1>1, <2>2, PricingAssumption, NoneIsNoPricing DEF CallMeta, TInv, TypeOK
  <2>4. sender'[s].pc \in {"record", "refund"}
    BY <1>1, GotoValues DEF CallMeta
  <2>5. QED
    BY <2>1, <2>3, <2>4 DEF Counting
<1>2. CASE WriteUsage(s)
  BY <1>2 DEF WriteUsage, Counting
<1>3. CASE ReadUsage(s)
  <2>1. /\ UNCHANGED <<accepted, usage>> /\ sender[s].pc = "count"
        /\ Goto(s, "increment", usage) \/ Goto(s, "refund", 0)
    BY <1>3 DEF ReadUsage, CountFails
  <2>2. sender'[s].pc = "increment" => sender'[s].held = usage
    BY <2>1, GotoValues
  <2>3. QED
    BY <2>1, <2>2 DEF Counting
<1>4. CASE Record(s)
  BY <1>4, GotoValues DEF Record, Counting
<1>5. CASE Debit(s) \/ MarkDebited(s) \/ Apply(s) \/ Refund(s) \/ Fail(s)
  <2>1. /\ UNCHANGED <<accepted, usage>>
        /\ \/ Leave(s)
           \/ \E step \in {"mark", "meta", "fail"} : \E held : Goto(s, step, held)
    BY <1>5 DEF Debit, MarkDebited, Apply, Refund, Fail
  <2>2. sender'[s].pc \in {"idle", "mark", "meta", "fail"}
    BY <2>1, LeaveValues, GotoValues
  <2>3. QED
    BY <2>1, <2>2 DEF Counting
<1>6. QED
  BY <1>1, <1>2, <1>3, <1>4, <1>5 DEF Send

LEMMA SendKeepsUsage ==
    ASSUME TInv, SendStages, UsageBounded, NEW s \in Senders, Send(s)
    PROVE  UsageBounded'
<1>0. /\ Cardinality(Countable) \in Nat /\ Cardinality(Countable)' \in Nat
      /\ usage \in Nat /\ \A t \in Senders : sender[t].held \in Nat
  BY CountableIsFinite DEF TInv, TypeOK, Sender
<1>1. CASE Begin(s)
  <2>1. PICK m \in Messages, kind \in Kinds, c \in Categories \union {None} :
              /\ sender[s].pc = "idle"
              /\ row[m].status = "absent"
              /\ row'[m] = NewRow(kind, c) /\ row'[m] \in Row
              /\ \A n \in Messages : n # m => row'[n] = row[n]
              /\ sender'[s].msg = m
              /\ sender'[s].pc = IF EstimatedAmount(row'[m]) > 0 THEN "debit" ELSE "meta"
              /\ \A t \in Senders : t # s => sender'[t] = sender[t]
    BY <1>1, BeginValues
  <2>2. UNCHANGED <<accepted, usage>>
    BY <1>1 DEF Begin
  <2>3. sender'[s].pc \notin {"record", "count", "increment"}
    BY <2>1
  <2>4. Countable \subseteq Countable'
    BY <2>1, <2>2, <2>3 DEF Countable, Uncounted
  <2>5. \A t \in Senders : sender'[t].pc = "increment" => sender'[t] = sender[t]
    BY <2>1, <2>3
  <2>6. QED
    BY <1>0, <2>2, <2>4, <2>5, CountableGrows DEF UsageBounded
<1>2. CASE ~ Begin(s)
  <2>0. PICK m \in Messages : m = sender[s].msg
    BY <1>2, SendMoves
  <2>1. /\ sender[s].pc # "idle"
        /\ \A t \in Senders : t # s => sender'[t] = sender[t]
        /\ sender'[s].pc # "idle" => sender'[s].msg = m
    BY <1>2, <2>0, SendMoves
  <2>2. /\ sender'[s].pc \in Counting => sender[s].pc \in {"meta"} \union Counting
        /\ \A n \in Messages : accepted[n] # None => accepted'[n] # None
        /\ ~ WriteUsage(s) => UNCHANGED usage
        /\ ~ WriteUsage(s) /\ sender'[s].pc = "increment" => sender'[s].held = usage
    BY <1>2, SendCounts
  <2>3. Countable \subseteq Countable'
    <3>1. SUFFICES ASSUME NEW n \in Messages, accepted[n] # None, n \notin Uncounted,
                          NEW t \in Senders, sender'[t].pc \in Counting, sender'[t].msg = n
                   PROVE  FALSE
      BY <2>2 DEF Countable, Uncounted, Counting
    <3>2. t = s
      BY <3>1, <2>1 DEF Uncounted, Counting
    <3>3. n = m /\ sender[s].pc \in {"meta"} \union Counting
      BY <3>1, <3>2, <2>1, <2>2 DEF Counting
    <3>4. CASE sender[s].pc = "meta"
      BY <3>1, <3>3, <3>4, <2>0 DEF SendStages
    <3>5. CASE sender[s].pc \in Counting
      BY <3>1, <3>3, <3>5, <2>0 DEF Uncounted, Counting
    <3>6. QED
      BY <3>3, <3>4, <3>5
  <2>4. CASE ~ WriteUsage(s)
    <3>1. \A t \in Senders : sender'[t].pc = "increment" =>
             \/ sender'[t] = sender[t]
             \/ sender'[t].held = usage
      BY <2>1, <2>2, <2>4
    <3>2. QED
      BY <1>0, <2>2, <2>3, <2>4, <3>1, CountableGrows DEF UsageBounded
  <2>5. CASE WriteUsage(s)
    <3>1. /\ sender[s].pc = "increment" /\ usage' = sender[s].held + 1
          /\ UNCHANGED accepted
          /\ Goto(s, "apply", 0) \/ Goto(s, "refund", 0)
      BY <2>5 DEF WriteUsage, CountFails
    <3>2. sender'[s].pc \in {"apply", "refund"}
      BY <3>1, GotoValues
    <3>3. m \notin Countable
      BY <2>0, <3>1 DEF Countable, Uncounted
    <3>4. accepted'[m] # None
      BY <2>0, <3>1 DEF SendStages
    <3>5. \A t \in Senders : sender'[t].pc \in {"record", "count", "increment"}
                                => sender'[t].msg # m
      BY <2>0, <2>1, <3>2 DEF SendStages
    <3>6. m \in Countable'
      BY <3>4, <3>5 DEF Countable, Uncounted
    <3>7. Cardinality(Countable \union {m}) = Cardinality(Countable) + 1
      BY <3>3, CountableIsFinite, FS_AddElement
    <3>8. Cardinality(Countable \union {m}) <= Cardinality(Countable')
      BY <2>3, <3>6, CountableIsFinite, FS_Subset
    <3>9. usage' <= Cardinality(Countable)'
      BY <1>0, <3>1, <3>7, <3>8 DEF UsageBounded
    <3>10. \A t \in Senders : sender'[t].pc = "increment" => sender'[t] = sender[t]
      BY <2>1, <3>2
    <3>11. QED
      BY <1>0, <2>3, <3>9, <3>10, CountableGrows DEF UsageBounded
  <2>6. QED
    BY <2>4, <2>5
<1>3. QED
  BY <1>1, <1>2

LEMMA StepUsage == TInv /\ SendStages /\ UsageBounded /\ [Next]_vars => UsageBounded'
<1>1. UsageBounded /\ UNCHANGED <<usage, sender, accepted>> => UsageBounded'
  BY DEF UsageBounded, Countable, Uncounted
<1>2. TInv /\ UsageBounded /\ Crash => UsageBounded'
  <2> SUFFICES ASSUME TInv, UsageBounded, Crash PROVE UsageBounded'
    OBVIOUS
  <2>1. UNCHANGED <<usage, accepted>> /\ \A s \in Senders : sender'[s].pc = "idle"
    BY DEF Crash, IdleSender
  <2>2. Countable \subseteq Countable'
    BY <2>1 DEF Countable, Uncounted
  <2>3. usage \in Nat /\ Cardinality(Countable) \in Nat /\ Cardinality(Countable)' \in Nat
    BY CountableIsFinite DEF TInv, TypeOK
  <2>4. QED
    BY <2>1, <2>2, <2>3, CountableGrows DEF UsageBounded
<1>3. \A h \in Hooks : TInv /\ Webhook(h) => UNCHANGED <<usage, sender, accepted>>
  BY WebhookBooks
<1>4. QED
  BY <1>1, <1>2, <1>3, PlanLeavesAll, SendKeepsUsage DEF Next, vars

(* The quota of the plan is never charged for a message Meta did not       *)
(* accept, and at most once for one it did, whatever sends overwrite one   *)
(* another's counts and wherever the process dies.                         *)
THEOREM QuotaCountsAcceptedOnce == Spec => []QuotaNotOvercharged
<1>1. Init => UsageBounded
  <2> SUFFICES ASSUME Init PROVE UsageBounded
    OBVIOUS
  <2>1. usage = 0 /\ \A s \in Senders : sender[s].pc = "idle"
    BY DEF Init, IdleSender
  <2>2. QED
    BY <2>1, CountableIsFinite DEF UsageBounded
<1>2. TInv /\ UsageBounded => QuotaNotOvercharged
  <2> SUFFICES ASSUME TInv, UsageBounded PROVE QuotaNotOvercharged
    OBVIOUS
  <2> DEFINE Sent == {m \in Messages : accepted[m] # None}
  <2>1. IsFiniteSet(Sent) /\ Countable \subseteq Sent
    BY SizeAssumption, FS_Subset DEF Countable
  <2>2. /\ Cardinality(Countable) <= Cardinality(Sent) /\ Cardinality(Sent) \in Nat
        /\ Cardinality(Countable) \in Nat
    BY <2>1, FS_Subset, FS_CardinalityType
  <2>3. QED
    BY <2>2 DEF UsageBounded, QuotaNotOvercharged, TInv, TypeOK
<1>3. QED
  BY <1>1, <1>2, StepUsage, AlwaysTyped, AlwaysStaged, PTL DEF Spec

-----------------------------------------------------------------------------
(* What a message cost in the end.                                         *)

(* Two copies of a row that differ in nothing the price depends on.        *)
SamePrice(w, v) ==
    /\ w.kind = v.kind /\ w.estimated = v.estimated /\ w.estimate = v.estimate
    /\ w.actual = v.actual
    /\ w.amount = v.amount /\ w.reconciled = v.reconciled

(* A send is under way.                                                    *)
Sending(s, m) == sender[s].pc # "idle" /\ sender[s].msg = m

Estimate(m) == EstimatedAmount(row[m])
Category(m) == ActualCategory(row[m], accepted[m])

(* Until Meta's id is stored, a send has paid the estimate from its debit  *)
(* to its refund, and nothing is settled while it is under way.            *)
Outgoing(m) ==
    /\ row[m].reconciled => paid[m] = row[m].amount /\ row[m].amount = 0
    /\ \A s \in Senders : Sending(s, m) =>
          /\ ~ row[m].reconciled
          /\ sender[s].pc = "debit" => paid[m] = 0
          /\ sender[s].pc = "mark" => paid[m] = Estimate(m)
          /\ sender[s].pc \in {"meta", "record", "refund"} =>
                paid[m] = Estimate(m) /\ (row[m].debit \/ Estimate(m) = 0)
          /\ sender[s].pc = "fail" /\ sender[s].held = 1 => paid[m] = 0

(* A webhook about to write has made the adjustment, or owes none, or says *)
(* that it failed.                                                         *)
Settling(h, m) ==
    /\ SamePrice(hook[h].copy, row[m])
    /\ hook[h].pc = "write" /\ row[m].reconciled => row[m].amount = Estimate(m)
    /\ hook[h].moved => /\ hook[h].pc = "write" /\ hook[h].billing # "adjustment_failed"
                        /\ paid[m] = hook[h].cost
    /\ hook[h].pc = "write" /\ hook[h].billing # "adjustment_failed" /\ ~ hook[h].moved
          => Estimate(m) = hook[h].cost
    /\ hook[h].pc = "write" => hook[h].cost \in Asked(m)

(* From then on one webhook at a time settles it: it cost the estimate     *)
(* before, and after that what the row says, which is what was asked.      *)
Incoming(m) ==
    /\ \A s \in Senders : Sending(s, m) => sender[s].pc \in {"count", "increment", "apply"}
    /\ \A g, h \in Hooks : hook[g].msg = m /\ hook[h].msg = m => g = h
    /\ \A h \in Hooks : hook[h].msg = m => Settling(h, m)
    /\ (\A h \in Hooks : ~ (hook[h].msg = m /\ hook[h].moved)) =>
          paid[m] = IF row[m].reconciled THEN row[m].amount ELSE Estimate(m)
    /\ row[m].reconciled => row[m].actual = Category(m) /\ row[m].amount \in Asked(m)

(* What is true of a message that no fault and no second webhook made      *)
(* doubtful.                                                               *)
PriceHolds(m) ==
    /\ row[m].status = "absent" => ~ row[m].meta /\ paid[m] = 0
    /\ \A h \in Hooks : hook[h].msg = m => row[m].meta /\ hook[h].pc # "idle"
    /\ row[m].kind = "template" /\ m \notin doubtful =>
          IF row[m].meta THEN Incoming(m) ELSE Outgoing(m)

ChargeInv == \A m \in Messages : PriceHolds(m)

(* Meta's pricing of a message stays, once Meta's id is stored.            *)
LEMMA AskedStays ==
    ASSUME NEW m \in Messages, row'[m].meta = row[m].meta, accepted'[m] = accepted[m],
           Category(m)' = Category(m)
    PROVE  Asked(m)' = Asked(m)
BY DEF Asked, Category

(* A step leaves a message as it was: its row, its price, its postings,    *)
(* its send and its webhooks.                                              *)
LEMMA OthersKeepPrice ==
    ASSUME NEW m \in Messages, PriceHolds(m),
           row'[m] = row[m], paid'[m] = paid[m], accepted'[m] = accepted[m],
           doubtful \subseteq doubtful',
           \A s \in Senders : Sending(s, m)' => sender'[s] = sender[s],
           \A h \in Hooks : hook'[h].msg = m \/ hook[h].msg = m => hook'[h] = hook[h]
    PROVE  PriceHolds(m)'
<1>1. /\ Estimate(m)' = Estimate(m) /\ Category(m)' = Category(m)
      /\ \A s \in Senders : Sending(s, m)' => Sending(s, m)
      /\ Asked(m)' = Asked(m)
  <2>1. /\ Estimate(m)' = Estimate(m) /\ Category(m)' = Category(m)
        /\ \A s \in Senders : Sending(s, m)' => Sending(s, m)
    BY DEF Estimate, Category, EstimatedAmount, ActualCategory, Sending
  <2>2. QED
    BY <2>1, AskedStays
<1>2. Outgoing(m) => Outgoing(m)'
  BY <1>1 DEF Outgoing
<1>3. Incoming(m) => Incoming(m)'
  <2>1. \A h \in Hooks : hook'[h].msg = m /\ Settling(h, m) => Settling(h, m)'
    BY <1>1 DEF Settling
  <2>2. QED
    BY <1>1, <2>1 DEF Incoming
<1>4. QED
  BY <1>2, <1>3 DEF PriceHolds

(* A posting moves what its own message cost.                              *)
LEMMA DebitPays ==
    ASSUME TInv, NEW m \in Messages, NEW source, NEW amount, PostDebit(m, source, amount)
    PROVE  /\ paid'[m] = paid[m] + amount
           /\ \A n \in Messages : n # m => paid'[n] = paid[n]
BY DEF PostDebit, TInv, TypeOK

LEMMA CreditPays ==
    ASSUME TInv, NEW m \in Messages, NEW amount, PostCredit(m, amount)
    PROVE  /\ paid'[m] = paid[m] - amount
           /\ \A n \in Messages : n # m => paid'[n] = paid[n]
BY DEF PostCredit, TInv, TypeOK

(* A send moves what its own message cost, and takes no doubt away.        *)
LEMMA SendPays ==
    ASSUME TInv, NEW s \in Senders, Send(s), ~ Begin(s)
    PROVE  /\ \A m \in Messages : m # sender[s].msg => paid'[m] = paid[m]
           /\ doubtful \subseteq doubtful'
<1> DEFINE m == sender[s].msg
           amount == EstimatedAmount(row[m])
<1>1. m \in Messages /\ amount \in Int
  BY SendMoves, AmountsAreNat DEF TInv, TypeOK
<1>2. \/ UNCHANGED paid
      \/ PostDebit(m, "message_debit", amount)
      \/ PostCredit(m, amount)
  BY DEF Send, Debit, MarkDebited, CallMeta, Record, ReadUsage, WriteUsage, Apply,
         Refund, Fail, NoPosting
<1>3. doubtful \subseteq doubtful'
  BY DEF Send, Debit, MarkDebited, CallMeta, Record, ReadUsage, WriteUsage, Apply,
         Refund, Fail, CountFails
<1> HIDE DEF m, amount
<1>4. \A n \in Messages : n # m => paid'[n] = paid[n]
  BY <1>1, <1>2, DebitPays, CreditPays
<1>5. QED
  BY <1>3, <1>4 DEF m

(* What a send writes on its row keeps the kind, and Meta's id once it is  *)
(* there.                                                                  *)
LEMMA SendKeepsKind ==
    ASSUME TInv, NEW s \in Senders, Send(s), ~ Begin(s),
           NEW m \in Messages, sender[s].msg = m
    PROVE  /\ row'[m].kind = row[m].kind
           /\ row[m].meta => row'[m].meta
           /\ Estimate(m)' = Estimate(m)
<1>1. row[m] \in Row /\ row \in [Messages -> Row]
  BY DEF TInv, TypeOK
<1>2. EstimatedAmount(row'[m]) = EstimatedAmount(row[m])
  BY SendRows, EstimateStays
<1> USE <1>1
<1>3. row' = [row EXCEPT ![m] = DebitFailed(@)] =>
         row'[m].kind = row[m].kind /\ row'[m].meta = row[m].meta
  BY DEF DebitFailed, Row
<1>4. MarkDebited(s) => row'[m].kind = row[m].kind /\ row'[m].meta = row[m].meta
  BY DEF MarkDebited, Row
<1>5. Record(s) => row'[m].kind = row[m].kind /\ row'[m].meta
  BY DEF Record, Row
<1>6. Apply(s) => row'[m].kind = row[m].kind /\ row'[m].meta = row[m].meta
  BY DEF Apply, Row
<1>7. Fail(s) => row'[m].kind = row[m].kind /\ row'[m].meta = row[m].meta
  BY DEF Fail, Row
<1>8. row'[m].kind = row[m].kind /\ (row[m].meta => row'[m].meta)
  BY <1>3, <1>4, <1>5, <1>6, <1>7
     DEF Send, Debit, CallMeta, ReadUsage, WriteUsage, Refund
<1>9. QED
  BY <1>2, <1>8 DEF Estimate

(* Every step of a send keeps what is true of its own message.             *)
LEMMA SendKeepsOwnPrice ==
    ASSUME TInv, SendStages, NEW s \in Senders, Send(s), ~ Begin(s),
           NEW m \in Messages, sender[s].msg = m, PriceHolds(m)
    PROVE  PriceHolds(m)'
<1>1. /\ sender[s].pc # "idle" /\ UNCHANGED hook
      /\ sender'[s].pc # "idle" => sender'[s].msg = m
      /\ \A t \in Senders : t # s => sender'[t] = sender[t]
  BY SendMoves
<1>2. /\ row[m] \in Row /\ row \in [Messages -> Row] /\ paid[m] \in Int
      /\ Estimate(m) \in Nat /\ EstimatedAmount(row[m]) = Estimate(m)
  BY AmountsAreNat DEF TInv, TypeOK, Estimate
<1>3. /\ row'[m].kind = row[m].kind
      /\ row[m].meta => row'[m].meta
      /\ Estimate(m)' = Estimate(m)
  BY SendKeepsKind
<1>4. row'[m].status # "absent"
  BY <1>1, SendRows DEF SendStages
<1>5. doubtful \subseteq doubtful'
  BY SendPays
<1>6. Sending(s, m) /\ \A t \in Senders : Sending(t, m) \/ Sending(t, m)' => t = s
  BY <1>1 DEF SendStages, Sending
<1>7. ASSUME row[m].kind = "template", m \notin doubtful'
      PROVE  IF row'[m].meta THEN Incoming(m)' ELSE Outgoing(m)'
  <2>1. IF row[m].meta THEN Incoming(m) ELSE Outgoing(m)
    BY <1>5, <1>7 DEF PriceHolds
  <2>2. /\ \A h \in Hooks : hook'[h] = hook[h]
        /\ ~ row[m].meta => \A h \in Hooks : hook[h].msg # m
    BY <1>1 DEF PriceHolds
  (* The send goes on with a message that has no id yet.                   *)
  <2>3. ASSUME ~ row[m].meta, ~ row'[m].meta,
               row'[m].reconciled => paid'[m] = row'[m].amount /\ row'[m].amount = 0,
               Sending(s, m)' =>
                   /\ ~ row'[m].reconciled
                   /\ sender'[s].pc # "debit"
                   /\ sender'[s].pc = "mark" => paid'[m] = Estimate(m)
                   /\ sender'[s].pc \in {"meta", "record", "refund"} =>
                         /\ paid'[m] = Estimate(m)
                         /\ row'[m].debit \/ Estimate(m) = 0
                   /\ sender'[s].pc = "fail" /\ sender'[s].held = 1 => paid'[m] = 0
        PROVE  IF row'[m].meta THEN Incoming(m)' ELSE Outgoing(m)'
    BY <1>3, <1>6, <2>3 DEF Outgoing
  (* The send goes on with a message that has an id.                       *)
  <2>4. ASSUME row[m].meta, SamePrice(row'[m], row[m]), paid'[m] = paid[m],
               accepted'[m] = accepted[m],
               Sending(s, m)' => sender'[s].pc \in {"count", "increment", "apply"}
        PROVE  IF row'[m].meta THEN Incoming(m)' ELSE Outgoing(m)'
    <3>1. /\ Incoming(m) /\ row'[m].meta /\ Category(m)' = Category(m)
          /\ Asked(m)' = Asked(m)
      <4>1. Incoming(m) /\ row'[m].meta /\ Category(m)' = Category(m)
        BY <1>3, <2>1, <2>4 DEF Category, ActualCategory, SamePrice
      <4>2. Asked(m)' = Asked(m)
        BY <2>4, <4>1, AskedStays
      <4>3. QED
        BY <4>1, <4>2
    <3>2. \A h \in Hooks : Settling(h, m) => Settling(h, m)'
      BY <1>3, <2>2, <2>4, <3>1 DEF Settling, SamePrice
    <3>3. QED
      BY <1>3, <1>6, <2>2, <2>4, <3>1, <3>2 DEF Incoming, SamePrice
  <2>5. CASE Debit(s)
    <3>1. sender[s].pc = "debit" /\ ~ row[m].meta /\ paid[m] = 0 /\ ~ row[m].reconciled
      BY <1>6, <2>1, <2>5 DEF Debit, Incoming, Outgoing
    <3>2. \/ /\ Leave(s) /\ row' = [row EXCEPT ![m] = DebitFailed(@)]
          \/ /\ PostDebit(m, "message_debit", Estimate(m))
             /\ Goto(s, "mark", 0) /\ UNCHANGED row
      BY <1>2, <2>5 DEF Debit
    <3>3. CASE Leave(s) /\ row' = [row EXCEPT ![m] = DebitFailed(@)]
      <4>1. ~ row'[m].meta /\ ~ row'[m].reconciled
        BY <1>2, <3>1, <3>3 DEF DebitFailed, Row
      <4>2. ~ Sending(s, m)'
        BY <3>3, LeaveValues DEF Sending
      <4>3. QED
        BY <2>3, <3>1, <4>1, <4>2
    <3>4. CASE /\ PostDebit(m, "message_debit", Estimate(m))
               /\ Goto(s, "mark", 0) /\ UNCHANGED row
      <4>1. paid'[m] = Estimate(m) /\ sender'[s].pc = "mark"
        BY <1>2, <3>1, <3>4, DebitPays, GotoValues
      <4>2. QED
        BY <2>3, <3>1, <3>4, <4>1
    <3>5. QED
      BY <3>2, <3>3, <3>4
  <2>6. CASE MarkDebited(s)
    <3>1. /\ sender[s].pc = "mark" /\ ~ row[m].meta /\ paid[m] = Estimate(m)
          /\ ~ row[m].reconciled
      BY <1>6, <2>1, <2>6 DEF MarkDebited, Incoming, Outgoing
    <3>2. ~ row'[m].meta /\ ~ row'[m].reconciled /\ row'[m].debit
      BY <1>2, <2>6, <3>1 DEF MarkDebited, Row
    <3>3. sender'[s].pc = "meta" /\ UNCHANGED paid
      BY <2>6, GotoValues DEF MarkDebited
    <3>4. QED
      BY <2>3, <3>1, <3>2, <3>3
  <2>7. CASE CallMeta(s)
    <3>1. /\ sender[s].pc = "meta" /\ ~ row[m].meta /\ paid[m] = Estimate(m)
          /\ ~ row[m].reconciled /\ (row[m].debit \/ Estimate(m) = 0)
      BY <1>6, <2>1, <2>7 DEF CallMeta, Incoming, Outgoing
    <3>2. UNCHANGED <<row, paid>>
      BY <2>7 DEF CallMeta
    <3>3. Goto(s, "refund", 0) \/ Goto(s, "record", 0)
      BY <2>7 DEF CallMeta
    <3>4. sender'[s].pc \in {"refund", "record"}
      BY <3>3, GotoValues
    <3>5. QED
      BY <2>3, <3>1, <3>2, <3>4
  <2>8. CASE Record(s)
    <3>1. /\ sender[s].pc = "record" /\ ~ row[m].meta /\ paid[m] = Estimate(m)
          /\ ~ row[m].reconciled
      BY <1>6, <2>1, <2>8 DEF Record, Incoming, Outgoing
    <3>2. row'[m].meta /\ ~ row'[m].reconciled
      BY <1>2, <1>7, <2>8, <3>1 DEF Record, Row
    <3>3. sender'[s].pc = "count" /\ UNCHANGED paid
      BY <2>8, GotoValues DEF Record
    <3>4. QED
      BY <1>3, <1>6, <2>2, <3>1, <3>2, <3>3 DEF Incoming
  <2>9. ASSUME sender[s].pc \in {"count", "increment", "apply"},
               SamePrice(row'[m], row[m]), row'[m].meta = row[m].meta,
               UNCHANGED <<paid, accepted>>,
               Sending(s, m)' => sender'[s].pc \in {"count", "increment", "apply"}
        PROVE  IF row'[m].meta THEN Incoming(m)' ELSE Outgoing(m)'
    <3>1. CASE row[m].meta
      BY <2>4, <2>9, <3>1
    <3>2. CASE ~ row[m].meta
      BY <1>6, <2>1, <2>3, <2>9, <3>2 DEF Outgoing, SamePrice
    <3>3. QED
      BY <3>1, <3>2
  <2>10. ~ CountFails(s)
    BY <1>7 DEF CountFails
  <2>11. CASE ReadUsage(s)
    <3>1. sender[s].pc = "count" /\ Goto(s, "increment", usage)
      BY <2>10, <2>11 DEF ReadUsage
    <3>2. UNCHANGED <<row, paid, accepted>>
      BY <2>11 DEF ReadUsage
    <3>3. QED
      BY <2>9, <3>1, <3>2, GotoValues DEF SamePrice
  <2>12. CASE WriteUsage(s)
    <3>1. sender[s].pc = "increment" /\ Goto(s, "apply", 0)
      BY <2>10, <2>12 DEF WriteUsage
    <3>2. UNCHANGED <<row, paid, accepted>>
      BY <2>12 DEF WriteUsage
    <3>3. QED
      BY <2>9, <3>1, <3>2, GotoValues DEF SamePrice
  <2>13. CASE Apply(s)
    <3>1. sender[s].pc = "apply" /\ UNCHANGED <<paid, accepted>> /\ ~ Sending(s, m)'
      BY <2>13, LeaveValues DEF Apply, Sending
    <3>2. SamePrice(row'[m], row[m]) /\ row'[m].meta = row[m].meta
      BY <1>2, <2>13 DEF Apply, Row, SamePrice
    <3>3. QED
      BY <2>9, <3>1, <3>2
  <2>14. CASE Refund(s)
    <3>1. /\ sender[s].pc = "refund" /\ ~ row[m].meta /\ paid[m] = Estimate(m)
          /\ ~ row[m].reconciled
      BY <1>6, <2>1, <2>14 DEF Refund, Incoming, Outgoing
    <3>2. \/ PostCredit(m, Estimate(m)) /\ Goto(s, "fail", 1)
          \/ Goto(s, "fail", 0)
      BY <1>2, <2>14 DEF Refund
    <3>3. /\ sender'[s].pc = "fail" /\ UNCHANGED row
          /\ sender'[s].held = 1 => paid'[m] = 0
      <4>1. UNCHANGED row
        BY <2>14 DEF Refund
      <4>2. CASE PostCredit(m, Estimate(m)) /\ Goto(s, "fail", 1)
        <5>1. paid'[m] = paid[m] - Estimate(m)
          BY <4>2, CreditPays
        <5>2. QED
          BY <1>2, <3>1, <4>1, <4>2, <5>1, GotoValues
      <4>3. CASE Goto(s, "fail", 0)
        BY <4>1, <4>3, GotoValues
      <4>4. QED
        BY <3>2, <4>2, <4>3
    <3>4. QED
      BY <2>3, <3>1, <3>3
  <2>15. CASE Fail(s)
    <3>1. /\ sender[s].pc = "fail" /\ ~ row[m].meta /\ ~ row[m].reconciled
          /\ sender[s].held = 1 => paid[m] = 0
      BY <1>6, <2>1, <2>15 DEF Fail, Incoming, Outgoing
    <3>2. /\ ~ row'[m].meta
          /\ row'[m].reconciled => sender[s].held = 1 /\ row'[m].amount = 0
      BY <1>2, <1>7, <2>15, <3>1 DEF Fail, Row
    <3>3. UNCHANGED paid /\ ~ Sending(s, m)'
      BY <2>15, LeaveValues DEF Fail, Sending
    <3>4. QED
      BY <2>3, <3>1, <3>2, <3>3
  <2>16. QED
    BY <2>5, <2>6, <2>7, <2>8, <2>11, <2>12, <2>13, <2>14, <2>15 DEF Send
<1>8. \A h \in Hooks : hook'[h].msg = m => row'[m].meta /\ hook'[h].pc # "idle"
  BY <1>1, <1>3 DEF PriceHolds
<1>9. QED
  BY <1>3, <1>4, <1>7, <1>8 DEF PriceHolds

(* A new row costs nothing yet.                                            *)
LEMMA BeginKeepsPrice ==
    ASSUME TInv, SendStages, ChargeInv, NEW s \in Senders, Begin(s)
    PROVE  ChargeInv'
<1>1. PICK m \in Messages, kind \in Kinds, c \in Categories \union {None} :
        /\ sender[s].pc = "idle"
        /\ row[m].status = "absent"
        /\ row'[m] = NewRow(kind, c) /\ row'[m] \in Row
        /\ \A n \in Messages : n # m => row'[n] = row[n]
        /\ sender'[s].msg = m
        /\ sender'[s].pc = IF EstimatedAmount(row'[m]) > 0 THEN "debit" ELSE "meta"
        /\ \A t \in Senders : t # s => sender'[t] = sender[t]
  BY BeginValues
<1>2. UNCHANGED <<paid, accepted, hook, doubtful>>
  BY DEF Begin
<1>3. /\ row'[m].status = "pending" /\ ~ row'[m].meta /\ ~ row'[m].reconciled
      /\ EstimatedAmount(row'[m]) \in Nat
  <2>1. NewRow(kind, c).reconciled = FALSE
    BY DEF NewRow, Absent
  <2>2. NewRow(kind, c).status = "pending" /\ ~ NewRow(kind, c).meta
    BY NewRowIsRow DEF TInv
  <2>3. QED
    BY <1>1, <2>1, <2>2, AmountsAreNat
<1>4. /\ paid[m] = 0 /\ \A h \in Hooks : hook[h].msg # m
      /\ \A t \in Senders : sender[t].pc # "idle" => sender[t].msg # m
  BY <1>1 DEF ChargeInv, PriceHolds, SendStages
<1>5. PriceHolds(m)'
  <2>1. \A t \in Senders : Sending(t, m)' => t = s
    BY <1>1, <1>4 DEF Sending
  <2>2. Estimate(m)' \in Nat /\ (Estimate(m)' = 0 \/ sender'[s].pc = "debit")
        /\ sender'[s].pc \in {"debit", "meta"}
    BY <1>1, <1>3 DEF Estimate
  <2>3. Outgoing(m)'
    BY <1>2, <1>3, <1>4, <2>1, <2>2 DEF Outgoing
  <2>4. QED
    BY <1>2, <1>3, <1>4, <2>3 DEF PriceHolds
<1>6. ASSUME NEW n \in Messages, n # m PROVE PriceHolds(n)'
  <2>1. \A t \in Senders : Sending(t, n)' => sender'[t] = sender[t]
    BY <1>1, <1>6 DEF Sending
  <2>2. QED
    BY <1>1, <1>2, <1>6, <2>1, OthersKeepPrice DEF ChargeInv
<1>7. QED
  BY <1>5, <1>6 DEF ChargeInv

LEMMA SendKeepsPrice ==
    ASSUME TInv, SendStages, ChargeInv, NEW s \in Senders, Send(s)
    PROVE  ChargeInv'
<1>1. CASE Begin(s)
  BY <1>1, BeginKeepsPrice
<1>2. CASE ~ Begin(s)
  <2>1. /\ sender[s].pc # "idle" /\ sender[s].msg \in Messages
        /\ \A t \in Senders : t # s => sender'[t] = sender[t]
        /\ sender'[s].pc # "idle" => sender'[s].msg = sender[s].msg
        /\ UNCHANGED hook
    BY <1>2, SendMoves
  <2>2. ASSUME NEW n \in Messages, n # sender[s].msg PROVE PriceHolds(n)'
    <3>1. row'[n] = row[n] /\ paid'[n] = paid[n] /\ accepted'[n] = accepted[n]
      BY <1>2, <2>2, SendRows, SendPays, SendAnswers
    <3>2. \A t \in Senders : Sending(t, n)' => sender'[t] = sender[t]
      BY <2>1, <2>2 DEF Sending
    <3>3. QED
      BY <1>2, <2>1, <3>1, <3>2, SendPays, OthersKeepPrice DEF ChargeInv
  <2>3. ASSUME NEW n \in Messages, n = sender[s].msg PROVE PriceHolds(n)'
    BY <1>2, <2>3, SendKeepsOwnPrice DEF ChargeInv
  <2>4. QED
    BY <2>2, <2>3 DEF ChargeInv
<1>3. QED
  BY <1>1, <1>2

(* What a webhook about to leave, or to go on, holds.                      *)
LEMMA HookMoves ==
    ASSUME TInv, NEW h \in Hooks
    PROVE  /\ HookLeave(h) => /\ \A m \in Messages : hook'[h].msg # m
                              /\ \A g \in Hooks : g # h => hook'[g] = hook[g]
           /\ \A step, copy : HookGoto(h, step, copy) =>
                 /\ hook'[h].pc = step /\ hook'[h].copy = copy
                 /\ hook'[h].msg = hook[h].msg /\ hook'[h].moved = hook[h].moved
                 /\ hook'[h].billing = hook[h].billing /\ hook'[h].cost = hook[h].cost
                 /\ \A g \in Hooks : g # h => hook'[g] = hook[g]
           /\ \A b, cost, moved : Decide(h, b, cost, moved) =>
                 /\ hook'[h].pc = "write" /\ hook'[h].copy = hook[h].copy
                 /\ hook'[h].msg = hook[h].msg /\ hook'[h].moved = moved
                 /\ hook'[h].billing = b /\ hook'[h].cost = cost
                 /\ \A g \in Hooks : g # h => hook'[g] = hook[g]
<1>1. hook \in [Hooks -> Hook] /\ hook[h] \in Hook
  BY DEF TInv, TypeOK
<1>2. HookLeave(h) => /\ \A m \in Messages : hook'[h].msg # m
                      /\ \A g \in Hooks : g # h => hook'[g] = hook[g]
  BY <1>1, NoneAssumption DEF HookLeave, IdleHook
<1>3. ASSUME NEW step, NEW copy, HookGoto(h, step, copy)
      PROVE  /\ hook'[h].pc = step /\ hook'[h].copy = copy
             /\ hook'[h].msg = hook[h].msg /\ hook'[h].moved = hook[h].moved
             /\ hook'[h].billing = hook[h].billing /\ hook'[h].cost = hook[h].cost
             /\ \A g \in Hooks : g # h => hook'[g] = hook[g]
  BY <1>1, <1>3 DEF HookGoto, Hook
<1>4. ASSUME NEW b, NEW cost, NEW moved, Decide(h, b, cost, moved)
      PROVE  /\ hook'[h].pc = "write" /\ hook'[h].copy = hook[h].copy
             /\ hook'[h].msg = hook[h].msg /\ hook'[h].moved = moved
             /\ hook'[h].billing = b /\ hook'[h].cost = cost
             /\ \A g \in Hooks : g # h => hook'[g] = hook[g]
  BY <1>1, <1>4 DEF Decide, Hook
<1>5. QED
  BY <1>2, <1>3, <1>4

(* instance.update gives the columns of the price the values the handler   *)
(* wants, where its copy of them was still good; kind and id stay.         *)
LEMMA AssignedPrice ==
    ASSUME NEW current \in Row, NEW copy \in Row, NEW new \in Row,
           new.kind = copy.kind, new.meta = copy.meta, new.estimated = copy.estimated,
           new.estimate = copy.estimate
    PROVE  LET r == Assigned(current, copy, new)
           IN  /\ r.kind = current.kind /\ r.meta = current.meta
               /\ r.estimated = current.estimated /\ r.estimate = current.estimate
               /\ SamePrice(copy, current) => SamePrice(new, r)
BY DEF Assigned, Row, SamePrice

(* A webhook only works on its own message.                                *)
LEMMA WebhookMoves ==
    ASSUME TInv, NEW h \in Hooks, Webhook(h), ~ FindRow(h)
    PROVE  /\ hook[h].pc # "idle" /\ hook[h].msg \in Messages
           /\ UNCHANGED <<accepted, sender>>
           /\ doubtful \subseteq doubtful'
           /\ \A g \in Hooks : g # h => hook'[g] = hook[g]
           /\ hook'[h].msg \in Messages => /\ hook'[h].msg = hook[h].msg
                                         /\ hook'[h].pc # "idle"
           /\ \A n \in Messages : n # hook[h].msg => /\ row'[n] = row[n]
                                                     /\ paid'[n] = paid[n]
<1> DEFINE m == hook[h].msg
           delta == EstimatedAmount(hook[h].copy)
                      - ActualAmount(hook[h].copy, accepted[m])
<1>1. /\ hook[h].pc # "idle" /\ UNCHANGED <<accepted, sender>>
      /\ doubtful \subseteq doubtful'
  BY DEF Webhook, UpdateStatus, SettleFree, Reconcile, WriteBilling, HookAt
<1>2. m \in Messages
  BY <1>1 DEF TInv, HandlersHoldMessages
<1>3. \/ HookLeave(h)
      \/ \E copy : HookGoto(h, "price", copy)
      \/ \E b, cost, moved : Decide(h, b, cost, moved)
  BY DEF Webhook, UpdateStatus, SettleFree, Reconcile, WriteBilling
<1>4. UNCHANGED row \/ \E x : row' = [row EXCEPT ![m] = x]
  BY DEF Webhook, UpdateStatus, SettleFree, Reconcile, WriteBilling
<1>5. \A n \in Messages : n # m => row'[n] = row[n]
  BY <1>2, <1>4 DEF TInv, TypeOK
<1>6. \/ UNCHANGED paid
      \/ PostCredit(m, delta)
      \/ PostDebit(m, "message_adjustment", -delta)
  BY DEF Webhook, UpdateStatus, SettleFree, Reconcile, WriteBilling, NoPosting
<1> HIDE DEF delta
<1>7. \A n \in Messages : n # m => paid'[n] = paid[n]
  BY <1>2, <1>6, DebitPays, CreditPays
<1>8. /\ \A g \in Hooks : g # h => hook'[g] = hook[g]
      /\ hook'[h].msg \in Messages => /\ hook'[h].msg = hook[h].msg
                                      /\ hook'[h].pc # "idle"
  BY <1>3, HookMoves
<1>9. QED
  BY <1>1, <1>2, <1>5, <1>7, <1>8

(* A webhook that finds its row takes a fresh copy of it; a second one     *)
(* makes the message doubtful.                                             *)
LEMMA FindKeepsPrice ==
    ASSUME TInv, ChargeInv, NEW h \in Hooks, FindRow(h)
    PROVE  ChargeInv'
<1>1. PICK m \in Messages, x \in Reported, priced \in BOOLEAN :
        /\ row[m].meta
        /\ hook' = [hook EXCEPT ![h] = [IdleHook EXCEPT !.pc = "update", !.msg = m,
                                                       !.status = x, !.priced = priced,
                                                       !.copy = row[m]]]
        /\ doubtful' = IF \E g \in Hooks : hook[g].msg = m THEN doubtful \union {m}
                       ELSE doubtful
  BY DEF FindRow
<1>2. UNCHANGED <<row, paid, accepted, sender>> /\ hook[h].pc = "idle"
  BY DEF FindRow, HookAt
<1>3. /\ hook'[h].pc = "update" /\ hook'[h].msg = m /\ hook'[h].copy = row[m]
      /\ hook'[h].moved = FALSE
      /\ \A g \in Hooks : g # h => hook'[g] = hook[g]
  BY <1>1 DEF TInv, TypeOK, IdleHook
<1>4. doubtful \subseteq doubtful' /\ \A n \in Messages : hook[h].msg # n
  BY <1>1, <1>2 DEF ChargeInv, PriceHolds
<1>5. ASSUME NEW n \in Messages, n # m PROVE PriceHolds(n)'
  BY <1>2, <1>3, <1>4, <1>5, OthersKeepPrice DEF ChargeInv, Sending
<1>6. PriceHolds(m)'
  <2>1. PriceHolds(m)
    BY DEF ChargeInv
  <2>2. ASSUME row[m].kind = "template", m \notin doubtful' PROVE Incoming(m)'
    <3>1. Incoming(m) /\ \A g \in Hooks : hook[g].msg # m
      BY <1>1, <2>1, <2>2 DEF PriceHolds
    <3>2. Settling(h, m)'
      BY <1>2, <1>3 DEF Settling, SamePrice
    <3>3. /\ Estimate(m)' = Estimate(m) /\ Category(m)' = Category(m)
          /\ \A s \in Senders : Sending(s, m)' <=> Sending(s, m)
      BY <1>2 DEF Estimate, Category, Sending
    <3>4. Asked(m)' = Asked(m)
      BY <1>2, <3>3, AskedStays
    <3>5. \A g \in Hooks : hook'[g].msg = m => Settling(g, m)'
      BY <1>3, <3>1, <3>2
    <3>6. QED
      BY <1>2, <1>3, <3>1, <3>3, <3>4, <3>5 DEF Incoming
  <2>3. \A g \in Hooks : hook'[g].msg = m => row'[m].meta /\ hook'[g].pc # "idle"
    BY <1>1, <1>2, <1>3, <2>1 DEF PriceHolds
  <2>4. QED
    BY <1>1, <1>2, <2>1, <2>2, <2>3 DEF PriceHolds
<1>7. QED
  BY <1>5, <1>6 DEF ChargeInv

(* Every other step of a webhook keeps what is true of its own message.    *)
LEMMA WebhookKeepsOwnPrice ==
    ASSUME TInv, NEW h \in Hooks, Webhook(h), ~ FindRow(h),
           NEW m \in Messages, hook[h].msg = m, PriceHolds(m)
    PROVE  PriceHolds(m)'
<1> DEFINE copy == hook[h].copy
<1>1. /\ hook[h].pc # "idle" /\ UNCHANGED <<accepted, sender>>
      /\ doubtful \subseteq doubtful'
      /\ \A g \in Hooks : g # h => hook'[g] = hook[g]
      /\ hook'[h].msg \in Messages => /\ hook'[h].msg = m
                                      /\ hook'[h].pc # "idle"
  BY WebhookMoves
<1>2. /\ row[m] \in Row /\ row \in [Messages -> Row] /\ paid[m] \in Int /\ copy \in Row
      /\ Estimate(m) \in Nat /\ EstimatedAmount(row[m]) = Estimate(m)
      /\ ActualAmount(copy, accepted[m]) \in Nat /\ hook[h].cost \in Nat
      /\ ActualCategory(copy, accepted[m]) \in Categories \union {None}
      /\ hook[h].billing \in BillingStatuses /\ hook[h].moved \in BOOLEAN
  BY <1>1, HookValues, AmountsAreNat DEF TInv, TypeOK, Estimate
<1>3. row[m].meta
  BY <1>1 DEF PriceHolds
<1> HIDE DEF copy
<1>4. ASSUME NEW new \in Row, row' = [row EXCEPT ![m] = Assigned(@, copy, new)],
             new.kind = copy.kind, new.meta = copy.meta, new.estimated = copy.estimated,
             new.estimate = copy.estimate
      PROVE  /\ row'[m].kind = row[m].kind /\ row'[m].meta
             /\ Estimate(m)' = Estimate(m) /\ Category(m)' = Category(m)
             /\ SamePrice(copy, row[m]) => SamePrice(new, row'[m])
  <2>1. row'[m] = Assigned(row[m], copy, new)
    BY <1>2, <1>4
  <2>2. /\ row'[m].kind = row[m].kind /\ row'[m].meta = row[m].meta
        /\ row'[m].estimated = row[m].estimated
        /\ row'[m].estimate = row[m].estimate
        /\ SamePrice(copy, row[m]) => SamePrice(new, row'[m])
    BY <1>2, <1>4, <2>1, AssignedPrice
  <2>3. QED
    BY <1>1, <1>3, <2>2 DEF Estimate, EstimatedAmount, Category, ActualCategory
(* The step keeps the row, or what the handler writes keeps its kind.      *)
<1>5. ASSUME row'[m].kind = row[m].kind, row'[m].meta, row'[m].status # "absent",
             (row[m].kind = "template" /\ m \notin doubtful' /\ Incoming(m)) => Incoming(m)'
      PROVE  PriceHolds(m)'
  BY <1>1, <1>3, <1>5 DEF PriceHolds
<1>6. row'[m].status # "absent"
  BY <1>3, WebhookRows DEF PriceHolds
<1>7. ASSUME Incoming(m)
      PROVE  /\ SamePrice(copy, row[m]) /\ Settling(h, m)
             /\ \A g \in Hooks : hook[g].msg = m => g = h
             /\ EstimatedAmount(copy) = Estimate(m)
             /\ ActualCategory(copy, accepted[m]) = Category(m)
  BY <1>7, EstimateStays
     DEF Incoming, Settling, SamePrice, Estimate, Category, ActualCategory, copy
(* The row is settled by now, or has cost the estimate.                    *)
<1>8. ASSUME Incoming(m), Estimate(m)' = Estimate(m), Category(m)' = Category(m),
             hook'[h].msg = m => Settling(h, m)',
             ~ (hook'[h].msg = m /\ hook'[h].moved) =>
                  paid'[m] = IF row'[m].reconciled THEN row'[m].amount ELSE Estimate(m),
             row'[m].meta,
             row'[m].reconciled => row'[m].actual = Category(m) /\ row'[m].amount \in Asked(m)
      PROVE  Incoming(m)'
  <2>1. \A g \in Hooks : hook'[g].msg = m => g = h
    BY <1>1, <1>7, <1>8
  <2>2. \A s \in Senders : Sending(s, m)' <=> Sending(s, m)
    BY <1>1 DEF Sending
  <2>3. Asked(m)' = Asked(m)
    BY <1>1, <1>3, <1>8, AskedStays
  <2>4. QED
    BY <1>1, <1>3, <1>8, <2>1, <2>2, <2>3 DEF Incoming
<1>9. CASE UpdateStatus(h)
  <2> DEFINE new == IF Forward(copy.status, hook[h].status)
                    THEN [copy EXCEPT !.status = hook[h].status] ELSE copy
  <2>1. /\ row' = [row EXCEPT ![m] = Assigned(@, copy, new)]
        /\ HookGoto(h, "price", new) \/ HookLeave(h)
        /\ UNCHANGED paid /\ hook[h].pc = "update"
    BY <1>9 DEF UpdateStatus, HookAt, copy
  <2>2. hook[h].status \in Statuses
    BY <1>1, HookValues
  <2>3. /\ new \in Row /\ SamePrice(new, copy) /\ new.meta = copy.meta
    BY <1>2, <2>2 DEF Row, SamePrice
  <2> HIDE DEF new
  <2>4. /\ row'[m].kind = row[m].kind /\ row'[m].meta
        /\ Estimate(m)' = Estimate(m) /\ Category(m)' = Category(m)
        /\ SamePrice(copy, row[m]) => SamePrice(new, row'[m])
    BY <1>4, <2>1, <2>3 DEF SamePrice
  <2>5. ASSUME Incoming(m) PROVE Incoming(m)'
    <3>1. SamePrice(new, row'[m]) /\ SamePrice(row'[m], row[m]) /\ ~ hook[h].moved
      BY <1>7, <2>1, <2>3, <2>4, <2>5 DEF SamePrice, Settling
    <3>2. hook'[h].msg = m =>
             /\ hook'[h].pc = "price" /\ hook'[h].copy = new /\ ~ hook'[h].moved
      BY <2>1, <3>1, HookMoves
    <3>3. hook'[h].msg = m => Settling(h, m)'
      BY <3>1, <3>2 DEF Settling
    <3>4. /\ paid'[m] = IF row'[m].reconciled THEN row'[m].amount ELSE Estimate(m)
          /\ row'[m].reconciled => /\ row'[m].actual = Category(m)
                                   /\ row'[m].amount \in Asked(m)
      BY <1>7, <2>1, <2>5, <3>1 DEF Incoming, SamePrice
    <3>5. QED
      BY <1>8, <2>4, <2>5, <3>3, <3>4
  <2>6. QED
    BY <1>5, <1>6, <2>4, <2>5
<1>10. CASE SettleFree(h)
  <2> DEFINE new == [copy EXCEPT !.actual = ActualCategory(copy, accepted[m]), !.amount = 0,
                                 !.billing = "free", !.reconciled = TRUE]
  <2>1. /\ row' = [row EXCEPT ![m] = Assigned(@, copy, new)]
        /\ ~ IsWalletBilled(copy)
    BY <1>10 DEF SettleFree, copy
  <2>2. new \in Row /\ new.kind = copy.kind /\ new.meta = copy.meta
        /\ new.estimated = copy.estimated /\ new.estimate = copy.estimate
    BY <1>2 DEF Row, BillingStatuses
  <2> HIDE DEF new
  <2>3. row'[m].kind = row[m].kind /\ row'[m].meta
    BY <1>4, <2>1, <2>2
  <2>4. Incoming(m) => row[m].kind # "template"
    BY <1>7, <2>1 DEF IsWalletBilled, SamePrice
  <2>5. QED
    BY <1>5, <1>6, <2>3, <2>4
<1>11. CASE Reconcile(h)
  <2>1. UNCHANGED row /\ hook[h].pc = "price" /\ IsWalletBilled(copy)
    BY <1>11 DEF Reconcile, HookAt, copy
  <2>2. Estimate(m)' = Estimate(m) /\ Category(m)' = Category(m)
    BY <1>1, <2>1 DEF Estimate, Category
  <2>3. ASSUME Incoming(m), m \notin doubtful' PROVE Incoming(m)'
    <3> DEFINE cost == ActualAmount(copy, accepted[m])
               delta == Estimate(m) - cost
    <3>1. ~ hook[h].moved
      BY <1>7, <2>1, <2>3 DEF Settling
    <3>2. /\ paid[m] = IF row[m].reconciled THEN row[m].amount ELSE Estimate(m)
          /\ row[m].reconciled => row[m].actual = Category(m) /\ row[m].amount \in Asked(m)
          /\ row'[m].meta
      BY <1>3, <1>7, <2>1, <2>3, <3>1 DEF Incoming
    <3>3. \/ HookLeave(h) /\ NoPosting
          \/ /\ ~ AlreadySettled(copy, accepted[m]) /\ ~ Repriced(copy, cost)
             /\ \/ delta > 0 /\ PostCredit(m, delta) /\ Decide(h, "reconciled", cost, TRUE)
                \/ /\ delta < 0 /\ PostDebit(m, "message_adjustment", -delta)
                   /\ Decide(h, "adjusted", cost, TRUE)
                \/ delta = 0 /\ NoPosting /\ Decide(h, "reconciled", cost, FALSE)
                \/ delta # 0 /\ NoPosting /\ Decide(h, "adjustment_failed", cost, FALSE)
      <4>1. /\ ActualAmount(hook[h].copy, accepted[hook[h].msg]) = cost
            /\ EstimatedAmount(hook[h].copy) - cost = delta
        BY <1>2, <1>7, <2>3 DEF copy
      <4> HIDE DEF delta, cost
      <4>2. QED
        BY <1>11, <2>3, <4>1 DEF Reconcile, copy
    <3>4. CASE HookLeave(h) /\ NoPosting
      <4>1. hook'[h].msg # m /\ UNCHANGED paid
        BY <3>4, HookMoves DEF NoPosting
      <4>2. QED
        BY <1>8, <2>1, <2>2, <2>3, <3>2, <4>1
    <3>5. ASSUME ~ AlreadySettled(copy, accepted[m]), ~ Repriced(copy, cost)
          PROVE  /\ row[m].reconciled => row[m].amount = Estimate(m)
                 /\ paid[m] = Estimate(m)
      BY <1>2, <1>7, <2>3, <3>2, <3>5
         DEF AlreadySettled, Repriced, SamePrice, ActualCategory
    <3>6. ASSUME ~ AlreadySettled(copy, accepted[m]), ~ Repriced(copy, cost),
                 NEW b, NEW moved \in BOOLEAN,
                 Decide(h, b, cost, moved),
                 moved => b # "adjustment_failed" /\ paid'[m] = cost,
                 ~ moved => /\ paid'[m] = Estimate(m)
                            /\ b # "adjustment_failed" => Estimate(m) = cost
          PROVE  Incoming(m)'
      <4>1. row[m].reconciled => row[m].amount = Estimate(m)
        BY <3>5, <3>6
      <4>2. /\ hook'[h].pc = "write" /\ hook'[h].copy = copy /\ hook'[h].msg = m
            /\ hook'[h].moved = moved /\ hook'[h].billing = b
            /\ hook'[h].cost = cost
        BY <3>6, HookMoves DEF copy
      <4>3. Settling(h, m)'
        <5>1. cost \in Asked(m)
          BY <1>2, <1>3, <1>7, <2>3
             DEF Asked, ActualAmount, PriceNow, Category, TInv, TypeOK
        <5>2. Asked(m)' = Asked(m)
          BY <1>1, <2>1, <2>2, AskedStays
        <5> HIDE DEF cost
        <5>3. QED
          BY <1>3, <1>7, <2>1, <2>2, <2>3, <3>6, <4>1, <4>2, <5>1, <5>2 DEF Settling
      <4>4. QED
        BY <1>8, <2>1, <2>2, <2>3, <3>2, <3>6, <4>1, <4>2, <4>3
    <3>7. CASE /\ ~ AlreadySettled(copy, accepted[m]) /\ ~ Repriced(copy, cost)
               /\ delta > 0 /\ PostCredit(m, delta) /\ Decide(h, "reconciled", cost, TRUE)
      <4>1. paid'[m] = paid[m] - delta
        BY <3>7, CreditPays
      <4>2. paid'[m] = cost
        BY <1>2, <3>2, <3>5, <3>7, <4>1
      <4>3. QED
        BY <3>6, <3>7, <4>2
    <3>8. CASE /\ ~ AlreadySettled(copy, accepted[m]) /\ ~ Repriced(copy, cost)
               /\ delta < 0 /\ PostDebit(m, "message_adjustment", -delta)
               /\ Decide(h, "adjusted", cost, TRUE)
      <4>1. paid'[m] = paid[m] + (-delta)
        BY <3>8, DebitPays
      <4>2. paid'[m] = cost
        BY <1>2, <3>2, <3>5, <3>8, <4>1
      <4>3. QED
        BY <3>6, <3>8, <4>2
    <3>9. CASE /\ ~ AlreadySettled(copy, accepted[m]) /\ ~ Repriced(copy, cost)
               /\ delta = 0 /\ NoPosting /\ Decide(h, "reconciled", cost, FALSE)
      <4>1. paid'[m] = Estimate(m) /\ Estimate(m) = cost
        BY <1>2, <3>2, <3>5, <3>9 DEF NoPosting
      <4>2. QED
        BY <3>6, <3>9, <4>1
    <3>10. CASE /\ ~ AlreadySettled(copy, accepted[m]) /\ ~ Repriced(copy, cost)
                /\ delta # 0 /\ NoPosting /\ Decide(h, "adjustment_failed", cost, FALSE)
      <4>1. paid'[m] = Estimate(m)
        BY <3>2, <3>5, <3>10 DEF NoPosting
      <4>2. QED
        BY <3>6, <3>10, <4>1
    <3> HIDE DEF delta, cost
    <3>11. QED
      BY <3>3, <3>4, <3>7, <3>8, <3>9, <3>10
  <2>4. QED
    BY <1>3, <1>5, <1>6, <2>1, <2>3
<1>12. CASE WriteBilling(h)
  <2> DEFINE new == [copy EXCEPT !.actual = ActualCategory(copy, accepted[m]),
                                 !.amount = hook[h].cost,
                                 !.billing = hook[h].billing,
                                 !.adjustment = copy.adjustment \/ hook[h].moved,
                                 !.reconciled = hook[h].billing # "adjustment_failed"]
  <2>1. /\ row' = [row EXCEPT ![m] = Assigned(@, copy, new)]
        /\ HookLeave(h) /\ UNCHANGED paid /\ hook[h].pc = "write"
    BY <1>12, <1>2 DEF WriteBilling, HookAt, copy
  <2>2. /\ new \in Row /\ new.kind = copy.kind /\ new.meta = copy.meta
        /\ new.estimated = copy.estimated /\ new.estimate = copy.estimate
        /\ new.reconciled <=> hook[h].billing # "adjustment_failed"
        /\ new.amount = hook[h].cost /\ new.actual = ActualCategory(copy, accepted[m])
    <3>1. new.reconciled = (hook[h].billing # "adjustment_failed")
      BY <1>2 DEF Row
    <3>2. new \in Row
      <4> DEFINE adjusted == copy.adjustment \/ hook[h].moved
                 settled == hook[h].billing # "adjustment_failed"
                 price == hook[h].cost
                 c == ActualCategory(copy, accepted[m])
                 b == hook[h].billing
      <4>1. new = [copy EXCEPT !.actual = c, !.amount = price, !.billing = b,
                               !.adjustment = adjusted, !.reconciled = settled]
        OBVIOUS
      <4>2. /\ copy \in Row /\ c \in Categories \union {None}
            /\ price \in Nat /\ b \in BillingStatuses
            /\ adjusted \in BOOLEAN /\ settled \in BOOLEAN
        BY <1>2
      <4> HIDE DEF new, adjusted, settled, price, c, b
      <4>3. QED
        BY <4>1, <4>2, BilledRowsAreRows
    <3>3. /\ new.kind = copy.kind /\ new.meta = copy.meta
          /\ new.estimated = copy.estimated /\ new.estimate = copy.estimate
          /\ new.amount = hook[h].cost /\ new.actual = ActualCategory(copy, accepted[m])
      BY <1>2 DEF Row
    <3> HIDE DEF new
    <3>5. QED
      BY <3>1, <3>2, <3>3
  <2> HIDE DEF new
  <2>3. /\ row'[m].kind = row[m].kind /\ row'[m].meta
        /\ Estimate(m)' = Estimate(m) /\ Category(m)' = Category(m)
        /\ SamePrice(copy, row[m]) => SamePrice(new, row'[m])
    BY <1>4, <2>1, <2>2
  <2>4. ASSUME Incoming(m) PROVE Incoming(m)'
    <3>1. /\ SamePrice(new, row'[m])
          /\ row[m].reconciled => row[m].amount = Estimate(m)
          /\ hook[h].moved => /\ hook[h].billing # "adjustment_failed"
                              /\ paid[m] = hook[h].cost
          /\ hook[h].billing # "adjustment_failed" /\ ~ hook[h].moved
                => Estimate(m) = hook[h].cost
          /\ hook[h].cost \in Asked(m)
      BY <1>7, <2>1, <2>3, <2>4 DEF Settling
    <3>2. ~ hook[h].moved => paid[m] = Estimate(m)
      BY <1>7, <2>4, <3>1 DEF Incoming
    <3>3. /\ row'[m].reconciled <=> hook[h].billing # "adjustment_failed"
          /\ row'[m].amount = hook[h].cost /\ row'[m].actual = Category(m)
      BY <1>7, <2>2, <2>4, <3>1 DEF SamePrice
    <3>4. paid'[m] = IF row'[m].reconciled THEN row'[m].amount ELSE Estimate(m)
      BY <2>1, <3>1, <3>2, <3>3
    <3>5. hook'[h].msg # m
      BY <2>1, HookMoves
    <3>6. QED
      BY <1>8, <2>3, <2>4, <3>1, <3>3, <3>4, <3>5
  <2>5. QED
    BY <1>5, <1>6, <2>3, <2>4
<1>13. QED
  BY <1>9, <1>10, <1>11, <1>12 DEF Webhook

LEMMA WebhookKeepsPrice ==
    ASSUME TInv, ChargeInv, NEW h \in Hooks, Webhook(h)
    PROVE  ChargeInv'
<1>1. CASE FindRow(h)
  BY <1>1, FindKeepsPrice
<1>2. CASE ~ FindRow(h)
  <2>1. /\ hook[h].msg \in Messages /\ UNCHANGED <<accepted, sender>>
        /\ doubtful \subseteq doubtful'
        /\ \A g \in Hooks : g # h => hook'[g] = hook[g]
        /\ hook'[h].msg \in Messages => hook'[h].msg = hook[h].msg
        /\ \A n \in Messages : n # hook[h].msg => row'[n] = row[n] /\ paid'[n] = paid[n]
    BY <1>2, WebhookMoves
  <2>2. ASSUME NEW n \in Messages, n # hook[h].msg PROVE PriceHolds(n)'
    BY <2>1, <2>2, OthersKeepPrice DEF ChargeInv, Sending
  <2>3. ASSUME NEW n \in Messages, n = hook[h].msg PROVE PriceHolds(n)'
    BY <1>2, <2>3, WebhookKeepsOwnPrice DEF ChargeInv
  <2>4. QED
    BY <2>2, <2>3 DEF ChargeInv
<1>3. QED
  BY <1>1, <1>2

(* A crash ends every send and webhook, and makes those that had moved     *)
(* money doubtful.                                                         *)
LEMMA CrashKeepsPrice ==
    ASSUME TInv, ChargeInv, Crash
    PROVE  ChargeInv'
<1>1. /\ UNCHANGED <<row, paid, accepted>> /\ doubtful \subseteq doubtful'
      /\ \A h \in Hooks : hook[h].moved => hook[h].msg \in doubtful'
      /\ \A s \in Senders : sender'[s].pc = "idle"
      /\ \A h \in Hooks, m \in Messages : hook'[h].msg # m
  BY NoneAssumption DEF Crash, IdleSender, IdleHook
<1>2. ASSUME NEW m \in Messages PROVE PriceHolds(m)'
  <2>1. /\ PriceHolds(m) /\ \A s \in Senders : ~ Sending(s, m)'
        /\ Estimate(m)' = Estimate(m) /\ Category(m)' = Category(m)
        /\ Asked(m)' = Asked(m)
    BY <1>1 DEF ChargeInv, Sending, Estimate, Category, Asked
  <2>2. Outgoing(m) => Outgoing(m)'
    BY <1>1, <2>1 DEF Outgoing
  <2>3. Incoming(m) /\ m \notin doubtful' => Incoming(m)'
    BY <1>1, <2>1 DEF Incoming
  <2>4. QED
    BY <1>1, <2>1, <2>2, <2>3 DEF PriceHolds
<1>3. QED
  BY <1>2 DEF ChargeInv

LEMMA StepPrice == TInv /\ SendStages /\ ChargeInv /\ [Next]_vars => ChargeInv'
<1>1. TInv /\ ChargeInv /\ UNCHANGED vars => ChargeInv'
  <2> SUFFICES ASSUME TInv, ChargeInv, UNCHANGED vars PROVE ChargeInv'
    OBVIOUS
  <2>1. /\ UNCHANGED <<row, paid, accepted, doubtful, sender, hook>>
    BY DEF vars
  <2>2. QED
    BY <2>1, OthersKeepPrice DEF ChargeInv
<1>2. TInv /\ ChargeInv /\ ChangePlan => ChargeInv'
  BY PlanLeavesAll, OthersKeepPrice DEF ChargeInv, Sending
<1>3. QED
  BY <1>1, <1>2, SendKeepsPrice, WebhookKeepsPrice, CrashKeepsPrice DEF Next

(* A template message whose price is settled has cost what its row says,   *)
(* which is the price of Meta's pricing in some plan, and nothing for a    *)
(* send that failed and was refunded: with any number of sends, webhooks,  *)
(* plans and pricings, a plan that changes between the estimate and the    *)
(* reconciliation, refused adjustments and crashes, outside of the doubt   *)
(* that a fault, two webhooks of one message at once, or a second          *)
(* reconciliation at the price of another plan leave.                      *)
THEOREM SettledAsReported == Spec => []ChargedAsReported
<1>1. Init => ChargeInv
  <2> SUFFICES ASSUME Init, NEW m \in Messages PROVE PriceHolds(m)
    BY DEF ChargeInv
  <2>1. /\ row[m] = Absent /\ paid[m] = 0
        /\ \A h \in Hooks : hook[h].msg # m
    BY NoneAssumption DEF Init, IdleHook
  <2>2. row[m].kind = "direct" /\ ~ row[m].meta
    BY <2>1 DEF Absent
  <2>3. QED
    BY <2>1, <2>2 DEF PriceHolds
<1>2. ChargeInv => ChargedAsReported
  <2> SUFFICES ASSUME ChargeInv, NEW m \in Messages, Settled(m)
               PROVE  paid[m] = row[m].amount /\ row[m].amount \in Asked(m)
    BY DEF ChargedAsReported
  <2>1. PriceHolds(m)
    BY DEF ChargeInv
  <2>2. ~ row[m].meta => Asked(m) = {0}
    BY DEF Asked
  <2>3. QED
    BY <2>1, <2>2 DEF PriceHolds, Incoming, Outgoing, Settled
<1>3. QED
  BY <1>1, <1>2, StepPrice, AlwaysTyped, AlwaysStaged, PTL DEF Spec
=============================================================================
