---------------------------- MODULE Subscription ----------------------------
(***************************************************************************)
(* subscription-service, for one user: checkouts (subscribe, changePlan,   *)
(* verifyPayment), the user's cancellation and auto-renewal switch, and    *)
(* the sweep that renews or expires what is due.  Requests and sweeps are  *)
(* handled concurrently; each await is a point where the others may step   *)
(* in.  Money is taken by a keyed debit of wallet-service, or by a payment *)
(* of a Razorpay order.  What the wallet holds depends on everything else  *)
(* it pays for, so that a debit may be refused at any time.                *)
(***************************************************************************)
EXTENDS Integers, Sequences, FiniteSets

CONSTANTS Requests,      \* the user's requests in flight
          Sweeps,        \* runs of the renewal sweep in flight
          Plans,
          Term,          \* how long a plan lasts, 0 for a lifetime
          Free,          \* <<plan, with coupon>> whose total is zero
          Grace,         \* config.renewal.gracePeriodMs
          Retry,         \* config.renewal.retryIntervalMs
          MaxUses,       \* max_uses of the coupon
          Elsewhere,     \* {0} if the user has paid an order of something else, or {}
          None,          \* "no plan"
          MaxTime,       \* bound: the clock
          MaxCheckouts,  \* bound: rows created by checkouts
          MaxSwitches,   \* bound: changes of auto-renewal
          MaxFaults      \* bound: lost answers, unreached services and crashes

ASSUME TermAssumption == Term \in [Plans -> Nat] /\ None \notin Plans
ASSUME FreeAssumption == Free \subseteq Plans \X BOOLEAN
ASSUME ElsewhereAssumption == Elsewhere \subseteq {0}
ASSUME TimeAssumption == Grace \in Nat /\ Retry \in Nat \ {0} /\ MaxTime \in Nat

VARIABLES rows,       \* sub_subscriptions, in the order of created_at
          book,       \* keys of the debits wallet-service has posted
          ordered,    \* rows with a Razorpay order; 0 is an order of something else
          paid,       \* those whose order the user has paid
          used,       \* used_count of the coupon
          now,        \* the date
          request, sweep,
          overlapped, \* history: two checkouts were in flight at once
          crowded,    \* history: two sweeps were
          switches, faults

vars == <<rows, book, ordered, paid, used, now, request, sweep,
          overlapped, crowded, switches, faults>>

-----------------------------------------------------------------------------
(* Rows.                                                                   *)

Date == Nat \union {-1}
Never == -1
Elapsed(date) == date # Never /\ date <= now

Row == [status : {"pending", "active", "expired", "cancelled", "removed"},
        plan : Plans, method : {"free", "wallet", "razorpay"}, coupon : BOOLEAN,
        replaces : Nat, renewal : BOOLEAN, expires : Date,
        auto : BOOLEAN, grace : Date, next : Date, attempts : Nat]

Ids == 1 .. Len(rows)
With(status) == {i \in Ids : rows[i].status = status}
Latest(i, ids) == i \in ids /\ \A k \in ids : k <= i

(* isAutoRenewEligiblePlan, calculateDates.                                *)
Renewable(plan) == Term[plan] > 0
Expiry(plan, start) == IF Renewable(plan) THEN start + Term[plan] ELSE Never

NewRow(plan, method, coupon, replaces) ==
    [status |-> "pending", plan |-> plan, method |-> method, coupon |-> coupon,
     replaces |-> replaces, renewal |-> FALSE, expires |-> Expiry(plan, now),
     auto |-> FALSE, grace |-> Never, next |-> Never, attempts |-> 0]

(* finalizeRenewalSuccess: the new cycle starts where the old one ended.   *)
RenewedRow(i) ==
    [rows[i] EXCEPT !.method = IF <<rows[i].plan, FALSE>> \in Free THEN "free" ELSE "wallet",
                    !.status = "active", !.coupon = FALSE, !.replaces = i, !.renewal = TRUE,
                    !.expires = Expiry(rows[i].plan, rows[i].expires),
                    !.auto = TRUE, !.grace = Never, !.next = Never, !.attempts = 0]

CheckoutKey(i) == <<i, 0>>
RenewalKey(i, attempt) == <<i, attempt>>

-----------------------------------------------------------------------------
(* Requests and sweeps.                                                    *)

Request == [pc : {"idle", "find", "remove", "create", "debit", "activate",
                  "fallback", "order", "cancel", "switch"},
            id : Nat, plan : Plans \union {None}, coupon : BOOLEAN,
            replaces : Nat, on : BOOLEAN, copy : [auto : BOOLEAN, next : Date]]
Idle == [pc |-> "idle", id |-> 0, plan |-> None, coupon |-> FALSE, replaces |-> 0,
         on |-> FALSE, copy |-> [auto |-> FALSE, next |-> Never]]

InCheckout(q) == request[q].pc \notin {"idle", "cancel", "switch"}

Sweep == [pc : {"idle", "next", "charge", "renew", "failed"},
          due : SUBSET (Nat \X Row), id : Nat, grace : Date, attempt : Nat]
Resting == [pc |-> "idle", due |-> {}, id |-> 0, grace |-> Never, attempt |-> 0]

TypeOK == /\ rows \in Seq(Row)
          /\ book \subseteq Nat \X Nat
          /\ ordered \subseteq Nat /\ paid \subseteq ordered
          /\ used \in Nat
          /\ now \in Nat
          /\ request \in [Requests -> Request]
          /\ sweep \in [Sweeps -> Sweep]
          /\ overlapped \in BOOLEAN /\ crowded \in BOOLEAN
          /\ switches \in Nat /\ faults \in Nat

history == <<overlapped, crowded, switches>>
money == <<book, ordered, paid>>

Fault == faults < MaxFaults /\ faults' = faults + 1
NoFault == UNCHANGED faults

Leave(q) == request' = [request EXCEPT ![q] = Idle]
Goto(q, step) == request' = [request EXCEPT ![q].pc = step]

-----------------------------------------------------------------------------
(* A checkout.                                                             *)

Checkouts == Cardinality({i \in Ids : ~ rows[i].renewal})
                 + Cardinality({q \in Requests : InCheckout(q)})

BeginCheckout(q, plan, coupon, replaces) ==
    /\ request[q].pc = "idle"
    /\ Checkouts < MaxCheckouts
    /\ request' = [request EXCEPT ![q] =
          [Idle EXCEPT !.pc = "find", !.plan = plan, !.coupon = coupon,
                       !.replaces = replaces]]
    /\ overlapped' = (overlapped \/ \E r \in Requests : InCheckout(r))
    /\ UNCHANGED <<rows, money, used, now, sweep, crowded, switches, faults>>

Subscribe(q) ==
    /\ With("active") = {}
    /\ \E plan \in Plans, coupon \in BOOLEAN : BeginCheckout(q, plan, coupon, 0)

ChangePlan(q) ==
    \E i \in With("active"), plan \in Plans, coupon \in BOOLEAN :
        /\ plan # rows[i].plan
        /\ BeginCheckout(q, plan, coupon, i)

PendingOfWallet == {i \in With("pending") : rows[i].method = "wallet"}

(* Mutant: a checkout left pending is not looked for.                      *)
FindNone(q) ==
    /\ request[q].pc = "find"
    /\ Goto(q, "remove")
    /\ UNCHANGED <<rows, money, used, now, sweep, history, faults>>

(* resumePendingWalletCheckout: the latest one is charged, whatever plan   *)
(* this request asks for, and does not fall back to Razorpay.              *)
FindPending(q) ==
    /\ request[q].pc = "find"
    /\ \/ PendingOfWallet = {} /\ Goto(q, "remove")
       \/ \E i \in PendingOfWallet :
             /\ Latest(i, PendingOfWallet)
             /\ request' = [request EXCEPT ![q] = [Idle EXCEPT !.pc = "debit", !.id = i]]
    /\ UNCHANGED <<rows, money, used, now, sweep, history, faults>>

Removed(s, ids) == [i \in DOMAIN s |-> IF i \in ids THEN [s[i] EXCEPT !.status = "removed"]
                                       ELSE s[i]]

RemovePending(q) ==
    /\ request[q].pc = "remove"
    /\ rows' = Removed(rows, With("pending"))
    /\ Goto(q, "create")
    /\ UNCHANGED <<money, used, now, sweep, history, faults>>

(* The coupon is used up.                                                  *)
RefuseCoupon(q) ==
    /\ request[q].pc = "create"
    /\ request[q].coupon
    /\ used >= MaxUses
    /\ Leave(q)
    /\ UNCHANGED <<rows, money, used, now, sweep, history, faults>>

(* The balance that is read may be one of wallet-service's cache: it       *)
(* decides between the wallet and Razorpay, and may be wrong.              *)
CreatePending(q) ==
    LET r == request[q]
        free == <<r.plan, r.coupon>> \in Free
    IN  /\ r.pc = "create"
        /\ r.coupon => used < MaxUses
        /\ \E method \in {"free", "wallet", "razorpay"} :
              /\ free <=> method = "free"
              /\ rows' = Append(rows, NewRow(r.plan, method, r.coupon, r.replaces))
              /\ request' = [request EXCEPT ![q] =
                    [Idle EXCEPT !.id = Len(rows) + 1, !.on = method = "wallet",
                                 !.pc = CASE method = "free" -> "activate"
                                          [] method = "wallet" -> "debit"
                                          [] OTHER -> "order"]]
        /\ UNCHANGED <<money, used, now, sweep, history, faults>>

(* Mutant: a debit that timed out is taken for a posted one.               *)
DebitAssumed(q) ==
    /\ request[q].pc = "debit"
    /\ \/ /\ book' = book \union {CheckoutKey(request[q].id)}
          /\ NoFault
       \/ UNCHANGED book /\ Fault
    /\ Goto(q, "activate")
    /\ UNCHANGED <<rows, ordered, paid, used, now, sweep, history>>

(* wallet-service answers a repeated key with the first posting; it may    *)
(* refuse the amount, also that of a key whose first attempt is posted     *)
(* while the second is handled; the call may fail, posted or not.          *)
(* "on" is allowRazorpayFallback.                                          *)
Debit(q) ==
    LET key == CheckoutKey(request[q].id)
    IN  /\ request[q].pc = "debit"
        /\ \/ book' = book \union {key} /\ Goto(q, "activate") /\ NoFault
           \/ /\ UNCHANGED book /\ NoFault
              /\ IF request[q].on THEN Goto(q, "fallback") ELSE Leave(q)
           \/ book' \in {book, book \union {key}} /\ Leave(q) /\ Fault
        /\ UNCHANGED <<rows, ordered, paid, used, now, sweep, history>>

Fallback(q) ==
    LET i == request[q].id
    IN  /\ request[q].pc = "fallback"
        /\ rows' = [rows EXCEPT ![i].method = "razorpay"]
        /\ Goto(q, "order")
        /\ UNCHANGED <<money, used, now, sweep, history, faults>>

(* createRazorpayOrderForSubscription removes the row when it fails.       *)
Order(q) ==
    LET i == request[q].id
    IN  /\ request[q].pc = "order"
        /\ \/ ordered' = ordered \union {i} /\ UNCHANGED rows /\ NoFault
           \/ rows' = Removed(rows, {i}) /\ UNCHANGED ordered /\ Fault
        /\ Leave(q)
        /\ UNCHANGED <<book, paid, used, now, sweep, history>>

(* activateCheckoutSubscription, a transaction.                            *)
ActivateCheckout(i, method) ==
    LET old == rows[i].replaces
        ended == IF old \in With("active") THEN {old} ELSE {}
    IN  IF rows[i].status = "pending"
        THEN /\ rows' = [k \in Ids |->
                   IF k = i THEN [rows[i] EXCEPT !.status = "active", !.method = method,
                                                 !.auto = FALSE, !.grace = Never,
                                                 !.next = Never, !.attempts = 0]
                   ELSE IF k \in ended THEN [rows[k] EXCEPT !.status = "cancelled",
                                                            !.auto = FALSE]
                   ELSE rows[k]]
             /\ used' = IF rows[i].coupon THEN used + 1 ELSE used
        ELSE UNCHANGED <<rows, used>>

Activate(q) ==
    LET i == request[q].id
    IN  /\ request[q].pc = "activate"
        /\ ActivateCheckout(i, IF rows[i].method = "free" THEN "free" ELSE "wallet")
        /\ Leave(q)
        /\ UNCHANGED <<money, now, sweep, overlapped, crowded, switches, faults>>

(* The user pays at Razorpay; then the client calls verifyPayment, maybe   *)
(* more than once, maybe much later.  What is verified is the signature of *)
(* an order and a payment that the client names: any order paid under the  *)
(* key of the service will do, for any row that is pending.                *)
Pay(i) ==
    /\ i \in ordered \ paid
    /\ paid' = paid \union {i}
    /\ UNCHANGED <<rows, book, ordered, used, now, request, sweep, history, faults>>

VerifyPayment(i) ==
    /\ paid # {}
    /\ ActivateCheckout(i, "razorpay")
    /\ UNCHANGED <<money, now, request, sweep, overlapped, crowded, switches, faults>>

-----------------------------------------------------------------------------
(* The user's other requests.  The row is read, then written whatever it   *)
(* has become, if it is still there: instance.update assigns what differs  *)
(* from what was read.                                                     *)

Copy(i) == [auto |-> rows[i].auto, next |-> rows[i].next]
Assigned(current, read, new) == IF new = read THEN current ELSE new

ReadToCancel(q) ==
    /\ request[q].pc = "idle"
    /\ \E i \in With("active") :
          request' = [request EXCEPT ![q] = [Idle EXCEPT !.pc = "cancel", !.id = i,
                                                         !.copy = Copy(i)]]
    /\ UNCHANGED <<rows, money, used, now, sweep, history, faults>>

(* Mutant: the reason is written for the status.                           *)
CancelReason(q) ==
    /\ request[q].pc = "cancel"
    /\ rows' = [rows EXCEPT ![request[q].id].status = "plan_changed"]
    /\ Leave(q)
    /\ UNCHANGED <<money, used, now, sweep, history, faults>>

Cancel(q) ==
    LET i == request[q].id
        copy == request[q].copy
    IN  /\ request[q].pc = "cancel"
        /\ rows' = IF rows[i].status = "removed" THEN rows ELSE [rows EXCEPT ![i] =
              [@ EXCEPT !.status = "cancelled",
                        !.auto = Assigned(rows[i].auto, copy.auto, FALSE),
                        !.next = Assigned(rows[i].next, copy.next, Never)]]
        /\ Leave(q)
        /\ UNCHANGED <<money, used, now, sweep, history, faults>>

ReadToSwitch(q) ==
    /\ request[q].pc = "idle"
    /\ switches < MaxSwitches
    /\ \E i \in With("active"), on \in BOOLEAN :
          /\ Latest(i, With("active"))
          /\ Renewable(rows[i].plan)
          /\ request' = [request EXCEPT ![q] = [Idle EXCEPT !.pc = "switch", !.id = i,
                                                            !.on = on, !.copy = Copy(i)]]
    /\ switches' = switches + 1
    /\ UNCHANGED <<rows, money, used, now, sweep, overlapped, crowded, faults>>

SwitchAutoRenew(q) ==
    LET i == request[q].id
        on == request[q].on
        copy == request[q].copy
        next == IF ~ on THEN Never ELSE IF Elapsed(rows[i].expires) THEN now ELSE copy.next
    IN  /\ request[q].pc = "switch"
        /\ rows' = [rows EXCEPT ![i] =
              [@ EXCEPT !.auto = Assigned(rows[i].auto, copy.auto, on),
                        !.next = Assigned(rows[i].next, copy.next, next)]]
        /\ Leave(q)
        /\ UNCHANGED <<money, used, now, sweep, history, faults>>

-----------------------------------------------------------------------------
(* The sweep, every ten minutes: what is due is read once and handled one  *)
(* row at a time.  It may still run when the next one starts.              *)

Due(i) == rows[i].status = "active" /\ Elapsed(rows[i].expires)
Working(s) == sweep[s].pc # "idle"

(* Done with the row in hand: on to one of those that are left.            *)
NextOf(due) == IF due = {} THEN Resting ELSE [Resting EXCEPT !.pc = "next", !.due = due]
Proceed(s) == sweep' = [sweep EXCEPT ![s] = NextOf(@.due)]

BeginSweep(s) ==
    /\ ~ Working(s)
    /\ \E i \in Ids : Due(i)
    /\ sweep' = [sweep EXCEPT ![s] =
          [Resting EXCEPT !.pc = "next", !.due = {<<i, rows[i]>> : i \in {k \in Ids : Due(k)}}]]
    /\ crowded' = (crowded \/ \E t \in Sweeps : Working(t))
    /\ UNCHANGED <<rows, money, used, now, request, overlapped, switches, faults>>
(* Without auto-renewal: the row has a grace period left, or expires.      *)
Expire(s, i, copy) ==
    /\ ~ copy.auto
    /\ rows' = IF copy.grace > now \/ rows[i].status = "removed" THEN rows
               ELSE [rows EXCEPT ![i] = [@ EXCEPT !.status = "expired", !.auto = FALSE,
                                                  !.next = Never, !.grace = Never]]
    /\ sweep' = [sweep EXCEPT ![s] = NextOf(@.due \ {<<i, copy>>})]

(* With it, but before the next attempt is due.                            *)
Wait(s, i, copy) ==
    /\ copy.auto /\ copy.next > now
    /\ sweep' = [sweep EXCEPT ![s] = NextOf(@.due \ {<<i, copy>>})]
    /\ UNCHANGED rows

GraceOf(copy) == IF copy.grace # Never THEN copy.grace ELSE copy.expires + Grace

InHand(s, i, copy, step, attempt) ==
    sweep' = [sweep EXCEPT ![s] = [pc |-> step, due |-> @.due \ {<<i, copy>>}, id |-> i,
                                   grace |-> GraceOf(copy), attempt |-> attempt]]

(* The plan has been withdrawn, or ensureRenewalAttempt numbers an attempt *)
(* of a row that is still active.                                          *)
Withdrawn(s, i, copy) ==
    /\ copy.auto /\ copy.next <= now
    /\ InHand(s, i, copy, "failed", 0)
    /\ UNCHANGED rows

EnsureAttempt(s, i, copy) ==
    LET attempt == rows[i].attempts + 1
    IN  /\ copy.auto /\ copy.next <= now
        /\ IF rows[i].status = "active"
           THEN /\ rows' = [rows EXCEPT ![i].attempts = attempt]
                /\ InHand(s, i, copy, IF <<copy.plan, FALSE>> \in Free THEN "renew"
                                      ELSE "charge", attempt)
           ELSE /\ sweep' = [sweep EXCEPT ![s] = NextOf(@.due \ {<<i, copy>>})]
                /\ UNCHANGED rows

ProcessCandidate(s) ==
    /\ sweep[s].pc = "next"
    /\ \E c \in sweep[s].due : \/ Expire(s, c[1], c[2])
                                \/ Wait(s, c[1], c[2])
                                \/ Withdrawn(s, c[1], c[2])
                                \/ EnsureAttempt(s, c[1], c[2])
    /\ UNCHANGED <<money, used, now, request, history, faults>>

(* The balance is too small, or the debit refused; posted; or posted or    *)
(* not, with the answer lost.                                              *)
Charge(s) ==
    LET key == RenewalKey(sweep[s].id, sweep[s].attempt)
        Step(step) == sweep' = [sweep EXCEPT ![s].pc = step]
    IN  /\ sweep[s].pc = "charge"
        /\ \/ UNCHANGED book /\ Step("failed") /\ NoFault
           \/ book' = book \union {key} /\ Step("renew") /\ NoFault
           \/ book' = book \union {key} /\ Step("failed") /\ Fault
        /\ UNCHANGED <<rows, ordered, paid, used, now, request, history>>

(* Mutant: the renewed row is added and the old one left as it is.         *)
RenewBeside(s) ==
    LET i == sweep[s].id
    IN  /\ sweep[s].pc = "renew"
        /\ rows' = IF rows[i].status = "active" THEN Append(rows, RenewedRow(i)) ELSE rows
        /\ Proceed(s)
        /\ UNCHANGED <<money, used, now, request, history, faults>>

(* Mutant: finalizeRenewalSuccess does not look at the row again.          *)
RenewAgain(s) ==
    LET i == sweep[s].id
    IN  /\ sweep[s].pc = "renew"
        /\ rows' = Append([rows EXCEPT ![i] = [@ EXCEPT !.status = "expired", !.auto = FALSE,
                                                        !.grace = Never, !.next = Never]],
                          RenewedRow(i))
        /\ Proceed(s)
        /\ UNCHANGED <<money, used, now, request, history, faults>>

(* finalizeRenewalSuccess, a transaction: a row that is no longer active,  *)
(* renewed by another sweep or cancelled by the user, is not renewed.      *)
Renew(s) ==
    LET i == sweep[s].id
    IN  /\ sweep[s].pc = "renew"
        /\ IF rows[i].status = "active"
           THEN rows' = Append([rows EXCEPT ![i] = [@ EXCEPT !.status = "expired",
                                   !.auto = FALSE, !.grace = Never, !.next = Never]],
                               RenewedRow(i))
           ELSE UNCHANGED rows
        /\ Proceed(s)
        /\ UNCHANGED <<money, used, now, request, history, faults>>

(* Mutant: the date of the next attempt is not compared with the grace.    *)
RenewalRetried(s) ==
    LET i == sweep[s].id
    IN  /\ sweep[s].pc = "failed"
        /\ rows' = IF rows[i].status # "active" THEN rows
                   ELSE [rows EXCEPT ![i].grace = sweep[s].grace, ![i].next = now + Retry]
        /\ Proceed(s)
        /\ UNCHANGED <<money, used, now, request, history, faults>>

(* handleRenewalFailure: a row still active is tried again, until its      *)
(* grace period has ended.                                                 *)
RenewalFailed(s) ==
    LET i == sweep[s].id
        over == sweep[s].grace <= now
    IN  /\ sweep[s].pc = "failed"
        /\ rows' = IF rows[i].status # "active" THEN rows
                   ELSE IF over
                   THEN [rows EXCEPT ![i] = [@ EXCEPT !.status = "expired", !.auto = FALSE,
                                                      !.grace = Never, !.next = Never]]
                   ELSE [rows EXCEPT ![i].grace = sweep[s].grace, ![i].next = now + Retry]
        /\ Proceed(s)
        /\ UNCHANGED <<money, used, now, request, history, faults>>

-----------------------------------------------------------------------------
Tick ==
    /\ now < MaxTime
    /\ now' = now + 1
    /\ UNCHANGED <<rows, money, used, request, sweep, history, faults>>

(* The process dies with its requests and sweeps.                          *)
Crash ==
    /\ \/ \E q \in Requests : request[q].pc # "idle"
       \/ \E s \in Sweeps : Working(s)
    /\ Fault
    /\ request' = [q \in Requests |-> Idle]
    /\ sweep' = [s \in Sweeps |-> Resting]
    /\ UNCHANGED <<rows, money, used, now, history>>

Init == /\ rows = <<>>
        /\ book = {}
        /\ ordered = Elsewhere /\ paid = Elsewhere
        /\ used = 0
        /\ now = 0
        /\ request = [q \in Requests |-> Idle]
        /\ sweep = [s \in Sweeps |-> Resting]
        /\ overlapped = FALSE /\ crowded = FALSE
        /\ switches = 0 /\ faults = 0

RequestStep(q) ==
    \/ Subscribe(q) \/ ChangePlan(q) \/ FindPending(q) \/ RemovePending(q)
    \/ RefuseCoupon(q) \/ CreatePending(q) \/ Debit(q) \/ Fallback(q)
    \/ Order(q) \/ Activate(q)
    \/ ReadToCancel(q) \/ Cancel(q) \/ ReadToSwitch(q) \/ SwitchAutoRenew(q)

SweepStep(s) == \/ ProcessCandidate(s) \/ Charge(s) \/ Renew(s) \/ RenewalFailed(s)

Next == \/ \E q \in Requests : RequestStep(q)
        \/ \E i \in Ids : Pay(i) \/ VerifyPayment(i)
        \/ \E s \in Sweeps : BeginSweep(s) \/ SweepStep(s)
        \/ Tick
        \/ Crash

Spec == Init /\ [][Next]_vars

(* setInterval starts a sweep again and again, a sweep goes on until its   *)
(* list is done, and time passes.  Nothing is asked of the user.           *)
FairSpec == Spec /\ WF_vars(Tick)
                 /\ \A s \in Sweeps : WF_vars(BeginSweep(s)) /\ WF_vars(SweepStep(s))

-----------------------------------------------------------------------------
(* Properties.                                                             *)

Begun == {"active", "expired", "cancelled"}

(* A row that was ever active is free, or wallet-service has posted the    *)
(* debit of its checkout or of an attempt of the renewal that made it,     *)
(* whatever answers are lost and wherever the process dies; or it says     *)
(* that Razorpay was paid, and some order was (activateCheckout-           *)
(* Subscription, finalizeRenewalSuccess).  That it was the row's own order *)
(* is not promised, nor that a payment opens one row only: verifyPayment   *)
(* compares neither.                                                       *)
ActiveIsPaid ==
    \A i \in Ids : rows[i].status \in Begun =>
        \/ <<rows[i].plan, rows[i].coupon>> \in Free
        \/ ~ rows[i].renewal /\ CheckoutKey(i) \in book
        \/ rows[i].renewal /\ \E k \in 1 .. rows[rows[i].replaces].attempts :
                                 RenewalKey(rows[i].replaces, k) \in book
        \/ ~ rows[i].renewal /\ rows[i].method = "razorpay" /\ paid # {}

(* A cycle is renewed at most once, into a row that takes over from one    *)
(* that has ended, however many sweeps overlap and whatever the user does  *)
(* in between.                                                             *)
RenewedOncePerCycle ==
    \A i, k \in Ids : rows[i].renewal =>
        /\ rows[rows[i].replaces].status \notin {"pending", "active"}
        /\ rows[k].renewal /\ rows[k].replaces = rows[i].replaces => i = k

(* A wallet checkout that was charged is not lost, as long as checkouts do *)
(* not overlap: the row is there, and if it is still pending the next      *)
(* checkout charges it again under the same key.  After a lost answer or a *)
(* crash the user asks again and gets what was paid for.                   *)
ChargedCheckoutSurvives ==
    \A i \in Ids : ~ overlapped /\ CheckoutKey(i) \in book =>
        \/ rows[i].status \in Begun
        \/ rows[i].status = "pending" /\ Latest(i, PendingOfWallet)

(* A cycle is charged once more than answers are lost and sweeps die, as   *)
(* long as sweeps do not overlap: each attempt has a key of its own.       *)
RenewalCharges(i) == {k \in 1 .. rows[i].attempts : RenewalKey(i, k) \in book}

RenewalChargedOnce ==
    \A i \in Ids : ~ crowded => Cardinality(RenewalCharges(i)) <= 1 + faults

(* A subscription whose time is up does not stay active: by the end of the *)
(* grace period and one more attempt it is renewed, expired or cancelled,  *)
(* whatever fails on the way and however often auto-renewal is switched.   *)
(* The rows followed are the first MaxCheckouts, the clock ends too early  *)
(* for more.                                                               *)
DueIsResolved ==
    \A i \in 1 .. MaxCheckouts :
        (/\ i \in With("active") /\ rows[i].expires # Never
         /\ rows[i].expires + Grace + Retry <= MaxTime)
        ~> i \notin With("active")
=============================================================================
