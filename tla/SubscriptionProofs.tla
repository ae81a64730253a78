------------------------- MODULE SubscriptionProofs -------------------------
(***************************************************************************)
(* What subscription-service promises of rows and money, for every number  *)
(* of requests, sweeps, plans, faults and dates.                           *)
(***************************************************************************)
EXTENDS Subscription, FiniteSetTheorems, TLAPS

(* A request, and a sweep, among n rows: what it serves is one of them.    *)
RequestFits(r, n) ==
    /\ r \in Request
    /\ r.pc \in {"find", "remove", "create"} => r.plan \in Plans
    /\ r.pc \in {"debit", "activate", "fallback", "order", "cancel", "switch"} =>
          r.id \in 1 .. n

SweepFits(w, n) ==
    /\ w \in Sweep
    /\ w.pc \in {"charge", "renew", "failed"} => w.id \in 1 .. n
    /\ \A c \in w.due : c[1] \in 1 .. n

(* A pending row is of a checkout, and no renewal was tried.               *)
Fresh(a) == a.status = "pending" => ~ a.renewal /\ a.attempts = 0

TInv == /\ TypeOK
        /\ \A i \in Ids : Fresh(rows[i])
        /\ \A q \in Requests : RequestFits(request[q], Len(rows))
        /\ \A s \in Sweeps : SweepFits(sweep[s], Len(rows))

-----------------------------------------------------------------------------
(* How rows may change.                                                    *)

Open == {"pending", "active"}

(* Row a may become row b: it stays what was sold, its attempts are not    *)
(* forgotten, an end is an end, and what Razorpay paid for stays so.       *)
MayBecome(a, b) ==
    /\ b.plan = a.plan /\ b.coupon = a.coupon
    /\ b.renewal = a.renewal /\ b.replaces = a.replaces
    /\ a.attempts <= b.attempts
    /\ b.status \in Open => a.status \in Open
    /\ b.status = "pending" => a.status = "pending" /\ b.attempts = a.attempts
    /\ a.status # "pending" /\ a.method = "razorpay" => b.method = "razorpay"

RowsKept == /\ rows' \in Seq(Row)
            /\ Len(rows) <= Len(rows')
            /\ \A i \in Ids : MayBecome(rows[i], rows'[i])
            /\ \A i \in (1 .. Len(rows')) \ Ids : Fresh(rows'[i])

(* A row stays what it was when nothing is written.                        *)
LEMMA Unwritten ==
    ASSUME TypeOK, rows' = rows
    PROVE  RowsKept
<1>1. \A i \in Ids : rows[i] \in Row
  BY DEF TypeOK, Ids
<1>2. QED
  BY <1>1 DEF TypeOK, RowsKept, MayBecome, Row, Ids

(* One row is written.                                                     *)
LEMMA OneWritten ==
    ASSUME TypeOK, NEW i \in Ids, NEW b \in Row, MayBecome(rows[i], b),
           rows' = [rows EXCEPT ![i] = b]
    PROVE  RowsKept /\ Len(rows') = Len(rows)
<1>1. \A k \in Ids : rows[k] \in Row
  BY DEF TypeOK, Ids
<1>2. rows' \in Seq(Row) /\ Len(rows') = Len(rows)
  BY DEF TypeOK, Ids
<1>3. rows'[i] = b /\ \A k \in Ids : k # i => rows'[k] = rows[k]
  BY DEF TypeOK, Ids
<1>4. \A k \in Ids : MayBecome(rows[k], rows[k])
  BY <1>1 DEF MayBecome, Row
<1>5. (1 .. Len(rows')) \ Ids = {}
  BY <1>2 DEF Ids
<1>6. QED
  BY <1>2, <1>3, <1>4, <1>5 DEF RowsKept, TypeOK

(* A row is added.                                                         *)
LEMMA OneAdded ==
    ASSUME TypeOK, NEW b \in Row, Fresh(b), rows' = Append(rows, b)
    PROVE  RowsKept /\ Len(rows') = Len(rows) + 1 /\ rows'[Len(rows) + 1] = b
<1>1. \A k \in Ids : rows[k] \in Row
  BY DEF TypeOK, Ids
<1>2. /\ rows' \in Seq(Row) /\ Len(rows') = Len(rows) + 1
      /\ rows'[Len(rows) + 1] = b /\ Len(rows) \in Nat
  BY DEF TypeOK
<1>3. \A k \in Ids : rows'[k] = rows[k]
  BY DEF TypeOK, Ids
<1>4. \A k \in Ids : MayBecome(rows[k], rows[k])
  BY <1>1 DEF MayBecome, Row
<1>5. Len(rows) <= Len(rows')
  BY <1>2
<1>6. \A k \in (1 .. Len(rows')) \ Ids : Fresh(rows'[k])
  <2>1. (1 .. Len(rows')) \ Ids = {Len(rows) + 1}
    BY <1>2 DEF Ids
  <2>2. QED
    BY <1>2, <2>1
<1>7. QED
  BY <1>2, <1>3, <1>4, <1>5, <1>6 DEF RowsKept

(* A sequence with one more at its end.                                    *)
LEMMA Appended ==
    ASSUME NEW S, NEW r \in Seq(S), NEW c \in S
    PROVE  /\ Append(r, c) \in Seq(S) /\ Len(Append(r, c)) = Len(r) + 1
           /\ Append(r, c)[Len(r) + 1] = c
           /\ \A k \in 1 .. Len(r) : Append(r, c)[k] = r[k]
OBVIOUS

(* One row is written and another added.                                   *)
LEMMA OneWrittenOneAdded ==
    ASSUME TypeOK, NEW i \in Ids, NEW b \in Row, MayBecome(rows[i], b),
           NEW c \in Row, Fresh(c), rows' = Append([rows EXCEPT ![i] = b], c)
    PROVE  /\ RowsKept /\ Len(rows') = Len(rows) + 1 /\ rows'[Len(rows) + 1] = c
           /\ rows'[i] = b /\ \A k \in Ids : k # i => rows'[k] = rows[k]
<1> DEFINE r == [rows EXCEPT ![i] = b]
<1>1. \A k \in Ids : rows[k] \in Row
  BY DEF TypeOK, Ids
<1>2. r \in Seq(Row) /\ Len(r) = Len(rows) /\ Len(rows) \in Nat
  BY DEF TypeOK, Ids
<1>3. r[i] = b /\ \A k \in Ids : k # i => r[k] = rows[k]
  BY DEF TypeOK, Ids
<1> HIDE DEF r
<1>4. rows' = Append(r, c)
  BY DEF r
<1>5. /\ rows' \in Seq(Row) /\ Len(rows') = Len(rows) + 1 /\ rows'[Len(rows) + 1] = c
  <2>1. /\ Append(r, c) \in Seq(Row) /\ Len(Append(r, c)) = Len(r) + 1
        /\ Append(r, c)[Len(r) + 1] = c
    BY <1>2, Appended
  <2>2. Len(Append(r, c)) = Len(rows) + 1 /\ Append(r, c)[Len(rows) + 1] = c
    BY <1>2, <2>1
  <2>3. QED
    BY <1>4, <2>1, <2>2, Zenon
<1>6. \A k \in Ids : rows'[k] = r[k]
  BY <1>2, <1>4, Appended DEF Ids
<1>7. \A k \in Ids : MayBecome(rows[k], rows[k])
  BY <1>1 DEF MayBecome, Row
<1>8. \A k \in (1 .. Len(rows')) \ Ids : Fresh(rows'[k])
  <2>1. (1 .. Len(rows')) \ Ids = {Len(rows) + 1}
    BY <1>2, <1>5 DEF Ids
  <2>2. QED
    BY <1>5, <2>1
<1>9. Len(rows) <= Len(rows')
  BY <1>2, <1>5
<1>10. \A k \in Ids : MayBecome(rows[k], rows'[k])
  BY <1>3, <1>6, <1>7
<1>11. RowsKept
  BY <1>5, <1>8, <1>9, <1>10 DEF RowsKept
<1>12. QED
  BY <1>3, <1>5, <1>6, <1>11

-----------------------------------------------------------------------------
(* Types.                                                                  *)

(* What fits among n rows fits among more.                                 *)
LEMMA FitsAmongMore ==
    ASSUME NEW n \in Nat, NEW m \in Nat, n <= m
    PROVE  /\ \A r : RequestFits(r, n) => RequestFits(r, m)
           /\ \A w : SweepFits(w, n) => SweepFits(w, m)
<1>1. 1 .. n \subseteq 1 .. m
  OBVIOUS
<1>2. QED
  BY <1>1 DEF RequestFits, SweepFits

Counters == /\ book' \subseteq Nat \X Nat
            /\ ordered' \subseteq Nat /\ paid' \subseteq ordered'
            /\ used' \in Nat /\ now' \in Nat
            /\ overlapped' \in BOOLEAN /\ crowded' \in BOOLEAN
            /\ switches' \in Nat /\ faults' \in Nat

(* Fresh rows stay so, and new ones are.                                   *)
LEMMA FreshKept ==
    ASSUME TInv, RowsKept
    PROVE  (\A i \in Ids : Fresh(rows[i]))'
<1>1. ASSUME NEW i \in 1 .. Len(rows')
      PROVE  Fresh(rows'[i])
  BY <1>1 DEF TInv, RowsKept, MayBecome, Fresh
<1>2. QED
  BY <1>1 DEF Ids

(* A step of a request.                                                    *)
LEMMA RequestTyped ==
    ASSUME TInv, RowsKept, Counters, NEW q \in Requests, NEW r,
           RequestFits(r, Len(rows')), request' = [request EXCEPT ![q] = r],
           sweep' = sweep
    PROVE  TInv'
<1>1. Len(rows) \in Nat /\ Len(rows') \in Nat /\ Len(rows) <= Len(rows')
  BY DEF TInv, TypeOK, RowsKept
<1>2. \A p \in Requests : RequestFits(request'[p], Len(rows'))
  BY <1>1, FitsAmongMore DEF TInv, TypeOK
<1>3. \A s \in Sweeps : SweepFits(sweep'[s], Len(rows'))
  BY <1>1, FitsAmongMore DEF TInv
<1>4. request' \in [Requests -> Request] /\ sweep' \in [Sweeps -> Sweep]
  BY DEF RequestFits, TInv, TypeOK
<1>5. QED
  BY <1>2, <1>3, <1>4, FreshKept DEF TInv, TypeOK, RowsKept, Counters

(* A step of a sweep.                                                      *)
LEMMA SweepTyped ==
    ASSUME TInv, RowsKept, Counters, NEW s \in Sweeps, NEW w,
           SweepFits(w, Len(rows')), sweep' = [sweep EXCEPT ![s] = w],
           request' = request
    PROVE  TInv'
<1>1. Len(rows) \in Nat /\ Len(rows') \in Nat /\ Len(rows) <= Len(rows')
  BY DEF TInv, TypeOK, RowsKept
<1>2. \A t \in Sweeps : SweepFits(sweep'[t], Len(rows'))
  BY <1>1, FitsAmongMore DEF TInv, TypeOK
<1>3. \A q \in Requests : RequestFits(request'[q], Len(rows'))
  BY <1>1, FitsAmongMore DEF TInv
<1>4. request' \in [Requests -> Request] /\ sweep' \in [Sweeps -> Sweep]
  BY DEF SweepFits, TInv, TypeOK
<1>5. QED
  BY <1>2, <1>3, <1>4, FreshKept DEF TInv, TypeOK, RowsKept, Counters

(* Any other step.                                                         *)
LEMMA OtherTyped ==
    ASSUME TInv, RowsKept, Counters, request' = request, sweep' = sweep
    PROVE  TInv'
<1>1. Len(rows) \in Nat /\ Len(rows') \in Nat /\ Len(rows) <= Len(rows')
  BY DEF TInv, TypeOK, RowsKept
<1>2. /\ \A q \in Requests : RequestFits(request'[q], Len(rows'))
      /\ \A s \in Sweeps : SweepFits(sweep'[s], Len(rows'))
  BY <1>1, FitsAmongMore DEF TInv
<1>3. QED
  BY <1>2, FreshKept DEF TInv, TypeOK, RowsKept, Counters

(* A request that is over fits.                                            *)
LEMMA IdleFits == \A n : RequestFits(Idle, n)
BY DEF RequestFits, Request, Idle, Date, Never

(* A checkout or another request begins.                                   *)
LEMMA BeginTyped ==
    ASSUME TInv, NEW q \in Requests,
           Subscribe(q) \/ ChangePlan(q) \/ ReadToCancel(q) \/ ReadToSwitch(q)
    PROVE  RowsKept /\ TInv'
<1>0. /\ TypeOK /\ Len(rows) \in Nat
      /\ \A i \in Ids : rows[i] \in Row
  BY DEF TInv, TypeOK, Ids
<1>1. rows' = rows /\ sweep' = sweep /\ Counters
  <2>1. ASSUME NEW plan, NEW coupon, NEW i, BeginCheckout(q, plan, coupon, i)
        PROVE  overlapped' \in BOOLEAN
    BY <2>1 DEF BeginCheckout
  <2>2. ASSUME NEW plan, NEW coupon, NEW i, BeginCheckout(q, plan, coupon, i)
        PROVE  rows' = rows /\ sweep' = sweep /\ Counters
    BY <1>0, <2>1, <2>2 DEF BeginCheckout, money, TypeOK, Counters
  <2>3. CASE ReadToCancel(q)
    BY <1>0, <2>3 DEF ReadToCancel, money, history, TypeOK, Counters
  <2>4. CASE ReadToSwitch(q)
    <3>1. switches' = switches + 1
      BY <2>4 DEF ReadToSwitch
    <3>2. UNCHANGED <<rows, book, ordered, paid, used, now, sweep, overlapped, crowded, faults>>
      BY <2>4 DEF ReadToSwitch, money
    <3>3. QED
      BY <1>0, <3>1, <3>2 DEF TypeOK, Counters
  <2>5. QED
    BY <2>2, <2>3, <2>4 DEF Subscribe, ChangePlan
<1>2. RowsKept
  BY <1>0, <1>1, Unwritten
<1>3. \E r : RequestFits(r, Len(rows)) /\ request' = [request EXCEPT ![q] = r]
  <2>1. ASSUME NEW plan \in Plans, NEW coupon \in BOOLEAN, NEW i \in Nat,
               BeginCheckout(q, plan, coupon, i)
        PROVE  \E r : RequestFits(r, Len(rows)) /\ request' = [request EXCEPT ![q] = r]
    <3>1. RequestFits([Idle EXCEPT !.pc = "find", !.plan = plan, !.coupon = coupon,
                                   !.replaces = i], Len(rows))
      BY <2>1 DEF RequestFits, Request, Idle, Date, Never
    <3>2. QED
      BY <2>1, <3>1 DEF BeginCheckout
  <2>2. With("active") \subseteq Nat
    BY <1>0 DEF With, Ids
  <2>3. CASE Subscribe(q)
    BY <2>1, <2>3 DEF Subscribe
  <2>4. CASE ChangePlan(q)
    BY <2>1, <2>2, <2>4 DEF ChangePlan
  <2>5. ASSUME NEW i \in Ids
        PROVE  /\ Copy(i) \in [auto : BOOLEAN, next : Date]
               /\ RequestFits([Idle EXCEPT !.pc = "cancel", !.id = i, !.copy = Copy(i)], Len(rows))
               /\ \A on \in BOOLEAN :
                     RequestFits([Idle EXCEPT !.pc = "switch", !.id = i, !.on = on,
                                              !.copy = Copy(i)], Len(rows))
    <3>1. Copy(i) \in [auto : BOOLEAN, next : Date]
      BY <1>0 DEF Copy, Row
    <3>2. i \in 1 .. Len(rows) /\ i \in Nat
      BY <1>0 DEF Ids
    <3>3. QED
      BY <3>1, <3>2 DEF RequestFits, Request, Idle
  <2>6. CASE ReadToCancel(q)
    BY <2>5, <2>6 DEF ReadToCancel, With
  <2>7. CASE ReadToSwitch(q)
    BY <2>5, <2>7 DEF ReadToSwitch, With
  <2>8. QED
    BY <2>3, <2>4, <2>6, <2>7
<1>4. QED
  BY <1>1, <1>2, <1>3, RequestTyped

(* A checkout looks for a pending one, is refused its coupon, or debits.   *)
LEMMA ChargeTyped ==
    ASSUME TInv, NEW q \in Requests, FindPending(q) \/ RefuseCoupon(q) \/ Debit(q)
    PROVE  RowsKept /\ TInv'
<1>0. /\ TypeOK /\ Len(rows) \in Nat /\ request \in [Requests -> Request]
      /\ RequestFits(request[q], Len(rows))
  BY DEF TInv, TypeOK
<1>1. rows' = rows /\ sweep' = sweep
  BY DEF FindPending, RefuseCoupon, Debit
<1>2. Counters
  <2>1. CASE FindPending(q) \/ RefuseCoupon(q)
    BY <1>0, <2>1 DEF FindPending, RefuseCoupon, money, history, TypeOK, Counters
  <2>2. CASE Debit(q)
    <3>1. CheckoutKey(request[q].id) \in Nat \X Nat
      BY <1>0 DEF CheckoutKey, RequestFits, Request
    <3>2. book' \subseteq Nat \X Nat
      BY <1>0, <2>2, <3>1 DEF Debit, TypeOK
    <3>3. faults' \in Nat
      BY <1>0, <2>2 DEF Debit, TypeOK, Fault, NoFault
    <3>4. QED
      BY <1>0, <2>2, <3>2, <3>3 DEF Debit, TypeOK, Counters, history
  <2>3. QED
    BY <2>1, <2>2
<1>3. RowsKept
  BY <1>0, <1>1, Unwritten
<1>4. \E r : RequestFits(r, Len(rows)) /\ request' = [request EXCEPT ![q] = r]
  <2>1. ASSUME NEW i \in Ids
        PROVE  RequestFits([Idle EXCEPT !.pc = "debit", !.id = i], Len(rows))
    <3>1. i \in Nat /\ i \in 1 .. Len(rows)
      BY <1>0, <2>1 DEF Ids
    <3>2. QED
      BY <3>1 DEF RequestFits, Request, Idle, Date, Never
  <2>2. request[q].pc = "find" => RequestFits([request[q] EXCEPT !.pc = "remove"], Len(rows))
    BY <1>0 DEF RequestFits, Request
  <2>3. request[q].pc = "debit" =>
           /\ RequestFits([request[q] EXCEPT !.pc = "activate"], Len(rows))
           /\ RequestFits([request[q] EXCEPT !.pc = "fallback"], Len(rows))
    BY <1>0 DEF RequestFits, Request
  <2>4. PendingOfWallet \subseteq Ids
    BY DEF PendingOfWallet, With
  <2>5. CASE FindPending(q)
    BY <2>1, <2>2, <2>4, <2>5 DEF FindPending, Goto
  <2>6. CASE RefuseCoupon(q)
    BY <2>6, IdleFits DEF RefuseCoupon, Leave
  <2>7. CASE Debit(q)
    BY <2>3, <2>7, IdleFits DEF Debit, Leave, Goto
  <2>8. QED
    BY <2>5, <2>6, <2>7
<1>5. QED
  BY <1>1, <1>2, <1>3, <1>4, RequestTyped

(* Removing pending rows is a change a row may undergo.                    *)
LEMMA RemovalsKeep ==
    ASSUME TypeOK, NEW ids, rows' = Removed(rows, ids)
    PROVE  RowsKept /\ Len(rows') = Len(rows)
<1>1. \A i \in Ids : rows[i] \in Row
  BY DEF TypeOK, Ids
<1>2. \A i \in Ids : /\ [rows[i] EXCEPT !.status = "removed"] \in Row
                     /\ MayBecome(rows[i], [rows[i] EXCEPT !.status = "removed"])
                     /\ MayBecome(rows[i], rows[i])
  BY <1>1 DEF Row, MayBecome, Open
<1>3. DOMAIN rows = Ids /\ Len(rows) \in Nat
  BY DEF TypeOK, Ids
<1>4. \A i \in Ids : rows'[i] \in {rows[i], [rows[i] EXCEPT !.status = "removed"]}
  BY <1>3 DEF Removed
<1>5. rows' \in [1 .. Len(rows) -> Row]
  BY <1>1, <1>2, <1>3 DEF Removed, Ids
<1>6. rows' \in Seq(Row) /\ Len(rows') = Len(rows)
  BY <1>3, <1>5
<1>7. \A i \in Ids : MayBecome(rows[i], rows'[i])
  BY <1>2, <1>4
<1>8. Len(rows) <= Len(rows')
  BY <1>3, <1>6
<1>9. (1 .. Len(rows')) \ Ids = {}
  BY <1>3, <1>6 DEF Ids
<1>10. QED
  BY <1>6, <1>7, <1>8, <1>9 DEF RowsKept

(* A checkout removes what is pending, makes its row, or turns to Razorpay. *)
LEMMA CheckoutTyped ==
    ASSUME TInv, NEW q \in Requests,
           RemovePending(q) \/ CreatePending(q) \/ Fallback(q) \/ Order(q)
    PROVE  RowsKept /\ TInv'
<1>0. /\ TypeOK /\ Len(rows) \in Nat /\ request \in [Requests -> Request]
      /\ RequestFits(request[q], Len(rows)) /\ rows \in Seq(Row)
      /\ \A i \in Ids : rows[i] \in Row
  BY DEF TInv, TypeOK, Ids
<1>1. CASE RemovePending(q)
  <2>1. RowsKept /\ Len(rows') = Len(rows)
    BY <1>0, <1>1, RemovalsKeep DEF RemovePending
  <2>2. RequestFits([request[q] EXCEPT !.pc = "create"], Len(rows))
    BY <1>0, <1>1 DEF RequestFits, Request, RemovePending
  <2>3. Counters
    BY <1>0, <1>1 DEF RemovePending, money, history, TypeOK, Counters
  <2>4. sweep' = sweep /\ request' = [request EXCEPT ![q] = [request[q] EXCEPT !.pc = "create"]]
    BY <1>0, <1>1 DEF RemovePending, Goto
  <2>5. QED
    BY <2>1, <2>2, <2>3, <2>4, RequestTyped
<1>2. CASE CreatePending(q)
  <2>1. request[q].plan \in Plans /\ request[q].coupon \in BOOLEAN
        /\ request[q].replaces \in Nat
    BY <1>0, <1>2 DEF RequestFits, Request, CreatePending
  <2>2. Expiry(request[q].plan, now) \in Date
    BY <1>0, <2>1, TermAssumption DEF TypeOK, Expiry, Renewable, Date, Never
  <2>3. ASSUME NEW method \in {"free", "wallet", "razorpay"}
        PROVE  /\ NewRow(request[q].plan, method, request[q].coupon, request[q].replaces) \in Row
               /\ Fresh(NewRow(request[q].plan, method, request[q].coupon, request[q].replaces))
    BY <2>1, <2>2, <2>3 DEF NewRow, Row, Date, Never, Fresh
  <2>4. PICK method \in {"free", "wallet", "razorpay"} :
           /\ rows' = Append(rows, NewRow(request[q].plan, method, request[q].coupon,
                                          request[q].replaces))
           /\ request' = [request EXCEPT ![q] =
                 [Idle EXCEPT !.id = Len(rows) + 1, !.on = method = "wallet",
                              !.pc = CASE method = "free" -> "activate"
                                       [] method = "wallet" -> "debit"
                                       [] OTHER -> "order"]]
    BY <1>2 DEF CreatePending
  <2>5. RowsKept /\ Len(rows') = Len(rows) + 1
    BY <1>0, <2>3, <2>4, OneAdded
  <2>6. ASSUME NEW on \in BOOLEAN, NEW step \in {"activate", "debit", "order"}
        PROVE  RequestFits([Idle EXCEPT !.id = Len(rows) + 1, !.on = on, !.pc = step],
                           Len(rows) + 1)
    <3>1. Len(rows) + 1 \in Nat /\ Len(rows) + 1 \in 1 .. Len(rows) + 1
      BY <1>0
    <3>2. QED
      BY <3>1 DEF RequestFits, Request, Idle, Date, Never
  <2>7. \E r : RequestFits(r, Len(rows) + 1) /\ request' = [request EXCEPT ![q] = r]
    <3>1. CASE method = "free"
      BY <2>4, <2>6, <3>1
    <3>2. CASE method = "wallet"
      BY <2>4, <2>6, <3>2
    <3>3. CASE method = "razorpay"
      BY <2>4, <2>6, <3>3
    <3>4. QED
      BY <3>1, <3>2, <3>3
  <2>8. Counters /\ sweep' = sweep
    BY <1>0, <1>2 DEF CreatePending, money, history, TypeOK, Counters
  <2>9. QED
    BY <2>5, <2>7, <2>8, RequestTyped
<1>3. CASE Fallback(q)
  <2> DEFINE i == request[q].id
  <2>1. i \in Ids
    BY <1>0, <1>3 DEF RequestFits, Fallback, Ids
  <2>2. /\ [rows[i] EXCEPT !.method = "razorpay"] \in Row
        /\ MayBecome(rows[i], [rows[i] EXCEPT !.method = "razorpay"])
    BY <1>0, <2>1 DEF Row, MayBecome
  <2>3. rows' = [rows EXCEPT ![i] = [rows[i] EXCEPT !.method = "razorpay"]]
    BY <1>0, <1>3, <2>1 DEF Fallback
  <2>4. RowsKept /\ Len(rows') = Len(rows)
    BY <1>0, <2>1, <2>2, <2>3, OneWritten
  <2>5. RequestFits([request[q] EXCEPT !.pc = "order"], Len(rows))
    BY <1>0, <1>3 DEF RequestFits, Request, Fallback
  <2>6. /\ Counters /\ sweep' = sweep
        /\ request' = [request EXCEPT ![q] = [request[q] EXCEPT !.pc = "order"]]
    BY <1>0, <1>3 DEF Fallback, Goto, money, history, TypeOK, Counters
  <2>7. QED
    BY <2>4, <2>5, <2>6, RequestTyped
<1>4. CASE Order(q)
  <2>1. request[q].id \in Nat
    BY <1>0 DEF RequestFits, Request
  <2>2. RowsKept
    BY <1>0, <1>4, RemovalsKeep, Unwritten DEF Order
  <2>3. ordered' \subseteq Nat /\ ordered \subseteq ordered' /\ faults' \in Nat
    <3>1. faults' \in Nat
      BY <1>0, <1>4 DEF Order, TypeOK, Fault, NoFault
    <3>2. ordered' \in {ordered, ordered \union {request[q].id}}
      BY <1>4 DEF Order
    <3>3. QED
      BY <1>0, <2>1, <3>1, <3>2 DEF TypeOK
  <2>4. Counters /\ sweep' = sweep /\ request' = [request EXCEPT ![q] = Idle]
    BY <1>0, <1>4, <2>3 DEF Order, Leave, history, TypeOK, Counters
  <2>5. QED
    BY <2>2, <2>4, IdleFits, RequestTyped
<1>5. QED
  BY <1>1, <1>2, <1>3, <1>4

(* The values rows are given.                                              *)
LEMMA RowReplaced ==
    ASSUME NEW a \in Row
    PROVE  LET b == [a EXCEPT !.status = "cancelled", !.auto = FALSE]
           IN  b \in Row /\ MayBecome(a, b)
<1> DEFINE b == [a EXCEPT !.status = "cancelled", !.auto = FALSE]
<1>1. b \in Row
  BY DEF Row
<1>2. /\ b.status = "cancelled" /\ b.plan = a.plan /\ b.coupon = a.coupon
      /\ b.renewal = a.renewal /\ b.replaces = a.replaces /\ b.attempts = a.attempts
      /\ a.attempts \in Nat
  BY DEF Row
<1>3. QED
  BY <1>1, <1>2 DEF MayBecome, Open

(* What a row is once it is sold.                                          *)
LEMMA RowSold ==
    ASSUME NEW a \in Row, Fresh(a), a.status = "pending",
           NEW method \in {"free", "wallet", "razorpay"}
    PROVE  LET b == [a EXCEPT !.status = "active", !.method = method, !.auto = FALSE,
                              !.grace = Never, !.next = Never, !.attempts = 0]
           IN  b \in Row /\ MayBecome(a, b)
<1> DEFINE b == [a EXCEPT !.status = "active", !.method = method, !.auto = FALSE,
                          !.grace = Never, !.next = Never, !.attempts = 0]
<1>1. b \in Row
  BY DEF Row, Date, Never
<1>2. /\ b.status = "active" /\ b.plan = a.plan /\ b.coupon = a.coupon
      /\ b.renewal = a.renewal /\ b.replaces = a.replaces /\ b.attempts = 0
      /\ a.attempts = 0
  BY DEF Row, Fresh
<1>3. QED
  BY <1>1, <1>2 DEF MayBecome, Open

(* A checkout is activated: its row, and the row it replaces, are written. *)
LEMMA ActivationKeeps ==
    ASSUME TInv, NEW i \in Ids, NEW method \in {"free", "wallet", "razorpay"},
           ActivateCheckout(i, method)
    PROVE  RowsKept /\ Len(rows') = Len(rows) /\ used' \in Nat
<1>0. /\ TypeOK /\ \A k \in Ids : rows[k] \in Row /\ Fresh(rows[k])
      /\ DOMAIN rows = Ids /\ Len(rows) \in Nat /\ used \in Nat
  BY DEF TInv, TypeOK, Ids
<1>1. CASE rows[i].status # "pending"
  <2>1. UNCHANGED <<rows, used>>
    BY <1>1 DEF ActivateCheckout
  <2>2. QED
    BY <1>0, <2>1, Unwritten
<1>2. CASE rows[i].status = "pending"
  <2> DEFINE ended == IF rows[i].replaces \in With("active") THEN {rows[i].replaces} ELSE {}
             sold == [rows[i] EXCEPT !.status = "active", !.method = method,
                                     !.auto = FALSE, !.grace = Never,
                                     !.next = Never, !.attempts = 0]
             over(k) == [rows[k] EXCEPT !.status = "cancelled", !.auto = FALSE]
             new(k) == IF k = i THEN sold ELSE IF k \in ended THEN over(k) ELSE rows[k]
  <2>1. rows' = [k \in Ids |-> new(k)] /\ used' \in {used, used + 1}
    BY <1>2 DEF ActivateCheckout
  <2>2. sold \in Row /\ MayBecome(rows[i], sold)
    BY <1>0, <1>2, RowSold
  <2>3. \A k \in Ids : over(k) \in Row /\ MayBecome(rows[k], over(k))
    BY <1>0, RowReplaced
  <2>4. \A k \in Ids : new(k) \in Row /\ MayBecome(rows[k], new(k))
    <3>1. \A k \in Ids : MayBecome(rows[k], rows[k])
      BY <1>0 DEF MayBecome, Row
    <3>2. QED
      BY <1>0, <2>2, <2>3, <3>1
  <2>5. rows' \in [1 .. Len(rows) -> Row] /\ \A k \in Ids : rows'[k] = new(k)
    <3> HIDE DEF new
    <3>1. QED
      BY <2>1, <2>4 DEF Ids
  <2>6. rows' \in Seq(Row) /\ Len(rows') = Len(rows)
    <3> HIDE DEF new
    <3>1. QED
      BY <1>0, <2>5
  <2>7. \A k \in Ids : MayBecome(rows[k], rows'[k])
    <3> HIDE DEF new
    <3>1. QED
      BY <2>4, <2>5
  <2>8. (1 .. Len(rows')) \ Ids = {} /\ Len(rows) <= Len(rows')
    BY <1>0, <2>6 DEF Ids
  <2>9. QED
    <3> HIDE DEF new
    <3>1. RowsKept
      BY <2>6, <2>7, <2>8 DEF RowsKept
    <3>2. QED
      BY <1>0, <2>1, <2>6, <3>1
<1>3. QED
  BY <1>1, <1>2

(* The wallet's answer, or the user's payment, activates a checkout.       *)
LEMMA ActivateTyped ==
    ASSUME TInv,
           \/ \E q \in Requests : Activate(q)
           \/ \E i \in Ids : VerifyPayment(i)
    PROVE  RowsKept /\ TInv'
<1>0. TypeOK /\ Len(rows) \in Nat
  BY DEF TInv, TypeOK
<1>1. ASSUME NEW q \in Requests, Activate(q)
      PROVE  RowsKept /\ TInv'
  <2>1. request[q].id \in Ids
    BY <1>1 DEF TInv, RequestFits, Activate, Ids
  <2>2. PICK method \in {"free", "wallet"} : ActivateCheckout(request[q].id, method)
    BY <1>1 DEF Activate
  <2>3. RowsKept /\ used' \in Nat
    BY <2>1, <2>2, ActivationKeeps
  <2>4. /\ UNCHANGED <<book, ordered, paid, now, sweep, overlapped, crowded, switches, faults>>
        /\ request' = [request EXCEPT ![q] = Idle]
    BY <1>1 DEF Activate, Leave, money
  <2>5. Counters
    BY <1>0, <2>3, <2>4 DEF TypeOK, Counters
  <2>6. QED
    BY <2>3, <2>4, <2>5, IdleFits, RequestTyped
<1>2. ASSUME NEW i \in Ids, VerifyPayment(i)
      PROVE  RowsKept /\ TInv'
  <2>1. RowsKept /\ used' \in Nat
    BY <1>2, ActivationKeeps DEF VerifyPayment
  <2>2. UNCHANGED <<book, ordered, paid, now, request, sweep, overlapped, crowded, switches,
                    faults>>
    BY <1>2 DEF VerifyPayment, money
  <2>3. Counters
    BY <1>0, <2>1, <2>2 DEF TypeOK, Counters
  <2>4. QED
    BY <2>1, <2>2, <2>3, OtherTyped
<1>3. QED
  BY <1>1, <1>2

(* The user cancels, or switches auto-renewal.                             *)
LEMMA RowCancelled ==
    ASSUME NEW a \in Row, NEW auto \in BOOLEAN, NEW next \in Date
    PROVE  LET b == [a EXCEPT !.status = "cancelled", !.auto = auto, !.next = next]
           IN  b \in Row /\ MayBecome(a, b)
<1> DEFINE b == [a EXCEPT !.status = "cancelled", !.auto = auto, !.next = next]
<1>1. b \in Row
  BY DEF Row
<1>2. /\ b.status = "cancelled" /\ b.plan = a.plan /\ b.coupon = a.coupon
      /\ b.renewal = a.renewal /\ b.replaces = a.replaces /\ b.attempts = a.attempts
      /\ a.attempts \in Nat
  BY DEF Row
<1>3. QED
  BY <1>1, <1>2 DEF MayBecome, Open

(* What a row is once its auto-renewal is switched.                        *)
LEMMA RowSwitched ==
    ASSUME NEW a \in Row, NEW auto \in BOOLEAN, NEW next \in Date
    PROVE  LET b == [a EXCEPT !.auto = auto, !.next = next]
           IN  b \in Row /\ MayBecome(a, b)
<1> DEFINE b == [a EXCEPT !.auto = auto, !.next = next]
<1>1. b \in Row
  BY DEF Row
<1>2. /\ b.status = a.status /\ b.plan = a.plan /\ b.coupon = a.coupon
      /\ b.renewal = a.renewal /\ b.replaces = a.replaces /\ b.attempts = a.attempts
      /\ a.attempts \in Nat
  BY DEF Row
<1>3. QED
  BY <1>1, <1>2 DEF MayBecome, Open

(* A cancellation, or a switch of auto-renewal, and its refusals.          *)
LEMMA UserTyped ==
    ASSUME TInv, NEW q \in Requests, Cancel(q) \/ SwitchAutoRenew(q)
    PROVE  RowsKept /\ TInv'
<1>0. /\ TypeOK /\ Len(rows) \in Nat /\ rows \in Seq(Row)
      /\ \A i \in Ids : rows[i] \in Row
  BY DEF TInv, TypeOK, Ids
<1> DEFINE i == request[q].id
           a == rows[i]
           copy == request[q].copy
<1>1. i \in Ids
  BY DEF TInv, RequestFits, Cancel, SwitchAutoRenew, Ids
<1>2. /\ copy.auto \in BOOLEAN /\ copy.next \in Date /\ request[q].on \in BOOLEAN
      /\ a.auto \in BOOLEAN /\ a.next \in Date /\ now \in Date /\ Never \in Date
  BY <1>0, <1>1 DEF TInv, RequestFits, Request, Row, TypeOK, Date, Never
<1>3. RowsKept
  <2>1. CASE Cancel(q) /\ a.status = "removed"
    BY <1>0, <2>1, Unwritten DEF Cancel
  <2>2. CASE Cancel(q) /\ a.status # "removed"
    <3> DEFINE b == [a EXCEPT !.status = "cancelled",
                              !.auto = Assigned(a.auto, copy.auto, FALSE),
                              !.next = Assigned(a.next, copy.next, Never)]
    <3>1. rows' = [rows EXCEPT ![i] = b]
      BY <2>2 DEF Cancel
    <3>2. /\ Assigned(a.auto, copy.auto, FALSE) \in BOOLEAN
          /\ Assigned(a.next, copy.next, Never) \in Date
      BY <1>2 DEF Assigned
    <3>3. b \in Row /\ MayBecome(a, b)
      BY <1>0, <1>1, <3>2, RowCancelled
    <3>4. QED
      BY <1>0, <1>1, <3>1, <3>3, OneWritten
  <2>3. CASE SwitchAutoRenew(q)
    <3> DEFINE on == request[q].on
               next == IF ~ on THEN Never ELSE IF Elapsed(rows[i].expires) THEN now
                       ELSE copy.next
               b == [a EXCEPT !.auto = Assigned(a.auto, copy.auto, on),
                              !.next = Assigned(a.next, copy.next, next)]
    <3>1. rows' = [rows EXCEPT ![i] = b]
      BY <2>3 DEF SwitchAutoRenew
    <3>2. /\ Assigned(a.auto, copy.auto, on) \in BOOLEAN
          /\ Assigned(a.next, copy.next, next) \in Date
      BY <1>2 DEF Assigned
    <3>3. b \in Row /\ MayBecome(a, b)
      BY <1>0, <1>1, <3>2, RowSwitched
    <3>4. QED
      BY <1>0, <1>1, <3>1, <3>3, OneWritten
  <2>4. QED
    BY <2>1, <2>2, <2>3
<1>4. /\ UNCHANGED <<book, ordered, paid, used, now, sweep, overlapped, crowded, switches, faults>>
      /\ request' = [request EXCEPT ![q] = Idle]
  BY DEF Cancel, SwitchAutoRenew, Leave, money, history
<1>5. Counters
  BY <1>0, <1>4 DEF TypeOK, Counters
<1>6. QED
  BY <1>3, <1>4, <1>5, IdleFits, RequestTyped

(* The environment.                                                        *)
LEMMA OutsideTyped ==
    ASSUME TInv,
           (\E i \in Ids : Pay(i)) \/ Tick \/ Crash \/ UNCHANGED vars
    PROVE  RowsKept /\ TInv' /\ rows' = rows
<1>0. TypeOK /\ Len(rows) \in Nat
  BY DEF TInv, TypeOK
<1>1. rows' = rows
  BY DEF Pay, Tick, Crash, vars
<1>2. RowsKept
  BY <1>0, <1>1, Unwritten
<1>3. CASE \E i \in Ids : Pay(i)
  <2>1. Counters /\ request' = request /\ sweep' = sweep
    BY <1>0, <1>3 DEF Pay, TypeOK, Counters, history
  <2>2. QED
    BY <1>1, <1>2, <2>1, OtherTyped
<1>4. CASE Tick \/ UNCHANGED vars
  <2>1. Counters /\ request' = request /\ sweep' = sweep
    <3>1. CASE Tick
      BY <1>0, <3>1 DEF Tick, TypeOK, Counters, money, history
    <3>2. CASE UNCHANGED vars
      BY <1>0, <3>2 DEF vars, TypeOK, Counters
    <3>3. QED
      BY <1>4, <3>1, <3>2
  <2>2. QED
    BY <1>1, <1>2, <2>1, OtherTyped
<1>5. CASE Crash
  <2>1. /\ Counters /\ request' = [q \in Requests |-> Idle]
        /\ sweep' = [s \in Sweeps |-> Resting]
    BY <1>0, <1>5 DEF Crash, Fault, TypeOK, Counters, money, history
  <2>2. SweepFits(Resting, Len(rows)) /\ RequestFits(Idle, Len(rows))
    BY IdleFits DEF SweepFits, Sweep, Resting, Date, Never
  <2>3. request' \in [Requests -> Request] /\ sweep' \in [Sweeps -> Sweep]
    BY <2>1, <2>2 DEF RequestFits, SweepFits
  <2>4. QED
    BY <1>1, <1>2, <2>1, <2>2, <2>3, FreshKept DEF TInv, TypeOK, Counters, RowsKept
<1>6. QED
  BY <1>1, <1>2, <1>3, <1>4, <1>5

(* A sweep that goes on to what is left of its list.                       *)
LEMMA NextFits ==
    ASSUME NEW n, NEW w, SweepFits(w, n), NEW due \in SUBSET w.due
    PROVE  SweepFits(NextOf(due), n)
<1>1. due \in SUBSET (Nat \X Row)
  BY DEF SweepFits, Sweep
<1>2. SweepFits(Resting, n)
  BY DEF SweepFits, Sweep, Resting, Date, Never
<1>3. SweepFits([Resting EXCEPT !.pc = "next", !.due = due], n)
  <2>1. [Resting EXCEPT !.pc = "next", !.due = due] \in Sweep
    BY <1>1 DEF Sweep, Resting, Date, Never
  <2>2. \A c \in due : c[1] \in 1 .. n
    BY DEF SweepFits
  <2>3. QED
    BY <2>1, <2>2 DEF SweepFits, Resting
<1>4. QED
  BY <1>2, <1>3 DEF NextOf

(* A sweep begins with a list of the rows that are due.                    *)
LEMMA BeginSweepTyped ==
    ASSUME TInv, NEW s \in Sweeps, BeginSweep(s)
    PROVE  RowsKept /\ TInv'
<1>0. /\ TypeOK /\ Len(rows) \in Nat
      /\ \A i \in Ids : rows[i] \in Row
  BY DEF TInv, TypeOK, Ids
<1> DEFINE due == {<<i, rows[i]>> : i \in {k \in Ids : Due(k)}}
           w == [Resting EXCEPT !.pc = "next", !.due = due]
<1>1. /\ rows' = rows /\ request' = request /\ sweep' = [sweep EXCEPT ![s] = w]
      /\ UNCHANGED <<book, ordered, paid, used, now, overlapped, switches, faults>>
  BY DEF BeginSweep, money
<1>2. crowded' \in BOOLEAN
  BY DEF BeginSweep
<1>3. Counters
  BY <1>0, <1>1, <1>2 DEF TypeOK, Counters
<1>4. due \subseteq Nat \X Row /\ \A c \in due : c[1] \in Ids
  BY <1>0 DEF Ids
<1>5. SweepFits(w, Len(rows))
  <2>1. w \in Sweep
    <3> HIDE DEF due
    <3>1. QED
      BY <1>4 DEF Sweep, Resting, Date, Never
  <2>2. w.pc = "next" /\ w.due = due
    BY DEF Resting
  <2>3. QED
    BY <1>4, <2>1, <2>2 DEF SweepFits, Ids
<1>6. QED
  BY <1>0, <1>1, <1>3, <1>5, Unwritten, SweepTyped

(* What ends a row, or tries it again.                                     *)
LEMMA RowExpired ==
    ASSUME NEW a \in Row
    PROVE  LET b == [a EXCEPT !.status = "expired", !.auto = FALSE, !.next = Never,
                              !.grace = Never]
           IN  b \in Row /\ MayBecome(a, b)
<1> DEFINE b == [a EXCEPT !.status = "expired", !.auto = FALSE, !.next = Never,
                          !.grace = Never]
<1>1. b \in Row
  BY DEF Row, Date, Never
<1>2. /\ b.status = "expired" /\ b.plan = a.plan /\ b.coupon = a.coupon
      /\ b.renewal = a.renewal /\ b.replaces = a.replaces /\ b.attempts = a.attempts
      /\ a.attempts \in Nat
  BY DEF Row
<1>3. QED
  BY <1>1, <1>2 DEF MayBecome, Open

(* What a row is once its renewal was tried.                               *)
LEMMA RowTried ==
    ASSUME NEW a \in Row, a.status = "active", NEW n \in Nat, a.attempts <= n
    PROVE  LET b == [a EXCEPT !.attempts = n]
           IN  b \in Row /\ MayBecome(a, b)
<1> DEFINE b == [a EXCEPT !.attempts = n]
<1>1. b \in Row
  BY DEF Row
<1>2. /\ b.status = "active" /\ b.plan = a.plan /\ b.coupon = a.coupon
      /\ b.renewal = a.renewal /\ b.replaces = a.replaces /\ b.attempts = n
  BY DEF Row
<1>3. QED
  BY <1>1, <1>2 DEF MayBecome, Open

(* What a row is once its renewal is to be tried again.                    *)
LEMMA RowRetried ==
    ASSUME NEW a \in Row, a.status = "active", NEW grace \in Date, NEW next \in Date
    PROVE  LET b == [a EXCEPT !.grace = grace, !.next = next]
           IN  b \in Row /\ MayBecome(a, b)
<1> DEFINE b == [a EXCEPT !.grace = grace, !.next = next]
<1>1. b \in Row
  BY DEF Row
<1>2. /\ b.status = "active" /\ b.plan = a.plan /\ b.coupon = a.coupon
      /\ b.renewal = a.renewal /\ b.replaces = a.replaces /\ b.attempts = a.attempts
      /\ a.attempts \in Nat
  BY DEF Row
<1>3. QED
  BY <1>1, <1>2 DEF MayBecome, Open

(* A row in hand of a sweep fits.                                          *)
LEMMA InHandFits ==
    ASSUME NEW n \in Nat, NEW w, SweepFits(w, n), NEW i \in 1 .. n, NEW due \in SUBSET w.due,
           NEW step \in {"charge", "renew", "failed"}, NEW grace \in Date, NEW attempt \in Nat
    PROVE  SweepFits([pc |-> step, due |-> due, id |-> i, grace |-> grace,
                      attempt |-> attempt], n)
<1>1. due \subseteq Nat \X Row /\ \A c \in due : c[1] \in 1 .. n
  BY DEF SweepFits, Sweep
<1>2. i \in Nat
  OBVIOUS
<1>3. QED
  BY <1>1, <1>2 DEF SweepFits, Sweep

(* A sweep takes the next row of its list, or ends it.                     *)
LEMMA CandidateTyped ==
    ASSUME TInv, NEW s \in Sweeps, ProcessCandidate(s)
    PROVE  RowsKept /\ TInv'
<1>0. /\ TypeOK /\ Len(rows) \in Nat /\ SweepFits(sweep[s], Len(rows))
      /\ sweep \in [Sweeps -> Sweep] /\ rows \in Seq(Row)
      /\ \A i \in Ids : rows[i] \in Row
  BY DEF TInv, TypeOK, Ids
<1>1. PICK c \in sweep[s].due : \/ Expire(s, c[1], c[2])
                                \/ Wait(s, c[1], c[2])
                                \/ Withdrawn(s, c[1], c[2])
                                \/ EnsureAttempt(s, c[1], c[2])
  BY DEF ProcessCandidate
<1> DEFINE i == c[1]
           copy == c[2]
           left == sweep[s].due \ {<<i, copy>>}
<1>2. i \in Ids /\ copy \in Row
  BY <1>0, <1>1 DEF SweepFits, Sweep, Ids
<1>3. UNCHANGED <<book, ordered, paid, used, now, request, overlapped, crowded, switches, faults>>
  BY DEF ProcessCandidate, money, history
<1>4. Counters
  BY <1>0, <1>3 DEF TypeOK, Counters
<1>5. SweepFits(NextOf(left), Len(rows))
  BY <1>0, NextFits
<1>6. GraceOf(copy) \in Date
  BY <1>2, TimeAssumption DEF GraceOf, Row, Date, Never
<1>7. CASE Expire(s, i, copy)
  <2> DEFINE b == [rows[i] EXCEPT !.status = "expired", !.auto = FALSE, !.next = Never,
                                  !.grace = Never]
  <2>1. rows' = rows \/ rows' = [rows EXCEPT ![i] = b]
    BY <1>7 DEF Expire
  <2>2. RowsKept /\ Len(rows') = Len(rows)
    BY <1>0, <1>2, <2>1, RowExpired, OneWritten, Unwritten
  <2>3. sweep' = [sweep EXCEPT ![s] = NextOf(left)]
    BY <1>7 DEF Expire
  <2>4. QED
    BY <1>3, <1>4, <1>5, <2>2, <2>3, SweepTyped
<1>8. CASE Wait(s, i, copy)
  BY <1>0, <1>3, <1>4, <1>5, <1>8, Unwritten, SweepTyped DEF Wait
<1>9. CASE Withdrawn(s, i, copy)
  <2> DEFINE w == [pc |-> "failed", due |-> left, id |-> i, grace |-> GraceOf(copy),
                   attempt |-> 0]
  <2>1. sweep' = [sweep EXCEPT ![s] = w] /\ rows' = rows
    BY <1>9 DEF Withdrawn, InHand
  <2>2. SweepFits(w, Len(rows))
    BY <1>0, <1>2, <1>6, InHandFits DEF Ids
  <2>3. QED
    BY <1>0, <1>3, <1>4, <2>1, <2>2, Unwritten, SweepTyped
<1>10. CASE EnsureAttempt(s, i, copy) /\ rows[i].status = "active"
  <2> DEFINE n == rows[i].attempts + 1
             step == IF <<copy.plan, FALSE>> \in Free THEN "renew" ELSE "charge"
             w == [pc |-> step, due |-> left, id |-> i, grace |-> GraceOf(copy), attempt |-> n]
             b == [rows[i] EXCEPT !.attempts = n]
  <2>1. n \in Nat /\ rows[i].attempts <= n
    BY <1>0, <1>2 DEF Row
  <2>2. rows' = [rows EXCEPT ![i] = b]
    BY <1>10 DEF EnsureAttempt
  <2>3. RowsKept /\ Len(rows') = Len(rows)
    <3>1. b \in Row /\ MayBecome(rows[i], b)
      <4>1. rows[i] \in Row /\ rows[i].status = "active"
        BY <1>0, <1>2, <1>10
      <4> HIDE DEF n
      <4>2. QED
        BY <2>1, <4>1, RowTried
    <3>2. QED
      BY <1>0, <1>2, <2>2, <3>1, OneWritten
  <2>4. sweep' = [sweep EXCEPT ![s] = w]
    BY <1>10 DEF EnsureAttempt, InHand
  <2>5. SweepFits(w, Len(rows))
    BY <1>0, <1>2, <1>6, <2>1, InHandFits DEF Ids
  <2>6. QED
    BY <1>3, <1>4, <2>3, <2>4, <2>5, SweepTyped
<1>11. CASE EnsureAttempt(s, i, copy) /\ rows[i].status # "active"
  BY <1>0, <1>3, <1>4, <1>5, <1>11, Unwritten, SweepTyped DEF EnsureAttempt
<1>12. QED
  BY <1>1, <1>7, <1>8, <1>9, <1>10, <1>11

(* The new cycle of a renewed row.                                         *)
LEMMA RenewedIsRow ==
    ASSUME TInv, NEW i \in Ids
    PROVE  /\ RenewedRow(i) \in Row /\ Fresh(RenewedRow(i))
           /\ RenewedRow(i).status = "active" /\ RenewedRow(i).renewal
           /\ RenewedRow(i).plan = rows[i].plan /\ RenewedRow(i).coupon = FALSE
           /\ RenewedRow(i).replaces = i
<1>1. rows[i] \in Row /\ i \in Nat
  BY DEF TInv, TypeOK, Ids
<1>2. Expiry(rows[i].plan, rows[i].expires) \in Date
  BY <1>1, TermAssumption DEF Expiry, Renewable, Row, Date, Never
<1>3. RenewedRow(i) \in Row
  BY <1>1, <1>2 DEF RenewedRow, Row, Date, Never
<1>4. QED
  BY <1>1, <1>3 DEF RenewedRow, Row, Fresh

(* A sweep charges, renews, or records a failure.                          *)
LEMMA SweepStepTyped ==
    ASSUME TInv, NEW s \in Sweeps, Charge(s) \/ Renew(s) \/ RenewalFailed(s)
    PROVE  RowsKept /\ TInv'
<1>0. /\ TypeOK /\ Len(rows) \in Nat /\ SweepFits(sweep[s], Len(rows))
      /\ sweep \in [Sweeps -> Sweep] /\ rows \in Seq(Row)
      /\ \A i \in Ids : rows[i] \in Row
  BY DEF TInv, TypeOK, Ids
<1> DEFINE i == sweep[s].id
<1>1. i \in Ids /\ i \in Nat /\ sweep[s].attempt \in Nat /\ sweep[s].grace \in Date
  BY <1>0 DEF SweepFits, Sweep, Charge, Renew, RenewalFailed, Ids
<1>2. CASE Charge(s)
  <2>1. /\ rows' = rows /\ request' = request
        /\ UNCHANGED <<ordered, paid, used, now, overlapped, crowded, switches>>
    BY <1>2 DEF Charge, history
  <2>2. book' \subseteq Nat \X Nat
    <3>1. book' \in {book, book \union {<<i, sweep[s].attempt>>}}
      BY <1>2 DEF Charge, RenewalKey
    <3>2. QED
      BY <1>0, <1>1, <3>1 DEF TypeOK
  <2>3. faults' \in Nat
    BY <1>0, <1>2 DEF Charge, Fault, NoFault, TypeOK
  <2>4. Counters
    BY <1>0, <2>1, <2>2, <2>3 DEF TypeOK, Counters
  <2>5. ASSUME NEW step \in {"renew", "failed"}
        PROVE  SweepFits([sweep[s] EXCEPT !.pc = step], Len(rows))
    BY <1>0, <1>1, <2>5 DEF SweepFits, Sweep, Ids
  <2>6. \E step \in {"renew", "failed"} :
           sweep' = [sweep EXCEPT ![s] = [sweep[s] EXCEPT !.pc = step]]
    BY <1>0, <1>2 DEF Charge
  <2>7. QED
    BY <1>0, <2>1, <2>4, <2>5, <2>6, Unwritten, SweepTyped
<1>3. CASE Renew(s) \/ RenewalFailed(s)
  <2>1. /\ UNCHANGED <<book, ordered, paid, used, now, request, overlapped, crowded,
                       switches, faults>>
        /\ sweep' = [sweep EXCEPT ![s] = NextOf(sweep[s].due)]
    BY <1>3 DEF Renew, RenewalFailed, Proceed, money, history
  <2>2. Counters
    BY <1>0, <2>1 DEF TypeOK, Counters
  <2>3. SweepFits(NextOf(sweep[s].due), Len(rows))
    BY <1>0, NextFits
  <2> DEFINE over == [rows[i] EXCEPT !.status = "expired", !.auto = FALSE, !.next = Never,
                                     !.grace = Never]
             again == [rows[i] EXCEPT !.grace = sweep[s].grace, !.next = now + Retry]
  <2>4. over = [rows[i] EXCEPT !.status = "expired", !.auto = FALSE, !.grace = Never,
                               !.next = Never]
    BY <1>0, <1>1 DEF Row
  <2>5. RowsKept /\ (Len(rows') = Len(rows) \/ Len(rows') = Len(rows) + 1)
    <3>1. CASE rows' = rows
      BY <1>0, <3>1, Unwritten
    <3>2. CASE rows' = [rows EXCEPT ![i] = over]
      BY <1>0, <1>1, <3>2, RowExpired, OneWritten
    <3>3. CASE rows[i].status = "active" /\ rows' = [rows EXCEPT ![i] = again]
      <4>1. now + Retry \in Date
        BY <1>0, TimeAssumption DEF TypeOK, Date
      <4>2. again \in Row /\ MayBecome(rows[i], again)
        BY <1>0, <1>1, <3>3, <4>1, RowRetried
      <4>3. QED
        BY <1>0, <1>1, <3>3, <4>2, OneWritten
    <3>4. CASE rows' = Append([rows EXCEPT ![i] = over], RenewedRow(i))
      <4>1. over \in Row /\ MayBecome(rows[i], over)
        BY <1>0, <1>1, RowExpired
      <4>2. RenewedRow(i) \in Row /\ Fresh(RenewedRow(i))
        BY <1>1, RenewedIsRow
      <4>3. QED
        BY <1>0, <1>1, <3>4, <4>1, <4>2, OneWrittenOneAdded
    <3>5. RenewalFailed(s) =>
             \/ rows' = rows
             \/ rows' = [rows EXCEPT ![i] = over]
             \/ rows[i].status = "active" /\ rows' = [rows EXCEPT ![i] = again]
      BY <1>0, <1>1, <2>4 DEF RenewalFailed
    <3>6. Renew(s) => rows' = rows \/ rows' = Append([rows EXCEPT ![i] = over], RenewedRow(i))
      BY <2>4 DEF Renew
    <3>7. QED
      BY <1>3, <3>1, <3>2, <3>3, <3>4, <3>5, <3>6
  <2>6. SweepFits(NextOf(sweep[s].due), Len(rows'))
    BY <1>0, <2>3, <2>5, FitsAmongMore
  <2>7. QED
    BY <2>1, <2>2, <2>5, <2>6, SweepTyped
<1>4. QED
  BY <1>2, <1>3

(* At the start everything has its type.                                   *)
LEMMA InitTyped == Init => TInv
<1> SUFFICES ASSUME Init
             PROVE  TInv
  OBVIOUS
<1>1. Len(rows) = 0 /\ Ids = {} /\ rows \in Seq(Row)
  BY DEF Init, Ids
<1>2. SweepFits(Resting, Len(rows)) /\ RequestFits(Idle, Len(rows))
  BY IdleFits DEF SweepFits, Sweep, Resting, Date, Never
<1>3. request \in [Requests -> Request] /\ sweep \in [Sweeps -> Sweep]
  BY <1>2 DEF Init, RequestFits, SweepFits
<1>4. ordered \subseteq Nat /\ paid \subseteq ordered
  BY ElsewhereAssumption DEF Init
<1>5. QED
  BY <1>1, <1>2, <1>3, <1>4 DEF Init, TInv, TypeOK

(* Every step keeps it.                                                    *)
LEMMA StepTyped ==
    ASSUME TInv, [Next]_vars
    PROVE  RowsKept /\ TInv'
<1>1. ASSUME NEW q \in Requests, RequestStep(q)
      PROVE  RowsKept /\ TInv'
  BY <1>1, BeginTyped, ChargeTyped, CheckoutTyped, ActivateTyped, UserTyped DEF RequestStep
<1>2. ASSUME NEW s \in Sweeps, BeginSweep(s) \/ SweepStep(s)
      PROVE  RowsKept /\ TInv'
  BY <1>2, BeginSweepTyped, CandidateTyped, SweepStepTyped DEF SweepStep
<1>3. QED
  BY <1>1, <1>2, ActivateTyped, OutsideTyped DEF Next

(* All state of subscription-service keeps its type: in particular a       *)
(* request or a sweep never works on a row that does not exist.            *)
THEOREM TypeCorrect == Spec => []TypeOK
<1>1. TInv => TypeOK
  BY DEF TInv
<1>2. QED
  BY <1>1, InitTyped, StepTyped, PTL DEF Spec

-----------------------------------------------------------------------------
(* Renewals.                                                               *)

(* Rows are added by a checkout or by a renewal only.                      *)
LEMMA StepAdds ==
    ASSUME TInv, [Next]_vars
    PROVE  \/ \E q \in Requests : CreatePending(q)
           \/ \E s \in Sweeps : Renew(s) /\ rows[sweep[s].id].status = "active"
           \/ Len(rows') = Len(rows)
<1>0. rows \in Seq(Row) /\ DOMAIN rows = Ids
  BY DEF TInv, TypeOK, Ids
<1>1. RowsKept
  BY StepTyped
<1>2. DOMAIN rows' = DOMAIN rows => Len(rows') = Len(rows)
  BY <1>0, <1>1 DEF RowsKept
<1>3. ASSUME NEW q \in Requests, RequestStep(q), ~ CreatePending(q)
      PROVE  DOMAIN rows' = DOMAIN rows
  <2>1. CASE Subscribe(q) \/ ChangePlan(q) \/ FindPending(q) \/ RefuseCoupon(q) \/ Debit(q)
             \/ ReadToCancel(q) \/ ReadToSwitch(q)
    BY <2>1 DEF Subscribe, ChangePlan, BeginCheckout, FindPending, RefuseCoupon, Debit,
       ReadToCancel, ReadToSwitch
  <2>2. CASE RemovePending(q) \/ Order(q)
    BY <2>2 DEF RemovePending, Order, Removed
  <2>3. CASE Fallback(q) \/ Cancel(q) \/ SwitchAutoRenew(q)
    BY <2>3 DEF Fallback, Cancel, SwitchAutoRenew
  <2>4. CASE Activate(q)
    BY <1>0, <2>4 DEF Activate, ActivateCheckout
  <2>5. QED
    BY <1>3, <2>1, <2>2, <2>3, <2>4 DEF RequestStep
<1>4. ASSUME NEW s \in Sweeps, BeginSweep(s) \/ SweepStep(s),
             ~ (Renew(s) /\ rows[sweep[s].id].status = "active")
      PROVE  DOMAIN rows' = DOMAIN rows
  <2>1. CASE BeginSweep(s) \/ Charge(s)
    BY <2>1 DEF BeginSweep, Charge
  <2>2. CASE ProcessCandidate(s)
    BY <2>2 DEF ProcessCandidate, Expire, Wait, Withdrawn, EnsureAttempt
  <2>3. CASE Renew(s)
    BY <1>4, <2>3 DEF Renew
  <2>4. CASE RenewalFailed(s)
    BY <2>4 DEF RenewalFailed
  <2>5. QED
    BY <1>4, <2>1, <2>2, <2>3, <2>4 DEF SweepStep
<1>5. ASSUME NEW i \in Ids, VerifyPayment(i)
      PROVE  DOMAIN rows' = DOMAIN rows
  BY <1>0, <1>5 DEF VerifyPayment, ActivateCheckout
<1>6. QED
  BY <1>2, <1>3, <1>4, <1>5, OutsideTyped DEF Next

(* What a renewal does to the rows.                                        *)
LEMMA RenewWrites ==
    ASSUME TInv, NEW s \in Sweeps, Renew(s), rows[sweep[s].id].status = "active"
    PROVE  LET i == sweep[s].id
               n == Len(rows) + 1
           IN  /\ i \in Ids /\ Len(rows') = n /\ rows'[n] = RenewedRow(i)
               /\ rows'[i].status = "expired"
<1>0. /\ TypeOK /\ SweepFits(sweep[s], Len(rows))
      /\ \A i \in Ids : rows[i] \in Row
  BY DEF TInv, TypeOK, Ids
<1> DEFINE i == sweep[s].id
           over == [rows[i] EXCEPT !.status = "expired", !.auto = FALSE, !.next = Never,
                                   !.grace = Never]
<1>1. i \in Ids /\ rows[i] \in Row
  BY <1>0 DEF SweepFits, Renew, Ids
<1>2. over = [rows[i] EXCEPT !.status = "expired", !.auto = FALSE, !.grace = Never,
                             !.next = Never]
  BY <1>1 DEF Row
<1>3. rows' = Append([rows EXCEPT ![i] = over], RenewedRow(i))
  BY <1>2 DEF Renew
<1>4. over \in Row /\ MayBecome(rows[i], over) /\ over.status = "expired"
  BY <1>1, RowExpired DEF Row
<1>5. RenewedRow(i) \in Row /\ Fresh(RenewedRow(i))
  BY <1>1, RenewedIsRow
<1>6. QED
  BY <1>0, <1>1, <1>3, <1>4, <1>5, OneWrittenOneAdded

(* What a checkout adds.                                                   *)
LEMMA CreateWrites ==
    ASSUME TInv, NEW q \in Requests, CreatePending(q)
    PROVE  LET n == Len(rows) + 1
           IN  /\ Len(rows') = n /\ rows'[n].status = "pending" /\ ~ rows'[n].renewal
               /\ rows'[n].plan = request[q].plan /\ rows'[n].coupon = request[q].coupon
<1>1. PICK method : rows' = Append(rows, NewRow(request[q].plan, method, request[q].coupon,
                                                request[q].replaces))
  BY DEF CreatePending
<1>2. /\ Len(rows') = Len(rows) + 1
      /\ rows'[Len(rows) + 1] = NewRow(request[q].plan, method, request[q].coupon,
                                       request[q].replaces)
  BY <1>1 DEF TInv, TypeOK
<1>3. QED
  BY <1>2 DEF NewRow

(* The row that a renewal replaces is there.                               *)
Linked == \A i \in Ids : rows[i].renewal => rows[i].replaces \in Ids

(* No step renews a cycle a second time, or one that has not ended.        *)
LEMMA RenewedStep ==
    ASSUME TInv, Linked, RenewedOncePerCycle, [Next]_vars
    PROVE  Linked' /\ RenewedOncePerCycle'
<1>0. RowsKept /\ Len(rows) \in Nat /\ Len(rows') \in Nat
  BY StepTyped DEF TInv, TypeOK, RowsKept
<1> DEFINE n == Len(rows) + 1
           Next1 == 1 .. Len(rows')
<1>1. Ids \subseteq Next1 /\ n \notin Ids
  BY <1>0 DEF Ids, RowsKept
<1>2. \A i \in Ids : /\ rows'[i].renewal = rows[i].renewal
                     /\ rows'[i].replaces = rows[i].replaces
                     /\ rows'[i].status \in Open => rows[i].status \in Open
  BY <1>0 DEF RowsKept, MayBecome
<1>3. \/ Next1 = Ids
      \/ Next1 = Ids \union {n} /\ ~ rows'[n].renewal
      \/ /\ Next1 = Ids \union {n}
         /\ \E i \in Ids : /\ rows'[n].renewal /\ rows'[n].replaces = i
                           /\ rows[i].status = "active" /\ rows'[i].status = "expired"
  <2>1. CASE Len(rows') = Len(rows)
    BY <2>1 DEF Ids
  <2>2. Len(rows') = n => Next1 = Ids \union {n}
    BY <1>0 DEF Ids
  <2>3. CASE \E q \in Requests : CreatePending(q)
    BY <2>2, <2>3, CreateWrites
  <2>4. ASSUME NEW s \in Sweeps, Renew(s), rows[sweep[s].id].status = "active"
        PROVE  /\ Next1 = Ids \union {n}
               /\ \E i \in Ids : /\ rows'[n].renewal /\ rows'[n].replaces = i
                                 /\ rows[i].status = "active" /\ rows'[i].status = "expired"
    <3> DEFINE j == sweep[s].id
    <3>1. /\ j \in Ids /\ Len(rows') = n /\ rows'[n] = RenewedRow(j)
          /\ rows'[j].status = "expired"
      BY <2>4, RenewWrites
    <3>2. RenewedRow(j).renewal /\ RenewedRow(j).replaces = j
      BY <3>1, RenewedIsRow
    <3>3. QED
      BY <2>2, <2>4, <3>1, <3>2
  <2>5. QED
    BY <2>1, <2>3, <2>4, StepAdds
<1>4. \A i \in Ids : rows[i].renewal =>
         /\ rows[i].replaces \in Ids /\ rows[rows[i].replaces].status \notin Open
         /\ \A k \in Ids : rows[k].renewal /\ rows[k].replaces = rows[i].replaces => i = k
  BY DEF Linked, RenewedOncePerCycle, Open
<1>5. \A i \in Next1 : rows'[i].renewal =>
         /\ rows'[i].replaces \in Next1
         /\ rows'[rows'[i].replaces].status \notin Open
         /\ \A k \in Next1 : rows'[k].renewal /\ rows'[k].replaces = rows'[i].replaces => i = k
  <2> HIDE DEF n, Next1
  <2>1. CASE Next1 = Ids \/ (Next1 = Ids \union {n} /\ ~ rows'[n].renewal)
    BY <1>1, <1>2, <1>4, <2>1
  <2>2. ASSUME Next1 = Ids \union {n}, NEW j \in Ids, rows'[n].renewal, rows'[n].replaces = j,
               rows[j].status = "active", rows'[j].status = "expired"
        PROVE  \A i \in Next1 : rows'[i].renewal =>
                  /\ rows'[i].replaces \in Next1
                  /\ rows'[rows'[i].replaces].status \notin Open
                  /\ \A k \in Next1 : rows'[k].renewal /\ rows'[k].replaces = rows'[i].replaces
                                         => i = k
    <3>1. \A i \in Ids : rows[i].renewal => rows[i].replaces # j
      BY <1>4, <2>2 DEF Open
    <3>2. QED
      BY <1>1, <1>2, <1>4, <2>2, <3>1 DEF Open
  <2>3. QED
    BY <1>3, <2>1, <2>2
<1>6. QED
  BY <1>5 DEF Linked, RenewedOncePerCycle, Ids, Open

(* A cycle is renewed once at most, into a row that takes over from one    *)
(* that has ended, however many sweeps overlap.                            *)
THEOREM CycleRenewedOnce == Spec => []RenewedOncePerCycle
<1>1. Init => Linked /\ RenewedOncePerCycle
  BY DEF Init, Linked, RenewedOncePerCycle, Ids
<1>2. QED
  BY <1>1, InitTyped, StepTyped, RenewedStep, PTL DEF Spec

-----------------------------------------------------------------------------
(* Payment.                                                                *)

(* Row i is free or its checkout was debited.                              *)
Bought(i) == <<rows[i].plan, rows[i].coupon>> \in Free \/ CheckoutKey(i) \in book

(* Attempt n at renewing row i is free or was debited.                     *)
Covered(i, n) == <<rows[i].plan, FALSE>> \in Free \/ RenewalKey(i, n) \in book

(* Row i was paid for, in one of the ways of ActiveIsPaid.                 *)
PaidFor(i) ==
    \/ <<rows[i].plan, rows[i].coupon>> \in Free
    \/ ~ rows[i].renewal /\ CheckoutKey(i) \in book
    \/ rows[i].renewal /\ \E k \in 1 .. rows[rows[i].replaces].attempts :
                             RenewalKey(rows[i].replaces, k) \in book
    \/ /\ ~ rows[i].renewal /\ rows[i].status # "pending"
       /\ rows[i].method = "razorpay" /\ paid # {}

(* A request about to activate a row, or to cancel one, knows it is paid.  *)
RequestPaid(q) ==
    /\ request[q].pc = "activate" => Bought(request[q].id)
    /\ request[q].pc = "cancel" => PaidFor(request[q].id)

(* So does a sweep of the rows on its list and of the renewal in hand.     *)
SweepPaid(s) ==
    /\ \A c \in sweep[s].due : c[2].plan = rows[c[1]].plan /\ PaidFor(c[1])
    /\ sweep[s].pc \in {"charge", "renew"} =>
          sweep[s].attempt \in 1 .. rows[sweep[s].id].attempts
    /\ sweep[s].pc = "renew" => Covered(sweep[s].id, sweep[s].attempt)

PInv == /\ Linked /\ ActiveIsPaid
        /\ \A q \in Requests : RequestPaid(q)
        /\ \A s \in Sweeps : SweepPaid(s)

(* Money is not taken back.                                                *)
LEMMA MoneyStays ==
    ASSUME TInv, [Next]_vars
    PROVE  book \subseteq book' /\ paid \subseteq paid'
<1>1. ASSUME NEW q \in Requests, RequestStep(q)
      PROVE  book \subseteq book' /\ paid \subseteq paid'
  <2>1. CASE Debit(q)
    BY <2>1 DEF Debit
  <2>2. CASE ~ Debit(q)
    BY <1>1, <2>2 DEF RequestStep, Subscribe, ChangePlan, BeginCheckout, FindPending,
       RemovePending, RefuseCoupon, CreatePending, Fallback, Order, Activate, ReadToCancel,
       Cancel, ReadToSwitch, SwitchAutoRenew, money
  <2>3. QED
    BY <2>1, <2>2
<1>2. ASSUME NEW s \in Sweeps, BeginSweep(s) \/ SweepStep(s)
      PROVE  book \subseteq book' /\ paid \subseteq paid'
  BY <1>2 DEF BeginSweep, SweepStep, ProcessCandidate, Charge, Renew, RenewalFailed, money
<1>3. ASSUME NEW i \in Ids, Pay(i) \/ VerifyPayment(i)
      PROVE  book \subseteq book' /\ paid \subseteq paid'
  BY <1>3 DEF Pay, VerifyPayment, money
<1>4. ASSUME Tick \/ Crash \/ UNCHANGED vars
      PROVE  book \subseteq book' /\ paid \subseteq paid'
  BY <1>4 DEF Tick, Crash, vars, money
<1>5. QED
  BY <1>1, <1>2, <1>3, <1>4 DEF Next

(* What is paid stays paid.                                                *)
LEMMA PaidStays ==
    ASSUME TInv, Linked, [Next]_vars, NEW i \in Ids
    PROVE  /\ PaidFor(i) => PaidFor(i)'
           /\ Bought(i) => Bought(i)'
           /\ \A n : Covered(i, n) => Covered(i, n)'
           /\ rows'[i].plan = rows[i].plan
           /\ rows[i].attempts <= rows'[i].attempts
           /\ i \in 1 .. Len(rows')
           /\ rows'[i].attempts \in Nat /\ rows[i].attempts \in Nat
<1>1. RowsKept /\ book \subseteq book' /\ paid \subseteq paid' /\ Len(rows) \in Nat
  BY StepTyped, MoneyStays DEF TInv, TypeOK
<1>2. \A k \in Ids : /\ rows'[k].plan = rows[k].plan /\ rows'[k].coupon = rows[k].coupon
                     /\ rows'[k].renewal = rows[k].renewal
                     /\ rows'[k].replaces = rows[k].replaces
                     /\ rows[k].attempts <= rows'[k].attempts
                     /\ k \in 1 .. Len(rows')
                     /\ rows[k] \in Row /\ rows'[k] \in Row
                     /\ rows[k].status # "pending" =>
                           /\ rows'[k].status # "pending"
                           /\ rows[k].method = "razorpay" => rows'[k].method = "razorpay"
  BY <1>1 DEF RowsKept, MayBecome, Ids, TInv, TypeOK
<1>3. Bought(i) => Bought(i)'
  BY <1>1, <1>2 DEF Bought, CheckoutKey
<1>4. \A n : Covered(i, n) => Covered(i, n)'
  BY <1>1, <1>2 DEF Covered, RenewalKey
<1>5. ASSUME rows[i].renewal, NEW k \in 1 .. rows[rows[i].replaces].attempts,
             RenewalKey(rows[i].replaces, k) \in book
      PROVE  PaidFor(i)'
  <2>1. rows[i].replaces \in Ids
    BY <1>5 DEF Linked
  <2>2. PICK j \in Ids : j = rows[i].replaces
    BY <2>1
  <2>3. k \in 1 .. rows'[j].attempts /\ RenewalKey(j, k) \in book'
    BY <1>1, <1>2, <1>5, <2>2 DEF Row
  <2>4. rows'[i].renewal /\ rows'[i].replaces = j
    BY <1>2, <1>5, <2>2
  <2>5. QED
    BY <2>3, <2>4 DEF PaidFor, RenewalKey
<1>6. PaidFor(i) => PaidFor(i)'
  BY <1>1, <1>2, <1>5 DEF PaidFor, CheckoutKey
<1>7. QED
  BY <1>2, <1>3, <1>4, <1>6 DEF Row

(* Where a row is no longer pending, it was paid for.                      *)
LEMMA BeginningsArePaid ==
    ASSUME TInv, PInv, [Next]_vars, NEW i \in Ids, rows'[i].status \in Begun
    PROVE  PaidFor(i) \/ PaidFor(i)'
<1>a. rows[i].status \in Begun => PaidFor(i)
  BY DEF PInv, ActiveIsPaid, PaidFor, Begun
<1>b. /\ rows \in Seq(Row) /\ DOMAIN rows = Ids
      /\ \A k \in Ids : rows[k] \in Row
  BY DEF TInv, TypeOK, Ids
<1>0. /\ rows \in Seq(Row) /\ DOMAIN rows = Ids
      /\ \A k \in Ids : rows[k] \in Row
      /\ rows[i].status \in Begun => PaidFor(i)
  BY <1>a, <1>b
<1>1. ASSUME NEW k \in Ids, NEW method, ActivateCheckout(k, method),
             Bought(k)
      PROVE  PaidFor(i)
  <2>1. PaidFor(k) \/ rows[k].status # "pending"
    BY <1>0, <1>1 DEF TInv, Fresh, Bought, PaidFor
  <2>2. rows[i].status \in Begun \/ (i = k /\ rows[k].status = "pending")
    <3>1. CASE rows[k].status # "pending"
      BY <1>1, <3>1 DEF ActivateCheckout
    <3>2. CASE rows[k].status = "pending" /\ i # k
      BY <1>0, <1>1, <3>2 DEF ActivateCheckout, With, Begun
    <3>3. QED
      BY <3>1, <3>2
  <2>3. QED
    BY <1>0, <2>1, <2>2
<1>2. ASSUME NEW q \in Requests, RequestStep(q)
      PROVE  PaidFor(i)
  <2>1. CASE Subscribe(q) \/ ChangePlan(q) \/ FindPending(q) \/ RefuseCoupon(q) \/ Debit(q)
             \/ ReadToCancel(q) \/ ReadToSwitch(q)
    BY <1>0, <2>1 DEF Subscribe, ChangePlan, BeginCheckout, FindPending, RefuseCoupon, Debit,
       ReadToCancel, ReadToSwitch
  <2>2. CASE RemovePending(q) \/ Order(q)
    BY <1>0, <2>2, SMTT(30) DEF RemovePending, Order, Removed, Begun, Row
  <2>3. CASE CreatePending(q)
    BY <1>0, <2>3 DEF CreatePending, Ids
  <2>4. CASE Fallback(q) \/ SwitchAutoRenew(q)
    <3> DEFINE k == request[q].id
    <3>1. k \in Ids /\ rows[k] \in Row
      BY <1>0, <2>4 DEF Fallback, SwitchAutoRenew, TInv, RequestFits, Ids
    <3>2. \A x, y : /\ [rows[k] EXCEPT !.method = x].status = rows[k].status
                    /\ [rows[k] EXCEPT !.auto = x, !.next = y].status = rows[k].status
      BY <3>1 DEF Row
    <3>3. \E b : rows' = [rows EXCEPT ![k] = b] /\ b.status = rows[k].status
      <4>1. CASE Fallback(q)
        <5>1. rows' = [rows EXCEPT ![k] = [rows[k] EXCEPT !.method = "razorpay"]]
          BY <4>1 DEF Fallback
        <5>2. QED
          BY <3>2, <5>1
      <4>2. CASE SwitchAutoRenew(q)
        <5>1. PICK x, y : rows' = [rows EXCEPT ![k] = [rows[k] EXCEPT !.auto = x, !.next = y]]
          BY <4>2 DEF SwitchAutoRenew
        <5>2. [rows[k] EXCEPT !.auto = x, !.next = y].status = rows[k].status
          BY <3>2
        <5>3. QED
          BY <5>1, <5>2
      <4>3. QED
        BY <2>4, <4>1, <4>2
    <3>4. rows'[i].status = rows[i].status
      BY <1>0, <3>3
    <3>5. QED
      BY <1>0, <3>4
  <2>5. CASE Cancel(q)
    <3>1. PaidFor(request[q].id)
      BY <2>5 DEF Cancel, PInv, RequestPaid
    <3>2. i # request[q].id => rows'[i] = rows[i]
      BY <1>0, <2>5 DEF Cancel
    <3>3. QED
      BY <1>0, <3>1, <3>2
  <2>6. CASE Activate(q)
    <3>1. request[q].id \in Ids /\ Bought(request[q].id)
      BY <2>6 DEF Activate, TInv, RequestFits, Ids, PInv, RequestPaid
    <3>2. QED
      BY <1>1, <2>6, <3>1 DEF Activate
  <2>7. QED
    BY <1>2, <2>1, <2>2, <2>3, <2>4, <2>5, <2>6 DEF RequestStep
<1>3. ASSUME NEW k \in Ids, VerifyPayment(k)
      PROVE  PaidFor(i) \/ PaidFor(i)'
  <2>1. ActivateCheckout(k, "razorpay") /\ UNCHANGED paid /\ paid # {}
    BY <1>3 DEF VerifyPayment, money
  <2>2. CASE rows[k].status # "pending"
    BY <1>0, <2>1, <2>2 DEF ActivateCheckout
  <2>3. CASE rows[k].status = "pending" /\ i # k
    BY <1>0, <2>1, <2>3 DEF ActivateCheckout, With, Begun
  <2>4. CASE rows[k].status = "pending" /\ i = k
    <3> DEFINE sold == [rows[k] EXCEPT !.status = "active", !.method = "razorpay",
                                       !.auto = FALSE, !.grace = Never,
                                       !.next = Never, !.attempts = 0]
    <3>1. rows'[k] = sold
      BY <2>1, <2>4 DEF ActivateCheckout
    <3>2. /\ sold.status = "active" /\ sold.method = "razorpay"
          /\ sold.renewal = rows[k].renewal
      BY <1>0 DEF Row
    <3>3. ~ rows[k].renewal
      BY <2>4 DEF TInv, Fresh
    <3> HIDE DEF sold
    <3>4. QED
      BY <2>1, <2>4, <3>1, <3>2, <3>3 DEF PaidFor
  <2>5. QED
    BY <2>2, <2>3, <2>4
<1>4. ASSUME NEW s \in Sweeps, BeginSweep(s) \/ SweepStep(s)
      PROVE  PaidFor(i)
  <2>1. CASE BeginSweep(s) \/ Charge(s)
    BY <1>0, <2>1 DEF BeginSweep, Charge
  <2>2. CASE ProcessCandidate(s)
    <3>1. PICK c \in sweep[s].due : \/ Expire(s, c[1], c[2])
                                    \/ Wait(s, c[1], c[2])
                                    \/ Withdrawn(s, c[1], c[2])
                                    \/ EnsureAttempt(s, c[1], c[2])
      BY <2>2 DEF ProcessCandidate
    <3>2. PaidFor(c[1]) /\ c[1] \in Ids
      BY DEF PInv, SweepPaid, TInv, SweepFits, Ids
    <3>3. i # c[1] => rows'[i] = rows[i]
      BY <1>0, <3>1 DEF Expire, Wait, Withdrawn, EnsureAttempt
    <3>4. QED
      BY <1>0, <3>2, <3>3
  <2>3. CASE Renew(s) \/ RenewalFailed(s)
    <3> DEFINE k == sweep[s].id
    <3>1. k \in Ids
      BY <2>3 DEF Renew, RenewalFailed, TInv, SweepFits, Ids
    <3>2. i # k => rows'[i] = rows[i]
      BY <1>0, <2>3, <3>1 DEF Renew, RenewalFailed, Ids
    <3>3. rows[k].status = "active" \/ rows' = rows
      BY <2>3 DEF Renew, RenewalFailed
    <3>4. rows[k].status = "active" => PaidFor(k)
      BY <3>1 DEF PInv, ActiveIsPaid, PaidFor, Begun
    <3>5. QED
      BY <1>0, <3>2, <3>3, <3>4
  <2>4. QED
    BY <1>4, <2>1, <2>2, <2>3 DEF SweepStep
<1>5. QED
  BY <1>0, <1>2, <1>3, <1>4, OutsideTyped DEF Next

(* A row that is added active is a renewal that was paid for.              *)
LEMMA AdditionsArePaid ==
    ASSUME TInv, PInv, [Next]_vars, NEW n \in (1 .. Len(rows')) \ Ids,
           rows'[n].status \in Begun
    PROVE  PaidFor(n)'
<1>0. Len(rows) \in Nat
  BY DEF TInv, TypeOK
<1>1. PICK s \in Sweeps : Renew(s) /\ rows[sweep[s].id].status = "active"
  <2>1. Len(rows') # Len(rows)
    BY DEF Ids
  <2>2. \A q \in Requests : ~ CreatePending(q)
    <3>1. ASSUME NEW q \in Requests, CreatePending(q)
          PROVE  FALSE
      <4>1. Len(rows') = Len(rows) + 1 /\ rows'[Len(rows) + 1].status = "pending"
        BY <3>1, CreateWrites
      <4>2. n = Len(rows) + 1
        BY <1>0, <4>1 DEF Ids
      <4>3. QED
        BY <4>1, <4>2 DEF Begun
    <3>2. QED
      BY <3>1
  <2>3. QED
    BY <2>1, <2>2, StepAdds
<1> DEFINE i == sweep[s].id
           a == sweep[s].attempt
<1>2. i \in Ids /\ Len(rows') = Len(rows) + 1 /\ rows'[Len(rows) + 1] = RenewedRow(i)
  BY <1>1, RenewWrites
<1>3. n = Len(rows) + 1
  BY <1>0, <1>2 DEF Ids
<1>4. /\ rows'[n].renewal /\ rows'[n].replaces = i
      /\ rows'[n].plan = rows[i].plan /\ rows'[n].coupon = FALSE
  BY <1>2, <1>3, RenewedIsRow
<1>5. Covered(i, a) /\ a \in 1 .. rows[i].attempts
  BY <1>1 DEF Renew, PInv, SweepPaid
<1>6. CASE <<rows[i].plan, FALSE>> \in Free
  BY <1>4, <1>6 DEF PaidFor
<1>7. CASE RenewalKey(i, a) \in book
  <2>1. a \in 1 .. rows'[i].attempts
    BY <1>2, <1>5, PaidStays DEF PInv
  <2>2. RenewalKey(i, a) \in book'
    BY <1>7, MoneyStays
  <2>3. PICK j \in Ids, k \in 1 .. rows'[i].attempts : j = i /\ k = a
    BY <1>2, <2>1
  <2>4. QED
    BY <1>4, <2>1, <2>2, <2>3 DEF PaidFor, RenewalKey
<1>8. QED
  BY <1>5, <1>6, <1>7 DEF Covered

(* Requests know what is paid.                                             *)
LEMMA RequestPaidNext ==
    ASSUME NEW p \in Requests, NEW j, request'[p].id = j,
           request'[p].pc = "activate" => Bought(j)',
           request'[p].pc = "cancel" => PaidFor(j)'
    PROVE  RequestPaid(p)'
BY DEF RequestPaid, Bought, PaidFor

(* Every step leaves requests knowing what is paid.                        *)
LEMMA RequestPaidStep ==
    ASSUME TInv, PInv, [Next]_vars, NEW p \in Requests
    PROVE  RequestPaid(p)'
<1>0. request \in [Requests -> Request] /\ Idle.pc = "idle" /\ Len(rows) \in Nat
  BY DEF TInv, TypeOK, Idle
<1>1. CASE request'[p] = request[p]
  <2>1. PICK j : j = request[p].id
    OBVIOUS
  <2>2. request[p].pc \in {"activate", "cancel"} => j \in Ids
    BY <2>1 DEF TInv, RequestFits, Ids
  <2>3. /\ request[p].pc = "activate" => Bought(j)
        /\ request[p].pc = "cancel" => PaidFor(j)
    BY <2>1 DEF PInv, RequestPaid
  <2>4. /\ request[p].pc = "activate" => Bought(j)'
        /\ request[p].pc = "cancel" => PaidFor(j)'
    BY <2>2, <2>3, PaidStays DEF PInv
  <2>5. QED
    BY <1>1, <2>1, <2>4, RequestPaidNext
<1>2. CASE request'[p].pc \notin {"activate", "cancel"}
  BY <1>2 DEF RequestPaid
<1>3. ASSUME NEW q \in Requests, RequestStep(q), request'[p] # request[p],
             request'[p].pc \in {"activate", "cancel"}
      PROVE  RequestPaid(p)'
  <2>1. CASE Debit(q)
    <3> DEFINE j == request[q].id
    <3>1. q = p /\ request'[p].id = j /\ request'[p].pc = "activate"
          /\ CheckoutKey(j) \in book'
      BY <1>0, <1>3, <2>1 DEF Debit, Goto, Leave, Request
    <3>2. PICK k : k = j
      OBVIOUS
    <3>3. Bought(k)'
      BY <3>1, <3>2 DEF Bought, CheckoutKey
    <3>4. QED
      BY <3>1, <3>2, <3>3, RequestPaidNext
  <2>2. CASE CreatePending(q)
    <3> DEFINE n == Len(rows) + 1
    <3>1. /\ q = p /\ request'[p].pc = "activate" /\ request'[p].id = n
          /\ <<request[q].plan, request[q].coupon>> \in Free
      BY <1>0, <1>3, <2>2 DEF CreatePending, Idle
    <3>2. rows'[n].plan = request[q].plan /\ rows'[n].coupon = request[q].coupon
      BY <2>2, CreateWrites
    <3>3. PICK k : k = n
      OBVIOUS
    <3>4. Bought(k)'
      BY <3>1, <3>2, <3>3 DEF Bought
    <3>5. QED
      BY <3>1, <3>3, <3>4, RequestPaidNext
  <2>3. CASE ReadToCancel(q)
    <3>1. PICK i \in With("active") :
             request' = [request EXCEPT ![q] = [Idle EXCEPT !.pc = "cancel", !.id = i,
                                                           !.copy = Copy(i)]]
      BY <2>3 DEF ReadToCancel
    <3>2. q = p /\ request'[p].id = i /\ request'[p].pc = "cancel"
      BY <1>0, <1>3, <3>1 DEF Idle
    <3>3. i \in Ids /\ PaidFor(i)
      BY DEF With, PInv, ActiveIsPaid, PaidFor, Begun
    <3>4. PaidFor(i)'
      BY <3>3, PaidStays DEF PInv
    <3>5. QED
      BY <3>2, <3>4, RequestPaidNext
  <2>4. CASE Subscribe(q) \/ ChangePlan(q) \/ FindPending(q) \/ RemovePending(q)
    <3>1. ASSUME NEW plan, NEW coupon, NEW i, BeginCheckout(q, plan, coupon, i)
          PROVE  FALSE
      BY <1>0, <1>3, <3>1 DEF BeginCheckout, Idle
    <3>2. CASE FindPending(q) \/ RemovePending(q)
      BY <1>0, <1>3, <3>2 DEF FindPending, RemovePending, Goto, Idle, Request
    <3>3. QED
      BY <2>4, <3>1, <3>2 DEF Subscribe, ChangePlan
  <2>5. CASE RefuseCoupon(q) \/ Fallback(q) \/ Order(q) \/ Activate(q)
             \/ Cancel(q) \/ SwitchAutoRenew(q)
    BY <1>0, <1>3, <2>5 DEF RefuseCoupon, Fallback, Order, Activate, Cancel, SwitchAutoRenew,
       Goto, Leave, Request
  <2>6. CASE ReadToSwitch(q)
    BY <1>0, <1>3, <2>6 DEF ReadToSwitch, Idle
  <2>7. QED
    BY <1>3, <2>1, <2>2, <2>3, <2>4, <2>5, <2>6 DEF RequestStep
<1>4. ASSUME NEW s \in Sweeps, BeginSweep(s) \/ SweepStep(s)
      PROVE  request' = request
  BY <1>4 DEF BeginSweep, SweepStep, ProcessCandidate, Charge, Renew, RenewalFailed
<1>5. ASSUME NEW i \in Ids, Pay(i) \/ VerifyPayment(i)
      PROVE  request' = request
  BY <1>5 DEF Pay, VerifyPayment
<1>6. ASSUME Tick \/ Crash \/ UNCHANGED vars
      PROVE  request' = request \/ request'[p] = Idle
  BY <1>6 DEF Tick, Crash, vars
<1>7. QED
  BY <1>0, <1>1, <1>2, <1>3, <1>4, <1>5, <1>6 DEF Next

(* Sweeps know what is paid.                                               *)
LEMMA SweepPaidNext ==
    ASSUME NEW s \in Sweeps, NEW i, NEW n,
           sweep'[s].id = i, sweep'[s].attempt = n,
           \A c \in sweep'[s].due : c[2].plan = rows'[c[1]].plan /\ PaidFor(c[1])',
           sweep'[s].pc \in {"charge", "renew"} => n \in 1 .. rows'[i].attempts,
           sweep'[s].pc = "renew" => Covered(i, n)'
    PROVE  SweepPaid(s)'
BY DEF SweepPaid, PaidFor, Covered

(* Every step leaves sweeps knowing what is paid.                          *)
LEMMA SweepPaidStep ==
    ASSUME TInv, PInv, [Next]_vars, NEW t \in Sweeps
    PROVE  SweepPaid(t)'
<1>0. /\ sweep \in [Sweeps -> Sweep] /\ Len(rows) \in Nat
      /\ SweepFits(sweep[t], Len(rows)) /\ SweepPaid(t)
      /\ \A k \in Ids : rows[k] \in Row
  BY DEF TInv, TypeOK, PInv, Ids
<1>1. \A due \in SUBSET sweep[t].due : \A c \in due :
         c[2].plan = rows'[c[1]].plan /\ PaidFor(c[1])'
  BY <1>0, PaidStays DEF SweepPaid, SweepFits, PInv, Ids
<1>2. ASSUME NEW due \in SUBSET sweep[t].due, sweep'[t] = NextOf(due)
      PROVE  SweepPaid(t)'
  <2>1. /\ sweep'[t].pc \in {"idle", "next"} /\ sweep'[t].due \in {{}, due}
        /\ sweep'[t].id = 0 /\ sweep'[t].attempt = 0
    BY <1>2 DEF NextOf, Resting
  <2>2. QED
    BY <1>1, <2>1, SweepPaidNext
<1>3. CASE sweep'[t] = sweep[t]
  <2>1. PICK i, n : i = sweep[t].id /\ n = sweep[t].attempt
    OBVIOUS
  <2>2. sweep[t].pc \in {"charge", "renew"} => i \in Ids
    BY <1>0, <2>1 DEF SweepFits, Ids
  <2>3. /\ sweep[t].pc \in {"charge", "renew"} => n \in 1 .. rows[i].attempts
        /\ sweep[t].pc = "renew" => Covered(i, n)
    BY <1>0, <2>1 DEF SweepPaid
  <2>4. sweep[t].pc \in {"charge", "renew"} => n \in 1 .. rows'[i].attempts
    BY <2>2, <2>3, PaidStays DEF PInv
  <2>5. sweep[t].pc = "renew" => Covered(i, n)'
    BY <2>2, <2>3, PaidStays DEF PInv
  <2>6. \A c \in sweep[t].due : c[2].plan = rows'[c[1]].plan /\ PaidFor(c[1])'
    BY <1>1
  <2>7. QED
    BY <1>3, <2>1, <2>4, <2>5, <2>6, SweepPaidNext
<1>4. CASE BeginSweep(t)
  <2> DEFINE due == {<<i, rows[i]>> : i \in {k \in Ids : Due(k)}}
  <2>1. sweep'[t] = [Resting EXCEPT !.pc = "next", !.due = due]
    BY <1>0, <1>4 DEF BeginSweep
  <2>2. /\ sweep'[t].pc = "next" /\ sweep'[t].due = due
        /\ sweep'[t].id = 0 /\ sweep'[t].attempt = 0
    BY <2>1 DEF Resting
  <2>3. ASSUME NEW i \in Ids, Due(i)
        PROVE  rows[i].plan = rows'[i].plan /\ PaidFor(i)'
    <3>1. PaidFor(i)
      BY <2>3 DEF Due, PInv, ActiveIsPaid, PaidFor, Begun
    <3>2. QED
      BY <3>1, PaidStays DEF PInv
  <2>4. \A c \in due : c[2].plan = rows'[c[1]].plan /\ PaidFor(c[1])'
    BY <2>3
  <2>5. QED
    <3> HIDE DEF due
    <3>1. QED
      BY <2>2, <2>4, SweepPaidNext
<1>5. CASE ProcessCandidate(t)
  <2>1. PICK c \in sweep[t].due : \/ Expire(t, c[1], c[2])
                                  \/ Wait(t, c[1], c[2])
                                  \/ Withdrawn(t, c[1], c[2])
                                  \/ EnsureAttempt(t, c[1], c[2])
    BY <1>5 DEF ProcessCandidate
  <2> DEFINE i == c[1]
             left == sweep[t].due \ {<<i, c[2]>>}
  <2>2. i \in Ids /\ c[2].plan = rows[i].plan
    BY <1>0 DEF SweepFits, SweepPaid, Ids
  <2>3. left \in SUBSET sweep[t].due
    OBVIOUS
  <2>4. CASE sweep'[t] = NextOf(left)
    BY <1>2, <2>3, <2>4
  <2>5. CASE Withdrawn(t, i, c[2])
    <3>1. /\ sweep'[t].pc = "failed" /\ sweep'[t].due = left
          /\ sweep'[t].id = i /\ sweep'[t].attempt = 0
      BY <1>0, <2>5 DEF Withdrawn, InHand
    <3>2. \A d \in left : d[2].plan = rows'[d[1]].plan /\ PaidFor(d[1])'
      BY <1>1
    <3> HIDE DEF left
    <3>3. QED
      BY <3>1, <3>2, SweepPaidNext
  <2>6. CASE EnsureAttempt(t, i, c[2]) /\ rows[i].status = "active"
    <3> DEFINE n == rows[i].attempts + 1
    <3>1. /\ sweep'[t].due = left /\ sweep'[t].id = i /\ sweep'[t].attempt = n
          /\ sweep'[t].pc = IF <<c[2].plan, FALSE>> \in Free THEN "renew" ELSE "charge"
      BY <1>0, <2>6 DEF EnsureAttempt, InHand
    <3>2. rows'[i].attempts = n /\ n \in 1 .. n
      BY <1>0, <2>2, <2>6 DEF EnsureAttempt, Row, Ids, TInv, TypeOK
    <3>3. PICK m : m = n
      OBVIOUS
    <3>4. sweep'[t].pc = "renew" => Covered(i, m)'
      <4>1. sweep'[t].pc = "renew" => Covered(i, m)
        BY <2>2, <3>1 DEF Covered
      <4>2. QED
        BY <2>2, <4>1, PaidStays DEF PInv
    <3>5. \A d \in left : d[2].plan = rows'[d[1]].plan /\ PaidFor(d[1])'
      BY <1>1
    <3>6. m \in 1 .. rows'[i].attempts
      BY <3>2, <3>3
    <3> HIDE DEF left, n
    <3>7. QED
      BY <3>1, <3>3, <3>4, <3>5, <3>6, SweepPaidNext
  <2>7. QED
    BY <1>0, <2>1, <2>4, <2>5, <2>6 DEF Expire, Wait, EnsureAttempt
<1>6. CASE Charge(t)
  <2>1. PICK i, n : i = sweep[t].id /\ n = sweep[t].attempt
    OBVIOUS
  <2>2. i \in Ids /\ n \in 1 .. rows[i].attempts
    BY <1>0, <1>6, <2>1 DEF Charge, SweepFits, SweepPaid, Ids
  <2>3. /\ sweep'[t].id = i /\ sweep'[t].attempt = n /\ sweep'[t].due = sweep[t].due
        /\ sweep'[t].pc = "renew" => RenewalKey(i, n) \in book'
    BY <1>0, <1>6, <2>1 DEF Charge, Sweep
  <2>4. sweep'[t].pc = "renew" => Covered(i, n)'
    BY <2>3 DEF Covered, RenewalKey
  <2>5. n \in 1 .. rows'[i].attempts
    BY <2>2, PaidStays DEF PInv
  <2>6. \A c \in sweep[t].due : c[2].plan = rows'[c[1]].plan /\ PaidFor(c[1])'
    BY <1>1
  <2>7. QED
    BY <2>3, <2>4, <2>5, <2>6, SweepPaidNext
<1>7. CASE Renew(t) \/ RenewalFailed(t)
  <2>1. sweep'[t] = NextOf(sweep[t].due)
    BY <1>0, <1>7 DEF Renew, RenewalFailed, Proceed
  <2>2. QED
    BY <1>2, <2>1
<1>8. CASE Crash
  <2>1. sweep'[t] = NextOf({})
    BY <1>8 DEF Crash, NextOf
  <2>2. QED
    BY <1>2, <2>1
<1>9. ASSUME NEW s \in Sweeps, s # t, BeginSweep(s) \/ SweepStep(s)
      PROVE  sweep'[t] = sweep[t]
  <2>1. \E w : sweep' = [sweep EXCEPT ![s] = w]
    <3>1. CASE ProcessCandidate(s)
      BY <3>1 DEF ProcessCandidate, Expire, Wait, Withdrawn, EnsureAttempt, InHand
    <3>2. CASE BeginSweep(s)
      BY <3>2 DEF BeginSweep
    <3>3. CASE Charge(s)
      BY <3>3 DEF Charge
    <3>4. CASE Renew(s) \/ RenewalFailed(s)
      BY <3>4 DEF Renew, RenewalFailed, Proceed
    <3>5. QED
      BY <1>9, <3>1, <3>2, <3>3, <3>4 DEF SweepStep
  <2>2. QED
    BY <1>0, <1>9, <2>1
<1>10. ASSUME NEW q \in Requests, RequestStep(q)
      PROVE  sweep' = sweep
  BY <1>10 DEF RequestStep, Subscribe, ChangePlan, BeginCheckout, FindPending, RemovePending,
     RefuseCoupon, CreatePending, Debit, Fallback, Order, Activate, ReadToCancel, Cancel,
     ReadToSwitch, SwitchAutoRenew
<1>11. ASSUME NEW i \in Ids, Pay(i) \/ VerifyPayment(i)
      PROVE  sweep' = sweep
  BY <1>11 DEF Pay, VerifyPayment
<1>12. ASSUME Tick \/ UNCHANGED vars
      PROVE  sweep' = sweep
  BY <1>12 DEF Tick, vars
<1>13. QED
  BY <1>3, <1>4, <1>5, <1>6, <1>7, <1>8, <1>9, <1>10, <1>11, <1>12 DEF Next, SweepStep

(* Every step keeps what is known of payments.                             *)
LEMMA PaidStep ==
    ASSUME TInv, PInv, RenewedOncePerCycle, [Next]_vars
    PROVE  PInv'
<1>1. Linked'
  BY RenewedStep DEF PInv
<1>2. ASSUME NEW i \in 1 .. Len(rows'), rows'[i].status \in Begun
      PROVE  PaidFor(i)'
  <2>1. CASE i \in Ids
    BY <1>2, <2>1, BeginningsArePaid, PaidStays DEF PInv
  <2>2. CASE i \notin Ids
    BY <1>2, <2>2, AdditionsArePaid
  <2>3. QED
    BY <2>1, <2>2
<1>3. ActiveIsPaid'
  BY <1>2 DEF ActiveIsPaid, PaidFor, Ids, Begun
<1>4. QED
  BY <1>1, <1>3, RequestPaidStep, SweepPaidStep DEF PInv

(* A row that was ever active is free, or was debited from the wallet      *)
(* under its own keys, whatever answers are lost; or it says that Razorpay *)
(* was paid, and the user did pay some order, this one or another.         *)
THEOREM ActiveRowsArePaid == Spec => []ActiveIsPaid
<1>1. Init => PInv
  BY DEF Init, PInv, Linked, ActiveIsPaid, RequestPaid, SweepPaid, Ids, Idle, Resting
<1>2. PInv => ActiveIsPaid
  BY DEF PInv
<1>3. QED
  BY <1>1, <1>2, InitTyped, StepTyped, PaidStep, CycleRenewedOnce, PTL DEF Spec


-----------------------------------------------------------------------------
(* Charges of a renewal.                                                   *)

(* History only grows.                                                     *)
LEMMA HistoryGrows ==
    ASSUME TInv, [Next]_vars
    PROVE  /\ crowded => crowded'
           /\ overlapped => overlapped'
           /\ faults \in Nat /\ faults' \in Nat /\ faults <= faults'
<1>0. faults \in Nat /\ overlapped \in BOOLEAN /\ crowded \in BOOLEAN
  BY DEF TInv, TypeOK
<1>1. ASSUME Fault \/ faults' = faults
      PROVE  faults' \in Nat /\ faults <= faults'
  BY <1>0, <1>1 DEF Fault
<1>2. ASSUME NEW q \in Requests, RequestStep(q)
      PROVE  /\ crowded' = crowded /\ (overlapped => overlapped')
             /\ Fault \/ faults' = faults
  <2>1. CASE Subscribe(q) \/ ChangePlan(q)
    <3>1. PICK plan, coupon, i : BeginCheckout(q, plan, coupon, i)
      BY <2>1 DEF Subscribe, ChangePlan
    <3>2. crowded' = crowded /\ faults' = faults
      BY <3>1 DEF BeginCheckout
    <3>3. overlapped => overlapped'
      BY <3>1, <1>0, Zenon DEF BeginCheckout
    <3>4. QED
      BY <3>2, <3>3, Zenon
  <2>2. CASE ~ (Subscribe(q) \/ ChangePlan(q))
    <3>1. UNCHANGED <<overlapped, crowded>> /\ (Fault \/ faults' = faults)
      BY <1>2, <2>2 DEF RequestStep, FindPending, RemovePending, RefuseCoupon, CreatePending,
         Debit, Fallback, Order, Activate, ReadToCancel, Cancel, ReadToSwitch,
         SwitchAutoRenew, history, NoFault
    <3>2. QED
      BY <1>0, <3>1, Zenon
  <2>3. QED
    BY <2>1, <2>2
<1>3. ASSUME NEW s \in Sweeps, BeginSweep(s) \/ SweepStep(s)
      PROVE  /\ overlapped' = overlapped /\ (crowded => crowded')
             /\ Fault \/ faults' = faults
  <2>1. CASE BeginSweep(s)
    <3>1. overlapped' = overlapped /\ faults' = faults
      BY <2>1 DEF BeginSweep
    <3>2. crowded => crowded'
      BY <1>0, <2>1, Zenon DEF BeginSweep
    <3>3. QED
      BY <3>1, <3>2, Zenon
  <2>2. CASE SweepStep(s)
    <3>1. UNCHANGED <<overlapped, crowded>> /\ (Fault \/ faults' = faults)
      BY <2>2 DEF SweepStep, ProcessCandidate, Charge, Renew, RenewalFailed, history, NoFault
    <3>2. QED
      BY <1>0, <3>1, Zenon
  <2>3. QED
    BY <1>3, <2>1, <2>2
<1>4. ASSUME NEW i \in Ids, Pay(i) \/ VerifyPayment(i)
      PROVE  UNCHANGED <<overlapped, crowded, faults>>
  BY <1>4 DEF Pay, VerifyPayment, history
<1>5. ASSUME Tick \/ Crash \/ UNCHANGED vars
      PROVE  UNCHANGED <<overlapped, crowded>> /\ (Fault \/ faults' = faults)
  BY <1>5 DEF Tick, Crash, vars, history
<1>6. /\ crowded => crowded'
      /\ overlapped => overlapped'
      /\ Fault \/ faults' = faults
  BY <1>0, <1>2, <1>3, <1>4, <1>5, Zenon DEF Next
<1>7. QED
  BY <1>0, <1>1, <1>6, Zenon

(* A key is posted by the debit of a checkout or the charge of a renewal.  *)
LEMMA BookStep ==
    ASSUME TInv, [Next]_vars, book' # book
    PROVE  \/ \E q \in Requests :
                 Debit(q) /\ book' = book \union {CheckoutKey(request[q].id)}
           \/ \E s \in Sweeps :
                 Charge(s) /\ book' = book \union {RenewalKey(sweep[s].id, sweep[s].attempt)}
<1>1. ASSUME NEW q \in Requests, RequestStep(q), ~ Debit(q)
      PROVE  FALSE
  BY <1>1 DEF RequestStep, Subscribe, ChangePlan, BeginCheckout, FindPending,
     RemovePending, RefuseCoupon, CreatePending, Fallback, Order, Activate, ReadToCancel,
     Cancel, ReadToSwitch, SwitchAutoRenew, money
<1>2. ASSUME NEW s \in Sweeps, BeginSweep(s) \/ SweepStep(s), ~ Charge(s)
      PROVE  FALSE
  BY <1>2 DEF BeginSweep, SweepStep, ProcessCandidate, Renew, RenewalFailed, money
<1>3. ASSUME NEW i \in Ids, Pay(i) \/ VerifyPayment(i)
      PROVE  FALSE
  BY <1>3 DEF Pay, VerifyPayment, money
<1>4. ASSUME Tick \/ Crash \/ UNCHANGED vars
      PROVE  FALSE
  BY <1>4 DEF Tick, Crash, vars, money
<1>5. \A q \in Requests : Debit(q) => book' = book \union {CheckoutKey(request[q].id)}
  BY DEF Debit
<1>6. \A s \in Sweeps : Charge(s) =>
         book' = book \union {RenewalKey(sweep[s].id, sweep[s].attempt)}
  BY DEF Charge
<1>7. QED
  BY <1>1, <1>2, <1>3, <1>4, <1>5, <1>6 DEF Next

(* The attempts at renewing row i that a book holds.                       *)
ChargedIn(posted, i) == {k \in Nat \ {0} : <<i, k>> \in posted}
Spent(i) == Cardinality(ChargedIn(book, i))

(* Every attempt that was posted is one that its row counts.               *)
Numbered == \A i, k \in Nat :
               k # 0 /\ <<i, k>> \in book => i \in Ids /\ k <= rows[i].attempts

(* Finitely many attempts.                                                 *)
LEMMA ChargesCount ==
    ASSUME NEW posted, NEW i, NEW n \in Nat, ChargedIn(posted, i) \subseteq 1 .. n
    PROVE  /\ Cardinality(ChargedIn(posted, i)) \in Nat
           /\ \A k : /\ Cardinality(ChargedIn(posted \union {<<i, k>>}, i)) \in Nat
                     /\ Cardinality(ChargedIn(posted \union {<<i, k>>}, i))
                           <= Cardinality(ChargedIn(posted, i)) + 1
<1> DEFINE C == ChargedIn(posted, i)
<1>1. IsFiniteSet(C)
  BY FS_Interval, FS_Subset, 1 \in Int, n \in Int
<1>2. Cardinality(C) \in Nat
  BY <1>1, FS_CardinalityType
<1>3. ASSUME NEW k
      PROVE  ChargedIn(posted \union {<<i, k>>}, i) \in {C, C \union {k}}
  BY DEF ChargedIn
<1> HIDE DEF C
<1>4. ASSUME NEW k
      PROVE  /\ Cardinality(C \union {k}) \in Nat
             /\ Cardinality(C \union {k}) <= Cardinality(C) + 1
  <2>1. CASE k \in C
    <3>1. C \union {k} = C
      BY <2>1
    <3>2. QED
      BY <1>2, <3>1
  <2>2. CASE k \notin C
    <3>1. Cardinality(C \union {k}) = Cardinality(C) + 1
      BY <1>1, <2>2, FS_AddElement
    <3>2. QED
      BY <1>2, <3>1
  <2>3. QED
    BY <2>1, <2>2
<1>5. Cardinality(C) <= Cardinality(C) + 1
  BY <1>2
<1>6. ASSUME NEW k
      PROVE  /\ Cardinality(ChargedIn(posted \union {<<i, k>>}, i)) \in Nat
             /\ Cardinality(ChargedIn(posted \union {<<i, k>>}, i)) <= Cardinality(C) + 1
  BY <1>2, <1>3, <1>4, <1>5
<1>7. QED
  BY <1>2, <1>6 DEF C

(* A row's charges are those of its attempts.                              *)
LEMMA ChargesOfRow ==
    ASSUME TInv, Numbered, NEW i \in Ids
    PROVE  /\ ChargedIn(book, i) = RenewalCharges(i)
           /\ ChargedIn(book, i) \subseteq 1 .. rows[i].attempts
           /\ rows[i].attempts \in Nat /\ Spent(i) \in Nat
           /\ rows[i].status = "pending" => Spent(i) = 0
<1>1. rows[i].attempts \in Nat /\ i \in Nat
  <2>1. rows[i] \in Row /\ i \in Nat
    BY DEF TInv, TypeOK, Ids
  <2>2. QED
    BY <2>1 DEF Row
<1>2. ChargedIn(book, i) \subseteq 1 .. rows[i].attempts
  BY <1>1 DEF ChargedIn, Numbered
<1>3. ChargedIn(book, i) = RenewalCharges(i)
  BY <1>1, <1>2 DEF ChargedIn, RenewalCharges, RenewalKey
<1>4. Spent(i) \in Nat
  BY <1>1, <1>2, ChargesCount DEF Spent
<1>5. ASSUME rows[i].status = "pending"
      PROVE  Spent(i) = 0
  <2>1. rows[i].attempts = 0
    BY <1>5 DEF TInv, Fresh
  <2>2. ChargedIn(book, i) = {}
    BY <1>2, <2>1
  <2>3. QED
    BY <2>2, FS_EmptySet DEF Spent
<1>6. QED
  BY <1>1, <1>2, <1>3, <1>4, <1>5

(* Every step keeps attempts counted.                                      *)
LEMMA NumberedStep ==
    ASSUME TInv, PInv, Numbered, [Next]_vars
    PROVE  Numbered'
<1>1. /\ RowsKept /\ Len(rows) \in Nat /\ Len(rows) <= Len(rows') /\ Len(rows') \in Nat
      /\ Ids \subseteq 1 .. Len(rows')
      /\ \A i \in Ids : /\ rows[i].attempts \in Nat /\ rows'[i].attempts \in Nat
                        /\ rows[i].attempts <= rows'[i].attempts
  <2>1. /\ RowsKept /\ Len(rows) \in Nat /\ Len(rows) <= Len(rows') /\ Len(rows') \in Nat
        /\ Ids \subseteq 1 .. Len(rows')
        /\ \A i \in Ids : rows[i] \in Row /\ rows'[i] \in Row
    BY StepTyped DEF TInv, TypeOK, RowsKept, Ids
  <2>2. QED
    BY <2>1 DEF RowsKept, MayBecome, Row
<1>2. ASSUME NEW i \in Nat, NEW k \in Nat, k # 0, <<i, k>> \in book'
      PROVE  i \in Ids /\ k <= rows[i].attempts
  <2>1. CASE <<i, k>> \in book
    BY <1>2, <2>1 DEF Numbered
  <2>2. ASSUME NEW q \in Requests, <<i, k>> = CheckoutKey(request[q].id)
        PROVE  FALSE
    BY <1>2, <2>2 DEF CheckoutKey
  <2>3. ASSUME NEW s \in Sweeps, Charge(s), <<i, k>> = RenewalKey(sweep[s].id, sweep[s].attempt)
        PROVE  i \in Ids /\ k <= rows[i].attempts
    <3>1. /\ sweep[s].id \in Ids /\ sweep[s].attempt \in 1 .. rows[sweep[s].id].attempts
      BY <2>3 DEF Charge, TInv, SweepFits, PInv, SweepPaid, Ids
    <3>2. i = sweep[s].id /\ k = sweep[s].attempt
      BY <2>3 DEF RenewalKey
    <3>3. QED
      BY <1>1, <3>1, <3>2
  <2>4. QED
    BY <1>2, <2>1, <2>2, <2>3, BookStep
<1>3. ASSUME NEW i \in Nat, NEW k \in Nat, k # 0, <<i, k>> \in book'
      PROVE  i \in 1 .. Len(rows') /\ k <= rows'[i].attempts
  BY <1>1, <1>2, <1>3
<1>4. QED
  BY <1>3 DEF Numbered, Ids

(* What a sweep does, it does itself, unless the process dies.             *)
LEMMA SweepMoves ==
    ASSUME TInv, [Next]_vars, NEW t \in Sweeps
    PROVE  sweep'[t] = sweep[t] \/ BeginSweep(t) \/ SweepStep(t) \/ Crash
<1>0. sweep \in [Sweeps -> Sweep]
  BY DEF TInv, TypeOK
<1>1. ASSUME NEW s \in Sweeps, s # t, BeginSweep(s) \/ SweepStep(s)
      PROVE  sweep'[t] = sweep[t]
  <2>1. \E w : sweep' = [sweep EXCEPT ![s] = w]
    <3>1. CASE ProcessCandidate(s)
      BY <3>1 DEF ProcessCandidate, Expire, Wait, Withdrawn, EnsureAttempt, InHand
    <3>2. CASE BeginSweep(s)
      BY <3>2 DEF BeginSweep
    <3>3. CASE Charge(s)
      BY <3>3 DEF Charge
    <3>4. CASE Renew(s) \/ RenewalFailed(s)
      BY <3>4 DEF Renew, RenewalFailed, Proceed
    <3>5. QED
      BY <1>1, <3>1, <3>2, <3>3, <3>4 DEF SweepStep
  <2>2. QED
    BY <1>0, <1>1, <2>1
<1>2. ASSUME NEW q \in Requests, RequestStep(q)
      PROVE  sweep' = sweep
  BY <1>2 DEF RequestStep, Subscribe, ChangePlan, BeginCheckout, FindPending, RemovePending,
     RefuseCoupon, CreatePending, Debit, Fallback, Order, Activate, ReadToCancel, Cancel,
     ReadToSwitch, SwitchAutoRenew
<1>3. ASSUME NEW i \in Ids, Pay(i) \/ VerifyPayment(i)
      PROVE  sweep' = sweep
  BY <1>3 DEF Pay, VerifyPayment
<1>4. ASSUME Tick \/ UNCHANGED vars
      PROVE  sweep' = sweep
  BY <1>4 DEF Tick, vars
<1>5. QED
  BY <1>1, <1>2, <1>3, <1>4 DEF Next

Charging(s, i) == sweep[s].pc = "charge" /\ sweep[s].id = i
Renewing(s, i) == sweep[s].pc = "renew" /\ sweep[s].id = i

(* One sweep at a time: a row is charged once more than answers were lost  *)
(* and sweeps died, and the one charge more is for the renewal in hand.    *)
OnceInv ==
    ~ crowded =>
       /\ \A s, t \in Sweeps : Working(s) /\ Working(t) => s = t
       /\ \A i \in Ids : Spent(i) <= faults + 1
       /\ \A i \in Ids : rows[i].status = "active" =>
             Spent(i) <= faults \/ \E s \in Sweeps : Renewing(s, i)
       /\ \A i \in Ids, s \in Sweeps : Charging(s, i) => Spent(i) <= faults

(* Sweeps that follow one another do so still after a step.                *)
LEMMA AloneStep ==
    ASSUME TInv, [Next]_vars, ~ crowded',
           \A s, t \in Sweeps : Working(s) /\ Working(t) => s = t
    PROVE  \A s, t \in Sweeps : Working(s)' /\ Working(t)' => s = t
<1>0. sweep \in [Sweeps -> Sweep] /\ crowded \in BOOLEAN
  BY DEF TInv, TypeOK
<1>1. ASSUME NEW s \in Sweeps, Working(s)'
      PROVE  Working(s) \/ BeginSweep(s)
  <2>1. CASE sweep'[s] = sweep[s]
    BY <1>1, <2>1 DEF Working
  <2>2. CASE SweepStep(s)
    BY <2>2 DEF SweepStep, ProcessCandidate, Charge, Renew, RenewalFailed, Working
  <2>3. CASE Crash
    BY <1>1, <2>3 DEF Crash, Working, Resting
  <2>4. QED
    BY <2>1, <2>2, <2>3, SweepMoves
<1>2. ASSUME NEW s \in Sweeps, BeginSweep(s), NEW t \in Sweeps, t # s, Working(t)'
      PROVE  FALSE
  <2>1. ~ \E r \in Sweeps : Working(r)
    BY <1>0, <1>2, Zenon DEF BeginSweep
  <2>2. sweep'[t] = sweep[t]
    BY <1>0, <1>2 DEF BeginSweep
  <2>3. QED
    BY <1>2, <2>1, <2>2 DEF Working
<1>3. QED
  BY <1>1, <1>2

(* How what was spent on a row changes.                                    *)
LEMMA SpentStep ==
    ASSUME TInv, PInv, Numbered, [Next]_vars, NEW i \in Ids
    PROVE  /\ Spent(i)' \in Nat
           /\ \/ Spent(i)' = Spent(i)
              \/ \E s \in Sweeps : /\ Charge(s) /\ sweep[s].id = i
                                   /\ Spent(i)' <= Spent(i) + 1
                                   /\ book' # book
<1>1. /\ ChargedIn(book, i) \subseteq 1 .. rows[i].attempts
      /\ rows[i].attempts \in Nat /\ Spent(i) \in Nat
  BY ChargesOfRow
<1>2. CASE book' = book
  BY <1>1, <1>2 DEF Spent
<1>3. ASSUME NEW q \in Requests, book' = book \union {CheckoutKey(request[q].id)}
      PROVE  Spent(i)' = Spent(i)
  <2>1. ChargedIn(book', i) = ChargedIn(book, i)
    BY <1>3 DEF ChargedIn, CheckoutKey
  <2>2. QED
    BY <2>1 DEF Spent
<1>4. ASSUME NEW s \in Sweeps, Charge(s), book' # book,
             book' = book \union {RenewalKey(sweep[s].id, sweep[s].attempt)}
      PROVE  /\ Spent(i)' \in Nat
             /\ Spent(i)' = Spent(i) \/ (sweep[s].id = i /\ Spent(i)' <= Spent(i) + 1)
  <2>1. CASE sweep[s].id = i
    <3>1. PICK k : k = sweep[s].attempt
      OBVIOUS
    <3>2. book' = book \union {<<i, k>>}
      BY <1>4, <2>1, <3>1 DEF RenewalKey
    <3>3. /\ Cardinality(ChargedIn(book \union {<<i, k>>}, i)) \in Nat
          /\ Cardinality(ChargedIn(book \union {<<i, k>>}, i))
                <= Cardinality(ChargedIn(book, i)) + 1
      BY <1>1, ChargesCount
    <3>4. QED
      BY <2>1, <3>2, <3>3 DEF Spent
  <2>2. CASE sweep[s].id # i
    <3>1. ChargedIn(book', i) = ChargedIn(book, i)
      BY <1>4, <2>2 DEF ChargedIn, RenewalKey
    <3>2. QED
      BY <1>1, <3>1 DEF Spent
  <2>3. QED
    BY <2>1, <2>2
<1>5. QED
  BY <1>1, <1>2, <1>3, <1>4, BookStep

(* Nothing was spent on a row that is new.                                 *)
LEMMA NewRowUnspent ==
    ASSUME TInv, PInv, Numbered, [Next]_vars, NEW n \in (1 .. Len(rows')) \ Ids
    PROVE  Spent(n)' = 0
<1>1. n \in Nat /\ Len(rows) \in Nat
  BY DEF TInv, TypeOK
<1>2. ChargedIn(book, n) = {}
  BY <1>1 DEF ChargedIn, Numbered
<1>3. ASSUME NEW k \in Nat, k # 0, <<n, k>> \in book'
      PROVE  FALSE
  <2>1. <<n, k>> \notin book
    BY <1>1, <1>3 DEF Numbered
  <2>2. ASSUME NEW q \in Requests, <<n, k>> = CheckoutKey(request[q].id)
        PROVE  FALSE
    BY <1>3, <2>2 DEF CheckoutKey
  <2>3. ASSUME NEW s \in Sweeps, Charge(s), <<n, k>> = RenewalKey(sweep[s].id, sweep[s].attempt)
        PROVE  FALSE
    <3>1. sweep[s].id \in Ids
      BY <2>3 DEF Charge, TInv, SweepFits, Ids
    <3>2. QED
      BY <2>3, <3>1 DEF RenewalKey
  <2>4. QED
    BY <1>3, <2>1, <2>2, <2>3, BookStep
<1>4. ChargedIn(book', n) = {}
  BY <1>3 DEF ChargedIn
<1>5. QED
  BY <1>4, FS_EmptySet DEF Spent

(* What was spent stays within what was lost, for one row.                 *)
LEMMA OnceRowStep ==
    ASSUME TInv, PInv, Numbered, OnceInv, [Next]_vars, ~ crowded', NEW i \in Ids
    PROVE  /\ Spent(i)' <= faults' + 1
           /\ rows'[i].status = "active" =>
                 Spent(i)' <= faults' \/ \E s \in Sweeps : Renewing(s, i)'
           /\ \A s \in Sweeps : Charging(s, i)' => Spent(i)' <= faults'
<1>0. /\ ~ crowded /\ faults \in Nat /\ faults' \in Nat /\ faults <= faults'
      /\ Spent(i) \in Nat /\ Spent(i)' \in Nat
      /\ sweep \in [Sweeps -> Sweep]
  BY HistoryGrows, ChargesOfRow, SpentStep DEF TInv, TypeOK
<1>1. /\ \A s, t \in Sweeps : Working(s) /\ Working(t) => s = t
      /\ Spent(i) <= faults + 1
      /\ rows[i].status = "active" => Spent(i) <= faults \/ \E s \in Sweeps : Renewing(s, i)
      /\ \A s \in Sweeps : Charging(s, i) => Spent(i) <= faults
  BY <1>0 DEF OnceInv
<1>2. \/ Spent(i)' = Spent(i)
      \/ \E s \in Sweeps : /\ Charge(s) /\ Charging(s, i) /\ book' # book
                           /\ Spent(i)' <= Spent(i) + 1
  BY SpentStep DEF Charge, Charging
<1>3. Spent(i)' <= faults' + 1
  BY <1>0, <1>1, <1>2
<1>4. ASSUME Crash \/ \E s \in Sweeps : Charge(s) /\ faults' # faults
      PROVE  faults' = faults + 1
  BY <1>4 DEF Crash, Charge, Fault, NoFault
<1>5. ASSUME rows'[i].status = "active"
      PROVE  Spent(i)' <= faults' \/ \E s \in Sweeps : Renewing(s, i)'
  <2>1. ASSUME NEW s \in Sweeps, Charge(s), Charging(s, i), book' # book,
               Spent(i)' <= Spent(i) + 1
        PROVE  Spent(i)' <= faults' \/ Renewing(s, i)'
    <3>1. Spent(i) <= faults
      BY <1>1, <2>1
    <3>2. CASE faults' = faults
      <4>1. sweep' = [sweep EXCEPT ![s].pc = "renew"]
        BY <1>0, <2>1, <3>2 DEF Charge, Fault
      <4>2. Renewing(s, i)'
        BY <1>0, <2>1, <4>1 DEF Renewing, Charging, Sweep
      <4>3. QED
        BY <4>2
    <3>3. CASE faults' # faults
      BY <1>0, <1>4, <2>1, <3>1, <3>3
    <3>4. QED
      BY <3>2, <3>3
  <2>2. ASSUME Spent(i)' = Spent(i), NEW s \in Sweeps, Renewing(s, i)
        PROVE  Spent(i)' <= faults' \/ Renewing(s, i)'
    <3>1. CASE sweep'[s] = sweep[s]
      BY <2>2, <3>1 DEF Renewing
    <3>2. CASE BeginSweep(s)
      BY <2>2, <3>2 DEF BeginSweep, Working, Renewing
    <3>3. CASE SweepStep(s)
      <4>1. Renew(s)
        BY <2>2, <3>3 DEF SweepStep, Renewing, ProcessCandidate, Charge, RenewalFailed
      <4>2. CASE rows[i].status = "active"
        <5>1. rows'[i].status = "expired"
          BY <2>2, <4>1, <4>2, RenewWrites DEF Renewing
        <5>2. QED
          BY <1>5, <5>1
      <4>3. CASE rows[i].status # "active"
        <5>1. rows' = rows
          BY <2>2, <4>1, <4>3 DEF Renew, Renewing
        <5>2. QED
          BY <1>5, <4>3, <5>1
      <4>4. QED
        BY <4>2, <4>3
    <3>4. CASE Crash
      BY <1>0, <1>1, <1>4, <2>2, <3>4
    <3>5. QED
      BY <3>1, <3>2, <3>3, <3>4, SweepMoves
  <2>3. rows[i].status \in {"pending", "active"}
    BY <1>5, StepTyped DEF RowsKept, MayBecome, Open
  <2>4. rows[i].status = "pending" => Spent(i) <= faults
    BY <1>0, ChargesOfRow
  <2>5. CASE Spent(i)' = Spent(i) /\ Spent(i) <= faults
    BY <1>0, <2>5
  <2>6. QED
    BY <1>1, <1>2, <2>1, <2>2, <2>3, <2>4, <2>5
<1>6. ASSUME NEW s \in Sweeps, Charging(s, i)'
      PROVE  Spent(i)' <= faults'
  <2>1. CASE sweep'[s] = sweep[s]
    <3>1. Charging(s, i)
      BY <1>6, <2>1 DEF Charging
    <3>2. ASSUME NEW t \in Sweeps, Charge(t)
          PROVE  FALSE
      <4>1. t = s
        BY <1>1, <3>1, <3>2 DEF Charging, Charge, Working
      <4>2. sweep'[s].pc \in {"renew", "failed"}
        BY <1>0, <3>2, <4>1 DEF Charge, Sweep
      <4>3. QED
        BY <1>6, <4>2 DEF Charging
    <3>3. QED
      BY <1>0, <1>1, <1>2, <3>1, <3>2
  <2>2. CASE BeginSweep(s) \/ Crash
    <3>1. CASE BeginSweep(s)
      <4>1. sweep'[s].pc = [Resting EXCEPT !.pc = "next",
                               !.due = {<<k, rows[k]>> : k \in {j \in Ids : Due(j)}}].pc
        BY <1>0, <3>1 DEF BeginSweep
      <4>2. \A due : [Resting EXCEPT !.pc = "next", !.due = due].pc = "next"
        BY DEF Resting
      <4>3. QED
        BY <1>6, <4>1, <4>2 DEF Charging
    <3>2. CASE Crash
      BY <1>6, <3>2 DEF Crash, Resting, Charging
    <3>3. QED
      BY <2>2, <3>1, <3>2
  <2>3. CASE SweepStep(s)
    <3>1. ASSUME NEW due, sweep'[s] = NextOf(due)
          PROVE  FALSE
      BY <1>6, <3>1 DEF NextOf, Resting, Charging
    <3>2. CASE Charge(s)
      BY <1>0, <1>6, <3>2 DEF Charge, Sweep, Charging
    <3>3. CASE Renew(s) \/ RenewalFailed(s)
      BY <1>0, <3>1, <3>3 DEF Renew, RenewalFailed, Proceed
    <3>4. CASE ProcessCandidate(s)
      <4>1. PICK c \in sweep[s].due : \/ Expire(s, c[1], c[2])
                                      \/ Wait(s, c[1], c[2])
                                      \/ Withdrawn(s, c[1], c[2])
                                      \/ EnsureAttempt(s, c[1], c[2])
        BY <3>4 DEF ProcessCandidate
      <4>2. ~ Expire(s, c[1], c[2]) /\ ~ Wait(s, c[1], c[2])
        BY <1>0, <3>1 DEF Expire, Wait
      <4>3. ~ Withdrawn(s, c[1], c[2])
        BY <1>0, <1>6 DEF Withdrawn, InHand, Charging
      <4>4. c[1] = i /\ rows[i].status = "active"
        BY <1>0, <1>6, <3>1, <4>1, <4>2, <4>3 DEF EnsureAttempt, InHand, Charging
      <4>5. ASSUME NEW t \in Sweeps, Renewing(t, i)
            PROVE  FALSE
        BY <1>1, <3>4, <4>5 DEF Renewing, ProcessCandidate, Working
      <4>6. Spent(i)' = Spent(i)
        BY <3>4 DEF ProcessCandidate, money, Spent
      <4>7. QED
        BY <1>0, <1>1, <4>4, <4>5, <4>6
    <3>5. QED
      BY <2>3, <3>2, <3>3, <3>4 DEF SweepStep
  <2>4. QED
    BY <2>1, <2>2, <2>3, SweepMoves
<1>7. QED
  BY <1>3, <1>5, <1>6

(* Every step keeps what is spent within what was lost.                    *)
LEMMA OnceStep ==
    ASSUME TInv, PInv, Numbered, OnceInv, [Next]_vars
    PROVE  OnceInv'
<1> SUFFICES ASSUME ~ crowded'
             PROVE  /\ \A s, t \in Sweeps : Working(s)' /\ Working(t)' => s = t
                    /\ \A i \in 1 .. Len(rows') : Spent(i)' <= faults' + 1
                    /\ \A i \in 1 .. Len(rows') : rows'[i].status = "active" =>
                          Spent(i)' <= faults' \/ \E s \in Sweeps : Renewing(s, i)'
                    /\ \A i \in 1 .. Len(rows'), s \in Sweeps :
                          Charging(s, i)' => Spent(i)' <= faults'
  BY DEF OnceInv, Ids
<1>1. ~ crowded /\ faults' \in Nat
  BY HistoryGrows
<1>2. \A s, t \in Sweeps : Working(s)' /\ Working(t)' => s = t
  BY <1>1, AloneStep DEF OnceInv
<1>3. \A i \in (1 .. Len(rows')) \ Ids : Spent(i)' <= faults' + 1 /\ Spent(i)' <= faults'
  BY <1>1, NewRowUnspent
<1>4. QED
  BY <1>2, <1>3, OnceRowStep

(* Sweeps that do not overlap charge a cycle once, and once more for each  *)
(* answer that was lost or process that died.                              *)
THEOREM CycleChargedOnce == Spec => []RenewalChargedOnce
<1>1. Init => PInv
  BY DEF Init, PInv, Linked, ActiveIsPaid, RequestPaid, SweepPaid, Ids, Idle, Resting
<1>2. Init => Numbered /\ OnceInv
  <2>1. Init => Len(rows) = 0 /\ \A s \in Sweeps : sweep[s].pc = "idle"
    BY DEF Init, Resting
  <2>2. Init => Numbered
    BY DEF Init, Numbered
  <2>3. Init => OnceInv
    BY <2>1 DEF OnceInv, Ids, Working, Charging
  <2>4. QED
    BY <2>2, <2>3
<1>3. TInv /\ Numbered /\ OnceInv => RenewalChargedOnce
  <2>1. ASSUME TInv, Numbered, OnceInv, NEW i \in Ids, ~ crowded
        PROVE  Cardinality(RenewalCharges(i)) <= 1 + faults
    <3>1. Spent(i) <= faults + 1 /\ Spent(i) \in Nat /\ faults \in Nat
      BY <2>1, ChargesOfRow DEF OnceInv, TInv, TypeOK
    <3>2. Spent(i) = Cardinality(RenewalCharges(i))
      BY <2>1, ChargesOfRow DEF Spent
    <3>3. QED
      BY <3>1, <3>2
  <2>2. QED
    BY <2>1 DEF RenewalChargedOnce
<1>4. QED
  BY <1>1, <1>2, <1>3, InitTyped, StepTyped, PaidStep, NumberedStep, OnceStep,
     CycleRenewedOnce, PTL DEF Spec

-----------------------------------------------------------------------------
(* Checkouts that were charged.                                            *)

(* What a step makes of a row.                                             *)
LEMMA RowOutcome ==
    ASSUME TInv, [Next]_vars, NEW i \in Ids
    PROVE  \/ rows'[i].status \in Begun
           \/ rows'[i].status = rows[i].status /\ rows'[i].method = rows[i].method
           \/ \E q \in Requests :
                 /\ RemovePending(q)
                 /\ rows[i].status = "pending" /\ rows'[i].status = "removed"
           \/ \E q \in Requests :
                 Order(q) /\ request[q].id = i /\ rows'[i].status = "removed"
           \/ \E q \in Requests :
                 /\ Fallback(q) /\ request[q].id = i
                 /\ rows'[i].status = rows[i].status /\ rows'[i].method = "razorpay"
<1>0. /\ rows \in Seq(Row) /\ DOMAIN rows = Ids
      /\ \A k \in Ids : rows[k] \in Row
  BY DEF TInv, TypeOK, Ids
<1> DEFINE Kept == rows'[i].status = rows[i].status /\ rows'[i].method = rows[i].method
<1>1. ASSUME NEW k \in Ids, NEW method, ActivateCheckout(k, method)
      PROVE  rows'[i].status \in Begun \/ Kept
  <2>1. CASE rows[k].status # "pending"
    BY <1>1, <2>1 DEF ActivateCheckout
  <2>2. CASE rows[k].status = "pending"
    <3>1. /\ [rows[i] EXCEPT !.status = "active", !.method = method, !.auto = FALSE,
                             !.grace = Never, !.next = Never, !.attempts = 0].status = "active"
          /\ [rows[i] EXCEPT !.status = "cancelled", !.auto = FALSE].status = "cancelled"
      BY <1>0 DEF Row
    <3>2. CASE i = k
      BY <1>0, <1>1, <2>2, <3>1, <3>2 DEF ActivateCheckout, Begun
    <3>3. CASE i # k
      BY <1>0, <1>1, <2>2, <3>1, <3>3 DEF ActivateCheckout, Begun
    <3>4. QED
      BY <3>2, <3>3
  <2>3. QED
    BY <2>1, <2>2
<1>2. ASSUME NEW k \in Ids, NEW b, rows' = [rows EXCEPT ![k] = b],
             b.status \in Begun \/ (b.status = rows[k].status /\ b.method = rows[k].method)
      PROVE  rows'[i].status \in Begun \/ Kept
  BY <1>0, <1>2
<1>3. ASSUME NEW q \in Requests, RequestStep(q),
             ~ (RemovePending(q) \/ Order(q) \/ Fallback(q))
      PROVE  rows'[i].status \in Begun \/ Kept
  <2> DEFINE k == request[q].id
  <2>1. CASE Subscribe(q) \/ ChangePlan(q) \/ FindPending(q) \/ RefuseCoupon(q) \/ Debit(q)
             \/ ReadToCancel(q) \/ ReadToSwitch(q)
    BY <2>1 DEF Subscribe, ChangePlan, BeginCheckout, FindPending, RefuseCoupon, Debit,
       ReadToCancel, ReadToSwitch
  <2>2. CASE CreatePending(q)
    BY <1>0, <2>2 DEF CreatePending, Ids
  <2>3. CASE Activate(q)
    <3>1. k \in Ids
      BY <2>3 DEF Activate, TInv, RequestFits, Ids
    <3>2. QED
      BY <1>1, <2>3, <3>1 DEF Activate
  <2>4. CASE Cancel(q)
    <3>1. k \in Ids
      BY <2>4 DEF Cancel, TInv, RequestFits, Ids
    <3>2. \A x, y : [rows[k] EXCEPT !.status = "cancelled", !.auto = x, !.next = y].status
                       = "cancelled"
      BY <1>0, <3>1 DEF Row
    <3>3. \/ rows' = rows
          \/ \E x, y : rows' = [rows EXCEPT ![k] = [rows[k] EXCEPT !.status = "cancelled",
                                                                  !.auto = x, !.next = y]]
      BY <2>4 DEF Cancel
    <3>4. CASE rows' = rows
      BY <3>4
    <3>5. ASSUME NEW x, NEW y,
                 rows' = [rows EXCEPT ![k] = [rows[k] EXCEPT !.status = "cancelled",
                                                             !.auto = x, !.next = y]]
          PROVE  rows'[i].status \in Begun \/ Kept
      <4>1. PICK b : b = [rows[k] EXCEPT !.status = "cancelled", !.auto = x, !.next = y]
        OBVIOUS
      <4>2. b.status \in Begun /\ rows' = [rows EXCEPT ![k] = b]
        BY <3>2, <3>5, <4>1 DEF Begun
      <4>3. QED
        BY <1>2, <3>1, <4>2
    <3>6. QED
      BY <3>3, <3>4, <3>5
  <2>5. CASE SwitchAutoRenew(q)
    <3>1. k \in Ids
      BY <2>5 DEF SwitchAutoRenew, TInv, RequestFits, Ids
    <3>2. \A x, y : /\ [rows[k] EXCEPT !.auto = x, !.next = y].status = rows[k].status
                    /\ [rows[k] EXCEPT !.auto = x, !.next = y].method = rows[k].method
      BY <1>0, <3>1 DEF Row
    <3>3. \E x, y : rows' = [rows EXCEPT ![k] = [rows[k] EXCEPT !.auto = x, !.next = y]]
      BY <2>5 DEF SwitchAutoRenew
    <3>4. QED
      BY <1>2, <3>1, <3>2, <3>3
  <2>6. QED
    BY <1>3, <2>1, <2>2, <2>3, <2>4, <2>5 DEF RequestStep
<1>4. ASSUME NEW q \in Requests, RemovePending(q)
      PROVE  Kept \/ (rows[i].status = "pending" /\ rows'[i].status = "removed")
  BY <1>0, <1>4 DEF RemovePending, Removed, With, Row
<1>5. ASSUME NEW q \in Requests, Order(q)
      PROVE  Kept \/ (request[q].id = i /\ rows'[i].status = "removed")
  <2>1. CASE rows' = rows
    BY <2>1
  <2>2. CASE rows' = Removed(rows, {request[q].id})
    BY <1>0, <2>2 DEF Removed, Row
  <2>3. QED
    BY <1>5, <2>1, <2>2 DEF Order
<1>6. ASSUME NEW q \in Requests, Fallback(q)
      PROVE  \/ Kept
             \/ /\ request[q].id = i
                /\ rows'[i].status = rows[i].status /\ rows'[i].method = "razorpay"
  BY <1>0, <1>6 DEF Fallback, Row
<1>7. ASSUME NEW k \in Ids, VerifyPayment(k)
      PROVE  rows'[i].status \in Begun \/ Kept
  BY <1>1, <1>7 DEF VerifyPayment
<1>8. ASSUME NEW s \in Sweeps, BeginSweep(s) \/ SweepStep(s)
      PROVE  rows'[i].status \in Begun \/ Kept
  <2>1. CASE BeginSweep(s) \/ Charge(s)
    BY <2>1 DEF BeginSweep, Charge
  <2>2. ASSUME NEW k \in Ids,
               rows' = [rows EXCEPT ![k] = [rows[k] EXCEPT !.status = "expired",
                           !.auto = FALSE, !.next = Never, !.grace = Never]]
        PROVE  rows'[i].status \in Begun \/ Kept
    <3>1. PICK b : b = [rows[k] EXCEPT !.status = "expired", !.auto = FALSE, !.next = Never,
                                       !.grace = Never]
      OBVIOUS
    <3>2. b.status \in Begun
      BY <1>0, <3>1 DEF Row, Begun
    <3>3. QED
      BY <1>2, <2>2, <3>1, <3>2
  <2>3. CASE ProcessCandidate(s)
    <3>1. PICK c \in sweep[s].due : \/ Expire(s, c[1], c[2])
                                    \/ Wait(s, c[1], c[2])
                                    \/ Withdrawn(s, c[1], c[2])
                                    \/ EnsureAttempt(s, c[1], c[2])
      BY <2>3 DEF ProcessCandidate
    <3>2. PICK k \in Ids : k = c[1]
      BY DEF TInv, SweepFits, Ids
    <3>3. CASE EnsureAttempt(s, k, c[2]) /\ rows' # rows
      <4>1. PICK b : b = [rows[k] EXCEPT !.attempts = rows[k].attempts + 1]
        OBVIOUS
      <4>2. b.status = rows[k].status /\ b.method = rows[k].method
        BY <1>0, <4>1 DEF Row
      <4>3. rows' = [rows EXCEPT ![k] = b]
        BY <1>0, <3>3, <4>1 DEF EnsureAttempt
      <4>4. QED
        BY <1>2, <4>2, <4>3
    <3>4. QED
      BY <2>2, <3>1, <3>2, <3>3 DEF Expire, Wait, Withdrawn
  <2>4. CASE Renew(s) \/ RenewalFailed(s)
    <3>1. PICK k \in Ids : k = sweep[s].id
      BY <2>4 DEF Renew, RenewalFailed, TInv, SweepFits, Ids
    <3> DEFINE over == [rows[k] EXCEPT !.status = "expired", !.auto = FALSE, !.next = Never,
                                       !.grace = Never]
               again == [rows[k] EXCEPT !.grace = sweep[s].grace, !.next = now + Retry]
    <3>2. over = [rows[k] EXCEPT !.status = "expired", !.auto = FALSE, !.grace = Never,
                                 !.next = Never]
      BY <1>0 DEF Row
    <3>3. \/ rows' = rows
          \/ rows' = [rows EXCEPT ![k] = over]
          \/ rows' = [rows EXCEPT ![k] = again]
          \/ rows' = Append([rows EXCEPT ![k] = over], RenewedRow(k))
      BY <1>0, <2>4, <3>1, <3>2 DEF Renew, RenewalFailed
    <3>4. CASE rows' = [rows EXCEPT ![k] = again]
      <4>1. again.status = rows[k].status /\ again.method = rows[k].method
        BY <1>0 DEF Row
      <4> HIDE DEF again
      <4>2. QED
        BY <1>2, <3>4, <4>1
    <3>5. CASE rows' = Append([rows EXCEPT ![k] = over], RenewedRow(k))
      <4>1. over.status \in Begun /\ i \in 1 .. Len(rows)
        BY <1>0 DEF Row, Begun, Ids
      <4>2. PICK r : r = [rows EXCEPT ![k] = over]
        OBVIOUS
      <4> HIDE DEF over
      <4>3. Len(r) = Len(rows) /\ \E S : r \in Seq(S)
        <5>1. r \in Seq(Row \union {over}) /\ Len(r) = Len(rows)
          BY <1>0, <4>2
        <5>2. QED
          BY <5>1
      <4>4. rows'[i] = r[i]
        BY <3>5, <4>1, <4>2, <4>3
      <4>5. r[i] = IF i = k THEN over ELSE rows[i]
        BY <1>0, <4>2
      <4>6. QED
        BY <4>1, <4>4, <4>5
    <3>6. QED
      BY <2>2, <3>3, <3>4, <3>5
  <2>5. QED
    BY <1>8, <2>1, <2>3, <2>4 DEF SweepStep
<1>9. QED
  BY <1>3, <1>4, <1>5, <1>6, <1>7, <1>8, OutsideTyped DEF Next

(* What a request does, it does itself, unless the process dies.           *)
LEMMA RequestMoves ==
    ASSUME TInv, [Next]_vars, NEW p \in Requests
    PROVE  request'[p] = request[p] \/ RequestStep(p) \/ Crash
<1>0. request \in [Requests -> Request]
  BY DEF TInv, TypeOK
<1>1. ASSUME NEW q \in Requests, q # p, RequestStep(q)
      PROVE  request'[p] = request[p]
  <2>1. \E r : request' = [request EXCEPT ![q] = r]
    <3>1. CASE Subscribe(q) \/ ChangePlan(q) \/ ReadToCancel(q) \/ ReadToSwitch(q)
      BY <3>1 DEF Subscribe, ChangePlan, BeginCheckout, ReadToCancel, ReadToSwitch
    <3>2. CASE FindPending(q) \/ RemovePending(q) \/ RefuseCoupon(q) \/ CreatePending(q)
      BY <3>2 DEF FindPending, RemovePending, RefuseCoupon, CreatePending, Goto, Leave
    <3>3. CASE Debit(q) \/ Fallback(q) \/ Order(q) \/ Activate(q) \/ Cancel(q)
               \/ SwitchAutoRenew(q)
      BY <3>3 DEF Debit, Fallback, Order, Activate, Cancel, SwitchAutoRenew, Goto, Leave
    <3>4. QED
      BY <1>1, <3>1, <3>2, <3>3 DEF RequestStep
  <2>2. QED
    BY <1>0, <1>1, <2>1
<1>2. ASSUME NEW s \in Sweeps, BeginSweep(s) \/ SweepStep(s)
      PROVE  request' = request
  BY <1>2 DEF BeginSweep, SweepStep, ProcessCandidate, Charge, Renew, RenewalFailed
<1>3. ASSUME NEW i \in Ids, Pay(i) \/ VerifyPayment(i)
      PROVE  request' = request
  BY <1>3 DEF Pay, VerifyPayment
<1>4. ASSUME Tick \/ UNCHANGED vars
      PROVE  request' = request
  BY <1>4 DEF Tick, vars
<1>5. QED
  BY <1>1, <1>2, <1>3, <1>4 DEF Next

(* Row i was sold, or is a wallet checkout that the next one finds again.  *)
Held(i) == \/ rows[i].status \in Begun
           \/ rows[i].status = "pending" /\ rows[i].method = "wallet"

(* What a checkout knows at each of its steps.                             *)
CheckoutSafe(q) ==
    /\ request[q].pc = "remove" => PendingOfWallet = {}
    /\ request[q].pc = "create" => With("pending") = {}
    /\ request[q].pc = "debit" => Held(request[q].id)
    /\ request[q].pc = "debit" /\ request[q].on => CheckoutKey(request[q].id) \notin book
    /\ request[q].pc \in {"fallback", "order"} => CheckoutKey(request[q].id) \notin book

(* Checkouts that follow one another leave one pending row, and a row that *)
(* was charged is not removed and does not turn to Razorpay.               *)
SurvivalInv ==
    ~ overlapped =>
       /\ \A p, q \in Requests : InCheckout(p) /\ InCheckout(q) => p = q
       /\ \A i, k \in Ids :
             rows[i].status = "pending" /\ rows[k].status = "pending" => i = k
       /\ \A q \in Requests : CheckoutSafe(q)
       /\ \A i \in Nat : CheckoutKey(i) \in book => i \in Ids /\ Held(i)

(* Checkouts that follow one another do so still after a step.             *)
LEMMA OneCheckoutStep ==
    ASSUME TInv, [Next]_vars, ~ overlapped',
           \A p, q \in Requests : InCheckout(p) /\ InCheckout(q) => p = q
    PROVE  \A p, q \in Requests : InCheckout(p)' /\ InCheckout(q)' => p = q
<1>0. request \in [Requests -> Request] /\ overlapped \in BOOLEAN /\ Idle.pc = "idle"
  BY DEF TInv, TypeOK, Idle
<1>1. ASSUME NEW p \in Requests, InCheckout(p)'
      PROVE  InCheckout(p) \/ Subscribe(p) \/ ChangePlan(p)
  <2>1. CASE request'[p] = request[p]
    BY <1>1, <2>1 DEF InCheckout
  <2>2. CASE Crash
    BY <1>0, <1>1, <2>2 DEF Crash, InCheckout
  <2>3. CASE RequestStep(p)
    <3>1. CASE ReadToCancel(p)
      <4>1. \A i, c : [Idle EXCEPT !.pc = "cancel", !.id = i, !.copy = c].pc = "cancel"
        BY DEF Idle
      <4>2. request'[p].pc = "cancel"
        BY <1>0, <3>1, <4>1 DEF ReadToCancel
      <4>3. QED
        BY <1>1, <4>2 DEF InCheckout
    <3>2. CASE ReadToSwitch(p)
      <4>1. \A i, on, c :
               [Idle EXCEPT !.pc = "switch", !.id = i, !.on = on, !.copy = c].pc = "switch"
        BY DEF Idle
      <4>2. request'[p].pc = "switch"
        BY <1>0, <3>2, <4>1 DEF ReadToSwitch
      <4>3. QED
        BY <1>1, <4>2 DEF InCheckout
    <3>3. CASE Cancel(p) \/ SwitchAutoRenew(p)
      BY <1>0, <1>1, <3>3 DEF Cancel, SwitchAutoRenew, Leave, InCheckout
    <3>4. QED
      BY <2>3, <3>1, <3>2, <3>3 DEF RequestStep, FindPending, RemovePending, RefuseCoupon,
         CreatePending, Debit, Fallback, Order, Activate, InCheckout
  <2>4. QED
    BY <2>1, <2>2, <2>3, RequestMoves
<1>2. ASSUME NEW p \in Requests, Subscribe(p) \/ ChangePlan(p),
             NEW q \in Requests, q # p, InCheckout(q)'
      PROVE  FALSE
  <2>1. PICK plan, coupon, i : BeginCheckout(p, plan, coupon, i)
    BY <1>2 DEF Subscribe, ChangePlan
  <2>2. ~ \E r \in Requests : InCheckout(r)
    BY <1>0, <2>1, Zenon DEF BeginCheckout
  <2>3. request'[q] = request[q]
    BY <1>0, <1>2, <2>1 DEF BeginCheckout
  <2>4. QED
    BY <1>2, <2>2, <2>3 DEF InCheckout
<1>3. QED
  BY <1>1, <1>2

(* The key of a checkout is posted by its debit only.                      *)
LEMMA CheckoutKeyPosted ==
    ASSUME TInv, PInv, [Next]_vars, NEW i, CheckoutKey(i) \in book'
    PROVE  CheckoutKey(i) \in book \/ \E q \in Requests : Debit(q) /\ request[q].id = i
<1>1. ASSUME NEW s \in Sweeps, Charge(s),
             CheckoutKey(i) = RenewalKey(sweep[s].id, sweep[s].attempt)
      PROVE  FALSE
  <2>1. sweep[s].id \in Ids /\ sweep[s].attempt \in 1 .. rows[sweep[s].id].attempts
    BY <1>1 DEF Charge, TInv, SweepFits, PInv, SweepPaid, Ids
  <2>2. sweep[s].attempt = 0
    BY <1>1 DEF CheckoutKey, RenewalKey
  <2>3. QED
    BY <2>1, <2>2
<1>2. ASSUME NEW q \in Requests, CheckoutKey(i) = CheckoutKey(request[q].id)
      PROVE  request[q].id = i
  BY <1>2 DEF CheckoutKey
<1>3. QED
  BY <1>1, <1>2, BookStep

(* What is charged stays held.                                             *)
LEMMA ChargedStep ==
    ASSUME TInv, PInv, SurvivalInv, ~ overlapped, [Next]_vars,
           NEW i \in Nat, CheckoutKey(i) \in book'
    PROVE  i \in Ids /\ Held(i)'
<1>1. CheckoutKey(i) \in book \/ \E q \in Requests : Debit(q) /\ request[q].id = i
  BY CheckoutKeyPosted
<1>2. CASE CheckoutKey(i) \in book
  <2>1. i \in Ids /\ Held(i)
    BY <1>2 DEF SurvivalInv
  <2>2. ASSUME NEW q \in Requests, Order(q) \/ Fallback(q)
        PROVE  request[q].id # i
    BY <1>2, <2>2 DEF SurvivalInv, CheckoutSafe, Order, Fallback
  <2>3. ASSUME NEW q \in Requests, RemovePending(q), rows[i].status = "pending"
        PROVE  FALSE
    <3>1. i \in PendingOfWallet
      BY <2>1, <2>3 DEF Held, PendingOfWallet, With, Begun
    <3>2. QED
      BY <2>3, <3>1 DEF SurvivalInv, CheckoutSafe, RemovePending
  <2>4. QED
    BY <2>1, <2>2, <2>3, RowOutcome DEF Held
<1>3. ASSUME NEW q \in Requests, Debit(q), request[q].id = i
      PROVE  i \in Ids /\ Held(i)'
  <2>1. Held(i) /\ rows' = rows
    BY <1>3 DEF SurvivalInv, CheckoutSafe, Debit
  <2>2. i \in Ids
    BY <1>3 DEF Debit, TInv, RequestFits, Ids
  <2>3. QED
    BY <2>1, <2>2 DEF Held
<1>4. QED
  BY <1>1, <1>2, <1>3

(* A row is pending because it was, or because a checkout made it.         *)
LEMMA PendingStep ==
    ASSUME TInv, [Next]_vars, NEW i \in 1 .. Len(rows'), rows'[i].status = "pending"
    PROVE  \/ i \in Ids /\ rows[i].status = "pending"
           \/ i = Len(rows) + 1 /\ \E q \in Requests : CreatePending(q)
<1>0. RowsKept /\ Len(rows) \in Nat
  BY StepTyped DEF TInv, TypeOK
<1>1. CASE i \in Ids
  BY <1>0, <1>1 DEF RowsKept, MayBecome
<1>2. CASE i \notin Ids
  <2>1. Len(rows') # Len(rows)
    BY <1>2 DEF Ids
  <2>2. ASSUME NEW s \in Sweeps, Renew(s), rows[sweep[s].id].status = "active"
        PROVE  FALSE
    <3>1. /\ sweep[s].id \in Ids /\ Len(rows') = Len(rows) + 1
          /\ rows'[Len(rows) + 1] = RenewedRow(sweep[s].id)
      BY <2>2, RenewWrites
    <3>2. RenewedRow(sweep[s].id).status = "active"
      BY <3>1, RenewedIsRow
    <3>3. i = Len(rows) + 1
      BY <1>0, <1>2, <3>1 DEF Ids
    <3>4. QED
      BY <3>1, <3>2, <3>3
  <2>3. ASSUME NEW q \in Requests, CreatePending(q)
        PROVE  i = Len(rows) + 1
    <3>1. Len(rows') = Len(rows) + 1
      BY <2>3, CreateWrites
    <3>2. QED
      BY <1>0, <1>2, <3>1 DEF Ids
  <2>4. QED
    BY <2>1, <2>2, <2>3, StepAdds
<1>3. QED
  BY <1>1, <1>2

(* The next step of a checkout knows what it needs to.                     *)
LEMMA CheckoutMoves ==
    ASSUME TInv, PInv, SurvivalInv, ~ overlapped, [Next]_vars,
           NEW p \in Requests, RequestStep(p)
    PROVE  CheckoutSafe(p)'
<1>0. /\ request \in [Requests -> Request] /\ Idle.pc = "idle" /\ CheckoutSafe(p)
      /\ Len(rows) \in Nat /\ rows \in Seq(Row)
  BY DEF TInv, TypeOK, SurvivalInv, Idle
<1>1. CASE request'[p].pc \notin {"remove", "create", "debit", "fallback", "order"}
  BY <1>1 DEF CheckoutSafe
<1>2. CASE Subscribe(p) \/ ChangePlan(p)
  <2>1. PICK plan, coupon, i : BeginCheckout(p, plan, coupon, i)
    BY <1>2 DEF Subscribe, ChangePlan
  <2>2. [Idle EXCEPT !.pc = "find", !.plan = plan, !.coupon = coupon, !.replaces = i].pc
           = "find"
    BY DEF Idle
  <2>3. QED
    BY <1>0, <1>1, <2>1, <2>2 DEF BeginCheckout
<1>3. CASE FindPending(p)
  <2>1. CASE PendingOfWallet = {} /\ Goto(p, "remove")
    <3>1. request'[p].pc = "remove" /\ rows' = rows
      BY <1>0, <1>3, <2>1 DEF FindPending, Goto, Request
    <3>2. PendingOfWallet' = {}
      BY <2>1, <3>1 DEF PendingOfWallet, With, Ids
    <3>3. QED
      BY <3>1, <3>2 DEF CheckoutSafe
  <2>2. ASSUME NEW i \in PendingOfWallet,
               request' = [request EXCEPT ![p] = [Idle EXCEPT !.pc = "debit", !.id = i]]
        PROVE  CheckoutSafe(p)'
    <3>1. request'[p] = [Idle EXCEPT !.pc = "debit", !.id = i]
      BY <1>0, <2>2
    <3>2. request'[p].pc = "debit" /\ request'[p].id = i /\ ~ request'[p].on
      BY <3>1 DEF Idle
    <3>3. rows' = rows
      BY <1>3 DEF FindPending
    <3>4. Held(i)
      BY DEF Held, PendingOfWallet, With
    <3>5. Held(request[p].id)'
      BY <3>2, <3>3, <3>4 DEF Held
    <3>6. QED
      BY <3>2, <3>5 DEF CheckoutSafe
  <2>3. QED
    BY <1>3, <2>1, <2>2 DEF FindPending
<1>4. CASE RemovePending(p)
  <2>1. request'[p].pc = "create"
    BY <1>0, <1>4 DEF RemovePending, Goto, Request
  <2>2. ASSUME NEW i \in 1 .. Len(rows'), rows'[i].status = "pending"
        PROVE  FALSE
    <3>1. DOMAIN rows' = DOMAIN rows /\ DOMAIN rows = Ids /\ \A k \in Ids : rows[k] \in Row
      BY <1>0, <1>4 DEF RemovePending, Removed, Ids
    <3>2. i \in Ids
      <4>1. RowsKept
        BY StepTyped
      <4>2. QED
        BY <3>1, <4>1 DEF RowsKept
    <3>3. rows'[i] = IF i \in With("pending") THEN [rows[i] EXCEPT !.status = "removed"]
                     ELSE rows[i]
      BY <1>4, <3>1, <3>2 DEF RemovePending, Removed
    <3>4. QED
      BY <2>2, <3>1, <3>2, <3>3 DEF With, Row
  <2>3. With("pending")' = {}
    BY <2>2 DEF With, Ids
  <2>4. QED
    BY <2>1, <2>3 DEF CheckoutSafe
<1>5. CASE CreatePending(p)
  <2> DEFINE n == Len(rows) + 1
  <2>1. PICK method \in {"free", "wallet", "razorpay"} :
           /\ rows' = Append(rows, NewRow(request[p].plan, method, request[p].coupon,
                                          request[p].replaces))
           /\ request' = [request EXCEPT ![p] =
                 [Idle EXCEPT !.id = Len(rows) + 1, !.on = method = "wallet",
                              !.pc = CASE method = "free" -> "activate"
                                       [] method = "wallet" -> "debit"
                                       [] OTHER -> "order"]]
    BY <1>5 DEF CreatePending
  <2>2. rows'[n].status = "pending" /\ rows'[n].method = method
    BY <1>0, <2>1 DEF NewRow
  <2>3. CheckoutKey(n) \notin book'
    <3>1. n \in Nat /\ n \notin Ids /\ book' = book
      BY <1>0, <1>5 DEF Ids, CreatePending, money
    <3>2. QED
      BY <3>1 DEF SurvivalInv
  <2>4. /\ request'[p].id = n
        /\ request'[p].pc = CASE method = "free" -> "activate"
                              [] method = "wallet" -> "debit"
                              [] OTHER -> "order"
    BY <1>0, <2>1 DEF Idle
  <2>5. request'[p].pc = "debit" => Held(request[p].id)'
    BY <2>2, <2>4 DEF Held
  <2>6. request'[p].pc \in {"debit", "order", "activate"}
    BY <2>4
  <2> HIDE DEF n
  <2>7. CheckoutKey(request'[p].id) \notin book'
    BY <2>3, <2>4 DEF CheckoutKey
  <2>8. QED
    BY <2>5, <2>6, <2>7 DEF CheckoutSafe, CheckoutKey
<1>6. CASE Debit(p)
  <2>1. CASE request'[p].pc = "fallback"
    <3>1. /\ request[p].on /\ book' = book /\ request'[p].id = request[p].id
          /\ request[p].pc = "debit"
      BY <1>0, <1>6, <2>1 DEF Debit, Goto, Leave, Request
    <3>2. CheckoutKey(request'[p].id) \notin book'
      BY <1>0, <3>1 DEF CheckoutSafe
    <3>3. QED
      BY <2>1, <3>2 DEF CheckoutSafe, CheckoutKey
  <2>2. CASE request'[p].pc # "fallback"
    BY <1>0, <1>1, <1>6, <2>2 DEF Debit, Goto, Leave, Request
  <2>3. QED
    BY <2>1, <2>2
<1>7. CASE Fallback(p)
  <2>1. /\ request'[p].pc = "order" /\ request'[p].id = request[p].id /\ book' = book
        /\ request[p].pc = "fallback"
    BY <1>0, <1>7 DEF Fallback, Goto, Request, money
  <2>2. CheckoutKey(request'[p].id) \notin book'
    BY <1>0, <2>1 DEF CheckoutSafe
  <2>3. QED
    BY <2>1, <2>2 DEF CheckoutSafe, CheckoutKey
<1>8. CASE Order(p) \/ RefuseCoupon(p) \/ Activate(p) \/ Cancel(p) \/ SwitchAutoRenew(p)
  BY <1>0, <1>1, <1>8 DEF Order, RefuseCoupon, Activate, Cancel, SwitchAutoRenew, Leave
<1>9. CASE ReadToCancel(p)
  <2>1. \A i, c : [Idle EXCEPT !.pc = "cancel", !.id = i, !.copy = c].pc = "cancel"
    BY DEF Idle
  <2>2. request'[p].pc = "cancel"
    BY <1>0, <1>9, <2>1 DEF ReadToCancel
  <2>3. QED
    BY <1>1, <2>2
<1>10. CASE ReadToSwitch(p)
  <2>1. \A i, on, c : [Idle EXCEPT !.pc = "switch", !.id = i, !.on = on, !.copy = c].pc = "switch"
    BY DEF Idle
  <2>2. request'[p].pc = "switch"
    BY <1>0, <1>10, <2>1 DEF ReadToSwitch
  <2>3. QED
    BY <1>1, <2>2
<1>11. QED
  BY <1>2, <1>3, <1>4, <1>5, <1>6, <1>7, <1>8, <1>9, <1>10 DEF RequestStep

(* What a checkout knows stays true while others step.                     *)
LEMMA CheckoutWaits ==
    ASSUME TInv, PInv, SurvivalInv, ~ overlapped, [Next]_vars,
           NEW p \in Requests, request'[p] = request[p]
    PROVE  CheckoutSafe(p)'
<1>0. /\ request \in [Requests -> Request] /\ Idle.pc = "idle" /\ CheckoutSafe(p)
      /\ \A q, r \in Requests : InCheckout(q) /\ InCheckout(r) => q = r
  BY DEF TInv, TypeOK, SurvivalInv, Idle
<1>1. CASE ~ InCheckout(p)
  BY <1>1 DEF InCheckout, CheckoutSafe
<1>2. ASSUME InCheckout(p), NEW q \in Requests,
             RemovePending(q) \/ CreatePending(q) \/ Debit(q) \/ Fallback(q) \/ Order(q)
      PROVE  FALSE
  <2>1. q = p
    BY <1>0, <1>2 DEF InCheckout, RemovePending, CreatePending, Debit, Fallback, Order
  <2>2. request'[p].pc # request[p].pc
    <3>1. CASE CreatePending(p)
      <4>1. PICK method \in {"free", "wallet", "razorpay"} :
               request' = [request EXCEPT ![p] =
                     [Idle EXCEPT !.id = Len(rows) + 1, !.on = method = "wallet",
                                  !.pc = CASE method = "free" -> "activate"
                                           [] method = "wallet" -> "debit"
                                           [] OTHER -> "order"]]
        BY <3>1 DEF CreatePending
      <4>2. request'[p].pc = CASE method = "free" -> "activate"
                               [] method = "wallet" -> "debit"
                               [] OTHER -> "order"
        BY <1>0, <4>1 DEF Idle
      <4>3. QED
        BY <3>1, <4>2 DEF CreatePending
    <3>2. CASE RemovePending(p) \/ Debit(p) \/ Fallback(p) \/ Order(p)
      BY <1>0, <3>2 DEF RemovePending, Debit, Fallback, Order, Goto, Leave, Request
    <3>3. QED
      BY <1>2, <2>1, <3>1, <3>2
  <2>3. QED
    BY <2>2
<1>3. ASSUME InCheckout(p), NEW i \in With("pending")'
      PROVE  i \in With("pending") /\ (rows'[i].method = "wallet" => rows[i].method = "wallet")
  <2>1. i \in 1 .. Len(rows') /\ rows'[i].status = "pending"
    BY <1>3 DEF With, Ids
  <2>2. i \in Ids /\ rows[i].status = "pending"
    BY <1>2, <1>3, <2>1, PendingStep
  <2>3. rows'[i].method = "wallet" => rows[i].method = "wallet"
    BY <2>1, <2>2, RowOutcome DEF Begun
  <2>4. QED
    BY <2>2, <2>3 DEF With
<1>4. ASSUME InCheckout(p), request[p].pc = "debit"
      PROVE  Held(request[p].id)'
  <2>1. PICK i \in Ids : i = request[p].id
    BY <1>4 DEF TInv, RequestFits, Ids
  <2>2. Held(i)
    BY <1>0, <1>4, <2>1 DEF CheckoutSafe
  <2>3. Held(i)'
    BY <1>2, <1>4, <2>2, RowOutcome DEF Held
  <2>4. QED
    BY <2>1, <2>3 DEF Held
<1>5. ASSUME InCheckout(p), CheckoutKey(request[p].id) \notin book
      PROVE  CheckoutKey(request'[p].id) \notin book'
  BY <1>2, <1>5, CheckoutKeyPosted
<1>6. CASE InCheckout(p)
  <2>1. request[p].pc = "remove" => PendingOfWallet' = {}
    BY <1>0, <1>3, <1>6 DEF CheckoutSafe, PendingOfWallet
  <2>2. request[p].pc = "create" => With("pending")' = {}
    BY <1>0, <1>3, <1>6 DEF CheckoutSafe
  <2>3. QED
    BY <1>0, <1>4, <1>5, <1>6, <2>1, <2>2 DEF CheckoutSafe, CheckoutKey
<1>7. QED
  BY <1>1, <1>6

(* Every step keeps checkouts that were charged.                           *)
LEMMA SurvivalStep ==
    ASSUME TInv, PInv, SurvivalInv, [Next]_vars
    PROVE  SurvivalInv'
<1> SUFFICES ASSUME ~ overlapped'
             PROVE  /\ \A p, q \in Requests : InCheckout(p)' /\ InCheckout(q)' => p = q
                    /\ \A i, k \in 1 .. Len(rows') :
                          rows'[i].status = "pending" /\ rows'[k].status = "pending" => i = k
                    /\ \A q \in Requests : CheckoutSafe(q)'
                    /\ \A i \in Nat : CheckoutKey(i) \in book' =>
                                         i \in 1 .. Len(rows') /\ Held(i)'
  BY DEF SurvivalInv, Ids, CheckoutKey
<1>1. ~ overlapped /\ Ids \subseteq 1 .. Len(rows')
  <2>1. ~ overlapped
    BY HistoryGrows
  <2>2. RowsKept /\ Len(rows) \in Nat
    BY StepTyped DEF TInv, TypeOK
  <2>3. Len(rows') \in Nat /\ Len(rows) <= Len(rows')
    BY <2>2 DEF RowsKept
  <2>4. QED
    BY <2>1, <2>2, <2>3 DEF Ids
<1>2. \A p, q \in Requests : InCheckout(p)' /\ InCheckout(q)' => p = q
  BY <1>1, OneCheckoutStep DEF SurvivalInv
<1>3. \A i, k \in 1 .. Len(rows') :
         rows'[i].status = "pending" /\ rows'[k].status = "pending" => i = k
  <2>1. CASE \E q \in Requests : CreatePending(q)
    <3>1. With("pending") = {}
      BY <1>1, <2>1 DEF SurvivalInv, CheckoutSafe, CreatePending
    <3>2. QED
      BY <3>1, PendingStep DEF With
  <2>2. CASE ~ \E q \in Requests : CreatePending(q)
    BY <1>1, <2>2, PendingStep DEF SurvivalInv
  <2>3. QED
    BY <2>1, <2>2
<1>4. ASSUME NEW q \in Requests
      PROVE  CheckoutSafe(q)'
  <2>1. CASE Crash
    BY <2>1 DEF Crash, CheckoutSafe, Idle
  <2>2. QED
    BY <1>1, <2>1, RequestMoves, CheckoutMoves, CheckoutWaits
<1>5. \A i \in Nat : CheckoutKey(i) \in book' => i \in 1 .. Len(rows') /\ Held(i)'
  BY <1>1, ChargedStep
<1>6. QED
  BY <1>2, <1>3, <1>4, <1>5

(* A wallet checkout that was charged is sold, or pending and the one the  *)
(* next checkout finds, as long as checkouts do not overlap.               *)
THEOREM ChargedCheckoutIsKept == Spec => []ChargedCheckoutSurvives
<1>1. Init => PInv
  BY DEF Init, PInv, Linked, ActiveIsPaid, RequestPaid, SweepPaid, Ids, Idle, Resting
<1>2. Init => SurvivalInv
  <2>1. Init => Len(rows) = 0 /\ \A q \in Requests : request[q].pc = "idle"
    BY DEF Init, Idle
  <2>2. QED
    BY <2>1 DEF Init, SurvivalInv, InCheckout, CheckoutSafe, Ids
<1>3. TInv /\ SurvivalInv => ChargedCheckoutSurvives
  <2>1. ASSUME TInv, SurvivalInv, ~ overlapped, NEW i \in Ids, CheckoutKey(i) \in book
        PROVE  \/ rows[i].status \in Begun
               \/ rows[i].status = "pending" /\ Latest(i, PendingOfWallet)
    <3>1. i \in Nat /\ Held(i)
      BY <2>1 DEF SurvivalInv, Ids
    <3>2. \A k \in PendingOfWallet : rows[i].status = "pending" => k = i
      BY <2>1 DEF SurvivalInv, PendingOfWallet, With
    <3>3. QED
      BY <3>1, <3>2 DEF Held, Latest, PendingOfWallet, With
  <2>2. QED
    BY <2>1 DEF ChargedCheckoutSurvives
<1>4. QED
  BY <1>1, <1>2, <1>3, InitTyped, StepTyped, PaidStep, SurvivalStep, CycleRenewedOnce,
     PTL DEF Spec
==============================================================================
