---------------------------- MODULE CampaignProofs ----------------------------
(***************************************************************************)
(* A campaign of every number of recipients, requests, retries, sends,     *)
(* faults and repeated webhooks: what its rows, requests, consumers and    *)
(* topics are, and that no message is sent more often than it was asked;   *)
(* with requests made one at a time, that a cancelled campaign stays so;   *)
(* and while campaign-service is up, what its counters, its end and the    *)
(* statuses of its messages say.                                           *)
(***************************************************************************)
EXTENDS Campaign, FiniteSetTheorems, TLAPS

Statuses == {"draft", "scheduled", "running", "paused", "completed", "failed", "cancelled"}
Row == [status : RowStatuses \union {"absent"}, meta : MetaIds \union {None}, retries : Nat]
OpSteps == {"idle", "insert", "find", "tally", "conclude", "mark", "publish", "pause",
            "fail_rows", "cancel", "select", "reset", "rerun"}
Op == [pc : OpSteps, rows : SUBSET Msgs, number : Nat, pending : Nat]
WorkSteps == {"idle", "sending", "accepted", "recorded", "refused"}
Handler == [pc : {"idle", "write", "count", "reload", "finalise"},
            prev : RowStatuses \union {None}, fresh : BOOLEAN, failed : BOOLEAN]

(* A row that has been inserted.                                           *)
Present(m) == row[m].status # "absent"

RowsTyped == /\ status \in Statuses
             /\ counts \in [Counters -> Nat]
             /\ row \in [Msgs -> Row]
             /\ starts \in 0 .. MaxStarts

(* A request works on rows that are there.                                 *)
OpsTyped == /\ op \in [Requests -> Op]
            /\ \A r \in Requests : \A m \in op[r].rows : Present(m)

(* An event at work is one that waits to be committed.                     *)
Working(m) == worker[m] # "idle" => execute[m] > 0

(* What Meta accepted and what waits, less the event that has been acted   *)
(* on, was published or delivered again.                                   *)
Acted(m) == IF worker[m] \in {"accepted", "recorded", "refused"} THEN 1 ELSE 0
Within(m) == sends[m] + execute[m] - Acted(m) <= published[m] + redelivered[m]

WorkTyped == /\ execute \in [Msgs -> Nat] /\ published \in [Msgs -> Nat]
             /\ worker \in [Msgs -> WorkSteps]
             /\ sends \in [Msgs -> 0 .. MaxSends]
             /\ recorded \subseteq MetaIds /\ missed \in BOOLEAN
             /\ due \in [MetaIds -> SUBSET RowStatuses]
             /\ redelivered \in [Msgs -> Nat]
             /\ \A m \in Msgs : execute[m] > 0 => Present(m)
             /\ \A m \in Msgs : Working(m)
             /\ \A m \in Msgs : worker[m] \in {"accepted", "recorded"} => sends[m] > 0
             /\ \A id \in recorded : Present(id[1])

(* A status that waits is of a row that is there, and a handler has one.   *)
Heard(k) == /\ topic[k] # <<>> => Present(k[1])
            /\ handler[k].pc # "idle" => topic[k] # <<>>
            /\ handler[k].fresh => k \in MetaIds

StatusTyped == /\ topic \in [TopicKeys -> Seq(RowStatuses)]
               /\ handler \in [TopicKeys -> Handler]
               /\ \A k \in TopicKeys : Heard(k)

BoundsTyped == /\ opsBegun \in 0 .. MaxOps
               /\ faults \in 0 .. MaxFaults
               /\ duplicates \in 0 .. MaxDuplicates

TInv == RowsTyped /\ OpsTyped /\ WorkTyped /\ StatusTyped /\ BoundsTyped

-----------------------------------------------------------------------------
(* Values.                                                                 *)

(* The bounds are numbers.                                                 *)
LEMMA BoundsAre == /\ MaxRetries \in Nat /\ MaxStarts \in Nat /\ MaxOps \in Nat
                   /\ MaxSends \in Nat /\ MaxFaults \in Nat /\ MaxDuplicates \in Nat
BY BoundAssumption

(* Rows are finitely many.                                                 *)
LEMMA FinitelyMany ==
    /\ IsFiniteSet(Msgs)
    /\ \A rows \in SUBSET Msgs : Cardinality(rows) \in Nat
<1>1. IsFiniteSet(1 .. MaxStarts)
  BY BoundsAre, FS_Interval
<1>2. IsFiniteSet(Msgs)
  BY <1>1, FiniteAssumption, FS_Product DEF Msgs
<1>3. \A rows \in SUBSET Msgs : Cardinality(rows) \in Nat
  BY <1>2, FS_Subset, FS_CardinalityType
<1>4. QED
  BY <1>2, <1>3

(* A key of campaign.status is of a row; Meta's ids are keys.              *)
LEMMA Keys == /\ \A k \in TopicKeys : k[1] \in Msgs
              /\ \A k \in TopicKeys : k[2] # 0 => k \in MetaIds
              /\ \A id \in MetaIds : id \in TopicKeys /\ id[1] \in Msgs
              /\ \A m \in Msgs : <<m, 0>> \in TopicKeys
              /\ \A m \in Msgs, n \in 0 .. MaxSends :
                    <<m, n>> \in TopicKeys /\ <<m, n>>[1] = m /\ (n > 0 => <<m, n>> \in MetaIds)
BY BoundsAre DEF MetaIds, TopicKeys

(* What holds nothing has its type.                                        *)
LEMMA IdleTypes ==
    /\ IdleOp \in Op /\ IdleOp.rows = {} /\ IdleOp.pc = "idle"
    /\ IdleHandler \in Handler /\ IdleHandler.pc = "idle" /\ IdleHandler.fresh = FALSE
BY DEF IdleOp, Op, OpSteps, IdleHandler, Handler

(* Rows stay.                                                              *)
Grows == \A m \in Msgs : Present(m) => Present(m)'

(* Rows that do not change stay.                                           *)
LEMMA SameGrow == row' = row => Grows
BY DEF Grows, Present

(* What is not touched keeps its type.                                     *)
LEMMA OpsStay == ASSUME TInv, Grows, op' = op PROVE OpsTyped'
BY DEF TInv, OpsTyped, Grows, Op

(* The same of the worker.                                                 *)
LEMMA WorkStays ==
    ASSUME TInv, Grows,
           UNCHANGED <<execute, published, worker, sends, recorded, missed, due, redelivered>>
    PROVE  WorkTyped'
<1>1. \A id \in recorded : id[1] \in Msgs
  BY Keys DEF TInv, WorkTyped
<1>2. QED
  BY <1>1 DEF TInv, WorkTyped, Grows, Working

(* The same of the topic.                                                  *)
LEMMA StatusStays == ASSUME TInv, Grows, UNCHANGED <<topic, handler>> PROVE StatusTyped'
<1>1. \A k \in TopicKeys : k[1] \in Msgs
  BY Keys
<1>2. QED
  BY <1>1 DEF TInv, StatusTyped, Heard, Grows

(* One request is at another step.                                         *)
LEMMA OneOp ==
    ASSUME TInv, Grows, NEW r \in Requests, NEW o \in Op, \A m \in o.rows : Present(m)',
           op' = [op EXCEPT ![r] = o]
    PROVE  OpsTyped'
<1>1. op' \in [Requests -> Op] /\ op \in [Requests -> Op]
  BY DEF TInv, OpsTyped
<1>2. \A d \in Requests : op'[d] = IF d = r THEN o ELSE op[d]
  BY <1>1
<1>3. \A d \in Requests : op[d].rows \subseteq Msgs
  BY <1>1 DEF Op
<1>4. QED
  BY <1>1, <1>2, <1>3 DEF TInv, OpsTyped, Grows

(* It goes on.                                                             *)
LEMMA GotoTyped ==
    ASSUME TInv, Grows, NEW r \in Requests, NEW step \in OpSteps, NEW rows \in SUBSET Msgs,
           NEW number \in Nat, \A m \in rows : Present(m)', Goto(r, step, rows, number)
    PROVE  OpsTyped'
<1>1. PICK o : o = [op[r] EXCEPT !.pc = step, !.rows = rows, !.number = number]
  OBVIOUS
<1>2. op[r] \in Op
  BY DEF TInv, OpsTyped
<1>3. o \in Op /\ o.rows = rows
  BY <1>1, <1>2 DEF Op
<1>4. op' = [op EXCEPT ![r] = o]
  BY <1>1, <1>2 DEF Goto, TInv, OpsTyped
<1>5. QED
  BY <1>3, <1>4, OneOp

(* It is over.                                                             *)
LEMMA FinishTyped ==
    ASSUME TInv, Grows, NEW r \in Requests, Finish(r)
    PROVE  OpsTyped'
<1>1. PICK o : o = IdleOp
  OBVIOUS
<1>2. o \in Op /\ o.rows = {} /\ op' = [op EXCEPT ![r] = o]
  BY <1>1, IdleTypes DEF Finish
<1>3. QED
  BY <1>2, OneOp

(* What a request holds.                                                   *)
LEMMA OpFacts ==
    ASSUME TInv, NEW r \in Requests
    PROVE  /\ op[r].rows \in SUBSET Msgs /\ op[r].number \in Nat /\ op[r].pending \in Nat
           /\ \A m \in op[r].rows : Present(m)
BY DEF TInv, OpsTyped, Op

(* Some rows are written.                                                  *)
LEMMA RowsWritten ==
    ASSUME TInv, NEW rows \in SUBSET Msgs, NEW f \in [Msgs -> Row],
           \A m \in rows : f[m].status # "absent",
           row' = [m \in Msgs |-> IF m \in rows THEN f[m] ELSE row[m]]
    PROVE  /\ row' \in [Msgs -> Row] /\ Grows
           /\ \A m \in rows : Present(m)'
BY DEF TInv, RowsTyped, Grows, Present

(* Counters that are written are numbers.                                  *)
LEMMA CountTyped ==
    ASSUME TInv, NEW x \in Counters, NEW n \in Nat, NEW y \in Counters, NEW l \in Nat
    PROVE  [counts EXCEPT ![x] = n, ![y] = l] \in [Counters -> Nat]
BY DEF TInv, RowsTyped

(* Counters that are written are numbers.                                  *)
LEMMA CountsAre ==
    TInv => /\ counts.pending \in Nat /\ counts.failed \in Nat
            /\ \A x \in Counters : counts[x] \in Nat
BY DEF TInv, RowsTyped, Counters

(* What is assigned is what was there or what is given.                    *)
LEMMA AssignedTyped ==
    \A S, t : \A s, c \in S : Assigned(t, c, s) \in S
BY DEF Assigned

-----------------------------------------------------------------------------
(* campaign-service: the operator's requests.                              *)

(* What a request leaves alone.                                            *)
LEMMA Aside ==
    ASSUME TInv, Grows, OpsTyped', RowsTyped',
           UNCHANGED <<execute, published, worker, sends, recorded, due, missed,
                       topic, handler, bounds>>
    PROVE  TInv'
<1>1. WorkTyped'
  BY WorkStays DEF bounds
<1>2. StatusTyped'
  BY StatusStays
<1>3. BoundsTyped'
  BY DEF TInv, BoundsTyped, bounds
<1>4. QED
  BY <1>1, <1>2, <1>3 DEF TInv

(* A request is made.                                                      *)
LEMMA RequestTyped ==
    ASSUME TInv, NEW r \in Requests, NEW name \in Ops, Request(r, name)
    PROVE  TInv'
<1>1. UNCHANGED <<status, counts, row, starts, whatsapp, published, topic, handler,
                  faults, redelivered, duplicates>>
  BY DEF Request
<1>2. Grows /\ RowsTyped'
  BY <1>1, SameGrow DEF TInv, RowsTyped
<1>3. PICK o : o = [pc |-> FirstStep(name), rows |-> {}, number |-> 0,
                    pending |-> counts.pending]
  OBVIOUS
<1>4. FirstStep(name) \in OpSteps
  BY OpsAssumption DEF FirstStep, OpSteps
<1>5. o \in Op /\ o.rows = {}
  BY <1>3, <1>4, CountsAre DEF Op
<1>6. op' = [op EXCEPT ![r] = o]
  BY <1>3 DEF Request
<1>7. OpsTyped'
  BY <1>2, <1>5, <1>6, OneOp
<1>8. WorkTyped' /\ StatusTyped'
  BY <1>1, <1>2, WorkStays, StatusStays DEF whatsapp
<1>9. BoundsTyped'
  BY <1>1, BoundsAre DEF Request, TInv, BoundsTyped
<1>10. QED
  BY <1>2, <1>7, <1>8, <1>9 DEF TInv

(* startCampaign inserts its rows.                                         *)
LEMMA InsertRowsTyped ==
    ASSUME TInv, NEW r \in Requests, InsertRows(r)
    PROVE  TInv'
<1>1. PICK batch : batch = Recipients \X {starts + 1}
  OBVIOUS
<1>2. starts + 1 \in 1 .. MaxStarts /\ starts' = starts + 1
  BY BoundsAre DEF InsertRows, TInv, RowsTyped
<1>3. batch \in SUBSET Msgs
  BY <1>1, <1>2 DEF Msgs
<1>4. PICK new : new = [status |-> "pending", meta |-> None, retries |-> 0]
  OBVIOUS
<1>5. new \in Row /\ new.status = "pending"
  BY <1>4 DEF Row, RowStatuses, Unresolved
<1>6. PICK f : f = [m \in Msgs |-> new]
  OBVIOUS
<1>7. f \in [Msgs -> Row] /\ \A m \in batch : f[m].status # "absent"
  BY <1>3, <1>5, <1>6
<1>8. row' = [m \in Msgs |-> IF m \in batch THEN f[m] ELSE row[m]]
  BY <1>1, <1>4, <1>6 DEF InsertRows
<1>9. row' \in [Msgs -> Row] /\ Grows /\ \A m \in batch : Present(m)'
  BY <1>3, <1>7, <1>8, RowsWritten
<1>10. /\ Goto(r, "mark", batch, 0)
       /\ UNCHANGED <<status, counts, whatsapp, published, topic, handler, bounds>>
  BY <1>1 DEF InsertRows
<1>11. OpsTyped'
  BY <1>3, <1>9, <1>10, GotoTyped DEF OpSteps
<1>12. starts' \in 0 .. MaxStarts
  BY <1>2
<1>13. RowsTyped'
  BY <1>9, <1>10, <1>12 DEF TInv, RowsTyped
<1>14. QED
  BY <1>9, <1>10, <1>11, <1>13, Aside DEF whatsapp

(* The campaign runs.                                                      *)
LEMMA MarkRunningTyped ==
    ASSUME TInv, NEW r \in Requests, MarkRunning(r)
    PROVE  TInv'
<1>1. /\ Goto(r, "publish", op[r].rows, 0)
      /\ UNCHANGED <<row, starts, whatsapp, published, topic, handler, bounds>>
  BY DEF MarkRunning
<1>2. Grows
  BY <1>1, SameGrow
<1>3. OpsTyped'
  <2>1. op[r].rows \in SUBSET Msgs /\ \A m \in op[r].rows : Present(m)'
    BY <1>2, OpFacts DEF Grows
  <2>2. QED
    BY <1>1, <1>2, <2>1, GotoTyped DEF OpSteps
<1>4. counts' \in [Counters -> Nat]
  <2>1. PICK n : n = Assigned(op[r].pending, counts.pending, Cardinality(op[r].rows))
    OBVIOUS
  <2>2. n \in Nat
    BY <2>1, CountsAre, FinitelyMany, OpFacts DEF Assigned
  <2>3. counts' = [counts EXCEPT !["pending"] = n]
    BY <2>1 DEF MarkRunning
  <2>4. QED
    BY <2>2, <2>3 DEF TInv, RowsTyped
<1>5. RowsTyped'
  BY <1>1, <1>4 DEF MarkRunning, TInv, RowsTyped, Statuses
<1>6. QED
  BY <1>1, <1>2, <1>3, <1>5, Aside DEF whatsapp

(* An operator's request ends, or looks something up.                      *)
LEMMA QuietOpTyped ==
    ASSUME TInv, OpsTyped',
           UNCHANGED <<row, starts, whatsapp, published, topic, handler, bounds>>,
           status' \in Statuses, counts' \in [Counters -> Nat]
    PROVE  TInv'
<1>1. Grows
  BY SameGrow
<1>2. RowsTyped'
  BY DEF TInv, RowsTyped
<1>3. QED
  BY <1>1, <1>2, Aside DEF whatsapp

(* It is refused, or pauses the campaign.                                  *)
LEMMA RejectPauseTyped ==
    ASSUME TInv, NEW r \in Requests, Reject(r) \/ Pause(r)
    PROVE  TInv'
<1>1. /\ Finish(r)
      /\ UNCHANGED <<counts, row, starts, whatsapp, published, topic, handler, bounds>>
  BY DEF Reject, Pause
<1>2. OpsTyped'
  BY <1>1, SameGrow, FinishTyped
<1>3. status' \in Statuses /\ counts' \in [Counters -> Nat]
  BY <1>1 DEF Reject, Pause, TInv, RowsTyped, Statuses
<1>4. QED
  BY <1>1, <1>2, <1>3, QuietOpTyped

(* resumeCampaign looks for rows to send.                                  *)
LEMMA FindPendingTyped ==
    ASSUME TInv, NEW r \in Requests, FindPending(r)
    PROVE  TInv'
<1>1. PICK found : found = RowsIn({"pending"})
  OBVIOUS
<1>2. PICK step \in {"tally", "mark"} : step = IF found = {} THEN "tally" ELSE "mark"
  OBVIOUS
<1>3. /\ Goto(r, step, found, 0)
      /\ UNCHANGED <<status, counts, row, starts, whatsapp, published, topic, handler, bounds>>
  BY <1>1, <1>2 DEF FindPending
<1>4. found \in SUBSET Msgs /\ \A m \in found : Present(m)'
  BY <1>1, <1>3 DEF RowsIn, Present
<1>5. OpsTyped'
  BY <1>2, <1>3, <1>4, SameGrow, GotoTyped DEF OpSteps
<1>6. QED
  BY <1>3, <1>5, QuietOpTyped DEF TInv, RowsTyped

(* It counts the rows that failed.                                         *)
LEMMA TallyFailedTyped ==
    ASSUME TInv, NEW r \in Requests, TallyFailed(r)
    PROVE  TInv'
<1>1. PICK n : n = Cardinality(RowsIn({"failed"}))
  OBVIOUS
<1>2. n \in Nat
  BY <1>1, FinitelyMany DEF RowsIn
<1>3. /\ Goto(r, "conclude", {}, n)
      /\ UNCHANGED <<status, counts, row, starts, whatsapp, published, topic, handler, bounds>>
  BY <1>1 DEF TallyFailed
<1>4. OpsTyped'
  BY <1>2, <1>3, SameGrow, GotoTyped DEF OpSteps
<1>5. QED
  BY <1>3, <1>4, QuietOpTyped DEF TInv, RowsTyped

(* It declares the campaign over.                                          *)
LEMMA ConcludeTyped ==
    ASSUME TInv, NEW r \in Requests, Conclude(r)
    PROVE  TInv'
<1>1. /\ Finish(r)
      /\ UNCHANGED <<row, starts, whatsapp, published, topic, handler, bounds>>
  BY DEF Conclude
<1>2. OpsTyped'
  BY <1>1, SameGrow, FinishTyped
<1>3. counts' \in [Counters -> Nat]
  <2>1. PICK n : n = Assigned(op[r].pending, counts.pending, 0)
    OBVIOUS
  <2>2. n \in Nat
    BY <2>1, CountsAre DEF Assigned
  <2>3. counts' = [counts EXCEPT !["pending"] = n]
    BY <2>1 DEF Conclude
  <2>4. QED
    BY <2>2, <2>3 DEF TInv, RowsTyped
<1>4. status' \in Statuses
  BY DEF Conclude, Statuses
<1>5. QED
  BY <1>1, <1>2, <1>3, <1>4, QuietOpTyped

(* cancelCampaign fails the rows that are open.                            *)
LEMMA FailRowsTyped ==
    ASSUME TInv, NEW r \in Requests, FailRows(r)
    PROVE  TInv'
<1>1. PICK hit : hit = RowsIn(Unresolved)
  OBVIOUS
<1>2. PICK f : f = [m \in Msgs |-> [row[m] EXCEPT !.status = "failed"]]
  OBVIOUS
<1>3. hit \in SUBSET Msgs
  BY <1>1 DEF RowsIn
<1>4. \A m \in Msgs : /\ [row[m] EXCEPT !.status = "failed"] \in Row
                      /\ [row[m] EXCEPT !.status = "failed"].status = "failed"
  BY DEF TInv, RowsTyped, Row, RowStatuses
<1>5. f \in [Msgs -> Row] /\ \A m \in hit : f[m].status # "absent"
  BY <1>2, <1>3, <1>4
<1>6. row' = [m \in Msgs |-> IF m \in hit THEN f[m] ELSE row[m]]
  BY <1>1, <1>2 DEF FailRows
<1>7. row' \in [Msgs -> Row] /\ Grows
  BY <1>3, <1>5, <1>6, RowsWritten
<1>8. /\ Goto(r, "cancel", {}, Cardinality(hit))
      /\ UNCHANGED <<status, counts, starts, whatsapp, published, topic, handler, bounds>>
  BY <1>1 DEF FailRows
<1>9. OpsTyped'
  BY <1>3, <1>7, <1>8, FinitelyMany, GotoTyped DEF OpSteps
<1>10. RowsTyped'
  BY <1>7, <1>8 DEF TInv, RowsTyped
<1>11. QED
  BY <1>7, <1>8, <1>9, <1>10, Aside DEF whatsapp

(* Then it cancels the campaign.                                           *)
LEMMA CancelTyped ==
    ASSUME TInv, NEW r \in Requests, Cancel(r)
    PROVE  TInv'
<1>1. /\ Finish(r)
      /\ UNCHANGED <<row, starts, whatsapp, published, topic, handler, bounds>>
  BY DEF Cancel
<1>2. OpsTyped'
  BY <1>1, SameGrow, FinishTyped
<1>3. counts' \in [Counters -> Nat]
  <2>1. PICK n, l : /\ n = counts.failed + op[r].number
                    /\ l = Assigned(op[r].pending, counts.pending, 0)
    OBVIOUS
  <2>2. n \in Nat /\ l \in Nat
    BY <2>1, CountsAre, OpFacts DEF Assigned
  <2>3. counts' = [counts EXCEPT !["failed"] = n, !["pending"] = l]
    BY <2>1 DEF Cancel
  <2>4. QED
    BY <2>2, <2>3 DEF TInv, RowsTyped
<1>4. status' \in Statuses
  BY DEF Cancel, Statuses
<1>5. QED
  BY <1>1, <1>2, <1>3, <1>4, QuietOpTyped

(* retryCampaign looks for rows that may be tried again.                   *)
LEMMA SelectFailedTyped ==
    ASSUME TInv, NEW r \in Requests, SelectFailed(r)
    PROVE  TInv'
<1>1. PICK found : found = {m \in RowsIn({"failed"}) : row[m].retries < MaxRetries}
  OBVIOUS
<1>2. /\ Finish(r) \/ Goto(r, "reset", found, 0)
      /\ UNCHANGED <<status, counts, row, starts, whatsapp, published, topic, handler, bounds>>
  BY <1>1 DEF SelectFailed
<1>3. found \in SUBSET Msgs /\ \A m \in found : Present(m)'
  BY <1>1, <1>2 DEF RowsIn, Present
<1>4. OpsTyped'
  BY <1>2, <1>3, SameGrow, FinishTyped, GotoTyped DEF OpSteps
<1>5. QED
  BY <1>2, <1>4, QuietOpTyped DEF TInv, RowsTyped

(* It resets them.                                                         *)
LEMMA ResetRowsTyped ==
    ASSUME TInv, NEW r \in Requests, ResetRows(r)
    PROVE  TInv'
<1>1. PICK rows : rows = op[r].rows
  OBVIOUS
<1>2. PICK f : f = [m \in Msgs |-> [row[m] EXCEPT !.status = "pending", !.retries = @ + 1]]
  OBVIOUS
<1>3. rows \in SUBSET Msgs
  BY <1>1, OpFacts
<1>4. \A m \in Msgs :
         /\ [row[m] EXCEPT !.status = "pending", !.retries = @ + 1] \in Row
         /\ [row[m] EXCEPT !.status = "pending", !.retries = @ + 1].status = "pending"
  <2> SUFFICES ASSUME NEW m \in Msgs
               PROVE  /\ [row[m] EXCEPT !.status = "pending", !.retries = @ + 1] \in Row
                      /\ [row[m] EXCEPT !.status = "pending", !.retries = @ + 1].status
                            = "pending"
    OBVIOUS
  <2>1. row[m] \in Row
    BY DEF TInv, RowsTyped
  <2>2. row[m].retries + 1 \in Nat
    BY <2>1 DEF Row
  <2>3. PICK n \in Nat : n = row[m].retries + 1
    BY <2>2
  <2>4. PICK new : new = [row[m] EXCEPT !.status = "pending", !.retries = n]
    OBVIOUS
  <2>5. new \in Row /\ new.status = "pending"
    BY <2>1, <2>3, <2>4 DEF Row, RowStatuses, Unresolved
  <2>6. QED
    BY <2>3, <2>4, <2>5
<1>5. f \in [Msgs -> Row] /\ \A m \in rows : f[m].status # "absent"
  BY <1>2, <1>3, <1>4
<1>6. row' = [m \in Msgs |-> IF m \in rows THEN f[m] ELSE row[m]]
  BY <1>1, <1>2 DEF ResetRows
<1>7. row' \in [Msgs -> Row] /\ Grows /\ \A m \in rows : Present(m)'
  BY <1>3, <1>5, <1>6, RowsWritten
<1>8. /\ Goto(r, "rerun", rows, 0)
      /\ UNCHANGED <<status, counts, starts, whatsapp, published, topic, handler, bounds>>
  BY <1>1 DEF ResetRows
<1>9. OpsTyped'
  BY <1>3, <1>7, <1>8, GotoTyped DEF OpSteps
<1>10. RowsTyped'
  BY <1>7, <1>8 DEF TInv, RowsTyped
<1>11. QED
  BY <1>7, <1>8, <1>9, <1>10, Aside DEF whatsapp

(* A difference that is never below zero.                                  *)
LEMMA LessTyped == \A a, b \in Nat : Less(a, b) \in Nat
BY DEF Less

(* The campaign runs again.                                                *)
LEMMA RerunTyped ==
    ASSUME TInv, NEW r \in Requests, Rerun(r)
    PROVE  TInv'
<1>1. /\ Goto(r, "publish", op[r].rows, 0)
      /\ UNCHANGED <<row, starts, whatsapp, published, topic, handler, bounds>>
  BY DEF Rerun
<1>2. OpsTyped'
  <2>1. op[r].rows \in SUBSET Msgs /\ \A m \in op[r].rows : Present(m)'
    BY <1>1, SameGrow, OpFacts DEF Grows
  <2>2. QED
    BY <1>1, <2>1, SameGrow, GotoTyped DEF OpSteps
<1>3. counts' \in [Counters -> Nat]
  <2>1. PICK n : n = Cardinality(op[r].rows)
    OBVIOUS
  <2>2. n \in Nat
    BY <2>1, FinitelyMany, OpFacts
  <2>3. PICK a, b : a = Less(counts.failed, n) /\ b = counts.pending + n
    OBVIOUS
  <2>4. a \in Nat /\ b \in Nat
    <3>1. counts.failed \in Nat /\ counts.pending \in Nat
      BY CountsAre
    <3>2. a \in Nat
      BY <2>2, <2>3, <3>1, LessTyped
    <3>3. b \in Nat
      BY <2>2, <2>3, <3>1
    <3>4. QED
      BY <3>2, <3>3
  <2>5. counts' = [counts EXCEPT !["failed"] = a, !["pending"] = b]
    BY <2>1, <2>3 DEF Rerun
  <2>6. QED
    BY <2>4, <2>5 DEF TInv, RowsTyped
<1>4. status' \in Statuses
  BY DEF Rerun, Statuses
<1>5. QED
  BY <1>1, <1>2, <1>3, <1>4, QuietOpTyped

(* Events go to Kafka, one for each row that is sent there.                *)
LEMMA PublishTyped ==
    ASSUME TInv, NEW r \in Requests, Publish(r)
    PROVE  TInv'
<1>1. PICK sent \in SUBSET op[r].rows :
         /\ \/ sent = op[r].rows /\ UNCHANGED faults
            \/ "publish" \in Faults /\ faults < MaxFaults /\ faults' = faults + 1
         /\ execute' = [m \in Msgs |-> execute[m] + IF m \in sent THEN 1 ELSE 0]
         /\ published' = [m \in Msgs |-> published[m] + IF m \in sent THEN 1 ELSE 0]
         /\ Finish(r)
         /\ UNCHANGED <<status, counts, row, starts, worker, sends, recorded, due, missed,
                        topic, handler, opsBegun, redelivered, duplicates>>
  BY DEF Publish
<1>2. Grows /\ RowsTyped'
  BY <1>1, SameGrow DEF TInv, RowsTyped
<1>3. OpsTyped' /\ StatusTyped'
  BY <1>1, <1>2, FinishTyped, StatusStays
<1>4. BoundsTyped'
  BY <1>1, BoundsAre DEF TInv, BoundsTyped
<1>5. \A m \in sent : Present(m)
  BY OpFacts
<1>6. \A m \in Msgs : /\ execute[m] \in Nat /\ published[m] \in Nat
                      /\ execute'[m] = IF m \in sent THEN execute[m] + 1 ELSE execute[m]
  BY <1>1 DEF TInv, WorkTyped
<1>7. execute' \in [Msgs -> Nat] /\ published' \in [Msgs -> Nat]
  BY <1>1, <1>6
<1>8. \A m \in Msgs : (execute'[m] > 0 => Present(m)') /\ Working(m)'
  <2>1. \A m \in Msgs : execute'[m] > 0 => m \in sent \/ execute[m] > 0
    BY <1>6
  <2>2. \A m \in Msgs : execute[m] > 0 => execute'[m] > 0
    BY <1>6
  <2>3. QED
    BY <1>1, <1>2, <1>5, <2>1, <2>2 DEF TInv, WorkTyped, Grows, Working
<1>9. \A id \in recorded' : Present(id[1])'
  BY <1>1, <1>2, Keys DEF TInv, WorkTyped, Grows
<1>10. WorkTyped'
  BY <1>1, <1>7, <1>8, <1>9 DEF TInv, WorkTyped
<1>11. QED
  BY <1>2, <1>3, <1>4, <1>10 DEF TInv

-----------------------------------------------------------------------------
(* whatsapp-service.                                                       *)

(* What the worker leaves alone.                                           *)
LEMMA Apart ==
    ASSUME TInv, UNCHANGED service, WorkTyped', StatusTyped', BoundsTyped'
    PROVE  TInv'
<1>1. Grows /\ RowsTyped'
  BY SameGrow DEF service, TInv, RowsTyped
<1>2. OpsTyped'
  BY <1>1, OpsStay DEF service
<1>3. QED
  BY <1>1, <1>2 DEF TInv

(* What is known of one row's work.                                        *)
LEMMA WorkFacts ==
    ASSUME TInv, NEW m \in Msgs
    PROVE  /\ execute[m] \in Nat /\ sends[m] \in 0 .. MaxSends /\ worker[m] \in WorkSteps
           /\ worker[m] # "idle" => execute[m] > 0
           /\ execute[m] > 0 => Present(m)
           /\ worker[m] \in {"accepted", "recorded"} => sends[m] > 0
BY DEF TInv, WorkTyped, Working

(* The worker goes on with the event of one row.                           *)
LEMMA StepTyped ==
    ASSUME TInv, NEW m \in Msgs, NEW to \in WorkSteps, Step(m, to), UNCHANGED service,
           \/ execute' = execute /\ execute[m] > 0
           \/ execute[m] > 0 /\ execute' = [execute EXCEPT ![m] = @ - 1] /\ to = "idle",
           sends' \in [Msgs -> 0 .. MaxSends],
           \A w \in Msgs \ {m} : sends'[w] = sends[w],
           to \in {"accepted", "recorded"} => sends'[m] > 0,
           recorded' \subseteq MetaIds,
           \A id \in recorded' : id \in recorded \/ id[1] = m,
           missed' \in BOOLEAN, due' \in [MetaIds -> SUBSET RowStatuses],
           UNCHANGED redelivered
    PROVE  WorkTyped'
<1>1. UNCHANGED <<row, published>>
  BY DEF service
<1>2. worker' \in [Msgs -> WorkSteps]
  BY DEF Step, TInv, WorkTyped
<1>3. \A w \in Msgs : worker'[w] = IF w = m THEN to ELSE worker[w]
  BY DEF Step, TInv, WorkTyped
<1>4. execute' \in [Msgs -> Nat]
  BY DEF TInv, WorkTyped
<1>5. \A w \in Msgs : /\ w # m => execute'[w] = execute[w]
                      /\ execute'[w] > 0 => execute[w] > 0
  BY DEF TInv, WorkTyped
<1>6. to # "idle" => execute'[m] > 0
  OBVIOUS
<1>7. \A w \in Msgs : (execute'[w] > 0 => Present(w)') /\ Working(w)'
  BY <1>1, <1>3, <1>5, <1>6 DEF TInv, WorkTyped, Working, Present
<1>8. \A w \in Msgs : worker'[w] \in {"accepted", "recorded"} => sends'[w] > 0
  BY <1>3 DEF TInv, WorkTyped
<1>9. \A id \in recorded' : Present(id[1])'
  BY <1>1, WorkFacts DEF TInv, WorkTyped, Present
<1>10. QED
  BY <1>1, <1>2, <1>4, <1>7, <1>8, <1>9 DEF TInv, WorkTyped

(* A status is published.                                                  *)
LEMMA SendTyped ==
    ASSUME TInv, Grows, NEW k \in TopicKeys, NEW s \in RowStatuses, Send(k, s),
           Present(k[1]), handler' = handler
    PROVE  StatusTyped'
<1>1. topic \in [TopicKeys -> Seq(RowStatuses)]
  BY DEF TInv, StatusTyped
<1>2. Append(topic[k], s) \in Seq(RowStatuses) /\ Append(topic[k], s) # <<>>
  BY <1>1
<1>3. PICK queue : queue = Append(topic[k], s)
  OBVIOUS
<1>4. topic' = [topic EXCEPT ![k] = queue]
  BY <1>3 DEF Send
<1>5. topic' \in [TopicKeys -> Seq(RowStatuses)]
  BY <1>1, <1>2, <1>3, <1>4
<1>6. \A l \in TopicKeys : topic'[l] = IF l = k THEN queue ELSE topic[l]
  BY <1>1, <1>4
<1>7. \A l \in TopicKeys : Heard(l)'
  BY <1>2, <1>3, <1>6, Keys DEF TInv, StatusTyped, Heard, Grows
<1>8. QED
  BY <1>5, <1>7 DEF TInv, StatusTyped

(* An event is taken up, or dropped.                                       *)
LEMMA DispatchTyped ==
    ASSUME TInv, NEW m \in Msgs, Dispatch(m)
    PROVE  TInv'
<1>1. /\ UNCHANGED <<service, sends, recorded, due, missed, topic, bounds>>
      /\ execute[m] > 0
      /\ \/ Step(m, "sending") /\ execute' = execute
         \/ Step(m, "idle") /\ execute' = [execute EXCEPT ![m] = @ - 1]
  BY DEF Dispatch, Consumed
<1>2. /\ recorded \subseteq MetaIds /\ missed \in BOOLEAN
      /\ due \in [MetaIds -> SUBSET RowStatuses] /\ sends \in [Msgs -> 0 .. MaxSends]
  BY DEF TInv, WorkTyped
<1>3. "sending" \in WorkSteps /\ "idle" \in WorkSteps
  BY DEF WorkSteps
<1>4. WorkTyped'
  <2>1. CASE Step(m, "sending") /\ execute' = execute
    BY <1>1, <1>2, <1>3, <2>1, StepTyped DEF bounds
  <2>2. CASE Step(m, "idle") /\ execute' = [execute EXCEPT ![m] = @ - 1]
    BY <1>1, <1>2, <1>3, <2>2, StepTyped DEF bounds
  <2>3. QED
    BY <1>1, <2>1, <2>2
<1>5. StatusTyped' /\ BoundsTyped'
  BY <1>1, SameGrow, StatusStays DEF service, bounds, TInv, BoundsTyped
<1>6. QED
  BY <1>1, <1>4, <1>5, Apart

(* Meta takes a message.                                                   *)
LEMMA AcceptTyped ==
    ASSUME TInv, NEW m \in Msgs, Accept(m)
    PROVE  TInv'
<1>1. /\ UNCHANGED <<service, execute, recorded, missed, topic, opsBegun, redelivered, duplicates>>
      /\ worker[m] = "sending" /\ sends[m] < MaxSends
      /\ sends' = [sends EXCEPT ![m] = @ + 1]
  BY DEF Accept
<1>2. PICK to \in {"accepted", "refused"} : Step(m, to)
  BY DEF Accept
<1>3. PICK outcome \in Outcomes : due' = [due EXCEPT ![<<m, sends[m] + 1>>] = outcome]
  BY DEF Accept
<1>4. sends[m] + 1 \in 1 .. MaxSends /\ execute[m] > 0
  BY <1>1, BoundsAre, WorkFacts
<1>5. /\ sends' \in [Msgs -> 0 .. MaxSends] /\ sends'[m] > 0
      /\ \A w \in Msgs \ {m} : sends'[w] = sends[w]
  BY <1>1, <1>4, BoundsAre DEF TInv, WorkTyped
<1>6. outcome \subseteq RowStatuses
  BY OutcomeAssumption DEF RowStatuses
<1>7. due' \in [MetaIds -> SUBSET RowStatuses]
  BY <1>3, <1>6 DEF TInv, WorkTyped
<1>8. recorded' \subseteq MetaIds /\ missed' \in BOOLEAN /\ to \in WorkSteps
  BY <1>1 DEF TInv, WorkTyped, WorkSteps
<1>9. WorkTyped'
  BY <1>1, <1>2, <1>4, <1>5, <1>7, <1>8, StepTyped
<1>10. faults' \in 0 .. MaxFaults
  BY BoundsAre DEF Accept, TInv, BoundsTyped
<1>11. StatusTyped' /\ BoundsTyped'
  BY <1>1, <1>10, SameGrow, StatusStays DEF service, TInv, BoundsTyped
<1>12. QED
  BY <1>1, <1>9, <1>11, Apart

(* It is refused.                                                          *)
LEMMA RefuseTyped ==
    ASSUME TInv, NEW m \in Msgs, Refuse(m)
    PROVE  TInv'
<1>1. /\ UNCHANGED <<service, execute, sends, recorded, due, missed, topic, bounds>>
      /\ worker[m] = "sending" /\ Step(m, "refused")
  BY DEF Refuse
<1>2. /\ recorded \subseteq MetaIds /\ missed \in BOOLEAN
      /\ due \in [MetaIds -> SUBSET RowStatuses] /\ sends \in [Msgs -> 0 .. MaxSends]
      /\ execute[m] > 0
  BY <1>1, WorkFacts DEF TInv, WorkTyped
<1>3. "refused" \in WorkSteps /\ "refused" \notin {"accepted", "recorded"}
  BY DEF WorkSteps
<1>4. WorkTyped'
  BY <1>1, <1>2, <1>3, StepTyped DEF bounds
<1>5. StatusTyped' /\ BoundsTyped'
  BY <1>1, SameGrow, StatusStays DEF service, bounds, TInv, BoundsTyped
<1>6. QED
  BY <1>1, <1>4, <1>5, Apart

(* Meta's id is stored.                                                    *)
LEMMA RecordTyped ==
    ASSUME TInv, NEW m \in Msgs, Record(m)
    PROVE  TInv'
<1>1. /\ UNCHANGED <<service, execute, sends, due, missed, topic, opsBegun, redelivered, duplicates>>
      /\ worker[m] = "accepted"
      /\ recorded' \in {recorded, recorded \union {<<m, sends[m]>>}}
  BY DEF Record
<1>2. PICK to \in {"recorded", "refused"} : Step(m, to)
  BY DEF Record
<1>3. sends[m] \in 0 .. MaxSends /\ sends[m] > 0 /\ execute[m] > 0
  BY <1>1, WorkFacts
<1>4. <<m, sends[m]>> \in MetaIds /\ <<m, sends[m]>>[1] = m
  BY <1>3, Keys
<1>5. /\ recorded' \subseteq MetaIds
      /\ \A id \in recorded' : id \in recorded \/ id[1] = m
  BY <1>1, <1>4 DEF TInv, WorkTyped
<1>6. /\ sends \in [Msgs -> 0 .. MaxSends] /\ missed \in BOOLEAN
      /\ due \in [MetaIds -> SUBSET RowStatuses] /\ to \in WorkSteps
  BY DEF TInv, WorkTyped, WorkSteps
<1>7. WorkTyped'
  BY <1>1, <1>2, <1>3, <1>5, <1>6, StepTyped
<1>8. faults' \in 0 .. MaxFaults
  BY BoundsAre DEF Record, TInv, BoundsTyped
<1>9. StatusTyped' /\ BoundsTyped'
  BY <1>1, <1>8, SameGrow, StatusStays DEF service, TInv, BoundsTyped
<1>10. QED
  BY <1>1, <1>7, <1>9, Apart

(* campaign-service is told.                                               *)
LEMMA TellTyped ==
    ASSUME TInv, NEW m \in Msgs, Tell(m)
    PROVE  TInv'
<1>1. /\ UNCHANGED <<service, sends, recorded, due, missed, opsBegun, redelivered, duplicates>>
      /\ worker[m] \in {"recorded", "refused"}
      /\ Step(m, "idle") /\ execute' = [execute EXCEPT ![m] = @ - 1]
  BY DEF Tell, Consumed
<1>2. /\ sends[m] \in 0 .. MaxSends /\ execute[m] > 0 /\ Present(m)
  BY <1>1, WorkFacts
<1>3. /\ recorded \subseteq MetaIds /\ missed \in BOOLEAN
      /\ due \in [MetaIds -> SUBSET RowStatuses] /\ sends \in [Msgs -> 0 .. MaxSends]
      /\ "idle" \in WorkSteps /\ "idle" \notin {"accepted", "recorded"}
  BY DEF TInv, WorkTyped, WorkSteps
<1>4. WorkTyped'
  BY <1>1, <1>2, <1>3, StepTyped
<1>5. Grows /\ handler' = handler
  BY <1>1, SameGrow DEF service
<1>6. StatusTyped'
  <2>1. CASE UNCHANGED topic
    BY <1>5, <2>1, StatusStays
  <2>2. CASE Send(<<m, sends[m]>>, "queued")
    <3>1. PICK k \in TopicKeys : k = <<m, sends[m]>> /\ k[1] = m
      BY <1>2, Keys
    <3>2. Send(k, "queued") /\ "queued" \in RowStatuses
      BY <2>2, <3>1 DEF RowStatuses, Unresolved
    <3>3. QED
      BY <1>2, <1>5, <3>1, <3>2, SendTyped
  <2>3. CASE Send(<<m, 0>>, "failed")
    <3>1. PICK k \in TopicKeys : k = <<m, 0>> /\ k[1] = m
      BY Keys
    <3>2. Send(k, "failed") /\ "failed" \in RowStatuses
      BY <2>3, <3>1 DEF RowStatuses, Unresolved
    <3>3. QED
      BY <1>2, <1>5, <3>1, <3>2, SendTyped
  <2>4. QED
    BY <2>1, <2>2, <2>3 DEF Tell
<1>7. faults' \in 0 .. MaxFaults
  BY BoundsAre DEF Tell, TInv, BoundsTyped
<1>8. BoundsTyped'
  BY <1>1, <1>7 DEF TInv, BoundsTyped
<1>9. QED
  BY <1>1, <1>4, <1>6, <1>8, Apart

(* Meta reports.                                                           *)
LEMMA WebhookTyped ==
    ASSUME TInv, NEW id \in MetaIds, NEW s \in RowStatuses, Webhook(id, s)
    PROVE  TInv'
<1>1. /\ UNCHANGED <<service, execute, worker, sends, recorded, opsBegun, redelivered>>
      /\ due' \in {due, [due EXCEPT ![id] = @ \ {s}]}
      /\ missed' \in {missed, TRUE}
      /\ \/ UNCHANGED topic
         \/ id \in recorded /\ Send(id, s)
  BY DEF Webhook
<1>2. Grows /\ handler' = handler /\ UNCHANGED <<row, published>>
  BY <1>1, SameGrow DEF service
<1>3. due' \in [MetaIds -> SUBSET RowStatuses]
  BY <1>1 DEF TInv, WorkTyped
<1>4. missed' \in BOOLEAN
  BY <1>1 DEF TInv, WorkTyped
<1>5. WorkTyped'
  BY <1>1, <1>2, <1>3, <1>4 DEF TInv, WorkTyped, Working, Present
<1>6. StatusTyped'
  BY <1>1, <1>2, Keys, SendTyped, StatusStays DEF TInv, WorkTyped
<1>7. faults' \in 0 .. MaxFaults /\ duplicates' \in 0 .. MaxDuplicates
  BY BoundsAre DEF Webhook, TInv, BoundsTyped
<1>8. BoundsTyped'
  BY <1>1, <1>7 DEF TInv, BoundsTyped
<1>9. QED
  BY <1>1, <1>5, <1>6, <1>8, Apart

-----------------------------------------------------------------------------
(* campaign-service: the consumer of campaign.status.                      *)

(* What is known of one key.                                               *)
LEMMA KeyFacts ==
    ASSUME TInv, NEW k \in TopicKeys
    PROVE  /\ topic[k] \in Seq(RowStatuses) /\ handler[k] \in Handler /\ Heard(k)
           /\ k[1] \in Msgs
           /\ topic[k] # <<>> => /\ Head(topic[k]) \in RowStatuses
                                 /\ Tail(topic[k]) \in Seq(RowStatuses)
BY Keys DEF TInv, StatusTyped

(* A handler goes on with its status.                                      *)
LEMMA AdvanceTyped ==
    ASSUME TInv, Grows, NEW k \in TopicKeys, NEW h \in Handler, Advance(k, h),
           topic[k] # <<>>, h.fresh => k \in MetaIds
    PROVE  StatusTyped'
<1>1. topic' = topic /\ handler' = [handler EXCEPT ![k] = h]
  BY DEF Advance
<1>2. handler \in [TopicKeys -> Handler]
  BY DEF TInv, StatusTyped
<1>3. \A l \in TopicKeys : handler'[l] = IF l = k THEN h ELSE handler[l]
  BY <1>1, <1>2
<1>4. \A l \in TopicKeys : Heard(l)'
  BY <1>1, <1>3, Keys DEF TInv, StatusTyped, Heard, Grows
<1>5. QED
  BY <1>1, <1>2, <1>4 DEF TInv, StatusTyped

(* A handler is done with it.                                              *)
LEMMA DoneTyped ==
    ASSUME TInv, Grows, NEW k \in TopicKeys, Done(k), topic[k] # <<>>
    PROVE  StatusTyped'
<1>1. PICK rest : rest = Tail(topic[k])
  OBVIOUS
<1>2. PICK h : h = IdleHandler
  OBVIOUS
<1>3. topic' = [topic EXCEPT ![k] = rest] /\ handler' = [handler EXCEPT ![k] = h]
  BY <1>1, <1>2 DEF Done
<1>4. /\ handler \in [TopicKeys -> Handler] /\ topic \in [TopicKeys -> Seq(RowStatuses)]
      /\ rest \in Seq(RowStatuses)
      /\ h \in Handler /\ h.pc = "idle" /\ h.fresh = FALSE
  BY <1>1, <1>2, KeyFacts, IdleTypes DEF TInv, StatusTyped
<1>5. \A l \in TopicKeys : /\ handler'[l] = IF l = k THEN h ELSE handler[l]
                           /\ topic'[l] = IF l = k THEN rest ELSE topic[l]
  BY <1>3, <1>4
<1>6. \A l \in TopicKeys : Heard(l)'
  BY <1>4, <1>5, Keys DEF TInv, StatusTyped, Heard, Grows
<1>7. QED
  BY <1>3, <1>4, <1>6 DEF TInv, StatusTyped

(* What the consumer leaves alone.                                         *)
LEMMA Beside ==
    ASSUME TInv, Grows, RowsTyped', StatusTyped',
           UNCHANGED <<op, execute, published, worker, sends, recorded, due, bounds>>,
           missed' \in BOOLEAN
    PROVE  TInv'
<1>1. OpsTyped'
  BY OpsStay
<1>2. WorkTyped'
  <2>1. \A id \in recorded : id[1] \in Msgs
    BY Keys DEF TInv, WorkTyped
  <2>2. QED
    BY <2>1 DEF TInv, WorkTyped, Working, Grows, bounds
<1>3. BoundsTyped'
  BY DEF TInv, BoundsTyped, bounds
<1>4. QED
  BY <1>1, <1>2, <1>3 DEF TInv

(* A row is read.                                                          *)
LEMMA ReadRowTyped ==
    ASSUME TInv, NEW k \in TopicKeys, ReadRow(k)
    PROVE  TInv'
<1>1. /\ UNCHANGED <<status, counts, row, starts, op, published, execute, worker, sends,
                     recorded, due, bounds>>
      /\ topic[k] # <<>> /\ missed' \in BOOLEAN
  BY DEF ReadRow
<1>2. Grows /\ RowsTyped'
  BY <1>1, SameGrow DEF TInv, RowsTyped
<1>3. PICK fresh \in BOOLEAN : fresh = (k[2] # 0 /\ row[k[1]].meta = None)
  OBVIOUS
<1>4. PICK h : h = [IdleHandler EXCEPT !.pc = "write", !.prev = row[k[1]].status,
                                       !.fresh = fresh]
  OBVIOUS
<1>5. row[k[1]].status \in RowStatuses
  BY <1>1, KeyFacts DEF TInv, RowsTyped, Row, Heard, Present
<1>6. h \in Handler /\ h.fresh = fresh
  BY <1>4, <1>5 DEF IdleHandler, Handler
<1>7. fresh => k \in MetaIds
  BY <1>3, Keys
<1>8. Done(k) \/ Advance(k, h)
  BY <1>3, <1>4 DEF ReadRow
<1>9. StatusTyped'
  BY <1>1, <1>2, <1>6, <1>7, <1>8, DoneTyped, AdvanceTyped
<1>10. QED
  BY <1>1, <1>2, <1>9, Beside

(* It is written.                                                          *)
LEMMA WriteRowTyped ==
    ASSUME TInv, NEW k \in TopicKeys, WriteRow(k)
    PROVE  TInv'
<1>1. /\ handler[k].pc = "write"
      /\ UNCHANGED <<status, counts, starts, op, published, whatsapp, bounds>>
  BY DEF WriteRow
<1>2. topic[k] # <<>> /\ Present(k[1]) /\ (handler[k].fresh => k \in MetaIds)
  BY <1>1, KeyFacts DEF Heard
<1>3. PICK m \in Msgs : m = k[1]
  BY Keys
<1>5. /\ row[m] \in Row
      /\ Assigned(handler[k].prev, row[m].status, Head(topic[k])) \in RowStatuses
      /\ (IF handler[k].fresh THEN k ELSE row[m].meta) \in MetaIds \union {None}
  BY <1>2, <1>3, KeyFacts DEF TInv, RowsTyped, Row, Present, Assigned
<1>6. PICK new : new = [row[m] EXCEPT
         !.status = Assigned(handler[k].prev, row[m].status, Head(topic[k])),
         !.meta = IF handler[k].fresh THEN k ELSE row[m].meta]
  OBVIOUS
<1>7. new \in Row /\ new.status # "absent"
  BY <1>5, <1>6 DEF Row, RowStatuses, Unresolved
<1>8. row' = [row EXCEPT ![m] = new]
  BY <1>3, <1>6 DEF WriteRow, TInv, RowsTyped
<1>9. row' \in [Msgs -> Row] /\ Grows
  BY <1>7, <1>8 DEF TInv, RowsTyped, Grows, Present
<1>10. RowsTyped'
  BY <1>1, <1>9 DEF TInv, RowsTyped
<1>11. PICK h : h = [handler[k] EXCEPT !.pc = "count"]
  OBVIOUS
<1>12. h \in Handler /\ h.fresh = handler[k].fresh
  BY <1>11, KeyFacts DEF Handler
<1>13. Advance(k, h)
  BY <1>11 DEF WriteRow
<1>14. StatusTyped'
  BY <1>2, <1>9, <1>12, <1>13, AdvanceTyped
<1>15. missed' \in BOOLEAN
  BY <1>1 DEF whatsapp, TInv, WorkTyped
<1>16. QED
  BY <1>1, <1>9, <1>10, <1>14, <1>15, Beside DEF whatsapp

(* Then the counters.                                                      *)
LEMMA WriteCountersTyped ==
    ASSUME TInv, NEW k \in TopicKeys, WriteCounters(k)
    PROVE  TInv'
<1>1. /\ handler[k].pc = "count"
      /\ UNCHANGED <<status, row, starts, op, published, whatsapp, bounds>>
  BY DEF WriteCounters
<1>2. topic[k] # <<>> /\ (handler[k].fresh => k \in MetaIds) /\ Grows
  BY <1>1, KeyFacts, SameGrow DEF Heard
<1>3. \A prev, s : Counted(counts, prev, s) \in [Counters -> Nat]
  <2> SUFFICES ASSUME NEW prev, NEW s
               PROVE  Counted(counts, prev, s) \in [Counters -> Nat]
    OBVIOUS
  <2>1. PICK left : left = IF prev \in Unresolved /\ s \notin Unresolved THEN {"pending"}
                           ELSE {prev} \intersect {"sent", "delivered"}
    OBVIOUS
  <2>2. \A x \in Counters :
           Less(counts[x], IF x \in left THEN 1 ELSE 0) + (IF x = s THEN 1 ELSE 0) \in Nat
    <3> SUFFICES ASSUME NEW x \in Counters
                 PROVE  Less(counts[x], IF x \in left THEN 1 ELSE 0)
                           + (IF x = s THEN 1 ELSE 0) \in Nat
      OBVIOUS
    <3>1. PICK a, b \in Nat : /\ a = (IF x \in left THEN 1 ELSE 0)
                              /\ b = (IF x = s THEN 1 ELSE 0)
      OBVIOUS
    <3>2. counts[x] \in Nat
      BY CountsAre
    <3>3. Less(counts[x], a) \in Nat
      BY <3>1, <3>2, LessTyped
    <3>4. Less(counts[x], a) + b \in Nat
      BY <3>1, <3>3
    <3>5. QED
      BY <3>1, <3>4
  <2>3. Counted(counts, prev, s) =
           [x \in Counters |-> Less(counts[x], IF x \in left THEN 1 ELSE 0)
                               + (IF x = s THEN 1 ELSE 0)]
    BY <2>1 DEF Counted
  <2>4. QED
    BY <2>2, <2>3
<1>4. counts' \in [Counters -> Nat]
  BY <1>3 DEF WriteCounters
<1>5. RowsTyped'
  BY <1>1, <1>4 DEF TInv, RowsTyped
<1>6. PICK h : h = [handler[k] EXCEPT !.pc = "reload"]
  OBVIOUS
<1>7. h \in Handler /\ h.fresh = handler[k].fresh /\ Advance(k, h)
  BY <1>6, KeyFacts DEF Handler, WriteCounters
<1>8. StatusTyped'
  BY <1>2, <1>7, AdvanceTyped
<1>9. missed' \in BOOLEAN
  BY <1>1 DEF whatsapp, TInv, WorkTyped
<1>10. QED
  BY <1>1, <1>2, <1>5, <1>8, <1>9, Beside DEF whatsapp

(* The campaign is looked up again, and may be over.                       *)
LEMMA FinaliseTyped ==
    ASSUME TInv, NEW k \in TopicKeys, Reload(k) \/ Finalise(k)
    PROVE  TInv'
<1>1. /\ handler[k].pc \in {"reload", "finalise"}
      /\ UNCHANGED <<counts, row, starts, op, published, whatsapp, bounds>>
  BY DEF Reload, Finalise
<1>2. topic[k] # <<>> /\ (handler[k].fresh => k \in MetaIds) /\ Grows
  BY <1>1, KeyFacts, SameGrow DEF Heard
<1>3. PICK failed \in BOOLEAN : failed = (counts.failed > 0)
  <2>1. counts.failed \in Nat /\ 0 \in Nat
    BY CountsAre
  <2>2. \A a, b \in Nat : (a > b) \in BOOLEAN
    OBVIOUS
  <2>3. (counts.failed > 0) \in BOOLEAN
    BY <2>1, <2>2
  <2>4. QED
    BY <2>3, Zenon
<1>4. PICK h : h = [handler[k] EXCEPT !.pc = "finalise", !.failed = failed]
  OBVIOUS
<1>5. h \in Handler /\ h.fresh = handler[k].fresh
  BY <1>4, KeyFacts DEF Handler
<1>6. Done(k) \/ Advance(k, h)
  BY <1>3, <1>4 DEF Reload, Finalise
<1>7. StatusTyped'
  BY <1>2, <1>5, <1>6, DoneTyped, AdvanceTyped
<1>8. RowsTyped'
  BY <1>1 DEF Reload, Finalise, TInv, RowsTyped, Statuses
<1>9. missed' \in BOOLEAN
  BY <1>1 DEF whatsapp, TInv, WorkTyped
<1>10. QED
  BY <1>1, <1>2, <1>7, <1>8, <1>9, Beside DEF whatsapp

-----------------------------------------------------------------------------
(* Faults.                                                                 *)

(* One more is counted.                                                    *)
LEMMA FaultTyped ==
    ASSUME TInv, NEW kind, Fault(kind), UNCHANGED <<opsBegun, duplicates>>
    PROVE  BoundsTyped'
BY BoundsAre DEF TInv, BoundsTyped, Fault

(* campaign-service dies.                                                  *)
LEMMA CampaignServiceCrashTyped ==
    ASSUME TInv, CampaignServiceCrash
    PROVE  TInv'
<1>1. UNCHANGED <<status, counts, row, starts, published, whatsapp, topic,
                  opsBegun, redelivered, duplicates>>
  BY DEF CampaignServiceCrash
<1>2. Grows /\ RowsTyped' /\ BoundsTyped'
  BY <1>1, SameGrow, FaultTyped DEF CampaignServiceCrash, TInv, RowsTyped
<1>3. OpsTyped'
  BY IdleTypes DEF CampaignServiceCrash, OpsTyped
<1>4. /\ handler' \in [TopicKeys -> Handler]
      /\ \A k \in TopicKeys : handler'[k].pc = "idle" /\ ~ handler'[k].fresh
  BY IdleTypes DEF CampaignServiceCrash
<1>5. StatusTyped'
  BY <1>1, <1>2, <1>4, Keys DEF TInv, StatusTyped, Heard, Grows
<1>6. WorkTyped'
  BY <1>1, <1>2, WorkStays DEF whatsapp
<1>7. QED
  BY <1>2, <1>3, <1>5, <1>6 DEF TInv

(* whatsapp-service dies.                                                  *)
LEMMA WhatsAppServiceCrashTyped ==
    ASSUME TInv, WhatsAppServiceCrash
    PROVE  TInv'
<1>1. UNCHANGED <<service, execute, sends, recorded, due, missed, topic, opsBegun, duplicates>>
  BY DEF WhatsAppServiceCrash
<1>2. Grows
  BY <1>1, SameGrow DEF service
<1>3. /\ worker' \in [Msgs -> WorkSteps]
      /\ \A m \in Msgs : worker'[m] = "idle"
  BY DEF WhatsAppServiceCrash, WorkSteps
<1>4. redelivered' \in [Msgs -> Nat]
  BY DEF WhatsAppServiceCrash, TInv, WorkTyped
<1>5. WorkTyped'
  BY <1>1, <1>2, <1>3, <1>4, Keys DEF service, TInv, WorkTyped, Working, Grows
<1>6. StatusTyped' /\ BoundsTyped'
  BY <1>1, <1>2, StatusStays, FaultTyped DEF WhatsAppServiceCrash, service
<1>7. QED
  BY <1>1, <1>5, <1>6, Apart

(* A handler fails.                                                        *)
LEMMA HandlerErrorTyped ==
    ASSUME TInv, NEW k \in TopicKeys, HandlerError(k)
    PROVE  TInv'
<1>1. /\ UNCHANGED <<status, counts, row, starts, op, published, whatsapp,
                     opsBegun, redelivered, duplicates>>
      /\ Done(k) /\ topic[k] # <<>>
  BY DEF HandlerError
<1>2. Grows /\ RowsTyped' /\ BoundsTyped'
  BY <1>1, SameGrow, FaultTyped DEF HandlerError, TInv, RowsTyped
<1>3. StatusTyped' /\ OpsTyped'
  BY <1>1, <1>2, DoneTyped, OpsStay
<1>4. WorkTyped'
  BY <1>1, <1>2, WorkStays DEF whatsapp
<1>5. QED
  BY <1>2, <1>3, <1>4 DEF TInv

-----------------------------------------------------------------------------
(* Types.                                                                  *)

(* Every step keeps the types.                                             *)
LEMMA NextTyped == ASSUME TInv, [Next]_vars PROVE TInv'
<1>1. ASSUME NEW r \in Requests, Operate(r)
      PROVE  TInv'
  BY <1>1, InsertRowsTyped, MarkRunningTyped, PublishTyped, RejectPauseTyped,
     FindPendingTyped, TallyFailedTyped, ConcludeTyped, FailRowsTyped, CancelTyped,
     SelectFailedTyped, ResetRowsTyped, RerunTyped, Zenon DEF Operate
<1>2. ASSUME NEW m \in Msgs, Work(m)
      PROVE  TInv'
  BY <1>2, DispatchTyped, AcceptTyped, RefuseTyped, RecordTyped, TellTyped, Zenon DEF Work
<1>3. ASSUME NEW k \in TopicKeys, Consume(k) \/ HandlerError(k)
      PROVE  TInv'
  BY <1>3, ReadRowTyped, WriteRowTyped, WriteCountersTyped, FinaliseTyped,
     HandlerErrorTyped, Zenon DEF Consume
<1>4. CASE UNCHANGED vars
  BY <1>4, SameGrow, Aside DEF vars, bounds, TInv, RowsTyped, OpsTyped, Present
<1>5. QED
  BY <1>1, <1>2, <1>3, <1>4, RequestTyped, RejectPauseTyped, WebhookTyped,
     CampaignServiceCrashTyped, WhatsAppServiceCrashTyped, Zenon DEF Next

(* The types hold at the start.                                            *)
LEMMA InitTyped == Init => TInv
<1> SUFFICES ASSUME Init PROVE TInv
  OBVIOUS
<1>1. \A m \in Msgs : row[m] = [status |-> "absent", meta |-> None, retries |-> 0]
  BY DEF Init
<1>2. [status |-> "absent", meta |-> None, retries |-> 0] \in Row
  BY DEF Row
<1>3. RowsTyped
  BY <1>2, BoundsAre DEF Init, RowsTyped, Statuses
<1>4. OpsTyped
  BY IdleTypes DEF Init, OpsTyped
<1>5. WorkTyped
  <2>1. /\ execute = [m \in Msgs |-> 0] /\ published = [m \in Msgs |-> 0]
        /\ redelivered = [m \in Msgs |-> 0] /\ worker = [m \in Msgs |-> "idle"]
        /\ sends = [m \in Msgs |-> 0] /\ due = [id \in MetaIds |-> {}]
        /\ recorded = {} /\ missed = FALSE
    BY DEF Init
  <2>2. 0 \in 0 .. MaxSends
    BY BoundsAre
  <2>3. /\ execute \in [Msgs -> Nat] /\ published \in [Msgs -> Nat]
        /\ worker \in [Msgs -> WorkSteps] /\ sends \in [Msgs -> 0 .. MaxSends]
        /\ redelivered \in [Msgs -> Nat]
    BY <2>1, <2>2 DEF WorkSteps
  <2>4. recorded \subseteq MetaIds /\ missed \in BOOLEAN
    BY <2>1
  <2>5. due \in [MetaIds -> SUBSET RowStatuses]
    BY <2>1
  <2>6. \A m \in Msgs : execute[m] = 0 /\ worker[m] = "idle"
    BY <2>1
  <2>7. /\ \A m \in Msgs : execute[m] > 0 => Present(m)
        /\ \A m \in Msgs : Working(m)
        /\ \A m \in Msgs : worker[m] \in {"accepted", "recorded"} => sends[m] > 0
    BY <2>6 DEF Working
  <2>8. \A id \in recorded : Present(id[1])
    BY <2>1
  <2>9. QED
    BY <2>3, <2>4, <2>5, <2>7, <2>8 DEF WorkTyped
<1>6. \A k \in TopicKeys : topic[k] = <<>> /\ handler[k] = IdleHandler
  BY DEF Init
<1>7. StatusTyped
  BY <1>6, IdleTypes DEF Init, StatusTyped, Heard
<1>8. BoundsTyped
  BY BoundsAre DEF Init, BoundsTyped
<1>9. QED
  BY <1>3, <1>4, <1>5, <1>7, <1>8 DEF TInv

(* The types hold always.                                                  *)
LEMMA AlwaysTyped == Spec => []TInv
BY InitTyped, NextTyped, PTL DEF Spec

(* Every variable has its type.                                            *)
THEOREM TypeCorrect == Spec => []TypeOK
<1>1. TInv => TypeOK
  BY DEF TInv, RowsTyped, OpsTyped, WorkTyped, StatusTyped, BoundsTyped, TypeOK,
         Statuses, Row, Op, OpSteps, WorkSteps, Handler
<1>2. QED
  BY <1>1, AlwaysTyped, PTL

-----------------------------------------------------------------------------
(* A message is sent as often as it is asked for.                          *)
SInv == \A m \in Msgs : Within(m)

(* The numbers of one message.                                             *)
LEMMA Amounts ==
    ASSUME TInv, NEW m \in Msgs
    PROVE  /\ sends[m] \in Nat
           /\ execute[m] \in Nat
           /\ published[m] \in Nat
           /\ redelivered[m] \in Nat
<1>1. sends \in [Msgs -> 0 .. MaxSends] /\ execute \in [Msgs -> Nat]
  BY DEF TInv, WorkTyped
<1>2. published \in [Msgs -> Nat] /\ redelivered \in [Msgs -> Nat]
  BY DEF TInv, WorkTyped
<1>3. 0 .. MaxSends \subseteq Nat
  BY BoundsAre
<1>4. sends[m] \in Nat
  BY <1>1, <1>3
<1>5. QED
  BY <1>1, <1>2, <1>4

(* A worker is at work on an event.                                        *)
LEMMA AtWork ==
    ASSUME TInv, NEW m \in Msgs, worker[m] # "idle"
    PROVE  execute[m] >= 1
<1>1. execute[m] \in Nat /\ execute[m] > 0
  BY DEF TInv, WorkTyped, Working
<1>2. QED
  BY <1>1

(* An event has been acted on or has not.                                  *)
LEMMA ActedIs == \A m : \E a \in Nat : a = Acted(m) /\ a <= 1
<1> SUFFICES ASSUME NEW m
             PROVE  \E a \in Nat : a = Acted(m) /\ a <= 1
  OBVIOUS
<1>1. PICK a \in Nat : /\ a = (IF worker[m] \in {"accepted", "recorded", "refused"} THEN 1 ELSE 0)
                       /\ a <= 1
  OBVIOUS
<1>2. QED
  BY <1>1 DEF Acted

(* Sums that change together.                                              *)
LEMMA Sums ==
    /\ \A s, e, p, q, a, n \in Nat :
          s + e - a <= p + q => s + (e + n) - a <= (p + n) + q
    /\ \A s, e, p, q, a, n \in Nat :
          s + e - a <= p + q /\ a <= n => s + e - 0 <= p + (q + n)
    /\ \A s, e, p, q, t, f, a, b \in Nat :
          s + e - a <= p + q /\ t + f - b <= s + e - a => t + f - b <= p + q
    /\ \A s, e, p, q, a \in Nat :
          s + e - a <= p + q /\ a <= e => s <= p + q
    /\ \A s, e, a \in Nat : a <= 1 => s + e - 1 <= s + e - a
OBVIOUS

(* What touches none of them.                                              *)
LEMMA SameSends ==
    ASSUME SInv, UNCHANGED <<sends, execute, worker, published, redelivered>>
    PROVE  SInv'
BY DEF SInv, Within, Acted

(* Events are published: each is one to send.                              *)
LEMMA PublishSends ==
    ASSUME TInv, SInv, NEW r \in Requests, Publish(r)
    PROVE  SInv'
<1>1. PICK sent \in SUBSET op[r].rows :
         /\ execute' = [m \in Msgs |-> execute[m] + IF m \in sent THEN 1 ELSE 0]
         /\ published' = [m \in Msgs |-> published[m] + IF m \in sent THEN 1 ELSE 0]
         /\ UNCHANGED <<worker, sends, redelivered>>
  BY DEF Publish
<1> SUFFICES ASSUME NEW m \in Msgs PROVE Within(m)'
  BY DEF SInv
<1>2. PICK n \in Nat : n = IF m \in sent THEN 1 ELSE 0
  OBVIOUS
<1>3. execute'[m] = execute[m] + n /\ published'[m] = published[m] + n
  BY <1>1, <1>2
<1>4. sends'[m] = sends[m] /\ redelivered'[m] = redelivered[m] /\ Acted(m)' = Acted(m)
  BY <1>1 DEF Acted
<1>5. Within(m)
  BY DEF SInv
<1>6. PICK a \in Nat : a = Acted(m)
  BY ActedIs, Zenon
<1>7. sends[m] + execute[m] - a <= published[m] + redelivered[m]
  BY <1>5, <1>6 DEF Within
<1>8. sends[m] + (execute[m] + n) - a <= (published[m] + n) + redelivered[m]
  BY <1>7, Amounts, Sums
<1>9. QED
  BY <1>3, <1>4, <1>6, <1>8 DEF Within

(* One row's event is worked on.                                           *)
LEMMA OneWorked ==
    ASSUME TInv, SInv, NEW m \in Msgs,
           \A d \in Msgs \ {m} : /\ sends'[d] = sends[d] /\ execute'[d] = execute[d]
                                 /\ worker'[d] = worker[d],
           UNCHANGED <<published, redelivered>>,
           sends'[m] + execute'[m] - Acted(m)' <= sends[m] + execute[m] - Acted(m),
           sends'[m] \in Nat, execute'[m] \in Nat, Acted(m)' \in Nat
    PROVE  SInv'
<1> SUFFICES ASSUME NEW d \in Msgs PROVE Within(d)'
  BY DEF SInv
<1>1. Within(d) /\ published'[d] = published[d] /\ redelivered'[d] = redelivered[d]
  BY DEF SInv
<1>2. CASE d = m
  <2>1. sends[d] + execute[d] - Acted(d) <= published[d] + redelivered[d]
    BY <1>1 DEF Within
  <2>2. PICK a \in Nat : a = Acted(d)
    BY ActedIs, Zenon
  <2>9. PICK b \in Nat : b = Acted(d)'
    BY <1>2, Zenon
  <2>3. sends[d] + execute[d] - a <= published[d] + redelivered[d]
    BY <2>1, <2>2
  <2>4. sends'[d] + execute'[d] - b <= sends[d] + execute[d] - a
    BY <1>2, <2>2, <2>9
  <2>5. sends'[d] + execute'[d] - b <= published[d] + redelivered[d]
    BY <1>2, <2>3, <2>4, Amounts, Sums
  <2>6. QED
    BY <1>1, <2>9, <2>5 DEF Within
<1>3. CASE d # m
  BY <1>1, <1>3 DEF Within, Acted
<1>4. QED
  BY <1>2, <1>3

(* A step of the worker is one of its row.                                 *)
LEMMA StepOfRow ==
    ASSUME TInv, NEW m \in Msgs, NEW to \in WorkSteps, Step(m, to)
    PROVE  /\ worker'[m] = to
           /\ \A d \in Msgs \ {m} : worker'[d] = worker[d]
BY DEF Step, TInv, WorkTyped

(* An event that was acted on is done with.                                *)
LEMMA ConsumedOfRow ==
    ASSUME TInv, NEW m \in Msgs, Consumed(m), execute[m] > 0
    PROVE  /\ worker'[m] = "idle" /\ execute'[m] = execute[m] - 1 /\ execute'[m] \in Nat
           /\ \A d \in Msgs \ {m} : worker'[d] = worker[d] /\ execute'[d] = execute[d]
<1>1. /\ execute \in [Msgs -> Nat] /\ execute[m] \in Nat
      /\ execute' = [execute EXCEPT ![m] = @ - 1]
  BY DEF Consumed, TInv, WorkTyped
<1>2. execute'[m] = execute[m] - 1 /\ \A d \in Msgs \ {m} : execute'[d] = execute[d]
  BY <1>1
<1>3. execute'[m] \in Nat
  BY <1>1, <1>2
<1>4. QED
  BY <1>2, <1>3, StepOfRow DEF Consumed, WorkSteps

(* Nothing is sent before the row is looked at.                            *)
LEMMA DispatchSends ==
    ASSUME TInv, SInv, NEW m \in Msgs, Dispatch(m)
    PROVE  SInv'
<1>1. /\ worker[m] = "idle" /\ execute[m] > 0
      /\ UNCHANGED <<sends, published, redelivered>>
      /\ (Step(m, "sending") /\ UNCHANGED execute) \/ Consumed(m)
  BY DEF Dispatch, service, bounds
<1>2. /\ \A d \in Msgs \ {m} : worker'[d] = worker[d] /\ execute'[d] = execute[d]
      /\ worker'[m] \in {"sending", "idle"} /\ execute'[m] \in Nat
      /\ execute'[m] \in {execute[m], execute[m] - 1}
  BY <1>1, StepOfRow, ConsumedOfRow, Amounts DEF WorkSteps
<1>3. Acted(m)' = 0 /\ Acted(m) = 0
  BY <1>1, <1>2 DEF Acted
<1>4. sends'[m] + execute'[m] - Acted(m)' <= sends[m] + execute[m] - Acted(m)
  BY <1>1, <1>2, <1>3, Amounts
<1>5. QED
  BY <1>1, <1>2, <1>3, <1>4, Amounts, OneWorked

(* Meta takes it, once for its event.                                      *)
LEMMA AcceptSends ==
    ASSUME TInv, SInv, NEW m \in Msgs, Accept(m)
    PROVE  SInv'
<1>1. /\ worker[m] = "sending" /\ sends' = [sends EXCEPT ![m] = @ + 1]
      /\ UNCHANGED <<execute, published, redelivered>>
      /\ Step(m, "accepted") \/ Step(m, "refused")
  BY DEF Accept, service
<1>2. sends \in [Msgs -> 0 .. MaxSends]
  BY DEF TInv, WorkTyped
<1>3. sends'[m] = sends[m] + 1 /\ \A d \in Msgs \ {m} : sends'[d] = sends[d]
  BY <1>1, <1>2
<1>4. /\ worker'[m] \in {"accepted", "refused"}
      /\ \A d \in Msgs \ {m} : worker'[d] = worker[d]
  BY <1>1, StepOfRow DEF WorkSteps
<1>5. Acted(m)' = 1 /\ Acted(m) = 0
  BY <1>1, <1>4 DEF Acted
<1>6. sends'[m] + execute'[m] - Acted(m)' <= sends[m] + execute[m] - Acted(m)
  BY <1>1, <1>3, <1>5, Amounts
<1>7. sends'[m] \in Nat /\ execute'[m] \in Nat
  BY <1>1, <1>3, Amounts
<1>8. QED
  BY <1>1, <1>3, <1>4, <1>5, <1>6, <1>7, OneWorked

(* Its refusal and its record are no more of them.                         *)
LEMMA RefuseRecordSends ==
    ASSUME TInv, SInv, NEW m \in Msgs, Refuse(m) \/ Record(m)
    PROVE  SInv'
<1>1. /\ UNCHANGED <<sends, execute, published, redelivered>>
      /\ Step(m, "refused") \/ Step(m, "recorded")
  BY DEF Refuse, Record, service, bounds
<1>2. /\ worker'[m] \in {"recorded", "refused"}
      /\ \A d \in Msgs \ {m} : worker'[d] = worker[d]
  BY <1>1, StepOfRow DEF WorkSteps
<1>3. Acted(m)' = 1
  BY <1>2 DEF Acted
<1>4. sends'[m] + execute'[m] - Acted(m)' <= sends[m] + execute[m] - Acted(m)
  <2>1. sends'[m] = sends[m] /\ execute'[m] = execute[m]
    BY <1>1
  <2>2. PICK a \in Nat : a = Acted(m) /\ a <= 1
    BY ActedIs, Zenon
  <2>3. sends[m] + execute[m] - 1 <= sends[m] + execute[m] - a
    BY <2>2, Amounts, Sums
  <2>4. QED
    BY <1>3, <2>1, <2>2, <2>3
<1>5. sends'[m] \in Nat /\ execute'[m] \in Nat
  BY <1>1, Amounts
<1>6. QED
  BY <1>1, <1>2, <1>3, <1>4, <1>5, OneWorked

(* With its status told, its event is done with.                           *)
LEMMA TellSends ==
    ASSUME TInv, SInv, NEW m \in Msgs, Tell(m)
    PROVE  SInv'
<1>1. /\ worker[m] \in {"recorded", "refused"} /\ Consumed(m)
      /\ UNCHANGED <<sends, published, redelivered>>
  BY DEF Tell, service
<1>2. execute[m] > 0
  BY <1>1, AtWork, Amounts
<1>3. /\ worker'[m] = "idle" /\ execute'[m] = execute[m] - 1 /\ execute'[m] \in Nat
      /\ \A d \in Msgs \ {m} : worker'[d] = worker[d] /\ execute'[d] = execute[d]
  BY <1>1, <1>2, ConsumedOfRow
<1>4. Acted(m)' = 0 /\ Acted(m) = 1
  BY <1>1, <1>3 DEF Acted
<1>5. sends'[m] + execute'[m] - Acted(m)' <= sends[m] + execute[m] - Acted(m)
  BY <1>1, <1>3, <1>4, Amounts
<1>6. QED
  BY <1>1, <1>3, <1>4, <1>5, Amounts, OneWorked

(* After a crash an event that was at work is at work again.               *)
LEMMA CrashSends ==
    ASSUME TInv, SInv, WhatsAppServiceCrash
    PROVE  SInv'
<1>1. PICK busy : busy = {m \in Msgs : worker[m] # "idle"}
  OBVIOUS
<1>2. /\ worker' = [m \in Msgs |-> "idle"]
      /\ redelivered' = [m \in Msgs |-> redelivered[m] + IF m \in busy THEN 1 ELSE 0]
      /\ UNCHANGED <<sends, execute, published>>
  BY <1>1 DEF WhatsAppServiceCrash, service
<1> SUFFICES ASSUME NEW m \in Msgs PROVE Within(m)'
  BY DEF SInv
<1>3. PICK n \in Nat : n = IF m \in busy THEN 1 ELSE 0
  OBVIOUS
<1>4. redelivered'[m] = redelivered[m] + n /\ worker'[m] = "idle"
  BY <1>2, <1>3
<1>5. Acted(m)' = 0
  BY <1>4 DEF Acted
<1>6. Within(m) /\ sends'[m] = sends[m] /\ execute'[m] = execute[m]
         /\ published'[m] = published[m]
  BY <1>2 DEF SInv
<1>7. PICK a \in Nat : a = Acted(m) /\ a <= n
  <2>1. PICK a \in Nat : a = Acted(m) /\ a <= 1
    BY ActedIs, Zenon
  <2>2. a <= n
    BY <1>1, <1>3, <2>1 DEF Acted
  <2>3. QED
    BY <2>1, <2>2
<1>8. sends[m] + execute[m] - a <= published[m] + redelivered[m]
  BY <1>6, <1>7 DEF Within
<1>9. sends[m] + execute[m] - 0 <= published[m] + (redelivered[m] + n)
  BY <1>5, <1>7, <1>8, Amounts, Sums
<1>10. QED
  BY <1>4, <1>5, <1>6, <1>9 DEF Within

(* Every step keeps to what was asked for.                                 *)
LEMMA NextSends == ASSUME TInv, SInv, [Next]_vars PROVE SInv'
<1>1. ASSUME NEW r \in Requests, Reject(r) \/ Operate(r)
      PROVE  SInv'
  <2>1. CASE Publish(r)
    BY <2>1, PublishSends
  <2>2. CASE UNCHANGED <<whatsapp, published, bounds>>
    BY <2>2, SameSends DEF whatsapp, bounds
  <2>3. QED
    BY <1>1, <2>1, <2>2, Zenon
    DEF Operate, Reject, InsertRows, MarkRunning, Pause, FindPending, TallyFailed, Conclude,
        FailRows, Cancel, SelectFailed, ResetRows, Rerun
<1>2. ASSUME NEW m \in Msgs, Work(m)
      PROVE  SInv'
  BY <1>2, DispatchSends, AcceptSends, RefuseRecordSends, TellSends, Zenon DEF Work
<1>3. ASSUME NEW r \in Requests, NEW name \in Ops, Request(r, name)
      PROVE  SInv'
  BY <1>3, SameSends DEF Request, whatsapp
<1>4. ASSUME NEW id \in MetaIds, NEW s \in RowStatuses, Webhook(id, s)
      PROVE  SInv'
  BY <1>4, SameSends DEF Webhook, service
<1>5. ASSUME NEW k \in TopicKeys, Consume(k) \/ HandlerError(k)
      PROVE  SInv'
  <2>1. UNCHANGED <<sends, execute, worker, published, redelivered>>
    BY <1>5 DEF Consume, ReadRow, WriteRow, WriteCounters, Reload, Finalise, HandlerError,
                whatsapp, bounds
  <2>2. QED
    BY <2>1, SameSends
<1>6. CASE CampaignServiceCrash
  BY <1>6, SameSends DEF CampaignServiceCrash, whatsapp
<1>7. CASE UNCHANGED vars
  BY <1>7, SameSends DEF vars
<1>8. QED
  BY <1>1, <1>2, <1>3, <1>4, <1>5, <1>6, <1>7, CrashSends, Zenon DEF Next

(* At the start nothing has been sent.                                     *)
LEMMA InitSends == Init => SInv
<1> SUFFICES ASSUME Init, NEW m \in Msgs PROVE Within(m)
  BY DEF SInv
<1>1. /\ sends[m] = 0 /\ execute[m] = 0 /\ published[m] = 0 /\ redelivered[m] = 0
      /\ worker[m] = "idle"
  BY DEF Init
<1>2. QED
  BY <1>1 DEF Within, Acted

(* Every message Meta accepted was asked for: by an event of               *)
(* campaign.execute, or by one delivered again after a crash of            *)
(* whatsapp-service (the consumer of campaign.execute).                    *)
THEOREM SendsAsPublished == Spec => []SendsWithinPublications
<1>1. ASSUME TInv, SInv
      PROVE  SendsWithinPublications
  <2> SUFFICES ASSUME NEW m \in Msgs
               PROVE  sends[m] <= published[m] + redelivered[m]
    BY DEF SendsWithinPublications
  <2>1. PICK a \in Nat : a = Acted(m)
    BY ActedIs, Zenon
  <2>2. a <= execute[m]
    BY <1>1, <2>1, Amounts, AtWork DEF Acted
  <2>3. sends[m] + execute[m] - a <= published[m] + redelivered[m]
    BY <1>1, <2>1 DEF SInv, Within
  <2>4. QED
    BY <1>1, <2>2, <2>3, Amounts, Sums
<1>2. QED
  BY <1>1, InitSends, NextSends, AlwaysTyped, PTL DEF Spec

-----------------------------------------------------------------------------
(* Requests made one at a time: the cancelled campaign.                    *)

(* At most one request is in flight.                                       *)
OneRequestAtATime == \A r, d \in Requests : r = d

(* The request that cancelled the campaign is over, and none is accepted.  *)
CancelInv == status = "cancelled" => \A r \in Requests : op[r].pc = "idle"

(* A request that is over is idle.                                         *)
LEMMA FinishIdles ==
    ASSUME TInv, NEW r \in Requests, Finish(r)
    PROVE  op'[r].pc = "idle"
BY IdleTypes DEF Finish, TInv, OpsTyped

(* No request is accepted for a cancelled campaign.                        *)
LEMMA NoneAccepted == \A name \in Ops : "cancelled" \notin Accepts(name)
BY OpsAssumption DEF Accepts

(* Only its request touches it, and only cancelCampaign cancels.           *)
LEMMA OperateCancels ==
    ASSUME OneRequestAtATime, TInv, CancelInv, NEW r \in Requests, Reject(r) \/ Operate(r)
    PROVE  /\ CancelInv'
           /\ status = "cancelled" => status' = "cancelled"
<1>1. op[r].pc # "idle"
  BY DEF Reject, Operate, InsertRows, MarkRunning, Publish, Pause, FindPending, TallyFailed,
         Conclude, FailRows, Cancel, SelectFailed, ResetRows, Rerun
<1>2. status # "cancelled"
  BY <1>1 DEF CancelInv
<1>3. CASE Cancel(r)
  <2>1. op'[r].pc = "idle"
    BY <1>3, FinishIdles DEF Cancel
  <2>2. \A d \in Requests : op'[d].pc = "idle"
    BY <2>1 DEF OneRequestAtATime
  <2>3. QED
    BY <1>2, <2>2 DEF CancelInv
<1>4. CASE ~Cancel(r)
  <2>1. status' \in {status, "running", "paused", "failed", "completed"}
    BY <1>4 DEF Reject, Operate, InsertRows, MarkRunning, Publish, Pause, FindPending,
         TallyFailed, Conclude, FailRows, SelectFailed, ResetRows, Rerun
  <2>2. QED
    BY <1>2, <2>1 DEF CancelInv
<1>5. QED
  BY <1>3, <1>4

(* A step of the rest of the system leaves the requests alone.             *)
LEMMA OthersCancel ==
    ASSUME CancelInv, op' = op, status' = status \/ status # "cancelled",
           status' \in {status, "failed", "completed"}
    PROVE  /\ CancelInv'
           /\ status = "cancelled" => status' = "cancelled"
BY DEF CancelInv

(* No step of the system reopens it.                                       *)
LEMMA NextCancels ==
    ASSUME OneRequestAtATime, TInv, CancelInv, [Next]_vars
    PROVE  /\ CancelInv'
           /\ status = "cancelled" => status' = "cancelled"
<1>1. ASSUME NEW r \in Requests, NEW name \in Ops, Request(r, name)
      PROVE  CancelInv' /\ status' = status
  <2>1. status \in Accepts(name) /\ status' = status
    BY <1>1 DEF Request
  <2>2. QED
    BY <2>1, NoneAccepted DEF CancelInv
<1>2. ASSUME NEW m \in Msgs, Work(m)
      PROVE  op' = op /\ status' = status
  BY <1>2 DEF Work, Dispatch, Accept, Refuse, Record, Tell, service
<1>3. ASSUME NEW id \in MetaIds, NEW s \in RowStatuses, Webhook(id, s)
      PROVE  op' = op /\ status' = status
  BY <1>3 DEF Webhook, service
<1>4. ASSUME NEW k \in TopicKeys, Consume(k) \/ HandlerError(k)
      PROVE  /\ op' = op
             /\ status' = status \/ status # "cancelled"
             /\ status' \in {status, "failed", "completed"}
  BY <1>4 DEF Consume, ReadRow, WriteRow, WriteCounters, Reload, Finalise, HandlerError,
              MayFinalise
<1>5. CASE CampaignServiceCrash
  <2>1. status' = status /\ \A r \in Requests : op'[r].pc = "idle"
    BY <1>5, IdleTypes DEF CampaignServiceCrash
  <2>2. QED
    BY <2>1 DEF CancelInv
<1>6. CASE WhatsAppServiceCrash
  BY <1>6, OthersCancel DEF WhatsAppServiceCrash, service
<1>7. CASE UNCHANGED vars
  BY <1>7, OthersCancel DEF vars
<1>8. QED
  BY <1>1, <1>2, <1>3, <1>4, <1>5, <1>6, <1>7, OperateCancels, OthersCancel, Zenon DEF Next

(* With requests made one at a time, a cancelled campaign stays cancelled  *)
(* whatever status events still arrive for it (cancelCampaign and the      *)
(* conditional update at the end of processStatusUpdate).                  *)
THEOREM CancelledStays == ASSUME OneRequestAtATime PROVE Spec => CancelledIsFinal
<1>1. Init => CancelInv
  BY DEF Init, CancelInv
<1>2. ASSUME TInv, CancelInv, [Next]_vars
      PROVE  CancelInv'
  BY <1>2, NextCancels
<1>3. ASSUME TInv, CancelInv, [Next]_vars
      PROVE  [status = "cancelled" => status' = "cancelled"]_vars
  BY <1>3, NextCancels
<1>4. QED
  BY <1>1, <1>2, <1>3, AlwaysTyped, PTL DEF Spec, CancelledIsFinal

-----------------------------------------------------------------------------
(* One request at a time, which starts or pauses the campaign, and nothing *)
(* goes wrong in campaign-service: the counters and the rows.  What        *)
(* whatsapp-service, Kafka's producers and the answers of Meta do wrong is *)
(* allowed.  Meta does not report both that a message was read and that it *)
(* failed.                                                                 *)
PlainDelivery ==
    /\ OneRequestAtATime
    /\ Ops \subseteq {"start", "pause"}
    /\ Faults \subseteq {"worker_crash", "publish", "lost_answer"}
    /\ \A outcome \in Outcomes : ~({"read", "failed"} \subseteq outcome)

Reportable == {"sent", "delivered", "read", "failed"}

(* s waits to be handled under k.                                          *)
Waits(k, s) == \E i \in 1 .. Len(topic[k]) : topic[k][i] = s

(* What Meta says, or said, of one acceptance.                             *)
Reports(id, s) == \/ s \in due[id]
                  \/ Waits(id, s)
                  \/ (row[id[1]].meta = id /\ row[id[1]].status = s)

(* Nothing is said of an acceptance that has not happened.                 *)
Silent(id) == /\ due[id] = {} /\ topic[id] = <<>> /\ id \notin recorded
              /\ row[id[1]].meta # id

SaidInv == /\ \A id \in MetaIds : due[id] \subseteq Reportable
           /\ \A k \in TopicKeys, s \in RowStatuses :
                 Waits(k, s) => /\ s \in Reportable \union {"queued"}
                                /\ k[2] = 0 => s = "failed"
           /\ \A id \in MetaIds : id[2] > sends[id[1]] => Silent(id)
           /\ \A id \in MetaIds : ~(Reports(id, "read") /\ Reports(id, "failed"))

(* The worker told the outcome of a row's event under this key.            *)
Live(k) == \/ k[2] = 0 /\ topic[k] # <<>>
           \/ k[2] = 0 /\ row[k[1]].status = "failed" /\ row[k[1]].meta = None
           \/ k[2] # 0 /\ (Waits(k, "queued") \/ row[k[1]].meta = k)
           \/ handler[k].pc # "idle"

(* It told it once, when it was done with the event.                       *)
ToldInv == /\ \A m \in Msgs : published[m] <= 1 /\ execute[m] <= published[m]
           /\ \A k \in TopicKeys :
                 Live(k) => execute[k[1]] = 0 /\ published[k[1]] = 1
           /\ \A k, l \in TopicKeys : Live(k) /\ Live(l) /\ k[1] = l[1] => k = l

RowInv == \A m \in Msgs : /\ row[m].meta # None => row[m].meta[1] = m
                          /\ row[m].status = "read" => row[m].meta # None
                          /\ m[2] > starts => row[m].status = "absent"

(* An update that is not ignored.                                          *)
Moves(p, s) == /\ p \in RowStatuses \ {"failed"}
               /\ \/ s = "failed" /\ p # "read"
                  \/ s # "failed" /\ (Rank(s) > Rank(p) \/ (p = "queued" /\ s = "queued"))

HandledInv ==
    \A k \in TopicKeys :
        LET h == handler[k]
            s == Head(topic[k])
            seen == row[k[1]]
        IN  /\ h.pc = "write" => /\ h.prev = seen.status /\ Moves(h.prev, s)
                                 /\ h.fresh <=> (k[2] # 0 /\ seen.meta = None)
                                 /\ k[2] = 0 \/ seen.meta \in {None, k}
            /\ h.pc = "count" => seen.status = s /\ Moves(h.prev, s)

LifeInv ==
    /\ status # "scheduled"
    /\ status = "draft" => /\ \A x \in Counters : counts[x] = 0
                           /\ \A m \in Msgs : /\ row[m].status \in {"absent", "pending"}
                                              /\ published[m] = 0
                           /\ (\A r \in Requests : op[r].pc # "mark") => starts = 0
    /\ \A r \in Requests :
          /\ op[r].pc \in {"idle", "insert", "mark", "publish", "pause"}
          /\ op[r].pc \in {"insert", "mark"} => status = "draft" /\ op[r].pending = 0
          /\ op[r].pc \in {"publish", "pause"} => status # "draft"
          /\ op[r].pc = "mark" => op[r].rows = RowsIn({"pending"})
          /\ op[r].pc = "publish" => \A m \in Msgs : published[m] = 0

(* The rows as the counters have them: an update that has not been counted *)
(* does not show.                                                          *)
Updating(m) == \E k \in UnderWay : k[1] = m
SeenIn(statuses) ==
    {m \in Msgs : \/ ~Updating(m) /\ row[m].status \in statuses
                  \/ \E k \in UnderWay : (k[1] = m /\ handler[k].prev \in statuses)}
Class(x) == IF x = "pending" THEN Unresolved ELSE {x}

CountInv == status # "draft" => \A x \in Counters : counts[x] = Cardinality(SeenIn(Class(x)))

DInv == SaidInv /\ ToldInv /\ RowInv /\ HandledInv /\ LifeInv /\ CountInv /\ OverMeansResolved

(* What is said of one row.                                                *)

(* A status that is published waits behind the others.                     *)
LEMMA SendWaits ==
    ASSUME TInv, NEW k \in TopicKeys, NEW s \in RowStatuses, Send(k, s)
    PROVE  /\ \A l \in TopicKeys, t \in RowStatuses :
                 Waits(l, t)' <=> Waits(l, t) \/ (l = k /\ t = s)
           /\ \A l \in TopicKeys : l # k => topic'[l] = topic[l]
           /\ topic'[k] # <<>>
           /\ topic[k] # <<>> => Head(topic'[k]) = Head(topic[k])
<1>1. PICK queue : queue = Append(topic[k], s)
  OBVIOUS
<1>2. topic \in [TopicKeys -> Seq(RowStatuses)] /\ topic[k] \in Seq(RowStatuses)
  BY DEF TInv, StatusTyped
<1>3. topic' = [topic EXCEPT ![k] = queue]
  BY <1>1 DEF Send
<1>4. \A l \in TopicKeys : topic'[l] = IF l = k THEN queue ELSE topic[l]
  BY <1>2, <1>3
<1>5. /\ Len(queue) = Len(topic[k]) + 1 /\ Len(topic[k]) \in Nat
      /\ queue[Len(topic[k]) + 1] = s
      /\ \A i \in 1 .. Len(topic[k]) : queue[i] = topic[k][i]
      /\ queue # <<>>
      /\ topic[k] # <<>> => Head(queue) = Head(topic[k])
  BY <1>1, <1>2
<1>6. ASSUME NEW t \in RowStatuses
      PROVE  Waits(k, t)' <=> Waits(k, t) \/ t = s
  <2>1. topic'[k] = queue
    BY <1>4
  <2>2. \A i : i \in 1 .. Len(queue) <=> i \in 1 .. Len(topic[k]) \/ i = Len(topic[k]) + 1
    BY <1>5
  <2>3. (\E i \in 1 .. Len(queue) : queue[i] = t)
        <=> (\E i \in 1 .. Len(topic[k]) : topic[k][i] = t) \/ t = s
    BY <1>5, <2>2
  <2>4. QED
    BY <2>1, <2>3 DEF Waits
<1>7. \A l \in TopicKeys, t \in RowStatuses : l # k => (Waits(l, t)' <=> Waits(l, t))
  BY <1>4 DEF Waits
<1>8. QED
  BY <1>4, <1>5, <1>6, <1>7

(* A status that is done with waits no longer.                             *)
LEMMA DoneWaits ==
    ASSUME TInv, NEW k \in TopicKeys, Done(k), topic[k] # <<>>
    PROVE  /\ \A l \in TopicKeys, t \in RowStatuses : Waits(l, t)' => Waits(l, t)
           /\ \A l \in TopicKeys : l # k => topic'[l] = topic[l] /\ handler'[l] = handler[l]
           /\ handler'[k].pc = "idle"
<1>1. PICK rest : rest = Tail(topic[k])
  OBVIOUS
<1>2. /\ topic \in [TopicKeys -> Seq(RowStatuses)] /\ topic[k] \in Seq(RowStatuses)
      /\ handler \in [TopicKeys -> Handler]
  BY DEF TInv, StatusTyped
<1>3. topic' = [topic EXCEPT ![k] = rest]
  BY <1>1 DEF Done
<1>4. \A l \in TopicKeys : topic'[l] = IF l = k THEN rest ELSE topic[l]
  BY <1>2, <1>3
<1>5. /\ Len(rest) = Len(topic[k]) - 1 /\ Len(topic[k]) \in Nat
      /\ \A i \in 1 .. Len(rest) : rest[i] = topic[k][i + 1]
  BY <1>1, <1>2
<1>6. \A t \in RowStatuses : Waits(k, t)' => Waits(k, t)
  <2>1. topic'[k] = rest
    BY <1>4
  <2>2. \A i \in 1 .. Len(rest) : i + 1 \in 1 .. Len(topic[k])
    BY <1>5
  <2>3. \A t : (\E i \in 1 .. Len(rest) : rest[i] = t)
               => (\E i \in 1 .. Len(topic[k]) : topic[k][i] = t)
    BY <1>5, <2>2
  <2>4. QED
    BY <2>1, <2>3 DEF Waits
<1>7. \A l \in TopicKeys, t \in RowStatuses : l # k => (Waits(l, t)' => Waits(l, t))
  BY <1>4 DEF Waits
<1>8. /\ \A l \in TopicKeys : l # k => handler'[l] = handler[l]
      /\ handler'[k].pc = "idle"
  BY <1>2, IdleTypes DEF Done
<1>9. QED
  BY <1>4, <1>6, <1>7, <1>8

(* The next status to be handled waits.                                    *)
LEMMA HeadWaits ==
    ASSUME TInv, NEW k \in TopicKeys, topic[k] # <<>>
    PROVE  Waits(k, Head(topic[k]))
<1>1. topic[k] \in Seq(RowStatuses)
  BY DEF TInv, StatusTyped
<1>2. 1 \in 1 .. Len(topic[k]) /\ topic[k][1] = Head(topic[k])
  BY <1>1
<1>3. QED
  BY <1>2 DEF Waits

(* What is said grows only by what Meta reports.                           *)
LEMMA SaidLess ==
    ASSUME TInv, SaidInv,
           \A id \in MetaIds : due'[id] \subseteq due[id],
           \A k \in TopicKeys, s \in RowStatuses : Waits(k, s)' => Waits(k, s),
           \A k \in TopicKeys : topic[k] = <<>> => topic'[k] = <<>>,
           \A id \in MetaIds : row'[id[1]].meta = id =>
              /\ row[id[1]].meta = id \/ topic[id] # <<>>
              /\ Reports(id, row'[id[1]].status) \/ row'[id[1]].status \notin {"read", "failed"},
           sends' = sends, recorded' = recorded
    PROVE  SaidInv'
<1>1. \A id \in MetaIds : id \in TopicKeys
  BY Keys
<1>2. \A id \in MetaIds : due'[id] \subseteq Reportable
  BY DEF SaidInv
<1>3. \A k \in TopicKeys, s \in RowStatuses :
         Waits(k, s)' => /\ s \in Reportable \union {"queued"}
                         /\ k[2] = 0 => s = "failed"
  BY DEF SaidInv
<1>4. ASSUME NEW id \in MetaIds, id[2] > sends'[id[1]]
      PROVE  Silent(id)'
  <2>1. Silent(id)
    BY <1>4 DEF SaidInv
  <2>2. QED
    BY <1>1, <2>1 DEF Silent
<1>5. ASSUME NEW id \in MetaIds, NEW s \in {"read", "failed"}, Reports(id, s)'
      PROVE  Reports(id, s)
  <2>1. s \in RowStatuses
    BY DEF RowStatuses
  <2>2. QED
    BY <1>1, <1>5, <2>1 DEF Reports
<1>6. QED
  BY <1>2, <1>3, <1>4, <1>5 DEF SaidInv

(* Nothing that SaidInv is about changes.                                  *)
LEMMA SaidSame ==
    ASSUME TInv, SaidInv, UNCHANGED <<due, topic, row, sends, recorded>>
    PROVE  SaidInv'
<1>1. \A k \in TopicKeys, s \in RowStatuses : Waits(k, s)' => Waits(k, s)
  BY DEF Waits
<1>2. \A id \in MetaIds : row'[id[1]].meta = id => Reports(id, row'[id[1]].status)
  BY DEF Reports
<1>3. QED
  BY <1>1, <1>2, SaidLess

(* What is said is published, once Meta reports it.                        *)
LEMMA SaidSend ==
    ASSUME TInv, SaidInv, NEW k \in TopicKeys, NEW s \in RowStatuses, Send(k, s),
           \A id \in MetaIds : due'[id] \subseteq due[id],
           s \in Reportable \union {"queued"},
           k[2] = 0 => s = "failed",
           k[2] # 0 => (s = "queued" \/ Reports(k, s)) /\ k[2] <= sends[k[1]],
           UNCHANGED <<row, sends, recorded>>
    PROVE  SaidInv'
<1>1. /\ \A l \in TopicKeys, t \in RowStatuses : Waits(l, t)' <=> Waits(l, t) \/ (l = k /\ t = s)
      /\ \A l \in TopicKeys : l # k => topic'[l] = topic[l]
  BY SendWaits
<1>2. \A id \in MetaIds : id \in TopicKeys
  BY Keys
<1>3. \A id \in MetaIds : due'[id] \subseteq Reportable
  BY DEF SaidInv
<1>4. \A l \in TopicKeys, t \in RowStatuses :
         Waits(l, t)' => /\ t \in Reportable \union {"queued"}
                         /\ l[2] = 0 => t = "failed"
  BY <1>1 DEF SaidInv
<1>5. ASSUME NEW id \in MetaIds, id[2] > sends'[id[1]]
      PROVE  Silent(id)'
  <2>1. Silent(id)
    BY <1>5 DEF SaidInv
  <2>2. id # k
    <3>1. id[2] \in 1 .. MaxSends /\ sends[id[1]] \in 0 .. MaxSends
      BY Keys DEF MetaIds, TInv, WorkTyped
    <3>2. ~(id[2] <= sends[id[1]]) /\ id[2] # 0
      BY <1>5, <3>1, BoundsAre
    <3>3. QED
      BY <3>2
  <2>3. QED
    BY <1>1, <1>2, <2>1, <2>2 DEF Silent
<1>6. ASSUME NEW id \in MetaIds, NEW t \in {"read", "failed"}, Reports(id, t)'
      PROVE  Reports(id, t)
  <2>1. t \in RowStatuses /\ t # "queued"
    BY DEF RowStatuses
  <2>2. id[2] # 0
    BY BoundsAre DEF MetaIds
  <2>3. QED
    BY <1>1, <1>2, <1>6, <2>1, <2>2 DEF Reports
<1>7. QED
  BY <1>3, <1>4, <1>5, <1>6 DEF SaidInv

(* Meta takes a message and will report on it.                             *)
LEMMA AcceptSaid ==
    ASSUME PlainDelivery, TInv, SaidInv, NEW m \in Msgs, Accept(m)
    PROVE  SaidInv'
<1>1. PICK n : n = sends[m] + 1
  OBVIOUS
<1>2. PICK new : new = <<m, n>>
  OBVIOUS
<1>3. PICK outcome \in Outcomes : due' = [due EXCEPT ![new] = outcome]
  BY <1>1, <1>2 DEF Accept
<1>4. sends[m] \in 0 .. MaxSends /\ sends[m] < MaxSends /\ sends' = [sends EXCEPT ![m] = n]
  BY <1>1 DEF Accept, TInv, WorkTyped
<1>5. n \in 1 .. MaxSends /\ n > sends[m] /\ new \in MetaIds /\ new[1] = m /\ new[2] = n
  BY <1>1, <1>2, <1>4, BoundsAre DEF MetaIds
<1>6. UNCHANGED <<row, topic, recorded>>
  BY DEF Accept, service
<1>7. outcome \subseteq Reportable /\ ~({"read", "failed"} \subseteq outcome)
  BY OutcomeAssumption DEF PlainDelivery, Reportable
<1>8. \A id \in MetaIds : due'[id] = IF id = new THEN outcome ELSE due[id]
  BY <1>3 DEF TInv, WorkTyped
<1>9. Silent(new)
  BY <1>5 DEF SaidInv
<1>10. \A id \in MetaIds : due'[id] \subseteq Reportable
  BY <1>7, <1>8 DEF SaidInv
<1>11. \A k \in TopicKeys, s \in RowStatuses :
          Waits(k, s)' => /\ s \in Reportable \union {"queued"}
                          /\ k[2] = 0 => s = "failed"
  BY <1>6 DEF SaidInv, Waits
<1>12. ASSUME NEW id \in MetaIds, id[2] > sends'[id[1]]
       PROVE  Silent(id)'
  <2>1. /\ id[1] \in Msgs /\ sends[id[1]] \in Int /\ id[2] \in Int
        /\ \A d \in Msgs : sends'[d] = IF d = m THEN n ELSE sends[d]
    BY <1>4, Keys, BoundsAre DEF MetaIds, TInv, WorkTyped
  <2>2. id[2] > sends[id[1]] /\ id # new
    BY <1>1, <1>4, <1>5, <1>12, <2>1
  <2>3. Silent(id)
    BY <2>2 DEF SaidInv
  <2>4. QED
    BY <1>6, <1>8, <2>2, <2>3 DEF Silent
<1>13. ASSUME NEW id \in MetaIds
       PROVE  ~(Reports(id, "read")' /\ Reports(id, "failed")')
  <2>1. CASE id = new
    <3>1. topic'[id] = <<>> /\ row'[id[1]].meta # id /\ due'[id] = outcome
      BY <1>6, <1>8, <1>9, <2>1 DEF Silent
    <3>2. \A s : ~Waits(id, s)'
      BY <3>1 DEF Waits
    <3>3. QED
      BY <1>7, <3>1, <3>2 DEF Reports
  <2>2. CASE id # new
    <3>1. \A s : Reports(id, s)' => Reports(id, s)
      BY <1>6, <1>8, <2>2 DEF Reports, Waits
    <3>2. QED
      BY <3>1 DEF SaidInv
  <2>3. QED
    BY <2>1, <2>2
<1>14. QED
  BY <1>10, <1>11, <1>12, <1>13 DEF SaidInv

(* Its id is stored.                                                       *)
LEMMA RecordSaid ==
    ASSUME TInv, SaidInv, NEW m \in Msgs, Record(m)
    PROVE  SaidInv'
<1>1. /\ recorded' \in {recorded, recorded \union {<<m, sends[m]>>}}
      /\ UNCHANGED <<row, topic, due, sends>>
  BY DEF Record, service
<1>2. ASSUME NEW id \in MetaIds, id[2] > sends'[id[1]]
      PROVE  Silent(id)'
  <2>1. Silent(id)
    BY <1>1, <1>2 DEF SaidInv
  <2>2. id # <<m, sends[m]>>
    <3> SUFFICES ASSUME id = <<m, sends[m]>> PROVE FALSE
      OBVIOUS
    <3>1. id[1] = m /\ id[2] = sends[m] /\ sends[m] \in Int
      BY BoundsAre DEF TInv, WorkTyped
    <3>2. QED
      BY <1>1, <1>2, <3>1
  <2>3. QED
    BY <1>1, <2>1, <2>2 DEF Silent
<1>3. \A id \in MetaIds : \A s : Reports(id, s)' <=> Reports(id, s)
  BY <1>1 DEF Reports, Waits
<1>4. \A k \in TopicKeys : \A s : Waits(k, s)' <=> Waits(k, s)
  BY <1>1 DEF Waits
<1>5. QED
  BY <1>1, <1>2, <1>3, <1>4 DEF SaidInv

(* The outcome is told.                                                    *)
LEMMA TellSaid ==
    ASSUME TInv, SaidInv, NEW m \in Msgs, Tell(m)
    PROVE  SaidInv'
<1>1. UNCHANGED <<row, due, sends, recorded>>
  BY DEF Tell, service
<1>2. CASE topic' = topic
  BY <1>1, <1>2, SaidSame
<1>3. CASE worker[m] = "recorded" /\ Send(<<m, sends[m]>>, "queued")
  <2>1. PICK k : k = <<m, sends[m]>>
    OBVIOUS
  <2>2. sends[m] \in 0 .. MaxSends /\ sends[m] > 0
    BY <1>3, WorkFacts
  <2>3. k \in TopicKeys /\ k[1] = m /\ k[2] = sends[m] /\ k[2] # 0 /\ k[2] <= sends[m]
    BY <2>1, <2>2, Keys, BoundsAre
  <2>4. "queued" \in RowStatuses
    BY DEF RowStatuses, Unresolved
  <2>5. QED
    BY <1>1, <1>3, <2>1, <2>3, <2>4, SaidSend
<1>4. CASE Send(<<m, 0>>, "failed")
  <2>1. PICK k : k = <<m, 0>>
    OBVIOUS
  <2>2. k \in TopicKeys /\ k[2] = 0
    BY <2>1, Keys
  <2>3. "failed" \in RowStatuses /\ "failed" \in Reportable
    BY DEF RowStatuses, Reportable
  <2>4. QED
    BY <1>1, <1>4, <2>1, <2>2, <2>3, SaidSend
<1>5. QED
  BY <1>2, <1>3, <1>4 DEF Tell

(* Meta reports.                                                           *)
LEMMA WebhookSaid ==
    ASSUME TInv, SaidInv, NEW id \in MetaIds, NEW s \in RowStatuses, Webhook(id, s)
    PROVE  SaidInv'
<1>1. /\ s \in due[id] /\ UNCHANGED <<row, sends, recorded>>
      /\ due' = [due EXCEPT ![id] = @ \ {s}] \/ due' = due
      /\ (Send(id, s) /\ id \in recorded) \/ topic' = topic
  BY DEF Webhook, service
<1>2. \A d \in MetaIds : due'[d] \subseteq due[d]
  BY <1>1 DEF TInv, WorkTyped
<1>3. CASE topic' = topic
  <2>1. \A k \in TopicKeys, t \in RowStatuses : Waits(k, t)' => Waits(k, t)
    BY <1>3 DEF Waits
  <2>2. \A d \in MetaIds : row'[d[1]].meta = d => Reports(d, row'[d[1]].status)
    BY <1>1 DEF Reports
  <2>3. QED
    BY <1>1, <1>2, <1>3, <2>1, <2>2, SaidLess
<1>4. CASE Send(id, s) /\ id \in recorded
  <2>1. id \in TopicKeys /\ id[2] # 0 /\ id[2] \in Int /\ sends[id[1]] \in Int
    BY Keys, BoundsAre DEF MetaIds, TInv, WorkTyped
  <2>2. ~(id[2] > sends[id[1]])
    BY <1>4 DEF SaidInv, Silent
  <2>3. id[2] <= sends[id[1]]
    BY <2>1, <2>2
  <2>4. s \in Reportable /\ Reports(id, s)
    BY <1>1 DEF SaidInv, Reports
  <2>5. QED
    BY <1>1, <1>2, <1>4, <2>1, <2>3, <2>4, SaidSend
<1>5. QED
  BY <1>1, <1>3, <1>4

(* A handler that goes on leaves the topic alone.                          *)
LEMMA AdvanceOne ==
    ASSUME TInv, NEW k \in TopicKeys, NEW h, Advance(k, h)
    PROVE  /\ topic' = topic /\ handler'[k] = h
           /\ \A l \in TopicKeys : l # k => handler'[l] = handler[l]
BY DEF Advance, TInv, StatusTyped

(* A handler at work has a status before it.                               *)
LEMMA HandlerHas ==
    ASSUME TInv, NEW k \in TopicKeys, handler[k].pc # "idle"
    PROVE  /\ topic[k] # <<>> /\ Present(k[1])
           /\ Head(topic[k]) \in RowStatuses /\ Waits(k, Head(topic[k]))
BY KeyFacts, HeadWaits DEF Heard

(* A row is written under its key.                                         *)
LEMMA WriteRowOne ==
    ASSUME TInv, HandledInv, NEW k \in TopicKeys, WriteRow(k)
    PROVE  /\ handler[k].pc = "write" /\ k[1] \in Msgs
           /\ row'[k[1]].status = Head(topic[k])
           /\ row'[k[1]].meta = IF handler[k].fresh THEN k ELSE row[k[1]].meta
           /\ row'[k[1]].retries = row[k[1]].retries
           /\ \A d \in Msgs : d # k[1] => row'[d] = row[d]
           /\ handler'[k].pc = "count" /\ handler'[k].prev = handler[k].prev
           /\ topic' = topic
           /\ \A l \in TopicKeys : l # k => handler'[l] = handler[l]
<1>1. handler[k].pc = "write"
  BY DEF WriteRow
<1>2. PICK m \in Msgs : m = k[1]
  BY Keys
<1>3. handler[k].prev = row[m].status
  BY <1>1, <1>2 DEF HandledInv
<1>4. Assigned(handler[k].prev, row[m].status, Head(topic[k])) = Head(topic[k])
  BY <1>3 DEF Assigned
<1>5. PICK s : s = Assigned(handler[k].prev, row[m].status, Head(topic[k]))
  OBVIOUS
<1>6. PICK id : id = IF handler[k].fresh THEN k ELSE row[m].meta
  OBVIOUS
<1>7. PICK new : new = [row[m] EXCEPT !.status = s, !.meta = id]
  OBVIOUS
<1>8. row[m] \in Row
  BY DEF TInv, RowsTyped
<1>9. new.status = s /\ new.meta = id /\ new.retries = row[m].retries
  BY <1>7, <1>8 DEF Row
<1>10. row' = [row EXCEPT ![m] = new]
  BY <1>2, <1>5, <1>6, <1>7 DEF WriteRow, TInv, RowsTyped
<1>11. row'[m] = new /\ \A d \in Msgs : d # m => row'[d] = row[d]
  BY <1>10 DEF TInv, RowsTyped
<1>12. PICK h : h = [handler[k] EXCEPT !.pc = "count"]
  OBVIOUS
<1>13. h.pc = "count" /\ h.prev = handler[k].prev
  BY <1>12, KeyFacts DEF Handler
<1>14. Advance(k, h)
  BY <1>12 DEF WriteRow
<1>15. /\ topic' = topic /\ handler'[k] = h
       /\ \A l \in TopicKeys : l # k => handler'[l] = handler[l]
  BY <1>14, AdvanceOne
<1>16. QED
  BY <1>1, <1>2, <1>4, <1>5, <1>6, <1>9, <1>11, <1>13, <1>15

(* A webhook's status leaves its id in the row.                            *)
LEMMA WriteRowMeta ==
    ASSUME TInv, HandledInv, NEW k \in TopicKeys, WriteRow(k), k[2] # 0
    PROVE  row'[k[1]].meta = k
<1>1. /\ handler[k].pc = "write"
      /\ row'[k[1]].meta = IF handler[k].fresh THEN k ELSE row[k[1]].meta
  BY WriteRowOne
<1>2. /\ handler[k].fresh <=> (k[2] # 0 /\ row[k[1]].meta = None)
      /\ k[2] = 0 \/ row[k[1]].meta \in {None, k}
  BY <1>1 DEF HandledInv
<1>3. CASE handler[k].fresh
  BY <1>1, <1>3
<1>4. CASE ~handler[k].fresh
  BY <1>1, <1>2, <1>4
<1>5. QED
  BY <1>3, <1>4

(* A handler looks at its status, or is done with it.                      *)
LEMMA HandlerSaid ==
    ASSUME TInv, SaidInv, NEW k \in TopicKeys, topic' = topic \/ Done(k), topic[k] # <<>>,
           UNCHANGED <<due, row, sends, recorded>>
    PROVE  SaidInv'
<1>1. \A l \in TopicKeys, t \in RowStatuses : Waits(l, t)' => Waits(l, t)
  BY DoneWaits DEF Waits
<1>2. \A l \in TopicKeys : topic[l] = <<>> => topic'[l] = <<>>
  BY DoneWaits
<1>3. \A id \in MetaIds : row'[id[1]].meta = id => Reports(id, row'[id[1]].status)
  BY DEF Reports
<1>4. QED
  BY <1>1, <1>2, <1>3, SaidLess

(* It writes what was said.                                                *)
LEMMA WriteRowSaid ==
    ASSUME TInv, SaidInv, ToldInv, HandledInv, NEW k \in TopicKeys, WriteRow(k)
    PROVE  SaidInv'
<1>1. /\ handler[k].pc = "write" /\ k[1] \in Msgs
      /\ row'[k[1]].status = Head(topic[k])
      /\ row'[k[1]].meta = IF handler[k].fresh THEN k ELSE row[k[1]].meta
      /\ \A d \in Msgs : d # k[1] => row'[d] = row[d]
      /\ topic' = topic
  BY WriteRowOne
<1>2. UNCHANGED <<due, sends, recorded>>
  BY DEF WriteRow, whatsapp
<1>3. topic[k] # <<>> /\ Waits(k, Head(topic[k])) /\ Head(topic[k]) \in RowStatuses
  BY <1>1, HandlerHas
<1>4. ASSUME NEW id \in MetaIds, row'[id[1]].meta = id
      PROVE  /\ row[id[1]].meta = id \/ topic[id] # <<>>
             /\ \/ Reports(id, row'[id[1]].status)
                \/ row'[id[1]].status \notin {"read", "failed"}
  <2>1. CASE id[1] # k[1]
    BY <1>1, <1>4, <2>1, Keys DEF Reports
  <2>2. CASE id = k
    BY <1>1, <1>3, <2>2 DEF Reports
  <2>3. CASE id[1] = k[1] /\ id # k
    <3>1. row[k[1]].meta = id
      BY <1>1, <1>4, <2>3
    <3>2. Live(k) /\ Live(id) /\ id \in TopicKeys
      BY <1>1, <2>3, <3>1, Keys, BoundsAre DEF Live, MetaIds
    <3>3. QED
      BY <2>3, <3>2 DEF ToldInv
  <2>4. QED
    BY <2>1, <2>2, <2>3
<1>5. \A l \in TopicKeys, t \in RowStatuses : Waits(l, t)' => Waits(l, t)
  BY <1>1 DEF Waits
<1>6. QED
  BY <1>1, <1>2, <1>4, <1>5, SaidLess

(* startCampaign inserts rows that are said nothing of.                    *)
LEMMA InsertRowsOne ==
    ASSUME TInv, RowInv, NEW r \in Requests, InsertRows(r)
    PROVE  /\ op[r].pc = "insert" /\ starts' = starts + 1
           /\ \A m \in Msgs : m[2] = starts + 1 => /\ row[m].status = "absent"
                                                   /\ row'[m].status = "pending"
                                                   /\ row'[m].meta = None
                                                   /\ row'[m].retries = 0
           /\ \A m \in Msgs : m[2] # starts + 1 => row'[m] = row[m]
           /\ \A m \in Msgs : m \in Recipients \X {starts + 1} <=> m[2] = starts + 1
<1>1. PICK batch : batch = Recipients \X {starts + 1}
  OBVIOUS
<1>2. PICK new : new = [status |-> "pending", meta |-> None, retries |-> 0]
  OBVIOUS
<1>3. /\ op[r].pc = "insert" /\ starts' = starts + 1
      /\ row' = [m \in Msgs |-> IF m \in batch THEN new ELSE row[m]]
  BY <1>1, <1>2 DEF InsertRows
<1>4. \A m \in Msgs : m \in batch <=> m[2] = starts + 1
  BY <1>1 DEF Msgs
<1>5. new.status = "pending" /\ new.meta = None /\ new.retries = 0
  BY <1>2
<1>6. \A m \in Msgs : m[2] = starts + 1 => row[m].status = "absent"
  BY BoundsAre DEF RowInv, TInv, RowsTyped
<1>7. QED
  BY <1>1, <1>3, <1>4, <1>5, <1>6

(* They are said nothing of.                                               *)
LEMMA InsertRowsSaid ==
    ASSUME TInv, SaidInv, RowInv, NEW r \in Requests, InsertRows(r)
    PROVE  SaidInv'
<1>1. UNCHANGED <<due, topic, sends, recorded>>
  BY DEF InsertRows, whatsapp
<1>2. ASSUME NEW id \in MetaIds, row'[id[1]].meta = id
      PROVE  row[id[1]].meta = id /\ Reports(id, row'[id[1]].status)
  <2>1. id[1] \in Msgs /\ id # None
    BY Keys, NoneAssumption
  <2>2. row'[id[1]] = row[id[1]]
    BY <1>2, <2>1, InsertRowsOne
  <2>3. QED
    BY <1>2, <2>2 DEF Reports
<1>3. \A k \in TopicKeys, t \in RowStatuses : Waits(k, t)' => Waits(k, t)
  BY <1>1 DEF Waits
<1>4. QED
  BY <1>1, <1>2, <1>3, SaidLess

-----------------------------------------------------------------------------
(* What the worker told.                                                   *)

(* Nothing more is told.                                                   *)
LEMMA ToldLess ==
    ASSUME ToldInv, \A k \in TopicKeys : Live(k)' => Live(k),
           published' = published,
           \A m \in Msgs : execute'[m] <= execute[m] /\ (execute[m] = 0 => execute'[m] = 0),
           execute' \in [Msgs -> Nat], execute \in [Msgs -> Nat], published \in [Msgs -> Nat]
    PROVE  ToldInv'
<1>1. \A k \in TopicKeys : k[1] \in Msgs
  BY Keys
<1>2. ASSUME NEW m \in Msgs
      PROVE  published'[m] <= 1 /\ execute'[m] <= published'[m]
  <2>1. published[m] <= 1 /\ execute[m] <= published[m] /\ execute'[m] <= execute[m]
    BY DEF ToldInv
  <2>2. published[m] \in Nat /\ execute[m] \in Nat /\ execute'[m] \in Nat
    OBVIOUS
  <2>3. QED
    BY <2>1, <2>2
<1>3. \A k \in TopicKeys : Live(k)' => execute'[k[1]] = 0 /\ published'[k[1]] = 1
  BY <1>1 DEF ToldInv
<1>4. \A k, l \in TopicKeys : Live(k)' /\ Live(l)' /\ k[1] = l[1] => k = l
  BY DEF ToldInv
<1>5. QED
  BY <1>2, <1>3, <1>4 DEF ToldInv

(* The events that wait are as they were.                                  *)
LEMMA ToldSame ==
    ASSUME TInv, ToldInv, \A k \in TopicKeys : Live(k)' => Live(k),
           UNCHANGED <<published, execute>>
    PROVE  ToldInv'
<1>1. execute \in [Msgs -> Nat] /\ published \in [Msgs -> Nat]
  BY DEF TInv, WorkTyped
<1>2. \A m \in Msgs : execute'[m] <= execute[m]
  BY <1>1
<1>3. QED
  BY <1>1, <1>2, ToldLess

(* What keeps every key as it is.                                          *)
LEMMA LiveSame ==
    ASSUME UNCHANGED <<topic, row, handler>>
    PROVE  \A k \in TopicKeys : Live(k)' => Live(k)
BY DEF Live, Waits

(* A report is not what the worker told.                                   *)
LEMMA WebhookTold ==
    ASSUME TInv, SaidInv, ToldInv, NEW id \in MetaIds, NEW s \in RowStatuses, Webhook(id, s)
    PROVE  ToldInv'
<1>1. /\ s \in due[id] /\ UNCHANGED <<row, handler, published, execute>>
      /\ Send(id, s) \/ topic' = topic
  BY DEF Webhook, service
<1>2. s # "queued"
  BY <1>1 DEF SaidInv, Reportable
<1>3. id[2] # 0 /\ id \in TopicKeys
  BY Keys, BoundsAre DEF MetaIds
<1>4. CASE topic' = topic
  BY <1>1, <1>4, LiveSame, ToldSame
<1>5. CASE Send(id, s)
  <2>1. /\ \A l \in TopicKeys, t \in RowStatuses : Waits(l, t)' <=> Waits(l, t) \/ (l = id /\ t = s)
        /\ \A l \in TopicKeys : l # id => topic'[l] = topic[l]
    BY <1>3, <1>5, SendWaits
  <2>2. "queued" \in RowStatuses
    BY DEF RowStatuses, Unresolved
  <2>3. \A k \in TopicKeys : Live(k)' => Live(k)
    BY <1>1, <1>2, <1>3, <2>1, <2>2 DEF Live
  <2>4. QED
    BY <1>1, <2>3, ToldSame
<1>6. QED
  BY <1>1, <1>4, <1>5

(* A key is known by its row and its number.                               *)
LEMMA SameKey == \A k, l \in TopicKeys : k[1] = l[1] /\ k[2] = l[2] => k = l
BY DEF TopicKeys

(* An event that is dropped is not told.                                   *)
LEMMA DispatchTold ==
    ASSUME TInv, ToldInv, NEW m \in Msgs, Dispatch(m)
    PROVE  ToldInv'
<1>1. /\ execute[m] > 0 /\ UNCHANGED <<topic, row, handler, published>>
      /\ execute' = execute \/ execute' = [execute EXCEPT ![m] = @ - 1]
  BY DEF Dispatch, Consumed, service
<1>2. execute \in [Msgs -> Nat] /\ published \in [Msgs -> Nat]
  BY DEF TInv, WorkTyped
<1>3. /\ execute' \in [Msgs -> Nat]
      /\ \A d \in Msgs : execute'[d] <= execute[d] /\ (execute[d] = 0 => execute'[d] = 0)
  BY <1>1, <1>2
<1>4. QED
  BY <1>1, <1>2, <1>3, LiveSame, ToldLess

(* The outcome is told when the event is done with, and only then.         *)
LEMMA TellTold ==
    ASSUME TInv, ToldInv, NEW m \in Msgs, Tell(m)
    PROVE  ToldInv'
<1>1. /\ worker[m] \in {"recorded", "refused"} /\ Consumed(m)
      /\ UNCHANGED <<row, handler, published>>
      /\ \/ topic' = topic
         \/ Send(<<m, 0>>, "failed")
         \/ worker[m] = "recorded" /\ Send(<<m, sends[m]>>, "queued")
  BY DEF Tell, service
<1>2. execute \in [Msgs -> Nat] /\ published \in [Msgs -> Nat]
  BY DEF TInv, WorkTyped
<1>3. execute[m] > 0
  BY <1>1, WorkFacts
<1>4. execute[m] = 1 /\ published[m] = 1
  <2>1. published[m] <= 1 /\ execute[m] <= published[m]
    BY DEF ToldInv
  <2>2. QED
    BY <1>2, <1>3, <2>1
<1>5. /\ execute' = [execute EXCEPT ![m] = @ - 1]
      /\ execute'[m] = 0 /\ \A d \in Msgs : d # m => execute'[d] = execute[d]
  BY <1>1, <1>2, <1>4 DEF Consumed
<1>6. \A k \in TopicKeys : k[1] = m => ~Live(k)
  BY <1>4 DEF ToldInv
<1>7. PICK told \in TopicKeys : /\ told[1] = m
                                /\ \A l \in TopicKeys : l # told => topic'[l] = topic[l]
  <2>1. CASE topic' = topic
    BY <2>1, Keys, BoundsAre
  <2>2. CASE Send(<<m, 0>>, "failed")
    <3>1. PICK k : k = <<m, 0>>
      OBVIOUS
    <3>2. k \in TopicKeys /\ k[1] = m /\ "failed" \in RowStatuses
      BY <3>1, Keys DEF RowStatuses
    <3>3. QED
      BY <2>2, <3>1, <3>2, SendWaits
  <2>3. CASE worker[m] = "recorded" /\ Send(<<m, sends[m]>>, "queued")
    <3>1. PICK k : k = <<m, sends[m]>>
      OBVIOUS
    <3>2. k \in TopicKeys /\ k[1] = m /\ "queued" \in RowStatuses
      BY <3>1, WorkFacts, Keys DEF RowStatuses, Unresolved
    <3>3. QED
      BY <2>3, <3>1, <3>2, SendWaits
  <2>4. QED
    BY <1>1, <2>1, <2>2, <2>3
<1>8. \A l \in TopicKeys : l # told /\ Live(l)' => Live(l)
  BY <1>1, <1>7 DEF Live, Waits
<1>9. \A d \in Msgs : published'[d] <= 1 /\ execute'[d] <= published'[d]
  BY <1>1, <1>2, <1>4, <1>5 DEF ToldInv
<1>10. \A k \in TopicKeys : Live(k)' => execute'[k[1]] = 0 /\ published'[k[1]] = 1
  BY <1>1, <1>4, <1>5, <1>6, <1>7, <1>8, Keys DEF ToldInv
<1>11. \A k, l \in TopicKeys : Live(k)' /\ Live(l)' /\ k[1] = l[1] => k = l
  BY <1>6, <1>7, <1>8 DEF ToldInv
<1>12. QED
  BY <1>9, <1>10, <1>11 DEF ToldInv

(* The events are published once.                                          *)
LEMMA PublishTold ==
    ASSUME TInv, ToldInv, LifeInv, NEW r \in Requests, Publish(r)
    PROVE  ToldInv'
<1>1. PICK sent \in SUBSET op[r].rows :
         /\ execute' = [m \in Msgs |-> execute[m] + IF m \in sent THEN 1 ELSE 0]
         /\ published' = [m \in Msgs |-> published[m] + IF m \in sent THEN 1 ELSE 0]
  BY DEF Publish
<1>2. UNCHANGED <<topic, row, handler>> /\ op[r].pc = "publish"
  BY DEF Publish
<1>3. \A m \in Msgs : published[m] = 0
  BY <1>2 DEF LifeInv
<1>4. \A k \in TopicKeys : ~Live(k)
  BY <1>3, Keys DEF ToldInv
<1>5. \A k \in TopicKeys : ~Live(k)'
  BY <1>2, <1>4, LiveSame
<1>6. ASSUME NEW m \in Msgs
      PROVE  published'[m] <= 1 /\ execute'[m] <= published'[m]
  <2>1. execute[m] <= published[m] /\ execute[m] \in Nat /\ published[m] = 0
    BY <1>3 DEF ToldInv, TInv, WorkTyped
  <2>2. execute[m] = 0
    BY <2>1
  <2>3. PICK n \in {0, 1} : n = IF m \in sent THEN 1 ELSE 0
    OBVIOUS
  <2>4. execute'[m] = 0 + n /\ published'[m] = 0 + n
    BY <1>1, <2>1, <2>2, <2>3
  <2>5. QED
    BY <2>4
<1>7. QED
  BY <1>5, <1>6 DEF ToldInv

(* Rows that are inserted were not told of.                                *)
LEMMA InsertRowsTold ==
    ASSUME TInv, ToldInv, RowInv, NEW r \in Requests, InsertRows(r)
    PROVE  ToldInv'
<1>1. UNCHANGED <<topic, handler, published, execute>>
  BY DEF InsertRows, whatsapp
<1>2. ASSUME NEW k \in TopicKeys, Live(k)'
      PROVE  Live(k)
  <2>1. k[1] \in Msgs /\ (k[2] # 0 => k # None)
    BY Keys, NoneAssumption
  <2>2. CASE k[1][2] = starts + 1
    <3>1. row'[k[1]].status = "pending" /\ row'[k[1]].meta = None
      BY <2>1, <2>2, InsertRowsOne
    <3>2. QED
      BY <1>1, <1>2, <2>1, <3>1 DEF Live, Waits
  <2>3. CASE k[1][2] # starts + 1
    <3>1. row'[k[1]] = row[k[1]]
      BY <2>1, <2>3, InsertRowsOne
    <3>2. QED
      BY <1>1, <1>2, <3>1 DEF Live, Waits
  <2>4. QED
    BY <2>2, <2>3
<1>3. QED
  BY <1>1, <1>2, ToldSame

(* A handler goes on with a key that was told.                             *)
LEMMA AdvanceTold ==
    ASSUME TInv, ToldInv, NEW k \in TopicKeys, NEW h, Advance(k, h), Live(k),
           UNCHANGED <<row, published, execute>>
    PROVE  ToldInv'
<1>1. topic' = topic /\ \A l \in TopicKeys : l # k => handler'[l] = handler[l]
  BY AdvanceOne
<1>2. \A l \in TopicKeys : Live(l)' => Live(l)
  BY <1>1 DEF Live, Waits
<1>3. QED
  BY <1>2, ToldSame

(* It is done with a status.                                               *)
LEMMA DoneTold ==
    ASSUME TInv, ToldInv, NEW k \in TopicKeys, Done(k), topic[k] # <<>>,
           UNCHANGED <<row, published, execute>>
    PROVE  ToldInv'
<1>1. /\ \A l \in TopicKeys, t \in RowStatuses : Waits(l, t)' => Waits(l, t)
      /\ \A l \in TopicKeys : l # k => topic'[l] = topic[l] /\ handler'[l] = handler[l]
      /\ handler'[k].pc = "idle"
  BY DoneWaits
<1>2. "queued" \in RowStatuses
  BY DEF RowStatuses, Unresolved
<1>3. \A l \in TopicKeys : Live(l)' => Live(l)
  BY <1>1, <1>2 DEF Live
<1>4. QED
  BY <1>3, ToldSame

(* An update that matches its row is of a key that was told.               *)
LEMMA MatchedLive ==
    ASSUME TInv, NEW k \in TopicKeys, topic[k] # <<>>, Matches(k, Head(topic[k]))
    PROVE  Live(k)
<1>1. Waits(k, Head(topic[k]))
  BY HeadWaits
<1>2. QED
  BY <1>1 DEF Matches, Live

(* A row is written under the key that was told.                           *)
LEMMA WriteRowTold ==
    ASSUME TInv, ToldInv, HandledInv, NEW k \in TopicKeys, WriteRow(k)
    PROVE  ToldInv'
<1>1. /\ handler[k].pc = "write" /\ k[1] \in Msgs
      /\ row'[k[1]].meta = IF handler[k].fresh THEN k ELSE row[k[1]].meta
      /\ \A d \in Msgs : d # k[1] => row'[d] = row[d]
      /\ topic' = topic
      /\ \A l \in TopicKeys : l # k => handler'[l] = handler[l]
  BY WriteRowOne
<1>2. UNCHANGED <<published, execute>>
  BY DEF WriteRow, whatsapp
<1>4. Live(k)
  BY <1>1 DEF Live
<1>5. ASSUME NEW l \in TopicKeys, Live(l)', l # k
      PROVE  Live(l)
  <2>1. CASE l[1] # k[1]
    <3>1. row'[l[1]] = row[l[1]]
      BY <1>1, <2>1, Keys
    <3>2. QED
      BY <1>1, <1>5, <3>1 DEF Live, Waits
  <2>2. CASE l[1] = k[1]
    <3>1. l[2] = 0 => k[2] # 0
      BY <1>5, <2>2, SameKey
    <3>2. k[2] # 0 => row'[k[1]].meta # None
      BY WriteRowMeta, Keys, NoneAssumption
    <3>3. row'[l[1]].meta = l => row[l[1]].meta = l
      BY <1>1, <1>5, <2>2
    <3>4. QED
      BY <1>1, <1>5, <2>2, <3>1, <3>2, <3>3 DEF Live, Waits
  <2>3. QED
    BY <2>1, <2>2
<1>6. \A l \in TopicKeys : Live(l)' => Live(l)
  BY <1>4, <1>5
<1>7. QED
  BY <1>2, <1>6, ToldSame

-----------------------------------------------------------------------------
(* The rows and the handlers.                                              *)

(* A row that is inserted is new.                                          *)
LEMMA InsertRowsRows ==
    ASSUME TInv, RowInv, NEW r \in Requests, InsertRows(r)
    PROVE  RowInv'
<1> SUFFICES ASSUME NEW m \in Msgs
             PROVE  /\ row'[m].meta # None => row'[m].meta[1] = m
                    /\ row'[m].status = "read" => row'[m].meta # None
                    /\ m[2] > starts' => row'[m].status = "absent"
  BY DEF RowInv
<1>1. m[2] \in Int /\ starts \in Int
  BY BoundsAre DEF Msgs, TInv, RowsTyped
<1>2. starts' = starts + 1
  BY InsertRowsOne
<1>3. CASE m[2] = starts + 1
  <2>1. row'[m].status = "pending" /\ row'[m].meta = None
    BY <1>3, InsertRowsOne
  <2>2. QED
    BY <1>1, <1>2, <1>3, <2>1
<1>4. CASE m[2] # starts + 1
  <2>1. row'[m] = row[m]
    BY <1>4, InsertRowsOne
  <2>2. m[2] > starts' => m[2] > starts
    BY <1>1, <1>2
  <2>3. QED
    BY <2>1, <2>2 DEF RowInv
<1>5. QED
  BY <1>3, <1>4

(* A row that is written keeps the id of its message.                      *)
LEMMA WriteRowRows ==
    ASSUME TInv, SaidInv, RowInv, HandledInv, NEW k \in TopicKeys, WriteRow(k)
    PROVE  RowInv'
<1>1. /\ handler[k].pc = "write" /\ k[1] \in Msgs
      /\ row'[k[1]].status = Head(topic[k])
      /\ row'[k[1]].meta = IF handler[k].fresh THEN k ELSE row[k[1]].meta
      /\ \A d \in Msgs : d # k[1] => row'[d] = row[d]
  BY WriteRowOne
<1>2. starts' = starts
  BY DEF WriteRow
<1>3. Present(k[1]) /\ Waits(k, Head(topic[k])) /\ Head(topic[k]) \in RowStatuses
  BY <1>1, HandlerHas
<1>4. Head(topic[k]) = "read" => k[2] # 0
  BY <1>3 DEF SaidInv
<1>5. k[2] # 0 => row'[k[1]].meta = k /\ k # None
  BY WriteRowMeta, Keys, NoneAssumption
<1>6. ~(k[1][2] > starts)
  BY <1>1, <1>3 DEF RowInv, Present
<1>7. row'[k[1]].meta # None => row'[k[1]].meta[1] = k[1]
  <2>1. CASE handler[k].fresh
    BY <1>1, <2>1
  <2>2. CASE ~handler[k].fresh
    BY <1>1, <2>2 DEF RowInv
  <2>3. QED
    BY <2>1, <2>2
<1>8. QED
  BY <1>1, <1>2, <1>4, <1>5, <1>6, <1>7 DEF RowInv

(* The order of the statuses.                                              *)
LEMMA Ranks ==
    /\ Rank("pending") = 0 /\ Rank("queued") = 1 /\ Rank("sent") = 2
    /\ Rank("delivered") = 3 /\ Rank("read") = 4 /\ Rank("failed") = -1
BY DEF Rank

(* The id in a row was told.                                               *)
LEMMA MetaLive ==
    ASSUME TInv, RowInv, NEW m \in Msgs, row[m].meta # None
    PROVE  /\ row[m].meta \in TopicKeys /\ row[m].meta[1] = m /\ row[m].meta[2] # 0
           /\ Live(row[m].meta)
<1>1. PICK id : id = row[m].meta
  OBVIOUS
<1>2. id \in MetaIds
  BY <1>1 DEF TInv, RowsTyped, Row
<1>3. id \in TopicKeys /\ id[2] # 0 /\ id[1] = m
  BY <1>1, <1>2, Keys, BoundsAre DEF MetaIds, RowInv
<1>4. QED
  BY <1>1, <1>3 DEF Live

(* An update that is not ignored moves its row forward.                    *)
LEMMA ReadMoves ==
    ASSUME TInv, SaidInv, ToldInv, RowInv, NEW k \in TopicKeys, topic[k] # <<>>,
           Matches(k, Head(topic[k])),
           ~Ignored(row[k[1]].status, Head(topic[k]), k[2] # 0 /\ row[k[1]].meta = None)
    PROVE  /\ Moves(row[k[1]].status, Head(topic[k]))
           /\ k[2] = 0 \/ row[k[1]].meta \in {None, k}
<1>1. PICK m \in Msgs : m = k[1]
  BY Keys
<1>2. PICK p : p = row[m].status
  OBVIOUS
<1>3. PICK s : s = Head(topic[k])
  OBVIOUS
<1>4. /\ p \in {"pending", "queued", "sent", "delivered", "read", "failed"}
      /\ s \in {"queued", "sent", "delivered", "read", "failed"}
  <2>1. Present(m) /\ Waits(k, s) /\ s \in RowStatuses
    BY <1>1, <1>3, KeyFacts, HeadWaits DEF Heard
  <2>2. s \in Reportable \union {"queued"}
    BY <2>1 DEF SaidInv
  <2>3. p \in RowStatuses
    BY <1>2, <2>1 DEF TInv, RowsTyped, Row, Present
  <2>4. QED
    BY <2>2, <2>3 DEF Reportable, RowStatuses, Unresolved
<1>5. Live(k) /\ Waits(k, s)
  BY <1>3, MatchedLive, HeadWaits
<1>6. row[m].meta # None => row[m].meta = k /\ k[2] # 0
  BY <1>1, <1>5, MetaLive DEF ToldInv
<1>7. /\ ~(s = p /\ ~(k[2] # 0 /\ row[m].meta = None))
      /\ ~(p = "failed" /\ s # "failed")
      /\ ~(s # "failed" /\ Rank(s) <= Rank(p) /\ p \notin {"pending", "queued"})
  BY <1>1, <1>2, <1>3 DEF Ignored, Unresolved
<1>8. p # "failed"
  <2> SUFFICES ASSUME p = "failed" PROVE FALSE
    OBVIOUS
  <2>1. k[2] # 0 /\ row[m].meta = None
    BY <1>7
  <2>2. PICK l : l = <<m, 0>>
    OBVIOUS
  <2>3. l \in TopicKeys /\ l[1] = m /\ l[2] = 0
    BY <2>2, Keys
  <2>4. Live(l)
    BY <1>2, <2>1, <2>3 DEF Live
  <2>5. QED
    BY <1>1, <1>5, <2>1, <2>3, <2>4 DEF ToldInv
<1>9. ~(p = "read" /\ s = "failed")
  <2> SUFFICES ASSUME p = "read", s = "failed" PROVE FALSE
    OBVIOUS
  <2>1. row[m].meta # None
    BY <1>2 DEF RowInv
  <2>2. row[m].meta = k /\ k \in MetaIds
    BY <1>6, <2>1, Keys
  <2>3. Reports(k, "read") /\ Reports(k, "failed")
    BY <1>1, <1>2, <1>5, <2>2 DEF Reports
  <2>4. QED
    BY <2>2, <2>3 DEF SaidInv
<1>10. s # "failed" => Rank(s) > Rank(p) \/ (p = "queued" /\ s = "queued")
  BY <1>4, <1>7, <1>8, Ranks
<1>11. Moves(p, s)
  BY <1>4, <1>8, <1>9, <1>10 DEF Moves, RowStatuses, Unresolved
<1>12. QED
  BY <1>1, <1>2, <1>3, <1>6, <1>11

(* A handler whose row, place and status stay has the same to do.          *)
LEMMA HandlesOn ==
    ASSUME HandledInv, NEW k \in TopicKeys, handler'[k] = handler[k],
           handler[k].pc \in {"write", "count"} =>
              /\ Head(topic'[k]) = Head(topic[k])
              /\ row'[k[1]] = row[k[1]]
    PROVE  /\ handler'[k].pc = "write" =>
                 /\ handler'[k].prev = row'[k[1]].status
                 /\ Moves(handler'[k].prev, Head(topic'[k]))
                 /\ handler'[k].fresh <=> (k[2] # 0 /\ row'[k[1]].meta = None)
                 /\ k[2] = 0 \/ row'[k[1]].meta \in {None, k}
           /\ handler'[k].pc = "count" =>
                 /\ row'[k[1]].status = Head(topic'[k])
                 /\ Moves(handler'[k].prev, Head(topic'[k]))
BY DEF HandledInv

(* The statuses that arrive come after those at work.                      *)
LEMMA HandledSame ==
    ASSUME TInv, HandledInv, handler' = handler,
           \A k \in TopicKeys : topic[k] # <<>> => /\ Head(topic'[k]) = Head(topic[k])
                                                   /\ row'[k[1]] = row[k[1]]
    PROVE  HandledInv'
<1>1. ASSUME NEW k \in TopicKeys, handler[k].pc \in {"write", "count"}
      PROVE  Head(topic'[k]) = Head(topic[k]) /\ row'[k[1]] = row[k[1]]
  BY <1>1, HandlerHas
<1>2. QED
  BY <1>1, HandlesOn DEF HandledInv

(* A status arrives.                                                       *)
LEMMA SendHandled ==
    ASSUME TInv, HandledInv, NEW k \in TopicKeys, NEW s \in RowStatuses,
           Send(k, s) \/ topic' = topic, UNCHANGED <<handler, row>>
    PROVE  HandledInv'
<1>1. \A l \in TopicKeys : topic[l] # <<>> => Head(topic'[l]) = Head(topic[l])
  BY SendWaits
<1>2. QED
  BY <1>1, HandledSame

(* Rows are inserted that no handler is at.                                *)
LEMMA InsertRowsHandled ==
    ASSUME TInv, RowInv, HandledInv, NEW r \in Requests, InsertRows(r)
    PROVE  HandledInv'
<1>1. UNCHANGED <<topic, handler>>
  BY DEF InsertRows
<1>2. ASSUME NEW k \in TopicKeys, topic[k] # <<>>
      PROVE  row'[k[1]] = row[k[1]]
  <2>1. Present(k[1]) /\ k[1] \in Msgs
    BY <1>2, KeyFacts DEF Heard
  <2>2. QED
    BY <2>1, InsertRowsOne DEF Present
<1>3. QED
  BY <1>1, <1>2, HandledSame

(* One handler is neither to write a row nor to count one.                 *)
LEMMA OthersHandled ==
    ASSUME TInv, HandledInv, NEW k \in TopicKeys, row' = row,
           \A l \in TopicKeys : l # k => topic'[l] = topic[l] /\ handler'[l] = handler[l],
           handler'[k].pc \notin {"write", "count"}
    PROVE  HandledInv'
<1>1. ASSUME NEW l \in TopicKeys, l # k
      PROVE  handler'[l] = handler[l] /\ Head(topic'[l]) = Head(topic[l])
  BY <1>1
<1>2. QED
  BY <1>1, HandlesOn DEF HandledInv

(* Only the handler of the key that was told writes its row.               *)
LEMMA WriteRowHandled ==
    ASSUME TInv, ToldInv, HandledInv, NEW k \in TopicKeys, WriteRow(k)
    PROVE  HandledInv'
<1>1. /\ handler[k].pc = "write" /\ k[1] \in Msgs
      /\ row'[k[1]].status = Head(topic[k])
      /\ \A d \in Msgs : d # k[1] => row'[d] = row[d]
      /\ handler'[k].pc = "count" /\ handler'[k].prev = handler[k].prev
      /\ topic' = topic
      /\ \A l \in TopicKeys : l # k => handler'[l] = handler[l]
  BY WriteRowOne
<1>2. Moves(handler[k].prev, Head(topic[k]))
  BY <1>1 DEF HandledInv
<1>3. ASSUME NEW l \in TopicKeys, l # k, handler[l].pc \in {"write", "count"}
      PROVE  row'[l[1]] = row[l[1]]
  <2>1. Live(l) /\ Live(k)
    BY <1>1, <1>3 DEF Live
  <2>2. l[1] # k[1]
    BY <1>3, <2>1 DEF ToldInv
  <2>3. QED
    BY <1>1, <2>2, Keys
<1>4. QED
  BY <1>1, <1>2, <1>3, HandlesOn DEF HandledInv

-----------------------------------------------------------------------------
(* The campaign.                                                           *)

(* A request that goes on keeps its snapshot.                              *)
LEMMA GotoOne ==
    ASSUME TInv, NEW r \in Requests, NEW step, NEW rows, NEW number,
           Goto(r, step, rows, number)
    PROVE  /\ op'[r].pc = step /\ op'[r].rows = rows
           /\ op'[r].pending = op[r].pending
<1>1. PICK o : o = [op[r] EXCEPT !.pc = step, !.rows = rows, !.number = number]
  OBVIOUS
<1>2. op[r] \in Op
  BY DEF TInv, OpsTyped
<1>3. o.pc = step /\ o.rows = rows /\ o.pending = op[r].pending
  BY <1>1, <1>2 DEF Op
<1>4. op' = [op EXCEPT ![r] = o]
  BY <1>1, <1>2 DEF Goto, TInv, OpsTyped
<1>5. op'[r] = o
  BY <1>4 DEF TInv, OpsTyped
<1>6. QED
  BY <1>3, <1>5

(* A campaign that is a draft has told nothing.                            *)
LEMMA DraftSilent ==
    ASSUME ToldInv, LifeInv, NEW k \in TopicKeys, Live(k)
    PROVE  status # "draft"
BY Keys DEF ToldInv, LifeInv

(* Only one request is in flight.                                          *)
LEMMA OneLife ==
    ASSUME OneRequestAtATime, NEW r \in Requests,
           status' # "scheduled",
           status' = "draft" =>
              /\ \A x \in Counters : counts'[x] = 0
              /\ \A m \in Msgs : row'[m].status \in {"absent", "pending"} /\ published'[m] = 0
              /\ op'[r].pc = "mark" \/ starts' = 0,
           op'[r].pc \in {"idle", "insert", "mark", "publish", "pause"},
           op'[r].pc \in {"insert", "mark"} => status' = "draft" /\ op'[r].pending = 0,
           op'[r].pc \in {"publish", "pause"} => status' # "draft",
           op'[r].pc = "mark" => op'[r].rows = RowsIn({"pending"})',
           op'[r].pc = "publish" => \A m \in Msgs : published'[m] = 0
    PROVE  LifeInv'
<1>1. \A d \in Requests : d = r
  BY DEF OneRequestAtATime
<1>2. QED
  BY <1>1 DEF LifeInv

(* A request is made.                                                      *)
LEMMA RequestLife ==
    ASSUME PlainDelivery, TInv, LifeInv, NEW r \in Requests, NEW name \in Ops, Request(r, name)
    PROVE  LifeInv'
<1>1. /\ op[r].pc = "idle" /\ status \in Accepts(name)
      /\ op' = [op EXCEPT ![r] = [pc |-> FirstStep(name), rows |-> {}, number |-> 0,
                                  pending |-> counts.pending]]
      /\ UNCHANGED <<status, counts, row, starts, published>>
  BY DEF Request
<1>2. OneRequestAtATime /\ name \in {"start", "pause"}
  BY DEF PlainDelivery
<1>3. PICK o : o = [pc |-> FirstStep(name), rows |-> {}, number |-> 0,
                    pending |-> counts.pending]
  OBVIOUS
<1>4. op'[r] = o /\ o.pc = FirstStep(name) /\ o.pending = counts["pending"]
  BY <1>1, <1>3 DEF TInv, OpsTyped
<1>5. \A d \in Requests : op[d].pc # "mark"
  BY <1>1, <1>2 DEF OneRequestAtATime
<1>6. status # "scheduled" /\ (status = "draft" => counts["pending"] = 0 /\ starts = 0)
  BY <1>5 DEF LifeInv, Counters
<1>7. CASE name = "start"
  <2>1. FirstStep(name) = "insert" /\ Accepts(name) = {"draft", "scheduled"}
    BY <1>7 DEF FirstStep, Accepts
  <2>2. status = "draft" /\ op'[r].pc = "insert" /\ op'[r].pending = 0
    BY <1>1, <1>4, <1>6, <2>1
  <2>3. QED
    BY <1>1, <1>2, <1>6, <2>2, OneLife DEF LifeInv
<1>8. CASE name = "pause"
  <2>1. FirstStep(name) = "pause" /\ Accepts(name) = {"running"}
    BY <1>8 DEF FirstStep, Accepts
  <2>2. status = "running" /\ op'[r].pc = "pause"
    BY <1>1, <1>4, <2>1
  <2>3. QED
    BY <1>1, <1>2, <2>2, OneLife DEF LifeInv
<1>9. QED
  BY <1>2, <1>7, <1>8

(* startCampaign inserts its rows.                                         *)
LEMMA InsertRowsLife ==
    ASSUME PlainDelivery, TInv, RowInv, LifeInv, NEW r \in Requests, InsertRows(r)
    PROVE  LifeInv'
<1>1. PICK batch : batch = Recipients \X {starts + 1}
  OBVIOUS
<1>2. /\ Goto(r, "mark", batch, 0) /\ UNCHANGED <<status, counts, published>>
  BY <1>1 DEF InsertRows
<1>3. op'[r].pc = "mark" /\ op'[r].rows = batch /\ op'[r].pending = op[r].pending
  BY <1>2, GotoOne
<1>4. OneRequestAtATime /\ op[r].pc = "insert"
  BY InsertRowsOne DEF PlainDelivery
<1>5. \A d \in Requests : op[d].pc # "mark"
  BY <1>4 DEF OneRequestAtATime
<1>6. status = "draft" /\ op[r].pending = 0
  BY <1>4 DEF LifeInv
<1>7. starts = 0
  BY <1>5, <1>6 DEF LifeInv
<1>8. \A m \in Msgs : row'[m].status \in {"absent", "pending"}
  BY <1>6, InsertRowsOne DEF LifeInv
<1>9. batch = RowsIn({"pending"})'
  <2>1. \A m \in Msgs : m[2] \in Nat \ {0}
    BY BoundsAre DEF Msgs
  <2>2. \A m \in Msgs : m[2] > starts => row[m].status = "absent"
    BY DEF RowInv
  <2>3. \A m \in Msgs : row[m].status = "absent"
    BY <1>7, <2>1, <2>2
  <2>4. \A m \in Msgs : row'[m].status = "pending" <=> m \in batch
    BY <1>1, <2>3, InsertRowsOne
  <2>5. batch \subseteq Msgs
    BY <1>1, <1>7, BoundsAre DEF InsertRows, Msgs
  <2>6. QED
    BY <2>4, <2>5 DEF RowsIn
<1>10. QED
  BY <1>2, <1>3, <1>4, <1>6, <1>8, <1>9, OneLife DEF LifeInv

(* The other steps of a start, and those of a pause.                       *)
LEMMA OperateLife ==
    ASSUME PlainDelivery, TInv, RowInv, LifeInv, NEW r \in Requests, Reject(r) \/ Operate(r)
    PROVE  /\ LifeInv'
           /\ Reject(r) \/ InsertRows(r) \/ MarkRunning(r) \/ Publish(r) \/ Pause(r)
<1>1. op[r].pc \in {"idle", "insert", "mark", "publish", "pause"} /\ OneRequestAtATime
  BY DEF LifeInv, PlainDelivery
<1>2. Reject(r) \/ InsertRows(r) \/ MarkRunning(r) \/ Publish(r) \/ Pause(r)
  BY <1>1 DEF Operate, FindPending, TallyFailed, Conclude, FailRows, Cancel, SelectFailed,
              ResetRows, Rerun
<1>3. CASE Reject(r)
  <2>1. op[r].pc = "insert" /\ op'[r].pc = "idle" /\ UNCHANGED <<status, counts, row, starts, published>>
    BY <1>1, <1>3, FinishIdles DEF Reject
  <2>2. \A d \in Requests : op[d].pc # "mark"
    BY <1>1, <2>1 DEF OneRequestAtATime
  <2>3. QED
    BY <1>1, <1>2, <2>1, <2>2, OneLife DEF LifeInv
<1>4. CASE MarkRunning(r)
  <2>1. op[r].pc = "mark" /\ status' = "running" /\ UNCHANGED published
    BY <1>4 DEF MarkRunning
  <2>2. op'[r].pc = "publish"
    BY <1>4, GotoOne DEF MarkRunning
  <2>3. \A m \in Msgs : published'[m] = 0
    BY <2>1 DEF LifeInv
  <2>4. QED
    BY <1>1, <1>2, <2>1, <2>2, <2>3, OneLife
<1>5. CASE Publish(r)
  <2>1. op[r].pc = "publish" /\ op'[r].pc = "idle" /\ status' = status
    BY <1>5, FinishIdles DEF Publish
  <2>2. status # "draft" /\ status # "scheduled"
    BY <2>1 DEF LifeInv
  <2>3. QED
    BY <1>1, <1>2, <2>1, <2>2, OneLife
<1>6. CASE Pause(r)
  <2>1. op'[r].pc = "idle" /\ status' = "paused"
    BY <1>6, FinishIdles DEF Pause
  <2>2. QED
    BY <1>1, <1>2, <2>1, OneLife
<1>7. QED
  BY <1>2, <1>3, <1>4, <1>5, <1>6, InsertRowsLife

(* What nothing but the requests change.                                   *)
LEMMA LifeSame ==
    ASSUME LifeInv, UNCHANGED <<status, counts, row, starts, op, published>>
    PROVE  LifeInv'
BY DEF LifeInv, RowsIn

(* A campaign that has been started is a draft no more.                    *)
LEMMA StartedLife ==
    ASSUME LifeInv, status # "draft", status' \notin {"draft", "scheduled"},
           UNCHANGED <<op, published>>
    PROVE  LifeInv'
BY DEF LifeInv

-----------------------------------------------------------------------------
(* The counters.                                                           *)

(* A message has one update under way.                                     *)
LEMMA OneUpdate ==
    ASSUME ToldInv, NEW k \in TopicKeys, NEW l \in TopicKeys, k[1] = l[1],
           handler[k].pc # "idle", handler[l].pc # "idle"
    PROVE  k = l
BY DEF ToldInv, Live

(* The same updates are under way.                                         *)
LEMMA SeenSame ==
    ASSUME row' = row,
           \A l \in TopicKeys : handler'[l].pc = "count" <=> handler[l].pc = "count",
           \A l \in TopicKeys : handler[l].pc = "count" => handler'[l].prev = handler[l].prev
    PROVE  \A statuses : SeenIn(statuses)' = SeenIn(statuses)
<1>1. UnderWay' = UnderWay /\ \A l \in UnderWay : handler'[l].prev = handler[l].prev
  BY DEF UnderWay
<1>2. QED
  BY <1>1 DEF SeenIn, Updating

(* The rows are seen as before.                                            *)
LEMMA CountSame ==
    ASSUME CountInv, counts' = counts, status' # "draft" => status # "draft",
           \A statuses : SeenIn(statuses)' = SeenIn(statuses)
    PROVE  CountInv'
BY DEF CountInv

(* No row and no handler changes.                                          *)
LEMMA CountStays ==
    ASSUME CountInv, UNCHANGED <<counts, row, handler>>, status' # "draft" => status # "draft"
    PROVE  CountInv'
<1>1. \A statuses : SeenIn(statuses)' = SeenIn(statuses)
  BY SeenSame
<1>2. QED
  BY <1>1, CountSame

(* One handler goes on that has no update to count.                        *)
LEMMA HandlerCount ==
    ASSUME CountInv, NEW k \in TopicKeys, UNCHANGED <<counts, row>>,
           status' # "draft" => status # "draft",
           \A l \in TopicKeys : l # k => handler'[l] = handler[l],
           handler[k].pc # "count", handler'[k].pc # "count"
    PROVE  CountInv'
<1>1. \A statuses : SeenIn(statuses)' = SeenIn(statuses)
  BY SeenSame
<1>2. QED
  BY <1>1, CountSame

(* The campaign runs: every row that was inserted is pending.              *)
LEMMA MarkRunningCount ==
    ASSUME TInv, ToldInv, LifeInv, NEW r \in Requests, MarkRunning(r)
    PROVE  CountInv'
<1>1. /\ op[r].pc = "mark" /\ UNCHANGED <<row, handler>>
      /\ counts' = [counts EXCEPT !["pending"] =
                      Assigned(op[r].pending, counts["pending"], Cardinality(op[r].rows))]
  BY DEF MarkRunning
<1>2. /\ status = "draft" /\ op[r].pending = 0 /\ op[r].rows = RowsIn({"pending"})
      /\ \A x \in Counters : counts[x] = 0
      /\ \A m \in Msgs : row[m].status \in {"absent", "pending"}
  BY <1>1 DEF LifeInv
<1>3. \A k \in TopicKeys : handler[k].pc # "count"
  BY <1>2, DraftSilent DEF Live
<1>4. UnderWay' = {}
  BY <1>1, <1>3 DEF UnderWay
<1>5. \A statuses : SeenIn(statuses)' = {m \in Msgs : row[m].status \in statuses}
  BY <1>1, <1>4 DEF SeenIn, Updating
<1>6. PICK n : n = Cardinality(op[r].rows)
  OBVIOUS
<1>7. Assigned(op[r].pending, counts["pending"], Cardinality(op[r].rows)) = n
  BY <1>2, <1>6 DEF Assigned, Counters
<1>8. counts' = [counts EXCEPT !["pending"] = n]
  BY <1>1, <1>7
<1>9. \A x \in Counters : counts'[x] = IF x = "pending" THEN n ELSE 0
  BY <1>2, <1>8 DEF TInv, RowsTyped
<1>10. SeenIn(Class("pending"))' = op[r].rows
  BY <1>2, <1>5 DEF Class, RowsIn, Unresolved
<1>11. ASSUME NEW x \in Counters, x # "pending"
       PROVE  SeenIn(Class(x))' = {}
  BY <1>2, <1>5, <1>11 DEF Class, Counters
<1>12. ASSUME NEW x \in Counters
       PROVE  counts'[x] = Cardinality(SeenIn(Class(x))')
  <2>1. CASE x = "pending"
    BY <1>6, <1>9, <1>10, <2>1
  <2>2. CASE x # "pending"
    BY <1>9, <1>11, <2>2, FS_EmptySet
  <2>3. QED
    BY <2>1, <2>2
<1>13. QED
  BY <1>12 DEF CountInv

(* A row that is written is seen as before until it is counted.            *)
LEMMA WriteRowCount ==
    ASSUME TInv, ToldInv, HandledInv, CountInv, NEW k \in TopicKeys, WriteRow(k)
    PROVE  CountInv'
<1>1. /\ handler[k].pc = "write" /\ k[1] \in Msgs
      /\ \A d \in Msgs : d # k[1] => row'[d] = row[d]
      /\ handler'[k].pc = "count" /\ handler'[k].prev = handler[k].prev
      /\ \A l \in TopicKeys : l # k => handler'[l] = handler[l]
  BY WriteRowOne
<1>2. handler[k].prev = row[k[1]].status
  BY <1>1 DEF HandledInv
<1>3. UNCHANGED <<counts, status>>
  BY DEF WriteRow
<1>4. UnderWay' = UnderWay \union {k} /\ k \notin UnderWay
  BY <1>1 DEF UnderWay
<1>5. \A l \in UnderWay : l \in TopicKeys /\ l[1] # k[1] /\ handler'[l] = handler[l]
  BY <1>1, OneUpdate DEF UnderWay
<1>6. ASSUME NEW statuses, NEW m \in Msgs
      PROVE  m \in SeenIn(statuses)' <=> m \in SeenIn(statuses)
  <2>1. CASE m = k[1]
    <3>1. ~Updating(m) /\ Updating(m)'
      BY <1>4, <1>5, <2>1 DEF Updating
    <3>2. m \in SeenIn(statuses) <=> row[m].status \in statuses
      BY <1>5, <2>1, <3>1 DEF SeenIn
    <3>3. m \in SeenIn(statuses)' <=> handler'[k].prev \in statuses
      BY <1>4, <1>5, <2>1, <3>1 DEF SeenIn
    <3>4. QED
      BY <1>1, <1>2, <2>1, <3>2, <3>3
  <2>2. CASE m # k[1]
    <3>1. row'[m] = row[m] /\ (Updating(m)' <=> Updating(m))
      BY <1>1, <1>4, <2>2 DEF Updating
    <3>2. QED
      BY <1>4, <1>5, <2>2, <3>1 DEF SeenIn
  <2>3. QED
    BY <2>1, <2>2
<1>7. \A statuses : SeenIn(statuses)' = SeenIn(statuses)
  BY <1>6 DEF SeenIn
<1>8. QED
  BY <1>3, <1>7, CountSame

(* The counter an update leaves and the one it comes to.                   *)
LEMMA MovesBetween ==
    ASSUME NEW p \in RowStatuses, NEW s \in RowStatuses, Moves(p, s), NEW x \in Counters
    PROVE  /\ x = s <=> s \in Class(x) /\ p \notin Class(x)
           /\ x \in (IF p \in Unresolved /\ s \notin Unresolved
                     THEN {"pending"} ELSE {p} \intersect {"sent", "delivered"})
              <=> p \in Class(x) /\ s \notin Class(x)
<1>1. /\ p \in {"pending", "queued", "sent", "delivered", "read"}
      /\ s \in {"pending", "queued", "sent", "delivered", "read", "failed"}
      /\ x \in {"sent", "delivered", "read", "failed", "pending"}
      /\ \/ s = "failed" /\ p # "read"
         \/ s # "failed" /\ (Rank(s) > Rank(p) \/ (p = "queued" /\ s = "queued"))
  BY DEF Moves, RowStatuses, Unresolved, Counters
<1>2. \A t : t \in Class(x) <=> IF x = "pending" THEN t \in {"pending", "queued"} ELSE t = x
  BY DEF Class, Unresolved
<1>3. /\ p # "read" /\ s # "pending"
      /\ p \in {"sent", "delivered"} => s # p /\ s # "queued"
  BY <1>1, Ranks
<1>4. x \in (IF p \in Unresolved /\ s \notin Unresolved
             THEN {"pending"} ELSE {p} \intersect {"sent", "delivered"})
      <=> IF p \in {"pending", "queued"} /\ s \notin {"pending", "queued"}
          THEN x = "pending"
          ELSE x = p /\ p \in {"sent", "delivered"}
  BY DEF Unresolved
<1>5. x = s <=> s \in Class(x) /\ p \notin Class(x)
  BY <1>1, <1>2, <1>3
<1>6. (IF p \in {"pending", "queued"} /\ s \notin {"pending", "queued"}
       THEN x = "pending"
       ELSE x = p /\ p \in {"sent", "delivered"})
      <=> p \in Class(x) /\ s \notin Class(x)
  BY <1>1, <1>2, <1>3
<1>7. QED
  BY <1>4, <1>5, <1>6

(* What it does to the counters.                                           *)
LEMMA CountedRight ==
    ASSUME NEW c \in [Counters -> Nat], NEW p \in RowStatuses, NEW s \in RowStatuses,
           Moves(p, s), NEW x \in Counters, p \in Class(x) => c[x] > 0
    PROVE  Counted(c, p, s)[x] =
              c[x] - (IF p \in Class(x) THEN 1 ELSE 0) + (IF s \in Class(x) THEN 1 ELSE 0)
<1>1. PICK left : left = IF p \in Unresolved /\ s \notin Unresolved THEN {"pending"}
                         ELSE {p} \intersect {"sent", "delivered"}
  OBVIOUS
<1>2. Counted(c, p, s)[x] =
         Less(c[x], IF x \in left THEN 1 ELSE 0) + (IF x = s THEN 1 ELSE 0)
  BY <1>1 DEF Counted
<1>3. /\ x \in left <=> p \in Class(x) /\ s \notin Class(x)
      /\ x = s <=> s \in Class(x) /\ p \notin Class(x)
  BY <1>1, MovesBetween
<1>4. c[x] \in Nat
  OBVIOUS
<1>5. QED
  BY <1>2, <1>3, <1>4 DEF Less

(* Two sets that differ in one message at most.                            *)
LEMMA OneMessage ==
    ASSUME NEW S \in SUBSET Msgs, NEW T \in SUBSET Msgs, NEW m \in Msgs, S \ {m} = T \ {m}
    PROVE  /\ Cardinality(S) \in Nat /\ (m \in S => Cardinality(S) > 0)
           /\ Cardinality(T) = Cardinality(S) - (IF m \in S THEN 1 ELSE 0)
                                              + (IF m \in T THEN 1 ELSE 0)
<1>1. IsFiniteSet(S) /\ IsFiniteSet(T)
  BY FinitelyMany, FS_Subset
<1>2. Cardinality(S) \in Nat /\ Cardinality(T) \in Nat
  BY FinitelyMany
<1>3. Cardinality(S \ {m}) = IF m \in S THEN Cardinality(S) - 1 ELSE Cardinality(S)
  BY <1>1, FS_RemoveElement
<1>4. Cardinality(T \ {m}) = IF m \in T THEN Cardinality(T) - 1 ELSE Cardinality(T)
  BY <1>1, FS_RemoveElement
<1>5. m \in S => Cardinality(S) # 0
  BY <1>1, FS_EmptySet
<1>6. QED
  BY <1>2, <1>3, <1>4, <1>5

(* The update is counted.                                                  *)
LEMMA WriteCountersCount ==
    ASSUME TInv, ToldInv, HandledInv, CountInv, NEW k \in TopicKeys, WriteCounters(k)
    PROVE  CountInv'
<1>1. PICK h : h = [handler[k] EXCEPT !.pc = "reload"]
  OBVIOUS
<1>2. /\ handler[k].pc = "count" /\ Advance(k, h) /\ UNCHANGED <<status, row>>
      /\ counts' = Counted(counts, handler[k].prev, Head(topic[k]))
  BY <1>1 DEF WriteCounters
<1>3. h.pc = "reload"
  BY <1>1, KeyFacts DEF Handler
<1>4. handler'[k] = h /\ \A l \in TopicKeys : l # k => handler'[l] = handler[l]
  BY <1>2, AdvanceOne
<1>5. UnderWay' = UnderWay \ {k} /\ k \in UnderWay
  BY <1>2, <1>3, <1>4 DEF UnderWay
<1>6. \A l \in UnderWay : l \in TopicKeys /\ (l # k => l[1] # k[1] /\ handler'[l] = handler[l])
  BY <1>2, <1>4, OneUpdate DEF UnderWay
<1>7. PICK m \in Msgs : m = k[1]
  BY Keys
<1>8. PICK p \in RowStatuses, s \in RowStatuses :
         p = handler[k].prev /\ s = Head(topic[k]) /\ Moves(p, s) /\ row[m].status = s
  BY <1>2, <1>7, HandlerHas DEF HandledInv, Moves
<1>9. \A statuses : m \in SeenIn(statuses) <=> p \in statuses
  <2>1. Updating(m)
    BY <1>5, <1>7 DEF Updating
  <2>2. QED
    BY <1>5, <1>6, <1>7, <1>8, <2>1 DEF SeenIn
<1>10. \A statuses : m \in SeenIn(statuses)' <=> s \in statuses
  <2>1. ~Updating(m)'
    BY <1>5, <1>6, <1>7 DEF Updating
  <2>2. QED
    BY <1>2, <1>5, <1>6, <1>7, <1>8, <2>1 DEF SeenIn
<1>11. ASSUME NEW statuses, NEW d \in Msgs, d # m
       PROVE  d \in SeenIn(statuses)' <=> d \in SeenIn(statuses)
  <2>1. Updating(d)' <=> Updating(d)
    BY <1>5, <1>7, <1>11 DEF Updating
  <2>2. QED
    BY <1>2, <1>5, <1>6, <1>7, <1>11, <2>1 DEF SeenIn
<1>12. ASSUME NEW x \in Counters, status # "draft"
       PROVE  counts'[x] = Cardinality(SeenIn(Class(x))')
  <2>1. PICK S \in SUBSET Msgs : S = SeenIn(Class(x))
    BY DEF SeenIn
  <2>2. PICK T \in SUBSET Msgs : T = SeenIn(Class(x))'
    BY DEF SeenIn
  <2>3. S \ {m} = T \ {m}
    BY <1>11, <2>1, <2>2
  <2>4. (m \in S <=> p \in Class(x)) /\ (m \in T <=> s \in Class(x))
    BY <1>9, <1>10, <2>1, <2>2
  <2>5. counts[x] = Cardinality(S)
    BY <1>12, <2>1 DEF CountInv
  <2>6. counts \in [Counters -> Nat]
    BY DEF TInv, RowsTyped
  <2>7. p \in Class(x) => counts[x] > 0
    BY <2>3, <2>4, <2>5, OneMessage
  <2>8. counts'[x] = counts[x] - (IF p \in Class(x) THEN 1 ELSE 0)
                               + (IF s \in Class(x) THEN 1 ELSE 0)
    BY <1>2, <1>8, <2>6, <2>7, CountedRight
  <2>9. QED
    BY <2>2, <2>3, <2>4, <2>5, <2>8, OneMessage
<1>13. QED
  BY <1>2, <1>12 DEF CountInv

(* The updates under way: what is written of a row and what is seen of it. *)
LEMMA UnderWayRows ==
    ASSUME TInv, ToldInv, HandledInv
    PROVE  /\ UnderWay \subseteq TopicKeys
           /\ \A k \in UnderWay : /\ k[1] \in Msgs
                                  /\ handler[k].prev \in RowStatuses
                                  /\ Head(topic[k]) \in RowStatuses
                                  /\ Moves(handler[k].prev, Head(topic[k]))
                                  /\ row[k[1]].status = Head(topic[k])
           /\ \A k, l \in UnderWay : k[1] = l[1] => k = l
           /\ \A k \in UnderWay : \A statuses :
                 k[1] \in SeenIn(statuses) <=> handler[k].prev \in statuses
           /\ \A statuses : \A m \in Msgs :
                 ~Updating(m) => (m \in SeenIn(statuses) <=> row[m].status \in statuses)
<1>1. UnderWay \subseteq TopicKeys /\ \A k \in UnderWay : handler[k].pc = "count"
  BY DEF UnderWay
<1>2. \A k \in UnderWay : /\ k[1] \in Msgs
                          /\ handler[k].prev \in RowStatuses
                          /\ Head(topic[k]) \in RowStatuses
                          /\ Moves(handler[k].prev, Head(topic[k]))
                          /\ row[k[1]].status = Head(topic[k])
  BY <1>1, HandlerHas, Keys DEF HandledInv, Moves
<1>3. \A k, l \in UnderWay : k[1] = l[1] => k = l
  BY <1>1, OneUpdate
<1>4. \A k \in UnderWay : \A statuses :
         k[1] \in SeenIn(statuses) <=> handler[k].prev \in statuses
  BY <1>2, <1>3 DEF SeenIn, Updating
<1>5. \A statuses : \A m \in Msgs :
         ~Updating(m) => (m \in SeenIn(statuses) <=> row[m].status \in statuses)
  BY DEF SeenIn, Updating
<1>6. QED
  BY <1>1, <1>2, <1>3, <1>4, <1>5

(* The rows of some updates are as many as the updates.                    *)
LEMMA KeysOfRows ==
    ASSUME NEW keys \in SUBSET TopicKeys, NEW rows \in SUBSET Msgs,
           \A k \in keys : k[1] \in rows,
           \A m \in rows : \E k \in keys : k[1] = m,
           \A k, l \in keys : k[1] = l[1] => k = l
    PROVE  Cardinality(keys) = Cardinality(rows)
<1>1. PICK f : f = [m \in rows |-> CHOOSE k \in keys : k[1] = m]
  OBVIOUS
<1>2. \A m \in rows : f[m] \in keys /\ f[m][1] = m
  BY <1>1
<1>3. f \in [rows -> keys]
  BY <1>1, <1>2
<1>4. \A k \in keys : \E m \in rows : f[m] = k
  BY <1>2
<1>5. \A m, d \in rows : f[m] = f[d] => m = d
  BY <1>2
<1>6. f \in Bijection(rows, keys)
  BY <1>3, <1>4, <1>5 DEF Bijection, Injection, Surjection, IsInjective
<1>7. ExistsBijection(rows, keys)
  BY <1>6 DEF ExistsBijection
<1>8. IsFiniteSet(rows)
  BY FinitelyMany, FS_Subset
<1>9. QED
  BY <1>7, <1>8, FS_Bijection

(* What two finite sets have that the other has not.                       *)
LEMMA TwoSets ==
    ASSUME NEW S \in SUBSET Msgs, NEW T \in SUBSET Msgs
    PROVE  Cardinality(S) + Cardinality(T \ S) - Cardinality(S \ T) = Cardinality(T)
<1>1. IsFiniteSet(S) /\ IsFiniteSet(T)
  BY FinitelyMany, FS_Subset
<1>2. Cardinality(T \ S) = Cardinality(T) - Cardinality(T \cap S)
  BY <1>1, FS_Difference
<1>3. Cardinality(S \ T) = Cardinality(S) - Cardinality(S \cap T)
  BY <1>1, FS_Difference
<1>4. S \cap T = T \cap S
  OBVIOUS
<1>5. PICK s \in Nat, t \in Nat, n \in Nat :
         s = Cardinality(S) /\ t = Cardinality(T) /\ n = Cardinality(S \cap T)
  BY FinitelyMany
<1>6. Cardinality(T \ S) = t - n /\ Cardinality(S \ T) = s - n
  BY <1>2, <1>3, <1>4, <1>5
<1>7. s + (t - n) - (s - n) = t
  OBVIOUS
<1>8. QED
  BY <1>5, <1>6, <1>7

(* The counters, with the updates under way, are what the rows say.        *)
LEMMA CountersAre ==
    ASSUME TInv, ToldInv, HandledInv, CountInv
    PROVE  CountersMatchRows
<1> SUFFICES ASSUME status # "draft", NEW x \in Counters
             PROVE  counts[x] + Owed(x) - Covered(x) = CountsOfRows[x]
  BY DEF CountersMatchRows
<1>1. PICK S \in SUBSET Msgs : S = SeenIn(Class(x))
  BY DEF SeenIn
<1>2. PICK T \in SUBSET Msgs : T = RowsIn(Class(x))
  BY DEF RowsIn
<1>3. counts[x] = Cardinality(S)
  BY <1>1 DEF CountInv
<1>4. CountsOfRows[x] = Cardinality(T)
  BY <1>2 DEF CountsOfRows, CountIn, Class
<1>5. PICK owed \in SUBSET TopicKeys : owed = {k \in UnderWay : Head(topic[k]) = x}
  BY UnderWayRows
<1>6. PICK covered \in SUBSET TopicKeys :
         covered = {k \in UnderWay :
                 x \in IF handler[k].prev \in Unresolved /\ Head(topic[k]) \notin Unresolved
                       THEN {"pending"} ELSE {handler[k].prev} \intersect {"sent", "delivered"}}
  BY UnderWayRows
<1>7. ASSUME NEW k \in UnderWay
      PROVE  /\ k \in owed <=> Head(topic[k]) \in Class(x) /\ handler[k].prev \notin Class(x)
             /\ k \in covered <=> handler[k].prev \in Class(x) /\ Head(topic[k]) \notin Class(x)
  <2>1. PICK p \in RowStatuses, s \in RowStatuses :
           p = handler[k].prev /\ s = Head(topic[k]) /\ Moves(p, s)
    BY UnderWayRows
  <2>2. /\ x = s <=> s \in Class(x) /\ p \notin Class(x)
        /\ x \in (IF p \in Unresolved /\ s \notin Unresolved
                  THEN {"pending"} ELSE {p} \intersect {"sent", "delivered"})
           <=> p \in Class(x) /\ s \notin Class(x)
    BY <2>1, MovesBetween
  <2>3. QED
    BY <1>5, <1>6, <2>1, <2>2
<1>8. \A k \in UnderWay : /\ k[1] \in S <=> handler[k].prev \in Class(x)
                          /\ k[1] \in T <=> Head(topic[k]) \in Class(x)
                          /\ k[1] \in Msgs
  BY <1>1, <1>2, UnderWayRows DEF RowsIn
<1>9. \A m \in Msgs : ~Updating(m) => (m \in S <=> m \in T)
  BY <1>1, <1>2, UnderWayRows DEF RowsIn
<1>10. \A m \in Msgs : Updating(m) <=> \E k \in UnderWay : k[1] = m
  BY DEF Updating
<1>11. Cardinality(owed) = Cardinality(T \ S)
  <2>1. \A k \in owed : k[1] \in T \ S
    BY <1>5, <1>7, <1>8
  <2>2. \A m \in T \ S : \E k \in owed : k[1] = m
    BY <1>7, <1>8, <1>9, <1>10
  <2>3. \A k, l \in owed : k[1] = l[1] => k = l
    BY <1>5, UnderWayRows
  <2>4. QED
    BY <2>1, <2>2, <2>3, KeysOfRows
<1>12. Cardinality(covered) = Cardinality(S \ T)
  <2>1. \A k \in covered : k[1] \in S \ T
    BY <1>6, <1>7, <1>8
  <2>2. \A m \in S \ T : \E k \in covered : k[1] = m
    BY <1>7, <1>8, <1>9, <1>10
  <2>3. \A k, l \in covered : k[1] = l[1] => k = l
    BY <1>6, UnderWayRows
  <2>4. QED
    BY <2>1, <2>2, <2>3, KeysOfRows
<1>13. Owed(x) = Cardinality(owed) /\ Covered(x) = Cardinality(covered)
  BY <1>5, <1>6 DEF Owed, Covered
<1>14. QED
  BY <1>3, <1>4, <1>11, <1>12, <1>13, TwoSets

-----------------------------------------------------------------------------
(* Every step.                                                             *)

(* A row moves forward.                                                    *)
Forward == \A m \in Msgs :
              row'[m].status # row[m].status =>
                 \/ row[m].status = "absent"
                 \/ row'[m].status = "failed"
                 \/ row[m].status = "failed" /\ row'[m].retries > row[m].retries
                 \/ row[m].status # "failed" /\ Rank(row'[m].status) > Rank(row[m].status)

(* What is resolved and over stays so.                                     *)
LEMMA OverStays ==
    ASSUME OverMeansResolved, row' = row,
           status' \in {"completed", "failed"} => status \in {"completed", "failed"}
    PROVE  OverMeansResolved'
BY DEF OverMeansResolved, RowsIn

(* A request is made.                                                      *)
LEMMA RequestDelivers ==
    ASSUME PlainDelivery, TInv, DInv, NEW r \in Requests, NEW name \in Ops, Request(r, name)
    PROVE  DInv' /\ Forward
<1>1. UNCHANGED <<status, counts, row, starts, execute, sends, recorded, due, published,
                  topic, handler>>
  BY DEF Request, whatsapp
<1>2. SaidInv' /\ ToldInv' /\ CountInv' /\ OverMeansResolved'
  BY <1>1, SaidSame, LiveSame, ToldSame, CountStays, OverStays DEF DInv
<1>3. RowInv' /\ HandledInv'
  BY <1>1 DEF DInv, RowInv, HandledInv
<1>4. LifeInv'
  BY RequestLife DEF DInv
<1>5. QED
  BY <1>1, <1>2, <1>3, <1>4 DEF DInv, Forward

(* startCampaign inserts its rows.                                         *)
LEMMA InsertRowsDelivers ==
    ASSUME PlainDelivery, TInv, DInv, NEW r \in Requests, InsertRows(r)
    PROVE  DInv' /\ Forward
<1>1. /\ SaidInv /\ ToldInv /\ RowInv /\ HandledInv /\ LifeInv
      /\ UNCHANGED status
  BY DEF DInv, InsertRows
<1>2. SaidInv' /\ ToldInv' /\ RowInv' /\ HandledInv' /\ LifeInv'
  BY <1>1, InsertRowsSaid, InsertRowsTold, InsertRowsRows, InsertRowsHandled, InsertRowsLife
<1>3. status = "draft"
  BY <1>1, InsertRowsOne DEF LifeInv
<1>4. CountInv' /\ OverMeansResolved'
  BY <1>1, <1>3 DEF CountInv, OverMeansResolved
<1>5. Forward
  <2> SUFFICES ASSUME NEW m \in Msgs
               PROVE  row[m].status = "absent" \/ row'[m].status = row[m].status
    BY DEF Forward
  <2>1. QED
    BY <1>1, InsertRowsOne
<1>6. QED
  BY <1>2, <1>4, <1>5 DEF DInv

(* The other steps of a request write no row.                              *)
LEMMA OperateDelivers ==
    ASSUME PlainDelivery, TInv, DInv, NEW r \in Requests, Reject(r) \/ Operate(r)
    PROVE  DInv' /\ Forward
<1>1. SaidInv /\ ToldInv /\ RowInv /\ HandledInv /\ LifeInv /\ CountInv /\ OverMeansResolved
  BY DEF DInv
<1>2. LifeInv' /\ (Reject(r) \/ InsertRows(r) \/ MarkRunning(r) \/ Publish(r) \/ Pause(r))
  BY <1>1, OperateLife
<1>3. CASE Reject(r) \/ MarkRunning(r) \/ Publish(r) \/ Pause(r)
  <2>1. /\ UNCHANGED <<row, starts, sends, recorded, due, topic, handler>>
        /\ Publish(r) \/ UNCHANGED <<execute, published>>
        /\ MarkRunning(r) \/ UNCHANGED counts
        /\ status' \in {"completed", "failed"} => status' = status
    BY <1>3 DEF Reject, MarkRunning, Publish, Pause, whatsapp
  <2>2. SaidInv' /\ OverMeansResolved'
    BY <1>1, <2>1, SaidSame, OverStays
  <2>3. ToldInv'
    <3>1. CASE Publish(r)
      BY <1>1, <3>1, PublishTold
    <3>2. CASE UNCHANGED <<execute, published>>
      BY <1>1, <2>1, <3>2, LiveSame, ToldSame
    <3>3. QED
      BY <2>1, <3>1, <3>2
  <2>4. RowInv' /\ HandledInv'
    BY <1>1, <2>1 DEF RowInv, HandledInv
  <2>5. CountInv'
    <3>1. CASE MarkRunning(r)
      BY <1>1, <3>1, MarkRunningCount
    <3>2. CASE ~MarkRunning(r)
      <4>1. status' # "draft" => status # "draft"
        BY <1>1, <1>3, <3>2 DEF Reject, Publish, Pause, LifeInv
      <4>2. QED
        BY <1>1, <2>1, <3>2, <4>1, CountStays
    <3>3. QED
      BY <3>1, <3>2
  <2>6. QED
    BY <1>2, <2>1, <2>2, <2>3, <2>4, <2>5 DEF DInv, Forward
<1>4. QED
  BY <1>2, <1>3, InsertRowsDelivers

(* A step of whatsapp-service or of Meta.                                  *)
LEMMA ServiceDelivers ==
    ASSUME PlainDelivery, TInv, DInv, UNCHANGED service, SaidInv', ToldInv', HandledInv'
    PROVE  DInv' /\ Forward
<1>1. UNCHANGED <<status, counts, row, starts, op, published, handler>>
  BY DEF service
<1>2. CountInv' /\ OverMeansResolved' /\ LifeInv' /\ RowInv'
  BY <1>1, CountStays, OverStays, LifeSame DEF DInv, RowInv
<1>3. QED
  BY <1>1, <1>2 DEF DInv, Forward

(* whatsapp-service works on the event of a row.                           *)
LEMMA WorkDelivers ==
    ASSUME PlainDelivery, TInv, DInv, NEW m \in Msgs, Work(m)
    PROVE  DInv' /\ Forward
<1>1. SaidInv /\ ToldInv /\ HandledInv /\ UNCHANGED service
  BY DEF DInv, Work, Dispatch, Accept, Refuse, Record, Tell
<1>2. UNCHANGED <<row, handler, published>>
  BY <1>1 DEF service
<1>3. SaidInv'
  <2>1. CASE Dispatch(m) \/ Refuse(m)
    <3>1. UNCHANGED <<due, topic, row, sends, recorded>>
      BY <1>2, <2>1 DEF Dispatch, Refuse
    <3>2. QED
      BY <1>1, <3>1, SaidSame
  <2>2. QED
    BY <1>1, <2>1, AcceptSaid, RecordSaid, TellSaid DEF Work
<1>4. ToldInv'
  <2>1. CASE Accept(m) \/ Refuse(m) \/ Record(m)
    <3>1. UNCHANGED <<execute, topic>>
      BY <2>1 DEF Accept, Refuse, Record
    <3>2. QED
      BY <1>1, <1>2, <3>1, LiveSame, ToldSame
  <2>2. QED
    BY <1>1, <2>1, DispatchTold, TellTold DEF Work
<1>5. HandledInv'
  <2>1. CASE topic' = topic
    BY <1>1, <1>2, <2>1 DEF HandledInv
  <2>2. ASSUME NEW k \in TopicKeys, NEW s \in RowStatuses, Send(k, s)
        PROVE  HandledInv'
    BY <1>1, <1>2, <2>2, SendHandled
  <2>3. /\ <<m, 0>> \in TopicKeys
        /\ worker[m] = "recorded" => <<m, sends[m]>> \in TopicKeys
        /\ {"failed", "queued"} \subseteq RowStatuses
    BY WorkFacts, Keys DEF RowStatuses, Unresolved
  <2>4. \/ topic' = topic
        \/ Send(<<m, 0>>, "failed")
        \/ worker[m] = "recorded" /\ Send(<<m, sends[m]>>, "queued")
    BY DEF Work, Dispatch, Accept, Refuse, Record, Tell
  <2>5. QED
    BY <2>1, <2>2, <2>3, <2>4
<1>6. QED
  BY <1>1, <1>3, <1>4, <1>5, ServiceDelivers

(* Meta reports.                                                           *)
LEMMA WebhookDelivers ==
    ASSUME PlainDelivery, TInv, DInv, NEW id \in MetaIds, NEW s \in RowStatuses, Webhook(id, s)
    PROVE  DInv' /\ Forward
<1>1. /\ SaidInv /\ ToldInv /\ HandledInv /\ UNCHANGED service
      /\ Send(id, s) \/ topic' = topic
  BY DEF DInv, Webhook
<1>2. SaidInv' /\ ToldInv'
  BY <1>1, WebhookSaid, WebhookTold
<1>3. HandledInv'
  BY <1>1, Keys, SendHandled DEF service
<1>4. QED
  BY <1>1, <1>2, <1>3, ServiceDelivers

(* A handler leaves the rows and the counters alone.                       *)
LEMMA HandlerDelivers ==
    ASSUME PlainDelivery, TInv, DInv, NEW k \in TopicKeys, topic[k] # <<>>,
           UNCHANGED <<counts, row, starts, op, published, execute, sends, recorded, due>>,
           Done(k) \/ (\E h : Advance(k, h) /\ Live(k) /\ h.pc # "count"),
           handler[k].pc # "count",
           LifeInv', HandledInv', OverMeansResolved',
           status' # "draft" => status # "draft"
    PROVE  DInv' /\ Forward
<1>1. SaidInv /\ ToldInv /\ RowInv /\ CountInv
  BY DEF DInv
<1>2. CASE Done(k)
  <2>1. SaidInv' /\ ToldInv'
    BY <1>1, <1>2, HandlerSaid, DoneTold
  <2>2. CountInv'
    BY <1>1, <1>2, DoneWaits, HandlerCount
  <2>3. QED
    BY <1>1, <2>1, <2>2 DEF DInv, RowInv, Forward
<1>3. ASSUME NEW h, Advance(k, h), Live(k), h.pc # "count"
      PROVE  DInv' /\ Forward
  <2>1. /\ topic' = topic /\ handler'[k] = h
        /\ \A l \in TopicKeys : l # k => handler'[l] = handler[l]
    BY <1>3, AdvanceOne
  <2>2. SaidInv' /\ ToldInv'
    BY <1>1, <1>3, <2>1, HandlerSaid, AdvanceTold
  <2>3. CountInv'
    BY <1>1, <1>3, <2>1, HandlerCount
  <2>4. QED
    BY <1>1, <2>2, <2>3 DEF DInv, RowInv, Forward
<1>4. QED
  BY <1>2, <1>3

(* A handler reads its row.                                                *)
LEMMA ReadRowDelivers ==
    ASSUME PlainDelivery, TInv, DInv, NEW k \in TopicKeys, ReadRow(k)
    PROVE  DInv' /\ Forward
<1>1. /\ SaidInv /\ ToldInv /\ RowInv /\ HandledInv /\ LifeInv /\ OverMeansResolved
      /\ handler[k].pc = "idle" /\ topic[k] # <<>>
      /\ UNCHANGED <<status, counts, row, starts, op, published, execute, sends, recorded, due>>
  BY DEF DInv, ReadRow
<1>2. LifeInv' /\ OverMeansResolved'
  BY <1>1, LifeSame, OverStays
<1>3. PICK fresh \in BOOLEAN : fresh <=> (k[2] # 0 /\ row[k[1]].meta = None)
  OBVIOUS
<1>4. fresh = (k[2] # 0 /\ row[k[1]].meta = None)
  BY <1>3
<1>5. CASE Done(k)
  <2>1. HandledInv'
    BY <1>1, <1>5, DoneWaits, OthersHandled
  <2>2. QED
    BY <1>1, <1>2, <1>5, <2>1, HandlerDelivers
<1>6. CASE ~Done(k)
  <2>1. PICK h : h = [IdleHandler EXCEPT !.pc = "write", !.prev = row[k[1]].status,
                                         !.fresh = fresh]
    OBVIOUS
  <2>2. h.pc = "write" /\ h.prev = row[k[1]].status /\ h.fresh = fresh
    BY <2>1 DEF IdleHandler
  <2>3. /\ Advance(k, h) /\ Matches(k, Head(topic[k]))
        /\ ~Ignored(row[k[1]].status, Head(topic[k]), k[2] # 0 /\ row[k[1]].meta = None)
    BY <1>4, <1>6, <2>1 DEF ReadRow
  <2>4. /\ Live(k)
        /\ Moves(row[k[1]].status, Head(topic[k]))
        /\ k[2] = 0 \/ row[k[1]].meta \in {None, k}
    BY <1>1, <2>3, MatchedLive, ReadMoves
  <2>5. /\ topic' = topic /\ handler'[k] = h
        /\ \A l \in TopicKeys : l # k => handler'[l] = handler[l]
    BY <2>3, AdvanceOne
  <2>6. HandledInv'
    <3>1. ASSUME NEW l \in TopicKeys, l # k
          PROVE  handler'[l] = handler[l] /\ Head(topic'[l]) = Head(topic[l])
      BY <2>5, <3>1
    <3>2. handler'[k].fresh <=> (k[2] # 0 /\ row'[k[1]].meta = None)
      BY <1>1, <1>3, <2>2, <2>5
    <3>3. handler'[k].pc = "write" /\ handler'[k].prev = row'[k[1]].status
      BY <1>1, <2>2, <2>5
    <3>4. QED
      BY <1>1, <2>4, <2>5, <3>1, <3>2, <3>3, HandlesOn DEF HandledInv
  <2>7. QED
    BY <1>1, <1>2, <2>2, <2>3, <2>4, <2>6, HandlerDelivers
<1>7. QED
  BY <1>5, <1>6

(* It writes it.                                                           *)
LEMMA WriteRowDelivers ==
    ASSUME PlainDelivery, TInv, DInv, NEW k \in TopicKeys, WriteRow(k)
    PROVE  DInv' /\ Forward
<1>1. /\ SaidInv /\ ToldInv /\ RowInv /\ HandledInv /\ LifeInv /\ CountInv /\ OverMeansResolved
      /\ UNCHANGED <<status, counts, starts, op, published>>
  BY DEF DInv, WriteRow
<1>2. /\ handler[k].pc = "write" /\ k[1] \in Msgs
      /\ row'[k[1]].status = Head(topic[k])
      /\ \A d \in Msgs : d # k[1] => row'[d] = row[d]
  BY <1>1, WriteRowOne
<1>3. SaidInv' /\ ToldInv' /\ RowInv' /\ HandledInv' /\ CountInv'
  BY <1>1, WriteRowSaid, WriteRowTold, WriteRowRows, WriteRowHandled, WriteRowCount
<1>4. status # "draft" /\ status # "scheduled"
  BY <1>1, <1>2, DraftSilent DEF Live, LifeInv
<1>5. LifeInv'
  BY <1>1, <1>4, StartedLife
<1>6. PICK p \in RowStatuses, s \in RowStatuses :
         p = row[k[1]].status /\ s = Head(topic[k]) /\ Moves(p, s)
  BY <1>1, <1>2, HandlerHas DEF HandledInv, Moves
<1>7. s \in Unresolved => p \in Unresolved
  BY <1>6, Ranks DEF Moves, RowStatuses, Unresolved
<1>8. OverMeansResolved'
  <2> SUFFICES ASSUME status \in {"completed", "failed"}, NEW m \in Msgs,
                      row'[m].status \in Unresolved
               PROVE  FALSE
    BY <1>1 DEF OverMeansResolved, RowsIn
  <2>1. row[m].status \notin Unresolved
    BY <1>1 DEF OverMeansResolved, RowsIn
  <2>2. QED
    BY <1>2, <1>6, <1>7, <2>1
<1>9. Forward
  BY <1>2, <1>6 DEF Forward, Moves
<1>10. QED
  BY <1>3, <1>5, <1>8, <1>9 DEF DInv

(* It counts it.                                                           *)
LEMMA WriteCountersDelivers ==
    ASSUME PlainDelivery, TInv, DInv, NEW k \in TopicKeys, WriteCounters(k)
    PROVE  DInv' /\ Forward
<1>1. /\ SaidInv /\ ToldInv /\ RowInv /\ HandledInv /\ LifeInv /\ CountInv /\ OverMeansResolved
      /\ handler[k].pc = "count"
      /\ UNCHANGED <<status, row, starts, op, published, execute, sends, recorded, due>>
  BY DEF DInv, WriteCounters, whatsapp
<1>2. PICK h : h = [handler[k] EXCEPT !.pc = "reload"]
  OBVIOUS
<1>3. Advance(k, h) /\ h.pc = "reload"
  BY <1>2, KeyFacts DEF WriteCounters, Handler
<1>4. /\ topic' = topic /\ handler'[k] = h
      /\ \A l \in TopicKeys : l # k => handler'[l] = handler[l]
  BY <1>3, AdvanceOne
<1>5. topic[k] # <<>> /\ Live(k)
  BY <1>1, HandlerHas DEF Live
<1>6. SaidInv' /\ ToldInv' /\ HandledInv' /\ CountInv'
  BY <1>1, <1>3, <1>4, <1>5, HandlerSaid, AdvanceTold, OthersHandled, WriteCountersCount
<1>7. status # "draft" /\ status # "scheduled"
  BY <1>1, <1>5, DraftSilent DEF LifeInv
<1>8. LifeInv' /\ OverMeansResolved'
  BY <1>1, <1>7, StartedLife, OverStays
<1>9. QED
  BY <1>1, <1>6, <1>8 DEF DInv, RowInv, Forward

(* It looks whether all is resolved.                                       *)
LEMMA ReloadDelivers ==
    ASSUME PlainDelivery, TInv, DInv, NEW k \in TopicKeys, Reload(k)
    PROVE  DInv' /\ Forward
<1>1. /\ HandledInv /\ LifeInv /\ OverMeansResolved /\ handler[k].pc = "reload"
      /\ UNCHANGED <<status, counts, row, starts, op, published, execute, sends, recorded, due>>
  BY DEF DInv, Reload, whatsapp
<1>2. LifeInv' /\ OverMeansResolved' /\ topic[k] # <<>> /\ Live(k)
  BY <1>1, LifeSame, OverStays, HandlerHas DEF Live
<1>3. PICK h : h = [handler[k] EXCEPT !.pc = "finalise", !.failed = counts.failed > 0]
  OBVIOUS
<1>4. (Done(k) \/ Advance(k, h)) /\ h.pc = "finalise"
  BY <1>3, KeyFacts DEF Reload, Handler
<1>5. CASE Done(k)
  <2>1. HandledInv'
    BY <1>1, <1>2, <1>5, DoneWaits, OthersHandled
  <2>2. QED
    BY <1>1, <1>2, <1>5, <2>1, HandlerDelivers
<1>6. CASE Advance(k, h)
  <2>1. HandledInv'
    BY <1>1, <1>4, <1>6, AdvanceOne, OthersHandled
  <2>2. QED
    BY <1>1, <1>2, <1>4, <1>6, <2>1, HandlerDelivers
<1>7. QED
  BY <1>4, <1>5, <1>6

(* When the counters say that nothing is unresolved, no row is.            *)
LEMMA NonePending ==
    ASSUME TInv, DInv, status # "draft", counts["pending"] = 0
    PROVE  RowsIn(Unresolved) = {}
<1> SUFFICES ASSUME NEW m \in Msgs, row[m].status \in Unresolved
             PROVE  FALSE
  BY DEF RowsIn
<1>1. PICK S \in SUBSET Msgs : S = SeenIn(Unresolved)
  BY DEF SeenIn
<1>2. Cardinality(S) = 0
  BY <1>1 DEF DInv, CountInv, Class, Counters
<1>3. S = {}
  BY <1>2, FinitelyMany, FS_Subset, FS_EmptySet
<1>4. PICK k \in UnderWay : k[1] = m
  BY <1>1, <1>3, UnderWayRows DEF DInv, Updating
<1>5. PICK p \in RowStatuses, s \in RowStatuses :
         /\ p = handler[k].prev /\ s = row[m].status /\ Moves(p, s)
         /\ m \in S <=> p \in Unresolved
  BY <1>1, <1>4, UnderWayRows DEF DInv
<1>6. p \in Unresolved
  BY <1>5, Ranks DEF Moves, RowStatuses, Unresolved
<1>7. QED
  BY <1>3, <1>5, <1>6

(* It ends the campaign.                                                   *)
LEMMA FinaliseDelivers ==
    ASSUME PlainDelivery, TInv, DInv, NEW k \in TopicKeys, Finalise(k)
    PROVE  DInv' /\ Forward
<1>1. /\ HandledInv /\ LifeInv /\ OverMeansResolved /\ handler[k].pc = "finalise" /\ Done(k)
      /\ UNCHANGED <<counts, row, starts, op, published, execute, sends, recorded, due>>
      /\ \/ status' = status
         \/ MayFinalise /\ status' \in {"completed", "failed"}
  BY DEF DInv, Finalise, whatsapp
<1>2. topic[k] # <<>> /\ Live(k)
  BY <1>1, HandlerHas DEF Live
<1>3. HandledInv'
  BY <1>1, <1>2, DoneWaits, OthersHandled
<1>4. status # "draft" /\ status # "scheduled"
  BY <1>1, <1>2, DraftSilent DEF DInv, LifeInv
<1>5. LifeInv'
  BY <1>1, <1>4, StartedLife
<1>6. OverMeansResolved'
  <2>1. CASE status' = status
    BY <1>1, <2>1, OverStays
  <2>2. CASE MayFinalise
    <3>1. RowsIn(Unresolved) = {}
      BY <1>4, <2>2, NonePending DEF MayFinalise, Counters
    <3>2. QED
      BY <1>1, <3>1 DEF OverMeansResolved, RowsIn
  <2>3. QED
    BY <1>1, <2>1, <2>2
<1>7. QED
  BY <1>1, <1>2, <1>3, <1>4, <1>5, <1>6, HandlerDelivers

(* Every step keeps the counters to the rows and moves messages forward.   *)
LEMMA NextDelivers ==
    ASSUME PlainDelivery, TInv, DInv, [Next]_vars
    PROVE  DInv' /\ Forward
<1>1. ~Fault("campaign_crash") /\ ~Fault("database")
  BY DEF PlainDelivery, Fault
<1>2. ASSUME NEW k \in TopicKeys, Consume(k) \/ HandlerError(k)
      PROVE  DInv' /\ Forward
  BY <1>1, <1>2, ReadRowDelivers, WriteRowDelivers, WriteCountersDelivers, ReloadDelivers,
     FinaliseDelivers DEF Consume, HandlerError
<1>3. CASE CampaignServiceCrash
  BY <1>1, <1>3 DEF CampaignServiceCrash
<1>4. CASE WhatsAppServiceCrash \/ UNCHANGED vars
  <2>1. UNCHANGED service /\ UNCHANGED <<execute, sends, recorded, due, topic>>
    BY <1>4 DEF WhatsAppServiceCrash, service, vars
  <2>2. SaidInv' /\ ToldInv' /\ HandledInv'
    BY <2>1, SaidSame, LiveSame, ToldSame DEF DInv, HandledInv, service
  <2>3. QED
    BY <2>1, <2>2, ServiceDelivers
<1>5. QED
  BY <1>2, <1>3, <1>4, RequestDelivers, OperateDelivers, WorkDelivers, WebhookDelivers, Zenon
  DEF Next

(* At the start there is nothing to count.                                 *)
LEMMA InitDelivers == PlainDelivery /\ Init => DInv
<1> SUFFICES ASSUME PlainDelivery, Init PROVE DInv
  OBVIOUS
<1>1. /\ \A id \in MetaIds : /\ due[id] = {} /\ id \in TopicKeys /\ id # None
                             /\ id[1] \in Msgs
      /\ \A m \in Msgs : row[m].meta = None /\ row[m].status = "absent"
      /\ \A k \in TopicKeys : topic[k] = <<>> /\ handler[k].pc = "idle" /\ k[1] \in Msgs
  BY Keys, NoneAssumption, IdleTypes DEF Init
<1>2. \A k \in TopicKeys : \A s : ~Waits(k, s)
  BY <1>1 DEF Waits
<1>3. SaidInv
  BY <1>1, <1>2 DEF SaidInv, Silent, Reports, Init
<1>4. \A k \in TopicKeys : ~Live(k)
  <2> SUFFICES ASSUME NEW k \in TopicKeys PROVE ~Live(k)
    OBVIOUS
  <2>1. k[2] # 0 => row[k[1]].meta # k
    BY <1>1, Keys
  <2>2. QED
    BY <1>1, <1>2, <2>1 DEF Live
<1>5. ToldInv
  BY <1>4 DEF ToldInv, Init
<1>6. RowInv
  BY <1>1 DEF RowInv
<1>7. HandledInv
  BY <1>1 DEF HandledInv
<1>8. LifeInv
  <2>1. \A r \in Requests : op[r].pc = "idle"
    BY IdleTypes DEF Init
  <2>2. QED
    BY <1>1, <2>1 DEF LifeInv, Init
<1>9. CountInv /\ OverMeansResolved
  BY DEF Init, CountInv, OverMeansResolved
<1>10. QED
  BY <1>3, <1>5, <1>6, <1>7, <1>8, <1>9 DEF DInv

(* The invariants hold of every delivery.                                  *)
LEMMA AlwaysDelivers == ASSUME PlainDelivery PROVE Spec => []DInv
<1>1. Init => DInv
  BY InitDelivers
<1>2. ASSUME TInv, DInv, [Next]_vars
      PROVE  DInv'
  BY <1>2, NextDelivers
<1>3. QED
  BY <1>1, <1>2, AlwaysTyped, PTL DEF Spec

(* The counters of a campaign are what its rows say, up to the updates     *)
(* that have written their row and not yet their counters, for every       *)
(* number of recipients, acceptances, early, late and repeated webhooks    *)
(* (processStatusUpdate).                                                  *)
THEOREM CountersFollowRows == ASSUME PlainDelivery PROVE Spec => []CountersMatchRows
<1>1. TInv /\ DInv => CountersMatchRows
  BY CountersAre DEF DInv
<1>2. QED
  BY <1>1, AlwaysTyped, AlwaysDelivers, PTL

(* A campaign is not declared over while one of its messages is unresolved *)
(* (the conditional update at the end of processStatusUpdate).             *)
THEOREM OverIsResolved == ASSUME PlainDelivery PROVE Spec => []OverMeansResolved
<1>1. DInv => OverMeansResolved
  BY DEF DInv
<1>2. QED
  BY <1>1, AlwaysDelivers, PTL

(* A message only moves forward, whatever order its webhooks come in       *)
(* (the rank that processStatusUpdate compares, and its unconditional      *)
(* write).                                                                 *)
THEOREM MessagesMoveForward == ASSUME PlainDelivery PROVE Spec => StatusMovesForward
<1>1. ASSUME TInv, DInv, [Next]_vars
      PROVE  [Forward]_vars
  BY <1>1, NextDelivers
<1>2. QED
  BY <1>1, AlwaysTyped, AlwaysDelivers, PTL DEF Spec, StatusMovesForward, Forward
==============================================================================
