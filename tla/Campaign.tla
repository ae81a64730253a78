------------------------------ MODULE Campaign ------------------------------
(***************************************************************************)
(* One campaign on its way through three processes and Kafka:              *)
(*   - campaign-service runs the operator's requests (start, pause,        *)
(*     resume, cancel, retry) and consumes the topic campaign.status;      *)
(*   - whatsapp-service consumes campaign.execute, sends each message to   *)
(*     Meta, and turns Meta's webhooks into campaign.status events;        *)
(*   - Meta accepts or refuses a message and reports on it later.          *)
(* A step is what happens between two awaits.  Sequelize writes only the   *)
(* columns whose new value differs from the snapshot the handler read, and *)
(* the snapshot is kept for that reason.                                   *)
(***************************************************************************)
EXTENDS Integers, Sequences, FiniteSets

CONSTANTS Recipients,    \* contacts the campaign resolves to
          Requests,      \* slots for operator requests in flight
          Ops,           \* operator requests that are made
          None,          \* NULL
          MaxRetries,    \* max_retries of a message
          Outcomes,      \* sets of statuses Meta may report on one message
          EarlyWebhooks, \* may Meta report before the worker has published?
          Faults,        \* what may go wrong, a subset of FaultKinds
          MaxStarts,     \* bound: times startCampaign inserts its rows
          MaxOps,        \* bound: operator requests
          MaxSends,      \* bound: acceptances of one message by Meta
          MaxFaults,     \* bound: faults
          MaxDuplicates  \* bound: webhooks Meta delivers again

FaultKinds == {"campaign_crash", "worker_crash", "publish", "lost_answer", "database"}

ASSUME BoundAssumption ==
    /\ {MaxRetries, MaxStarts, MaxOps, MaxSends, MaxFaults, MaxDuplicates} \subseteq Nat
    /\ EarlyWebhooks \in BOOLEAN
    /\ Faults \subseteq FaultKinds
ASSUME OpsAssumption == Ops \subseteq {"start", "pause", "resume", "cancel", "retry"}
ASSUME OutcomeAssumption ==
    Outcomes \subseteq SUBSET {"sent", "delivered", "read", "failed"} \ {{}}
ASSUME FiniteAssumption == IsFiniteSet(Recipients)

(* A campaign_messages row is named by its contact and the start that      *)
(* inserted it.  A key of campaign.status is the row's id, <<m, 0>>, or    *)
(* the id Meta gave to the n-th acceptance of the row, <<m, n>>.           *)
Msgs == Recipients \X (1 .. MaxStarts)
MetaIds == Msgs \X (1 .. MaxSends)
TopicKeys == Msgs \X (0 .. MaxSends)

ASSUME NoneAssumption == None \notin MetaIds

VARIABLES status,     \* campaigns.status
          counts,     \* the aggregate counters of the campaign
          row,        \* campaign_messages
          starts,     \* batches of rows inserted
          op,         \* operator requests in flight
          execute,    \* campaign.execute events not consumed yet, per row
          published,  \* campaign.execute events ever published, per row
          worker,     \* where whatsapp-service is with a row's event
          sends,      \* acceptances by Meta, per row
          recorded,   \* Meta ids stored in wa_messages
          due,        \* statuses Meta has yet to report
          missed,     \* history: a report of Meta found no row, in wa_messages or here
          topic,      \* campaign.status, one queue per key
          handler,    \* the consumer of campaign.status, per key
          opsBegun, faults, redelivered, duplicates  \* what the bounds count

vars == <<status, counts, row, starts, op, execute, published, worker, sends,
          recorded, due, missed, topic, handler, opsBegun, faults, redelivered, duplicates>>
whatsapp == <<execute, worker, sends, recorded, due, missed>>
bounds == <<opsBegun, faults, redelivered, duplicates>>

-----------------------------------------------------------------------------
Unresolved == {"pending", "queued"}
RowStatuses == Unresolved \union {"sent", "delivered", "read", "failed"}
Counters == {"sent", "delivered", "read", "failed", "pending"}

TypeOK ==
    /\ status \in {"draft", "scheduled", "running", "paused", "completed", "failed", "cancelled"}
    /\ counts \in [Counters -> Nat]
    /\ row \in [Msgs -> [status : RowStatuses \union {"absent"},
                         meta : MetaIds \union {None}, retries : Nat]]
    /\ starts \in 0 .. MaxStarts
    /\ op \in [Requests -> [pc : {"idle", "insert", "find", "tally", "conclude", "mark",
                                  "publish", "pause", "fail_rows", "cancel",
                                  "select", "reset", "rerun"},
                            rows : SUBSET Msgs, number : Nat, pending : Nat]]
    /\ execute \in [Msgs -> Nat]
    /\ published \in [Msgs -> Nat]
    /\ worker \in [Msgs -> {"idle", "sending", "accepted", "recorded", "refused"}]
    /\ sends \in [Msgs -> 0 .. MaxSends]
    /\ recorded \subseteq MetaIds /\ missed \in BOOLEAN
    /\ due \in [MetaIds -> SUBSET RowStatuses]
    /\ topic \in [TopicKeys -> Seq(RowStatuses)]
    /\ handler \in [TopicKeys -> [pc : {"idle", "write", "count", "reload", "finalise"},
                                  prev : RowStatuses \union {None}, fresh : BOOLEAN,
                                  failed : BOOLEAN]]
    /\ opsBegun \in 0 .. MaxOps
    /\ faults \in 0 .. MaxFaults
    /\ redelivered \in [Msgs -> Nat]
    /\ duplicates \in 0 .. MaxDuplicates

-----------------------------------------------------------------------------
(* campaign-service: the operator's requests.                              *)

RowsIn(statuses) == {m \in Msgs : row[m].status \in statuses}

IdleOp == [pc |-> "idle", rows |-> {}, number |-> 0, pending |-> 0]

(* The statuses a request accepts, and its first step.                     *)
Accepts(name) == CASE name = "start" -> {"draft", "scheduled"}
                   [] name = "pause" -> {"running"}
                   [] name = "resume" -> {"paused"}
                   [] name = "cancel" -> {"draft", "scheduled", "running", "paused"}
                   [] name = "retry" -> {"completed", "failed", "paused"}
FirstStep(name) == CASE name = "start" -> "insert"
                     [] name = "pause" -> "pause"
                     [] name = "resume" -> "find"
                     [] name = "cancel" -> "fail_rows"
                     [] name = "retry" -> "select"

Goto(r, step, rows, number) ==
    op' = [op EXCEPT ![r] = [@ EXCEPT !.pc = step, !.rows = rows, !.number = number]]
Finish(r) == op' = [op EXCEPT ![r] = IdleOp]

(* instance.update leaves a column alone when the snapshot has the value.  *)
Assigned(snapshot, current, value) == IF value = snapshot THEN current ELSE value

Request(r, name) ==
    /\ name \in Ops
    /\ opsBegun < MaxOps
    /\ op[r].pc = "idle"
    /\ status \in Accepts(name)
    /\ op' = [op EXCEPT ![r] = [pc |-> FirstStep(name), rows |-> {}, number |-> 0,
                                pending |-> counts.pending]]
    /\ opsBegun' = opsBegun + 1
    /\ UNCHANGED <<status, counts, row, starts, whatsapp, published, topic, handler,
                   faults, redelivered, duplicates>>

(* A check of the account, the template or the wallet fails the request.   *)
Reject(r) ==
    /\ op[r].pc \in {"insert", "find", "select"}
    /\ Finish(r)
    /\ UNCHANGED <<status, counts, row, starts, whatsapp, published, topic, handler, bounds>>

(* startCampaign.                                                          *)
InsertRows(r) ==
    LET batch == Recipients \X {starts + 1}
    IN  /\ op[r].pc = "insert"
        /\ starts < MaxStarts
        /\ starts' = starts + 1
        /\ row' = [m \in Msgs |-> IF m \in batch
                                  THEN [status |-> "pending", meta |-> None, retries |-> 0]
                                  ELSE row[m]]
        /\ Goto(r, "mark", batch, 0)
        /\ UNCHANGED <<status, counts, whatsapp, published, topic, handler, bounds>>

(* startCampaign and resumeCampaign: the campaign runs, then the rows go   *)
(* to Kafka.                                                               *)
MarkRunning(r) ==
    /\ op[r].pc = "mark"
    /\ status' = "running"
    /\ counts' = [counts EXCEPT !.pending =
                    Assigned(op[r].pending, @, Cardinality(op[r].rows))]
    /\ Goto(r, "publish", op[r].rows, 0)
    /\ UNCHANGED <<row, starts, whatsapp, published, topic, handler, bounds>>

(* Kafka may refuse some of the events; the request then fails there.      *)
Publish(r) ==
    \E sent \in SUBSET op[r].rows :
        /\ op[r].pc = "publish"
        /\ \/ sent = op[r].rows /\ UNCHANGED faults
           \/ "publish" \in Faults /\ faults < MaxFaults /\ faults' = faults + 1
        /\ execute' = [m \in Msgs |-> execute[m] + IF m \in sent THEN 1 ELSE 0]
        /\ published' = [m \in Msgs |-> published[m] + IF m \in sent THEN 1 ELSE 0]
        /\ Finish(r)
        /\ UNCHANGED <<status, counts, row, starts, worker, sends, recorded, due, missed,
                       topic, handler, opsBegun, redelivered, duplicates>>

(* pauseCampaign.                                                          *)
Pause(r) ==
    /\ op[r].pc = "pause"
    /\ status' = "paused"
    /\ Finish(r)
    /\ UNCHANGED <<counts, row, starts, whatsapp, published, topic, handler, bounds>>

(* resumeCampaign.                                                         *)
FindPending(r) ==
    LET found == RowsIn({"pending"})
    IN  /\ op[r].pc = "find"
        /\ Goto(r, IF found = {} THEN "tally" ELSE "mark", found, 0)
        /\ UNCHANGED <<status, counts, row, starts, whatsapp, published, topic, handler, bounds>>

TallyFailed(r) ==
    /\ op[r].pc = "tally"
    /\ Goto(r, "conclude", {}, Cardinality(RowsIn({"failed"})))
    /\ UNCHANGED <<status, counts, row, starts, whatsapp, published, topic, handler, bounds>>

Conclude(r) ==
    /\ op[r].pc = "conclude"
    /\ status' = IF op[r].number > 0 THEN "failed" ELSE "completed"
    /\ counts' = [counts EXCEPT !.pending = Assigned(op[r].pending, @, 0)]
    /\ Finish(r)
    /\ UNCHANGED <<row, starts, whatsapp, published, topic, handler, bounds>>

(* cancelCampaign.                                                         *)
FailRows(r) ==
    LET hit == RowsIn(Unresolved)
    IN  /\ op[r].pc = "fail_rows"
        /\ row' = [m \in Msgs |-> IF m \in hit THEN [row[m] EXCEPT !.status = "failed"]
                                  ELSE row[m]]
        /\ Goto(r, "cancel", {}, Cardinality(hit))
        /\ UNCHANGED <<status, counts, starts, whatsapp, published, topic, handler, bounds>>

Cancel(r) ==
    /\ op[r].pc = "cancel"
    /\ status' = "cancelled"
    /\ counts' = [counts EXCEPT !.failed = @ + op[r].number,
                                !.pending = Assigned(op[r].pending, @, 0)]
    /\ Finish(r)
    /\ UNCHANGED <<row, starts, whatsapp, published, topic, handler, bounds>>

(* retryCampaign.                                                          *)
SelectFailed(r) ==
    LET found == {m \in RowsIn({"failed"}) : row[m].retries < MaxRetries}
    IN  /\ op[r].pc = "select"
        /\ IF found = {} THEN Finish(r) ELSE Goto(r, "reset", found, 0)
        /\ UNCHANGED <<status, counts, row, starts, whatsapp, published, topic, handler, bounds>>

ResetRows(r) ==
    /\ op[r].pc = "reset"
    /\ row' = [m \in Msgs |-> IF m \in op[r].rows
                              THEN [row[m] EXCEPT !.status = "pending", !.retries = @ + 1]
                              ELSE row[m]]
    /\ Goto(r, "rerun", op[r].rows, 0)
    /\ UNCHANGED <<status, counts, starts, whatsapp, published, topic, handler, bounds>>

(* Mutant: a plain difference.                                             *)
LessUnbounded(a, b) == a - b

(* GREATEST(a - b, 0)                                                      *)
Less(a, b) == IF a > b THEN a - b ELSE 0

Rerun(r) ==
    LET n == Cardinality(op[r].rows)
    IN  /\ op[r].pc = "rerun"
        /\ status' = "running"
        /\ counts' = [counts EXCEPT !.failed = Less(@, n), !.pending = @ + n]
        /\ Goto(r, "publish", op[r].rows, 0)
        /\ UNCHANGED <<row, starts, whatsapp, published, topic, handler, bounds>>

Operate(r) == \/ InsertRows(r) \/ MarkRunning(r) \/ Publish(r) \/ Pause(r)
              \/ FindPending(r) \/ TallyFailed(r) \/ Conclude(r)
              \/ FailRows(r) \/ Cancel(r)
              \/ SelectFailed(r) \/ ResetRows(r) \/ Rerun(r)

-----------------------------------------------------------------------------
(* whatsapp-service: the consumer of campaign.execute.  Every key is its   *)
(* own queue, the most concurrency Kafka's partitions allow.               *)
service == <<status, counts, row, starts, op, published, handler>>

Send(k, s) == topic' = [topic EXCEPT ![k] = Append(@, s)]

Step(m, to) == worker' = [worker EXCEPT ![m] = to]

(* Mutant: the offset of a consumed event is not committed.                *)
ConsumedUncommitted(m) == Step(m, "idle") /\ UNCHANGED execute

Consumed(m) == Step(m, "idle") /\ execute' = [execute EXCEPT ![m] = @ - 1]

(* getCampaignExecutionDispatchState.                                      *)
Executable(m) == status = "running" /\ row[m].status \in Unresolved

Dispatch(m) ==
    /\ worker[m] = "idle"
    /\ execute[m] > 0
    /\ IF Executable(m) THEN Step(m, "sending") /\ UNCHANGED execute ELSE Consumed(m)
    /\ UNCHANGED <<service, sends, recorded, due, missed, topic, bounds>>

(* performAccountedSend: Meta takes the message and gives it an id, or the *)
(* account, the wallet or Meta refuses it; when Meta's answer is lost, the *)
(* message counts as refused.                                              *)
Accept(m) ==
    /\ worker[m] = "sending"
    /\ sends[m] < MaxSends
    /\ sends' = [sends EXCEPT ![m] = @ + 1]
    /\ \E outcome \in Outcomes : due' = [due EXCEPT ![<<m, sends[m] + 1>>] = outcome]
    /\ \/ Step(m, "accepted") /\ UNCHANGED faults
       \/ "lost_answer" \in Faults /\ faults < MaxFaults
          /\ Step(m, "refused") /\ faults' = faults + 1
    /\ UNCHANGED <<service, execute, recorded, missed, topic, opsBegun, redelivered, duplicates>>

Refuse(m) ==
    /\ worker[m] = "sending"
    /\ Step(m, "refused")
    /\ UNCHANGED <<service, execute, sends, recorded, due, missed, topic, bounds>>

(* Meta's id is stored, then the usage is counted.  When one of them fails, *)
(* the message counts as refused although Meta has it.                     *)
Record(m) ==
    /\ worker[m] = "accepted"
    /\ \/ /\ recorded' = recorded \union {<<m, sends[m]>>}
          /\ Step(m, "recorded")
          /\ UNCHANGED faults
       \/ /\ "database" \in Faults /\ faults < MaxFaults
          /\ recorded' \in {recorded, recorded \union {<<m, sends[m]>>}}
          /\ Step(m, "refused")
          /\ faults' = faults + 1
    /\ UNCHANGED <<service, execute, sends, due, missed, topic, opsBegun, redelivered, duplicates>>

(* The status is told to campaign-service; a failure to publish is logged. *)
Tell(m) ==
    /\ worker[m] \in {"recorded", "refused"}
    /\ \/ /\ IF worker[m] = "recorded" THEN Send(<<m, sends[m]>>, "queued")
                                       ELSE Send(<<m, 0>>, "failed")
          /\ UNCHANGED faults
       \/ /\ "publish" \in Faults /\ faults < MaxFaults
          /\ faults' = faults + 1
          /\ UNCHANGED topic
    /\ Consumed(m)
    /\ UNCHANGED <<service, sends, recorded, due, missed, opsBegun, redelivered, duplicates>>

Work(m) == Dispatch(m) \/ Accept(m) \/ Refuse(m) \/ Record(m) \/ Tell(m)

(* Meta reports, in any order, perhaps twice; the webhook handler drops a  *)
(* report whose id is in no wa_messages row, and one it cannot publish.    *)
Webhook(id, s) ==
    LET m == id[1]
    IN  /\ s \in due[id]
        /\ EarlyWebhooks \/ id[2] < sends[m] \/ worker[m] \notin {"accepted", "recorded"}
        /\ \/ due' = [due EXCEPT ![id] = @ \ {s}] /\ UNCHANGED duplicates
           \/ duplicates < MaxDuplicates /\ duplicates' = duplicates + 1 /\ UNCHANGED due
        /\ \/ id \in recorded /\ Send(id, s) /\ UNCHANGED <<missed, faults>>
           \/ /\ id \notin recorded
              /\ missed' = TRUE
              /\ UNCHANGED <<topic, faults>>
           \/ /\ id \in recorded
              /\ "publish" \in Faults /\ faults < MaxFaults
              /\ faults' = faults + 1
              /\ UNCHANGED <<missed, topic>>
        /\ UNCHANGED <<service, execute, worker, sends, recorded, opsBegun, redelivered>>

-----------------------------------------------------------------------------
(* campaign-service: the consumer of campaign.status.                      *)
IdleHandler == [pc |-> "idle", prev |-> None, fresh |-> FALSE, failed |-> FALSE]

Rank(s) == CASE s = "pending" -> 0 [] s = "queued" -> 1 [] s = "sent" -> 2
             [] s = "delivered" -> 3 [] s = "read" -> 4 [] s = "failed" -> -1

(* handleStatusUpdate: the worker's events carry the row's id, a webhook's *)
(* only the id that Meta gave.                                             *)
Matches(k, s) == k[2] = 0 \/ s = "queued" \/ row[k[1]].meta = k

(* Mutant: a late report of an earlier status is applied.                  *)
IgnoredIfSame(prev, s, fresh) ==
    \/ s = prev /\ ~fresh
    \/ prev = "failed" /\ s # "failed"

(* processStatusUpdate: the updates it ignores.                            *)
Ignored(prev, s, fresh) ==
    \/ s = prev /\ ~fresh
    \/ prev = "failed" /\ s # "failed"
    \/ s # "failed" /\ Rank(s) <= Rank(prev) /\ prev \notin Unresolved

(* Mutant: "sent" keeps its count when the message is delivered.           *)
CountedTwice(c, prev, s) ==
    LET left == IF prev \in Unresolved /\ s \notin Unresolved THEN {"pending"} ELSE {}
    IN  [x \in Counters |->
            Less(c[x], IF x \in left THEN 1 ELSE 0) + IF x = s THEN 1 ELSE 0]

(* Mutant: a message counts as resolved when it is queued.                 *)
CountedAtQueue(c, prev, s) ==
    LET left == IF prev \in Unresolved /\ s # "pending" THEN {"pending"}
                ELSE {prev} \intersect {"sent", "delivered"}
    IN  [x \in Counters |->
            Less(c[x], IF x \in left THEN 1 ELSE 0) + IF x = s THEN 1 ELSE 0]

(* Mutant: only a message that was never queued leaves pending_count.      *)
CountedIfPending(c, prev, s) ==
    LET left == IF prev = "pending" /\ s \notin Unresolved THEN {"pending"}
                ELSE {prev} \intersect {"sent", "delivered"}
    IN  [x \in Counters |->
            Less(c[x], IF x \in left THEN 1 ELSE 0) + IF x = s THEN 1 ELSE 0]

Counted(c, prev, s) ==
    LET left == IF prev \in Unresolved /\ s \notin Unresolved THEN {"pending"}
                ELSE {prev} \intersect {"sent", "delivered"}
    IN  [x \in Counters |->
            Less(c[x], IF x \in left THEN 1 ELSE 0) + IF x = s THEN 1 ELSE 0]

Advance(k, h) == handler' = [handler EXCEPT ![k] = h] /\ UNCHANGED topic
Done(k) == /\ handler' = [handler EXCEPT ![k] = IdleHandler]
           /\ topic' = [topic EXCEPT ![k] = Tail(@)]

ReadRow(k) ==
    LET s == Head(topic[k])
        seen == row[k[1]]
        fresh == k[2] # 0 /\ seen.meta = None
    IN  /\ handler[k].pc = "idle"
        /\ topic[k] # <<>>
        /\ IF ~Matches(k, s) \/ Ignored(seen.status, s, fresh)
           THEN Done(k)
           ELSE Advance(k, [IdleHandler EXCEPT !.pc = "write", !.prev = seen.status,
                                               !.fresh = fresh])
        /\ missed' = (missed \/ ~Matches(k, s))
        /\ UNCHANGED <<status, counts, row, starts, op, published, execute, worker, sends,
                       recorded, due, bounds>>

WriteRow(k) ==
    LET s == Head(topic[k])
        h == handler[k]
    IN  /\ h.pc = "write"
        /\ row' = [row EXCEPT ![k[1]].status = Assigned(h.prev, @, s),
                              ![k[1]].meta = IF h.fresh THEN k ELSE @]
        /\ Advance(k, [h EXCEPT !.pc = "count"])
        /\ UNCHANGED <<status, counts, starts, op, published, whatsapp, bounds>>

WriteCounters(k) ==
    LET h == handler[k]
    IN  /\ h.pc = "count"
        /\ counts' = Counted(counts, h.prev, Head(topic[k]))
        /\ Advance(k, [h EXCEPT !.pc = "reload"])
        /\ UNCHANGED <<status, row, starts, op, published, whatsapp, bounds>>

MayFinalise == counts.pending = 0 /\ status \notin {"draft", "scheduled", "cancelled"}

Reload(k) ==
    LET h == handler[k]
    IN  /\ h.pc = "reload"
        /\ IF MayFinalise
           THEN Advance(k, [h EXCEPT !.pc = "finalise", !.failed = counts.failed > 0])
           ELSE Done(k)
        /\ UNCHANGED <<status, counts, row, starts, op, published, whatsapp, bounds>>

(* Mutant: the final update has no condition of its own.                   *)
FinaliseAnyway(k) ==
    /\ handler[k].pc = "finalise"
    /\ status' = IF handler[k].failed THEN "failed" ELSE "completed"
    /\ Done(k)
    /\ UNCHANGED <<counts, row, starts, op, published, whatsapp, bounds>>

Finalise(k) ==
    /\ handler[k].pc = "finalise"
    /\ IF MayFinalise
       THEN status' = IF handler[k].failed THEN "failed" ELSE "completed"
       ELSE UNCHANGED status
    /\ Done(k)
    /\ UNCHANGED <<counts, row, starts, op, published, whatsapp, bounds>>

Consume(k) == ReadRow(k) \/ WriteRow(k) \/ WriteCounters(k) \/ Reload(k) \/ Finalise(k)

-----------------------------------------------------------------------------
(* Faults.                                                                 *)
Fault(kind) == kind \in Faults /\ faults < MaxFaults /\ faults' = faults + 1

(* Requests die; Kafka delivers again what was not committed.              *)
CampaignServiceCrash ==
    /\ Fault("campaign_crash")
    /\ (\E r \in Requests : op[r] # IdleOp) \/ (\E k \in TopicKeys : handler[k] # IdleHandler)
    /\ op' = [r \in Requests |-> IdleOp]
    /\ handler' = [k \in TopicKeys |-> IdleHandler]
    /\ UNCHANGED <<status, counts, row, starts, published, whatsapp, topic,
                   opsBegun, redelivered, duplicates>>

WhatsAppServiceCrash ==
    LET busy == {m \in Msgs : worker[m] # "idle"}
    IN  /\ Fault("worker_crash")
        /\ busy # {}
        /\ worker' = [m \in Msgs |-> "idle"]
        /\ redelivered' = [m \in Msgs |-> redelivered[m] + IF m \in busy THEN 1 ELSE 0]
        /\ UNCHANGED <<service, execute, sends, recorded, due, missed, topic, opsBegun, duplicates>>

(* An error of the consumer is logged and the event is committed.          *)
HandlerError(k) ==
    /\ Fault("database")
    /\ topic[k] # <<>>
    /\ Done(k)
    /\ UNCHANGED <<status, counts, row, starts, op, published, whatsapp,
                   opsBegun, redelivered, duplicates>>

-----------------------------------------------------------------------------
Init ==
    /\ status = "draft"
    /\ counts = [x \in Counters |-> 0]
    /\ row = [m \in Msgs |-> [status |-> "absent", meta |-> None, retries |-> 0]]
    /\ starts = 0
    /\ op = [r \in Requests |-> IdleOp]
    /\ execute = [m \in Msgs |-> 0]
    /\ published = [m \in Msgs |-> 0]
    /\ worker = [m \in Msgs |-> "idle"]
    /\ sends = [m \in Msgs |-> 0]
    /\ recorded = {} /\ missed = FALSE
    /\ due = [id \in MetaIds |-> {}]
    /\ topic = [k \in TopicKeys |-> <<>>]
    /\ handler = [k \in TopicKeys |-> IdleHandler]
    /\ opsBegun = 0 /\ faults = 0 /\ duplicates = 0
    /\ redelivered = [m \in Msgs |-> 0]

Next == \/ \E r \in Requests, name \in Ops : Request(r, name)
        \/ \E r \in Requests : Reject(r) \/ Operate(r)
        \/ \E m \in Msgs : Work(m)
        \/ \E id \in MetaIds, s \in RowStatuses : Webhook(id, s)
        \/ \E k \in TopicKeys : Consume(k) \/ HandlerError(k)
        \/ CampaignServiceCrash
        \/ WhatsAppServiceCrash

Spec == Init /\ [][Next]_vars

(* A request under way goes on, both consumers keep consuming and Meta     *)
(* reports what it owes.  Nobody is obliged to make a request.             *)
Fairness == /\ \A r \in Requests : WF_vars(Operate(r))
            /\ \A m \in Msgs : WF_vars(Work(m))
            /\ \A id \in MetaIds : WF_vars(\E s \in RowStatuses : Webhook(id, s))
            /\ \A k \in TopicKeys : WF_vars(Consume(k))

FairSpec == Spec /\ Fairness

-----------------------------------------------------------------------------
(* Properties.                                                             *)

CountIn(statuses) == Cardinality(RowsIn(statuses))
CountsOfRows == [x \in Counters |-> CountIn(IF x = "pending" THEN Unresolved ELSE {x})]

(* What the counters will be when the updates under way have been counted. *)
UnderWay == {k \in TopicKeys : handler[k].pc = "count"}
Owed(x) == Cardinality({k \in UnderWay : Head(topic[k]) = x})
Covered(x) == Cardinality({k \in UnderWay :
                 x \in IF handler[k].prev \in Unresolved /\ Head(topic[k]) \notin Unresolved
                       THEN {"pending"} ELSE {handler[k].prev} \intersect {"sent", "delivered"}})

(* Once the campaign runs, its counters are what its rows say, up to the   *)
(* updates that have written their row and not yet their counters, in any  *)
(* interleaving of reordered, repeated and early webhooks                  *)
(* (processStatusUpdate).                                                  *)
CountersMatchRows ==
    status \notin {"draft", "scheduled"} =>
        \A x \in Counters : counts[x] + Owed(x) - Covered(x) = CountsOfRows[x]

(* A campaign is not declared over while one of its messages is unresolved *)
(* (the conditional update at the end of processStatusUpdate).             *)
OverMeansResolved ==
    status \in {"completed", "failed"} => RowsIn(Unresolved) = {}

(* A message only moves forward, whatever order its webhooks come in, and  *)
(* leaves "failed" only by a retry.                                        *)
StatusMovesForward ==
    [][\A m \in Msgs :
          row'[m].status # row[m].status =>
              \/ row[m].status = "absent"
              \/ row'[m].status = "failed"
              \/ row[m].status = "failed" /\ row'[m].retries > row[m].retries
              \/ row[m].status # "failed" /\ Rank(row'[m].status) > Rank(row[m].status)]_vars

(* Every message Meta accepted was asked for: an event of campaign.execute *)
(* is acted on once, and once more only after a crash of whatsapp-service. *)
SendsWithinPublications ==
    \A m \in Msgs : sends[m] <= published[m] + redelivered[m]

(* With requests made one at a time, a cancelled campaign stays cancelled  *)
(* although status events keep arriving for it.                            *)
CancelledIsFinal == [][status = "cancelled" => status' = "cancelled"]_vars

(* A campaign that was started is over at some time, when nothing dies and *)
(* no report of Meta came too early to find its row.                       *)
StartedIsOver == (status = "running") ~> (status \in {"completed", "failed"} \/ missed)

(* Nothing is under way in campaign-service and no status is waiting.      *)
AtRest == /\ \A r \in Requests : op[r] = IdleOp
          /\ \A k \in TopicKeys : topic[k] = <<>>

(* "Keep pending_count aligned with unresolved pending/queued work."       *)
PendingCountAligned ==
    (AtRest /\ status \in {"running", "paused"}) => counts["pending"] = CountIn(Unresolved)

(* "Only retries messages where retry_count < max_retries" (retryCampaign). *)
OnlyRetriedBelowLimit ==
    [][\A m \in Msgs : row'[m].retries > row[m].retries => row[m].retries < MaxRetries]_vars

(* "Updates the message status and campaign aggregate counters             *)
(* atomically."                                                            *)
UpdatesAreAtomic ==
    (AtRest /\ status \notin {"draft", "scheduled"}) => counts = CountsOfRows
==============================================================================
