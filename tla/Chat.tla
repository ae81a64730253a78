-------------------------------- MODULE Chat --------------------------------
(***************************************************************************)
(* chat-service: the conversation of one contact with one WhatsApp         *)
(* account.  The service consumes two topics at least once: inbound        *)
(* messages, in one partition per account, and statuses, in the partition  *)
(* of their message; partitions are consumed in parallel, and when they    *)
(* are reassigned an event in hand is delivered to another consumer as     *)
(* well.  Agents send, close and read the conversation meanwhile.          *)
(***************************************************************************)
EXTENDS Integers, Sequences, FiniteSets, SequencesExt

CONSTANTS Inbound,        \* Meta ids of the contact's messages
          Sent,           \* Meta ids of agents' messages
          Campaign,       \* Meta ids of campaign messages, which wa_messages has
          Workers,        \* handlers in flight
          Reported,       \* statuses Meta reports
          None,           \* "no message"
          MaxDeliveries,  \* bound: events delivered
          MaxFaults       \* bound: reassigned partitions, failed statements, lost
                          \* answers and crashes

Ids == Inbound \union Sent \union Campaign

ASSUME IdAssumption == /\ None \notin Ids
                       /\ Inbound \intersect (Sent \union Campaign) = {}
                       /\ Sent \intersect Campaign = {}
ASSUME ReportedAssumption == Reported \subseteq {"queued", "sent", "delivered", "read", "failed"}

VARIABLES conversations,  \* chat_conversations
          messages,       \* chat_messages, in the order of insertion
          accepted,       \* agents' messages Meta has accepted
          worker,         \* handlers in flight
          unseen,         \* history: inbound messages counted since the last reading
          tally,          \* history: how often an inbound message was counted
          doubtful,       \* history: messages whose handler ended before counting
          hasty,          \* history: conversations last read before the message that
                          \* opened them was counted
          overlapped,     \* history: a partition was consumed twice at once
          deliveries, faults

vars == <<conversations, messages, accepted, worker, unseen, tally, doubtful, hasty,
          overlapped, deliveries, faults>>
history == <<unseen, tally, doubtful, hasty, overlapped>>

Statuses == {"pending", "sent", "delivered", "read", "failed"}
Conversation == [closed : BOOLEAN, unread : Nat]
Message == [id : Ids, linked : BOOLEAN, status : Statuses]

(* The rows found by meta_message_id.                                      *)
RowsOf(id) == {k \in DOMAIN messages : messages[k].id = id /\ messages[k].linked}

Order(status) == CASE status = "sent" -> 1 [] status = "delivered" -> 2
                   [] status = "read" -> 3 [] status = "failed" -> 4 [] OTHER -> 0

(* Mutant: "queued" is stored as it comes.                                 *)
AsReported(status) == status

Normal(status) == IF status = "queued" THEN "pending" ELSE status

Worker == [pc : {"idle", "converse", "open", "lookup", "insert", "count",
                 "find", "move", "send", "link"},
           id : Ids \union {None}, status : Statuses, conv : Nat, created : BOOLEAN,
           closed : BOOLEAN, row : Nat, copy : Statuses]
Idle == [pc |-> "idle", id |-> None, status |-> "pending", conv |-> 0, created |-> FALSE,
         closed |-> FALSE, row |-> 0, copy |-> "pending"]

TypeOK == /\ conversations \in Seq(Conversation)
          /\ messages \in Seq(Message)
          /\ accepted \subseteq Sent
          /\ worker \in [Workers -> Worker]
          /\ \A w \in Workers : /\ worker[w].row \in 0 .. Len(messages)
                                /\ worker[w].conv \in 0 .. Len(conversations)
          /\ unseen \subseteq Inbound \X (1 .. Len(conversations))
          /\ tally \in [Inbound -> Nat]
          /\ doubtful \subseteq Inbound
          /\ hasty \subseteq 1 .. Len(conversations)
          /\ overlapped \in BOOLEAN
          /\ deliveries \in Nat /\ faults \in Nat

Fault == faults < MaxFaults /\ faults' = faults + 1
NoFault == UNCHANGED faults

At(w, step) == worker[w].pc = step
Goto(w, step) == worker' = [worker EXCEPT ![w].pc = step]
Done(w) == worker' = [worker EXCEPT ![w] = Idle]

-----------------------------------------------------------------------------
(* Deliveries.                                                             *)

AgentSteps == {"send", "link"}

(* The events of a partition in hand: inbound messages share one.          *)
SamePartition(id) ==
    {w \in Workers : /\ ~ At(w, "idle") /\ worker[w].pc \notin AgentSteps
                     /\ \/ worker[w].id = id
                        \/ {id, worker[w].id} \subseteq Inbound}

Deliver(w, id, step, status) ==
    /\ At(w, "idle")
    /\ deliveries < MaxDeliveries
    /\ worker' = [worker EXCEPT ![w] = [Idle EXCEPT !.pc = step, !.id = id,
                                                   !.status = Normal(status)]]
    /\ \/ SamePartition(id) = {} /\ NoFault /\ UNCHANGED overlapped
       \/ SamePartition(id) # {} /\ Fault /\ overlapped' = TRUE
    /\ deliveries' = deliveries + 1
    /\ UNCHANGED <<conversations, messages, accepted, unseen, tally, doubtful, hasty>>

DeliverInbound(w) == \E id \in Inbound : Deliver(w, id, "converse", "pending")

DeliverStatus(w) ==
    \E id \in accepted \union Campaign, status \in Reported : Deliver(w, id, "find", status)

-----------------------------------------------------------------------------
(* handleInboundMessage, and the part of handleStatusUpdate that brings a  *)
(* campaign message into the conversation (syncCampaignOutboundMessage).   *)
(* findOrCreate finds, then creates: no index makes a conversation unique. *)

FindConversation(w) ==
    /\ At(w, "converse")
    /\ \/ conversations = <<>> /\ Goto(w, "open")
       \/ \E c \in DOMAIN conversations :
             worker' = [worker EXCEPT ![w].pc = "lookup", ![w].conv = c,
                                      ![w].closed = conversations[c].closed]
    /\ UNCHANGED <<conversations, messages, accepted, history, deliveries, faults>>

OpenConversation(w) ==
    /\ At(w, "open")
    /\ conversations' = Append(conversations,
          [closed |-> FALSE, unread |-> IF worker[w].id \in Inbound THEN 1 ELSE 0])
    /\ worker' = [worker EXCEPT ![w].pc = "lookup", ![w].created = TRUE,
                                ![w].conv = Len(conversations) + 1]
    /\ UNCHANGED <<messages, accepted, history, deliveries, faults>>

(* What follows when the row of the message is there: nothing for an       *)
(* inbound one, the status for a campaign's.                               *)
Found(w, row) ==
    worker' = [worker EXCEPT ![w] =
        IF @.id \in Inbound THEN Idle
        ELSE [@ EXCEPT !.pc = "move", !.row = row, !.copy = messages[row].status]]

Lookup(w) ==
    LET rows == RowsOf(worker[w].id)
    IN  /\ At(w, "lookup")
        /\ \/ rows = {} /\ Goto(w, "insert")
           \/ \E row \in rows : Found(w, row)
        /\ UNCHANGED <<conversations, messages, accepted, history, deliveries, faults>>

NewMessage(w) ==
    [id |-> worker[w].id, linked |-> TRUE,
     status |-> IF worker[w].id \in Inbound THEN "delivered" ELSE worker[w].status]

(* A campaign's row is made with the status in hand, and nothing remains   *)
(* to be done; an inbound message is then counted.                         *)
Stored(w) ==
    /\ messages' = Append(messages, NewMessage(w))
    /\ IF worker[w].id \in Inbound THEN Goto(w, "count") ELSE Done(w)

(* Mutant: no unique index on (user_id, meta_message_id).                  *)
InsertBlindly(w) ==
    /\ At(w, "insert")
    /\ Stored(w)
    /\ UNCHANGED <<conversations, accepted, history, deliveries, faults>>

(* Mutant: a row that is already there is counted all the same.            *)
InsertOrCount(w) ==
    LET rows == RowsOf(worker[w].id)
    IN  /\ At(w, "insert")
        /\ \/ rows = {} /\ Stored(w)
           \/ rows # {} /\ Goto(w, "count") /\ UNCHANGED messages
        /\ UNCHANGED <<conversations, accepted, history, deliveries, faults>>

(* The unique index on (user_id, meta_message_id) refuses a second row.    *)
Insert(w) ==
    LET rows == RowsOf(worker[w].id)
    IN  /\ At(w, "insert")
        /\ \/ rows = {} /\ Stored(w)
           \/ \E row \in rows : Found(w, row) /\ UNCHANGED messages
        /\ UNCHANGED <<conversations, accepted, history, deliveries, faults>>

Counted(w) ==
    LET id == worker[w].id
    IN  /\ unseen' = unseen \union {<<id, worker[w].conv>>}
        /\ tally' = [tally EXCEPT ![id] = @ + 1]
        /\ Done(w)
        /\ UNCHANGED <<messages, accepted, doubtful, hasty, overlapped, deliveries, faults>>

(* Mutant: the count that was read is written back, whatever it has become.*)
CountAfresh(w) ==
    LET c == worker[w].conv
    IN  /\ At(w, "count")
        /\ conversations' = [conversations EXCEPT ![c] =
              [closed |-> @.closed /\ ~ worker[w].closed, unread |-> 1]]
        /\ Counted(w)

(* A closed conversation is reopened, if it was closed when it was found.  *)
(* One that was just opened counts its first message from the start: the   *)
(* instance in hand holds 1, and Sequelize writes no column that is set to *)
(* the value it has, whatever the row has become.                          *)
Count(w) ==
    LET c == worker[w].conv
    IN  /\ At(w, "count")
        /\ conversations' = [conversations EXCEPT ![c] =
              [closed |-> @.closed /\ ~ worker[w].closed,
               unread |-> IF worker[w].created THEN @.unread ELSE @.unread + 1]]
        /\ Counted(w)

-----------------------------------------------------------------------------
(* handleStatusUpdate.                                                     *)

(* A status that comes before its message has been linked is dropped.      *)
FindMessage(w) ==
    LET rows == RowsOf(worker[w].id)
    IN  /\ At(w, "find")
        /\ \/ \E row \in rows : Found(w, row)
           \/ rows = {} /\ worker[w].id \in Campaign /\ Goto(w, "converse")
           \/ rows = {} /\ worker[w].id \notin Campaign /\ Done(w)
        /\ UNCHANGED <<conversations, messages, accepted, history, deliveries, faults>>

(* Mutant: whatever is reported is written.                                *)
MoveAnyway(w) ==
    /\ At(w, "move")
    /\ messages' = [messages EXCEPT ![worker[w].row].status = worker[w].status]
    /\ Done(w)
    /\ UNCHANGED <<conversations, accepted, history, deliveries, faults>>

Move(w) ==
    LET forward == \/ worker[w].status = "failed"
                   \/ Order(worker[w].status) > Order(worker[w].copy)
    IN  /\ At(w, "move")
        /\ messages' = IF ~ forward THEN messages
                       ELSE [messages EXCEPT ![worker[w].row].status = worker[w].status]
        /\ Done(w)
        /\ UNCHANGED <<conversations, accepted, history, deliveries, faults>>

-----------------------------------------------------------------------------
(* Agents.                                                                 *)

(* sendMessage: the row comes first, its Meta id with the answer of        *)
(* whatsapp-service.                                                       *)
BeginSend(w) ==
    /\ At(w, "idle")
    /\ conversations # <<>>
    /\ \E id \in Sent :
          /\ \A k \in DOMAIN messages : messages[k].id # id
          /\ messages' = Append(messages, [id |-> id, linked |-> FALSE, status |-> "pending"])
          /\ worker' = [worker EXCEPT ![w] = [Idle EXCEPT !.pc = "send", !.id = id,
                                                         !.row = Len(messages) + 1]]
    /\ UNCHANGED <<conversations, accepted, history, deliveries, faults>>

CallWhatsapp(w) ==
    LET Failed == /\ messages' = [messages EXCEPT ![worker[w].row].status = "failed"]
                  /\ Done(w)
        Accepted == accepted' = accepted \union {worker[w].id}
    IN  /\ At(w, "send")
        /\ \/ Failed /\ NoFault /\ UNCHANGED accepted
           \/ Failed /\ Fault /\ Accepted
           \/ Accepted /\ NoFault /\ Goto(w, "link") /\ UNCHANGED messages
        /\ UNCHANGED <<conversations, history, deliveries>>

Link(w) ==
    /\ At(w, "link")
    /\ messages' = [messages EXCEPT ![worker[w].row].linked = TRUE]
    /\ Done(w)
    /\ UNCHANGED <<conversations, accepted, history, deliveries, faults>>

(* A handler that opened the conversation and has not counted yet.         *)
Opener(w) == /\ worker[w].pc \in {"lookup", "insert", "count"}
             /\ worker[w].created /\ worker[w].id \in Inbound

MarkAsRead(c) ==
    /\ conversations' = [conversations EXCEPT ![c].unread = 0]
    /\ unseen' = {u \in unseen : u[2] # c}
    /\ hasty' = IF \E w \in Workers : Opener(w) /\ worker[w].conv = c
                THEN hasty \union {c} ELSE hasty \ {c}
    /\ UNCHANGED <<messages, accepted, worker, tally, doubtful, overlapped, deliveries, faults>>

UpdateConversationStatus(c) ==
    /\ conversations' = [conversations EXCEPT ![c].closed = ~ @]
    /\ UNCHANGED <<messages, accepted, worker, history, deliveries, faults>>

-----------------------------------------------------------------------------
(* Failures.                                                               *)

(* The messages handlers are about to count.                               *)
Uncounted(ws) == {worker[w].id : w \in {v \in ws : At(v, "count")}}

(* A statement of a handler fails.  The consumer logs the error, and the   *)
(* offset is committed: the event is not delivered again.                  *)
HandlerFails(w) ==
    /\ ~ At(w, "idle") /\ worker[w].pc \notin AgentSteps
    /\ Fault
    /\ Done(w)
    /\ doubtful' = doubtful \union Uncounted({w})
    /\ UNCHANGED <<conversations, messages, accepted, unseen, tally, hasty, overlapped,
                   deliveries>>

(* The process dies.  What it had in hand is delivered again, or, where    *)
(* the offset was committed, is not.                                       *)
Crash ==
    /\ \E w \in Workers : ~ At(w, "idle")
    /\ Fault
    /\ worker' = [w \in Workers |-> Idle]
    /\ doubtful' = doubtful \union Uncounted(Workers)
    /\ UNCHANGED <<conversations, messages, accepted, unseen, tally, hasty, overlapped,
                   deliveries>>

Init == /\ conversations = <<>>
        /\ messages = <<>>
        /\ accepted = {}
        /\ worker = [w \in Workers |-> Idle]
        /\ unseen = {}
        /\ tally = [id \in Inbound |-> 0]
        /\ doubtful = {}
        /\ hasty = {}
        /\ overlapped = FALSE
        /\ deliveries = 0 /\ faults = 0

Handle(w) == \/ DeliverInbound(w) \/ DeliverStatus(w)
             \/ FindConversation(w) \/ OpenConversation(w) \/ Lookup(w) \/ Insert(w)
             \/ Count(w) \/ FindMessage(w) \/ Move(w) \/ HandlerFails(w)
             \/ BeginSend(w) \/ CallWhatsapp(w) \/ Link(w)

Next == \/ \E w \in Workers : Handle(w)
        \/ \E c \in DOMAIN conversations : MarkAsRead(c) \/ UpdateConversationStatus(c)
        \/ Crash

Spec == Init /\ [][Next]_vars

-----------------------------------------------------------------------------
(* Properties.                                                             *)

(* A message is stored once, however often Meta and Kafka deliver it, also *)
(* when two consumers handle it at the same time.                          *)
MessageStoredOnce == \A id \in Ids : Cardinality(RowsOf(id)) <= 1

(* An inbound message is counted as unread once, by the delivery that      *)
(* stored it; only a crash between the two, or a count that fails and is   *)
(* not delivered again, leaves it uncounted.                               *)
CountedOnce ==
    \A id \in Inbound :
        /\ tally[id] <= 1
        /\ RowsOf(id) # {} /\ tally[id] = 0 =>
              id \in doubtful \/ \E w \in Workers : At(w, "count") /\ worker[w].id = id

(* The badge shows at least the messages counted since the conversation    *)
(* was last read, in whatever order consumers and agents come between each *)
(* other; it is one short where the conversation was last read before the  *)
(* message that opened it was counted.                                     *)
UnreadNotLost ==
    \A c \in DOMAIN conversations :
        conversations[c].unread + (IF c \in hasty THEN 1 ELSE 0)
            >= Cardinality({u \in unseen : u[2] = c})

(* The status of a message never moves back, in whatever order Meta's      *)
(* reports come, as long as those of one message come one at a time.       *)
StatusNeverMovesBack ==
    [][\A k \in DOMAIN messages :
          ~ overlapped => Order(messages'[k].status) >= Order(messages[k].status)]_vars
=============================================================================
