----------------------------- MODULE ChatProofs ------------------------------
(***************************************************************************)
(* A conversation, for every number of messages, consumers and deliveries. *)
(***************************************************************************)
EXTENDS Chat, FiniteSetTheorems, SequenceTheorems, TLAPS

InHand(w) == ~ At(w, "idle") /\ worker[w].pc \notin AgentSteps

(* What a handler holds, by the step it is at.                             *)
HandlersHold ==
    \A w \in Workers :
        /\ worker[w].pc # "idle" => worker[w].id \in Ids
        /\ worker[w].pc \in {"converse", "open", "lookup", "insert"}
              => worker[w].id \notin Sent
        /\ worker[w].pc \in {"lookup", "insert", "count"}
              => worker[w].conv \in 1 .. Len(conversations)
        /\ worker[w].pc = "count" => worker[w].id \in Inbound
        /\ worker[w].pc \in {"find", "move"} => worker[w].id \notin Inbound
        /\ worker[w].pc = "move" =>
              /\ worker[w].row \in 1 .. Len(messages)
              /\ messages[worker[w].row].id = worker[w].id
              /\ messages[worker[w].row].linked
        /\ worker[w].pc \in {"send", "link"} =>
              /\ worker[w].id \in Sent
              /\ worker[w].row \in 1 .. Len(messages)
              /\ messages[worker[w].row].id = worker[w].id

(* A message has one row; only an agent's may be unlinked.                 *)
RowsAreUnique ==
    /\ \A j, k \in 1 .. Len(messages) : messages[j].id = messages[k].id => j = k
    /\ \A k \in 1 .. Len(messages) : messages[k].id \notin Sent => messages[k].linked

TInv == TypeOK /\ HandlersHold /\ RowsAreUnique

(* A message that is being counted was just stored.                        *)
CountingOnce ==
    /\ \A w \in Workers, id \in Inbound : worker[w].pc = "count" /\ worker[w].id = id =>
          RowsOf(id) # {} /\ tally[id] = 0
    /\ \A v, w \in Workers :
          (worker[v].pc = "count" /\ worker[w].pc = "count" /\ worker[v].id = worker[w].id)
             => v = w
    /\ \A id \in Inbound : tally[id] > 0 => RowsOf(id) # {}
    /\ CountedOnce

(* Where no partition is consumed twice at once, a message is in one hand, *)
(* as are all inbound ones, and a copy of its status is the status.        *)
Serial ==
    ~ overlapped =>
        /\ \A v, w \in Workers : InHand(v) /\ InHand(w) /\ v # w =>
              /\ worker[v].id # worker[w].id
              /\ ~ ({worker[v].id, worker[w].id} \subseteq Inbound)
        /\ \A w \in Workers : worker[w].pc = "move" =>
              worker[w].copy = messages[worker[w].row].status

(* An agent's message being sent has no linked row.                        *)
Sending ==
    /\ \A w \in Workers : worker[w].pc = "send" => ~ messages[worker[w].row].linked
    /\ \A v, w \in Workers :
          (worker[v].pc \in AgentSteps /\ worker[w].pc \in AgentSteps
              /\ worker[v].row = worker[w].row) => v = w

(* The messages of a conversation that came since it was read.             *)
Unseen(c) == {u \in unseen : u[2] = c}

(* A handler that looks for the conversation has not opened one.           *)
Fresh == \A w \in Workers :
            worker[w].pc \in {"idle", "find", "converse"} => ~ worker[w].created

(* What the badge may lack: a message read before it was counted; and what *)
(* it has in advance: the message that opened the conversation.            *)
Short(c) == IF c \in hasty THEN 1 ELSE 0
Owed(c) == IF \E w \in Workers : Opener(w) /\ worker[w].conv = c THEN 1 ELSE 0

(* A conversation was opened by one handler; until that one has counted    *)
(* its message, the badge is ahead by it.                                  *)
BadgeHolds ==
    /\ IsFiniteSet(unseen)
    /\ \A v, w \in Workers :
          Opener(v) /\ Opener(w) /\ worker[v].conv = worker[w].conv => v = w
    /\ \A c \in 1 .. Len(conversations) :
          conversations[c].unread + Short(c) >= Cardinality(Unseen(c)) + Owed(c)

-----------------------------------------------------------------------------
(* Values.                                                                 *)

(* The handler that holds nothing.                                         *)
LEMMA IdleIsWorker ==
    ASSUME TypeOK
    PROVE  /\ Idle \in Worker /\ Idle.pc = "idle"
           /\ Idle.row \in 0 .. Len(messages) /\ Idle.conv \in 0 .. Len(conversations)
BY DEF Idle, Worker, Statuses, TypeOK

Steps == {"idle", "converse", "open", "lookup", "insert", "count", "find", "move",
          "send", "link"}

(* A handler that goes on to a step.                                       *)
GoingOn(r, step) == [r EXCEPT !.pc = step]

(* It is a handler, with the fields named.                                 *)
LEMMA GoingOnValues ==
    ASSUME NEW r \in Worker, NEW step \in Steps
    PROVE  /\ GoingOn(r, step) \in Worker
           /\ GoingOn(r, step).pc = step
           /\ GoingOn(r, step).id = r.id
           /\ GoingOn(r, step).conv = r.conv
           /\ GoingOn(r, step).row = r.row
           /\ GoingOn(r, step).created = r.created
           /\ GoingOn(r, step).copy = r.copy
BY DEF Worker, Steps, GoingOn

(* A handler that found its conversation.                                  *)
Looking(r, n, closed) == [r EXCEPT !.pc = "lookup", !.conv = n, !.closed = closed]

(* It is a handler, with the fields named.                                 *)
LEMMA LookingValues ==
    ASSUME NEW r \in Worker, NEW n \in Nat, NEW closed \in BOOLEAN
    PROVE  /\ Looking(r, n, closed) \in Worker
           /\ Looking(r, n, closed).pc = "lookup"
           /\ Looking(r, n, closed).id = r.id
           /\ Looking(r, n, closed).conv = n
           /\ Looking(r, n, closed).row = r.row
           /\ Looking(r, n, closed).created = r.created
           /\ Looking(r, n, closed).copy = r.copy
BY DEF Worker, Steps, Looking

(* A handler that opened its conversation.                                 *)
Opening(r, n) == [r EXCEPT !.pc = "lookup", !.created = TRUE, !.conv = n]

(* It is a handler, with the fields named.                                 *)
LEMMA OpeningValues ==
    ASSUME NEW r \in Worker, NEW n \in Nat
    PROVE  /\ Opening(r, n) \in Worker
           /\ Opening(r, n).pc = "lookup"
           /\ Opening(r, n).id = r.id
           /\ Opening(r, n).conv = n
           /\ Opening(r, n).row = r.row
           /\ Opening(r, n).created = TRUE
           /\ Opening(r, n).copy = r.copy
BY DEF Worker, Steps, Opening

(* A handler that found the row of its message.                            *)
Moving(r, n, status) == [r EXCEPT !.pc = "move", !.row = n, !.copy = status]

(* It is a handler, with the fields named.                                 *)
LEMMA MovingValues ==
    ASSUME NEW r \in Worker, NEW n \in Nat, NEW status \in Statuses
    PROVE  /\ Moving(r, n, status) \in Worker
           /\ Moving(r, n, status).pc = "move"
           /\ Moving(r, n, status).id = r.id
           /\ Moving(r, n, status).conv = r.conv
           /\ Moving(r, n, status).row = n
           /\ Moving(r, n, status).created = r.created
           /\ Moving(r, n, status).copy = status
BY DEF Worker, Steps, Moving

(* A conversation found is one.                                            *)
LEMMA ClosedIsBoolean ==
    ASSUME TypeOK, NEW c \in 1 .. Len(conversations)
    PROVE  conversations[c] \in Conversation /\ conversations[c].closed \in BOOLEAN
<1>1. conversations[c] \in Conversation
  BY ElementOfSeq DEF TypeOK
<1>2. ASSUME NEW x \in Conversation PROVE x.closed \in BOOLEAN
  BY DEF Conversation
<1>3. QED
  BY <1>1, <1>2

(* "queued" is stored as pending: what is reported becomes a status.       *)
LEMMA NormalIsStatus ==
    ASSUME NEW status \in Reported
    PROVE  Normal(status) \in Statuses
BY ReportedAssumption DEF Normal, Statuses

(* Going on changes one handler, and of it the step.                       *)
LEMMA GotoValues ==
    ASSUME TypeOK, NEW w \in Workers, NEW step, Goto(w, step)
    PROVE  /\ worker'[w] = GoingOn(worker[w], step)
           /\ \A v \in Workers : v # w => worker'[v] = worker[v]
           /\ DOMAIN worker' = Workers /\ worker' = [v \in Workers |-> worker'[v]]
BY DEF Goto, TypeOK, Worker, GoingOn

(* A handler that is done holds nothing.                                   *)
LEMMA DoneValues ==
    ASSUME TypeOK, NEW w \in Workers, Done(w)
    PROVE  /\ worker'[w] = Idle /\ worker'[w].pc = "idle"
           /\ \A v \in Workers : v # w => worker'[v] = worker[v]
BY DEF Done, TypeOK, Idle

(* The table grows by a row at its end, or one row of it changes.          *)
LEMMA InsertedRow ==
    ASSUME TypeOK, NEW x \in Message, messages' = Append(messages, x)
    PROVE  /\ messages' \in Seq(Message) /\ Len(messages') = Len(messages) + 1
           /\ \A k \in 1 .. Len(messages) : messages'[k] = messages[k]
           /\ messages'[Len(messages) + 1] = x
           /\ Len(messages) \in Nat
BY AppendProperties DEF TypeOK

(* One row of the table changes.                                           *)
LEMMA ChangedRow ==
    ASSUME TypeOK, NEW i \in 1 .. Len(messages), NEW x \in Message,
           messages' = [messages EXCEPT ![i] = x]
    PROVE  /\ messages' \in Seq(Message) /\ Len(messages') = Len(messages)
           /\ \A k \in 1 .. Len(messages) : messages'[k] = IF k = i THEN x ELSE messages[k]
BY ExceptSeq DEF TypeOK

-----------------------------------------------------------------------------
(* The types.                                                              *)

(* At the start nothing is stored and nothing is held.                     *)
LEMMA InitTypes == Init => TInv
<1> SUFFICES ASSUME Init PROVE TInv
  OBVIOUS
<1>1. TypeOK
  <2>1. Idle \in Worker /\ Idle.row = 0 /\ Idle.conv = 0
    BY DEF Idle, Worker, Statuses
  <2>2. worker \in [Workers -> Worker] /\ \A w \in Workers : worker[w] = Idle
    BY <2>1 DEF Init
  <2>3. /\ conversations \in Seq(Conversation) /\ messages \in Seq(Message)
        /\ Len(messages) = 0 /\ Len(conversations) = 0
    BY DEF Init
  <2>4. tally \in [Inbound -> Nat]
    BY DEF Init
  <2>5. \A w \in Workers : /\ worker[w].row \in 0 .. Len(messages)
                            /\ worker[w].conv \in 0 .. Len(conversations)
    BY <2>1, <2>2, <2>3
  <2>6. /\ accepted \subseteq Sent /\ doubtful \subseteq Inbound /\ overlapped \in BOOLEAN
        /\ unseen \subseteq Inbound \X (1 .. Len(conversations))
        /\ hasty \subseteq 1 .. Len(conversations)
        /\ deliveries \in Nat /\ faults \in Nat
    BY DEF Init
  <2>7. QED
    BY <2>2, <2>3, <2>4, <2>5, <2>6 DEF TypeOK
<1>2. HandlersHold
  BY DEF Init, HandlersHold, Idle
<1>3. RowsAreUnique
  BY DEF Init, RowsAreUnique
<1>4. QED
  BY <1>1, <1>2, <1>3 DEF TInv

(* The rows that a step may make of the table: none of another message,    *)
(* and none that has one already.                                          *)
RowsGoOn ==
    /\ messages' \in Seq(Message)
    /\ Len(messages) \in Nat /\ Len(messages') \in Nat /\ Len(messages) <= Len(messages')
    /\ \A k \in 1 .. Len(messages) :
          /\ messages'[k].id = messages[k].id
          /\ messages[k].linked => messages'[k].linked

(* The rows go on where the table stays,                                   *)
LEMMA SameRowsGoOn == TypeOK /\ UNCHANGED messages => RowsGoOn
BY DEF TypeOK, RowsGoOn

(* where a message without a row gets one,                                 *)
LEMMA InsertedRowGoesOn ==
    ASSUME TInv, NEW x \in Message, messages' = Append(messages, x),
           \A k \in 1 .. Len(messages) : messages[k].id # x.id,
           x.id \notin Sent => x.linked
    PROVE  RowsGoOn /\ RowsAreUnique'
<1>1. /\ messages' \in Seq(Message) /\ Len(messages') = Len(messages) + 1
      /\ \A k \in 1 .. Len(messages) : messages'[k] = messages[k]
      /\ messages'[Len(messages) + 1] = x
      /\ Len(messages) \in Nat
  BY InsertedRow DEF TInv
<1>2. RowsGoOn
  BY <1>1 DEF RowsGoOn
<1>3. RowsAreUnique'
  BY <1>1 DEF RowsAreUnique, TInv
<1>4. QED
  BY <1>2, <1>3

(* and where a row changes that keeps its message and its link.            *)
LEMMA ChangedRowGoesOn ==
    ASSUME TInv, NEW i \in 1 .. Len(messages), NEW x \in Message,
           messages' = [messages EXCEPT ![i] = x],
           x.id = messages[i].id, messages[i].linked => x.linked
    PROVE  RowsGoOn /\ RowsAreUnique'
<1>1. /\ messages' \in Seq(Message) /\ Len(messages') = Len(messages)
      /\ \A k \in 1 .. Len(messages) : messages'[k] = IF k = i THEN x ELSE messages[k]
      /\ Len(messages) \in Nat
  BY ChangedRow DEF TInv, TypeOK
<1>2. RowsGoOn
  BY <1>1 DEF RowsGoOn
<1>3. RowsAreUnique'
  BY <1>1 DEF RowsAreUnique, TInv
<1>4. QED
  BY <1>2, <1>3

(* A row of the table is a message, and so it is with another status or    *)
(* when it is linked.                                                      *)
LEMMA RowValues ==
    ASSUME TypeOK, NEW i \in 1 .. Len(messages), NEW status \in Statuses
    PROVE  /\ messages[i] \in Message
           /\ [messages[i] EXCEPT !.status = status] \in Message
           /\ [messages[i] EXCEPT !.status = status].id = messages[i].id
           /\ [messages[i] EXCEPT !.status = status].linked = messages[i].linked
           /\ [messages[i] EXCEPT !.linked = TRUE] \in Message
           /\ [messages[i] EXCEPT !.linked = TRUE].id = messages[i].id
           /\ [messages[i] EXCEPT !.linked = TRUE].linked
           /\ [messages[i] EXCEPT !.linked = TRUE].status = messages[i].status
<1>1. messages[i] \in Message
  BY ElementOfSeq DEF TypeOK
<1>2. QED
  BY <1>1 DEF Message

(* What a handler holds, with the table and the number of conversations.   *)
HeldBy(x, table, n) ==
    /\ x \in Worker
    /\ x.row \in 0 .. Len(table)
    /\ x.conv \in 0 .. n
    /\ x.pc # "idle" => x.id \in Ids
    /\ x.pc \in {"converse", "open", "lookup", "insert"} => x.id \notin Sent
    /\ x.pc \in {"lookup", "insert", "count"} => x.conv \in 1 .. n
    /\ x.pc = "count" => x.id \in Inbound
    /\ x.pc \in {"find", "move"} => x.id \notin Inbound
    /\ x.pc = "move" =>
          /\ x.row \in 1 .. Len(table)
          /\ table[x.row].id = x.id
          /\ table[x.row].linked
    /\ x.pc \in {"send", "link"} =>
          /\ x.id \in Sent
          /\ x.row \in 1 .. Len(table)
          /\ table[x.row].id = x.id

Holds(w) == HeldBy(worker[w], messages, Len(conversations))

(* All handlers hold what their step needs.                                *)
LEMMA AllHold == TInv => \A w \in Workers : Holds(w) /\ worker[w] \in Worker
BY DEF TInv, TypeOK, HandlersHold, Holds, HeldBy

(* The other handlers keep what they hold.                                 *)
LEMMA OthersHold ==
    ASSUME TInv, RowsGoOn, NEW v \in Workers, worker'[v] = worker[v],
           Len(conversations) \in Nat, Len(conversations)' \in Nat,
           Len(conversations) <= Len(conversations)'
    PROVE  Holds(v)'
<1>1. PICK x : x = worker[v]
  OBVIOUS
<1>2. HeldBy(x, messages, Len(conversations))
  BY <1>1, AllHold DEF Holds
<1>3. HeldBy(x, messages', Len(conversations)')
  BY <1>2 DEF HeldBy, RowsGoOn
<1>4. QED
  BY <1>1, <1>3 DEF Holds

(* Holding nothing asks for nothing.                                       *)
LEMMA IdleHolds ==
    ASSUME NEW w \in Workers, worker'[w] = Idle,
           Len(messages)' \in Nat, Len(conversations)' \in Nat
    PROVE  Holds(w)'
<1>1. Idle \in Worker /\ Idle.pc = "idle" /\ Idle.row = 0 /\ Idle.conv = 0
  BY DEF Idle, Worker, Statuses
<1>2. HeldBy(Idle, messages', Len(conversations)')
  BY <1>1 DEF HeldBy
<1>3. QED
  BY <1>2 DEF Holds

(* What makes the invariant hold after a step of one handler.              *)
LEMMA TypesFollow ==
    ASSUME TInv, NEW w \in Workers, RowsGoOn, RowsAreUnique',
           \A v \in Workers : v # w => worker'[v] = worker[v],
           DOMAIN worker' = Workers, worker' = [v \in Workers |-> worker'[v]],
           Holds(w)',
           conversations' \in Seq(Conversation),
           Len(conversations) <= Len(conversations)',
           accepted' \subseteq Sent,
           unseen' \subseteq Inbound \X (1 .. Len(conversations')),
           tally' \in [Inbound -> Nat], doubtful' \subseteq Inbound,
           hasty' \subseteq 1 .. Len(conversations'),
           overlapped' \in BOOLEAN, deliveries' \in Nat, faults' \in Nat
    PROVE  TInv'
<1>1. Len(conversations) \in Nat /\ Len(conversations)' \in Nat
  BY DEF TInv, TypeOK
<1>2. \A v \in Workers : Holds(v)'
  BY <1>1, OthersHold
<1>3. HandlersHold'
  BY <1>2 DEF Holds, HeldBy, HandlersHold
<1>4. worker' \in [Workers -> Worker]
  BY <1>2 DEF Holds, HeldBy
<1>5. TypeOK'
  BY <1>2, <1>4 DEF Holds, HeldBy, TypeOK, RowsGoOn
<1>6. QED
  BY <1>3, <1>5 DEF TInv

(* The common cases of TypesFollow: nothing but the handler changes, or    *)
(* also the table.                                                         *)
LEMMA WorkerIsFunction ==
    ASSUME TypeOK, NEW w \in Workers, NEW x, worker' = [worker EXCEPT ![w] = x]
    PROVE  /\ worker'[w] = x
           /\ \A v \in Workers : v # w => worker'[v] = worker[v]
           /\ DOMAIN worker' = Workers /\ worker' = [v \in Workers |-> worker'[v]]
BY DEF TypeOK

(* An event is taken by a handler.                                         *)
LEMMA DeliverKeepsTypes ==
    ASSUME TInv, NEW w \in Workers, NEW id \in Ids, NEW step \in {"converse", "find"},
           NEW status, Normal(status) \in Statuses, Deliver(w, id, step, status),
           step = "converse" => id \notin Sent, step = "find" => id \notin Inbound
    PROVE  TInv'
<1>1. PICK x : x = [Idle EXCEPT !.pc = step, !.id = id, !.status = Normal(status)]
  OBVIOUS
<1>2. /\ x \in Worker /\ x.pc = step /\ x.id = id /\ x.row = 0 /\ x.conv = 0
  BY <1>1 DEF Idle, Worker, Statuses
<1>3. /\ worker'[w] = x
      /\ \A v \in Workers : v # w => worker'[v] = worker[v]
      /\ DOMAIN worker' = Workers /\ worker' = [v \in Workers |-> worker'[v]]
  BY <1>1, WorkerIsFunction DEF Deliver, TInv
<1>4. RowsGoOn /\ RowsAreUnique'
  BY SameRowsGoOn DEF Deliver, TInv, RowsAreUnique
<1>5. Len(messages)' \in Nat /\ Len(conversations)' \in Nat
      /\ UNCHANGED <<conversations, messages, accepted, unseen, tally, doubtful, hasty>>
  BY DEF TInv, TypeOK, Deliver
<1>6. Holds(w)'
  <2>1. HeldBy(x, messages', Len(conversations)')
    BY <1>2, <1>5 DEF HeldBy
  <2>2. QED
    BY <1>3, <2>1 DEF Holds
<1>7. overlapped' \in BOOLEAN
  <2>1. CASE overlapped' = TRUE
    BY <2>1
  <2>2. CASE overlapped' = overlapped
    BY <2>2 DEF TInv, TypeOK
  <2>3. QED
    BY <2>1, <2>2 DEF Deliver
<1>8. deliveries' \in Nat /\ faults' \in Nat
  BY DEF Deliver, Fault, NoFault, TInv, TypeOK
<1>9. /\ conversations' \in Seq(Conversation) /\ Len(conversations) <= Len(conversations)'
      /\ accepted' \subseteq Sent /\ unseen' \subseteq Inbound \X (1 .. Len(conversations'))
      /\ tally' \in [Inbound -> Nat] /\ doubtful' \subseteq Inbound
      /\ hasty' \subseteq 1 .. Len(conversations')
  BY <1>5 DEF TInv, TypeOK
<1>10. QED
  BY <1>3, <1>4, <1>6, <1>7, <1>8, <1>9, TypesFollow

(* A step that leaves the table and the conversations as they are.         *)
LEMMA QuietStepKeepsTypes ==
    ASSUME TInv, NEW w \in Workers,
           \A v \in Workers : v # w => worker'[v] = worker[v],
           DOMAIN worker' = Workers, worker' = [v \in Workers |-> worker'[v]],
           Holds(w)', RowsGoOn, RowsAreUnique',
           UNCHANGED <<conversations, history, deliveries>>,
           accepted' \subseteq Sent, faults' \in Nat
    PROVE  TInv'
<1>1. /\ conversations' \in Seq(Conversation) /\ Len(conversations) <= Len(conversations)'
      /\ unseen' \subseteq Inbound \X (1 .. Len(conversations'))
      /\ tally' \in [Inbound -> Nat] /\ doubtful' \subseteq Inbound
      /\ hasty' \subseteq 1 .. Len(conversations')
      /\ overlapped' \in BOOLEAN /\ deliveries' \in Nat
  BY DEF TInv, TypeOK, history
<1>2. QED
  BY <1>1, TypesFollow

(* Sequences have a length.                                                *)
LEMMA Lengths ==
    ASSUME TypeOK
    PROVE  /\ Len(messages) \in Nat /\ Len(conversations) \in Nat
           /\ DOMAIN messages = 1 .. Len(messages)
           /\ DOMAIN conversations = 1 .. Len(conversations)
BY DEF TypeOK

(* findOrCreate finds a conversation, or none.                             *)
LEMMA FindConversationKeepsTypes ==
    ASSUME TInv, NEW w \in Workers, FindConversation(w)
    PROVE  TInv'
<1>1. /\ worker[w].pc = "converse" /\ worker[w] \in Worker /\ TypeOK
      /\ HeldBy(worker[w], messages, Len(conversations))
      /\ DOMAIN conversations = 1 .. Len(conversations)
      /\ Len(messages)' = Len(messages) /\ Len(conversations)' = Len(conversations)
  BY AllHold, Lengths DEF FindConversation, At, TInv, Holds
<1>2. RowsGoOn /\ RowsAreUnique'
  BY SameRowsGoOn DEF FindConversation, TInv, RowsAreUnique
<1>3. CASE Goto(w, "open")
  <2>1. PICK x : x = GoingOn(worker[w], "open")
    OBVIOUS
  <2>2. /\ x \in Worker /\ x.pc = "open" /\ x.conv = worker[w].conv
        /\ x.id = worker[w].id /\ x.row = worker[w].row /\ worker'[w] = x
    BY <1>1, <1>3, <2>1, GoingOnValues, GotoValues DEF Steps
  <2>3. HeldBy(x, messages', Len(conversations)')
    BY <1>1, <2>2 DEF HeldBy
  <2>4. Holds(w)'
    BY <2>2, <2>3 DEF Holds
  <2>5. QED
    BY <1>1, <1>2, <1>3, <2>4, GotoValues, QuietStepKeepsTypes
       DEF FindConversation, TypeOK
<1>4. CASE \E c \in DOMAIN conversations :
             worker' = [worker EXCEPT ![w].pc = "lookup", ![w].conv = c,
                                      ![w].closed = conversations[c].closed]
  <2>1. PICK c \in DOMAIN conversations :
             worker' = [worker EXCEPT ![w].pc = "lookup", ![w].conv = c,
                                      ![w].closed = conversations[c].closed]
    BY <1>4
  <2>2. conversations[c].closed \in BOOLEAN
    BY <1>1, ClosedIsBoolean
  <2>3. PICK x : x = Looking(worker[w], c, conversations[c].closed)
    OBVIOUS
  <2>4. worker' = [worker EXCEPT ![w] = x]
    BY <1>1, <2>1, <2>3 DEF TypeOK, Looking
  <2>5. /\ x \in Worker /\ x.pc = "lookup" /\ x.conv = c
        /\ x.id = worker[w].id /\ x.row = worker[w].row /\ c \in 1 .. Len(conversations)
    <3>1. c \in Nat /\ c \in 1 .. Len(conversations)
      BY <1>1
    <3>2. QED
      BY <1>1, <2>2, <2>3, <3>1, LookingValues
  <2>6. /\ worker'[w] = x
        /\ \A v \in Workers : v # w => worker'[v] = worker[v]
        /\ DOMAIN worker' = Workers /\ worker' = [v \in Workers |-> worker'[v]]
    BY <1>1, <2>4, WorkerIsFunction
  <2>7. HeldBy(x, messages', Len(conversations)') /\ Holds(w)'
    BY <1>1, <2>5, <2>6 DEF Holds, HeldBy
  <2>8. QED
    BY <1>1, <1>2, <2>6, <2>7, QuietStepKeepsTypes DEF FindConversation, TypeOK
<1>5. QED
  BY <1>3, <1>4 DEF FindConversation

(* findOrCreate creates a conversation.                                    *)
LEMMA OpenConversationKeepsTypes ==
    ASSUME TInv, NEW w \in Workers, OpenConversation(w)
    PROVE  TInv'
<1>1. /\ worker[w].pc = "open" /\ worker[w] \in Worker /\ TypeOK
      /\ HeldBy(worker[w], messages, Len(conversations))
      /\ Len(messages)' = Len(messages) /\ Len(messages) \in Nat
      /\ Len(conversations) \in Nat
  BY AllHold, Lengths DEF OpenConversation, At, TInv, Holds
<1>2. RowsGoOn /\ RowsAreUnique'
  BY SameRowsGoOn DEF OpenConversation, TInv, RowsAreUnique
<1>3. PICK x : x = Opening(worker[w], Len(conversations) + 1)
  OBVIOUS
<1>4. worker' = [worker EXCEPT ![w] = x]
  BY <1>1, <1>3 DEF TypeOK, OpenConversation, Opening
<1>5. /\ x \in Worker /\ x.pc = "lookup" /\ x.conv = Len(conversations) + 1
      /\ x.id = worker[w].id /\ x.row = worker[w].row
  <2>1. Len(conversations) + 1 \in Nat
    BY <1>1
  <2>2. QED
    BY <1>1, <1>3, <2>1, OpeningValues
<1>6. /\ worker'[w] = x
      /\ \A v \in Workers : v # w => worker'[v] = worker[v]
      /\ DOMAIN worker' = Workers /\ worker' = [v \in Workers |-> worker'[v]]
  BY <1>1, <1>4, WorkerIsFunction
<1>7. /\ conversations' \in Seq(Conversation)
      /\ Len(conversations)' = Len(conversations) + 1
  BY <1>1 DEF OpenConversation, TypeOK, Conversation
<1>8. HeldBy(x, messages', Len(conversations)') /\ Holds(w)'
  BY <1>1, <1>5, <1>6, <1>7 DEF Holds, HeldBy
<1>9. /\ accepted' \subseteq Sent /\ tally' \in [Inbound -> Nat] /\ doubtful' \subseteq Inbound
      /\ overlapped' \in BOOLEAN /\ deliveries' \in Nat /\ faults' \in Nat
      /\ unseen' \subseteq Inbound \X (1 .. Len(conversations'))
      /\ hasty' \subseteq 1 .. Len(conversations')
  BY <1>1, <1>7 DEF OpenConversation, TypeOK, history
<1>10. QED
  BY <1>1, <1>2, <1>6, <1>7, <1>8, <1>9, TypesFollow

(* A step of a handler that leaves the conversations as they are.          *)
LEMMA HandlerStepKeepsTypes ==
    ASSUME TInv, NEW w \in Workers, NEW x, worker' = [worker EXCEPT ![w] = x],
           HeldBy(x, messages', Len(conversations)), RowsGoOn, RowsAreUnique',
           UNCHANGED <<conversations, history, deliveries>>,
           accepted' \subseteq Sent, faults' \in Nat
    PROVE  TInv'
<1>1. /\ worker'[w] = x
      /\ \A v \in Workers : v # w => worker'[v] = worker[v]
      /\ DOMAIN worker' = Workers /\ worker' = [v \in Workers |-> worker'[v]]
  BY WorkerIsFunction DEF TInv
<1>2. Holds(w)'
  BY <1>1 DEF Holds
<1>3. QED
  BY <1>1, <1>2, QuietStepKeepsTypes

(* Going on, as an assignment.                                             *)
LEMMA GotoSets ==
    ASSUME TypeOK, NEW w \in Workers, NEW step, Goto(w, step)
    PROVE  worker' = [worker EXCEPT ![w] = GoingOn(worker[w], step)]
BY DEF Goto, TypeOK, Worker, GoingOn

(* Holding nothing, with any table.                                        *)
LEMMA IdleIsHeld ==
    ASSUME NEW table, Len(table) \in Nat, NEW n \in Nat
    PROVE  HeldBy(Idle, table, n)
<1>1. Idle \in Worker /\ Idle.pc = "idle" /\ Idle.row = 0 /\ Idle.conv = 0
  BY DEF Idle, Worker, Statuses
<1>2. QED
  BY <1>1 DEF HeldBy

(* What the index finds is a linked row of the message.                    *)
LEMMA RowsOfRows ==
    ASSUME TypeOK, NEW id, NEW row \in RowsOf(id)
    PROVE  /\ row \in 1 .. Len(messages) /\ messages[row].id = id /\ messages[row].linked
           /\ messages[row] \in Message /\ messages[row].status \in Statuses
<1>1. row \in 1 .. Len(messages) /\ messages[row].id = id /\ messages[row].linked
  BY Lengths DEF RowsOf
<1>2. messages[row] \in Message
  BY <1>1, ElementOfSeq DEF TypeOK
<1>3. messages[row].status \in Statuses
  BY <1>2 DEF Message
<1>4. QED
  BY <1>1, <1>2, <1>3

(* A handler that finds the row is done, or moves its status.              *)
LEMMA FoundHolds ==
    ASSUME TInv, NEW w \in Workers, NEW row \in RowsOf(worker[w].id), Found(w, row),
           worker[w].pc \in {"lookup", "insert", "find"}
    PROVE  \E x : worker' = [worker EXCEPT ![w] = x] /\ HeldBy(x, messages, Len(conversations))
<1>1. /\ worker[w] \in Worker /\ HeldBy(worker[w], messages, Len(conversations))
      /\ Len(messages) \in Nat /\ Len(conversations) \in Nat
  BY AllHold, Lengths DEF Holds, TInv
<1>2. /\ row \in 1 .. Len(messages) /\ messages[row].id = worker[w].id
      /\ messages[row].linked /\ messages[row].status \in Statuses /\ row \in Nat
  BY <1>1, RowsOfRows DEF TInv
<1>3. CASE worker[w].id \in Inbound
  <2>1. worker' = [worker EXCEPT ![w] = Idle]
    BY <1>3 DEF Found, TInv, TypeOK
  <2>2. QED
    BY <1>1, <2>1, IdleIsHeld
<1>4. CASE worker[w].id \notin Inbound
  <2>1. PICK x : x = Moving(worker[w], row, messages[row].status)
    OBVIOUS
  <2>2. worker' = [worker EXCEPT ![w] = x]
    BY <1>4, <2>1 DEF Found, TInv, TypeOK, Moving
  <2>3. /\ x \in Worker /\ x.pc = "move" /\ x.row = row /\ x.id = worker[w].id
        /\ x.conv = worker[w].conv
    BY <1>1, <1>2, <2>1, MovingValues, SMTT(30)
  <2>4. HeldBy(x, messages, Len(conversations))
    BY <1>1, <1>2, <1>4, <2>3 DEF HeldBy
  <2>5. QED
    BY <2>2, <2>4
<1>5. QED
  BY <1>3, <1>4

(* The lookup before the insert.                                           *)
LEMMA LookupKeepsTypes ==
    ASSUME TInv, NEW w \in Workers, Lookup(w)
    PROVE  TInv'
<1>1. /\ worker[w].pc = "lookup" /\ worker[w] \in Worker
      /\ HeldBy(worker[w], messages, Len(conversations))
  BY AllHold DEF Lookup, At, Holds
<1>2. /\ RowsGoOn /\ RowsAreUnique' /\ messages' = messages
      /\ UNCHANGED <<conversations, history, deliveries>>
      /\ accepted' \subseteq Sent /\ faults' \in Nat
  BY SameRowsGoOn DEF Lookup, TInv, TypeOK, RowsAreUnique
<1>3. CASE Goto(w, "insert")
  <2>1. PICK x : x = GoingOn(worker[w], "insert")
    OBVIOUS
  <2>2. worker' = [worker EXCEPT ![w] = x]
    BY <1>3, <2>1, GotoSets DEF TInv
  <2>3. /\ x \in Worker /\ x.pc = "insert" /\ x.id = worker[w].id
        /\ x.conv = worker[w].conv /\ x.row = worker[w].row
    BY <1>1, <2>1, GoingOnValues DEF Steps
  <2>4. HeldBy(x, messages', Len(conversations))
    BY <1>1, <1>2, <2>3 DEF HeldBy
  <2>5. QED
    BY <1>2, <2>2, <2>4, HandlerStepKeepsTypes
<1>4. CASE \E row \in RowsOf(worker[w].id) : Found(w, row)
  BY <1>1, <1>2, <1>4, FoundHolds, HandlerStepKeepsTypes
<1>5. QED
  BY <1>3, <1>4 DEF Lookup

(* The insert, or the row that the unique index found in its place.        *)
LEMMA InsertKeepsTypes ==
    ASSUME TInv, NEW w \in Workers, Insert(w)
    PROVE  TInv'
<1>1. /\ worker[w].pc = "insert" /\ worker[w] \in Worker
      /\ HeldBy(worker[w], messages, Len(conversations)) /\ TypeOK
      /\ Len(messages) \in Nat /\ Len(conversations) \in Nat
      /\ UNCHANGED <<conversations, history, deliveries>>
      /\ accepted' \subseteq Sent /\ faults' \in Nat
  BY AllHold, Lengths DEF Insert, At, Holds, TInv, TypeOK
<1>2. CASE RowsOf(worker[w].id) = {} /\ Stored(w)
  <2>1. PICK m : m = NewMessage(w)
    OBVIOUS
  <2>2. m \in Message /\ m.id = worker[w].id /\ m.linked
    <3>1. worker[w].id \in Ids /\ worker[w].status \in Statuses
      BY <1>1 DEF HeldBy, Worker
    <3>2. QED
      BY <2>1, <3>1 DEF NewMessage, Message, Statuses
  <2>3. \A k \in 1 .. Len(messages) : messages[k].id # m.id
    <3>1. SUFFICES ASSUME NEW k \in 1 .. Len(messages), messages[k].id = m.id
                   PROVE  FALSE
      OBVIOUS
    <3>2. messages[k].linked
      BY <1>1, <2>2, <3>1 DEF HeldBy, TInv, RowsAreUnique
    <3>3. k \in RowsOf(worker[w].id)
      BY <1>1, <2>2, <3>1, <3>2, Lengths DEF RowsOf
    <3>4. QED
      BY <1>2, <3>3
  <2>4. messages' = Append(messages, m)
    BY <1>2, <2>1 DEF Stored
  <2>5. /\ RowsGoOn /\ RowsAreUnique' /\ Len(messages') \in Nat
        /\ Len(messages) <= Len(messages')
    BY <2>2, <2>3, <2>4, InsertedRowGoesOn DEF RowsGoOn
  <2>6. CASE worker[w].id \in Inbound
    <3>1. PICK x : x = GoingOn(worker[w], "count")
      OBVIOUS
    <3>2. worker' = [worker EXCEPT ![w] = x]
      BY <1>1, <1>2, <2>6, <3>1, GotoSets DEF Stored
    <3>3. /\ x \in Worker /\ x.pc = "count" /\ x.id = worker[w].id
          /\ x.conv = worker[w].conv /\ x.row = worker[w].row
      BY <1>1, <3>1, GoingOnValues DEF Steps
    <3>4. HeldBy(x, messages', Len(conversations))
      BY <1>1, <2>5, <2>6, <3>3 DEF HeldBy
    <3>5. QED
      BY <1>1, <2>5, <3>2, <3>4, HandlerStepKeepsTypes
  <2>7. CASE worker[w].id \notin Inbound
    <3>1. worker' = [worker EXCEPT ![w] = Idle]
      BY <1>2, <2>7 DEF Stored, Done
    <3>2. HeldBy(Idle, messages', Len(conversations))
      BY <1>1, <2>5, IdleIsHeld
    <3>3. QED
      BY <1>1, <2>5, <3>1, <3>2, HandlerStepKeepsTypes
  <2>8. QED
    BY <2>6, <2>7
<1>3. CASE \E row \in RowsOf(worker[w].id) : Found(w, row) /\ UNCHANGED messages
  <2>1. RowsGoOn /\ RowsAreUnique' /\ messages' = messages
    BY <1>1, <1>3, SameRowsGoOn DEF TInv, RowsAreUnique
  <2>2. QED
    BY <1>1, <1>3, <2>1, FoundHolds, HandlerStepKeepsTypes
<1>4. QED
  BY <1>2, <1>3 DEF Insert

(* A status looks for its message.                                         *)
LEMMA FindMessageKeepsTypes ==
    ASSUME TInv, NEW w \in Workers, FindMessage(w)
    PROVE  TInv'
<1>1. /\ worker[w].pc = "find" /\ worker[w] \in Worker
      /\ HeldBy(worker[w], messages, Len(conversations))
      /\ Len(messages) \in Nat /\ Len(conversations) \in Nat
  BY AllHold, Lengths DEF FindMessage, At, Holds, TInv
<1>2. /\ RowsGoOn /\ RowsAreUnique' /\ messages' = messages
      /\ UNCHANGED <<conversations, history, deliveries>>
      /\ accepted' \subseteq Sent /\ faults' \in Nat
  BY SameRowsGoOn DEF FindMessage, TInv, TypeOK, RowsAreUnique
<1>3. CASE \E row \in RowsOf(worker[w].id) : Found(w, row)
  BY <1>1, <1>2, <1>3, FoundHolds, HandlerStepKeepsTypes
<1>4. CASE worker[w].id \in Campaign /\ Goto(w, "converse")
  <2>1. PICK x : x = GoingOn(worker[w], "converse")
    OBVIOUS
  <2>2. worker' = [worker EXCEPT ![w] = x]
    BY <1>4, <2>1, GotoSets DEF TInv
  <2>3. /\ x \in Worker /\ x.pc = "converse" /\ x.id = worker[w].id
        /\ x.conv = worker[w].conv /\ x.row = worker[w].row
    BY <1>1, <2>1, GoingOnValues DEF Steps
  <2>4. HeldBy(x, messages', Len(conversations))
    BY <1>1, <1>2, <1>4, <2>3, IdAssumption DEF HeldBy
  <2>5. QED
    BY <1>2, <2>2, <2>4, HandlerStepKeepsTypes
<1>5. CASE Done(w)
  BY <1>1, <1>2, <1>5, IdleIsHeld, HandlerStepKeepsTypes DEF Done
<1>6. QED
  BY <1>3, <1>4, <1>5 DEF FindMessage

(* A status is written, or is not new.                                     *)
LEMMA MoveKeepsTypes ==
    ASSUME TInv, NEW w \in Workers, Move(w)
    PROVE  TInv'
<1>1. /\ worker[w].pc = "move" /\ TypeOK
      /\ worker[w].row \in 1 .. Len(messages) /\ worker[w].status \in Statuses
      /\ Len(messages) \in Nat /\ Len(conversations) \in Nat
      /\ UNCHANGED <<conversations, history, deliveries>>
      /\ accepted' \subseteq Sent /\ faults' \in Nat
      /\ worker' = [worker EXCEPT ![w] = Idle]
  <2>1. HeldBy(worker[w], messages, Len(conversations))
    BY AllHold DEF Holds
  <2>2. QED
    BY <2>1, Lengths DEF Move, At, HeldBy, Worker, TInv, TypeOK, Done
<1>2. CASE UNCHANGED messages
  BY <1>1, <1>2, SameRowsGoOn, IdleIsHeld, HandlerStepKeepsTypes DEF TInv, RowsAreUnique
<1>3. CASE messages' = [messages EXCEPT ![worker[w].row].status = worker[w].status]
  <2>1. PICK i \in 1 .. Len(messages), status \in Statuses :
            i = worker[w].row /\ status = worker[w].status
    BY <1>1
  <2>2. messages' = [messages EXCEPT ![i] = [messages[i] EXCEPT !.status = status]]
    BY <1>1, <1>3, <2>1 DEF TypeOK
  <2>3. RowsGoOn /\ RowsAreUnique'
    BY <1>1, <2>2, RowValues, ChangedRowGoesOn
  <2>4. Len(messages') \in Nat
    BY <2>3 DEF RowsGoOn
  <2>5. QED
    BY <1>1, <2>3, <2>4, IdleIsHeld, HandlerStepKeepsTypes
<1>4. QED
  BY <1>2, <1>3 DEF Move

(* The Meta id of an agent's message is written.                           *)
LEMMA LinkKeepsTypes ==
    ASSUME TInv, NEW w \in Workers, Link(w)
    PROVE  TInv'
<1>1. /\ worker[w].pc = "link" /\ TypeOK
      /\ worker[w].row \in 1 .. Len(messages) /\ "sent" \in Statuses
      /\ Len(messages) \in Nat /\ Len(conversations) \in Nat
      /\ UNCHANGED <<conversations, history, deliveries>>
      /\ accepted' \subseteq Sent /\ faults' \in Nat
      /\ worker' = [worker EXCEPT ![w] = Idle]
  <2>1. HeldBy(worker[w], messages, Len(conversations))
    BY AllHold DEF Holds
  <2>2. QED
    BY <2>1, Lengths DEF Link, At, HeldBy, Statuses, TInv, TypeOK, Done
<1>2. PICK i \in 1 .. Len(messages) : i = worker[w].row
  BY <1>1
<1>3. messages' = [messages EXCEPT ![i] = [messages[i] EXCEPT !.linked = TRUE]]
  BY <1>1, <1>2 DEF TypeOK, Link
<1>4. RowsGoOn /\ RowsAreUnique'
  BY <1>1, <1>3, RowValues, ChangedRowGoesOn
<1>5. Len(messages') \in Nat
  BY <1>4 DEF RowsGoOn
<1>6. QED
  BY <1>1, <1>4, <1>5, IdleIsHeld, HandlerStepKeepsTypes

(* One conversation changes.                                               *)
LEMMA ChangedConversation ==
    ASSUME TypeOK, NEW c \in 1 .. Len(conversations), NEW x \in Conversation,
           conversations' = [conversations EXCEPT ![c] = x]
    PROVE  /\ conversations' \in Seq(Conversation)
           /\ Len(conversations') = Len(conversations) /\ Len(conversations) \in Nat
           /\ \A k \in 1 .. Len(conversations) :
                 conversations'[k] = IF k = c THEN x ELSE conversations[k]
BY ExceptSeq DEF TypeOK

(* An inbound message is counted.                                          *)
LEMMA CountKeepsTypes ==
    ASSUME TInv, NEW w \in Workers, Count(w)
    PROVE  TInv'
<1>1. /\ worker[w].pc = "count" /\ TypeOK
      /\ worker[w].id \in Inbound /\ worker[w].conv \in 1 .. Len(conversations)
      /\ Len(messages) \in Nat /\ Len(conversations) \in Nat
      /\ worker' = [worker EXCEPT ![w] = Idle]
  <2>1. HeldBy(worker[w], messages, Len(conversations))
    BY AllHold DEF Holds
  <2>2. QED
    BY <2>1, Lengths DEF Count, Counted, At, HeldBy, TInv, Done
<1>2. PICK c \in 1 .. Len(conversations), id \in Inbound :
         c = worker[w].conv /\ id = worker[w].id
  BY <1>1
<1>3. conversations[c] \in Conversation
  BY <1>1, <1>2, ClosedIsBoolean
<1>4. PICK x : x = [closed |-> conversations[c].closed /\ ~ worker[w].closed,
                    unread |-> IF worker[w].created THEN conversations[c].unread
                              ELSE conversations[c].unread + 1]
  OBVIOUS
<1>5. x \in Conversation
  BY <1>3, <1>4 DEF Conversation
<1>6. conversations' = [conversations EXCEPT ![c] = x]
  BY <1>1, <1>2, <1>4 DEF Count, TypeOK
<1>7. /\ conversations' \in Seq(Conversation)
      /\ Len(conversations') = Len(conversations)
  BY <1>1, <1>5, <1>6, ChangedConversation
<1>8. /\ RowsGoOn /\ RowsAreUnique' /\ messages' = messages
  BY SameRowsGoOn DEF Count, Counted, TInv, RowsAreUnique
<1>9. /\ accepted' \subseteq Sent /\ doubtful' \subseteq Inbound /\ overlapped' \in BOOLEAN
      /\ deliveries' \in Nat /\ faults' \in Nat
  BY <1>1 DEF Count, Counted, TypeOK
<1>10. tally' \in [Inbound -> Nat]
  BY <1>1, <1>2 DEF Count, Counted, TypeOK
<1>11. /\ unseen' \subseteq Inbound \X (1 .. Len(conversations'))
       /\ hasty' \subseteq 1 .. Len(conversations')
  BY <1>1, <1>2, <1>7 DEF Count, Counted, TypeOK
<1>12. /\ worker'[w] = Idle
       /\ \A v \in Workers : v # w => worker'[v] = worker[v]
       /\ DOMAIN worker' = Workers /\ worker' = [v \in Workers |-> worker'[v]]
  BY <1>1, WorkerIsFunction
<1>13. Holds(w)'
  <2>1. Len(messages)' \in Nat /\ Len(conversations)' \in Nat
    BY <1>1, <1>7, <1>8
  <2>2. QED
    BY <1>12, <2>1, IdleHolds
<1>14. Len(conversations) <= Len(conversations)'
  BY <1>1, <1>7
<1>15. QED
  BY <1>14, <1>1, <1>7, <1>8, <1>9, <1>10, <1>11, <1>12, <1>13, TypesFollow

(* An agent's message gets its row.                                        *)
LEMMA BeginSendKeepsTypes ==
    ASSUME TInv, NEW w \in Workers, BeginSend(w)
    PROVE  TInv'
<1>1. /\ Len(messages) \in Nat /\ Len(conversations) \in Nat /\ TypeOK
      /\ UNCHANGED <<conversations, history, deliveries>>
      /\ accepted' \subseteq Sent /\ faults' \in Nat
  BY Lengths DEF BeginSend, TInv, TypeOK
<1>2. PICK id \in Sent :
         /\ \A k \in 1 .. Len(messages) : messages[k].id # id
         /\ messages' = Append(messages, [id |-> id, linked |-> FALSE, status |-> "pending"])
         /\ worker' = [worker EXCEPT ![w] = [Idle EXCEPT !.pc = "send", !.id = id,
                                                        !.row = Len(messages) + 1]]
  BY Lengths DEF BeginSend, TInv
<1>3. PICK m : m = [id |-> id, linked |-> FALSE, status |-> "pending"]
  OBVIOUS
<1>4. m \in Message /\ m.id = id
  BY <1>3 DEF Message, Statuses, Ids
<1>5. RowsGoOn /\ RowsAreUnique'
  BY <1>2, <1>3, <1>4, InsertedRowGoesOn
<1>6. /\ Len(messages') = Len(messages) + 1
      /\ messages'[Len(messages) + 1] = m
  BY <1>1, <1>2, <1>3, <1>4, InsertedRow
<1>7. PICK x : x = [Idle EXCEPT !.pc = "send", !.id = id, !.row = Len(messages) + 1]
  OBVIOUS
<1>8. /\ x \in Worker /\ x.pc = "send" /\ x.id = id /\ x.conv = 0
      /\ x.row = Len(messages) + 1
  <2>1. id \in Ids /\ Len(messages) + 1 \in Nat
    BY <1>1 DEF Ids
  <2>2. QED
    BY <1>7, <2>1 DEF Idle, Worker, Statuses
<1>9. HeldBy(x, messages', Len(conversations))
  BY <1>1, <1>4, <1>6, <1>8 DEF HeldBy, Ids
<1>10. QED
  BY <1>1, <1>2, <1>5, <1>7, <1>9, HandlerStepKeepsTypes

(* whatsapp-service accepts an agent's message, or does not.               *)
LEMMA CallWhatsappKeepsTypes ==
    ASSUME TInv, NEW w \in Workers, CallWhatsapp(w)
    PROVE  TInv'
<1>1. /\ worker[w].pc = "send" /\ TypeOK /\ worker[w] \in Worker
      /\ worker[w].id \in Sent
      /\ worker[w].row \in 1 .. Len(messages) /\ "failed" \in Statuses
      /\ HeldBy(worker[w], messages, Len(conversations))
      /\ Len(messages) \in Nat /\ Len(conversations) \in Nat
      /\ UNCHANGED <<conversations, history, deliveries>>
  <2>1. HeldBy(worker[w], messages, Len(conversations))
    BY AllHold DEF Holds
  <2>2. QED
    BY <2>1, Lengths DEF CallWhatsapp, At, HeldBy, Statuses, TInv
<1>2. accepted' \subseteq Sent /\ faults' \in Nat
  BY <1>1 DEF CallWhatsapp, Fault, NoFault, TypeOK
<1>3. CASE /\ messages' = [messages EXCEPT ![worker[w].row].status = "failed"]
           /\ Done(w)
  <2>1. PICK i \in 1 .. Len(messages) : i = worker[w].row
    BY <1>1
  <2>2. messages' = [messages EXCEPT ![i] = [messages[i] EXCEPT !.status = "failed"]]
    BY <1>1, <1>3, <2>1 DEF TypeOK
  <2>3. RowsGoOn /\ RowsAreUnique'
    BY <1>1, <2>2, RowValues, ChangedRowGoesOn
  <2>4. Len(messages') \in Nat
    BY <2>3 DEF RowsGoOn
  <2>5. QED
    BY <1>1, <1>2, <1>3, <2>3, <2>4, IdleIsHeld, HandlerStepKeepsTypes DEF Done
<1>4. CASE Goto(w, "link") /\ UNCHANGED messages
  <2>1. PICK x : x = GoingOn(worker[w], "link")
    OBVIOUS
  <2>2. worker' = [worker EXCEPT ![w] = x]
    BY <1>1, <1>4, <2>1, GotoSets
  <2>3. /\ x \in Worker /\ x.pc = "link" /\ x.id = worker[w].id
        /\ x.conv = worker[w].conv /\ x.row = worker[w].row
    BY <1>1, <2>1, GoingOnValues DEF Steps
  <2>4. HeldBy(x, messages', Len(conversations))
    BY <1>1, <1>4, <2>3 DEF HeldBy
  <2>5. RowsGoOn /\ RowsAreUnique'
    BY <1>1, <1>4, SameRowsGoOn DEF TInv, RowsAreUnique
  <2>6. QED
    BY <1>1, <1>2, <2>2, <2>4, <2>5, HandlerStepKeepsTypes
<1>5. QED
  BY <1>3, <1>4 DEF CallWhatsapp

(* Steps that leave the handlers alone, or stop them all.                  *)
LEMMA OtherStepKeepsTypes ==
    ASSUME TInv, UNCHANGED messages, worker' = worker \/ worker' = [w \in Workers |-> Idle],
           conversations' \in Seq(Conversation),
           Len(conversations') = Len(conversations),
           accepted' \subseteq Sent,
           unseen' \subseteq Inbound \X (1 .. Len(conversations')),
           tally' \in [Inbound -> Nat], doubtful' \subseteq Inbound,
           hasty' \subseteq 1 .. Len(conversations'),
           overlapped' \in BOOLEAN, deliveries' \in Nat, faults' \in Nat
    PROVE  TInv'
<1>1. /\ RowsGoOn /\ RowsAreUnique' /\ TypeOK /\ Len(messages)' \in Nat
      /\ Len(conversations) \in Nat /\ Len(conversations)' \in Nat
  BY SameRowsGoOn, Lengths DEF TInv, RowsAreUnique
<1>2. ASSUME NEW w \in Workers PROVE Holds(w)'
  <2>1. CASE worker' = worker
    BY <1>1, <2>1, OthersHold
  <2>2. CASE worker' = [v \in Workers |-> Idle]
    BY <1>1, <2>2, IdleHolds
  <2>3. QED
    BY <2>1, <2>2
<1>3. HandlersHold'
  BY <1>2 DEF Holds, HeldBy, HandlersHold
<1>4. worker' \in [Workers -> Worker]
  <2>1. \A w \in Workers : worker'[w] \in Worker
    BY <1>2 DEF Holds, HeldBy
  <2>2. CASE worker' = worker
    BY <1>1, <2>2 DEF TypeOK
  <2>3. CASE worker' = [v \in Workers |-> Idle]
    BY <2>1, <2>3
  <2>4. QED
    BY <2>2, <2>3
<1>5. TypeOK'
  BY <1>1, <1>2, <1>4 DEF Holds, HeldBy, TypeOK
<1>6. QED
  BY <1>1, <1>3, <1>5 DEF TInv

(* Agents read, close and reopen a conversation.                           *)
LEMMA AgentKeepsTypes ==
    ASSUME TInv, NEW c \in DOMAIN conversations,
           MarkAsRead(c) \/ UpdateConversationStatus(c)
    PROVE  TInv'
<1>1. /\ TypeOK /\ c \in 1 .. Len(conversations) /\ conversations[c] \in Conversation
      /\ Len(conversations) \in Nat
  BY Lengths, ClosedIsBoolean DEF TInv
<1>2. ASSUME NEW x \in Conversation, conversations' = [conversations EXCEPT ![c] = x]
      PROVE  /\ conversations' \in Seq(Conversation)
             /\ Len(conversations') = Len(conversations)
  BY <1>1, <1>2, ChangedConversation
<1>3. \E x \in Conversation : conversations' = [conversations EXCEPT ![c] = x]
  <2>1. CASE MarkAsRead(c)
    <3>1. [conversations[c] EXCEPT !.unread = 0] \in Conversation
      BY <1>1 DEF Conversation
    <3>2. conversations' = [conversations EXCEPT ![c] = [conversations[c] EXCEPT !.unread = 0]]
      BY <2>1, <1>1 DEF MarkAsRead, TypeOK
    <3>3. QED
      BY <3>1, <3>2
  <2>2. CASE UpdateConversationStatus(c)
    <3>1. [conversations[c] EXCEPT !.closed = ~ conversations[c].closed] \in Conversation
      BY <1>1 DEF Conversation
    <3>2. conversations' = [conversations EXCEPT ![c] =
                               [conversations[c] EXCEPT !.closed = ~ conversations[c].closed]]
      BY <2>2, <1>1 DEF UpdateConversationStatus, TypeOK
    <3>3. QED
      BY <3>1, <3>2
  <2>3. QED
    BY <2>1, <2>2
<1>4. /\ UNCHANGED <<messages, worker, accepted, tally, doubtful, overlapped, deliveries, faults>>
      /\ unseen' \subseteq unseen /\ hasty' \subseteq hasty \union {c}
  BY DEF MarkAsRead, UpdateConversationStatus, history
<1>5. /\ conversations' \in Seq(Conversation)
      /\ Len(conversations') = Len(conversations)
  BY <1>2, <1>3
<1>6. /\ accepted' \subseteq Sent /\ unseen' \subseteq Inbound \X (1 .. Len(conversations'))
      /\ tally' \in [Inbound -> Nat] /\ doubtful' \subseteq Inbound
      /\ hasty' \subseteq 1 .. Len(conversations')
      /\ overlapped' \in BOOLEAN /\ deliveries' \in Nat /\ faults' \in Nat
  BY <1>1, <1>4, <1>5 DEF TypeOK
<1>7. QED
  BY <1>4, <1>5, <1>6, OtherStepKeepsTypes

(* Messages about to be counted are the contact's.                         *)
LEMMA UncountedValues ==
    ASSUME TInv, NEW ws \in SUBSET Workers
    PROVE  Uncounted(ws) \subseteq Inbound
<1>1. \A w \in Workers : At(w, "count") => worker[w].id \in Inbound
  BY DEF TInv, HandlersHold, At
<1>2. QED
  BY <1>1 DEF Uncounted

(* A statement of a handler fails.                                         *)
LEMMA FailureKeepsTypes ==
    ASSUME TInv, NEW w \in Workers, HandlerFails(w)
    PROVE  TInv'
<1>1. /\ worker' = [worker EXCEPT ![w] = Idle] /\ TypeOK
      /\ UNCHANGED <<conversations, messages, accepted, unseen, tally, hasty, overlapped,
                     deliveries>>
      /\ Len(messages) \in Nat /\ Len(conversations) \in Nat
  BY Lengths DEF HandlerFails, Done, TInv
<1>2. doubtful' \subseteq Inbound
  BY UncountedValues DEF HandlerFails, TInv, TypeOK
<1>3. /\ worker'[w] = Idle
      /\ \A v \in Workers : v # w => worker'[v] = worker[v]
      /\ DOMAIN worker' = Workers /\ worker' = [v \in Workers |-> worker'[v]]
  BY <1>1, WorkerIsFunction
<1>4. Holds(w)'
  <2>1. Len(messages)' \in Nat /\ Len(conversations)' \in Nat
    BY <1>1
  <2>2. QED
    BY <1>3, <2>1, IdleHolds
<1>5. RowsGoOn /\ RowsAreUnique'
  BY <1>1, SameRowsGoOn DEF TInv, RowsAreUnique
<1>6. /\ conversations' \in Seq(Conversation) /\ Len(conversations) <= Len(conversations)'
      /\ accepted' \subseteq Sent /\ unseen' \subseteq Inbound \X (1 .. Len(conversations'))
      /\ tally' \in [Inbound -> Nat] /\ hasty' \subseteq 1 .. Len(conversations')
      /\ overlapped' \in BOOLEAN /\ deliveries' \in Nat /\ faults' \in Nat
  BY <1>1 DEF HandlerFails, Fault, TypeOK
<1>7. QED
  BY <1>2, <1>3, <1>4, <1>5, <1>6, TypesFollow

(* The process dies.                                                       *)
LEMMA CrashKeepsTypes == TInv /\ Crash => TInv'
<1> SUFFICES ASSUME TInv, Crash PROVE TInv'
  OBVIOUS
<1>1. doubtful' \subseteq Inbound
  BY UncountedValues DEF Crash, TInv, TypeOK
<1>2. /\ conversations' \in Seq(Conversation) /\ Len(conversations') = Len(conversations)
      /\ accepted' \subseteq Sent /\ unseen' \subseteq Inbound \X (1 .. Len(conversations'))
      /\ tally' \in [Inbound -> Nat] /\ hasty' \subseteq 1 .. Len(conversations')
      /\ overlapped' \in BOOLEAN
      /\ deliveries' \in Nat /\ faults' \in Nat /\ UNCHANGED messages
      /\ worker' = [w \in Workers |-> Idle]
  BY DEF Crash, Fault, TInv, TypeOK
<1>3. QED
  BY <1>1, <1>2, OtherStepKeepsTypes

(* Both topics' events.                                                    *)
LEMMA DeliveriesKeepTypes ==
    ASSUME TInv, NEW w \in Workers, DeliverInbound(w) \/ DeliverStatus(w)
    PROVE  TInv'
<1>1. CASE DeliverInbound(w)
  <2>1. PICK id \in Inbound : Deliver(w, id, "converse", "pending")
    BY <1>1 DEF DeliverInbound
  <2>2. "pending" \in Statuses /\ Normal("pending") \in Statuses
    BY DEF Normal, Statuses
  <2>3. id \in Ids /\ id \notin Sent
    BY IdAssumption DEF Ids
  <2>4. QED
    BY <2>1, <2>2, <2>3, DeliverKeepsTypes
<1>2. CASE DeliverStatus(w)
  <2>1. PICK id \in accepted \union Campaign, status \in Reported :
           Deliver(w, id, "find", status)
    BY <1>2 DEF DeliverStatus
  <2>2. Normal(status) \in Statuses
    BY NormalIsStatus
  <2>3. id \in Ids /\ id \notin Inbound
    <3>1. id \in Sent \union Campaign
      BY DEF TInv, TypeOK
    <3>2. QED
      BY <3>1, IdAssumption DEF Ids
  <2>4. QED
    BY <2>1, <2>2, <2>3, DeliverKeepsTypes
<1>3. QED
  BY <1>1, <1>2

(* Every step keeps the types.                                             *)
LEMMA NextKeepsTypes == TInv /\ [Next]_vars => TInv'
<1> SUFFICES ASSUME TInv, [Next]_vars PROVE TInv'
  OBVIOUS
<1>1. ASSUME NEW w \in Workers, Handle(w) PROVE TInv'
  BY <1>1, DeliveriesKeepTypes, FindConversationKeepsTypes, OpenConversationKeepsTypes,
     LookupKeepsTypes, InsertKeepsTypes, CountKeepsTypes, FindMessageKeepsTypes,
     MoveKeepsTypes, BeginSendKeepsTypes, CallWhatsappKeepsTypes, LinkKeepsTypes,
     FailureKeepsTypes DEF Handle
<1>2. CASE UNCHANGED vars
  <2>1. UNCHANGED <<conversations, messages, accepted, worker, unseen, tally, doubtful,
                    hasty, overlapped, deliveries, faults>>
    BY <1>2 DEF vars
  <2>2. QED
    BY <2>1, OtherStepKeepsTypes DEF TInv, TypeOK
<1>3. QED
  BY <1>1, <1>2, AgentKeepsTypes, CrashKeepsTypes DEF Next

(* Types, what handlers hold and the table's unique index are invariant.   *)
LEMMA TypesHold == Spec => []TInv
<1>1. QED
  BY InitTypes, NextKeepsTypes, PTL DEF Spec

(* The rows, conversations and handlers of every run are well formed.      *)
THEOREM TypeCorrect == Spec => []TypeOK
<1>1. TInv => TypeOK
  BY DEF TInv
<1>2. QED
  BY <1>1, TypesHold, PTL

(* However often Meta and Kafka deliver a message, and however many        *)
(* consumers handle it at the same time, the conversation has it once.     *)
THEOREM StoredOnce == Spec => []MessageStoredOnce
<1>1. TInv => MessageStoredOnce
  <2> SUFFICES ASSUME TInv, NEW id \in Ids PROVE Cardinality(RowsOf(id)) <= 1
    BY DEF MessageStoredOnce
  <2>1. CASE RowsOf(id) = {}
    BY <2>1, FS_EmptySet
  <2>2. CASE RowsOf(id) # {}
    <3>1. PICK k : k \in RowsOf(id)
      BY <2>2
    <3>2. RowsOf(id) = {k}
      BY <3>1, Lengths DEF RowsOf, TInv, RowsAreUnique
    <3>3. Cardinality({k}) = 1
      BY FS_Singleton
    <3>4. QED
      BY <3>2, <3>3
  <2>3. QED
    BY <2>1, <2>2
<1>2. QED
  BY <1>1, TypesHold, PTL

-----------------------------------------------------------------------------
(* What a step does to the handlers and to the table.                      *)

(* What a handler holds of the event it took.                              *)
LEMMA DeliverValues ==
    ASSUME TInv, NEW w \in Workers, NEW id \in Ids, NEW step \in {"converse", "find"},
           NEW status, Normal(status) \in Statuses, Deliver(w, id, step, status)
    PROVE  /\ worker[w].pc = "idle"
           /\ worker'[w].pc = step /\ worker'[w].id = id /\ ~ worker'[w].created
           /\ \A v \in Workers : v # w => worker'[v] = worker[v]
<1>1. PICK x : x = [Idle EXCEPT !.pc = step, !.id = id, !.status = Normal(status)]
  OBVIOUS
<1>2. x.pc = step /\ x.id = id /\ ~ x.created
  BY <1>1 DEF Idle
<1>3. worker'[w] = x /\ \A v \in Workers : v # w => worker'[v] = worker[v]
  BY <1>1, WorkerIsFunction DEF Deliver, TInv
<1>4. QED
  BY <1>2, <1>3 DEF Deliver, At

(* An event is taken by an idle handler, and of a partition that is in     *)
(* other hands only where partitions overlap.                              *)
LEMMA DeliveriesGo ==
    ASSUME TInv, NEW w \in Workers, DeliverInbound(w) \/ DeliverStatus(w)
    PROVE  /\ \A v \in Workers : v # w => worker'[v] = worker[v]
           /\ worker[w].pc = "idle" /\ worker'[w].pc \in {"converse", "find"}
           /\ ~ worker'[w].created
           /\ UNCHANGED <<conversations, messages, accepted, unseen, tally, doubtful, hasty>>
           /\ \E id \in Ids : /\ worker'[w].id = id
                              /\ \/ SamePartition(id) = {} /\ overlapped' = overlapped
                                 \/ overlapped' = TRUE
<1>1. CASE DeliverInbound(w)
  <2>1. PICK id \in Inbound : Deliver(w, id, "converse", "pending")
    BY <1>1 DEF DeliverInbound
  <2>2. Normal("pending") \in Statuses /\ id \in Ids
    BY DEF Normal, Statuses, Ids
  <2>3. QED
    BY <2>1, <2>2, DeliverValues DEF Deliver
<1>2. CASE DeliverStatus(w)
  <2>1. PICK id \in accepted \union Campaign, status \in Reported :
           Deliver(w, id, "find", status)
    BY <1>2 DEF DeliverStatus
  <2>2. Normal(status) \in Statuses
    BY NormalIsStatus
  <2>3. id \in Ids
    BY DEF Ids, TInv, TypeOK
  <2>4. QED
    BY <2>1, <2>2, <2>3, DeliverValues DEF Deliver
<1>3. QED
  BY <1>1, <1>2

(* What a handler holds of the row it found.                               *)
LEMMA FoundValues ==
    ASSUME TInv, NEW w \in Workers, NEW row \in RowsOf(worker[w].id), Found(w, row)
    PROVE  /\ \A v \in Workers : v # w => worker'[v] = worker[v]
           /\ \/ worker'[w] = Idle
              \/ /\ worker[w].id \notin Inbound
                 /\ worker'[w].pc = "move" /\ worker'[w].id = worker[w].id
                 /\ worker'[w].row = row /\ worker'[w].copy = messages[row].status
<1>1. worker[w] \in Worker /\ row \in Nat /\ messages[row].status \in Statuses
  <2>1. worker[w] \in Worker
    BY AllHold
  <2>2. row \in 1 .. Len(messages) /\ messages[row].status \in Statuses
    BY RowsOfRows DEF TInv
  <2>3. QED
    BY <2>1, <2>2
<1>2. CASE worker[w].id \in Inbound
  BY <1>2 DEF Found, TInv, TypeOK
<1>3. CASE worker[w].id \notin Inbound
  <2>1. PICK x : x = Moving(worker[w], row, messages[row].status)
    OBVIOUS
  <2>2. worker' = [worker EXCEPT ![w] = x]
    BY <1>3, <2>1 DEF Found, TInv, TypeOK, Moving
  <2>3. /\ x.pc = "move" /\ x.row = row /\ x.id = worker[w].id
        /\ x.copy = messages[row].status
    BY <1>1, <2>1, MovingValues
  <2>4. QED
    BY <1>3, <2>2, <2>3, WorkerIsFunction DEF TInv
<1>4. QED
  BY <1>2, <1>3

(* Going on, a handler takes its next step with the same message.          *)
LEMMA GotoNext ==
    ASSUME TInv, NEW w \in Workers, NEW step \in Steps, Goto(w, step)
    PROVE  /\ \A v \in Workers : v # w => worker'[v] = worker[v]
           /\ worker'[w].pc = step /\ worker'[w].id = worker[w].id
           /\ worker'[w].row = worker[w].row /\ worker'[w].conv = worker[w].conv
           /\ worker'[w].copy = worker[w].copy /\ worker'[w].created = worker[w].created
BY AllHold, GotoValues, GoingOnValues DEF TInv

(* What a handler holds of its conversation.                               *)
LEMMA ConverseValues ==
    ASSUME TInv, NEW w \in Workers, FindConversation(w) \/ OpenConversation(w)
    PROVE  /\ \A v \in Workers : v # w => worker'[v] = worker[v]
           /\ worker[w].pc \in {"converse", "open"} /\ worker'[w].id = worker[w].id
           /\ \/ worker'[w].pc = "open" /\ worker'[w].created = worker[w].created
              \/ /\ worker[w].pc = "converse" /\ worker'[w].pc = "lookup"
                 /\ worker'[w].created = worker[w].created
              \/ /\ worker[w].pc = "open" /\ worker'[w].pc = "lookup"
                 /\ worker'[w].conv = Len(conversations) + 1
<1>1. /\ TypeOK /\ worker[w] \in Worker /\ Len(conversations) + 1 \in Nat
      /\ DOMAIN conversations = 1 .. Len(conversations)
  BY AllHold, Lengths DEF TInv
<1>2. CASE FindConversation(w) /\ Goto(w, "open")
  BY <1>2, GotoNext DEF FindConversation, At, Steps
<1>3. CASE FindConversation(w) /\ \E c \in DOMAIN conversations :
             worker' = [worker EXCEPT ![w].pc = "lookup", ![w].conv = c,
                                      ![w].closed = conversations[c].closed]
  <2>1. PICK c \in DOMAIN conversations :
             worker' = [worker EXCEPT ![w].pc = "lookup", ![w].conv = c,
                                      ![w].closed = conversations[c].closed]
    BY <1>3
  <2>2. c \in Nat /\ conversations[c].closed \in BOOLEAN
    BY <1>1, ClosedIsBoolean
  <2>3. PICK x : x = Looking(worker[w], c, conversations[c].closed)
    OBVIOUS
  <2>4. worker' = [worker EXCEPT ![w] = x]
    BY <1>1, <2>1, <2>3 DEF TypeOK, Looking
  <2>5. x.pc = "lookup" /\ x.id = worker[w].id /\ x.created = worker[w].created
    BY <1>1, <2>2, <2>3, LookingValues
  <2>6. QED
    BY <1>1, <1>3, <2>4, <2>5, WorkerIsFunction DEF FindConversation, At
<1>4. CASE OpenConversation(w)
  <2>1. PICK x : x = Opening(worker[w], Len(conversations) + 1)
    OBVIOUS
  <2>2. worker' = [worker EXCEPT ![w] = x]
    BY <1>1, <1>4, <2>1 DEF TypeOK, OpenConversation, Opening
  <2>3. x.pc = "lookup" /\ x.conv = Len(conversations) + 1 /\ x.id = worker[w].id
    BY <1>1, <2>1, OpeningValues
  <2>4. QED
    BY <1>1, <1>4, <2>2, <2>3, WorkerIsFunction DEF OpenConversation, At
<1>5. QED
  BY <1>2, <1>3, <1>4 DEF FindConversation

(* What the sender of an agent's message holds.                            *)
LEMMA BeginSendValues ==
    ASSUME TInv, NEW w \in Workers, BeginSend(w)
    PROVE  /\ \A v \in Workers : v # w => worker'[v] = worker[v]
           /\ worker[w].pc = "idle" /\ worker'[w].pc = "send"
           /\ worker'[w].row = Len(messages) + 1
           /\ \E m \in Message : messages' = Append(messages, m) /\ m.id \in Sent /\ ~ m.linked
<1>1. PICK id \in Sent :
         /\ messages' = Append(messages, [id |-> id, linked |-> FALSE, status |-> "pending"])
         /\ worker' = [worker EXCEPT ![w] = [Idle EXCEPT !.pc = "send", !.id = id,
                                                        !.row = Len(messages) + 1]]
  BY DEF BeginSend
<1>2. PICK m : m = [id |-> id, linked |-> FALSE, status |-> "pending"]
  OBVIOUS
<1>3. m \in Message /\ m.id \in Sent /\ ~ m.linked
  BY <1>2 DEF Message, Statuses, Ids
<1>4. PICK x : x = [Idle EXCEPT !.pc = "send", !.id = id, !.row = Len(messages) + 1]
  OBVIOUS
<1>5. x.pc = "send" /\ x.row = Len(messages) + 1
  BY <1>4 DEF Idle
<1>6. QED
  BY <1>1, <1>2, <1>3, <1>4, <1>5, WorkerIsFunction DEF BeginSend, At, TInv

(* The rows of inbound messages are found or missing as they were, where   *)
(* no row of one is inserted.                                              *)
InboundStay ==
    /\ \A id \in Ids : RowsOf(id) # {} => RowsOf(id)' # {}
    /\ \A id \in Inbound : RowsOf(id)' # {} => RowsOf(id) # {}

(* So where the table stays,                                               *)
LEMMA SameInboundStay == TypeOK /\ UNCHANGED messages => InboundStay
BY DEF InboundStay, RowsOf

(* and where it grows by rows of other messages.                           *)
LEMMA OldInboundStay ==
    ASSUME TInv, RowsGoOn,
           \A k \in 1 .. Len(messages') : messages'[k].id \in Inbound => k \in 1 .. Len(messages)
    PROVE  InboundStay
<1>1. ASSUME NEW id \in Ids, RowsOf(id) # {} PROVE RowsOf(id)' # {}
  <2>1. PICK k : k \in RowsOf(id)
    BY <1>1
  <2>2. k \in 1 .. Len(messages) /\ messages[k].id = id /\ messages[k].linked
    BY <2>1, RowsOfRows DEF TInv
  <2>3. k \in DOMAIN messages' /\ messages'[k].id = id /\ messages'[k].linked
    BY <2>2 DEF RowsGoOn
  <2>4. QED
    BY <2>3 DEF RowsOf
<1>2. ASSUME NEW id \in Inbound, RowsOf(id)' # {} PROVE RowsOf(id) # {}
  <2>1. PICK k : k \in DOMAIN messages' /\ messages'[k].id = id
    BY <1>2 DEF RowsOf
  <2>2. k \in 1 .. Len(messages) /\ messages[k].id = id
    BY <2>1 DEF RowsGoOn
  <2>3. messages[k].linked
    BY <2>2, IdAssumption DEF TInv, RowsAreUnique
  <2>4. QED
    BY <2>2, <2>3, Lengths DEF RowsOf, TInv
<1>3. QED
  BY <1>1, <1>2 DEF InboundStay

(* Links and statuses are set in rows that are there.                      *)
LEMMA ChangeStays ==
    ASSUME TInv, NEW i \in 1 .. Len(messages), NEW x \in Message,
           messages' = [messages EXCEPT ![i] = x],
           x.id = messages[i].id, messages[i].linked => x.linked
    PROVE  InboundStay
<1>1. RowsGoOn /\ Len(messages') = Len(messages)
  BY ChangedRowGoesOn, ChangedRow DEF TInv
<1>2. QED
  BY <1>1, OldInboundStay

(* What the steps that change one row make of it.                          *)
WritesStatus(w, status) ==
    /\ \/ Move(w) /\ status = worker[w].status
       \/ CallWhatsapp(w)
    /\ worker[w].row \in 1 .. Len(messages)
    /\ messages' = [messages EXCEPT ![worker[w].row] =
                      [messages[worker[w].row] EXCEPT !.status = status]]

WritesLink(w) ==
    /\ Link(w)
    /\ worker[w].row \in 1 .. Len(messages)
    /\ messages' = [messages EXCEPT ![worker[w].row] =
                      [messages[worker[w].row] EXCEPT !.linked = TRUE]]

(* A status or a link is written into the handler's row.                   *)
LEMMA RowSteps ==
    ASSUME TInv, NEW w \in Workers, Move(w) \/ CallWhatsapp(w) \/ Link(w)
    PROVE  \/ UNCHANGED messages
           \/ \E status \in Statuses : WritesStatus(w, status)
           \/ WritesLink(w)
<1>1. HeldBy(worker[w], messages, Len(conversations)) /\ TypeOK
  BY AllHold DEF Holds, TInv
<1>2. /\ worker[w].pc \in {"move", "send", "link"}
      /\ worker[w].row \in 1 .. Len(messages) /\ worker[w].status \in Statuses
  BY <1>1 DEF HeldBy, Worker, Move, CallWhatsapp, Link, At
<1>3. CASE Move(w)
  <2>1. CASE UNCHANGED messages
    BY <2>1
  <2>2. CASE messages' = [messages EXCEPT ![worker[w].row].status = worker[w].status]
    <3>1. PICK status \in Statuses : status = worker[w].status
      BY <1>2
    <3>2. messages' = [messages EXCEPT ![worker[w].row] =
                          [messages[worker[w].row] EXCEPT !.status = status]]
      BY <1>1, <1>2, <2>2, <3>1 DEF TypeOK
    <3>3. WritesStatus(w, status)
      BY <1>2, <1>3, <3>1, <3>2 DEF WritesStatus
    <3>4. QED
      BY <3>3
  <2>3. QED
    BY <1>3, <2>1, <2>2 DEF Move
<1>4. CASE CallWhatsapp(w)
  <2>1. "failed" \in Statuses
    BY DEF Statuses
  <2>2. \/ UNCHANGED messages
        \/ messages' = [messages EXCEPT ![worker[w].row].status = "failed"]
    BY <1>4 DEF CallWhatsapp
  <2>3. QED
    BY <1>1, <1>2, <1>4, <2>1, <2>2 DEF TypeOK, WritesStatus
<1>5. CASE Link(w)
  BY <1>1, <1>2, <1>5 DEF Link, TypeOK, WritesLink
<1>6. QED
  BY <1>3, <1>4, <1>5

(* None of them makes or hides a row.                                      *)
LEMMA RowStepsStay ==
    ASSUME TInv, NEW w \in Workers, Move(w) \/ CallWhatsapp(w) \/ Link(w)
    PROVE  InboundStay
<1>1. CASE UNCHANGED messages
  BY <1>1, SameInboundStay DEF TInv
<1>2. ASSUME NEW i \in 1 .. Len(messages), NEW status \in Statuses,
             \/ messages' = [messages EXCEPT ![i] = [messages[i] EXCEPT !.status = status]]
             \/ messages' = [messages EXCEPT ![i] = [messages[i] EXCEPT !.linked = TRUE]]
      PROVE  InboundStay
  BY <1>2, RowValues, ChangeStays DEF TInv
<1>3. "sent" \in Statuses
  BY DEF Statuses
<1>4. QED
  BY <1>1, <1>2, <1>3, RowSteps DEF WritesStatus, WritesLink

(* A handler that keeps or leaves its step, not that of counting.          *)
LEMMA RowStepsGo ==
    ASSUME TInv, NEW w \in Workers, Move(w) \/ CallWhatsapp(w) \/ Link(w)
    PROVE  /\ \A v \in Workers : v # w => worker'[v] = worker[v]
           /\ worker[w].pc \in {"move", "send", "link"}
           /\ worker'[w].pc \in {"idle", "link"}
           /\ \/ worker'[w] = Idle /\ worker'[w].pc = "idle"
              \/ /\ worker[w].pc = "send" /\ worker'[w].pc = "link"
                 /\ worker'[w].row = worker[w].row /\ worker'[w].id = worker[w].id
BY DoneValues, GotoNext DEF Move, CallWhatsapp, Link, At, TInv, Steps

-----------------------------------------------------------------------------
(* A message is counted once.                                              *)

(* Steps that neither store nor count an inbound message.                  *)
LEMMA QuietCounting ==
    ASSUME TInv, CountingOnce, NEW w \in Workers, InboundStay,
           \A v \in Workers : v # w => worker'[v] = worker[v],
           worker[w].pc # "count", worker'[w].pc # "count",
           UNCHANGED <<tally, doubtful>>
    PROVE  CountingOnce'
<1>1. ASSUME NEW v \in Workers, worker'[v].pc = "count"
      PROVE  worker'[v] = worker[v] /\ worker[v].pc = "count"
  BY <1>1
<1>2. ASSUME NEW v \in Workers, NEW id \in Inbound, worker'[v].pc = "count", worker'[v].id = id
      PROVE  RowsOf(id)' # {} /\ tally'[id] = 0
  <2>1. RowsOf(id) # {} /\ tally[id] = 0
    BY <1>1, <1>2 DEF CountingOnce
  <2>2. QED
    BY <2>1 DEF InboundStay, Ids
<1>3. ASSUME NEW u \in Workers, NEW v \in Workers, worker'[u].pc = "count",
             worker'[v].pc = "count", worker'[u].id = worker'[v].id
      PROVE  u = v
  BY <1>1, <1>3 DEF CountingOnce
<1>4. ASSUME NEW id \in Inbound, tally'[id] > 0 PROVE RowsOf(id)' # {}
  <2>1. RowsOf(id) # {}
    BY <1>4 DEF CountingOnce
  <2>2. QED
    BY <2>1 DEF InboundStay, Ids
<1>5. CountedOnce'
  <2>1. SUFFICES ASSUME NEW id \in Inbound
                 PROVE  /\ tally'[id] <= 1
                        /\ RowsOf(id)' # {} /\ tally'[id] = 0 => 
                              id \in doubtful' \/ \E v \in Workers : worker'[v].pc = "count"
                                                                    /\ worker'[v].id = id
    BY DEF CountedOnce, At
  <2>2. tally'[id] <= 1
    BY DEF CountingOnce, CountedOnce
  <2>3. ASSUME RowsOf(id)' # {}, tally'[id] = 0, id \notin doubtful'
        PROVE  \E v \in Workers : worker'[v].pc = "count" /\ worker'[v].id = id
    <3>1. RowsOf(id) # {} /\ tally[id] = 0 /\ id \notin doubtful
      BY <2>3 DEF InboundStay
    <3>2. PICK v \in Workers : worker[v].pc = "count" /\ worker[v].id = id
      BY <3>1 DEF CountingOnce, CountedOnce, At
    <3>3. v # w
      BY <3>2
    <3>4. QED
      BY <3>2, <3>3
  <2>4. QED
    BY <2>2, <2>3
<1>6. QED
  BY <1>2, <1>3, <1>4, <1>5 DEF CountingOnce

(* The message just stored was never counted.                              *)
LEMMA InsertCounting ==
    ASSUME TInv, CountingOnce, NEW w \in Workers, Insert(w)
    PROVE  CountingOnce'
<1>1. worker[w].pc = "insert" /\ UNCHANGED <<tally, doubtful>> /\ TypeOK
  BY DEF Insert, At, history, TInv
<1>2. CASE \E row \in RowsOf(worker[w].id) : Found(w, row) /\ UNCHANGED messages
  BY <1>1, <1>2, FoundValues, SameInboundStay, QuietCounting, IdleIsWorker
<1>3. CASE RowsOf(worker[w].id) = {} /\ Stored(w)
  <2>1. HeldBy(worker[w], messages, Len(conversations)) /\ Len(messages) \in Nat
    BY <1>1, AllHold, Lengths DEF Holds
  <2>2. PICK m : m = NewMessage(w)
    OBVIOUS
  <2>3. m \in Message /\ m.id = worker[w].id /\ m.linked
    <3>1. worker[w].id \in Ids /\ worker[w].status \in Statuses
      BY <1>1, <2>1 DEF HeldBy, Worker
    <3>2. QED
      BY <2>2, <3>1 DEF NewMessage, Message, Statuses
  <2>4. /\ Len(messages') = Len(messages) + 1
        /\ \A k \in 1 .. Len(messages) : messages'[k] = messages[k]
        /\ messages'[Len(messages) + 1] = m
        /\ DOMAIN messages' = 1 .. Len(messages')
    <3>1. messages' = Append(messages, m)
      BY <1>3, <2>2 DEF Stored
    <3>2. QED
      BY <1>1, <2>3, <3>1, InsertedRow
  <2>5. \A id \in Ids : RowsOf(id) # {} => RowsOf(id)' # {}
    <3>1. SUFFICES ASSUME NEW id \in Ids, NEW k \in RowsOf(id) PROVE RowsOf(id)' # {}
      OBVIOUS
    <3>2. k \in 1 .. Len(messages) /\ messages[k].id = id /\ messages[k].linked
      BY <1>1, RowsOfRows
    <3>3. k \in DOMAIN messages' /\ messages'[k] = messages[k]
      BY <2>1, <2>4, <3>2
    <3>4. QED
      BY <3>2, <3>3 DEF RowsOf
  <2>6. ASSUME NEW id \in Inbound, id # worker[w].id, RowsOf(id)' # {}
        PROVE  RowsOf(id) # {}
    <3>1. PICK k : k \in DOMAIN messages' /\ messages'[k].id = id /\ messages'[k].linked
      BY <2>6 DEF RowsOf
    <3>2. k \in 1 .. Len(messages) /\ messages'[k] = messages[k]
      BY <2>1, <2>3, <2>4, <2>6, <3>1
    <3>3. QED
      BY <1>1, <3>1, <3>2, Lengths DEF RowsOf
  <2>7. CASE worker[w].id \notin Inbound
    <3>1. /\ \A v \in Workers : v # w => worker'[v] = worker[v]
          /\ worker'[w].pc = "idle"
      BY <1>1, <1>3, <2>7, DoneValues DEF Stored
    <3>2. InboundStay
      BY <2>5, <2>6, <2>7 DEF InboundStay
    <3>3. QED
      BY <1>1, <3>1, <3>2, QuietCounting
  <2>8. CASE worker[w].id \in Inbound
    <3>1. /\ \A v \in Workers : v # w => worker'[v] = worker[v]
          /\ worker'[w].pc = "count" /\ worker'[w].id = worker[w].id
      BY <1>3, <2>8, GotoNext DEF Stored, Steps
    <3>2. PICK i \in Inbound : i = worker[w].id
      BY <2>8
    <3>3. RowsOf(i) = {} /\ RowsOf(i)' # {}
      <4>1. RowsOf(i) = {}
        BY <1>3, <3>2
      <4>2. Len(messages) + 1 \in DOMAIN messages'
        BY <2>1, <2>4
      <4>3. Len(messages) + 1 \in RowsOf(i)'
        BY <2>3, <2>4, <3>2, <4>2 DEF RowsOf
      <4>4. QED
        BY <4>1, <4>3
    <3>4. tally[i] = 0
      <4>1. tally[i] \in Nat
        BY <1>1 DEF TypeOK
      <4>2. QED
        BY <3>3, <4>1 DEF CountingOnce
    <3>5. \A v \in Workers : worker[v].pc = "count" => worker[v].id # i
      BY <3>3 DEF CountingOnce
    <3>6. ASSUME NEW v \in Workers, NEW id \in Inbound, worker'[v].pc = "count",
                 worker'[v].id = id
          PROVE  RowsOf(id)' # {} /\ tally'[id] = 0
      <4>1. CASE v = w
        BY <1>1, <3>1, <3>2, <3>3, <3>4, <3>6, <4>1
      <4>2. CASE v # w
        <5>1. RowsOf(id) # {} /\ tally[id] = 0
          BY <3>1, <3>6, <4>2 DEF CountingOnce
        <5>2. QED
          BY <1>1, <2>5, <5>1 DEF Ids
      <4>3. QED
        BY <4>1, <4>2
    <3>7. ASSUME NEW u \in Workers, NEW v \in Workers, worker'[u].pc = "count",
                 worker'[v].pc = "count", worker'[u].id = worker'[v].id
          PROVE  u = v
      BY <3>1, <3>2, <3>5, <3>7 DEF CountingOnce
    <3>8. ASSUME NEW id \in Inbound, tally'[id] > 0 PROVE RowsOf(id)' # {}
      BY <1>1, <2>5, <3>8 DEF CountingOnce, Ids
    <3>9. CountedOnce'
      <4>1. ASSUME NEW id \in Inbound, RowsOf(id)' # {}, tally'[id] = 0, id \notin doubtful'
            PROVE  \E v \in Workers : worker'[v].pc = "count" /\ worker'[v].id = id
        <5>1. CASE id = i
          BY <3>1, <3>2, <5>1
        <5>2. CASE id # i
          <6>1. RowsOf(id) # {} /\ tally[id] = 0 /\ id \notin doubtful
            BY <1>1, <2>6, <3>2, <4>1, <5>2
          <6>2. PICK v \in Workers : worker[v].pc = "count" /\ worker[v].id = id
            BY <6>1 DEF CountingOnce, CountedOnce, At
          <6>3. v # w
            BY <1>1, <6>2
          <6>4. QED
            BY <3>1, <6>2, <6>3
        <5>3. QED
          BY <5>1, <5>2
      <4>2. \A id \in Inbound : tally'[id] <= 1
        BY <1>1 DEF CountingOnce, CountedOnce
      <4>3. QED
        BY <4>1, <4>2 DEF CountedOnce, At
    <3>10. QED
      BY <3>6, <3>7, <3>8, <3>9 DEF CountingOnce
  <2>9. QED
    BY <2>7, <2>8
<1>4. QED
  BY <1>2, <1>3 DEF Insert

(* The message being counted is counted for the first time.                *)
LEMMA CountCounting ==
    ASSUME TInv, CountingOnce, NEW w \in Workers, Count(w)
    PROVE  CountingOnce'
<1>1. /\ worker[w].pc = "count" /\ TypeOK
      /\ worker'[w].pc = "idle" /\ \A v \in Workers : v # w => worker'[v] = worker[v]
      /\ UNCHANGED <<messages, doubtful>>
      /\ tally' = [tally EXCEPT ![worker[w].id] = tally[worker[w].id] + 1]
  BY DoneValues DEF Count, Counted, At, TInv
<1>2. PICK i \in Inbound : i = worker[w].id
  BY <1>1, AllHold DEF Holds, HeldBy
<1>3. tally[i] = 0 /\ RowsOf(i) # {}
  BY <1>1, <1>2 DEF CountingOnce
<1>4. \A id \in Inbound : tally'[id] = IF id = i THEN 1 ELSE tally[id]
  BY <1>1, <1>2, <1>3 DEF TypeOK
<1>5. \A id \in Ids : RowsOf(id)' = RowsOf(id)
  BY <1>1 DEF RowsOf
<1>6. ASSUME NEW v \in Workers, worker'[v].pc = "count"
      PROVE  /\ v # w /\ worker'[v] = worker[v] /\ worker[v].pc = "count"
             /\ worker[v].id # i
  BY <1>1, <1>2, <1>6 DEF CountingOnce
<1>7. ASSUME NEW v \in Workers, NEW id \in Inbound, worker'[v].pc = "count", worker'[v].id = id
      PROVE  RowsOf(id)' # {} /\ tally'[id] = 0
  <2>1. RowsOf(id) # {} /\ tally[id] = 0 /\ id # i
    BY <1>6, <1>7 DEF CountingOnce
  <2>2. QED
    BY <1>4, <1>5, <2>1 DEF Ids
<1>8. ASSUME NEW u \in Workers, NEW v \in Workers, worker'[u].pc = "count",
             worker'[v].pc = "count", worker'[u].id = worker'[v].id
      PROVE  u = v
  BY <1>6, <1>8 DEF CountingOnce
<1>9. ASSUME NEW id \in Inbound, tally'[id] > 0 PROVE RowsOf(id)' # {}
  BY <1>3, <1>4, <1>5, <1>9 DEF CountingOnce, Ids
<1>10. CountedOnce'
  <2>1. ASSUME NEW id \in Inbound, RowsOf(id)' # {}, tally'[id] = 0, id \notin doubtful'
        PROVE  \E v \in Workers : worker'[v].pc = "count" /\ worker'[v].id = id
    <3>1. id # i /\ tally[id] = 0 /\ RowsOf(id) # {} /\ id \notin doubtful
      BY <1>1, <1>4, <1>5, <2>1 DEF Ids
    <3>2. PICK v \in Workers : worker[v].pc = "count" /\ worker[v].id = id
      BY <3>1 DEF CountingOnce, CountedOnce, At
    <3>3. v # w
      BY <1>2, <3>1, <3>2
    <3>4. QED
      BY <1>1, <3>2, <3>3
  <2>2. \A id \in Inbound : tally'[id] <= 1
    BY <1>4 DEF CountingOnce, CountedOnce
  <2>3. QED
    BY <2>1, <2>2 DEF CountedOnce, At
<1>11. QED
  BY <1>7, <1>8, <1>9, <1>10 DEF CountingOnce

(* A message whose handler ends before counting becomes doubtful.          *)
LEMMA EndedCounting ==
    ASSUME TInv, CountingOnce, NEW ws \in SUBSET Workers,
           UNCHANGED <<messages, tally>>, doubtful' = doubtful \union Uncounted(ws),
           \A w \in ws : worker'[w].pc = "idle",
           \A w \in Workers \ ws : worker'[w] = worker[w]
    PROVE  CountingOnce'
<1>1. \A id \in Ids : RowsOf(id)' = RowsOf(id)
  BY DEF RowsOf
<1>2. ASSUME NEW w \in Workers, worker'[w].pc = "count"
      PROVE  w \notin ws /\ worker'[w] = worker[w]
  BY <1>2
<1>3. ASSUME NEW id \in Inbound, RowsOf(id)' # {}, tally'[id] = 0, id \notin doubtful'
      PROVE  \E w \in Workers : worker'[w].pc = "count" /\ worker'[w].id = id
  <2>1. RowsOf(id) # {} /\ tally[id] = 0 /\ id \notin doubtful /\ id \notin Uncounted(ws)
    BY <1>1, <1>3 DEF Ids
  <2>2. PICK w \in Workers : worker[w].pc = "count" /\ worker[w].id = id
    BY <2>1 DEF CountingOnce, CountedOnce, At
  <2>3. w \notin ws
    BY <2>1, <2>2 DEF Uncounted, At
  <2>4. QED
    BY <2>2, <2>3
<1>4. CountedOnce'
  BY <1>3 DEF CountedOnce, CountingOnce, At
<1>5. QED
  BY <1>1, <1>2, <1>4 DEF CountingOnce, Ids

(* So it is when the process dies, and when a statement fails.             *)
LEMMA FailedCounting ==
    ASSUME TInv, CountingOnce, Crash \/ \E w \in Workers : HandlerFails(w)
    PROVE  CountingOnce'
<1>1. CASE Crash
  <2>1. /\ UNCHANGED <<messages, tally>> /\ doubtful' = doubtful \union Uncounted(Workers)
        /\ \A w \in Workers : worker'[w].pc = "idle"
    BY <1>1 DEF Crash, Idle
  <2>2. QED
    BY <2>1, EndedCounting
<1>2. CASE \E w \in Workers : HandlerFails(w)
  <2>1. PICK w \in Workers : HandlerFails(w)
    BY <1>2
  <2>2. /\ UNCHANGED <<messages, tally>> /\ doubtful' = doubtful \union Uncounted({w})
        /\ worker'[w].pc = "idle" /\ \A v \in Workers : v # w => worker'[v] = worker[v]
    BY <2>1, DoneValues DEF HandlerFails, TInv
  <2>3. QED
    BY <2>2, EndedCounting
<1>3. QED
  BY <1>1, <1>2

(* Steps that touch neither the table nor the handlers.                    *)
LEMMA SameCounting ==
    ASSUME TInv, CountingOnce, UNCHANGED <<messages, worker, tally, doubtful>>
    PROVE  CountingOnce'
BY DEF CountingOnce, CountedOnce, RowsOf, At

(* Every step keeps the counts.                                            *)
LEMMA NextKeepsCounting == TInv /\ CountingOnce /\ [Next]_vars => CountingOnce'
<1> SUFFICES ASSUME TInv, CountingOnce, [Next]_vars PROVE CountingOnce'
  OBVIOUS
<1>1. ASSUME NEW w \in Workers, Handle(w) PROVE CountingOnce'
  <2>1. CASE DeliverInbound(w) \/ DeliverStatus(w)
    <3>1. /\ \A v \in Workers : v # w => worker'[v] = worker[v]
          /\ worker[w].pc = "idle" /\ worker'[w].pc \in {"converse", "find"}
          /\ UNCHANGED <<messages, tally, doubtful>>
      BY <2>1, DeliveriesGo
    <3>2. worker'[w].pc # "count"
      BY <3>1
    <3>3. QED
      BY <3>1, <3>2, SameInboundStay, QuietCounting DEF TInv
  <2>2. CASE FindConversation(w) \/ OpenConversation(w)
    <3>1. UNCHANGED <<messages, tally, doubtful>>
      BY <2>2 DEF FindConversation, OpenConversation, history
    <3>2. QED
      BY <2>2, <3>1, ConverseValues, SameInboundStay, QuietCounting DEF TInv
  <2>3. CASE Lookup(w) \/ FindMessage(w)
    <3>1. /\ UNCHANGED <<messages, tally, doubtful>>
          /\ worker[w].pc \in {"lookup", "find"}
      BY <2>3 DEF Lookup, FindMessage, history, At
    <3>2. /\ \A v \in Workers : v # w => worker'[v] = worker[v]
          /\ worker'[w].pc # "count"
      <4>1. CASE \E row \in RowsOf(worker[w].id) : Found(w, row)
        BY <4>1, FoundValues, IdleIsWorker DEF TInv
      <4>2. CASE Goto(w, "insert") \/ Goto(w, "converse")
        BY <4>2, GotoNext DEF Steps
      <4>3. CASE Done(w)
        BY <4>3, DoneValues DEF TInv
      <4>4. QED
        BY <2>3, <4>1, <4>2, <4>3 DEF Lookup, FindMessage
    <3>3. QED
      BY <3>1, <3>2, SameInboundStay, QuietCounting DEF TInv
  <2>4. CASE Insert(w)
    BY <2>4, InsertCounting
  <2>5. CASE Count(w)
    BY <2>5, CountCounting
  <2>6. CASE Move(w) \/ CallWhatsapp(w) \/ Link(w)
    <3>1. UNCHANGED <<tally, doubtful>>
      BY <2>6 DEF Move, CallWhatsapp, Link, history
    <3>2. /\ \A v \in Workers : v # w => worker'[v] = worker[v]
          /\ worker[w].pc # "count" /\ worker'[w].pc # "count"
      <4>1. /\ \A v \in Workers : v # w => worker'[v] = worker[v]
            /\ worker[w].pc \in {"move", "send", "link"} /\ worker'[w].pc \in {"idle", "link"}
        BY <2>6, RowStepsGo
      <4>2. QED
        BY <4>1
    <3>3. InboundStay
      BY <2>6, RowStepsStay
    <3>4. QED
      BY <3>1, <3>2, <3>3, QuietCounting
  <2>7. CASE BeginSend(w)
    <3>1. UNCHANGED <<tally, doubtful>>
      BY <2>7 DEF BeginSend, history
    <3>2. PICK m \in Message : messages' = Append(messages, m) /\ m.id \in Sent /\ ~ m.linked
      BY <2>7, BeginSendValues
    <3>3. /\ Len(messages') = Len(messages) + 1 /\ Len(messages) \in Nat
          /\ \A k \in 1 .. Len(messages) : messages'[k] = messages[k]
          /\ messages'[Len(messages) + 1] = m /\ messages' \in Seq(Message)
      BY <3>2, InsertedRow DEF TInv
    <3>4. RowsGoOn
      BY <3>3 DEF RowsGoOn
    <3>5. InboundStay
      BY <3>2, <3>3, <3>4, OldInboundStay, IdAssumption
    <3>6. QED
      BY <2>7, <3>1, <3>5, BeginSendValues, QuietCounting
  <2>8. QED
    BY <1>1, <2>1, <2>2, <2>3, <2>4, <2>5, <2>6, <2>7, FailedCounting DEF Handle
<1>2. CASE \E c \in DOMAIN conversations : MarkAsRead(c) \/ UpdateConversationStatus(c)
  BY <1>2, SameCounting DEF MarkAsRead, UpdateConversationStatus, history
<1>3. CASE UNCHANGED vars
  BY <1>3, SameCounting DEF vars
<1>4. QED
  BY <1>1, <1>2, <1>3, FailedCounting DEF Next

(* A message is counted as unread once, by the delivery that stored it;    *)
(* only one whose handler died or failed in between may stay uncounted.    *)
THEOREM UnreadOnce == Spec => []CountedOnce
<1>1. Init => CountingOnce
  BY DEF Init, CountingOnce, CountedOnce, RowsOf, Idle
<1>2. CountingOnce => CountedOnce
  BY DEF CountingOnce
<1>3. QED
  BY <1>1, <1>2, TypesHold, NextKeepsCounting, PTL DEF Spec

-----------------------------------------------------------------------------
(* A status never moves back.                                              *)

SerialInv == Serial /\ Sending

(* The rows of messages being moved by others keep their status, and those *)
(* being sent by others stay unlinked.                                     *)
OthersRowsStay(w) ==
    \A v \in Workers : v # w =>
        /\ worker[v].pc = "move" /\ ~ overlapped =>
              messages'[worker[v].row].status = messages[worker[v].row].status
        /\ worker[v].pc = "send" =>
              messages'[worker[v].row].linked = messages[worker[v].row].linked

(* So where the table stays,                                               *)
LEMMA SameOthersRows ==
    ASSUME NEW w, UNCHANGED messages
    PROVE  OthersRowsStay(w)
BY DEF OthersRowsStay

(* where it grows,                                                         *)
LEMMA AppendedOthersRows ==
    ASSUME TInv, NEW w, NEW x \in Message, messages' = Append(messages, x)
    PROVE  OthersRowsStay(w)
<1>1. \A k \in 1 .. Len(messages) : messages'[k] = messages[k]
  BY InsertedRow DEF TInv
<1>2. \A v \in Workers : worker[v].pc \in {"move", "send"} => worker[v].row \in 1 .. Len(messages)
  BY DEF TInv, HandlersHold
<1>3. QED
  BY <1>1, <1>2 DEF OthersRowsStay

(* and where a handler writes its own row: it is no one else's.            *)
LEMMA ChangedOthersRows ==
    ASSUME TInv, SerialInv, NEW w \in Workers, Move(w) \/ CallWhatsapp(w) \/ Link(w)
    PROVE  OthersRowsStay(w)
<1>1. CASE UNCHANGED messages
  BY <1>1, SameOthersRows
<1>2. ASSUME NEW status \in Statuses, WritesStatus(w, status)
      PROVE  OthersRowsStay(w)
  <2>1. PICK i \in 1 .. Len(messages) : i = worker[w].row
    BY <1>2 DEF WritesStatus
  <2>2. PICK x : x = [messages[i] EXCEPT !.status = status]
    OBVIOUS
  <2>3. x \in Message /\ x.linked = messages[i].linked
    BY <2>2, RowValues DEF TInv
  <2>4. messages' = [messages EXCEPT ![i] = x]
    BY <1>2, <2>1, <2>2 DEF WritesStatus
  <2>5. \A k \in 1 .. Len(messages) : messages'[k] = IF k = i THEN x ELSE messages[k]
    BY <2>3, <2>4, ChangedRow DEF TInv
  <2>6. ASSUME NEW v \in Workers, v # w, worker[v].pc = "move", ~ overlapped
        PROVE  messages'[worker[v].row].status = messages[worker[v].row].status
    <3>1. /\ worker[v].row \in 1 .. Len(messages)
          /\ messages[worker[v].row].id = worker[v].id /\ messages[worker[v].row].linked
      BY <2>6 DEF TInv, HandlersHold
    <3>2. CASE Move(w)
      <4>1. worker[w].pc = "move" /\ messages[i].id = worker[w].id
        BY <2>1, <3>2 DEF Move, At, TInv, HandlersHold
      <4>2. worker[v].id # worker[w].id
        BY <2>6, <4>1 DEF SerialInv, Serial, InHand, At, AgentSteps
      <4>3. worker[v].row # i
        BY <3>1, <4>1, <4>2
      <4>4. QED
        BY <2>5, <3>1, <4>3
    <3>3. CASE CallWhatsapp(w)
      <4>1. ~ messages[i].linked
        BY <2>1, <3>3 DEF CallWhatsapp, At, SerialInv, Sending
      <4>2. worker[v].row # i
        BY <3>1, <4>1
      <4>3. QED
        BY <2>5, <3>1, <4>2
    <3>4. QED
      BY <1>2, <3>2, <3>3 DEF WritesStatus
  <2>7. ASSUME NEW v \in Workers, worker[v].pc = "send"
        PROVE  messages'[worker[v].row].linked = messages[worker[v].row].linked
    <3>1. worker[v].row \in 1 .. Len(messages)
      BY <2>7 DEF TInv, HandlersHold
    <3>2. QED
      BY <2>3, <2>5, <3>1
  <2>8. QED
    BY <2>6, <2>7 DEF OthersRowsStay
<1>3. CASE WritesLink(w)
  <2>1. PICK i \in 1 .. Len(messages) : i = worker[w].row
    BY <1>3 DEF WritesLink
  <2>2. PICK x : x = [messages[i] EXCEPT !.linked = TRUE]
    OBVIOUS
  <2>3. x \in Message /\ x.status = messages[i].status
    <3>1. "sent" \in Statuses
      BY DEF Statuses
    <3>2. QED
      BY <2>2, <3>1, RowValues DEF TInv
  <2>4. messages' = [messages EXCEPT ![i] = x]
    BY <1>3, <2>1, <2>2 DEF WritesLink
  <2>5. \A k \in 1 .. Len(messages) : messages'[k] = IF k = i THEN x ELSE messages[k]
    BY <2>3, <2>4, ChangedRow DEF TInv
  <2>6. ASSUME NEW v \in Workers, worker[v].pc = "move"
        PROVE  messages'[worker[v].row].status = messages[worker[v].row].status
    <3>1. worker[v].row \in 1 .. Len(messages)
      BY <2>6 DEF TInv, HandlersHold
    <3>2. QED
      BY <2>3, <2>5, <3>1
  <2>7. ASSUME NEW v \in Workers, v # w, worker[v].pc = "send"
        PROVE  messages'[worker[v].row].linked = messages[worker[v].row].linked
    <3>1. worker[v].row \in 1 .. Len(messages)
      BY <2>7 DEF TInv, HandlersHold
    <3>2. worker[v].row # i
      BY <1>3, <2>1, <2>7 DEF WritesLink, Link, At, SerialInv, Sending, AgentSteps
    <3>3. QED
      BY <2>5, <3>1, <3>2
  <2>8. QED
    BY <2>6, <2>7 DEF OthersRowsStay
<1>4. QED
  BY <1>1, <1>2, <1>3, RowSteps

(* Statuses being moved, and messages being sent, after a step.            *)
LEMMA SerialFrame ==
    ASSUME TInv, SerialInv, NEW w \in Workers, OthersRowsStay(w),
           \A v \in Workers : v # w => worker'[v] = worker[v],
           ~ overlapped' => ~ overlapped,
           InHand(w)' => InHand(w) /\ worker'[w].id = worker[w].id,
           worker'[w].pc = "move" =>
              worker'[w].copy = messages'[worker'[w].row].status,
           worker'[w].pc \in AgentSteps =>
              /\ worker[w].pc \in AgentSteps /\ worker'[w].row = worker[w].row
              /\ worker'[w].pc # "send"
    PROVE  SerialInv'
<1>1. ASSUME ~ overlapped', NEW u \in Workers, NEW v \in Workers, u # v, InHand(u)', InHand(v)'
      PROVE  /\ worker'[u].id # worker'[v].id
             /\ ~ ({worker'[u].id, worker'[v].id} \subseteq Inbound)
  <2>1. \A t \in {u, v} : InHand(t) /\ worker'[t].id = worker[t].id
    BY <1>1 DEF InHand, At
  <2>2. QED
    BY <1>1, <2>1 DEF SerialInv, Serial
<1>2. ASSUME ~ overlapped', NEW v \in Workers, worker'[v].pc = "move"
      PROVE  worker'[v].copy = messages'[worker'[v].row].status
  BY <1>2 DEF SerialInv, Serial, OthersRowsStay
<1>3. Serial'
  BY <1>1, <1>2 DEF Serial
<1>4. ASSUME NEW v \in Workers, worker'[v].pc = "send"
      PROVE  ~ messages'[worker'[v].row].linked
  <2>1. v # w /\ worker'[v] = worker[v]
    BY <1>4 DEF AgentSteps
  <2>2. ~ messages[worker[v].row].linked
    BY <1>4, <2>1 DEF SerialInv, Sending
  <2>3. QED
    BY <1>4, <2>1, <2>2 DEF OthersRowsStay
<1>5. ASSUME NEW u \in Workers, NEW v \in Workers, worker'[u].pc \in AgentSteps,
             worker'[v].pc \in AgentSteps, worker'[u].row = worker'[v].row
      PROVE  u = v
  BY <1>5 DEF SerialInv, Sending
<1>6. QED
  BY <1>3, <1>4, <1>5 DEF SerialInv, Sending

(* A partition in other hands is not delivered, or partitions overlap.     *)
LEMMA DeliverSerial ==
    ASSUME TInv, SerialInv, NEW w \in Workers, DeliverInbound(w) \/ DeliverStatus(w)
    PROVE  SerialInv'
<1>1. /\ \A v \in Workers : v # w => worker'[v] = worker[v]
      /\ worker'[w].pc \in {"converse", "find"} /\ UNCHANGED messages
  BY DeliveriesGo
<1>2. PICK id \in Ids : /\ worker'[w].id = id
                        /\ \/ SamePartition(id) = {} /\ overlapped' = overlapped
                           \/ overlapped' = TRUE
  BY DeliveriesGo
<1>3. ASSUME ~ overlapped', NEW v \in Workers, v # w, InHand(v)'
      PROVE  InHand(v) /\ worker[v].id # id /\ ~ ({worker[v].id, id} \subseteq Inbound)
  <2>1. InHand(v)
    BY <1>1, <1>3 DEF InHand, At
  <2>2. v \notin SamePartition(id)
    BY <1>2, <1>3
  <2>3. QED
    BY <2>1, <2>2 DEF SamePartition, InHand
<1>4. ASSUME ~ overlapped', NEW u \in Workers, NEW v \in Workers, u # v, InHand(u)', InHand(v)'
      PROVE  /\ worker'[u].id # worker'[v].id
             /\ ~ ({worker'[u].id, worker'[v].id} \subseteq Inbound)
  <2>1. CASE u = w
    BY <1>1, <1>2, <1>3, <1>4, <2>1
  <2>2. CASE v = w
    BY <1>1, <1>2, <1>3, <1>4, <2>2
  <2>3. CASE u # w /\ v # w
    <3>1. InHand(u) /\ InHand(v) /\ ~ overlapped
      BY <1>2, <1>3, <1>4, <2>3
    <3>2. QED
      BY <1>1, <1>4, <2>3, <3>1 DEF SerialInv, Serial
  <2>4. QED
    BY <2>1, <2>2, <2>3
<1>5. ASSUME ~ overlapped', NEW v \in Workers, worker'[v].pc = "move"
      PROVE  worker'[v].copy = messages'[worker'[v].row].status
  BY <1>1, <1>2, <1>5 DEF SerialInv, Serial
<1>6. Serial'
  BY <1>4, <1>5 DEF Serial
<1>7. Sending'
  <2>1. \A v \in Workers : worker'[v].pc \in AgentSteps => worker'[v] = worker[v]
    BY <1>1 DEF AgentSteps
  <2>2. \A v \in Workers : worker'[v].pc = "send" => worker'[v] = worker[v]
    BY <1>1
  <2>3. QED
    BY <1>1, <2>1, <2>2 DEF SerialInv, Sending
<1>8. QED
  BY <1>6, <1>7 DEF SerialInv

(* The row of a new message is in no other hands.                          *)
LEMMA BeginSendSerial ==
    ASSUME TInv, SerialInv, NEW w \in Workers, BeginSend(w)
    PROVE  SerialInv'
<1>1. /\ \A v \in Workers : v # w => worker'[v] = worker[v]
      /\ worker'[w].pc = "send" /\ worker'[w].row = Len(messages) + 1
      /\ overlapped' = overlapped
  BY BeginSendValues DEF BeginSend, history
<1>2. PICK m \in Message : messages' = Append(messages, m) /\ ~ m.linked
  BY BeginSendValues
<1>3. messages'[Len(messages) + 1] = m /\ Len(messages) \in Nat
  BY <1>2, InsertedRow DEF TInv
<1>4. OthersRowsStay(w)
  BY <1>2, AppendedOthersRows
<1>5. ~ InHand(w)'
  BY <1>1 DEF InHand, AgentSteps
<1>6. ASSUME ~ overlapped', NEW u \in Workers, NEW v \in Workers, u # v, InHand(u)', InHand(v)'
      PROVE  /\ worker'[u].id # worker'[v].id
             /\ ~ ({worker'[u].id, worker'[v].id} \subseteq Inbound)
  <2>1. u # w /\ v # w
    BY <1>5, <1>6
  <2>2. InHand(u) /\ InHand(v) /\ ~ overlapped
    BY <1>1, <1>6, <2>1 DEF InHand, At
  <2>3. QED
    BY <1>1, <1>6, <2>1, <2>2 DEF SerialInv, Serial
<1>7. ASSUME ~ overlapped', NEW v \in Workers, worker'[v].pc = "move"
      PROVE  worker'[v].copy = messages'[worker'[v].row].status
  <2>1. v # w /\ ~ overlapped
    BY <1>1, <1>7
  <2>2. QED
    BY <1>1, <1>4, <1>7, <2>1 DEF SerialInv, Serial, OthersRowsStay
<1>8. Serial'
  BY <1>6, <1>7 DEF Serial
<1>9. ASSUME NEW v \in Workers, worker'[v].pc = "send"
      PROVE  ~ messages'[worker'[v].row].linked
  <2>1. CASE v = w
    BY <1>1, <1>2, <1>3, <2>1
  <2>2. CASE v # w
    BY <1>1, <1>4, <1>9, <2>2 DEF SerialInv, Sending, OthersRowsStay
  <2>3. QED
    BY <2>1, <2>2
<1>10. \A v \in Workers : worker[v].pc \in AgentSteps => worker[v].row # Len(messages) + 1
  BY <1>3 DEF TInv, HandlersHold, AgentSteps
<1>11. ASSUME NEW u \in Workers, NEW v \in Workers, worker'[u].pc \in AgentSteps,
              worker'[v].pc \in AgentSteps, worker'[u].row = worker'[v].row
       PROVE  u = v
  BY <1>1, <1>10, <1>11 DEF SerialInv, Sending
<1>12. QED
  BY <1>8, <1>9, <1>11 DEF SerialInv, Sending

(* Where no handler moves and the table stays.                             *)
LEMMA SameSerial ==
    ASSUME SerialInv, UNCHANGED <<messages, overlapped>>,
           worker' = worker \/ \A w \in Workers : worker'[w].pc = "idle"
    PROVE  SerialInv'
<1>1. CASE worker' = worker
  BY <1>1 DEF SerialInv, Serial, Sending, InHand, At
<1>2. CASE \A w \in Workers : worker'[w].pc = "idle"
  BY <1>2 DEF SerialInv, Serial, Sending, InHand, At, AgentSteps
<1>3. QED
  BY <1>1, <1>2

(* Every step keeps copies current and sends apart.                        *)
LEMMA NextKeepsSerial == TInv /\ SerialInv /\ [Next]_vars => SerialInv'
<1> SUFFICES ASSUME TInv, SerialInv, [Next]_vars PROVE SerialInv'
  OBVIOUS
<1>1. ASSUME NEW w \in Workers, Handle(w) PROVE SerialInv'
  <2>1. CASE DeliverInbound(w) \/ DeliverStatus(w)
    BY <2>1, DeliverSerial
  <2>2. CASE FindConversation(w) \/ OpenConversation(w)
    <3>1. UNCHANGED <<messages, overlapped>>
      BY <2>2 DEF FindConversation, OpenConversation, history
    <3>2. /\ \A v \in Workers : v # w => worker'[v] = worker[v]
          /\ worker[w].pc \in {"converse", "open"} /\ worker'[w].id = worker[w].id
          /\ worker'[w].pc \in {"open", "lookup"}
      BY <2>2, ConverseValues
    <3>3. InHand(w) /\ worker'[w].pc # "move" /\ worker'[w].pc \notin AgentSteps
      BY <3>2 DEF InHand, At, AgentSteps
    <3>4. QED
      BY <3>1, <3>2, <3>3, SameOthersRows, SerialFrame
  <2>3. CASE Lookup(w) \/ FindMessage(w) \/ Insert(w) \/ Count(w)
    <3>1. /\ UNCHANGED overlapped /\ InHand(w)
          /\ worker[w].pc \in {"lookup", "find", "insert", "count"}
      BY <2>3 DEF Lookup, FindMessage, Insert, Count, Counted, history, At, InHand, AgentSteps
    <3>2. CASE /\ UNCHANGED messages
               /\ \E row \in RowsOf(worker[w].id) : Found(w, row)
      <4>1. /\ \A v \in Workers : v # w => worker'[v] = worker[v]
            /\ \/ worker'[w] = Idle
               \/ /\ worker'[w].pc = "move" /\ worker'[w].id = worker[w].id
                  /\ worker'[w].copy = messages[worker'[w].row].status
        BY <3>2, FoundValues
      <4>2. CASE worker'[w] = Idle
        <5>1. ~ InHand(w)' /\ worker'[w].pc = "idle"
          BY <4>2, IdleIsWorker DEF InHand, At, TInv
        <5>2. QED
          BY <3>1, <3>2, <4>1, <5>1, SameOthersRows, SerialFrame DEF AgentSteps
      <4>3. CASE /\ worker'[w].pc = "move" /\ worker'[w].id = worker[w].id
                 /\ worker'[w].copy = messages[worker'[w].row].status
        BY <3>1, <3>2, <4>1, <4>3, SameOthersRows, SerialFrame DEF AgentSteps
      <4>4. QED
        BY <4>1, <4>2, <4>3
    <3>3. CASE /\ OthersRowsStay(w)
               /\ \E step \in {"insert", "converse", "count"} : Goto(w, step)
      <4>1. /\ \A v \in Workers : v # w => worker'[v] = worker[v]
            /\ worker'[w].pc \in {"insert", "converse", "count"}
            /\ worker'[w].id = worker[w].id
        BY <3>3, GotoNext DEF Steps
      <4>2. worker'[w].pc # "move" /\ worker'[w].pc \notin AgentSteps
        BY <4>1 DEF AgentSteps
      <4>3. QED
        BY <3>1, <3>3, <4>1, <4>2, SerialFrame
    <3>4. CASE OthersRowsStay(w) /\ Done(w)
      <4>1. /\ \A v \in Workers : v # w => worker'[v] = worker[v]
            /\ worker'[w].pc = "idle"
        BY <3>4, DoneValues DEF TInv
      <4>2. ~ InHand(w)' /\ worker'[w].pc # "move" /\ worker'[w].pc \notin AgentSteps
        BY <4>1 DEF InHand, At, AgentSteps
      <4>3. QED
        BY <3>1, <3>4, <4>1, <4>2, SerialFrame
    <3>5. CASE Lookup(w) \/ FindMessage(w)
      <4>1. UNCHANGED messages
        BY <3>5 DEF Lookup, FindMessage
      <4>2. OthersRowsStay(w)
        BY <4>1, SameOthersRows
      <4>3. QED
        BY <3>2, <3>3, <3>4, <3>5, <4>1, <4>2 DEF Lookup, FindMessage
    <3>6. CASE Count(w)
      <4>1. UNCHANGED messages /\ Done(w)
        BY <3>6 DEF Count, Counted
      <4>2. QED
        BY <3>4, <4>1, SameOthersRows
    <3>7. CASE Insert(w)
      <4>1. CASE Stored(w)
        <5>1. PICK m : m = NewMessage(w)
          OBVIOUS
        <5>2. m \in Message
          <6>1. HeldBy(worker[w], messages, Len(conversations)) /\ worker[w].pc = "insert"
            BY <3>7, AllHold DEF Holds, Insert, At
          <6>2. worker[w].id \in Ids /\ worker[w].status \in Statuses
            BY <6>1 DEF HeldBy, Worker
          <6>3. QED
            BY <5>1, <6>2 DEF NewMessage, Message, Statuses
        <5>3. OthersRowsStay(w)
          BY <4>1, <5>1, <5>2, AppendedOthersRows DEF Stored
        <5>4. Goto(w, "count") \/ Done(w)
          BY <4>1 DEF Stored
        <5>5. QED
          BY <3>3, <3>4, <5>3, <5>4
      <4>2. CASE \E row \in RowsOf(worker[w].id) : Found(w, row) /\ UNCHANGED messages
        BY <3>2, <4>2
      <4>3. QED
        BY <3>7, <4>1, <4>2 DEF Insert
    <3>8. QED
      BY <2>3, <3>5, <3>6, <3>7
  <2>4. CASE Move(w) \/ CallWhatsapp(w) \/ Link(w)
    <3>1. UNCHANGED overlapped
      BY <2>4 DEF Move, CallWhatsapp, Link, history
    <3>2. /\ \A v \in Workers : v # w => worker'[v] = worker[v]
          /\ worker'[w].pc \in {"idle", "link"}
          /\ worker'[w].pc = "link" => worker[w].pc = "send" /\ worker'[w].row = worker[w].row
      <4>1. /\ \A v \in Workers : v # w => worker'[v] = worker[v]
            /\ worker'[w].pc \in {"idle", "link"}
            /\ \/ worker'[w] = Idle /\ worker'[w].pc = "idle"
               \/ worker[w].pc = "send" /\ worker'[w].row = worker[w].row
        BY <2>4, RowStepsGo
      <4>2. QED
        BY <4>1
    <3>3. /\ ~ InHand(w)' /\ worker'[w].pc # "move" /\ worker'[w].pc # "send"
          /\ worker'[w].pc \in AgentSteps =>
                worker[w].pc \in AgentSteps /\ worker'[w].row = worker[w].row
      BY <3>2 DEF InHand, At, AgentSteps
    <3>4. OthersRowsStay(w)
      BY <2>4, ChangedOthersRows
    <3>5. QED
      BY <3>1, <3>2, <3>3, <3>4, SerialFrame
  <2>5. CASE BeginSend(w)
    BY <2>5, BeginSendSerial
  <2>6. CASE HandlerFails(w)
    <3>1. /\ UNCHANGED <<messages, overlapped>> /\ worker'[w].pc = "idle"
          /\ \A v \in Workers : v # w => worker'[v] = worker[v]
      BY <2>6, DoneValues DEF HandlerFails, TInv
    <3>2. ~ InHand(w)' /\ worker'[w].pc # "move" /\ worker'[w].pc \notin AgentSteps
      BY <3>1 DEF InHand, At, AgentSteps
    <3>3. QED
      BY <3>1, <3>2, SameOthersRows, SerialFrame
  <2>7. QED
    BY <1>1, <2>1, <2>2, <2>3, <2>4, <2>5, <2>6 DEF Handle
<1>2. CASE \E c \in DOMAIN conversations : MarkAsRead(c) \/ UpdateConversationStatus(c)
  BY <1>2, SameSerial DEF MarkAsRead, UpdateConversationStatus, history
<1>3. CASE Crash
  BY <1>3, SameSerial, IdleIsWorker DEF Crash, TInv
<1>4. CASE UNCHANGED vars
  BY <1>4, SameSerial DEF vars
<1>5. QED
  BY <1>1, <1>2, <1>3, <1>4 DEF Next

(* Copies are current and sends apart in every run.                        *)
LEMMA SerialHolds == Spec => []SerialInv
<1>1. Init => SerialInv
  BY DEF Init, SerialInv, Serial, Sending, InHand, At, Idle, AgentSteps
<1>2. QED
  BY <1>1, TypesHold, NextKeepsSerial, PTL DEF Spec

(* Failed comes last.                                                      *)
LEMMA OrderValues ==
    /\ \A status \in Statuses : Order(status) \in 0 .. 4
    /\ Order("failed") = 4
BY DEF Order, Statuses

(* What a step writes into a row is not before what it has.                *)
LEMMA RowsMoveForward ==
    ASSUME TInv, SerialInv, [Next]_vars, ~ overlapped, NEW k \in DOMAIN messages
    PROVE  Order(messages'[k].status) >= Order(messages[k].status)
<1>1. /\ k \in 1 .. Len(messages) /\ messages[k] \in Message
      /\ messages[k].status \in Statuses /\ Order(messages[k].status) \in 0 .. 4
  <2>1. k \in 1 .. Len(messages)
    BY Lengths DEF TInv
  <2>2. messages[k] \in Message
    BY <2>1, ElementOfSeq DEF TInv, TypeOK
  <2>3. messages[k].status \in Statuses
    BY <2>2 DEF Message
  <2>4. QED
    BY <2>1, <2>2, <2>3, OrderValues
<1>2. CASE messages'[k] = messages[k]
  BY <1>1, <1>2
<1>3. ASSUME NEW w \in Workers, Handle(w), messages'[k] # messages[k]
      PROVE  Order(messages'[k].status) >= Order(messages[k].status)
  <2>1. CASE Move(w) \/ CallWhatsapp(w) \/ Link(w)
    <3>1. CASE UNCHANGED messages
      BY <1>3, <3>1
    <3>2. ASSUME NEW status \in Statuses, WritesStatus(w, status)
          PROVE  Order(messages'[k].status) >= Order(messages[k].status)
      <4>1. PICK i \in 1 .. Len(messages) : i = worker[w].row
        BY <3>2 DEF WritesStatus
      <4>2. PICK x : x = [messages[i] EXCEPT !.status = status]
        OBVIOUS
      <4>3. x \in Message /\ x.status = status
        <5>1. messages[i] \in Message
          BY RowValues DEF TInv
        <5>2. QED
          BY <4>2, <5>1 DEF Message
      <4>4. messages' = [messages EXCEPT ![i] = x]
        BY <3>2, <4>1, <4>2 DEF WritesStatus
      <4>5. messages'[k] = IF k = i THEN x ELSE messages[k]
        BY <1>1, <4>3, <4>4, ChangedRow DEF TInv
      <4>6. k = i /\ messages'[k].status = status
        BY <1>3, <4>3, <4>5
      <4>7. CASE Move(w) /\ status = worker[w].status
        <5>1. worker[w].copy = messages[k].status
          BY <4>1, <4>6, <4>7 DEF Move, At, SerialInv, Serial
        <5>2. \/ status = "failed"
              \/ Order(status) > Order(messages[k].status)
          BY <1>3, <4>7, <5>1 DEF Move
        <5>3. QED
          BY <1>1, <3>2, <4>6, <5>2, OrderValues
      <4>8. CASE CallWhatsapp(w)
        <5>1. status = "failed"
          <6>1. messages' = [messages EXCEPT ![i].status = "failed"]
            BY <1>3, <4>1, <4>8 DEF CallWhatsapp
          <6>2. messages'[i].status = "failed"
            <7>1. messages[i] \in Message
              BY RowValues DEF TInv
            <7>2. QED
              BY <6>1, <7>1 DEF TInv, TypeOK, Message
          <6>3. QED
            BY <4>6, <6>2
        <5>2. QED
          BY <1>1, <4>6, <5>1, OrderValues
      <4>9. QED
        BY <3>2, <4>7, <4>8 DEF WritesStatus
    <3>3. CASE WritesLink(w)
      <4>1. PICK i \in 1 .. Len(messages) : i = worker[w].row
        BY <3>3 DEF WritesLink
      <4>2. PICK x : x = [messages[i] EXCEPT !.linked = TRUE]
        OBVIOUS
      <4>3. x \in Message /\ x.status = messages[i].status
        <5>1. "sent" \in Statuses
          BY DEF Statuses
        <5>2. QED
          BY <4>2, <5>1, RowValues DEF TInv
      <4>4. messages' = [messages EXCEPT ![i] = x]
        BY <3>3, <4>1, <4>2 DEF WritesLink
      <4>5. messages'[k] = IF k = i THEN x ELSE messages[k]
        BY <1>1, <4>3, <4>4, ChangedRow DEF TInv
      <4>6. QED
        BY <1>1, <4>3, <4>5
    <3>4. QED
      BY <2>1, <3>1, <3>2, <3>3, RowSteps
  <2>2. CASE ~ (Move(w) \/ CallWhatsapp(w) \/ Link(w))
    <3>1. UNCHANGED messages \/ \E x \in Message : messages' = Append(messages, x)
      <4>1. CASE Insert(w) /\ Stored(w)
        <5>1. PICK m : m = NewMessage(w)
          OBVIOUS
        <5>2. HeldBy(worker[w], messages, Len(conversations)) /\ worker[w].pc = "insert"
          BY <4>1, AllHold DEF Holds, Insert, At
        <5>3. worker[w].id \in Ids /\ worker[w].status \in Statuses
          BY <5>2 DEF HeldBy, Worker
        <5>4. m \in Message
          BY <5>1, <5>3 DEF NewMessage, Message, Statuses
        <5>5. QED
          BY <4>1, <5>1, <5>4 DEF Stored
      <4>2. CASE Insert(w) /\ ~ Stored(w)
        BY <4>2 DEF Insert
      <4>3. CASE BeginSend(w)
        BY <4>3, BeginSendValues
      <4>4. CASE DeliverInbound(w) \/ DeliverStatus(w)
        BY <4>4, DeliveriesGo
      <4>5. CASE FindConversation(w) \/ OpenConversation(w) \/ Lookup(w)
                 \/ Count(w) \/ FindMessage(w)
        BY <4>5 DEF FindConversation, OpenConversation, Lookup, Count, Counted, FindMessage
      <4>6. CASE HandlerFails(w)
        BY <4>6 DEF HandlerFails
      <4>7. QED
        BY <1>3, <2>2, <4>1, <4>2, <4>3, <4>4, <4>5, <4>6 DEF Handle
    <3>2. messages'[k] = messages[k]
      BY <1>1, <3>1, InsertedRow DEF TInv
    <3>3. QED
      BY <1>3, <3>2
  <2>3. QED
    BY <2>1, <2>2
<1>4. CASE messages' = messages
  BY <1>2, <1>4
<1>5. CASE ~ (\E w \in Workers : Handle(w))
  <2>1. messages' = messages
    BY <1>5 DEF Next, MarkAsRead, UpdateConversationStatus, Crash, vars
  <2>2. QED
    BY <1>4, <2>1
<1>6. QED
  BY <1>2, <1>3, <1>5

(* Reports of one message come in any order and are delivered again; its   *)
(* status only goes forward, until a partition is consumed twice at once.  *)
THEOREM StatusForward == Spec => StatusNeverMovesBack
<1>1. TInv /\ SerialInv /\ [Next]_vars =>
        [\A k \in DOMAIN messages :
            ~ overlapped => Order(messages'[k].status) >= Order(messages[k].status)]_vars
  BY RowsMoveForward
<1>2. QED
  BY <1>1, TypesHold, SerialHolds, PTL DEF Spec, StatusNeverMovesBack

-----------------------------------------------------------------------------
(* The badge.                                                              *)

(* The unseen messages of a conversation are finitely many.                *)
LEMMA UnseenValues ==
    ASSUME IsFiniteSet(unseen), NEW c
    PROVE  IsFiniteSet(Unseen(c)) /\ Cardinality(Unseen(c)) \in Nat
<1>1. Unseen(c) \in SUBSET unseen
  BY DEF Unseen
<1>2. IsFiniteSet(Unseen(c))
  BY <1>1, FS_Subset
<1>3. QED
  BY <1>2, FS_CardinalityType

(* A set with one more member.                                             *)
LEMMA OneMore ==
    ASSUME NEW S, NEW u, IsFiniteSet(S)
    PROVE  /\ Cardinality(S \union {u}) \in Nat
           /\ Cardinality(S \union {u}) <= Cardinality(S) + 1
<1>1. /\ IsFiniteSet(S \union {u})
      /\ Cardinality(S \union {u}) = IF u \in S THEN Cardinality(S) ELSE Cardinality(S) + 1
  BY FS_AddElement
<1>2. Cardinality(S \union {u}) \in Nat /\ Cardinality(S) \in Nat
  BY <1>1, FS_CardinalityType
<1>3. QED
  BY <1>1, <1>2

(* What the badge lacks and what it has in advance.                        *)
LEMMA ShortAndOwed ==
    ASSUME NEW c
    PROVE  /\ Short(c) \in 0 .. 1 /\ Owed(c) \in 0 .. 1
           /\ Short(c)' \in 0 .. 1 /\ Owed(c)' \in 0 .. 1
BY DEF Short, Owed

(* The values the badge is made of.                                        *)
LEMMA BadgeValues ==
    ASSUME TInv, BadgeHolds, NEW c \in 1 .. Len(conversations)
    PROVE  /\ conversations[c] \in Conversation /\ conversations[c].unread \in Nat
           /\ Cardinality(Unseen(c)) \in Nat
           /\ conversations[c].unread + Short(c) >= Cardinality(Unseen(c)) + Owed(c)
<1>1. conversations[c] \in Conversation
  BY ClosedIsBoolean DEF TInv
<1>2. QED
  BY <1>1, UnseenValues DEF BadgeHolds, Conversation

(* Steps that leave the conversations, and of which none makes an opener.  *)
LEMMA BadgeFrame ==
    ASSUME TInv, BadgeHolds, UNCHANGED <<conversations, unseen, hasty>>,
           \A v \in Workers : Opener(v)' => Opener(v) /\ worker'[v].conv = worker[v].conv
    PROVE  BadgeHolds'
<1>1. \A c : Unseen(c)' = Unseen(c) /\ Short(c)' = Short(c)
  BY DEF Unseen, Short
<1>2. \A c : Owed(c)' <= Owed(c)
  BY DEF Owed
<1>3. ASSUME NEW c \in 1 .. Len(conversations)
      PROVE  conversations'[c].unread + Short(c)' >= Cardinality(Unseen(c)') + Owed(c)'
  BY <1>1, <1>2, <1>3, BadgeValues, ShortAndOwed
<1>4. \A v, w \in Workers :
         Opener(v)' /\ Opener(w)' /\ worker'[v].conv = worker'[w].conv => v = w
  BY DEF BadgeHolds
<1>5. QED
  BY <1>3, <1>4 DEF BadgeHolds

(* A new conversation has no unseen message.                               *)
LEMMA OpenBadge ==
    ASSUME TInv, BadgeHolds, NEW w \in Workers, OpenConversation(w)
    PROVE  BadgeHolds'
<1>1. /\ \A v \in Workers : v # w => worker'[v] = worker[v]
      /\ worker'[w].id = worker[w].id
      /\ Opener(w)' => worker'[w].conv = Len(conversations) + 1
      /\ UNCHANGED <<unseen, hasty>>
      /\ Len(conversations) \in Nat
  <2>1. worker[w].pc = "open" /\ UNCHANGED <<unseen, hasty>> /\ Len(conversations) \in Nat
    BY Lengths DEF OpenConversation, At, history, TInv
  <2>2. /\ \A v \in Workers : v # w => worker'[v] = worker[v]
        /\ worker'[w].id = worker[w].id
        /\ \/ worker'[w].pc = "open"
           \/ worker'[w].conv = Len(conversations) + 1
    BY <2>1, ConverseValues
  <2>3. QED
    BY <2>1, <2>2 DEF Opener
<1>2. \A c : Unseen(c)' = Unseen(c) /\ Short(c)' = Short(c)
  BY <1>1 DEF Unseen, Short
<1>3. PICK n \in {0, 1} :
         /\ n = IF worker[w].id \in Inbound THEN 1 ELSE 0
         /\ conversations' = Append(conversations, [closed |-> FALSE, unread |-> n])
  BY DEF OpenConversation
<1>4. PICK x : x = [closed |-> FALSE, unread |-> n]
  OBVIOUS
<1>5. x \in Conversation /\ x.unread = n
  BY <1>4 DEF Conversation
<1>6. /\ Len(conversations') = Len(conversations) + 1
      /\ \A c \in 1 .. Len(conversations) : conversations'[c] = conversations[c]
      /\ conversations'[Len(conversations) + 1] = x
  BY <1>3, <1>4, <1>5, AppendProperties DEF TInv, TypeOK
<1>7. Unseen(Len(conversations) + 1) = {}
  <2>1. \A u \in unseen : u[2] \in 1 .. Len(conversations)
    BY DEF TInv, TypeOK
  <2>2. QED
    BY <1>1, <2>1 DEF Unseen
<1>8. ASSUME NEW v \in Workers, v # w, Opener(v)'
      PROVE  Opener(v) /\ worker'[v].conv = worker[v].conv
             /\ worker[v].conv \in 1 .. Len(conversations)
  <2>1. Opener(v) /\ worker'[v].conv = worker[v].conv
    BY <1>1, <1>8 DEF Opener
  <2>2. QED
    BY <2>1 DEF TInv, HandlersHold, Opener
<1>9. ASSUME NEW c \in 1 .. Len(conversations)'
      PROVE  conversations'[c].unread + Short(c)' >= Cardinality(Unseen(c)') + Owed(c)'
  <2>1. CASE c \in 1 .. Len(conversations)
    <3>1. Owed(c)' <= Owed(c)
      BY <1>1, <1>8, <2>1 DEF Owed
    <3>2. QED
      BY <1>2, <1>6, <2>1, <3>1, BadgeValues, ShortAndOwed
  <2>2. CASE c = Len(conversations) + 1
    <3>1. Unseen(c)' = {}
      BY <1>2, <1>7, <2>2
    <3>2. Cardinality(Unseen(c)') = 0
      BY <3>1, FS_EmptySet
    <3>3. CASE worker[w].id \in Inbound
      BY <1>3, <1>5, <1>6, <2>2, <3>2, <3>3, ShortAndOwed
    <3>4. CASE worker[w].id \notin Inbound
      <4>1. \A v \in Workers : ~ (Opener(v)' /\ worker'[v].conv = c)
        <5>1. ~ Opener(w)'
          BY <1>1, <3>4 DEF Opener
        <5>2. \A v \in Workers : v # w /\ Opener(v)' => worker'[v].conv # c
          BY <1>1, <1>8, <2>2
        <5>3. QED
          BY <5>1, <5>2
      <4>2. Owed(c)' = 0
        BY <4>1 DEF Owed
      <4>3. QED
        BY <1>3, <1>5, <1>6, <2>2, <3>2, <3>4, <4>2, ShortAndOwed
    <3>5. QED
      BY <3>3, <3>4
  <2>3. QED
    BY <1>1, <1>6, <1>9, <2>1, <2>2
<1>10. ASSUME NEW u \in Workers, NEW v \in Workers, Opener(u)', Opener(v)',
              worker'[u].conv = worker'[v].conv, u # v
       PROVE  FALSE
  <2>1. CASE u # w /\ v # w
    BY <1>8, <1>10, <2>1 DEF BadgeHolds
  <2>2. CASE u = w \/ v = w
    BY <1>1, <1>8, <1>10, <2>2
  <2>3. QED
    BY <2>1, <2>2
<1>11. QED
  BY <1>1, <1>9, <1>10 DEF BadgeHolds

(* The message counted is one more, or the one the badge has in advance.   *)
LEMMA CountBadge ==
    ASSUME TInv, BadgeHolds, NEW w \in Workers, Count(w)
    PROVE  BadgeHolds'
<1>1. /\ worker[w].pc = "count" /\ TypeOK /\ UNCHANGED hasty
      /\ worker[w].id \in Inbound /\ worker[w].conv \in 1 .. Len(conversations)
      /\ worker'[w].pc = "idle" /\ \A v \in Workers : v # w => worker'[v] = worker[v]
  BY DoneValues DEF Count, Counted, At, TInv, HandlersHold
<1>2. PICK d \in 1 .. Len(conversations), id \in Inbound :
         d = worker[w].conv /\ id = worker[w].id
  BY <1>1
<1>3. conversations[d] \in Conversation
  BY <1>1, <1>2, ClosedIsBoolean
<1>4. PICK x : x = [closed |-> conversations[d].closed /\ ~ worker[w].closed,
                    unread |-> IF worker[w].created THEN conversations[d].unread
                               ELSE conversations[d].unread + 1]
  OBVIOUS
<1>5. /\ x \in Conversation /\ conversations[d].unread \in Nat
      /\ x.unread = IF worker[w].created THEN conversations[d].unread
                    ELSE conversations[d].unread + 1
  BY <1>3, <1>4 DEF Conversation
<1>6. conversations' = [conversations EXCEPT ![d] = x]
  BY <1>1, <1>2, <1>4 DEF Count, TypeOK
<1>7. /\ Len(conversations') = Len(conversations)
      /\ \A c \in 1 .. Len(conversations) :
            conversations'[c] = IF c = d THEN x ELSE conversations[c]
  BY <1>1, <1>5, <1>6, ChangedConversation
<1>8. unseen' = unseen \union {<<id, d>>}
  BY <1>2 DEF Count, Counted
<1>9. IsFiniteSet(unseen')
  BY <1>8, FS_AddElement DEF BadgeHolds
<1>10. /\ Unseen(d)' = Unseen(d) \union {<<id, d>>}
       /\ \A c : c # d => Unseen(c)' = Unseen(c)
       /\ \A c : Short(c)' = Short(c)
  BY <1>1, <1>8 DEF Unseen, Short
<1>11. ASSUME NEW v \in Workers, Opener(v)'
       PROVE  v # w /\ Opener(v) /\ worker'[v].conv = worker[v].conv
  BY <1>1, <1>11 DEF Opener
<1>12. \A c : Owed(c)' <= Owed(c)
  BY <1>11 DEF Owed
<1>13. worker[w].created => Owed(d) = 1 /\ Owed(d)' = 0
  <2>1. SUFFICES ASSUME worker[w].created PROVE Owed(d) = 1 /\ Owed(d)' = 0
    OBVIOUS
  <2>2. Opener(w)
    BY <1>1, <2>1 DEF Opener
  <2>3. \A v \in Workers : ~ (Opener(v)' /\ worker'[v].conv = d)
    BY <1>2, <1>11, <2>2 DEF BadgeHolds
  <2>4. QED
    BY <1>2, <2>2, <2>3 DEF Owed
<1>14. ASSUME NEW c \in 1 .. Len(conversations)
       PROVE  conversations'[c].unread + Short(c)' >= Cardinality(Unseen(c)') + Owed(c)'
  <2>1. /\ conversations[c].unread \in Nat /\ Cardinality(Unseen(c)) \in Nat
        /\ conversations[c].unread + Short(c) >= Cardinality(Unseen(c)) + Owed(c)
    BY BadgeValues
  <2>2. CASE c # d
    BY <1>7, <1>10, <1>12, <2>1, <2>2, ShortAndOwed
  <2>3. CASE c = d
    <3>1. IsFiniteSet(Unseen(d))
      BY UnseenValues DEF BadgeHolds
    <3>2. /\ Cardinality(Unseen(d) \union {<<id, d>>}) <= Cardinality(Unseen(d)) + 1
          /\ Cardinality(Unseen(d) \union {<<id, d>>}) \in Nat
      BY <3>1, OneMore
    <3>3. Cardinality(Unseen(c)') <= Cardinality(Unseen(d)) + 1 /\ Cardinality(Unseen(c)') \in Nat
      BY <1>10, <2>3, <3>2
    <3>4. CASE worker[w].created
      BY <1>5, <1>7, <1>10, <1>13, <2>1, <2>3, <3>3, <3>4, ShortAndOwed
    <3>5. CASE ~ worker[w].created
      BY <1>5, <1>7, <1>10, <1>12, <2>1, <2>3, <3>3, <3>5, ShortAndOwed
    <3>6. QED
      BY <3>4, <3>5
  <2>4. QED
    BY <2>2, <2>3
<1>15. \A u, v \in Workers :
          Opener(u)' /\ Opener(v)' /\ worker'[u].conv = worker'[v].conv => u = v
  BY <1>11 DEF BadgeHolds
<1>16. QED
  BY <1>7, <1>9, <1>14, <1>15 DEF BadgeHolds

(* Reading leaves nothing unseen, and takes from the badge what it has in  *)
(* advance; closing leaves it.                                             *)
LEMMA ReadBadge ==
    ASSUME TInv, BadgeHolds, NEW d \in DOMAIN conversations,
           MarkAsRead(d) \/ UpdateConversationStatus(d)
    PROVE  BadgeHolds'
<1>1. /\ TypeOK /\ d \in 1 .. Len(conversations) /\ conversations[d] \in Conversation
      /\ conversations[d].unread \in Nat
  <2>1. d \in 1 .. Len(conversations) /\ conversations[d] \in Conversation
    BY Lengths, ClosedIsBoolean DEF TInv
  <2>2. QED
    BY <2>1 DEF TInv, Conversation
<1>2. UNCHANGED worker /\ unseen' \subseteq unseen
  BY DEF MarkAsRead, UpdateConversationStatus, history
<1>3. IsFiniteSet(unseen')
  BY <1>2, FS_Subset DEF BadgeHolds
<1>4. /\ \A v \in Workers : Opener(v)' = Opener(v) /\ worker'[v].conv = worker[v].conv
      /\ \A c : Owed(c)' = Owed(c)
  BY <1>2 DEF Opener, Owed
<1>5. ASSUME NEW x \in Conversation, conversations' = [conversations EXCEPT ![d] = x]
      PROVE  /\ Len(conversations') = Len(conversations)
             /\ \A c \in 1 .. Len(conversations) :
                   conversations'[c] = IF c = d THEN x ELSE conversations[c]
  BY <1>1, <1>5, ChangedConversation
<1>6. /\ Len(conversations') = Len(conversations)
      /\ \A c \in 1 .. Len(conversations) :
            conversations'[c].unread + Short(c)' >= Cardinality(Unseen(c)') + Owed(c)'
  <2>1. CASE MarkAsRead(d)
    <3>1. PICK x : x = [conversations[d] EXCEPT !.unread = 0]
      OBVIOUS
    <3>2. x \in Conversation /\ x.unread = 0
      BY <1>1, <3>1 DEF Conversation
    <3>3. conversations' = [conversations EXCEPT ![d] = x]
      BY <1>1, <2>1, <3>1 DEF MarkAsRead, TypeOK
    <3>4. /\ Unseen(d)' = {} /\ \A c : c # d => Unseen(c)' = Unseen(c)
      BY <2>1 DEF MarkAsRead, Unseen
    <3>5. /\ Short(d)' = Owed(d) /\ \A c : c # d => Short(c)' = Short(c)
      <4>1. d \in hasty' <=> \E w \in Workers : Opener(w) /\ worker[w].conv = d
        BY <2>1 DEF MarkAsRead
      <4>2. \A c : c # d => (c \in hasty' <=> c \in hasty)
        BY <2>1 DEF MarkAsRead
      <4>3. QED
        BY <4>1, <4>2 DEF Short, Owed
    <3>6. ASSUME NEW c \in 1 .. Len(conversations)
          PROVE  conversations'[c].unread + Short(c)' >= Cardinality(Unseen(c)') + Owed(c)'
      <4>1. CASE c = d
        <5>1. Cardinality(Unseen(c)') = 0
          BY <3>4, <4>1, FS_EmptySet
        <5>2. conversations'[c].unread = 0
          BY <1>5, <3>2, <3>3, <4>1
        <5>3. QED
          BY <1>4, <3>5, <4>1, <5>1, <5>2, ShortAndOwed
      <4>2. CASE c # d
        BY <1>4, <1>5, <3>2, <3>3, <3>4, <3>5, <4>2, BadgeValues
      <4>3. QED
        BY <4>1, <4>2
    <3>7. QED
      BY <1>5, <3>2, <3>3, <3>6
  <2>2. CASE UpdateConversationStatus(d)
    <3>1. PICK x : x = [conversations[d] EXCEPT !.closed = ~ conversations[d].closed]
      OBVIOUS
    <3>2. x \in Conversation /\ x.unread = conversations[d].unread
      BY <1>1, <3>1 DEF Conversation
    <3>3. conversations' = [conversations EXCEPT ![d] = x]
      BY <1>1, <2>2, <3>1 DEF UpdateConversationStatus, TypeOK
    <3>4. \A c : Unseen(c)' = Unseen(c) /\ Short(c)' = Short(c)
      BY <2>2 DEF UpdateConversationStatus, history, Unseen, Short
    <3>5. QED
      BY <1>4, <1>5, <3>2, <3>3, <3>4, BadgeValues
  <2>3. QED
    BY <2>1, <2>2
<1>7. QED
  BY <1>3, <1>4, <1>6 DEF BadgeHolds

(* Only a handler that opened a conversation says so.                      *)
LEMMA NextKeepsFresh == TInv /\ Fresh /\ [Next]_vars => Fresh'
<1> SUFFICES ASSUME TInv, Fresh, [Next]_vars PROVE Fresh'
  OBVIOUS
<1>0. ~ Idle.created
  BY DEF Idle
<1>1. ASSUME NEW w \in Workers, Handle(w) PROVE Fresh'
  <2>1. SUFFICES /\ \A v \in Workers : v # w => worker'[v] = worker[v]
                 /\ worker'[w].pc \in {"idle", "find", "converse"} => ~ worker'[w].created
    BY DEF Fresh
  <2>2. CASE Done(w)
    BY <1>0, <2>2, DoneValues DEF TInv
  <2>3. CASE \E row \in RowsOf(worker[w].id) : Found(w, row)
    BY <1>0, <2>3, FoundValues
  <2>4. ASSUME NEW step \in {"open", "insert", "count", "link"}, Goto(w, step)
        PROVE  /\ \A v \in Workers : v # w => worker'[v] = worker[v]
               /\ worker'[w].pc \notin {"idle", "find", "converse"}
    BY <2>4, GotoNext DEF Steps
  <2>5. CASE FindMessage(w) /\ Goto(w, "converse")
    <3>1. ~ worker[w].created
      BY <2>5 DEF FindMessage, At, Fresh
    <3>2. QED
      BY <2>5, <3>1, GotoNext DEF Steps
  <2>6. CASE DeliverInbound(w) \/ DeliverStatus(w)
    BY <2>6, DeliveriesGo
  <2>7. CASE FindConversation(w) \/ OpenConversation(w)
    <3>1. /\ \A v \in Workers : v # w => worker'[v] = worker[v]
          /\ worker'[w].pc \in {"open", "lookup"}
      BY <2>7, ConverseValues
    <3>2. QED
      BY <3>1
  <2>8. CASE BeginSend(w)
    <3>1. /\ \A v \in Workers : v # w => worker'[v] = worker[v]
          /\ worker'[w].pc = "send"
      BY <2>8, BeginSendValues
    <3>2. QED
      BY <3>1
  <2>9. CASE Lookup(w) \/ Insert(w) \/ Count(w) \/ FindMessage(w)
                 \/ Move(w) \/ CallWhatsapp(w) \/ Link(w) \/ HandlerFails(w)
    <3>1. \/ Done(w) \/ \E row \in RowsOf(worker[w].id) : Found(w, row)
          \/ Goto(w, "insert") \/ Goto(w, "count") \/ Goto(w, "link")
          \/ FindMessage(w) /\ Goto(w, "converse")
      BY <2>9 DEF Lookup, Insert, Stored, Count, Counted, FindMessage, Move, CallWhatsapp, Link,
                  HandlerFails
    <3>2. QED
      BY <2>2, <2>3, <2>4, <2>5, <3>1
  <2>10. QED
    BY <1>1, <2>6, <2>7, <2>8, <2>9 DEF Handle
<1>2. CASE worker' = worker
  BY <1>2 DEF Fresh
<1>3. CASE Crash
  BY <1>0, <1>3 DEF Crash, Fresh
<1>4. QED
  BY <1>1, <1>2, <1>3 DEF Next, MarkAsRead, UpdateConversationStatus, vars

(* Every step keeps the badge.                                             *)
LEMMA NextKeepsBadge == TInv /\ Fresh /\ BadgeHolds /\ [Next]_vars => BadgeHolds'
<1> SUFFICES ASSUME TInv, Fresh, BadgeHolds, [Next]_vars PROVE BadgeHolds'
  OBVIOUS
<1>1. ASSUME NEW w \in Workers, Handle(w) PROVE BadgeHolds'
  <2>1. ASSUME UNCHANGED <<conversations, unseen, hasty>>,
               \A v \in Workers : v # w => worker'[v] = worker[v],
               worker'[w].pc \notin {"lookup", "insert", "count"}
        PROVE  BadgeHolds'
    BY <2>1, BadgeFrame DEF Opener
  <2>2. ASSUME NEW step \in {"insert", "count"}, Goto(w, step),
               UNCHANGED <<conversations, unseen, hasty>>,
               worker[w].pc \in {"lookup", "insert"}
        PROVE  BadgeHolds'
    <3>1. /\ \A v \in Workers : v # w => worker'[v] = worker[v]
          /\ worker'[w].id = worker[w].id /\ worker'[w].conv = worker[w].conv
          /\ worker'[w].created = worker[w].created
      BY <2>2, GotoNext DEF Steps
    <3>2. \A v \in Workers : Opener(v)' => Opener(v) /\ worker'[v].conv = worker[v].conv
      BY <2>2, <3>1 DEF Opener
    <3>3. QED
      BY <2>2, <3>1, <3>2, BadgeFrame
  <2>3. CASE DeliverInbound(w) \/ DeliverStatus(w)
    <3>1. /\ \A v \in Workers : v # w => worker'[v] = worker[v]
          /\ worker'[w].pc \in {"converse", "find"}
          /\ UNCHANGED <<conversations, unseen, hasty>>
      BY <2>3, DeliveriesGo
    <3>2. worker'[w].pc \notin {"lookup", "insert", "count"}
      BY <3>1
    <3>3. QED
      BY <2>1, <3>1, <3>2
  <2>4. CASE FindConversation(w)
    <3>1. /\ \A v \in Workers : v # w => worker'[v] = worker[v]
          /\ UNCHANGED <<conversations, unseen, hasty>>
          /\ worker[w].pc = "converse" /\ worker'[w].created = worker[w].created
      BY <2>4, ConverseValues DEF FindConversation, history, At
    <3>2. ~ worker[w].created
      BY <3>1 DEF Fresh
    <3>3. \A v \in Workers : Opener(v)' => Opener(v) /\ worker'[v].conv = worker[v].conv
      BY <3>1, <3>2 DEF Opener
    <3>4. QED
      BY <3>1, <3>3, BadgeFrame
  <2>5. CASE OpenConversation(w)
    BY <2>5, OpenBadge
  <2>6. CASE \E row \in RowsOf(worker[w].id) : Found(w, row)
                /\ UNCHANGED <<conversations, unseen, hasty>>
    <3>1. /\ \A v \in Workers : v # w => worker'[v] = worker[v]
          /\ worker'[w] = Idle \/ worker'[w].pc = "move"
      BY <2>6, FoundValues
    <3>2. worker'[w].pc \notin {"lookup", "insert", "count"}
      BY <3>1, IdleIsWorker DEF TInv
    <3>3. QED
      BY <2>1, <2>6, <3>1, <3>2
  <2>7. CASE Done(w) /\ UNCHANGED <<conversations, unseen, hasty>>
    BY <2>1, <2>7, DoneValues DEF TInv
  <2>8. CASE Lookup(w) \/ Insert(w)
    <3>1. /\ UNCHANGED <<conversations, unseen, hasty>>
          /\ worker[w].pc \in {"lookup", "insert"}
      BY <2>8 DEF Lookup, Insert, history, At
    <3>2. \/ Goto(w, "insert") \/ Goto(w, "count") \/ Done(w)
          \/ \E row \in RowsOf(worker[w].id) : Found(w, row)
      BY <2>8 DEF Lookup, Insert, Stored
    <3>3. QED
      BY <2>2, <2>6, <2>7, <3>1, <3>2
  <2>9. CASE FindMessage(w)
    <3>1. UNCHANGED <<conversations, unseen, hasty>>
      BY <2>9 DEF FindMessage, history
    <3>2. CASE Goto(w, "converse")
      <4>1. /\ \A v \in Workers : v # w => worker'[v] = worker[v]
            /\ worker'[w].pc = "converse"
        BY <3>2, GotoNext DEF Steps
      <4>2. QED
        BY <2>1, <3>1, <4>1
    <3>3. QED
      BY <2>6, <2>7, <2>9, <3>1, <3>2 DEF FindMessage
  <2>10. CASE Count(w)
    BY <2>10, CountBadge
  <2>11. CASE Move(w) \/ CallWhatsapp(w) \/ Link(w)
    <3>1. UNCHANGED <<conversations, unseen, hasty>>
      BY <2>11 DEF Move, CallWhatsapp, Link, history
    <3>2. /\ \A v \in Workers : v # w => worker'[v] = worker[v]
          /\ worker'[w].pc \in {"idle", "link"}
      BY <2>11, RowStepsGo
    <3>3. worker'[w].pc \notin {"lookup", "insert", "count"}
      BY <3>2
    <3>4. QED
      BY <2>1, <3>1, <3>2, <3>3
  <2>12. CASE BeginSend(w)
    <3>1. /\ UNCHANGED <<conversations, unseen, hasty>>
          /\ \A v \in Workers : v # w => worker'[v] = worker[v]
          /\ worker'[w].pc = "send"
      BY <2>12, BeginSendValues DEF BeginSend, history
    <3>2. QED
      BY <2>1, <3>1
  <2>13. CASE HandlerFails(w)
    BY <2>7, <2>13 DEF HandlerFails
  <2>14. QED
    BY <1>1, <2>3, <2>4, <2>5, <2>8, <2>9, <2>10, <2>11, <2>12, <2>13 DEF Handle
<1>2. CASE \E c \in DOMAIN conversations : MarkAsRead(c) \/ UpdateConversationStatus(c)
  BY <1>2, ReadBadge
<1>3. CASE Crash
  BY <1>3, IdleIsWorker, BadgeFrame DEF Crash, Opener, TInv
<1>4. CASE UNCHANGED vars
  BY <1>4, BadgeFrame DEF vars, Opener
<1>5. QED
  BY <1>1, <1>2, <1>3, <1>4 DEF Next

(* The badge shows at least the messages counted since the conversation    *)
(* was read, however consumers and agents come between each other, but for *)
(* the one that opened it where it was read before that one was counted.   *)
THEOREM BadgeShowsAll == Spec => []UnreadNotLost
<1>1. Init => BadgeHolds
  BY FS_EmptySet DEF Init, BadgeHolds, Opener, Idle
<1>2. TInv /\ BadgeHolds => UnreadNotLost
  <2> SUFFICES ASSUME TInv, BadgeHolds, NEW c \in DOMAIN conversations
               PROVE  conversations[c].unread + (IF c \in hasty THEN 1 ELSE 0)
                         >= Cardinality({u \in unseen : u[2] = c})
    BY DEF UnreadNotLost
  <2>1. c \in 1 .. Len(conversations)
    BY Lengths DEF TInv
  <2>2. conversations[c].unread + Short(c) >= Cardinality(Unseen(c))
    BY <2>1, BadgeValues, ShortAndOwed
  <2>3. QED
    BY <2>2 DEF Short, Unseen
<1>3. Init => Fresh
  BY DEF Init, Fresh, Idle
<1>4. QED
  BY <1>1, <1>2, <1>3, TypesHold, NextKeepsFresh, NextKeepsBadge, PTL DEF Spec
=============================================================================
