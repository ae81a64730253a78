----------------------------- MODULE Automation -----------------------------
(***************************************************************************)
(* automation-service, for one contact: what the contact writes starts an  *)
(* automation or continues the flow that waits for a reply.  Where a flow  *)
(* waits is kept in Redis, for half an hour.  The service consumes inbound *)
(* messages and submitted forms, two partitions; a consumer handles one    *)
(* event at a time, without a heartbeat.  A flow with delays may outlive   *)
(* Kafka's session: its consumer then loses its partitions while still at  *)
(* work, and the event is delivered again, to another one or to itself.    *)
(***************************************************************************)
EXTENDS Integers

CONSTANTS Consumers,    \* processes of the service
          Automations,
          Steps,        \* ids of steps
          Flows,        \* what users draw
          None,         \* "nothing"
          Limit,        \* maxIterations
          MaxEvents,    \* bound: events per partition
          MaxEdits,     \* bound: changes of automations
          MaxFaults     \* bound: partitions reassigned within the session, failures
                        \* of Redis, crashes

Partitions == {"inbound", "submission"}

(* A step sends something (or calls, or tags), waits for a reply, or only  *)
(* decides; it leads to one of its branches.  An automation that is no     *)
(* flow is one of a single step.                                           *)
Flow == [first : Steps, kind : [Steps -> {"act", "wait", "route", "absent"}],
         next : [Steps -> SUBSET (Steps \union {None}) \ {{}}]]

ASSUME FlowAssumption == /\ Flows \subseteq Flow /\ None \notin Steps \union Flows
                         /\ \A f \in Flows : f.kind[f.first] # "absent"
ASSUME NameAssumption == None \notin Automations
ASSUME LimitAssumption == Limit \in Nat \ {0}
ASSUME BoundAssumption == MaxEvents \in [Partitions -> Nat] /\ {MaxEdits, MaxFaults} \subseteq Nat

VARIABLES automation,  \* auto_automations
          waiting,     \* the flow's state in Redis
          committed,   \* offsets
          consumer,    \* the events in hand
          taken,       \* history: the last inbound message that was begun
          lost,        \* history: inbound messages dropped on the way
          overlapped,  \* history: an event was taken with one of its partition in hand
          edits, faults

vars == <<automation, waiting, committed, consumer, taken, lost, overlapped, edits, faults>>

State == [auto : Automations, step : Steps,
          after : Nat]    \* history: taken, when the state was saved

Consumer == [pc : {"idle", "state", "match", "load", "perform", "save", "clear", "done"},
             part : Partitions, event : Nat, auto : Automations \union {None},
             flow : Flows \union {None}, step : Steps \union {None},
             resumed : BOOLEAN, left : Nat,
             member : BOOLEAN]    \* the partition is still its own
Idle == [pc |-> "idle", part |-> "inbound", event |-> 0, auto |-> None, flow |-> None,
         step |-> None, resumed |-> FALSE, left |-> 0, member |-> FALSE]

TypeOK == /\ automation \in [Automations -> [active : BOOLEAN, flow : Flows]]
          /\ waiting \in State \union {None}
          /\ committed \in [Partitions -> Nat]
          /\ consumer \in [Consumers -> Consumer]
          /\ \A c \in Consumers : consumer[c].pc \in {"perform", "save"} =>
                /\ consumer[c].auto # None /\ consumer[c].flow # None
                /\ consumer[c].step # None
                /\ consumer[c].flow.kind[consumer[c].step] # "absent"
          /\ taken \in Nat
          /\ lost \subseteq Nat
          /\ overlapped \in BOOLEAN
          /\ edits \in Nat /\ faults \in Nat

Fault == faults < MaxFaults /\ faults' = faults + 1
NoFault == UNCHANGED faults

At(c, step) == consumer[c].pc = step
Goto(c, step) == consumer' = [consumer EXCEPT ![c].pc = step]
Inbound(c) == consumer[c].part = "inbound"

-----------------------------------------------------------------------------
(* Consumption.                                                            *)

InHand(p) == {c \in Consumers : ~ At(c, "idle") /\ consumer[c].part = p}

(* The event after the offset is taken; who had it in hand has lost it.    *)
Take(c, p) ==
    LET n == committed[p] + 1
    IN  /\ At(c, "idle")
        /\ n <= MaxEvents[p]
        /\ IF \E d \in InHand(p) : consumer[d].member THEN Fault ELSE NoFault
        /\ overlapped' = (overlapped \/ InHand(p) # {})
        /\ consumer' = [d \in Consumers |->
              IF d = c
              THEN [Idle EXCEPT !.pc = IF p = "inbound" THEN "state" ELSE "match",
                                !.part = p, !.event = n, !.member = TRUE]
              ELSE [consumer[d] EXCEPT !.member = @ /\ d \notin InHand(p)]]
        /\ taken' = IF p = "inbound" THEN n ELSE taken
        /\ UNCHANGED <<automation, waiting, committed, lost, edits>>

(* The calls and delays of a flow take longer than the session: the        *)
(* consumer is expelled from its group.                                    *)
SessionEnds(c) ==
    /\ At(c, "perform") /\ consumer[c].flow.kind[consumer[c].step] = "act"
    /\ consumer[c].member
    /\ consumer' = [consumer EXCEPT ![c].member = FALSE]
    /\ UNCHANGED <<automation, waiting, committed, taken, lost, overlapped, edits, faults>>

(* The offset is refused from a consumer that has lost the partition.      *)
Refused(c) == At(c, "done") /\ ~ consumer[c].member

Commit(c) ==
    /\ At(c, "done")
    /\ committed' = IF Refused(c) THEN committed
                    ELSE [committed EXCEPT ![consumer[c].part] = consumer[c].event]
    /\ consumer' = [consumer EXCEPT ![c] = Idle]
    /\ UNCHANGED <<automation, waiting, taken, lost, overlapped, edits, faults>>

Lose(c) == lost' = IF Inbound(c) THEN lost \union {consumer[c].event} ELSE lost

(* The account is not active, or a query fails: the event is logged and    *)
(* dropped.                                                                *)
Drop(c) ==
    /\ consumer[c].pc \in {"state", "match", "load"}
    /\ Goto(c, "done") /\ Lose(c)
    /\ UNCHANGED <<automation, waiting, committed, taken, overlapped, edits, faults>>

-----------------------------------------------------------------------------
(* processInboundMessage; a form (processFlowSubmission) goes straight to  *)
(* the automations.                                                        *)

ReadState(c) ==
    /\ At(c, "state")
    /\ IF waiting = None THEN Goto(c, "match")
       ELSE consumer' = [consumer EXCEPT ![c].pc = "load", ![c].auto = waiting.auto,
                                         ![c].step = waiting.step]
    /\ UNCHANGED <<automation, waiting, committed, taken, lost, overlapped, edits,
                   faults>>

Run(c, a, step, resumed) ==
    consumer' = [consumer EXCEPT ![c] =
        [@ EXCEPT !.pc = "perform", !.auto = a, !.flow = automation[a].flow, !.step = step,
                  !.resumed = resumed, !.left = Limit]]

(* An automation that is active matches, or none does.                     *)
Match(c) ==
    /\ At(c, "match")
    /\ \/ Goto(c, "done")
       \/ \E a \in Automations :
             /\ automation[a].active
             /\ Run(c, a, automation[a].flow.first, FALSE)
    /\ UNCHANGED <<automation, waiting, committed, taken, lost, overlapped, edits,
                   faults>>

(* Mutant: the step is not looked for.                                     *)
LoadUnsought(c) ==
    /\ At(c, "load")
    /\ IF automation[consumer[c].auto].active THEN Run(c, consumer[c].auto, consumer[c].step, TRUE)
       ELSE Goto(c, "clear")
    /\ UNCHANGED <<automation, waiting, committed, taken, lost, overlapped, edits,
                   faults>>

(* continueFlow: the automation is no longer active, or the step no longer *)
(* drawn.                                                                  *)
Load(c) ==
    LET a == consumer[c].auto
        step == consumer[c].step
    IN  /\ At(c, "load")
        /\ IF automation[a].active /\ automation[a].flow.kind[step] # "absent"
           THEN Run(c, a, step, TRUE) ELSE Goto(c, "clear")
        /\ UNCHANGED <<automation, waiting, committed, taken, lost, overlapped,
                       edits, faults>>

(* The flow has come to its end; only one that was continued has a state   *)
(* to be cleared.                                                          *)
End(c) == Goto(c, IF consumer[c].resumed THEN "clear" ELSE "done")

(* Mutant: the number of steps is not limited.                             *)
PerformUnlimited(c) ==
    LET flow == consumer[c].flow
        Onward(next) ==
            IF next = None \/ flow.kind[next] = "absent" THEN End(c)
            ELSE consumer' = [consumer EXCEPT ![c].step = next,
                     ![c].pc = IF flow.kind[next] = "wait" THEN "save" ELSE "perform"]
    IN  /\ At(c, "perform")
        /\ \/ \E next \in flow.next[consumer[c].step] : Onward(next)
           \/ flow.kind[consumer[c].step] = "act" /\ End(c)
        /\ UNCHANGED <<automation, waiting, committed, taken, lost, overlapped,
                       edits, faults>>

(* processFlowStep and executeFlowAction, then the next step, if there is  *)
(* one and the limit is not reached.  An action may fail, and then the     *)
(* flow ends (the last disjunct).                                          *)
Perform(c) ==
    LET flow == consumer[c].flow
        Onward(next) ==
            IF next = None \/ consumer[c].left = 0 THEN End(c)
            ELSE IF flow.kind[next] = "absent" THEN End(c)
            ELSE consumer' = [consumer EXCEPT ![c].step = next, ![c].left = @ - 1,
                     ![c].pc = IF flow.kind[next] = "wait" THEN "save" ELSE "perform"]
    IN  /\ At(c, "perform")
        /\ \/ \E next \in flow.next[consumer[c].step] : Onward(next)
           \/ flow.kind[consumer[c].step] = "act" /\ End(c)
        /\ UNCHANGED <<automation, waiting, committed, taken, lost, overlapped,
                       edits, faults>>

(* Redis keeps the step that waits, or fails.                              *)
Save(c) ==
    /\ At(c, "save")
    /\ \/ /\ waiting' = [auto |-> consumer[c].auto, step |-> consumer[c].step,
                         after |-> taken]
          /\ Goto(c, "done") /\ NoFault
       \/ End(c) /\ Fault /\ UNCHANGED waiting
    /\ UNCHANGED <<automation, committed, taken, lost, overlapped, edits>>

(* Mutant: a flow that ends is left to its expiry.                         *)
ClearNothing(c) ==
    /\ At(c, "clear")
    /\ Goto(c, "done")
    /\ UNCHANGED <<automation, waiting, committed, taken, lost, overlapped, edits,
                   faults>>

(* Redis forgets the flow, or fails, and the event is dropped.             *)
Clear(c) ==
    /\ At(c, "clear")
    /\ \/ waiting' = None /\ NoFault /\ UNCHANGED lost
       \/ UNCHANGED waiting /\ Fault /\ Lose(c)
    /\ Goto(c, "done")
    /\ UNCHANGED <<automation, committed, taken, overlapped, edits>>

-----------------------------------------------------------------------------
(* The user draws the flow anew, or switches the automation on or off.     *)
Edit(a) ==
    /\ edits < MaxEdits
    /\ edits' = edits + 1
    /\ \E active \in BOOLEAN, flow \in Flows :
          automation' = [automation EXCEPT ![a] = [active |-> active, flow |-> flow]]
    /\ UNCHANGED <<waiting, committed, consumer, taken, lost, overlapped, faults>>

(* FLOW_TTL.                                                               *)
Expire ==
    /\ waiting # None
    /\ waiting' = None
    /\ UNCHANGED <<automation, committed, consumer, taken, lost, overlapped, edits,
                   faults>>

(* A consumer dies; its event is delivered again.                          *)
Crash(c) ==
    /\ ~ At(c, "idle")
    /\ Fault
    /\ consumer' = [consumer EXCEPT ![c] = Idle]
    /\ UNCHANGED <<automation, waiting, committed, taken, lost, overlapped, edits>>

Init == /\ automation \in [Automations -> [active : {TRUE}, flow : Flows]]
        /\ waiting = None
        /\ committed = [p \in Partitions |-> 0]
        /\ consumer = [c \in Consumers |-> Idle]
        /\ taken = 0 /\ lost = {} /\ overlapped = FALSE
        /\ edits = 0 /\ faults = 0

Handle(c) == \/ Drop(c) \/ ReadState(c) \/ Match(c) \/ Load(c)
             \/ Perform(c) \/ Save(c) \/ Clear(c) \/ Commit(c)

Next == \/ \E c \in Consumers : \/ \E p \in Partitions : Take(c, p)
                               \/ Handle(c) \/ SessionEnds(c) \/ Crash(c)
        \/ \E a \in Automations : Edit(a)
        \/ Expire

Spec == Init /\ [][Next]_vars

(* A handler that was begun goes on, and a consumer fetches what waits.    *)
FairSpec == /\ Spec
            /\ \A c \in Consumers : WF_vars(Handle(c))
            /\ \A p \in Partitions : WF_vars(\E c \in Consumers : Take(c, p) /\ faults' = faults)

-----------------------------------------------------------------------------
(* Properties.                                                             *)

(* "Clear flow state on error to prevent stuck flows" (continueFlow): a    *)
(* reply that was handled to the end has moved the flow on, to the next    *)
(* question or to its end, so that the next reply is not taken for an      *)
(* answer to the same question; whatever fails on the way, where the       *)
(* service dies, and when the automation is redrawn meanwhile.  Replies    *)
(* that were dropped, and partitions handled twice at once, are excepted.  *)
ReplyMovesFlow ==
    ~ overlapped /\ waiting # None =>
        \A k \in waiting.after + 1 .. committed["inbound"] : k \in lost

(* Whatever the user draws, loops included (maxIterations), every event is *)
(* passed in the end and leaves its consumer to those behind it; unless    *)
(* handlings outlive the session again and again, as those of a flow with  *)
(* long delays do: its event is then handled for ever.                     *)
EventsArePassed ==
    \/ \A p \in Partitions : <>(committed[p] = MaxEvents[p])
    \/ []<>(\E c \in Consumers : Refused(c))
=============================================================================
