--------------------------- MODULE AutomationProofs ---------------------------
(***************************************************************************)
(* automation-service, for every number of consumers, automations, flows,  *)
(* events, edits and faults.                                               *)
(***************************************************************************)
EXTENDS Automation, TLAPS

(* What a consumer has in hand, by the step it is at.                      *)
Fits(r) ==
    /\ r \in Consumer
    /\ r.pc \in {"load", "perform", "save"} => r.auto \in Automations /\ r.step \in Steps
    /\ r.pc \in {"perform", "save"} => r.flow \in Flows /\ r.flow.kind[r.step] # "absent"

TInv == TypeOK /\ \A c \in Consumers : Fits(consumer[c])

(* While no partition is handled twice at once, a consumer at work is the  *)
(* only one at its partition, and its event the one after the offset.      *)
Alone(c, d) ==
    ~ At(c, "idle") /\ ~ At(d, "idle") /\ consumer[c].part = consumer[d].part => c = d

Mine(c) ==
    ~ At(c, "idle") =>
        /\ consumer[c].event = committed[consumer[c].part] + 1
        /\ Inbound(c) => consumer[c].event = taken

(* Nothing waits for this reply any more, or it is lost.                   *)
Answered(k) == k \in lost \/ waiting = None \/ waiting.after >= k

(* A consumer that is past what waited for its reply.                      *)
Past(r) == /\ r.part = "inbound"
           /\ \/ r.pc \in {"match", "done"}
              \/ r.pc \in {"perform", "save"} /\ ~ r.resumed

Serial ==
    ~ overlapped =>
        /\ committed["inbound"] <= taken
        /\ \A c, d \in Consumers : Alone(c, d)
        /\ \A c \in Consumers :
              Mine(c) /\ (Past(consumer[c]) => Answered(consumer[c].event))
        /\ \A k \in 1 .. committed["inbound"] : Answered(k)

-----------------------------------------------------------------------------
(* Values.                                                                 *)

(* The consumer that has nothing in hand.                                  *)
LEMMA IdleFits == Fits(Idle) /\ Idle.pc = "idle"
BY DEF Fits, Idle, Consumer, Partitions

PCs == {"idle", "state", "match", "load", "perform", "save", "clear", "done"}

(* A consumer that goes on to a step.                                      *)
GoingOn(r, step) == [r EXCEPT !.pc = step]

(* It is a consumer, with the fields named.                                *)
LEMMA GoingOnValues ==
    ASSUME NEW r \in Consumer, NEW step \in PCs
    PROVE  /\ GoingOn(r, step) \in Consumer
           /\ GoingOn(r, step).pc = step
           /\ GoingOn(r, step).part = r.part
           /\ GoingOn(r, step).event = r.event
           /\ GoingOn(r, step).auto = r.auto
           /\ GoingOn(r, step).flow = r.flow
           /\ GoingOn(r, step).step = r.step
           /\ GoingOn(r, step).resumed = r.resumed
BY DEF Consumer, PCs, GoingOn

(* A consumer at a later step of its flow.                                 *)
Onto(r, next, step) == [r EXCEPT !.step = next, !.left = r.left - 1, !.pc = step]

(* It is a consumer, with the fields named.                                *)
LEMMA OntoValues ==
    ASSUME NEW r \in Consumer, r.left # 0, NEW next \in Steps, NEW step \in PCs
    PROVE  /\ Onto(r, next, step) \in Consumer
           /\ Onto(r, next, step).pc = step
           /\ Onto(r, next, step).part = r.part
           /\ Onto(r, next, step).event = r.event
           /\ Onto(r, next, step).auto = r.auto
           /\ Onto(r, next, step).flow = r.flow
           /\ Onto(r, next, step).step = next
           /\ Onto(r, next, step).resumed = r.resumed
<1>1. r.left - 1 \in Nat
  BY DEF Consumer
<1>2. QED
  BY <1>1 DEF Consumer, PCs, Onto

(* A consumer that found the flow that waits.                              *)
Found(r, s) == [r EXCEPT !.pc = "load", !.auto = s.auto, !.step = s.step]

(* It is a consumer, with the fields named.                                *)
LEMMA FoundValues ==
    ASSUME NEW r \in Consumer, NEW s \in State
    PROVE  /\ Found(r, s) \in Consumer
           /\ Found(r, s).pc = "load"
           /\ Found(r, s).part = r.part
           /\ Found(r, s).event = r.event
           /\ Found(r, s).auto \in Automations
           /\ Found(r, s).step \in Steps
BY DEF Consumer, State, Found

(* A consumer that begins, or goes on with, a flow.                        *)
Running(r, a, flow, step, resumed) ==
    [r EXCEPT !.pc = "perform", !.auto = a, !.flow = flow, !.step = step,
              !.resumed = resumed, !.left = Limit]

(* It is a consumer, with the fields named.                                *)
LEMMA RunningValues ==
    ASSUME NEW r \in Consumer, NEW a \in Automations, NEW flow \in Flows,
           NEW step \in Steps, NEW resumed \in BOOLEAN
    PROVE  /\ Running(r, a, flow, step, resumed) \in Consumer
           /\ Running(r, a, flow, step, resumed).pc = "perform"
           /\ Running(r, a, flow, step, resumed).part = r.part
           /\ Running(r, a, flow, step, resumed).event = r.event
           /\ Running(r, a, flow, step, resumed).auto = a
           /\ Running(r, a, flow, step, resumed).flow = flow
           /\ Running(r, a, flow, step, resumed).step = step
           /\ Running(r, a, flow, step, resumed).resumed = resumed
<1>1. Limit \in Nat
  BY LimitAssumption
<1>2. QED
  BY <1>1 DEF Consumer, Running

(* A consumer whose partition is its own, or no longer is.                 *)
Holding(r, member) == [r EXCEPT !.member = member]

(* It is a consumer, with the fields named.                                *)
LEMMA HoldingValues ==
    ASSUME NEW r \in Consumer, NEW member \in BOOLEAN
    PROVE  /\ Holding(r, member) \in Consumer
           /\ Holding(r, member).pc = r.pc
           /\ Holding(r, member).part = r.part
           /\ Holding(r, member).event = r.event
           /\ Holding(r, member).auto = r.auto
           /\ Holding(r, member).flow = r.flow
           /\ Holding(r, member).step = r.step
           /\ Holding(r, member).resumed = r.resumed
BY DEF Consumer, Holding

(* A consumer that takes an event.                                         *)
Taking(p, n) == [Idle EXCEPT !.pc = IF p = "inbound" THEN "state" ELSE "match",
                             !.part = p, !.event = n, !.member = TRUE]

(* It is a consumer, with the fields named.                                *)
LEMMA TakingValues ==
    ASSUME NEW p \in Partitions, NEW n \in Nat
    PROVE  /\ Taking(p, n) \in Consumer
           /\ Taking(p, n).pc \in {"state", "match"}
           /\ p = "inbound" => Taking(p, n).pc = "state"
           /\ Taking(p, n).part = p
           /\ Taking(p, n).event = n
BY DEF Consumer, Idle, Taking, Partitions

(* What a step of a flow leads to is a step, unless it is nothing.         *)
LEMMA FlowValues ==
    ASSUME NEW f \in Flows
    PROVE  /\ f.first \in Steps /\ f.kind[f.first] # "absent"
           /\ \A s \in Steps : \A n \in f.next[s] : n \in Steps \union {None}
<1>1. f \in Flow /\ f.kind[f.first] # "absent"
  BY FlowAssumption
<1>2. /\ f.first \in Steps
      /\ f.next \in [Steps -> SUBSET (Steps \union {None}) \ {{}}]
  BY <1>1 DEF Flow
<1>3. QED
  BY <1>1, <1>2

-----------------------------------------------------------------------------
(* Types.                                                                  *)

(* What is not the consumers' keeps its type.                              *)
SharedTyped ==
    /\ automation \in [Automations -> [active : BOOLEAN, flow : Flows]]
    /\ waiting \in State \union {None}
    /\ committed \in [Partitions -> Nat]
    /\ taken \in Nat /\ lost \subseteq Nat /\ overlapped \in BOOLEAN
    /\ edits \in Nat /\ faults \in Nat

(* Types are those of what is shared, and of what every consumer holds.    *)
LEMMA TypesAre ==
    ASSUME SharedTyped, consumer \in [Consumers -> Consumer],
           \A c \in Consumers : Fits(consumer[c])
    PROVE  TInv
<1>1. ASSUME NEW c \in Consumers, consumer[c].pc \in {"perform", "save"}
      PROVE  /\ consumer[c].auto # None /\ consumer[c].flow # None
             /\ consumer[c].step # None
             /\ consumer[c].flow.kind[consumer[c].step] # "absent"
  BY <1>1, FlowAssumption, NameAssumption DEF Fits
<1>2. QED
  BY <1>1 DEF SharedTyped, TInv, TypeOK

(* The same after a step.                                                  *)
LEMMA StaysTyped ==
    ASSUME SharedTyped', consumer' \in [Consumers -> Consumer],
           \A c \in Consumers : Fits(consumer'[c])
    PROVE  TInv'
<1>1. ASSUME NEW c \in Consumers, consumer'[c].pc \in {"perform", "save"}
      PROVE  /\ consumer'[c].auto # None /\ consumer'[c].flow # None
             /\ consumer'[c].step # None
             /\ consumer'[c].flow.kind[consumer'[c].step] # "absent"
  BY <1>1, FlowAssumption, NameAssumption DEF Fits
<1>2. QED
  BY <1>1 DEF SharedTyped, TInv, TypeOK, Fits

(* One consumer has something else in hand.                                *)
LEMMA OneTyped ==
    ASSUME TInv, NEW c \in Consumers, NEW r, Fits(r), SharedTyped',
           consumer' = [consumer EXCEPT ![c] = r]
    PROVE  TInv'
<1>1. consumer \in [Consumers -> Consumer] /\ r \in Consumer
  BY DEF TInv, TypeOK, Fits
<1>2. consumer' \in [Consumers -> Consumer]
  BY <1>1
<1>3. \A d \in Consumers : consumer'[d] = IF d = c THEN r ELSE consumer[d]
  BY <1>1
<1>4. \A d \in Consumers : Fits(consumer'[d])
  BY <1>3 DEF TInv
<1>5. QED
  BY <1>2, <1>4, StaysTyped

(* A consumer goes on with its event, and is past what waited for it only  *)
(* if it was, or nothing waits any more.                                   *)
GoesOn(c, r) ==
    /\ Fits(r) /\ r.pc # "idle"
    /\ r.part = consumer[c].part /\ r.event = consumer[c].event
    /\ consumer' = [consumer EXCEPT ![c] = r]
    /\ Mine(c) /\ (Past(consumer[c]) => Answered(r.event)) /\ Past(r) => Answered(r.event)'

(* A step of a handler, other than the commit.                             *)
Handled(c) ==
    /\ ~ At(c, "idle")
    /\ \E r : GoesOn(c, r)
    /\ SharedTyped'
    /\ \A k \in 1 .. taken : Answered(k) => Answered(k)'
    /\ UNCHANGED <<committed, taken, overlapped>>

(* What is shared has its type.                                            *)
LEMMA SharedIsTyped == TInv => SharedTyped
BY DEF TInv, TypeOK, SharedTyped

(* What is shared and does not change keeps its type.                      *)
LEMMA SharedStays ==
    ASSUME TInv, UNCHANGED <<automation, committed, taken, overlapped, edits>>,
           waiting' \in State \union {None}, lost' \subseteq Nat, faults' \in Nat
    PROVE  SharedTyped'
BY DEF TInv, TypeOK, SharedTyped

(* A consumer's pc is changed.                                             *)
LEMMA GoingOnFits ==
    ASSUME TInv, NEW c \in Consumers, NEW step \in {"match", "clear", "done"},
           Goto(c, step)
    PROVE  /\ Fits(GoingOn(consumer[c], step))
           /\ GoingOn(consumer[c], step).pc = step
           /\ GoingOn(consumer[c], step).part = consumer[c].part
           /\ GoingOn(consumer[c], step).event = consumer[c].event
           /\ consumer' = [consumer EXCEPT ![c] = GoingOn(consumer[c], step)]
<1>1. consumer[c] \in Consumer /\ step \in PCs
  BY DEF TInv, Fits, PCs
<1>2. consumer' = [consumer EXCEPT ![c] = GoingOn(consumer[c], step)]
  BY DEF Goto, GoingOn
<1>3. QED
  BY <1>1, <1>2, GoingOnValues DEF Fits

(* The event is dropped, and counted as lost.                              *)
LEMMA DropHandled ==
    ASSUME TInv, NEW c \in Consumers, Drop(c)
    PROVE  Handled(c)
<1>1. PICK r : r = GoingOn(consumer[c], "done")
  OBVIOUS
<1>2. /\ Fits(r) /\ r.pc = "done"
      /\ r.part = consumer[c].part /\ r.event = consumer[c].event
      /\ consumer' = [consumer EXCEPT ![c] = r]
  BY <1>1, GoingOnFits DEF Drop
<1>3. lost' = (IF Inbound(c) THEN lost \union {consumer[c].event} ELSE lost)
  BY DEF Drop, Lose
<1>4. consumer[c].event \in Nat /\ lost \subseteq Nat
  BY DEF TInv, TypeOK, Consumer
<1>5. lost' \subseteq Nat /\ lost \subseteq lost'
  BY <1>3, <1>4
<1>6. UNCHANGED <<automation, waiting, committed, taken, overlapped, edits, faults>>
  BY DEF Drop
<1>7. SharedTyped'
  BY <1>5, <1>6, SharedStays DEF TInv, TypeOK
<1>8. Past(r) => Answered(r.event)'
  BY <1>2, <1>3 DEF Past, Answered, Inbound
<1>9. \A k \in 1 .. taken : Answered(k) => Answered(k)'
  BY <1>5, <1>6 DEF Answered
<1>10. ~ At(c, "idle") /\ r.pc # "idle"
  BY <1>2 DEF Drop, At
<1>11. GoesOn(c, r)
  BY <1>2, <1>8, <1>10 DEF GoesOn
<1>12. QED
  BY <1>6, <1>7, <1>9, <1>10, <1>11 DEF Handled

(* Nothing but what the consumer has in hand changes.                      *)
LEMMA InHandOnly ==
    ASSUME TInv, NEW c \in Consumers, NEW r, ~ At(c, "idle"),
           Fits(r), r.pc # "idle", r.part = consumer[c].part, r.event = consumer[c].event,
           consumer' = [consumer EXCEPT ![c] = r],
           Past(r) => Past(consumer[c]) \/ waiting = None,
           UNCHANGED <<automation, waiting, committed, taken, lost, overlapped,
                       edits, faults>>
    PROVE  Handled(c)
<1>1. SharedTyped'
  BY SharedStays DEF TInv, TypeOK
<1>2. \A k : Answered(k) => Answered(k)'
  BY DEF Answered
<1>3. waiting = None => Answered(r.event)'
  BY DEF Answered
<1>4. GoesOn(c, r)
  BY <1>2, <1>3 DEF GoesOn
<1>5. QED
  BY <1>1, <1>2, <1>4 DEF Handled

(* The flow that waits is found, or none is.                               *)
LEMMA ReadStateHandled ==
    ASSUME TInv, NEW c \in Consumers, ReadState(c)
    PROVE  Handled(c)
<1>1. UNCHANGED <<automation, waiting, committed, taken, lost, overlapped, edits,
                  faults>>
  BY DEF ReadState
<1>2. ~ At(c, "idle") /\ consumer[c] \in Consumer /\ waiting \in State \union {None}
  BY DEF ReadState, At, TInv, TypeOK, Fits
<1>3. CASE waiting = None
  <2>1. Goto(c, "match")
    BY <1>3 DEF ReadState
  <2>2. PICK r : r = GoingOn(consumer[c], "match")
    OBVIOUS
  <2>3. /\ Fits(r) /\ r.pc = "match"
        /\ r.part = consumer[c].part /\ r.event = consumer[c].event
        /\ consumer' = [consumer EXCEPT ![c] = r]
    BY <2>1, <2>2, GoingOnFits
  <2>4. QED
    BY <1>1, <1>2, <1>3, <2>3, InHandOnly
<1>4. CASE waiting # None
  <2>1. waiting \in State
    BY <1>2, <1>4
  <2>2. PICK r : r = Found(consumer[c], waiting)
    OBVIOUS
  <2>3. consumer' = [consumer EXCEPT ![c] = r]
    BY <1>4, <2>2 DEF ReadState, Found
  <2>4. /\ r \in Consumer /\ r.pc = "load"
        /\ r.part = consumer[c].part /\ r.event = consumer[c].event
        /\ r.auto \in Automations /\ r.step \in Steps
    BY <1>2, <2>1, <2>2, FoundValues
  <2>5. Fits(r) /\ r.pc # "idle" /\ ~ Past(r)
    BY <2>4 DEF Fits, Past
  <2>6. QED
    BY <1>1, <1>2, <2>3, <2>4, <2>5, InHandOnly
<1>5. QED
  BY <1>3, <1>4

(* A flow is run.                                                          *)
LEMMA RunHandled ==
    ASSUME TInv, NEW c \in Consumers, NEW a \in Automations, NEW step \in Steps,
           NEW resumed \in BOOLEAN, ~ At(c, "idle"),
           automation[a].flow.kind[step] # "absent", Run(c, a, step, resumed),
           resumed \/ At(c, "match"),
           UNCHANGED <<automation, waiting, committed, taken, lost, overlapped,
                       edits, faults>>
    PROVE  Handled(c)
<1>1. consumer[c] \in Consumer /\ automation[a].flow \in Flows
  BY DEF TInv, TypeOK, Fits
<1>2. PICK r : r = Running(consumer[c], a, automation[a].flow, step, resumed)
  OBVIOUS
<1>3. consumer' = [consumer EXCEPT ![c] = r]
  BY <1>2 DEF Run, Running
<1>4. /\ r \in Consumer /\ r.pc = "perform"
      /\ r.part = consumer[c].part /\ r.event = consumer[c].event
      /\ r.auto = a /\ r.flow = automation[a].flow /\ r.step = step /\ r.resumed = resumed
  BY <1>1, <1>2, RunningValues
<1>5. Fits(r) /\ r.pc # "idle"
  BY <1>1, <1>4 DEF Fits
<1>6. Past(r) => Past(consumer[c])
  BY <1>4 DEF Past, At
<1>7. QED
  BY <1>3, <1>4, <1>5, <1>6, InHandOnly

(* An automation matches, or none does.                                    *)
LEMMA MatchHandled ==
    ASSUME TInv, NEW c \in Consumers, Match(c)
    PROVE  Handled(c)
<1>1. UNCHANGED <<automation, waiting, committed, taken, lost, overlapped, edits,
                  faults>>
  BY DEF Match
<1>2. At(c, "match") /\ ~ At(c, "idle")
  BY DEF Match, At
<1>3. CASE Goto(c, "done")
  <2>1. PICK r : r = GoingOn(consumer[c], "done")
    OBVIOUS
  <2>2. /\ Fits(r) /\ r.pc = "done"
        /\ r.part = consumer[c].part /\ r.event = consumer[c].event
        /\ consumer' = [consumer EXCEPT ![c] = r]
    BY <1>3, <2>1, GoingOnFits
  <2>3. Past(r) => Past(consumer[c])
    BY <1>2, <2>2 DEF Past, At
  <2>4. QED
    BY <1>1, <1>2, <2>2, <2>3, InHandOnly
<1>4. CASE ~ Goto(c, "done")
  <2>1. PICK a \in Automations : Run(c, a, automation[a].flow.first, FALSE)
    BY <1>4 DEF Match
  <2>2. automation[a].flow \in Flows
    BY DEF TInv, TypeOK
  <2>3. PICK step : step = automation[a].flow.first
    OBVIOUS
  <2>4. step \in Steps /\ automation[a].flow.kind[step] # "absent"
    BY <2>2, <2>3, FlowValues
  <2>5. Run(c, a, step, FALSE)
    BY <2>1, <2>3
  <2>6. QED
    BY <1>1, <1>2, <2>4, <2>5, RunHandled
<1>5. QED
  BY <1>3, <1>4

(* What waits for the reply is looked for in what is drawn now.            *)
LEMMA LoadHandled ==
    ASSUME TInv, NEW c \in Consumers, Load(c)
    PROVE  Handled(c)
<1>1. UNCHANGED <<automation, waiting, committed, taken, lost, overlapped, edits,
                  faults>>
  BY DEF Load
<1>2. At(c, "load") /\ ~ At(c, "idle")
  BY DEF Load, At
<1>3. PICK a, step : a = consumer[c].auto /\ step = consumer[c].step
  OBVIOUS
<1>4. a \in Automations /\ step \in Steps
  BY <1>2, <1>3 DEF TInv, Fits, At
<1>5. CASE automation[a].active /\ automation[a].flow.kind[step] # "absent"
  <2>1. Run(c, a, step, TRUE)
    BY <1>3, <1>5 DEF Load
  <2>2. QED
    BY <1>1, <1>2, <1>4, <1>5, <2>1, RunHandled
<1>6. CASE ~ (automation[a].active /\ automation[a].flow.kind[step] # "absent")
  <2>1. Goto(c, "clear")
    BY <1>3, <1>6 DEF Load
  <2>2. PICK r : r = GoingOn(consumer[c], "clear")
    OBVIOUS
  <2>3. /\ Fits(r) /\ r.pc = "clear"
        /\ r.part = consumer[c].part /\ r.event = consumer[c].event
        /\ consumer' = [consumer EXCEPT ![c] = r]
    BY <2>1, <2>2, GoingOnFits
  <2>4. QED
    BY <1>1, <1>2, <2>3, InHandOnly DEF Past
<1>7. QED
  BY <1>5, <1>6

(* A flow that ends is forgotten first where it was continued.             *)
LEMMA EndGoesOn ==
    ASSUME TInv, NEW c \in Consumers, consumer[c].pc \in {"perform", "save"}, End(c)
    PROVE  \E r : /\ Fits(r) /\ r.pc # "idle"
                  /\ r.part = consumer[c].part /\ r.event = consumer[c].event
                  /\ consumer' = [consumer EXCEPT ![c] = r]
                  /\ Past(r) => Past(consumer[c])
<1>1. PICK step \in {"clear", "done"} :
         Goto(c, step) /\ (step = "done" => ~ consumer[c].resumed)
  BY DEF End
<1>2. PICK r : r = GoingOn(consumer[c], step)
  OBVIOUS
<1>3. /\ Fits(r) /\ r.pc = step
      /\ r.part = consumer[c].part /\ r.event = consumer[c].event
      /\ consumer' = [consumer EXCEPT ![c] = r]
  BY <1>1, <1>2, GoingOnFits
<1>4. Past(r) => Past(consumer[c])
  BY <1>1, <1>3 DEF Past
<1>5. QED
  BY <1>3, <1>4

(* A step of the flow is performed.                                        *)
LEMMA PerformHandled ==
    ASSUME TInv, NEW c \in Consumers, Perform(c)
    PROVE  Handled(c)
<1>1. UNCHANGED <<automation, waiting, committed, taken, lost, overlapped, edits,
                  faults>>
  BY DEF Perform
<1>2. consumer[c].pc = "perform" /\ ~ At(c, "idle")
  BY DEF Perform, At
<1>3. CASE End(c)
  BY <1>1, <1>2, <1>3, EndGoesOn, InHandOnly
<1>4. CASE ~ End(c)
  <2>1. PICK next \in consumer[c].flow.next[consumer[c].step] :
           /\ next # None /\ consumer[c].left # 0
           /\ consumer[c].flow.kind[next] # "absent"
           /\ consumer' = [consumer EXCEPT ![c].step = next, ![c].left = @ - 1,
                 ![c].pc = IF consumer[c].flow.kind[next] = "wait" THEN "save" ELSE "perform"]
    BY <1>4 DEF Perform
  <2>2. /\ consumer[c] \in Consumer /\ consumer[c].flow \in Flows
        /\ consumer[c].step \in Steps /\ consumer[c].auto \in Automations
    BY <1>2 DEF TInv, Fits
  <2>3. next \in Steps
    BY <2>1, <2>2, FlowValues
  <2>4. PICK step \in {"save", "perform"} :
           step = IF consumer[c].flow.kind[next] = "wait" THEN "save" ELSE "perform"
    OBVIOUS
  <2>5. PICK r : r = Onto(consumer[c], next, step)
    OBVIOUS
  <2>6. consumer' = [consumer EXCEPT ![c] = r]
    BY <2>1, <2>4, <2>5 DEF Onto
  <2>7. step \in PCs
    BY DEF PCs
  <2>8. /\ r \in Consumer /\ r.pc = step
        /\ r.part = consumer[c].part /\ r.event = consumer[c].event
        /\ r.auto = consumer[c].auto /\ r.flow = consumer[c].flow /\ r.step = next
        /\ r.resumed = consumer[c].resumed
    BY <2>1, <2>2, <2>3, <2>5, <2>7, OntoValues
  <2>9. Fits(r) /\ r.pc # "idle"
    BY <2>1, <2>2, <2>3, <2>8 DEF Fits
  <2>10. Past(r) => Past(consumer[c])
    BY <1>2, <2>8 DEF Past
  <2>11. QED
    BY <1>1, <1>2, <2>6, <2>8, <2>9, <2>10, InHandOnly
<1>5. QED
  BY <1>3, <1>4

(* The state is saved, after the reply in hand; or Redis fails.            *)
LEMMA SaveHandled ==
    ASSUME TInv, NEW c \in Consumers, Save(c)
    PROVE  Handled(c)
<1>1. UNCHANGED <<automation, committed, taken, lost, overlapped, edits>>
  BY DEF Save
<1>2. consumer[c].pc = "save" /\ ~ At(c, "idle")
  BY DEF Save, At
<1>3. /\ consumer[c].auto \in Automations /\ consumer[c].step \in Steps
      /\ taken \in Nat /\ faults \in Nat /\ lost \subseteq Nat
      /\ waiting \in State \union {None}
  BY <1>2 DEF TInv, Fits, TypeOK
<1>4. CASE /\ waiting' = [auto |-> consumer[c].auto, step |-> consumer[c].step,
                          after |-> taken]
           /\ Goto(c, "done") /\ NoFault
  <2>1. waiting' \in State /\ waiting'.after = taken
    BY <1>3, <1>4 DEF State
  <2>2. SharedTyped'
    BY <1>1, <1>3, <1>4, <2>1, SharedStays DEF NoFault
  <2>3. \A k \in 1 .. taken : Answered(k)'
    BY <1>3, <2>1 DEF Answered
  <2>4. PICK r : r = GoingOn(consumer[c], "done")
    OBVIOUS
  <2>5. /\ Fits(r) /\ r.pc = "done"
        /\ r.part = consumer[c].part /\ r.event = consumer[c].event
        /\ consumer' = [consumer EXCEPT ![c] = r]
    BY <1>4, <2>4, GoingOnFits
  <2>6. Mine(c) /\ Past(r) => r.event = taken
    BY <1>2, <2>5 DEF Mine, Past, Inbound, At
  <2>7. r.event = taken => Answered(r.event)'
    BY <1>3, <2>1 DEF Answered
  <2>8. GoesOn(c, r)
    BY <2>5, <2>6, <2>7 DEF GoesOn
  <2>9. QED
    BY <1>1, <1>2, <2>2, <2>3, <2>8 DEF Handled
<1>5. CASE End(c) /\ Fault /\ UNCHANGED waiting
  <2>1. SharedTyped'
    BY <1>1, <1>3, <1>5, SharedStays DEF Fault
  <2>2. \A k : Answered(k) => Answered(k)'
    BY <1>1, <1>5 DEF Answered
  <2>3. PICK r : /\ Fits(r) /\ r.pc # "idle"
                 /\ r.part = consumer[c].part /\ r.event = consumer[c].event
                 /\ consumer' = [consumer EXCEPT ![c] = r]
                 /\ Past(r) => Past(consumer[c])
    BY <1>2, <1>5, EndGoesOn
  <2>4. GoesOn(c, r)
    BY <2>2, <2>3 DEF GoesOn
  <2>5. QED
    BY <1>1, <1>2, <2>1, <2>2, <2>4 DEF Handled
<1>6. QED
  BY <1>4, <1>5 DEF Save

(* The state is cleared; or Redis fails, and the reply is lost.            *)
LEMMA ClearHandled ==
    ASSUME TInv, NEW c \in Consumers, Clear(c)
    PROVE  Handled(c)
<1>1. UNCHANGED <<automation, committed, taken, overlapped, edits>>
  BY DEF Clear
<1>2. ~ At(c, "idle") /\ Goto(c, "done")
  BY DEF Clear, At
<1>3. /\ consumer[c].event \in Nat /\ lost \subseteq Nat /\ faults \in Nat
      /\ waiting \in State \union {None}
  BY DEF TInv, TypeOK, Consumer
<1>4. PICK r : r = GoingOn(consumer[c], "done")
  OBVIOUS
<1>5. /\ Fits(r) /\ r.pc = "done"
      /\ r.part = consumer[c].part /\ r.event = consumer[c].event
      /\ consumer' = [consumer EXCEPT ![c] = r]
  BY <1>2, <1>4, GoingOnFits
<1>6. CASE waiting' = None /\ NoFault /\ UNCHANGED lost
  <2>1. SharedTyped'
    BY <1>1, <1>3, <1>6, SharedStays DEF NoFault
  <2>2. \A k : Answered(k)'
    BY <1>6 DEF Answered
  <2>3. GoesOn(c, r)
    BY <1>5, <2>2 DEF GoesOn
  <2>4. QED
    BY <1>1, <1>2, <2>1, <2>2, <2>3 DEF Handled
<1>7. CASE UNCHANGED waiting /\ Fault /\ Lose(c)
  <2>1. lost' = (IF Inbound(c) THEN lost \union {consumer[c].event} ELSE lost)
    BY <1>7 DEF Lose
  <2>2. lost' \subseteq Nat /\ lost \subseteq lost'
    BY <1>3, <2>1
  <2>3. SharedTyped'
    BY <1>1, <1>3, <1>7, <2>2, SharedStays DEF Fault
  <2>4. \A k : Answered(k) => Answered(k)'
    BY <1>7, <2>2 DEF Answered
  <2>5. Past(r) => Answered(r.event)'
    BY <1>5, <2>1 DEF Past, Answered, Inbound
  <2>6. GoesOn(c, r)
    BY <1>5, <2>5 DEF GoesOn
  <2>7. QED
    BY <1>1, <1>2, <2>3, <2>4, <2>6 DEF Handled
<1>8. QED
  BY <1>6, <1>7 DEF Clear

(* The session ends, and the handling goes on.                             *)
LEMMA SessionEndHandled ==
    ASSUME TInv, NEW c \in Consumers, SessionEnds(c)
    PROVE  Handled(c)
<1>1. /\ UNCHANGED <<automation, waiting, committed, taken, lost, overlapped, edits, faults>>
      /\ consumer[c].pc = "perform" /\ consumer[c] \in Consumer /\ Fits(consumer[c])
  BY DEF SessionEnds, At, TInv, Fits
<1>2. PICK r : r = Holding(consumer[c], FALSE)
  OBVIOUS
<1>3. consumer' = [consumer EXCEPT ![c] = r]
  BY <1>2 DEF SessionEnds, Holding
<1>4. /\ r \in Consumer /\ r.pc = "perform" /\ r.part = consumer[c].part
      /\ r.event = consumer[c].event /\ r.auto = consumer[c].auto
      /\ r.flow = consumer[c].flow /\ r.step = consumer[c].step
      /\ r.resumed = consumer[c].resumed
  BY <1>1, <1>2, HoldingValues
<1>5. Fits(r)
  BY <1>1, <1>4 DEF Fits
<1>6. SharedTyped'
  BY <1>1 DEF TInv, TypeOK, SharedTyped
<1>7. Past(r) => Past(consumer[c])
  BY <1>1, <1>4 DEF Past
<1>8. \A k : Answered(k) => Answered(k)'
  BY <1>1 DEF Answered
<1>9. GoesOn(c, r)
  BY <1>3, <1>4, <1>5, <1>7, <1>8 DEF GoesOn
<1>10. QED
  BY <1>1, <1>6, <1>8, <1>9 DEF Handled, At

(* Every step of a handler, but the commit, is one.                        *)
LEMMA HandlersHandle ==
    ASSUME TInv, NEW c \in Consumers, Handle(c), ~ Commit(c)
    PROVE  Handled(c)
BY DropHandled, ReadStateHandled, MatchHandled, LoadHandled, PerformHandled,
   SaveHandled, ClearHandled DEF Handle

(* A consumer that is idle again fits.                                     *)
LEMMA CommitTyped ==
    ASSUME TInv, NEW c \in Consumers, Commit(c)
    PROVE  TInv'
<1>1. consumer' = [consumer EXCEPT ![c] = Idle]
  BY DEF Commit
<1>2. consumer[c].part \in Partitions /\ consumer[c].event \in Nat
  BY DEF TInv, TypeOK, Consumer
<1>3. committed' \in [Partitions -> Nat]
  BY <1>2 DEF Commit, TInv, TypeOK
<1>4. SharedTyped'
  BY <1>3 DEF Commit, TInv, TypeOK, SharedTyped
<1>5. QED
  BY <1>1, <1>4, IdleFits, OneTyped

(* What consumers have in hand when an event is taken.                     *)
LEMMA TakeValues ==
    ASSUME NEW c \in Consumers, NEW p \in Partitions, Take(c, p)
    PROVE  /\ consumer'[c] = Taking(p, committed[p] + 1)
           /\ \A d \in Consumers : d # c =>
                 \E member \in BOOLEAN : consumer'[d] = Holding(consumer[d], member)
           /\ consumer' = [d \in Consumers |-> consumer'[d]]
<1> DEFINE new(d) == IF d = c THEN Taking(p, committed[p] + 1)
                     ELSE Holding(consumer[d], consumer[d].member /\ d \notin InHand(p))
<1>1. consumer' = [d \in Consumers |-> new(d)]
  BY DEF Take, Taking, Holding
<1>2. /\ new(c) = Taking(p, committed[p] + 1)
      /\ \A d \in Consumers : d # c =>
            \E member \in BOOLEAN : new(d) = Holding(consumer[d], member)
  <2>1. \A d : (consumer[d].member /\ d \notin InHand(p)) \in BOOLEAN
    OBVIOUS
  <2>2. QED
    BY <2>1
<1> HIDE DEF new
<1>3. \A d \in Consumers : consumer'[d] = new(d)
  BY <1>1
<1>4. QED
  BY <1>1, <1>2, <1>3

(* An event is taken.                                                      *)
LEMMA TakeTyped ==
    ASSUME TInv, NEW c \in Consumers, NEW p \in Partitions, Take(c, p)
    PROVE  TInv'
<1>1. committed[p] + 1 \in Nat
  BY DEF TInv, TypeOK
<1>2. /\ Fits(consumer'[c]) /\ consumer' = [d \in Consumers |-> consumer'[d]]
      /\ \A d \in Consumers : d # c => Fits(consumer'[d])
  <2>1. \A d \in Consumers : Fits(consumer[d])
    BY DEF TInv
  <2>2. /\ consumer'[c] = Taking(p, committed[p] + 1)
        /\ \A d \in Consumers : d # c =>
              \E member \in BOOLEAN : consumer'[d] = Holding(consumer[d], member)
        /\ consumer' = [d \in Consumers |-> consumer'[d]]
    BY TakeValues
  <2>3. Fits(consumer'[c])
    BY <1>1, <2>2, TakingValues DEF Fits
  <2>4. ASSUME NEW d \in Consumers, d # c PROVE Fits(consumer'[d])
    <3>1. PICK member \in BOOLEAN : consumer'[d] = Holding(consumer[d], member)
      BY <2>2, <2>4
    <3>2. PICK r : r = consumer[d]
      OBVIOUS
    <3>3. Fits(r) /\ r \in Consumer
      BY <2>1, <3>2 DEF Fits
    <3>4. Fits(Holding(r, member))
      BY <3>3, HoldingValues DEF Fits
    <3>5. QED
      BY <3>1, <3>2, <3>4
  <2>5. QED
    BY <2>2, <2>3, <2>4
<1>3. \A d \in Consumers : Fits(consumer'[d]) /\ consumer'[d] \in Consumer
  BY <1>2 DEF Fits
<1>4. consumer' \in [Consumers -> Consumer]
  BY <1>2, <1>3
<1>5. overlapped' \in BOOLEAN
  <2>1. (overlapped \/ InHand(p) # {}) \in BOOLEAN
    OBVIOUS
  <2>2. QED
    BY <2>1 DEF Take
<1>6. faults' \in Nat
  BY DEF Take, TInv, TypeOK, Fault, NoFault
<1>7. taken' \in Nat
  BY <1>1 DEF Take, TInv, TypeOK
<1>8. SharedTyped'
  BY <1>5, <1>6, <1>7 DEF Take, TInv, TypeOK, SharedTyped
<1>9. QED
  BY <1>3, <1>4, <1>8, StaysTyped

(* Edits, expiry and crashes.                                              *)
LEMMA OutsideTyped ==
    ASSUME TInv, \/ \E a \in Automations : Edit(a)
                 \/ Expire
                 \/ \E c \in Consumers : Crash(c)
    PROVE  TInv'
<1>1. CASE \E a \in Automations : Edit(a)
  <2>1. PICK a \in Automations : Edit(a)
    BY <1>1
  <2>2. PICK active \in BOOLEAN, flow \in Flows :
           automation' = [automation EXCEPT ![a] = [active |-> active, flow |-> flow]]
    BY <2>1 DEF Edit
  <2>3. automation' \in [Automations -> [active : BOOLEAN, flow : Flows]]
    BY <2>2 DEF TInv, TypeOK
  <2>4. SharedTyped'
    BY <2>1, <2>3 DEF Edit, TInv, TypeOK, SharedTyped
  <2>5. consumer' = consumer
    BY <2>1 DEF Edit
  <2>6. QED
    BY <2>4, <2>5, StaysTyped DEF TInv, TypeOK
<1>2. CASE Expire
  <2>1. SharedTyped' /\ consumer' = consumer
    BY <1>2 DEF Expire, TInv, TypeOK, SharedTyped
  <2>2. QED
    BY <2>1, StaysTyped DEF TInv, TypeOK
<1>3. CASE \E c \in Consumers : Crash(c)
  <2>1. PICK c \in Consumers : Crash(c)
    BY <1>3
  <2>2. consumer' = [consumer EXCEPT ![c] = Idle]
    BY <2>1 DEF Crash
  <2>3. SharedTyped'
    BY <2>1 DEF Crash, Fault, TInv, TypeOK, SharedTyped
  <2>4. QED
    BY <2>2, <2>3, IdleFits, OneTyped
<1>4. QED
  BY <1>1, <1>2, <1>3

(* Every step keeps every type.                                            *)
LEMMA StepTyped == TInv /\ [Next]_vars => TInv'
<1>1. ASSUME TInv, UNCHANGED vars
      PROVE  TInv'
  <2>1. SharedTyped' /\ consumer' = consumer
    BY <1>1 DEF vars, TInv, TypeOK, SharedTyped
  <2>2. QED
    BY <1>1, <2>1, StaysTyped DEF TInv, TypeOK
<1>2. ASSUME TInv, NEW c \in Consumers, Handled(c)
      PROVE  TInv'
  <2>1. PICK r : Fits(r) /\ consumer' = [consumer EXCEPT ![c] = r]
    BY <1>2 DEF Handled, GoesOn
  <2>2. QED
    BY <1>2, <2>1, OneTyped DEF Handled
<1>3. ASSUME TInv, NEW c \in Consumers, Handle(c)
      PROVE  TInv'
  BY <1>2, <1>3, HandlersHandle, CommitTyped
<1>4. QED
  BY <1>1, <1>2, <1>3, TakeTyped, SessionEndHandled, OutsideTyped DEF Next

(* Everything has its type at the start.                                   *)
LEMMA InitTyped == Init => TInv
<1> SUFFICES ASSUME Init PROVE TInv
  OBVIOUS
<1>1. SharedTyped
  BY DEF Init, SharedTyped, Partitions
<1>2. consumer \in [Consumers -> Consumer] /\ \A c \in Consumers : Fits(consumer[c])
  BY IdleFits DEF Init, Fits
<1>3. QED
  BY <1>1, <1>2, TypesAre

(* All state of automation-service keeps its type: in particular a flow    *)
(* that was redrawn meanwhile never has a step performed that is not there.*)
THEOREM TypeCorrect == Spec => []TypeOK
<1>1. Spec => []TInv
  BY InitTyped, StepTyped, PTL DEF Spec
<1>2. TInv => TypeOK
  BY DEF TInv
<1>3. QED
  BY <1>1, <1>2, PTL

-----------------------------------------------------------------------------
(* Replies.                                                                *)

(* Handlers keep their partitions.                                         *)
LEMMA HandledKeepsSerial ==
    ASSUME TInv, Serial, NEW c \in Consumers, Handled(c)
    PROVE  Serial'
<1> SUFFICES ASSUME ~ overlapped' PROVE
        /\ (committed["inbound"] <= taken)'
        /\ \A d, e \in Consumers : Alone(d, e)'
        /\ \A d \in Consumers : Mine(d)' /\ (Past(consumer[d]) => Answered(consumer[d].event))'
        /\ \A k \in 1 .. committed'["inbound"] : Answered(k)'
  BY DEF Serial
<1>1. PICK r : GoesOn(c, r)
  BY DEF Handled
<1>2. /\ UNCHANGED <<committed, taken>> /\ ~ overlapped
      /\ \A k \in 1 .. taken : Answered(k) => Answered(k)'
      /\ ~ At(c, "idle")
  BY DEF Handled
<1>3. /\ committed["inbound"] <= taken
      /\ \A d, e \in Consumers : Alone(d, e)
      /\ \A d \in Consumers : Mine(d) /\ (Past(consumer[d]) => Answered(consumer[d].event))
      /\ \A k \in 1 .. committed["inbound"] : Answered(k)
  BY <1>2 DEF Serial
<1>4. /\ consumer \in [Consumers -> Consumer] /\ taken \in Nat
      /\ committed \in [Partitions -> Nat] /\ committed["inbound"] \in Nat
  BY DEF TInv, TypeOK, Partitions
<1>5. /\ r.pc # "idle" /\ r.part = consumer[c].part /\ r.event = consumer[c].event
      /\ Past(r) => Answered(r.event)'
  BY <1>1, <1>3 DEF GoesOn
<1>6. \A d \in Consumers : consumer'[d] = IF d = c THEN r ELSE consumer[d]
  BY <1>1, <1>4 DEF GoesOn
<1>7. ASSUME NEW d \in Consumers
      PROVE  Mine(d)' /\ (Past(consumer[d]) => Answered(consumer[d].event))'
  <2>1. CASE d = c
    <3>1. Mine(d)'
      BY <1>2, <1>3, <1>5, <1>6, <2>1 DEF Mine, At, Inbound
    <3>2. (Past(consumer[d]) => Answered(consumer[d].event))'
      BY <1>5, <1>6, <2>1 DEF Past, Answered
    <3>3. QED
      BY <3>1, <3>2
  <2>2. CASE d # c
    <3>1. consumer'[d] = consumer[d]
      BY <1>6, <2>2
    <3>2. Mine(d)'
      BY <1>2, <1>3, <3>1 DEF Mine, At, Inbound
    <3>3. PICK k : k = consumer[d].event
      OBVIOUS
    <3>4. Past(consumer[d]) => k \in 1 .. taken
      <4>1. consumer[d].part \in Partitions /\ consumer[d].pc \in PCs
        BY <1>4 DEF Consumer, PCs
      <4>2. Past(consumer[d]) => k = taken /\ k = committed["inbound"] + 1
        BY <1>3, <3>3 DEF Mine, Past, At, Inbound
      <4>3. QED
        BY <1>4, <4>2
    <3>5. Past(consumer[d]) => Answered(k)'
      BY <1>2, <1>3, <3>3, <3>4
    <3>6. (Past(consumer[d]) => Answered(consumer[d].event))'
      BY <3>1, <3>3, <3>5 DEF Past, Answered
    <3>7. QED
      BY <3>2, <3>6
  <2>3. QED
    BY <2>1, <2>2
<1>8. \A k \in 1 .. committed'["inbound"] : Answered(k)'
  <2>1. \A k \in 1 .. committed["inbound"] : k \in 1 .. taken
    BY <1>3, <1>4
  <2>2. QED
    BY <1>2, <1>3, <2>1
<1>9. \A d, e \in Consumers : Alone(d, e)'
  BY <1>2, <1>3, <1>5, <1>6 DEF Alone, At
<1>10. QED
  BY <1>2, <1>3, <1>7, <1>8, <1>9

(* One consumer is idle, as is any other that had its partition.           *)
LEMMA CommitKeepsSerial ==
    ASSUME TInv, Serial, NEW c \in Consumers, Commit(c)
    PROVE  Serial'
<1> SUFFICES ASSUME ~ overlapped' PROVE
        /\ (committed["inbound"] <= taken)'
        /\ \A d, e \in Consumers : Alone(d, e)'
        /\ \A d \in Consumers : Mine(d)' /\ (Past(consumer[d]) => Answered(consumer[d].event))'
        /\ \A k \in 1 .. committed'["inbound"] : Answered(k)'
  BY DEF Serial
<1>1. /\ UNCHANGED <<waiting, taken, lost>> /\ ~ overlapped /\ At(c, "done")
      /\ consumer' = [consumer EXCEPT ![c] = Idle]
  BY DEF Commit
<1>2. /\ committed["inbound"] <= taken
      /\ \A d, e \in Consumers : Alone(d, e)
      /\ \A d \in Consumers : Mine(d) /\ (Past(consumer[d]) => Answered(consumer[d].event))
      /\ \A k \in 1 .. committed["inbound"] : Answered(k)
  BY <1>1 DEF Serial
<1>3. /\ consumer \in [Consumers -> Consumer] /\ taken \in Nat
      /\ committed \in [Partitions -> Nat] /\ committed["inbound"] \in Nat
  BY DEF TInv, TypeOK, Partitions
<1>4. PICK p \in Partitions : p = consumer[c].part
  BY <1>3 DEF Consumer
<1>5. /\ consumer[c].event = committed[p] + 1
      /\ p = "inbound" => consumer[c].event = taken
  BY <1>1, <1>2, <1>4 DEF Mine, At, Inbound
<1>6. \A d \in Consumers : consumer'[d] = IF d = c THEN Idle ELSE consumer[d]
  BY <1>1, <1>3
<1>7. \A d, e \in Consumers : Alone(d, e)'
  BY <1>2, <1>6, IdleFits DEF Alone, At
<1>8. \A k : Answered(k) => Answered(k)'
  BY <1>1 DEF Answered
<1>9. ASSUME NEW d \in Consumers
      PROVE  /\ Mine(d)' /\ (Past(consumer[d]) => Answered(consumer[d].event))'
             /\ ~ At(d, "idle")' => d # c /\ consumer'[d].part # p
  <2>1. CASE d = c
    BY <1>6, <2>1, IdleFits DEF Mine, At, Past
  <2>2. CASE d # c
    <3>1. consumer'[d] = consumer[d] /\ consumer[d].part \in Partitions
      BY <1>3, <1>6, <2>2 DEF Consumer
    <3>2. ~ At(d, "idle") => consumer[d].part # p
      BY <1>1, <1>2, <1>4, <2>2 DEF Alone, At
    <3>3. \A q \in Partitions : q # p => committed'[q] = committed[q]
      BY <1>3, <1>4 DEF Commit
    <3>4. Mine(d)'
      BY <1>1, <1>2, <3>1, <3>2, <3>3 DEF Mine, At, Inbound
    <3>5. (Past(consumer[d]) => Answered(consumer[d].event))'
      BY <1>1, <1>2, <3>1 DEF Past, Answered
    <3>6. QED
      BY <2>2, <3>1, <3>2, <3>4, <3>5 DEF At
  <2>3. QED
    BY <2>1, <2>2
<1>10. CASE committed' = committed
  BY <1>1, <1>2, <1>7, <1>8, <1>9, <1>10
<1>11. CASE committed' = [committed EXCEPT ![p] = committed[p] + 1]
  <2>1. \A q \in Partitions : committed'[q] = IF q = p THEN committed[p] + 1 ELSE committed[q]
    BY <1>3, <1>11
  <2>2. CASE p = "inbound"
    <3>1. committed'["inbound"] = taken /\ committed'["inbound"] = committed["inbound"] + 1
      BY <1>4, <1>5, <2>1, <2>2
    <3>2. Answered(consumer[c].event)
      BY <1>1, <1>2, <1>4, <2>2 DEF Past, At
    <3>3. \A k \in 1 .. committed'["inbound"] :
             k \in 1 .. committed["inbound"] \/ k = consumer[c].event
      BY <1>3, <1>5, <2>2, <3>1
    <3>4. committed'["inbound"] <= taken'
      BY <1>1, <1>3, <3>1
    <3>5. QED
      BY <1>2, <1>7, <1>8, <1>9, <3>2, <3>3, <3>4
  <2>3. CASE p # "inbound"
    <3>1. committed'["inbound"] = committed["inbound"]
      BY <2>1, <2>3 DEF Partitions
    <3>2. QED
      BY <1>1, <1>2, <1>7, <1>8, <1>9, <3>1
  <2>4. QED
    BY <2>2, <2>3
<1>12. QED
  BY <1>4, <1>5, <1>10, <1>11 DEF Commit

(* A partition is given to a consumer when nobody has an event of it.      *)
LEMMA TakeKeepsSerial ==
    ASSUME TInv, Serial, NEW c \in Consumers, NEW p \in Partitions, Take(c, p)
    PROVE  Serial'
<1> SUFFICES ASSUME ~ overlapped' PROVE
        /\ (committed["inbound"] <= taken)'
        /\ \A d, e \in Consumers : Alone(d, e)'
        /\ \A d \in Consumers : Mine(d)' /\ (Past(consumer[d]) => Answered(consumer[d].event))'
        /\ \A k \in 1 .. committed'["inbound"] : Answered(k)'
  BY DEF Serial
<1>1. /\ UNCHANGED <<waiting, committed, lost>> /\ ~ overlapped
      /\ InHand(p) = {} /\ At(c, "idle")
      /\ taken' = (IF p = "inbound" THEN committed[p] + 1 ELSE taken)
  BY DEF Take
<1>2. /\ committed["inbound"] <= taken
      /\ \A d, e \in Consumers : Alone(d, e)
      /\ \A d \in Consumers : Mine(d) /\ (Past(consumer[d]) => Answered(consumer[d].event))
      /\ \A k \in 1 .. committed["inbound"] : Answered(k)
  BY <1>1 DEF Serial
<1>3. /\ consumer \in [Consumers -> Consumer] /\ taken \in Nat
      /\ committed[p] \in Nat /\ committed["inbound"] \in Nat
  BY DEF TInv, TypeOK, Partitions
<1>4. PICK r : r = Taking(p, committed[p] + 1)
  OBVIOUS
<1>5. consumer'[c] = r
  BY <1>4, TakeValues
<1>6. /\ r.pc \in {"state", "match"} /\ (p = "inbound" => r.pc = "state")
      /\ r.part = p /\ r.event = committed[p] + 1
  BY <1>3, <1>4, TakingValues
<1>7. ASSUME NEW d \in Consumers, d # c
      PROVE  /\ consumer[d].part \in Partitions /\ consumer'[d].pc = consumer[d].pc
             /\ consumer'[d].part = consumer[d].part /\ consumer'[d].event = consumer[d].event
             /\ consumer'[d].resumed = consumer[d].resumed
             /\ ~ At(d, "idle") => consumer[d].part # p
  <2>1. PICK member \in BOOLEAN : consumer'[d] = Holding(consumer[d], member)
    BY <1>7, TakeValues
  <2>2. PICK x \in Consumer : x = consumer[d]
    BY <1>3
  <2>3. ~ At(d, "idle") => consumer[d].part # p
    BY <1>1 DEF InHand
  <2>4. x.part \in Partitions
    BY DEF Consumer
  <2>5. QED
    BY <2>1, <2>2, <2>3, <2>4, HoldingValues
<1>8. \A d, e \in Consumers : Alone(d, e)'
  BY <1>2, <1>5, <1>6, <1>7 DEF Alone, At
<1>9. (committed["inbound"] <= taken)'
  BY <1>1, <1>2, <1>3
<1>10. ASSUME NEW d \in Consumers
       PROVE  Mine(d)' /\ (Past(consumer[d]) => Answered(consumer[d].event))'
  <2>1. CASE d = c
    <3>1. Mine(d)'
      BY <1>1, <1>5, <1>6, <2>1 DEF Mine, At, Inbound
    <3>2. ~ Past(consumer'[d])
      BY <1>5, <1>6, <2>1 DEF Past
    <3>3. QED
      BY <3>1, <3>2 DEF Past
  <2>2. CASE d # c
    <3>1. Mine(d)'
      BY <1>1, <1>2, <1>7, <2>2 DEF Mine, At, Inbound
    <3>2. (Past(consumer[d]) => Answered(consumer[d].event))'
      BY <1>1, <1>2, <1>7, <2>2 DEF Past, Answered
    <3>3. QED
      BY <3>1, <3>2
  <2>3. QED
    BY <2>1, <2>2
<1>11. \A k \in 1 .. committed'["inbound"] : Answered(k)'
  BY <1>1, <1>2 DEF Answered
<1>12. QED
  BY <1>8, <1>9, <1>10, <1>11

(* Edits, expiry and crashes.                                              *)
LEMMA OutsideKeepsSerial ==
    ASSUME TInv, Serial, \/ \E a \in Automations : Edit(a)
                         \/ Expire
                         \/ \E c \in Consumers : Crash(c)
                         \/ UNCHANGED vars
    PROVE  Serial'
<1>1. /\ UNCHANGED <<committed, taken, lost, overlapped>>
      /\ waiting' = None \/ UNCHANGED waiting
      /\ \A d \in Consumers : consumer'[d] \in {consumer[d], Idle}
  <2>1. ASSUME NEW c \in Consumers, Crash(c)
        PROVE  /\ UNCHANGED <<committed, taken, lost, overlapped, waiting>>
               /\ \A d \in Consumers : consumer'[d] \in {consumer[d], Idle}
    BY <2>1 DEF Crash, TInv, TypeOK
  <2>2. QED
    BY <2>1 DEF Edit, Expire, vars
<1>2. \A k : Answered(k) => Answered(k)'
  BY <1>1 DEF Answered
<1>3. ASSUME ~ overlapped, NEW d \in Consumers, Mine(d),
             Past(consumer[d]) => Answered(consumer[d].event)
      PROVE  Mine(d)' /\ (Past(consumer[d]) => Answered(consumer[d].event))'
  <2>1. CASE consumer'[d] = consumer[d]
    <3>1. Mine(d)'
      BY <1>1, <1>3, <2>1 DEF Mine, At, Inbound
    <3>2. (Past(consumer[d]) => Answered(consumer[d].event))'
      BY <1>1, <1>3, <2>1 DEF Past, Answered
    <3>3. QED
      BY <3>1, <3>2
  <2>2. CASE consumer'[d] = Idle
    BY <2>2, IdleFits DEF Mine, At, Past
  <2>3. QED
    BY <1>1, <2>1, <2>2
<1>4. ASSUME NEW d \in Consumers, NEW e \in Consumers, Alone(d, e)
      PROVE  Alone(d, e)'
  <2>1. CASE consumer'[d] = consumer[d] /\ consumer'[e] = consumer[e]
    BY <1>4, <2>1 DEF Alone, At
  <2>2. CASE consumer'[d] = Idle \/ consumer'[e] = Idle
    BY <2>2, IdleFits DEF Alone, At
  <2>3. QED
    BY <1>1, <2>1, <2>2
<1>5. QED
  BY <1>1, <1>2, <1>3, <1>4 DEF Serial

(* Every step does.                                                        *)
LEMMA StepSerial == TInv /\ Serial /\ [Next]_vars => Serial'
<1>1. ASSUME TInv, Serial, NEW c \in Consumers, Handle(c)
      PROVE  Serial'
  BY <1>1, HandlersHandle, HandledKeepsSerial, CommitKeepsSerial
<1>2. QED
  BY <1>1, TakeKeepsSerial, SessionEndHandled, HandledKeepsSerial, OutsideKeepsSerial DEF Next

(* No reply has been handled at the start.                                 *)
LEMMA InitSerial == Init => Serial
BY IdleFits DEF Init, Serial, Alone, Mine, At, Past, Partitions

(* A reply that was handled to the end has moved the flow on, whatever the *)
(* user draws and switches meanwhile and wherever the service dies.        *)
THEOREM RepliesMoveFlows == Spec => []ReplyMovesFlow
<1>1. Spec => [](TInv /\ Serial)
  BY InitTyped, StepTyped, InitSerial, StepSerial, PTL DEF Spec
<1>2. TInv /\ Serial => ReplyMovesFlow
  <2> SUFFICES ASSUME TInv, Serial, ~ overlapped, waiting # None,
                      NEW k \in waiting.after + 1 .. committed["inbound"]
               PROVE  k \in lost
    BY DEF ReplyMovesFlow
  <2>1. waiting.after \in Nat /\ committed["inbound"] \in Nat
    BY DEF TInv, TypeOK, State, Partitions
  <2>2. k \in 1 .. committed["inbound"] /\ ~ (waiting.after >= k)
    BY <2>1
  <2>3. Answered(k)
    BY <2>2 DEF Serial
  <2>4. QED
    BY <2>2, <2>3 DEF Answered
<1>3. QED
  BY <1>1, <1>2, PTL
===============================================================================
