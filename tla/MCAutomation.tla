---------------------------- MODULE MCAutomation ----------------------------
(* Two flows: a question, with what followed the reply removed, and one    *)
(* of conditions that may go round for ever.                               *)
EXTENDS Automation, TLC

CONSTANTS c1, c2, a1, ask, hear, thank

MCEvents == [p \in Partitions |-> IF p = "inbound" THEN 2 ELSE 1]

Question ==
    [first |-> ask,
     kind |-> ask :> "act" @@ hear :> "wait" @@ thank :> "absent",
     next |-> ask :> {hear} @@ hear :> {thank, None} @@ thank :> {None}]
Round ==
    [first |-> ask,
     kind |-> ask :> "route" @@ hear :> "route" @@ thank :> "wait",
     next |-> ask :> {hear} @@ hear :> {ask, thank} @@ thank :> {ask}]
MCFlows == {Question, Round}
=============================================================================
