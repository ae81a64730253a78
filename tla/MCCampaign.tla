----------------------------- MODULE MCCampaign -----------------------------
(***************************************************************************)
(* Small campaigns.                                                        *)
(***************************************************************************)
EXTENDS Campaign, TLC

CONSTANTS c1, c2, r1, r2

MCRecipients == Permutations({c1, c2})

(* What Meta may report: a message delivered and read, whose "sent" is     *)
(* never told, one that fails after it was sent, one that fails at once.   *)
MCOutcomes == {{"delivered", "read"}, {"sent", "failed"}, {"failed"}}
MCShortOutcomes == {{"sent"}, {"sent", "failed"}}
MCFailsLater == {{"sent", "failed"}}
=============================================================================
