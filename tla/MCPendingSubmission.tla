------------------------- MODULE MCPendingSubmission -------------------------
(* Instances of PendingSubmission for TLC. *)
EXTENDS PendingSubmission, TLC

CONSTANTS b1, b2

OneBlock == {b1}
TwoBlocks == {b1, b2}
NoBlock == {}
SecondBlock == {b2}
=============================================================================
