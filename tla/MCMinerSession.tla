--------------------------- MODULE MCMinerSession ---------------------------
(* Instances of MinerSession for TLC. *)
EXTENDS MinerSession, TLC

CONSTANTS w1, w2

TwoWorkers == {w1, w2}
OneHinted == {w2}
AllBits == {1, 2}
TwoOptions == {[mask |-> {1, 2}, floor |-> FALSE], [mask |-> {1}, floor |-> TRUE]}
MaskOf == [j \in 1..MaxJobs |-> IF j = 1 THEN {1, 2} ELSE {2}]
=============================================================================
