----------------------------- MODULE MCServices -----------------------------
(* One small instance of every component of Services for TLC. *)
EXTENDS Services

CONSTANTS ma, mb

OneHost == [c \in {1, 2} |-> "host"]
PoolHashrates == {20, 100, 700}
Offered == {ma} \X {1, 2, 3} \cup {<<mb, 1>>}
=============================================================================
