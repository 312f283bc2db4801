------------------------------ MODULE WorkFeed ------------------------------
(***************************************************************************)
(* What goPool promises each miner about the order of its work: the pool's *)
(* jobs are numbered, a connection may skip jobs, and it is never handed a *)
(* job older than one it has already been given.                           *)
(***************************************************************************)
EXTENDS Naturals

CONSTANT Conns

VARIABLES newest,   \* the generation of the pool's current job
          seen      \* seen[c]: the generation c was last given, 0 for none

vars == <<newest, seen>>

TypeOK == newest \in Nat /\ seen \in [Conns -> Nat]

Init == newest = 0 /\ seen = [c \in Conns |-> 0]

NewWork == newest' = newest + 1 /\ UNCHANGED seen

Give(c) ==
    /\ \E g \in seen[c]+1 .. newest : seen' = [seen EXCEPT ![c] = g]
    /\ UNCHANGED newest

Next == NewWork \/ \E c \in Conns : Give(c)

Spec == Init /\ [][Next]_vars
=============================================================================
