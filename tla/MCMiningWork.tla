----------------------------- MODULE MCMiningWork -----------------------------
(* Small instances of MiningWork.  The mempool does not change, so that the *)
(* number of jobs is bounded by the number of best blocks.                  *)
EXTENDS MiningWork

CONSTANTS m1

OneV1 == {m1}
Nobody == {}
SecondBlock == {2}
NoBlocks == {}
=============================================================================
