--------------------------- MODULE MCShareTracking ---------------------------
(* Small instances of ShareTracking. *)
EXTENDS ShareTracking, TLC

CONSTANTS w, l, a, b, c

Mixed == {w, l, a}
Ordinary == {a, b, c}
OneWinning == {w}
OneLow == {l}
Nothing == {}
TwoHeaders == [j \in 1..MaxJobs |-> j \div 2]
SymOrdinary == Permutations(Ordinary)
=============================================================================
