---------------------------- MODULE BlockCustody ----------------------------
(***************************************************************************)
(* What goPool promises about a solved block, with no mention of the       *)
(* database, the emergency spool or the replayer: a block is first held in *)
(* the memory of the process that found it, then on disk, and in the end   *)
(* by bitcoind.  Only a block that is still in memory can be lost; from    *)
(* the moment it is on disk it is held until the node has it.              *)
(***************************************************************************)
CONSTANT Blocks

VARIABLE custody

States == {"none", "memory", "disk", "node", "lost"}

TypeOK == custody \in [Blocks -> States]

Init == custody = [b \in Blocks |-> "none"]

Move(b, from, to) ==
    /\ custody[b] \in from
    /\ custody' = [custody EXCEPT ![b] = to]

\* A share meets the network target (again, when the miner retransmits it).
Solve(b) == Move(b, {"none", "lost"}, "memory")

\* The exact bytes reach the database or the spool directory; a block given up
\* for lost may be found there.
Preserve(b) == Move(b, {"memory", "lost"}, "disk")

\* The node answers submitblock after it has processed the block.
Deliver(b) == Move(b, {"memory", "disk"}, "node")

\* The process gives up, or stops, before the bytes were on disk.
Lose(b) == Move(b, {"memory"}, "lost")

\* The process stops: every block that was only in memory is either lost or,
\* when its spool file had reached the disk, found again on restart.
Stop(B, kept) ==
    /\ \A b \in B : custody[b] \in {"memory", "lost"}
    /\ kept \subseteq B
    /\ custody' = [b \in Blocks |-> IF b \in kept THEN "disk"
                                    ELSE IF b \in B THEN "lost" ELSE custody[b]]

Next ==
    \/ \E b \in Blocks : Solve(b) \/ Preserve(b) \/ Deliver(b) \/ Lose(b)
    \/ \E B \in SUBSET Blocks : \E kept \in SUBSET B : Stop(B, kept)

Spec == Init /\ [][Next]_custody
=============================================================================
