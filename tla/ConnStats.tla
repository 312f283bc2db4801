----------------------------- MODULE ConnStats ------------------------------
(***************************************************************************)
(* Statistics of the connections and of the pool (miner_stats.go,          *)
(* metrics.go).  A judged share goes to its connection's statistics        *)
(* through a bounded queue, or directly when the queue is full, and then   *)
(* to the pool's.  A connection that closes closes its queue, waits until  *)
(* it is drained, and leaves the pool's hashrate.                          *)
(***************************************************************************)
EXTENDS Sequences, FiniteSets, Integers

CONSTANTS
    StatConns,     \* connections
    Judged,        \* accepted shares, as pairs of a connection and a number
    StatsRoom      \* capacity of statsUpdates

ASSUME ConnStatsAssumption ==
    /\ StatsRoom \in Nat \ {0} /\ Judged \subseteq StatConns \X Nat

VARIABLES
    statStep,              \* how far the connection's handler is with a share
    statsQueue, closingStats,   \* statsUpdates; open, draining or closed
    accepted, poolAccepted,        \* stats.Accepted of each connection; accepted of the pool
    hashing,               \* the connections in connHashrates
    bypassed               \* connections that had a share go past their full queue

statVars == <<statStep, statsQueue, closingStats, accepted, poolAccepted, hashing, bypassed>>

StatsTypeOK ==
    /\ statStep \in [Judged -> {"new", "direct", "pool", "done", "dropped"}]
    /\ \A c \in StatConns : Len(statsQueue[c]) <= StatsRoom
    /\ closingStats \in [StatConns -> {"open", "draining", "closed"}]
    /\ accepted \in [StatConns -> Nat] /\ poolAccepted \in Nat
    /\ hashing \subseteq StatConns /\ bypassed \subseteq StatConns

StatsInit ==
    /\ statStep = [s \in Judged |-> "new"] /\ statsQueue = [c \in StatConns |-> <<>>]
    /\ closingStats = [c \in StatConns |-> "open"] /\ accepted = [c \in StatConns |-> 0]
    /\ poolAccepted = 0 /\ hashing = {} /\ bypassed = {}

StatStep(s, step) == statStep' = [statStep EXCEPT ![s] = step]

\* recordShare: a send on the closed queue panics, is recovered, and drops the share.
QueueStats(s) ==
    /\ statStep[s] = "new"
    /\ LET c == s[1] IN
       \/ /\ closingStats[c] # "open" /\ StatStep(s, "dropped") /\ UNCHANGED <<statsQueue, bypassed>>
       \/ /\ closingStats[c] = "open" /\ Len(statsQueue[c]) < StatsRoom
          /\ StatStep(s, "pool") /\ statsQueue' = [statsQueue EXCEPT ![c] = Append(@, s)]
          /\ UNCHANGED bypassed
       \/ /\ closingStats[c] = "open" /\ Len(statsQueue[c]) = StatsRoom
          /\ StatStep(s, "direct") /\ bypassed' = bypassed \cup {c} /\ UNCHANGED statsQueue
    /\ UNCHANGED <<closingStats, accepted, poolAccepted, hashing>>

\* What statsWorker and recordShareSync do; in updateHashrateLocked a share whose window
\* has not run yet leaves the rate alone.
Credit(c, moves) ==
    /\ accepted' = [accepted EXCEPT ![c] = @ + 1]
    /\ hashing' = IF moves THEN hashing \cup {c} ELSE hashing

\* statsWorker goes on until the closed queue is empty.
DrainStats(c, moves) ==
    /\ statsQueue[c] # <<>> /\ statsQueue' = [statsQueue EXCEPT ![c] = Tail(@)]
    /\ Credit(c, moves)
    /\ UNCHANGED <<statStep, closingStats, poolAccepted, bypassed>>
DirectStats(s, moves) ==
    /\ statStep[s] = "direct" /\ StatStep(s, "pool") /\ Credit(s[1], moves)
    /\ UNCHANGED <<statsQueue, closingStats, poolAccepted, bypassed>>

PoolStats(s) ==
    /\ statStep[s] = "pool" /\ StatStep(s, "done") /\ poolAccepted' = poolAccepted + 1
    /\ UNCHANGED <<statsQueue, closingStats, accepted, hashing, bypassed>>

\* cleanupResources
CloseStats(c) ==
    /\ closingStats[c] = "open" /\ closingStats' = [closingStats EXCEPT ![c] = "draining"]
    /\ UNCHANGED <<statStep, statsQueue, accepted, poolAccepted, hashing, bypassed>>
LeavePool(c) ==
    /\ closingStats[c] = "draining" /\ statsQueue[c] = <<>>
    /\ closingStats' = [closingStats EXCEPT ![c] = "closed"] /\ hashing' = hashing \ {c}
    /\ UNCHANGED <<statStep, statsQueue, accepted, poolAccepted, bypassed>>

StatsNext ==
    \/ \E s \in Judged : \/ QueueStats(s) \/ PoolStats(s)
                         \/ \E moves \in BOOLEAN : DirectStats(s, moves)
    \/ \E c \in StatConns : \/ CloseStats(c) \/ LeavePool(c)
                            \/ \E moves \in BOOLEAN : DrainStats(c, moves)

StatsSpec == StatsInit /\ [][StatsNext]_statVars

-----------------------------------------------------------------------------
Taken == {s \in Judged : statStep[s] \notin {"new", "dropped"}}

(* Once the shares are through, each connection has counted every share it  *)
(* took once, whether it has closed meanwhile or not, and the pool those of *)
(* all connections; and a closed connection is out of the pool's hashrate,  *)
(* unless a share of it went past its full queue, which may bring it back   *)
(* for good (recordShare, cleanupResources).                                *)
CountsAgree ==
    /\ (\A s \in Judged : statStep[s] \notin {"direct", "pool"}) =>
          /\ poolAccepted = Cardinality(Taken)
          /\ \A c \in StatConns : statsQueue[c] = <<>> =>
                accepted[c] = Cardinality({s \in Taken : s[1] = c})
    /\ \A c \in hashing \ bypassed : closingStats[c] # "closed"
=============================================================================
