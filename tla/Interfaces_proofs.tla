------------------------- MODULE Interfaces_proofs ----------------------------
(***************************************************************************)
(* Proofs about the components towards miners, node and users: Admission,  *)
(* AcceptLimiter, Retarget, DifficultyChange, StratumV2, BlockHistory,     *)
(* RpcClient, StatusCache, WorkerNotify and PingQueue, each by itself and  *)
(* for every value of its constants.                                       *)
(***************************************************************************)
EXTENDS Admission, AcceptLimiter, Retarget, DifficultyChange, StratumV2,
        BlockHistory, RpcClient, StatusCache, WorkerNotify, PingQueue,
        FiniteSetTheorems, SequenceTheorems, WellFoundedInduction, TLAPS

-----------------------------------------------------------------------------
(* Admission *)

USE AdmissionAssumption

Peekers == {l \in Listeners : loop[l].at = "peek"}

LoopTypes ==
    /\ loop \in [Listeners -> [at : {"accept", "peek", "done"}, conn : Conns \cup {NoConn}]]
    /\ conn \in [Conns -> {"new", "peeking", "v1", "v2", "gone"}]
    /\ registry \subseteq Conns
    /\ main \in {"serving", "stopping", "draining", "drained"}

\* The registry holds the V1 connections; a loop that waits for a first byte has a
\* connection of its own, and every such connection has its loop.
Attended ==
    /\ registry = {c \in Conns : conn[c] = "v1"}
    /\ \A l \in Peekers : loop[l].conn \in Conns /\ conn[loop[l].conn] = "peeking"
    /\ \A l, k \in Peekers : loop[l].conn = loop[k].conn => l = k
    /\ \A c \in Conns : conn[c] = "peeking" => \E l \in Peekers : loop[l].conn = c

\* Each loop past the capacity check may add one miner more.
Counted == MaxConns > 0 =>
    Cardinality(registry) + Cardinality(Peekers) <= MaxConns + Cardinality(Listeners) - 1

\* The stages of a stop.
Staged ==
    /\ main \in {"draining", "drained"} =>
          (\A l \in Listeners : loop[l].at = "done") /\ registry \subseteq closing
    /\ main = "drained" => \A c \in Conns : conn[c] \notin {"v1", "v2"}

AdmissionInv == LoopTypes /\ Attended /\ Counted /\ Staged

LEMMA FewSessions ==
    ASSUME LoopTypes
    PROVE  /\ IsFiniteSet(registry) /\ Cardinality(registry) \in Nat
           /\ IsFiniteSet(Peekers) /\ Cardinality(Peekers) \in Nat
           /\ Cardinality(Peekers) <= Cardinality(Listeners)
           /\ Cardinality(Listeners) \in Nat /\ Cardinality(Listeners) >= 1
<1>1. registry \in SUBSET Conns /\ Peekers \in SUBSET Listeners
  BY DEF LoopTypes, Peekers
<1>2. IsFiniteSet(registry) /\ Cardinality(registry) \in Nat
  BY <1>1, FS_Subset, FS_CardinalityType
<1>3. IsFiniteSet(Peekers) /\ Cardinality(Peekers) <= Cardinality(Listeners)
  BY <1>1, FS_Subset
<1>4. Cardinality(Peekers) \in Nat /\ Cardinality(Listeners) \in Nat
  BY <1>3, FS_CardinalityType
<1>5. Cardinality(Listeners) # 0
  BY FS_EmptySet
<1> QED
  BY <1>2, <1>3, <1>4, <1>5

LEMMA RegistryStarts == AdmissionInit => AdmissionInv
<1> SUFFICES ASSUME AdmissionInit PROVE AdmissionInv
  OBVIOUS
<1>1. LoopTypes
  BY DEF AdmissionInit, LoopTypes
<1>2. Peekers = {} /\ registry = {}
  BY DEF AdmissionInit, Peekers
<1>3. Attended
  BY <1>2 DEF AdmissionInit, Attended
<1>4. Counted
  BY <1>1, <1>2, FewSessions, FS_EmptySet DEF Counted
<1>5. Staged
  BY DEF AdmissionInit, Staged
<1> QED
  BY <1>1, <1>3, <1>4, <1>5 DEF AdmissionInv

\* A connection passes the refusals while there is room, or is closed.
LEMMA AcceptStep ==
    ASSUME AdmissionInv, NEW l \in Listeners, NEW c \in Conns, Accept(l, c)
    PROVE  AdmissionInv'
<1>1. /\ loop[l].at = "accept" /\ main = "serving" /\ conn[c] = "new"
      /\ registry' = registry /\ closing' = closing /\ main' = main
  BY DEF Accept, Stopping
<1>2. \/ /\ loop' = [loop EXCEPT ![l] = [at |-> "accept", conn |-> NoConn]]
         /\ conn' = [conn EXCEPT ![c] = "gone"]
      \/ /\ ~AtCapacity
         /\ loop' = [loop EXCEPT ![l] = [at |-> "peek", conn |-> c]]
         /\ conn' = [conn EXCEPT ![c] = "peeking"]
  BY DEF Accept, GoTo
<1>3. LoopTypes'
  BY <1>1, <1>2 DEF AdmissionInv, LoopTypes, NoConn
<1>4. Staged'
  BY <1>1 DEF Staged
<1>5. CASE /\ loop' = [loop EXCEPT ![l] = [at |-> "accept", conn |-> NoConn]]
           /\ conn' = [conn EXCEPT ![c] = "gone"]
  <2>1. Peekers' = Peekers /\ \A k \in Peekers : loop'[k] = loop[k]
    BY <1>1, <1>5 DEF AdmissionInv, LoopTypes, Peekers
  <2>2. \A k \in Peekers : loop[k].conn # c
    BY <1>1 DEF AdmissionInv, Attended
  <2>3. Attended'
    BY <1>1, <1>5, <2>1, <2>2 DEF AdmissionInv, LoopTypes, Attended
  <2>4. Counted'
    BY <1>1, <2>1 DEF AdmissionInv, Counted
  <2> QED
    BY <1>3, <1>4, <2>3, <2>4 DEF AdmissionInv
<1>6. CASE /\ ~AtCapacity
           /\ loop' = [loop EXCEPT ![l] = [at |-> "peek", conn |-> c]]
           /\ conn' = [conn EXCEPT ![c] = "peeking"]
  <2>1. /\ Peekers' = Peekers \cup {l} /\ l \notin Peekers
        /\ loop'[l].conn = c /\ \A k \in Peekers : loop'[k] = loop[k]
    BY <1>1, <1>6 DEF AdmissionInv, LoopTypes, Peekers
  <2>2. \A k \in Peekers : loop[k].conn # c
    BY <1>1 DEF AdmissionInv, Attended
  <2>3. Attended'
    <3>1. registry' = {d \in Conns : conn'[d] = "v1"}
      BY <1>1, <1>6 DEF AdmissionInv, LoopTypes, Attended
    <3>2. \A k \in Peekers' : loop'[k].conn \in Conns /\ conn'[loop'[k].conn] = "peeking"
      BY <1>6, <2>1, <2>2 DEF AdmissionInv, LoopTypes, Attended
    <3>3. \A j, k \in Peekers' : loop'[j].conn = loop'[k].conn => j = k
      BY <2>1, <2>2 DEF AdmissionInv, Attended
    <3>4. \A d \in Conns : conn'[d] = "peeking" => \E k \in Peekers' : loop'[k].conn = d
      BY <1>6, <2>1 DEF AdmissionInv, LoopTypes, Attended
    <3> QED
      BY <3>1, <3>2, <3>3, <3>4 DEF Attended
  <2>4. Counted'
    <3> SUFFICES ASSUME MaxConns > 0
        PROVE Cardinality(registry) + Cardinality(Peekers')
                 <= MaxConns + Cardinality(Listeners) - 1
      BY <1>1 DEF Counted
    <3>1. Cardinality(registry) <= MaxConns - 1
      BY <1>6, FewSessions DEF AdmissionInv, AtCapacity
    <3>2. Peekers' \in SUBSET Listeners
      BY DEF Peekers
    <3>3. Cardinality(Peekers') <= Cardinality(Listeners) /\ Cardinality(Peekers') \in Nat
      BY <3>2, FS_Subset, FS_CardinalityType
    <3> QED
      BY <3>1, <3>3, FewSessions DEF AdmissionInv
  <2> QED
    BY <1>3, <1>4, <2>3, <2>4 DEF AdmissionInv
<1> QED
  BY <1>2, <1>5, <1>6

\* The first byte registers the connection of the loop, and frees the loop.
LEMMA FirstByteStep ==
    ASSUME AdmissionInv, NEW l \in Listeners, FirstByte(l)
    PROVE  AdmissionInv'
<1> DEFINE c == loop[l].conn
<1>1. PICK kind \in {"v1", "v2", "gone"} :
         /\ conn' = [conn EXCEPT ![c] = kind]
         /\ registry' = IF kind = "v1" THEN registry \cup {c} ELSE registry
  BY DEF FirstByte
<1>2. /\ loop[l].at = "peek" /\ closing' = closing /\ main' = main
      /\ loop' = [loop EXCEPT ![l] = [at |-> "accept", conn |-> NoConn]]
  BY DEF FirstByte, GoTo
<1>3. l \in Peekers /\ c \in Conns /\ conn[c] = "peeking"
  BY <1>2 DEF AdmissionInv, Attended, Peekers
<1>4. LoopTypes'
  BY <1>1, <1>2, <1>3 DEF AdmissionInv, LoopTypes, NoConn
<1>5. Peekers' = Peekers \ {l} /\ \A k \in Peekers' : loop'[k] = loop[k] /\ loop[k].conn # c
  BY <1>2, <1>3 DEF AdmissionInv, LoopTypes, Attended, Peekers
<1>6. Attended'
  <2>1. registry' = {d \in Conns : conn'[d] = "v1"}
    BY <1>1, <1>3 DEF AdmissionInv, LoopTypes, Attended
  <2>2. \A k \in Peekers' : loop'[k].conn \in Conns /\ conn'[loop'[k].conn] = "peeking"
    BY <1>1, <1>3, <1>5 DEF AdmissionInv, LoopTypes, Attended
  <2>3. \A j, k \in Peekers' : loop'[j].conn = loop'[k].conn => j = k
    BY <1>5 DEF AdmissionInv, Attended
  <2>4. \A d \in Conns : conn'[d] = "peeking" => \E k \in Peekers' : loop'[k].conn = d
    BY <1>1, <1>3, <1>5 DEF AdmissionInv, LoopTypes, Attended
  <2> QED
    BY <2>1, <2>2, <2>3, <2>4 DEF Attended
<1>7. Counted'
  <2>1. Cardinality(Peekers') = Cardinality(Peekers) - 1
    BY <1>3, <1>5, FewSessions, FS_RemoveElement DEF AdmissionInv
  <2>2. Cardinality(registry') <= Cardinality(registry) + 1 /\ Cardinality(registry') \in Nat
    <3>1. IsFiniteSet(registry) /\ Cardinality(registry) \in Nat
      BY FewSessions DEF AdmissionInv
    <3> HIDE DEF c
    <3>2. /\ IsFiniteSet(registry \cup {c})
          /\ Cardinality(registry \cup {c})
                = IF c \in registry THEN Cardinality(registry) ELSE Cardinality(registry) + 1
      BY <3>1, FS_AddElement
    <3> QED
      BY <1>1, <3>1, <3>2
  <2> QED
    BY <2>1, <2>2, FewSessions DEF AdmissionInv, Counted
<1>8. Staged'
  BY <1>2 DEF AdmissionInv, Staged
<1> QED
  BY <1>4, <1>6, <1>7, <1>8 DEF AdmissionInv

\* A handler that returns leaves the registry.
LEMMA SessionStep ==
    ASSUME AdmissionInv, NEW c \in Conns, HandlerEnds(c)
    PROVE  AdmissionInv'
<1>1. /\ conn[c] \in {"v1", "v2"} /\ conn' = [conn EXCEPT ![c] = "gone"]
      /\ registry' = registry \ {c} /\ loop' = loop /\ closing' = closing /\ main' = main
  BY DEF HandlerEnds
<1>2. LoopTypes'
  BY <1>1 DEF AdmissionInv, LoopTypes
<1>3. Peekers' = Peekers
  BY <1>1 DEF Peekers
<1>4. Attended'
  BY <1>1, <1>3 DEF AdmissionInv, LoopTypes, Attended
<1>5. Cardinality(registry') <= Cardinality(registry) /\ Cardinality(registry') \in Nat
  <2>1. registry' \in SUBSET registry
    BY <1>1
  <2> QED
    BY <2>1, FewSessions, FS_Subset, FS_CardinalityType DEF AdmissionInv
<1>6. Counted'
  BY <1>3, <1>5, FewSessions DEF AdmissionInv, Counted
<1>7. Staged'
  BY <1>1 DEF AdmissionInv, LoopTypes, Staged
<1> QED
  BY <1>2, <1>4, <1>6, <1>7 DEF AdmissionInv

\* Steps that leave connections and the registry alone: a loop may end, miners may
\* be told to close, and main goes on.
LEMMA StopStep ==
    ASSUME AdmissionInv,
           \/ \E l \in Listeners : AcceptFails(l)
           \/ Safeguard \/ StopRequested \/ CloseMiners \/ Drained
    PROVE  AdmissionInv'
<1>1. conn' = conn /\ registry' = registry
  BY DEF AcceptFails, Safeguard, StopRequested, CloseMiners, Drained
<1>2. \A k \in Listeners : loop'[k] = loop[k] \/ (loop[k].at = "accept" /\ loop'[k].at = "done")
  BY DEF AdmissionInv, LoopTypes, AcceptFails, GoTo, Safeguard, StopRequested, CloseMiners,
         Drained
<1>3. LoopTypes'
  BY DEF AdmissionInv, LoopTypes, AcceptFails, GoTo, NoConn, Safeguard, StopRequested,
         CloseMiners, Drained
<1>4. Peekers' = Peekers /\ \A k \in Peekers : loop'[k] = loop[k]
  BY <1>2 DEF Peekers
<1>5. Attended'
  BY <1>1, <1>4 DEF AdmissionInv, Attended
<1>6. Counted'
  BY <1>1, <1>4 DEF AdmissionInv, Counted
<1>7. Staged'
  BY <1>1, <1>2 DEF AdmissionInv, LoopTypes, Staged, AcceptFails, Safeguard, StopRequested,
                    CloseMiners, Drained
<1> QED
  BY <1>3, <1>5, <1>6, <1>7 DEF AdmissionInv

LEMMA OtherStep ==
    ASSUME AdmissionInv, UNCHANGED <<loop, conn, registry, closing, main>>
    PROVE  AdmissionInv'
  BY DEF AdmissionInv, LoopTypes, Attended, Counted, Staged, Peekers

LEMMA AdmissionStep ==
    ASSUME AdmissionInv, [AdmissionNext]_admissionVars
    PROVE  AdmissionInv'
<1>1. CASE UNCHANGED admissionVars
  BY <1>1, OtherStep DEF admissionVars
<1>2. ASSUME NEW l \in Listeners, GracePasses(l) PROVE AdmissionInv'
  BY <1>2, OtherStep DEF GracePasses
<1>3. ASSUME NEW h \in Hosts, TrackerForgets(h) PROVE AdmissionInv'
  BY <1>3, OtherStep DEF TrackerForgets
<1>4. CASE NodeChanges \/ Ungate
  BY <1>4, OtherStep DEF NodeChanges, Ungate
<1> QED
  BY <1>1, <1>2, <1>3, <1>4, AcceptStep, FirstByteStep, SessionStep, StopStep DEF AdmissionNext

\* The registry holds at most MaxConns miners and one more for each other accept
\* loop; every registered miner has been told to close before main waits for the
\* handlers, and when the submission workers are closed no handler is left and no
\* loop can start one (main.go:866-1032).
THEOREM AdmissionIsSafe == AdmissionSpec => []AdmissionSafe
<1>1. AdmissionInv => AdmissionSafe
  <2> SUFFICES ASSUME AdmissionInv PROVE AdmissionSafe
    OBVIOUS
  <2>1. RegistryBounded
    BY FewSessions DEF AdmissionInv, Counted, RegistryBounded
  <2>2. main = "drained" => /\ registry = {}
                            /\ \A c \in Conns : conn[c] \in {"new", "gone"}
                            /\ \A l \in Listeners : loop[l].at = "done"
    <3> SUFFICES ASSUME main = "drained"
        PROVE /\ registry = {} /\ \A c \in Conns : conn[c] \in {"new", "gone"}
              /\ \A l \in Listeners : loop[l].at = "done"
      OBVIOUS
    <3>1. /\ \A l \in Listeners : loop[l].at = "done"
          /\ \A c \in Conns : conn[c] \notin {"v1", "v2"}
      BY DEF AdmissionInv, Staged
    <3>2. Peekers = {}
      BY <3>1 DEF Peekers
    <3> QED
      BY <3>1, <3>2 DEF AdmissionInv, LoopTypes, Attended
  <2> QED
    BY <2>1, <2>2 DEF AdmissionInv, Staged, AdmissionSafe
<1> QED
  BY RegistryStarts, AdmissionStep, <1>1, PTL DEF AdmissionSpec

\* What the accept loops and the tracker remember besides; a host is banned once it has been past
\* the threshold.
TrackerTypes ==
    /\ since \in [Listeners -> {"none", "recent", "old"}]
    /\ health \in {"ok", "syncing", "stale"} /\ gated \in BOOLEAN
    /\ attempts \in [Hosts -> 0..Threshold + 1] /\ banned \subseteq Hosts
    /\ closing \subseteq Conns
    /\ \A h \in Hosts : attempts[h] > Threshold => h \in banned

LEMMA TrackerKept == AdmissionInv /\ TrackerTypes /\ [AdmissionNext]_admissionVars => TrackerTypes'
<1> SUFFICES ASSUME AdmissionInv, TrackerTypes, [AdmissionNext]_admissionVars PROVE TrackerTypes'
  OBVIOUS
<1>1. ASSUME NEW l \in Listeners, NEW c \in Conns, Accept(l, c) PROVE TrackerTypes'
  <2>1. /\ since' = [since EXCEPT ![l] = IF health = "ok" THEN "none" ELSE SinceNow(l)]
        /\ UNCHANGED trackerVars \/ Attempt(HostOf[c])
        /\ health' = health /\ gated' = gated /\ closing' = closing
    BY <1>1 DEF Accept
  <2>2. HostOf[c] \in Hosts
    BY DEF Hosts
  <2>3. since' \in [Listeners -> {"none", "recent", "old"}]
    BY <2>1 DEF TrackerTypes, SinceNow
  <2>4. /\ attempts' \in [Hosts -> 0..Threshold + 1] /\ banned' \subseteq Hosts
        /\ \A h \in Hosts : attempts'[h] > Threshold => h \in banned'
    <3>1. CASE UNCHANGED trackerVars
      BY <3>1 DEF TrackerTypes, trackerVars
    <3>2. CASE Attempt(HostOf[c])
      BY <2>2, <3>2 DEF TrackerTypes, Attempt
    <3> QED
      BY <2>1, <3>1, <3>2
  <2> QED
    BY <2>1, <2>3, <2>4 DEF TrackerTypes
<1>2. ASSUME NEW l \in Listeners, AcceptFails(l) \/ FirstByte(l) \/ GracePasses(l)
      PROVE  TrackerTypes'
  BY <1>2 DEF AcceptFails, FirstByte, GracePasses, TrackerTypes, trackerVars
<1>3. ASSUME NEW c \in Conns, HandlerEnds(c) PROVE TrackerTypes'
  BY <1>3 DEF HandlerEnds, TrackerTypes, trackerVars
<1>4. ASSUME NEW h \in Hosts, TrackerForgets(h) PROVE TrackerTypes'
  BY <1>4 DEF TrackerForgets, TrackerTypes
<1>5. CASE NodeChanges \/ Ungate \/ StopRequested \/ Drained
  BY <1>5 DEF NodeChanges, Ungate, StopRequested, Drained, TrackerTypes, trackerVars
<1>6. CASE Safeguard \/ CloseMiners
  BY <1>6 DEF Safeguard, CloseMiners, TrackerTypes, trackerVars, AdmissionInv, LoopTypes
<1>7. CASE UNCHANGED admissionVars
  BY <1>7 DEF admissionVars, TrackerTypes
<1> QED
  BY <1>1, <1>2, <1>3, <1>4, <1>5, <1>6, <1>7 DEF AdmissionNext

\* Loops, tracker, gate and registry keep their types (main.go, reconnect_tracker.go).
THEOREM AdmissionTypesCorrect == AdmissionSpec => []AdmissionTypeOK
<1>1. AdmissionInit => TrackerTypes
  <2> SUFFICES ASSUME AdmissionInit PROVE TrackerTypes
    OBVIOUS
  <2>1. 0 \in 0..Threshold + 1 /\ ~(0 > Threshold)
    OBVIOUS
  <2>2. /\ attempts \in [Hosts -> 0..Threshold + 1]
        /\ \A h \in Hosts : attempts[h] > Threshold => h \in banned
    BY <2>1 DEF AdmissionInit
  <2>3. since \in [Listeners -> {"none", "recent", "old"}]
    BY DEF AdmissionInit
  <2> QED
    BY <2>2, <2>3 DEF AdmissionInit, TrackerTypes
<1>2. AdmissionInv /\ TrackerTypes => AdmissionTypeOK
  BY DEF AdmissionInv, LoopTypes, TrackerTypes, AdmissionTypeOK
<1>3. AdmissionInv /\ [AdmissionNext]_admissionVars => AdmissionInv'
  BY AdmissionStep
<1> QED
  BY RegistryStarts, TrackerKept, <1>1, <1>2, <1>3, PTL DEF AdmissionSpec

HIDE AdmissionAssumption

-----------------------------------------------------------------------------
(* AcceptLimiter *)

USE AcceptLimiterAssumption

Sleepers == {w \in Waiters : asleep[w] >= 0}
DueAfter(k) == {w \in Waiters : asleep[w] > k}

LimiterTypes ==
    /\ tokens \in Int /\ unclaimed \in Nat /\ burst \in Nat \ {0} /\ tokens <= burst
    /\ asleep \in [Waiters -> Int] /\ ticks \in Nat /\ passes \in Nat

\* A token that was added is in the bucket, was spent, or is reserved by a sleeper.
Conserved == passes + Cardinality(Sleepers) + tokens + unclaimed <= Burst + ticks

\* The bucket is in debt by no more than its sleepers account for: after k more
\* tokens, at least as many still sleep as tokens are owed.
DebtHasSleepers ==
    \A k \in Nat : -(tokens + unclaimed) <= k + Cardinality(DueAfter(k))

LimiterInv == LimiterTypes /\ Conserved /\ DebtHasSleepers

\* Sleepers are loops, so their number is a natural number.
LEMMA Countable ==
    /\ IsFiniteSet(Sleepers) /\ Cardinality(Sleepers) \in Nat
    /\ \A k \in Nat : IsFiniteSet(DueAfter(k)) /\ Cardinality(DueAfter(k)) \in Nat
<1>1. Sleepers \in SUBSET Waiters /\ \A k \in Nat : DueAfter(k) \in SUBSET Waiters
  BY DEF Sleepers, DueAfter
<1>2. ASSUME NEW T \in SUBSET Waiters PROVE IsFiniteSet(T) /\ Cardinality(T) \in Nat
  BY FS_Subset, FS_CardinalityType
<1> QED
  BY <1>1, <1>2

LEMMA LimiterStarts == LimiterInit => LimiterInv
<1> SUFFICES ASSUME LimiterInit PROVE LimiterInv
  OBVIOUS
<1>1. LimiterTypes
  BY DEF LimiterInit, LimiterTypes, Awake
<1>2. Sleepers = {}
  BY DEF LimiterInit, Sleepers, Awake
<1>3. Conserved
  BY <1>2, FS_EmptySet DEF LimiterInit, Conserved
<1>4. DebtHasSleepers
  BY Countable DEF LimiterInit, DebtHasSleepers
<1> QED
  BY <1>1, <1>3, <1>4 DEF LimiterInv

\* wait that gets a token leaves every sleeper alone.
LEMMA PassesAtOnce ==
    ASSUME LimiterInv, NEW w \in Waiters, TakeToken(w), Refilled >= 1
    PROVE  LimiterInv'
<1>1. /\ asleep' = asleep /\ passes' = passes + 1 /\ ticks' = ticks /\ burst' = burst
      /\ tokens' = Refilled - 1 /\ unclaimed' = 0
  BY DEF TakeToken
<1>2. Refilled \in Int /\ Refilled <= burst /\ Refilled <= tokens + unclaimed
  BY DEF LimiterInv, LimiterTypes, Refilled, Smaller
<1>3. LimiterTypes'
  BY <1>1, <1>2 DEF LimiterInv, LimiterTypes
<1>4. Sleepers' = Sleepers /\ \A k \in Nat : DueAfter(k)' = DueAfter(k)
  BY <1>1 DEF Sleepers, DueAfter
<1>5. Conserved'
  BY <1>1, <1>2, <1>4, Countable DEF LimiterInv, LimiterTypes, Conserved
<1>6. DebtHasSleepers'
  BY <1>1, <1>2, <1>4, Countable DEF LimiterInv, LimiterTypes, DebtHasSleepers
<1> QED
  BY <1>3, <1>5, <1>6 DEF LimiterInv

\* wait that reserves a token adds a sleeper who is due when the debt before it,
\* and its own token, are paid.
LEMMA FallsAsleep ==
    ASSUME LimiterInv, NEW w \in Waiters, TakeToken(w), ~(Refilled >= 1)
    PROVE  LimiterInv'
<1> DEFINE d == 1 - (tokens + unclaimed)
<1>1. /\ asleep' = [asleep EXCEPT ![w] = 1 - Refilled] /\ asleep[w] = -1
      /\ passes' = passes /\ ticks' = ticks /\ burst' = burst
      /\ tokens' = Refilled - 1 /\ unclaimed' = 0
  BY DEF TakeToken, Awake
<1>2. Refilled = tokens + unclaimed /\ d \in Int /\ d >= 1
  BY DEF LimiterInv, LimiterTypes, Refilled, Smaller
<1>3. LimiterTypes'
  BY <1>1, <1>2 DEF LimiterInv, LimiterTypes
<1>4. Sleepers' = Sleepers \cup {w} /\ w \notin Sleepers
  BY <1>1, <1>2 DEF LimiterInv, LimiterTypes, Sleepers
<1>5. Conserved'
  <2>1. Cardinality(Sleepers') = Cardinality(Sleepers) + 1
    BY <1>4, Countable, FS_AddElement
  <2> QED
    BY <2>1, <1>1, <1>2, Countable DEF LimiterInv, LimiterTypes, Conserved
<1>6. ASSUME NEW k \in Nat PROVE -(tokens' + unclaimed') <= k + Cardinality(DueAfter(k)')
  <2>1. -(tokens' + unclaimed') = d
    BY <1>1, <1>2 DEF LimiterInv, LimiterTypes
  <2>2. CASE d > k
    <3>1. DueAfter(k)' = DueAfter(k) \cup {w} /\ w \notin DueAfter(k)
      BY <2>2, <1>1, <1>2 DEF LimiterInv, LimiterTypes, DueAfter
    <3>2. Cardinality(DueAfter(k)') = Cardinality(DueAfter(k)) + 1
      BY <3>1, Countable, FS_AddElement
    <3>3. d - 1 <= k + Cardinality(DueAfter(k))
      BY DEF LimiterInv, LimiterTypes, DebtHasSleepers
    <3> QED
      BY <3>2, <3>3, <2>1, Countable DEF LimiterInv, LimiterTypes
  <2>3. CASE d <= k
    <3>1. DueAfter(k)' \in SUBSET Waiters
      BY DEF DueAfter
    <3>2. Cardinality(DueAfter(k)') \in Nat
      BY <3>1, FS_Subset, FS_CardinalityType
    <3> QED
      BY <3>2, <2>1, <2>3, <1>2
  <2> QED
    BY <2>2, <2>3, <1>2
<1> QED
  BY <1>3, <1>5, <1>6 DEF LimiterInv, DebtHasSleepers

\* A sleeper whose token is due turns its reservation into a pass.
LEMMA WakesUp ==
    ASSUME LimiterInv, NEW w \in Waiters, TokenDue(w)
    PROVE  LimiterInv'
<1>1. /\ asleep' = [asleep EXCEPT ![w] = -1] /\ asleep[w] = 0 /\ passes' = passes + 1
      /\ ticks' = ticks /\ burst' = burst /\ tokens' = tokens /\ unclaimed' = unclaimed
  BY DEF TokenDue, Awake
<1>2. LimiterTypes'
  BY <1>1 DEF LimiterInv, LimiterTypes
<1>3. Sleepers' = Sleepers \ {w} /\ w \in Sleepers
  BY <1>1 DEF LimiterInv, LimiterTypes, Sleepers
<1>4. Cardinality(Sleepers') = Cardinality(Sleepers) - 1
  BY <1>3, Countable, FS_RemoveElement
<1>5. Conserved'
  BY <1>1, <1>4, Countable DEF LimiterInv, LimiterTypes, Conserved
<1>6. \A k \in Nat : DueAfter(k)' = DueAfter(k)
  BY <1>1 DEF LimiterInv, LimiterTypes, DueAfter
<1>7. DebtHasSleepers'
  BY <1>1, <1>6 DEF LimiterInv, DebtHasSleepers
<1> QED
  BY <1>2, <1>5, <1>7 DEF LimiterInv

\* A cancelled sleeper gives its token back, unless the bucket is full.
LEMMA GivesBack ==
    ASSUME LimiterInv, NEW w \in Waiters, CancelWait(w)
    PROVE  LimiterInv'
<1>1. /\ asleep' = [asleep EXCEPT ![w] = -1] /\ asleep[w] >= 0 /\ passes' = passes
      /\ ticks' = ticks /\ burst' = burst /\ unclaimed' = 0
      /\ tokens' = Smaller(burst, Refilled + 1)
  BY DEF CancelWait, Awake
<1>2. /\ tokens' \in Int /\ tokens' <= burst /\ tokens' <= tokens + unclaimed + 1
      /\ tokens' >= 1 \/ tokens' = tokens + unclaimed + 1
  BY <1>1 DEF LimiterInv, LimiterTypes, Refilled, Smaller
<1>3. LimiterTypes'
  BY <1>1, <1>2 DEF LimiterInv, LimiterTypes
<1>4. Sleepers' = Sleepers \ {w} /\ w \in Sleepers
  BY <1>1 DEF LimiterInv, LimiterTypes, Sleepers
<1>5. Cardinality(Sleepers') = Cardinality(Sleepers) - 1
  BY <1>4, Countable, FS_RemoveElement
<1>6. Conserved'
  BY <1>1, <1>2, <1>5, Countable DEF LimiterInv, LimiterTypes, Conserved
<1>7. ASSUME NEW k \in Nat PROVE -(tokens' + unclaimed') <= k + Cardinality(DueAfter(k)')
  <2>1. DueAfter(k)' = DueAfter(k) \ {w}
    BY <1>1 DEF LimiterInv, LimiterTypes, DueAfter
  <2>2. /\ Cardinality(DueAfter(k)') \in Nat
        /\ Cardinality(DueAfter(k)') >= Cardinality(DueAfter(k)) - 1
    <3> DEFINE D == DueAfter(k)
    <3>1. IsFiniteSet(D) /\ Cardinality(D) \in Nat
      BY Countable
    <3> HIDE DEF D
    <3>2. /\ IsFiniteSet(D \ {w})
          /\ Cardinality(D \ {w}) = IF w \in D THEN Cardinality(D) - 1 ELSE Cardinality(D)
      BY <3>1, FS_RemoveElement
    <3>3. Cardinality(D \ {w}) \in Nat
      BY <3>2, FS_CardinalityType
    <3>4. Cardinality(D \ {w}) >= Cardinality(D) - 1
      BY <3>1, <3>2
    <3> QED
      BY <2>1, <3>3, <3>4 DEF D
  <2>3. -(tokens + unclaimed) <= k + Cardinality(DueAfter(k))
    BY DEF LimiterInv, DebtHasSleepers
  <2> QED
    BY <2>2, <2>3, <1>1, <1>2, Countable DEF LimiterInv, LimiterTypes
<1> QED
  BY <1>3, <1>6, <1>7 DEF LimiterInv, DebtHasSleepers

\* Time pays one token of the debt, and brings every sleeper one tick closer.
LEMMA TimePays ==
    ASSUME LimiterInv, TokenTick
    PROVE  LimiterInv'
<1>1. /\ asleep' = [w \in Waiters |-> IF asleep[w] > 0 THEN asleep[w] - 1 ELSE asleep[w]]
      /\ ticks' = ticks + 1 /\ unclaimed' = unclaimed + 1
      /\ passes' = passes /\ burst' = burst /\ tokens' = tokens
  BY DEF TokenTick
<1>2. LimiterTypes'
  BY <1>1 DEF LimiterInv, LimiterTypes
<1>3. Sleepers' = Sleepers
  BY <1>1 DEF LimiterInv, LimiterTypes, Sleepers
<1>4. Conserved'
  BY <1>1, <1>3, Countable DEF LimiterInv, LimiterTypes, Conserved
<1>5. ASSUME NEW k \in Nat PROVE -(tokens' + unclaimed') <= k + Cardinality(DueAfter(k)')
  <2>1. DueAfter(k)' = DueAfter(k + 1)
    BY <1>1 DEF LimiterInv, LimiterTypes, DueAfter
  <2>2. k + 1 \in Nat
    OBVIOUS
  <2>3. -(tokens + unclaimed) <= k + 1 + Cardinality(DueAfter(k + 1))
    BY <2>2 DEF LimiterInv, DebtHasSleepers
  <2>4. Cardinality(DueAfter(k + 1)) \in Nat
    BY <2>2, Countable
  <2> QED
    BY <2>1, <2>3, <2>4, <1>1 DEF LimiterInv, LimiterTypes
<1> QED
  BY <1>2, <1>4, <1>5 DEF LimiterInv, DebtHasSleepers

\* updateRate can only take tokens away, and never leaves a debt that was not there.
LEMMA RateChanges ==
    ASSUME LimiterInv, SteadyState
    PROVE  LimiterInv'
<1>1. /\ asleep' = asleep /\ ticks' = ticks /\ unclaimed' = unclaimed /\ passes' = passes
      /\ burst' = SteadyBurst /\ tokens' = Smaller(tokens, SteadyBurst)
  BY DEF SteadyState
<1>2. /\ tokens' \in Int /\ tokens' <= tokens /\ tokens' <= SteadyBurst
      /\ tokens' >= 1 \/ tokens' = tokens
  BY <1>1 DEF LimiterInv, LimiterTypes, Smaller
<1>3. LimiterTypes'
  BY <1>1, <1>2 DEF LimiterInv, LimiterTypes
<1>4. Sleepers' = Sleepers /\ \A k \in Nat : DueAfter(k)' = DueAfter(k)
  BY <1>1 DEF Sleepers, DueAfter
<1>5. Conserved'
  BY <1>1, <1>2, <1>4, Countable DEF LimiterInv, LimiterTypes, Conserved
<1>6. DebtHasSleepers'
  BY <1>1, <1>2, <1>4, Countable DEF LimiterInv, LimiterTypes, DebtHasSleepers
<1> QED
  BY <1>3, <1>5, <1>6 DEF LimiterInv

LEMMA LimiterKept == LimiterInv /\ [LimiterNext]_limiterVars => LimiterInv'
<1> SUFFICES ASSUME LimiterInv, [LimiterNext]_limiterVars PROVE LimiterInv'
  OBVIOUS
<1>1. CASE UNCHANGED limiterVars
  BY <1>1 DEF limiterVars, LimiterInv, LimiterTypes, Conserved, DebtHasSleepers, Sleepers,
              DueAfter
<1>2. ASSUME NEW w \in Waiters, TakeToken(w) \/ TokenDue(w) \/ CancelWait(w)
      PROVE  LimiterInv'
  BY <1>2, PassesAtOnce, FallsAsleep, WakesUp, GivesBack
<1> QED
  BY <1>1, <1>2, TimePays, RateChanges DEF LimiterNext

\* No more connections are accepted than the burst and the time allow, although
\* loops reserve tokens that are not there, wait without the lock, and give
\* reservations back (accept_rate_limiter.go:56-128).
THEOREM AcceptsAreBounded == LimiterSpec => []AcceptsBounded
<1>1. LimiterInv => AcceptsBounded
  <2> SUFFICES ASSUME LimiterInv PROVE AcceptsBounded
    OBVIOUS
  <2>1. -(tokens + unclaimed) <= 0 + Cardinality(DueAfter(0))
    BY DEF LimiterInv, DebtHasSleepers
  <2>2. Cardinality(DueAfter(0)) <= Cardinality(Sleepers)
    <3>1. DueAfter(0) \in SUBSET Sleepers
      BY DEF LimiterInv, LimiterTypes, DueAfter, Sleepers
    <3> QED
      BY <3>1, Countable, FS_Subset
  <2>3. Cardinality(DueAfter(0)) \in Nat
    BY Countable
  <2> QED
    BY <2>1, <2>2, <2>3, Countable DEF LimiterInv, LimiterTypes, Conserved, AcceptsBounded
<1> QED
  BY LimiterStarts, LimiterKept, <1>1, PTL DEF LimiterSpec

\* The bucket owes each loop one token at most.
LimiterRange ==
    /\ tokens >= -Cardinality(Waiters) /\ tokens <= Burst /\ burst \in {Burst, SteadyBurst}
    /\ unclaimed <= ticks /\ ticks <= MaxTicks /\ undone \subseteq Waiters
    /\ \A w \in Waiters : asleep[w] \in Awake..Cardinality(Waiters)

LEMMA FewWaiters ==
    /\ IsFiniteSet(Waiters) /\ Cardinality(Waiters) \in Nat
    /\ Cardinality(DueAfter(0)) \in Nat /\ Cardinality(DueAfter(0)) <= Cardinality(Waiters)
    /\ \A w \in Waiters : w \notin DueAfter(0) => Cardinality(DueAfter(0)) < Cardinality(Waiters)
<1>1. PICK D, n : D = DueAfter(0) /\ n = Cardinality(Waiters)
  OBVIOUS
<1>2. D \in SUBSET Waiters
  BY <1>1 DEF DueAfter
<1>3. IsFiniteSet(Waiters) /\ n \in Nat
  BY <1>1, FS_CardinalityType
<1>4. IsFiniteSet(D) /\ Cardinality(D) \in Nat /\ Cardinality(D) <= n
  BY <1>1, <1>2, <1>3, FS_Subset, FS_CardinalityType
<1>5. ASSUME NEW w \in Waiters, w \notin D PROVE Cardinality(D) < n
  <2>1. D \cup {w} \in SUBSET Waiters
    BY <1>2
  <2>2. Cardinality(D \cup {w}) <= n
    BY <1>1, <1>3, <2>1, FS_Subset
  <2>3. Cardinality(D \cup {w}) = Cardinality(D) + 1
    BY <1>4, <1>5, FS_AddElement
  <2> QED
    BY <1>3, <1>4, <2>2, <2>3
<1> QED
  BY <1>1, <1>3, <1>4, <1>5

LEMMA OwesFew ==
    ASSUME LimiterInv
    PROVE  /\ -(tokens + unclaimed) <= Cardinality(DueAfter(0))
           /\ Refilled \in Int /\ Refilled <= burst
           /\ ~(Refilled >= 1) => Refilled = tokens + unclaimed
<1>1. -(tokens + unclaimed) <= 0 + Cardinality(DueAfter(0))
  BY DEF LimiterInv, DebtHasSleepers
<1>2. Cardinality(DueAfter(0)) \in Nat
  BY FewWaiters
<1> QED
  BY <1>1, <1>2 DEF LimiterInv, LimiterTypes, Refilled, Smaller

LEMMA LimiterRangeKept == LimiterInv /\ LimiterRange /\ [LimiterNext]_limiterVars => LimiterRange'
<1> SUFFICES ASSUME LimiterInv, LimiterRange, [LimiterNext]_limiterVars PROVE LimiterRange'
  OBVIOUS
<1>0. PICK n, d : n = Cardinality(Waiters) /\ d = Cardinality(DueAfter(0))
  OBVIOUS
<1>1. n \in Nat /\ d \in Nat /\ d <= n /\ \A w \in Waiters : w \notin DueAfter(0) => d < n
  BY <1>0, FewWaiters
<1>2. /\ tokens \in Int /\ unclaimed \in Nat /\ burst \in {Burst, SteadyBurst}
      /\ asleep \in [Waiters -> Int] /\ ticks \in Nat /\ -(tokens + unclaimed) <= d
      /\ Refilled \in Int /\ Refilled <= burst /\ (~(Refilled >= 1) => Refilled = tokens + unclaimed)
      /\ Burst \in Nat /\ SteadyBurst \in Nat /\ SteadyBurst <= Burst /\ SteadyBurst >= 1
  BY <1>0, OwesFew DEF LimiterInv, LimiterTypes, LimiterRange
<1>3. /\ tokens >= -n /\ tokens <= Burst /\ unclaimed <= ticks /\ ticks <= MaxTicks
      /\ undone \subseteq Waiters /\ \A w \in Waiters : asleep[w] \in -1..n
  BY <1>0 DEF LimiterRange, Awake
<1>4. ASSUME NEW w \in Waiters, TakeToken(w) PROVE LimiterRange'
  <2>1. /\ asleep[w] = -1 /\ tokens' = Refilled - 1 /\ unclaimed' = 0
        /\ burst' = burst /\ ticks' = ticks /\ undone' = undone
        /\ \/ Refilled >= 1 /\ asleep' = asleep
           \/ ~(Refilled >= 1) /\ asleep' = [asleep EXCEPT ![w] = 1 - Refilled]
    BY <1>4 DEF TakeToken, Awake
  <2>2. w \notin DueAfter(0)
    BY <2>1 DEF DueAfter
  <2>3. Refilled - 1 >= -n /\ (~(Refilled >= 1) => 1 - Refilled \in -1..n)
    BY <1>1, <1>2, <2>2
  <2>4. \A v \in Waiters : asleep'[v] \in -1..n
    BY <1>2, <1>3, <2>1, <2>3
  <2> QED
    BY <1>0, <1>1, <1>2, <1>3, <2>1, <2>3, <2>4 DEF LimiterRange, Awake
<1>5. ASSUME NEW w \in Waiters, TokenDue(w) PROVE LimiterRange'
  <2>1. \A v \in Waiters : asleep'[v] \in -1..n
    BY <1>1, <1>2, <1>3, <1>5 DEF TokenDue, Awake
  <2> QED
    BY <1>0, <1>2, <1>3, <1>5, <2>1 DEF TokenDue, LimiterRange, Awake
<1>6. ASSUME NEW w \in Waiters, CancelWait(w) PROVE LimiterRange'
  <2>1. \A v \in Waiters : asleep'[v] \in -1..n
    BY <1>1, <1>2, <1>3, <1>6 DEF CancelWait, Awake
  <2>2. tokens' >= -n /\ tokens' <= Burst
    BY <1>1, <1>2, <1>3, <1>6 DEF CancelWait, Smaller
  <2> QED
    BY <1>0, <1>2, <1>3, <1>6, <2>1, <2>2 DEF CancelWait, LimiterRange, Awake
<1>7. CASE TokenTick
  <2>1. \A v \in Waiters : asleep'[v] \in -1..n
    BY <1>1, <1>2, <1>3, <1>7 DEF TokenTick
  <2>2. ticks' <= MaxTicks
    BY <1>2, <1>7 DEF TokenTick
  <2> QED
    BY <1>0, <1>2, <1>3, <1>7, <2>1, <2>2 DEF TokenTick, LimiterRange, Awake
<1>8. CASE SteadyState
  <2>1. tokens' >= -n /\ tokens' <= Burst
    BY <1>1, <1>2, <1>3, <1>8 DEF SteadyState, Smaller
  <2> QED
    BY <1>0, <1>2, <1>3, <1>8, <2>1 DEF SteadyState, LimiterRange, Awake
<1>9. CASE UNCHANGED limiterVars
  BY <1>9 DEF limiterVars, LimiterRange
<1> QED
  BY <1>4, <1>5, <1>6, <1>7, <1>8, <1>9 DEF LimiterNext

\* The bucket's variables keep their types; the debt never exceeds one token for each accept loop
\* (accept_rate_limiter.go).
THEOREM LimiterTypesCorrect == LimiterSpec => []LimiterTypeOK
<1>1. LimiterInit => LimiterRange
  <2>1. Cardinality(Waiters) \in Nat
    BY FewWaiters
  <2> QED
    BY <2>1 DEF LimiterInit, LimiterRange, Awake
<1>2. LimiterInv /\ LimiterRange => LimiterTypeOK
  <2> SUFFICES ASSUME LimiterInv, LimiterRange PROVE LimiterTypeOK
    OBVIOUS
  <2>0. PICK n : n = Cardinality(Waiters) /\ n \in Nat
    BY FewWaiters
  <2>1. tokens \in -n..Burst /\ unclaimed \in 0..MaxTicks /\ ticks \in 0..MaxTicks
    BY <2>0 DEF LimiterInv, LimiterTypes, LimiterRange
  <2>2. asleep \in [Waiters -> Awake..n]
    BY <2>0 DEF LimiterInv, LimiterTypes, LimiterRange
  <2> QED
    BY <2>0, <2>1, <2>2 DEF LimiterInv, LimiterTypes, LimiterRange, LimiterTypeOK
<1> QED
  BY LimiterStarts, LimiterKept, LimiterRangeKept, <1>1, <1>2, PTL DEF LimiterSpec

HIDE AcceptLimiterAssumption

-----------------------------------------------------------------------------
(* Retarget *)

USE RetargetAssumption

\* A connected miner has a difficulty within the bounds, and evaluations come only to it.
RetargetInv ==
    /\ RetargetTypeOK
    /\ nominal # 0 => diff \in MinDiff..MaxDiff
    /\ due > 0 => nominal # 0

\* The clamp and the rounding keep within the bounds, whatever they are given.
LEMMA ClampBounds ==
    ASSUME NEW units \in Int
    PROVE  Clamp(units) \in MinDiff..MaxDiff
<1>1. PICK u : u = Least(MaxDiff * Unit, Most(MinDiff * Unit, units))
  OBVIOUS
<1>2. u \in Int /\ u >= MinDiff * 6000 /\ u <= MaxDiff * 6000
  BY <1>1 DEF Least, Most, Unit
<1>3. (u + 3000) \div 6000 \in MinDiff..MaxDiff
  BY <1>2
<1>4. Clamp(units) = (u + Unit \div 2) \div Unit /\ Unit = 6000 /\ 6000 \div 2 = 3000
  BY <1>1 DEF Clamp, Unit
<1> QED
  BY <1>3, <1>4

LEMMA AimTyped ==
    ASSUME RetargetInv, NEW slow \in BOOLEAN
    PROVE  Aimed(slow) \in Int
<1>1. nominal \in Nat
  BY DEF RetargetInv, RetargetTypeOK
<1>2. Aim \in Int
  <2>1. (nominal * Unit) \div TargetShares \in Int /\ MaxDiff * Unit \in Int /\ MinDiff * Unit \in Int
    BY <1>1 DEF Unit, TargetShares
  <2> QED
    BY <2>1 DEF Aim, Least, Most
<1>3. (Aim * 93) \div 100 \in Int /\ MinDiff * Unit \in Int
  BY <1>2 DEF Unit
<1> QED
  BY <1>2, <1>3 DEF Aimed, Most

\* However far the target is, the next difficulty is within the bounds.
LEMMA StepBounds ==
    ASSUME RetargetInv, NEW aim \in Int
    PROVE  Stepped(aim) \in MinDiff..MaxDiff
<1>1. PICK cur \in Nat : cur = diff * Unit
  BY DEF RetargetInv, RetargetTypeOK, Unit
<1>2. PICK cap : cap = Cap(aim)
  OBVIOUS
<1>3. cap \in {2, 4, 8}
  BY <1>2 DEF Cap, Step
<1>4. PICK damped : damped = cur + (7 * (aim - cur)) \div 10
  OBVIOUS
<1>5. damped \in Int /\ cur * cap \in Int /\ cur \div cap \in Int
  BY <1>1, <1>3, <1>4
<1>6. PICK capped : capped = Least(cur * cap, Most(cur \div cap, damped))
  OBVIOUS
<1>7. capped \in Int
  BY <1>5, <1>6 DEF Least, Most
<1>8. (nominal * Unit) \div MinShares \in Int /\ (nominal * Unit) \div MaxShares \in Int
  BY DEF RetargetInv, RetargetTypeOK, Unit, MinShares, MaxShares
<1>9. PICK units : units = Least((nominal * Unit) \div MinShares,
                                 Most((nominal * Unit) \div MaxShares, capped))
  OBVIOUS
<1>10. units \in Int
  BY <1>7, <1>8, <1>9 DEF Least, Most
<1>11. Stepped(aim) = Clamp(units)
  BY <1>1, <1>2, <1>4, <1>6, <1>9 DEF Stepped
<1> QED
  BY <1>10, <1>11, ClampBounds

LEMMA MovedTyped ==
    ASSUME RetargetInv, NEW new \in MinDiff..MaxDiff, Moved(new), warm' \in BOOLEAN,
           nominal' = nominal, disturbances' \in 0..MaxDisturbances, quiet' \in 0..SettleTicks
    PROVE  RetargetInv'
<1>1. /\ before' = diff /\ diff' = new /\ pending' = NotPending
      /\ cooldown' \in {CooldownTicks, cooldown} /\ adjustments' = Least(adjustments + 1, 4)
      /\ age' = 0 /\ windowAge' = 0 /\ due' = 0
  BY DEF Moved
<1>2. adjustments' \in 0..4 /\ cooldown' \in 0..CooldownTicks
  BY <1>1 DEF RetargetInv, RetargetTypeOK, Least, CooldownTicks
<1>3. pending' \in [dir : {-1, 0, 1}, count : 0..MostRequired]
  BY <1>1 DEF NotPending, MostRequired
<1>4. new \in 0..MaxDiff /\ 0 \in 0..MaxAge /\ 0 \in 0..WindowTicks /\ 0 \in 0..MostRequired
  BY DEF MaxAge, WindowTicks, MostRequired
<1>5. RetargetTypeOK'
  BY <1>1, <1>2, <1>3, <1>4 DEF RetargetInv, RetargetTypeOK
<1> QED
  BY <1>1, <1>5 DEF RetargetInv

LEMMA UnmovedTyped ==
    ASSUME RetargetInv, due > 0, NEW agreement \in {pending, NotPending, Agreeing},
           Unmoved(agreement), warm' = TRUE, UNCHANGED <<nominal, disturbances, quiet>>
    PROVE  RetargetInv'
<1>1. Agreeing \in [dir : {-1, 0, 1}, count : 0..MostRequired]
  <2>1. Direction \in {-1, 0, 1}
    BY DEF Direction
  <2>2. pending.count \in 0..MostRequired
    BY DEF RetargetInv, RetargetTypeOK
  <2>3. Least(pending.count + 1, MostRequired) \in 0..MostRequired /\ 1 \in 0..MostRequired
    BY <2>2 DEF Least, MostRequired
  <2> QED
    BY <2>1, <2>3 DEF Agreeing
<1>2. NotPending \in [dir : {-1, 0, 1}, count : 0..MostRequired]
  BY DEF NotPending, MostRequired
<1>3. /\ pending' \in [dir : {-1, 0, 1}, count : 0..MostRequired] /\ due' = due - 1
      /\ UNCHANGED <<diff, before, adjustments, cooldown, age, windowAge>>
  BY <1>1, <1>2 DEF Unmoved, RetargetInv, RetargetTypeOK
<1>4. due' \in 0..MostRequired
  BY <1>3 DEF RetargetInv, RetargetTypeOK, MostRequired
<1> QED
  BY <1>3, <1>4 DEF RetargetInv, RetargetTypeOK

LEMMA RetargetStep == RetargetInv /\ [RetargetNext]_retargetVars => RetargetInv'
<1> SUFFICES ASSUME RetargetInv, [RetargetNext]_retargetVars PROVE RetargetInv'
  OBVIOUS
<1>1. CASE MinerConnects
  BY <1>1 DEF MinerConnects, RetargetInv, RetargetTypeOK
<1>2. CASE Evaluate
  <2>1. due > 0 /\ warm' = TRUE /\ UNCHANGED <<nominal, disturbances, quiet>>
    BY <1>2 DEF Evaluate
  <2>2. /\ disturbances' \in 0..MaxDisturbances /\ quiet' \in 0..SettleTicks
    BY <2>1 DEF RetargetInv, RetargetTypeOK
  <2>3. \/ \E agreement \in {pending, NotPending, Agreeing} : Unmoved(agreement)
        \/ \E slow \in BOOLEAN : Moved(Stepped(Aimed(slow)))
    BY <1>2 DEF Evaluate
  <2>4. ASSUME NEW slow \in BOOLEAN, Moved(Stepped(Aimed(slow))) PROVE RetargetInv'
    <3>1. Stepped(Aimed(slow)) \in MinDiff..MaxDiff
      BY AimTyped, StepBounds
    <3> QED
      BY <2>1, <2>2, <2>4, <3>1, MovedTyped
  <2> QED
    BY <2>1, <2>3, <2>4, UnmovedTyped
<1>3. CASE TimePasses
  <2>1. /\ nominal > 0 /\ due = 0
        /\ quiet' = Least(quiet + 1, SettleTicks)
        /\ age' = Least(age + 1, MaxAge)
        /\ windowAge' = (IF windowAge = WindowTicks THEN 0 ELSE windowAge + 1)
        /\ cooldown' = Most(0, cooldown - 1)
        /\ \/ due' = 0
           \/ due' = Least(MostRequired, Most(1, (nominal * TickSeconds) \div (60 * diff)))
        /\ UNCHANGED <<nominal, diff, before, adjustments, pending, warm, disturbances>>
    BY <1>3 DEF TimePasses
  <2>2. quiet' \in 0..SettleTicks /\ age' \in 0..MaxAge
    BY <2>1 DEF RetargetInv, RetargetTypeOK, Least, MaxAge
  <2>3. windowAge' \in 0..WindowTicks /\ cooldown' \in 0..CooldownTicks
    BY <2>1 DEF RetargetInv, RetargetTypeOK, Most, WindowTicks, CooldownTicks
  <2>4. due' \in 0..MostRequired
    <3>1. diff \in Nat /\ diff > 0 /\ nominal \in Nat
      BY <2>1 DEF RetargetInv, RetargetTypeOK
    <3>2. PICK n, d : n = nominal * TickSeconds /\ d = 60 * diff
      OBVIOUS
    <3>3. n \in Int /\ d \in Nat /\ d > 0
      BY <3>1, <3>2 DEF TickSeconds
    <3>4. n \div d \in Int
      BY <3>3
    <3> QED
      BY <2>1, <3>2, <3>4 DEF Least, Most, MostRequired
  <2> QED
    BY <2>1, <2>2, <2>3, <2>4 DEF RetargetInv, RetargetTypeOK
<1>4. CASE StepBack
  <2>1. PICK percent \in {50, 65, 75} :
           Moved(Clamp(Least(before * Unit, (diff * Unit * percent) \div 100)))
    BY <1>4 DEF StepBack
  <2>2. PICK units : units = Least(before * Unit, (diff * Unit * percent) \div 100)
    OBVIOUS
  <2>3. PICK n, b : n = diff * Unit /\ b = before * Unit
    OBVIOUS
  <2>4. n \in Int /\ b \in Int
    BY <2>3 DEF RetargetInv, RetargetTypeOK, Unit
  <2>5. (n * percent) \div 100 \in Int
    BY <2>4
  <2>6. units \in Int
    BY <2>2, <2>3, <2>4, <2>5 DEF Least
  <2>7. /\ disturbances' \in 0..MaxDisturbances /\ quiet' \in 0..SettleTicks
        /\ nominal' = nominal /\ warm' \in BOOLEAN
    BY <1>4 DEF StepBack, RetargetInv, RetargetTypeOK
  <2> QED
    BY <2>1, <2>2, <2>6, <2>7, ClampBounds, MovedTyped
<1>5. CASE HashrateChanges
  <2>1. /\ nominal > 0 /\ nominal' \in Nominals /\ due' = 0 /\ quiet' = 0
        /\ disturbances < MaxDisturbances /\ disturbances' = disturbances + 1
        /\ UNCHANGED <<diff, before, adjustments, pending, cooldown, warm, age, windowAge>>
    BY <1>5 DEF HashrateChanges
  <2>2. disturbances' \in 0..MaxDisturbances /\ quiet' \in 0..SettleTicks /\ due' \in 0..MostRequired
    BY <2>1 DEF RetargetInv, RetargetTypeOK, MostRequired
  <2> QED
    BY <2>1, <2>2 DEF RetargetInv, RetargetTypeOK
<1>6. CASE UNCHANGED retargetVars
  BY <1>6 DEF retargetVars, RetargetInv, RetargetTypeOK
<1> QED
  BY <1>1, <1>2, <1>3, <1>4, <1>5, <1>6 DEF RetargetNext

\* Whatever the hashrate does, a difficulty of a retarget or of a step back is within the bounds,
\* and the controller's counters keep their types (suggestedVardiff, clampDifficulty,
\* roundAssignedDifficulty).
THEOREM RetargetTypesCorrect == RetargetSpec => []RetargetTypeOK
<1>1. RetargetInit => RetargetInv
  <2> SUFFICES ASSUME RetargetInit PROVE RetargetInv
    OBVIOUS
  <2>1. pending \in [dir : {-1, 0, 1}, count : 0..MostRequired]
    BY DEF RetargetInit, NotPending, MostRequired
  <2>2. /\ 0 \in 0..MaxDiff /\ 0 \in 0..4 /\ 0 \in 0..CooldownTicks /\ 0 \in 0..MaxAge
        /\ 0 \in 0..WindowTicks /\ 0 \in 0..MostRequired /\ 0 \in 0..MaxDisturbances
        /\ 0 \in 0..SettleTicks /\ ~(0 > 0)
    BY DEF CooldownTicks, MaxAge, WindowTicks, MostRequired
  <2>3. RetargetTypeOK
    BY <2>1, <2>2 DEF RetargetInit, RetargetTypeOK
  <2> QED
    BY <2>2, <2>3 DEF RetargetInit, RetargetInv
<1>2. RetargetInv => RetargetTypeOK
  BY DEF RetargetInv
<1> QED
  BY <1>1, <1>2, RetargetStep, PTL DEF RetargetSpec

HIDE RetargetAssumption

-----------------------------------------------------------------------------
(* DifficultyChange *)

USE DifficultyAssumption

Messages == [kind : {"difficulty"}, value : Diffs] \cup [kind : {"job"}, value : 0..MaxWork]

\* d is the difficulty the miner is told by the first i messages it has not read.
TellsBy(i, d) ==
    \/ d = told /\ \A m \in 1..i : socket[m].kind # "difficulty"
    \/ \E k \in 1..i : /\ socket[k] = [kind |-> "difficulty", value |-> d]
                       /\ \A m \in (k + 1)..i : socket[m].kind # "difficulty"
Tells(d) == TellsBy(Len(socket), d)

\* Once everything has arrived, the miner works on j, having been told d before it.
Announced(j, d) ==
    \/ work = [job |-> j, diff |-> d] /\ \A m \in 1..Len(socket) : socket[m].kind # "job"
    \/ \E k \in 1..Len(socket) : /\ socket[k] = [kind |-> "job", value |-> j]
                                 /\ \A m \in (k + 1)..Len(socket) : socket[m].kind # "job"
                                 /\ TellsBy(k, d)

WithLock == {"locked", "lockedStored", "lockedSending", "tracked", "write"}

DifficultyTypes ==
    /\ DifficultyTypeOK
    /\ socket \in Seq(Messages) /\ Len(assigned) <= MaxWork
    /\ \A t \in Tellers : stage[t] \in Changing => wanted[t] \in Diffs

NotifyLocked == \A t \in Tellers : stage[t] \in WithLock <=> notifyHolder = t

\* While no two changes overlapped, the stream tells the difficulty, but for a change
\* on its way.
ToldInOrder ==
    /\ \A t, u \in Tellers : stage[t] \in Changing /\ stage[u] \in Changing => t = u
    /\ \A t \in Tellers : stage[t] \in {"sending", "lockedSending"} => wanted[t] = difficulty
    /\ (\A t \in Tellers : stage[t] \notin Changing) => Tells(difficulty)

\* What is announced is judged by what was told before, or a change follows that has to
\* announce work itself.
Follows(t) == stage[t] \in Changing \cup {"announce"}
JudgedAsTold ==
    /\ \A t \in Tellers :
          stage[t] = "write" =>
              \/ \E u \in Tellers : Follows(u)
              \/ assigned[Len(assigned)] = difficulty
    /\ unannounced = 0 /\ (\A t \in Tellers : stage[t] = "idle") =>
          \E j \in 0..MaxWork, d \in 0..TopDiff :
              Announced(j, d) /\ (j > 0 => d = assigned[j])

DifficultyInv ==
    /\ DifficultyTypes /\ NotifyLocked
    /\ ~overlapped => ToldInOrder /\ JudgedAsTold

LEMMA DifficultyStarts == DifficultyInit => DifficultyInv
<1> SUFFICES ASSUME DifficultyInit PROVE DifficultyInv
  OBVIOUS
<1>1. /\ socket = <<>> /\ assigned = <<>> /\ Len(socket) = 0 /\ Len(assigned) = 0
      /\ socket \in Seq(Messages) /\ assigned \in Seq(Diffs)
  BY EmptySeq DEF DifficultyInit
<1>2. DifficultyTypes
  <2>1. 1 \in Diffs /\ 0 \in 0..TopDiff /\ Nothing \in [job : 0..MaxWork, diff : 0..TopDiff]
    BY DEF Diffs, Nothing
  <2>2. DifficultyTypeOK
    <3>1. /\ stage \in [Tellers -> Changing \cup {"idle", "announce", "locked", "tracked", "write"}]
          /\ wanted \in [Tellers -> 0..TopDiff]
      BY <2>1 DEF DifficultyInit
    <3>2. grace \in BOOLEAN /\ overlapped \in BOOLEAN /\ unannounced \in Nat
      BY DEF DifficultyInit
    <3>3. /\ difficulty \in Diffs /\ previous \in 0..TopDiff /\ told \in Diffs
          /\ template \in Nat /\ lastTemplate \in 0..template
          /\ work \in [job : 0..MaxWork, diff : 0..TopDiff] /\ changes \in 0..MaxChanges
      BY <2>1 DEF DifficultyInit
    <3>4. notifyHolder \in Tellers \cup {"nobody"} /\ assigned \in Seq(Diffs)
      BY <1>1 DEF DifficultyInit
    <3> QED
      BY <3>1, <3>2, <3>3, <3>4 DEF DifficultyTypeOK
  <2> QED
    BY <1>1, <2>2 DEF DifficultyInit, DifficultyTypes, Changing
<1>3. NotifyLocked
  BY DEF DifficultyInit, NotifyLocked, WithLock
<1>4. Tells(difficulty) /\ Announced(0, 0)
  BY <1>1 DEF DifficultyInit, Tells, TellsBy, Announced, Nothing
<1>5. ToldInOrder
  BY <1>4 DEF DifficultyInit, ToldInOrder, Changing
<1>6. JudgedAsTold
  BY <1>4 DEF DifficultyInit, JudgedAsTold
<1> QED
  BY <1>2, <1>3, <1>5, <1>6 DEF DifficultyInv

-----------------------------------------------------------------------------
(* The stream of messages *)

LEMMA SameStream ==
    ASSUME socket' = socket, told' = told, work' = work
    PROVE  /\ \A d : Tells(d) => Tells(d)'
           /\ \A j, d : Announced(j, d) => Announced(j, d)'
BY DEF Tells, TellsBy, Announced

LEMMA EarlierTells ==
    ASSUME DifficultyTypes, NEW m \in Messages, socket' = Append(socket, m), told' = told,
           NEW i \in 0..Len(socket), NEW d, TellsBy(i, d)
    PROVE  TellsBy(i, d)'
<1>1. /\ Len(socket) \in Nat /\ Len(socket') = Len(socket) + 1
      /\ \A k \in 1..Len(socket) : socket'[k] = socket[k]
  BY LenProperties, AppendProperties DEF DifficultyTypes
<1>2. \A k \in 1..i : socket'[k] = socket[k]
  BY <1>1
<1> QED
  BY <1>2 DEF TellsBy

LEMMA DifficultySent ==
    ASSUME DifficultyTypes, NEW v \in Diffs, told' = told, work' = work,
           socket' = Append(socket, [kind |-> "difficulty", value |-> v])
    PROVE  /\ socket' \in Seq(Messages) /\ Tells(v)'
           /\ \A j, d : Announced(j, d) => Announced(j, d)'
<1> DEFINE m == [kind |-> "difficulty", value |-> v]
<1>0. m \in Messages /\ m.kind # "job"
  BY DEF Messages
<1>1. /\ Len(socket) \in Nat /\ Len(socket') = Len(socket) + 1 /\ socket' \in Seq(Messages)
      /\ \A k \in 1..Len(socket) : socket'[k] = socket[k]
      /\ socket'[Len(socket) + 1] = m
  BY <1>0, LenProperties, AppendProperties DEF DifficultyTypes
<1>2. Tells(v)'
  <2>1. Len(socket) + 1 \in 1..Len(socket') /\ (Len(socket) + 1 + 1)..Len(socket') = {}
    BY <1>1
  <2> QED
    BY <2>1, <1>1 DEF Tells, TellsBy
<1>3. ASSUME NEW j, NEW d, Announced(j, d) PROVE Announced(j, d)'
  <2>1. CASE work = [job |-> j, diff |-> d] /\ \A i \in 1..Len(socket) : socket[i].kind # "job"
    <3>1. \A i \in 1..Len(socket') : i \in 1..Len(socket) \/ i = Len(socket) + 1
      BY <1>1
    <3>2. \A i \in 1..Len(socket') : socket'[i].kind # "job"
      BY <3>1, <1>0, <1>1, <2>1
    <3> QED
      BY <3>2, <2>1 DEF Announced
  <2>2. CASE \E k \in 1..Len(socket) : /\ socket[k] = [kind |-> "job", value |-> j]
                                       /\ \A i \in (k + 1)..Len(socket) : socket[i].kind # "job"
                                       /\ TellsBy(k, d)
    <3>1. PICK k \in 1..Len(socket) : /\ socket[k] = [kind |-> "job", value |-> j]
                                      /\ \A i \in (k + 1)..Len(socket) : socket[i].kind # "job"
                                      /\ TellsBy(k, d)
      BY <2>2
    <3>2. k \in 1..Len(socket') /\ socket'[k] = [kind |-> "job", value |-> j]
      BY <3>1, <1>1
    <3>3. \A i \in (k + 1)..Len(socket') :
            (i \in (k + 1)..Len(socket) /\ i \in 1..Len(socket)) \/ i = Len(socket) + 1
      BY <1>1
    <3>4. \A i \in (k + 1)..Len(socket') : socket'[i].kind # "job"
      BY <3>3, <3>1, <1>0, <1>1
    <3>5. TellsBy(k, d)'
      <4>1. k \in 0..Len(socket)
        BY <1>1
      <4> QED
        BY <4>1, <3>1, <1>0, EarlierTells
    <3> QED
      BY <3>2, <3>4, <3>5 DEF Announced
  <2> QED
    BY <1>3, <2>1, <2>2 DEF Announced
<1> QED
  BY <1>1, <1>2, <1>3

LEMMA JobSent ==
    ASSUME DifficultyTypes, NEW v \in 0..MaxWork, told' = told, work' = work,
           socket' = Append(socket, [kind |-> "job", value |-> v])
    PROVE  /\ socket' \in Seq(Messages)
           /\ \A d : Tells(d) => Tells(d)' /\ Announced(v, d)'
<1> DEFINE m == [kind |-> "job", value |-> v]
<1>0. m \in Messages /\ m.kind # "difficulty"
  BY DEF Messages
<1>a. PICK n \in Nat : n = Len(socket)
  BY LenProperties DEF DifficultyTypes
<1>1. /\ Len(socket) \in Nat /\ Len(socket') = Len(socket) + 1 /\ socket' \in Seq(Messages)
      /\ \A k \in 1..Len(socket) : socket'[k] = socket[k]
      /\ socket'[Len(socket) + 1] = m
  BY <1>0, LenProperties, AppendProperties DEF DifficultyTypes
<1>2. ASSUME NEW d, Tells(d) PROVE Tells(d)' /\ Announced(v, d)'
  <2>1. TellsBy(n, d)'
    BY <1>2, <1>0, <1>1, <1>a, EarlierTells DEF Tells
  <2>2. \A k, i : i \in (k + 1)..Len(socket') /\ k \in 1..n =>
          i \in (k + 1)..n \/ i = n + 1
    BY <1>1, <1>a
  <2>3. TellsBy(n + 1, d)'
    <3>1. CASE d = told' /\ \A i \in 1..n : socket'[i].kind # "difficulty"
      <4>1. \A i \in 1..(n + 1) : i \in 1..n \/ i = n + 1
        BY <1>1, <1>a
      <4> QED
        BY <3>1, <4>1, <1>0, <1>1, <1>a DEF TellsBy
    <3>2. CASE \E k \in 1..n :
                 /\ socket'[k] = [kind |-> "difficulty", value |-> d]
                 /\ \A i \in (k + 1)..n : socket'[i].kind # "difficulty"
      <4>1. PICK k \in 1..n :
                 /\ socket'[k] = [kind |-> "difficulty", value |-> d]
                 /\ \A i \in (k + 1)..n : socket'[i].kind # "difficulty"
        BY <3>2
      <4>2. \A i \in (k + 1)..(n + 1) : socket'[i].kind # "difficulty"
        BY <4>1, <2>2, <1>0, <1>1, <1>a
      <4>3. k \in 1..(n + 1)
        BY <1>1, <1>a
      <4> QED
        BY <4>1, <4>2, <4>3 DEF TellsBy
    <3> QED
      BY <2>1, <3>1, <3>2, <1>1, <1>a DEF TellsBy
  <2>4. Announced(v, d)'
    <3>1. /\ n + 1 \in 1..Len(socket') /\ (n + 1 + 1)..Len(socket') = {}
          /\ socket'[n + 1] = [kind |-> "job", value |-> v]
      BY <1>1, <1>a
    <3> QED
      BY <3>1, <2>3 DEF Announced
  <2> QED
    BY <2>3, <2>4, <1>1, <1>a DEF Tells
<1> QED
  BY <1>1, <1>2

LEMMA MessageRead ==
    ASSUME DifficultyTypes, MinerReads
    PROVE  /\ socket' \in Seq(Messages)
           /\ told' \in Diffs /\ work' \in [job : 0..MaxWork, diff : 0..TopDiff]
           /\ \A d : Tells(d) => Tells(d)'
           /\ \A j, d : Announced(j, d) => Announced(j, d)'
<1>a. PICK n \in Nat : n = Len(socket)
  BY LenProperties DEF DifficultyTypes
<1>1. /\ n > 0 /\ n - 1 \in Nat /\ Len(socket') = n - 1 /\ socket' \in Seq(Messages)
      /\ \A k \in 1..(n - 1) : socket'[k] = socket[k + 1]
  <2>1. socket \in Seq(Messages) /\ socket # <<>> /\ socket' = Tail(socket)
    BY DEF MinerReads, DifficultyTypes
  <2>2. /\ Len(socket) > 0 /\ Tail(socket) \in Seq(Messages) /\ Len(Tail(socket)) = Len(socket) - 1
        /\ \A k \in 1..Len(Tail(socket)) : Tail(socket)[k] = socket[k + 1]
    BY <2>1, HeadTailProperties, EmptySeq
  <2> QED
    BY <2>1, <2>2, <1>a
<1>2. 1 \in 1..n /\ socket[1] \in Messages /\ Head(socket) = socket[1]
  BY <1>a, <1>1, ElementOfSeq DEF DifficultyTypes
<1>3. \/ /\ socket[1].kind = "difficulty" /\ told' = socket[1].value /\ work' = work
         /\ socket[1].value \in Diffs
         /\ socket[1] = [kind |-> "difficulty", value |-> socket[1].value]
      \/ /\ socket[1].kind = "job" /\ work' = [job |-> socket[1].value, diff |-> told] /\ told' = told
         /\ socket[1].value \in 0..MaxWork
         /\ socket[1] = [kind |-> "job", value |-> socket[1].value]
  BY <1>2 DEF MinerReads, Messages
<1>4. told' \in Diffs /\ work' \in [job : 0..MaxWork, diff : 0..TopDiff]
  BY <1>3 DEF DifficultyTypes, DifficultyTypeOK, Diffs
<1>5. ASSUME NEW i \in 0..(n - 1), NEW d, TellsBy(i + 1, d) PROVE TellsBy(i, d)'
  <2>1. \A m \in 1..i : socket'[m] = socket[m + 1] /\ m + 1 \in 1..(i + 1)
    BY <1>1
  <2>2. CASE d = told /\ \A m \in 1..(i + 1) : socket[m].kind # "difficulty"
    <3>1. 1 \in 1..(i + 1)
      BY <1>1
    <3> QED
      BY <3>1, <2>1, <2>2, <1>3 DEF TellsBy
  <2>3. ASSUME NEW k \in 1..(i + 1), socket[k] = [kind |-> "difficulty", value |-> d],
               \A m \in (k + 1)..(i + 1) : socket[m].kind # "difficulty"
        PROVE  TellsBy(i, d)'
    <3>1. CASE k = 1
      <4>1. told' = d
        BY <1>3, <2>3, <3>1
      <4>2. \A m \in 1..i : m + 1 \in (k + 1)..(i + 1)
        BY <3>1
      <4> QED
        BY <4>1, <4>2, <2>1, <2>3 DEF TellsBy
    <3>2. CASE k # 1
      <4>1. k - 1 \in 1..i /\ (k - 1) + 1 = k
        BY <3>2
      <4>2. socket'[k - 1] = [kind |-> "difficulty", value |-> d]
        BY <4>1, <2>1, <2>3
      <4>3. \A m \in ((k - 1) + 1)..i : m \in 1..i /\ m + 1 \in (k + 1)..(i + 1)
        BY <4>1
      <4>4. \A m \in ((k - 1) + 1)..i : socket'[m].kind # "difficulty"
        BY <4>3, <2>1, <2>3
      <4> QED
        BY <4>1, <4>2, <4>4 DEF TellsBy
    <3> QED
      BY <3>1, <3>2
  <2> QED
    BY <1>5, <2>2, <2>3 DEF TellsBy
<1>6. ASSUME NEW d, Tells(d) PROVE Tells(d)'
  <2>1. n - 1 \in 0..(n - 1) /\ (n - 1) + 1 = n
    BY <1>1
  <2>2. TellsBy(n - 1, d)'
    BY <2>1, <1>6, <1>5, <1>a DEF Tells
  <2> QED
    BY <2>2, <1>1 DEF Tells
<1>7. ASSUME NEW j, NEW d, Announced(j, d) PROVE Announced(j, d)'
  <2>1. \A m \in 1..(n - 1) : m + 1 \in 1..n /\ socket'[m] = socket[m + 1]
    BY <1>1
  <2>2. CASE work = [job |-> j, diff |-> d] /\ \A m \in 1..n : socket[m].kind # "job"
    <3>1. \A m \in 1..(n - 1) : socket'[m].kind # "job"
      BY <2>1, <2>2
    <3>2. work' = work
      BY <1>2, <1>3, <2>2
    <3> QED
      BY <3>1, <3>2, <2>2, <1>1 DEF Announced
  <2>3. ASSUME NEW k \in 1..n, socket[k] = [kind |-> "job", value |-> j],
               \A m \in (k + 1)..n : socket[m].kind # "job", TellsBy(k, d)
        PROVE  Announced(j, d)'
    <3>1. CASE k = 1
      <4>1. d = told
        <5>1. \A i \in 1..k : i = 1
          BY <3>1
        <5> QED
          BY <5>1, <2>3, <3>1, <1>3 DEF TellsBy
      <4>2. work' = [job |-> j, diff |-> d]
        BY <4>1, <1>3, <2>3, <3>1
      <4>3. \A m \in 1..(n - 1) : m + 1 \in (k + 1)..n
        BY <3>1
      <4>4. \A m \in 1..(n - 1) : socket'[m].kind # "job"
        BY <4>3, <2>1, <2>3
      <4> QED
        BY <4>2, <4>4, <1>1 DEF Announced
    <3>2. CASE k # 1
      <4>1. k - 1 \in 1..(n - 1) /\ k - 1 \in 0..(n - 1) /\ (k - 1) + 1 = k
        BY <3>2, <1>1
      <4>2. socket'[k - 1] = [kind |-> "job", value |-> j] /\ TellsBy(k - 1, d)'
        BY <4>1, <2>1, <2>3, <1>5
      <4>3. \A m \in ((k - 1) + 1)..(n - 1) : m \in 1..(n - 1) /\ m + 1 \in (k + 1)..n
        BY <4>1
      <4>4. \A m \in ((k - 1) + 1)..(n - 1) : socket'[m].kind # "job"
        BY <4>3, <2>1, <2>3
      <4> QED
        BY <4>1, <4>2, <4>4, <1>1 DEF Announced
    <3> QED
      BY <3>1, <3>2
  <2> QED
    BY <1>7, <1>a, <2>2, <2>3 DEF Announced
<1> QED
  BY <1>1, <1>4, <1>6, <1>7

-----------------------------------------------------------------------------
(* The steps *)

Stages == Changing \cup {"idle", "announce", "locked", "tracked", "write"}

LEMMA DifficultyTypesKept ==
    ASSUME DifficultyTypes, NEW t \in Tellers, NEW x \in Stages,
           stage' = [stage EXCEPT ![t] = x],
           wanted' \in [Tellers -> 0..TopDiff],
           \A u \in Tellers : u # t => wanted'[u] = wanted[u],
           x \in Changing => wanted'[t] \in Diffs,
           difficulty' \in Diffs, previous' \in 0..TopDiff, grace' \in BOOLEAN,
           notifyHolder' \in Tellers \cup {"nobody"},
           assigned' \in Seq(Diffs), Len(assigned') <= MaxWork,
           template' = template, lastTemplate' \in 0..template,
           told' = told, work' = work, socket' \in Seq(Messages),
           changes' \in 0..MaxChanges, overlapped' \in BOOLEAN, unannounced' \in Nat
    PROVE  DifficultyTypes'
<1>1. stage \in [Tellers -> Stages]
  BY DEF DifficultyTypes, DifficultyTypeOK, Stages
<1>2. stage' \in [Tellers -> Stages] /\ \A u \in Tellers : stage'[u] = IF u = t THEN x ELSE stage[u]
  BY <1>1
<1>3. \A u \in Tellers : stage'[u] \in Changing => wanted'[u] \in Diffs
  BY <1>2 DEF DifficultyTypes
<1>4. told \in Diffs /\ work \in [job : 0..MaxWork, diff : 0..TopDiff] /\ template \in Nat
  BY DEF DifficultyTypes, DifficultyTypeOK
<1>5. DifficultyTypeOK'
  <2>1. stage' \in [Tellers -> Changing \cup {"idle", "announce", "locked", "tracked", "write"}]
    BY <1>2 DEF Stages
  <2> QED
    BY <2>1, <1>4 DEF DifficultyTypeOK
<1> QED
  BY <1>3, <1>5 DEF DifficultyTypes

\* The lock goes with the stages, whatever happens to the rest.
LEMMA NotifyLockedKept ==
    ASSUME DifficultyTypes, NotifyLocked, NEW t \in Tellers, NEW x \in Stages,
           stage' = [stage EXCEPT ![t] = x],
           \/ notifyHolder' = notifyHolder /\ (stage[t] \in WithLock <=> x \in WithLock)
           \/ notifyHolder = "nobody" /\ notifyHolder' = t /\ x \in WithLock
           \/ notifyHolder = t /\ notifyHolder' = "nobody" /\ x \notin WithLock
    PROVE  NotifyLocked'
<1>1. \A u \in Tellers : stage'[u] = IF u = t THEN x ELSE stage[u]
  BY DEF DifficultyTypes, DifficultyTypeOK
<1> QED
  BY <1>1 DEF NotifyLocked

LEMMA StoreStep ==
    ASSUME DifficultyInv, NEW t \in Tellers, NEW d \in Diffs, NEW next \in {"stored", "lockedStored"},
           stage[t] = IF next = "stored" THEN "idle" ELSE "locked",
           Store(t, d, next)
    PROVE  DifficultyInv'
<1>0. DifficultyTypes /\ NotifyLocked
  BY DEF DifficultyInv
<1>1. /\ stage \in [Tellers -> Stages] /\ wanted \in [Tellers -> 0..TopDiff]
      /\ difficulty \in Diffs /\ changes \in 0..MaxChanges
      /\ next \in Changing /\ next \in Stages
      /\ stage' = [stage EXCEPT ![t] = next] /\ wanted' = [wanted EXCEPT ![t] = d]
      /\ difficulty' = difficulty /\ previous' = difficulty /\ changes' = changes + 1
      /\ changes < MaxChanges
  BY <1>0 DEF DifficultyTypes, DifficultyTypeOK, Stages, Changing, Store
<1>2. DifficultyTypes'
  <2>1. /\ wanted' \in [Tellers -> 0..TopDiff] /\ wanted'[t] \in Diffs
        /\ \A u \in Tellers : u # t => wanted'[u] = wanted[u]
        /\ previous' \in 0..TopDiff /\ difficulty' \in Diffs /\ changes' \in 0..MaxChanges
    BY <1>1 DEF Diffs
  <2>2. overlapped' \in BOOLEAN
    BY DEF Store
  <2>3. /\ grace' \in BOOLEAN /\ notifyHolder' \in Tellers \cup {"nobody"}
        /\ assigned' \in Seq(Diffs) /\ Len(assigned') <= MaxWork
        /\ template' = template /\ lastTemplate' \in 0..template
        /\ told' = told /\ work' = work /\ socket' \in Seq(Messages)
        /\ unannounced' \in Nat
    BY <1>0 DEF DifficultyTypes, DifficultyTypeOK, Store
  <2> QED
    BY <2>1, <2>2, <2>3, <1>0, <1>1, DifficultyTypesKept
<1>3. NotifyLocked'
  <2>1. notifyHolder' = notifyHolder /\ (stage[t] \in WithLock <=> next \in WithLock)
    BY DEF Store, WithLock
  <2> QED
    BY <2>1, <1>0, <1>1, NotifyLockedKept
<1>4. ASSUME ~overlapped' PROVE ToldInOrder' /\ JudgedAsTold'
  <2>1. ~overlapped /\ \A u \in Tellers : stage[u] \notin Changing
    BY <1>4 DEF Store
  <2>2. \A u \in Tellers : stage'[u] = IF u = t THEN next ELSE stage[u]
    BY <1>1
  <2>3. ToldInOrder'
    BY <2>1, <2>2, <1>1 DEF ToldInOrder, Changing
  <2>4. stage'[t] \in Changing /\ stage'[t] # "idle"
    BY <2>2, <1>1
  <2>5. JudgedAsTold'
    BY <2>4 DEF JudgedAsTold, Follows
  <2> QED
    BY <2>3, <2>5
<1> QED
  BY <1>2, <1>3, <1>4 DEF DifficultyInv

LEMMA ApplyDifficultyStep ==
    ASSUME DifficultyInv, NEW t \in Tellers, ApplyDifficulty(t)
    PROVE  DifficultyInv'
<1>0. DifficultyTypes /\ NotifyLocked
  BY DEF DifficultyInv
<1> DEFINE next == IF stage[t] = "stored" THEN "sending" ELSE "lockedSending"
<1>1. /\ stage \in [Tellers -> Stages] /\ wanted[t] \in Diffs
      /\ stage[t] \in {"stored", "lockedStored"} /\ stage[t] \in Changing
      /\ stage' = [stage EXCEPT ![t] = next] /\ wanted' = wanted /\ difficulty' = wanted[t]
      /\ overlapped' = overlapped /\ notifyHolder' = notifyHolder
  BY <1>0 DEF DifficultyTypes, DifficultyTypeOK, Stages, Changing, ApplyDifficulty
<1>2. /\ next \in {"sending", "lockedSending"} /\ next \in Changing /\ next \in Stages
      /\ (stage[t] \in WithLock <=> next \in WithLock)
  BY <1>1 DEF Changing, Stages, WithLock
<1> HIDE DEF next
<1>3. DifficultyTypes'
  <2>1. grace' \in BOOLEAN
    BY DEF ApplyDifficulty
  <2>2. /\ wanted' \in [Tellers -> 0..TopDiff] /\ wanted'[t] \in Diffs
        /\ \A u \in Tellers : u # t => wanted'[u] = wanted[u]
        /\ difficulty' \in Diffs /\ previous' \in 0..TopDiff
        /\ notifyHolder' \in Tellers \cup {"nobody"}
        /\ assigned' \in Seq(Diffs) /\ Len(assigned') <= MaxWork
        /\ template' = template /\ lastTemplate' \in 0..template
        /\ told' = told /\ work' = work /\ socket' \in Seq(Messages)
        /\ changes' \in 0..MaxChanges /\ overlapped' \in BOOLEAN /\ unannounced' \in Nat
    BY <1>0, <1>1 DEF DifficultyTypes, DifficultyTypeOK, ApplyDifficulty
  <2> QED
    BY <2>1, <2>2, <1>0, <1>1, <1>2, DifficultyTypesKept
<1>4. NotifyLocked'
  BY <1>0, <1>1, <1>2, NotifyLockedKept
<1>5. ASSUME ~overlapped' PROVE ToldInOrder' /\ JudgedAsTold'
  <2>1. ToldInOrder
    BY <1>1, <1>5 DEF DifficultyInv
  <2>2. \A u \in Tellers : stage'[u] = IF u = t THEN next ELSE stage[u]
    BY <1>1
  <2>3. \A u \in Tellers : stage'[u] \in Changing => u = t
    BY <2>1, <2>2, <1>1 DEF ToldInOrder
  <2>4. stage'[t] \in Changing /\ stage'[t] # "idle" /\ wanted'[t] = difficulty'
    BY <2>2, <1>1, <1>2
  <2>5. ToldInOrder'
    <3>1. \A u \in Tellers : stage'[u] \in {"sending", "lockedSending"} => stage'[u] \in Changing
      BY DEF Changing
    <3> QED
      BY <3>1, <2>3, <2>4 DEF ToldInOrder
  <2>6. JudgedAsTold'
    BY <2>4 DEF JudgedAsTold, Follows
  <2> QED
    BY <2>5, <2>6
<1> QED
  BY <1>3, <1>4, <1>5 DEF DifficultyInv

LEMMA TellDifficultyStep ==
    ASSUME DifficultyInv, NEW t \in Tellers, TellDifficulty(t)
    PROVE  DifficultyInv'
<1>0. DifficultyTypes /\ NotifyLocked
  BY DEF DifficultyInv
<1> DEFINE next == IF stage[t] = "sending" THEN "announce" ELSE "tracked"
<1>1. /\ stage \in [Tellers -> Stages] /\ wanted[t] \in Diffs
      /\ stage[t] \in {"sending", "lockedSending"} /\ stage[t] \in Changing
      /\ stage' = [stage EXCEPT ![t] = next] /\ wanted' = wanted /\ difficulty' = difficulty
      /\ overlapped' = overlapped /\ notifyHolder' = notifyHolder
      /\ assigned' = assigned /\ unannounced' = unannounced
      /\ told' = told /\ work' = work
      /\ socket' = Append(socket, [kind |-> "difficulty", value |-> wanted[t]])
  BY <1>0 DEF DifficultyTypes, DifficultyTypeOK, Stages, Changing, TellDifficulty
<1>2. /\ next \in {"announce", "tracked"} /\ next \notin Changing /\ next \in Stages
      /\ (stage[t] \in WithLock <=> next \in WithLock)
      /\ stage[t] \notin WithLock => next = "announce"
  BY <1>1 DEF Changing, Stages, WithLock
<1> HIDE DEF next
<1>3. socket' \in Seq(Messages) /\ Tells(wanted[t])'
  <2>1. PICK v \in Diffs : v = wanted[t]
    BY <1>1
  <2>2. socket' \in Seq(Messages) /\ Tells(v)'
    BY <2>1, <1>0, <1>1, DifficultySent
  <2> QED
    BY <2>1, <2>2, <1>1
<1>4. DifficultyTypes'
  <2>2. /\ wanted' \in [Tellers -> 0..TopDiff] /\ wanted'[t] \in Diffs
        /\ \A u \in Tellers : u # t => wanted'[u] = wanted[u]
        /\ difficulty' \in Diffs /\ previous' \in 0..TopDiff /\ grace' \in BOOLEAN
        /\ notifyHolder' \in Tellers \cup {"nobody"}
        /\ assigned' \in Seq(Diffs) /\ Len(assigned') <= MaxWork
        /\ template' = template /\ lastTemplate' \in 0..template
        /\ changes' \in 0..MaxChanges /\ overlapped' \in BOOLEAN /\ unannounced' \in Nat
    BY <1>0, <1>1 DEF DifficultyTypes, DifficultyTypeOK, TellDifficulty
  <2> QED
    BY <2>2, <1>0, <1>1, <1>2, <1>3, DifficultyTypesKept
<1>5. NotifyLocked'
  BY <1>0, <1>1, <1>2, NotifyLockedKept
<1>6. ASSUME ~overlapped' PROVE ToldInOrder' /\ JudgedAsTold'
  <2>1. ToldInOrder /\ JudgedAsTold
    BY <1>1, <1>6 DEF DifficultyInv
  <2>2. \A u \in Tellers : stage'[u] = IF u = t THEN next ELSE stage[u]
    BY <1>1
  <2>3. \A u \in Tellers : stage'[u] \notin Changing
    BY <2>1, <2>2, <1>1, <1>2 DEF ToldInOrder
  <2>4. wanted[t] = difficulty'
    BY <2>1, <1>1 DEF ToldInOrder
  <2>5. ToldInOrder'
    <3>1. \A u \in Tellers : stage'[u] \in {"sending", "lockedSending"} => stage'[u] \in Changing
      BY DEF Changing
    <3>2. Tells(difficulty)'
      BY <2>4, <1>3, <1>1
    <3> QED
      BY <3>1, <3>2, <2>3 DEF ToldInOrder
  <2>6. ASSUME NEW u \in Tellers, stage'[u] = "write" PROVE \E v \in Tellers : Follows(v)'
    <3>1. u # t /\ stage[u] = "write" /\ stage[u] \in WithLock
      BY <2>6, <2>2, <1>2 DEF WithLock
    <3>2. stage[t] \notin WithLock
      BY <3>1, <1>0 DEF NotifyLocked
    <3>3. stage'[t] = "announce"
      BY <3>2, <2>2, <1>2
    <3> QED
      BY <3>3 DEF Follows
  <2>7. stage'[t] # "idle"
    BY <2>2, <1>2
  <2>8. JudgedAsTold'
    BY <2>6, <2>7 DEF JudgedAsTold
  <2> QED
    BY <2>5, <2>8
<1> QED
  BY <1>4, <1>5, <1>6 DEF DifficultyInv

\* The steps within a goroutine's announcement that send nothing
LEMMA QuietStep ==
    ASSUME DifficultyInv, NEW t \in Tellers,
           \/ BeginNotify(t) \/ DropOlder(t) \/ KeepDifficulty(t) \/ Track(t)
    PROVE  DifficultyInv'
<1>0. DifficultyTypes /\ NotifyLocked
  BY DEF DifficultyInv
<1>1. PICK next \in {"locked", "idle", "tracked", "write"} :
        /\ stage' = [stage EXCEPT ![t] = next]
        /\ next = "locked" => stage[t] \in {"announce", "idle"} /\ notifyHolder = "nobody"
                              /\ notifyHolder' = t
        /\ next = "idle" => stage[t] = "locked" /\ notifyHolder' = "nobody"
                              /\ unannounced' = unannounced + 1
        /\ next = "tracked" => stage[t] = "locked" /\ notifyHolder' = notifyHolder
        /\ next = "write" =>
              /\ stage[t] = "tracked" /\ notifyHolder' = notifyHolder
              /\ Len(assigned) < MaxWork /\ assigned' = Append(assigned, difficulty)
              /\ lastTemplate' = template
        /\ next # "write" => assigned' = assigned /\ lastTemplate' = lastTemplate
        /\ next # "idle" => unannounced' = unannounced
  BY DEF BeginNotify, DropOlder, KeepDifficulty, Track
<1>2. /\ stage \in [Tellers -> Stages] /\ next \in Stages /\ next \notin Changing
      /\ stage[t] \notin Changing
      /\ difficulty' = difficulty /\ overlapped' = overlapped /\ wanted' = wanted
      /\ socket' = socket /\ told' = told /\ work' = work
  BY <1>0, <1>1 DEF DifficultyTypes, DifficultyTypeOK, Stages, Changing,
     BeginNotify, DropOlder, KeepDifficulty, Track
<1>3. /\ Len(assigned) \in Nat /\ assigned' \in Seq(Diffs) /\ Len(assigned') <= MaxWork
      /\ next = "write" => assigned'[Len(assigned')] = difficulty
  <2>1. assigned \in Seq(Diffs) /\ difficulty \in Diffs /\ Len(assigned) <= MaxWork
    BY <1>0 DEF DifficultyTypes, DifficultyTypeOK
  <2>2. Len(assigned) \in Nat
    BY <2>1, LenProperties
  <2>3. CASE next = "write"
    <3>1. /\ Append(assigned, difficulty) \in Seq(Diffs)
          /\ Len(Append(assigned, difficulty)) = Len(assigned) + 1
          /\ Append(assigned, difficulty)[Len(assigned) + 1] = difficulty
      BY <2>1, AppendProperties
    <3> QED
      BY <3>1, <2>2, <2>3, <1>1
  <2> QED
    BY <2>1, <2>2, <2>3, <1>1
<1>4. DifficultyTypes'
  <2>1. unannounced' \in Nat
    BY <1>0 DEF DifficultyTypes, DifficultyTypeOK, BeginNotify, DropOlder, KeepDifficulty, Track
  <2>2. grace' \in BOOLEAN /\ overlapped' \in BOOLEAN /\ previous' \in 0..TopDiff
        /\ template' = template /\ changes' \in 0..MaxChanges
    BY <1>0 DEF DifficultyTypes, DifficultyTypeOK, BeginNotify, DropOlder, KeepDifficulty, Track
  <2>3. template \in Nat /\ lastTemplate \in 0..template /\ lastTemplate' \in {lastTemplate, template}
    BY <1>0, <1>1 DEF DifficultyTypes, DifficultyTypeOK
  <2>4. lastTemplate' \in 0..template
    BY <2>3
  <2>5. notifyHolder' \in Tellers \cup {"nobody"}
    BY <1>0, <1>1 DEF DifficultyTypes, DifficultyTypeOK
  <2>6. /\ wanted' \in [Tellers -> 0..TopDiff] /\ difficulty' \in Diffs /\ socket' \in Seq(Messages)
        /\ \A u \in Tellers : u # t => wanted'[u] = wanted[u]
    BY <1>0, <1>2 DEF DifficultyTypes, DifficultyTypeOK
  <2> QED
    BY <2>1, <2>2, <2>4, <2>5, <2>6, <1>0, <1>1, <1>2, <1>3, DifficultyTypesKept
<1>5. NotifyLocked'
  <2>1. \/ notifyHolder' = notifyHolder /\ (stage[t] \in WithLock <=> next \in WithLock)
        \/ notifyHolder = "nobody" /\ notifyHolder' = t /\ next \in WithLock
        \/ notifyHolder = t /\ notifyHolder' = "nobody" /\ next \notin WithLock
    BY <1>0, <1>1 DEF WithLock, NotifyLocked
  <2> QED
    BY <2>1, <1>0, <1>1, <1>2, NotifyLockedKept
<1>6. ASSUME ~overlapped' PROVE ToldInOrder' /\ JudgedAsTold'
  <2>1. ToldInOrder /\ JudgedAsTold
    BY <1>2, <1>6 DEF DifficultyInv
  <2>2. \A u \in Tellers : stage'[u] = IF u = t THEN next ELSE stage[u]
    BY <1>1, <1>2
  <2>3. \A u \in Tellers : stage'[u] \in Changing <=> stage[u] \in Changing
    BY <2>2, <1>2
  <2>4. ToldInOrder'
    <3>1. \A u \in Tellers : stage'[u] \in {"sending", "lockedSending"} => stage'[u] = stage[u]
      BY <2>2
    <3>2. (\A u \in Tellers : stage'[u] \notin Changing) => Tells(difficulty)'
      <4>1. ASSUME \A u \in Tellers : stage'[u] \notin Changing PROVE Tells(difficulty)'
        <5>1. Tells(difficulty)
          BY <4>1, <2>1, <2>3 DEF ToldInOrder
        <5> QED
          BY <5>1, <1>2 DEF Tells, TellsBy
      <4> QED
        BY <4>1
    <3> QED
      BY <3>1, <3>2, <2>1, <2>3, <1>2 DEF ToldInOrder
  <2>5. ASSUME NEW u \in Tellers, stage'[u] = "write"
        PROVE  (\E v \in Tellers : Follows(v)') \/ assigned'[Len(assigned')] = difficulty'
    <3>1. CASE u = t
      BY <3>1, <2>2, <2>5, <1>2, <1>3
    <3>2. CASE u # t
      <4>1. stage[u] = "write" /\ notifyHolder = u /\ stage[t] \notin WithLock
        BY <3>2, <2>2, <2>5, <1>0 DEF NotifyLocked, WithLock
      <4>2. FALSE
        BY <4>1, <1>0, <1>1 DEF WithLock, DifficultyTypes, DifficultyTypeOK
      <4> QED
        BY <4>2
    <3> QED
      BY <3>1, <3>2
  <2>6. unannounced' # 0 \/ stage'[t] # "idle"
    BY <2>2, <1>0, <1>1 DEF DifficultyTypes, DifficultyTypeOK
  <2>7. JudgedAsTold'
    BY <2>5, <2>6 DEF JudgedAsTold
  <2> QED
    BY <2>4, <2>7
<1> QED
  BY <1>4, <1>5, <1>6 DEF DifficultyInv

LEMMA WriteNotifyStep ==
    ASSUME DifficultyInv, NEW t \in Tellers, WriteNotify(t)
    PROVE  DifficultyInv'
<1>0. DifficultyTypes /\ NotifyLocked
  BY DEF DifficultyInv
<1>1. /\ stage \in [Tellers -> Stages] /\ stage[t] = "write" /\ "idle" \in Stages
      /\ stage' = [stage EXCEPT ![t] = "idle"] /\ wanted' = wanted /\ difficulty' = difficulty
      /\ overlapped' = overlapped /\ notifyHolder' = "nobody"
      /\ assigned' = assigned /\ told' = told /\ work' = work
      /\ socket' = Append(socket, [kind |-> "job", value |-> Len(assigned)])
  BY <1>0 DEF DifficultyTypes, DifficultyTypeOK, Stages, WriteNotify
<1>2. PICK n \in 0..MaxWork : n = Len(assigned)
  <2>1. assigned \in Seq(Diffs) /\ Len(assigned) <= MaxWork
    BY <1>0 DEF DifficultyTypes, DifficultyTypeOK
  <2>2. Len(assigned) \in Nat
    BY <2>1, LenProperties
  <2> QED
    BY <2>1, <2>2
<1>3. /\ socket' \in Seq(Messages)
      /\ \A d : Tells(d) => Tells(d)' /\ Announced(n, d)'
  BY <1>0, <1>1, <1>2, JobSent
<1>4. DifficultyTypes'
  <2>1. unannounced' \in Nat
    BY DEF WriteNotify
  <2>2. /\ wanted' \in [Tellers -> 0..TopDiff] /\ "idle" \notin Changing
        /\ difficulty' \in Diffs /\ previous' \in 0..TopDiff /\ grace' \in BOOLEAN
        /\ notifyHolder' \in Tellers \cup {"nobody"}
        /\ assigned' \in Seq(Diffs) /\ Len(assigned') <= MaxWork
        /\ template' = template /\ lastTemplate' \in 0..template
        /\ changes' \in 0..MaxChanges /\ overlapped' \in BOOLEAN
    BY <1>0, <1>1 DEF DifficultyTypes, DifficultyTypeOK, WriteNotify, Changing
  <2> QED
    BY <2>1, <2>2, <1>0, <1>1, <1>3, DifficultyTypesKept
<1>5. NotifyLocked'
  <2>1. notifyHolder = t /\ "idle" \notin WithLock
    BY <1>0, <1>1 DEF NotifyLocked, WithLock
  <2> QED
    BY <2>1, <1>0, <1>1, NotifyLockedKept
<1>6. ASSUME ~overlapped' PROVE ToldInOrder' /\ JudgedAsTold'
  <2>1. ToldInOrder /\ JudgedAsTold
    BY <1>1, <1>6 DEF DifficultyInv
  <2>2. \A u \in Tellers : stage'[u] = IF u = t THEN "idle" ELSE stage[u]
    BY <1>1
  <2>3. \A u \in Tellers : stage'[u] \in Changing <=> stage[u] \in Changing
    BY <2>2, <1>1 DEF Changing
  <2>4. ToldInOrder'
    <3>1. \A u \in Tellers : stage'[u] \in {"sending", "lockedSending"} => stage'[u] = stage[u]
      BY <2>2
    <3>2. ASSUME \A u \in Tellers : stage'[u] \notin Changing PROVE Tells(difficulty)'
      <4>1. PICK d : d = difficulty
        OBVIOUS
      <4>2. Tells(d)'
        BY <3>2, <4>1, <2>1, <2>3, <1>3 DEF ToldInOrder
      <4> QED
        BY <4>1, <4>2, <1>1
    <3> QED
      BY <3>1, <3>2, <2>1, <2>3, <1>1 DEF ToldInOrder
  <2>5. \A u \in Tellers : stage'[u] # "write"
    BY <2>2, <1>0, <1>1 DEF NotifyLocked, WithLock
  <2>6. ASSUME \A u \in Tellers : stage'[u] = "idle"
        PROVE  \E j \in 0..MaxWork, d \in 0..TopDiff :
                  Announced(j, d)' /\ (j > 0 => d = assigned'[j])
    <3>1. \A u \in Tellers : stage[u] \notin Changing /\ ~Follows(u)
      BY <2>6, <2>2, <1>1 DEF Changing, Follows
    <3>2. Tells(difficulty) /\ assigned[Len(assigned)] = difficulty
      BY <3>1, <2>1, <1>1 DEF ToldInOrder, JudgedAsTold
    <3>3. PICK d \in Diffs : d = difficulty
      BY <1>0 DEF DifficultyTypes, DifficultyTypeOK
    <3>4. Announced(n, d)' /\ d = assigned'[n] /\ d \in 0..TopDiff
      BY <3>2, <3>3, <1>1, <1>2, <1>3 DEF Diffs
    <3> QED
      BY <3>4
  <2>7. JudgedAsTold'
    BY <2>5, <2>6 DEF JudgedAsTold
  <2> QED
    BY <2>4, <2>7
<1> QED
  BY <1>4, <1>5, <1>6 DEF DifficultyInv

LEMMA MinerReadsStep == ASSUME DifficultyInv, MinerReads PROVE DifficultyInv'
<1>0. DifficultyTypes /\ NotifyLocked
  BY DEF DifficultyInv
<1>1. /\ stage' = stage /\ wanted' = wanted /\ difficulty' = difficulty
      /\ notifyHolder' = notifyHolder /\ assigned' = assigned
      /\ overlapped' = overlapped /\ unannounced' = unannounced
  BY DEF MinerReads
<1>2. /\ socket' \in Seq(Messages)
      /\ told' \in Diffs /\ work' \in [job : 0..MaxWork, diff : 0..TopDiff]
      /\ \A d : Tells(d) => Tells(d)'
      /\ \A j, d : Announced(j, d) => Announced(j, d)'
  BY <1>0, MessageRead
<1>3. DifficultyTypes'
  BY <1>0, <1>1, <1>2 DEF DifficultyTypes, DifficultyTypeOK, MinerReads
<1>4. NotifyLocked'
  BY <1>0, <1>1 DEF NotifyLocked
<1>5. ToldInOrder => ToldInOrder'
  <2>1. PICK d : d = difficulty
    OBVIOUS
  <2>2. Tells(difficulty) => Tells(difficulty)'
    BY <2>1, <1>1, <1>2
  <2> QED
    BY <2>2, <1>1 DEF ToldInOrder
<1>6. ASSUME JudgedAsTold PROVE JudgedAsTold'
  <2>1. ASSUME unannounced = 0, \A t \in Tellers : stage[t] = "idle"
        PROVE  \E j \in 0..MaxWork, d \in 0..TopDiff :
                  Announced(j, d)' /\ (j > 0 => d = assigned'[j])
    <3>1. PICK j \in 0..MaxWork, d \in 0..TopDiff : Announced(j, d) /\ (j > 0 => d = assigned[j])
      BY <1>6, <2>1 DEF JudgedAsTold
    <3>2. Announced(j, d)'
      BY <3>1, <1>2
    <3> QED
      BY <3>1, <3>2, <1>1
  <2>2. ASSUME NEW t \in Tellers, stage[t] = "write"
        PROVE  (\E u \in Tellers : Follows(u)') \/ assigned'[Len(assigned')] = difficulty'
    <3>1. \A u \in Tellers : Follows(u) => Follows(u)'
      BY <1>1 DEF Follows
    <3> QED
      BY <1>6, <2>2, <3>1, <1>1 DEF JudgedAsTold
  <2> QED
    BY <2>1, <2>2, <1>1 DEF JudgedAsTold
<1> QED
  BY <1>1, <1>3, <1>4, <1>5, <1>6 DEF DifficultyInv

\* Time, the node and stuttering
LEMMA NobodyStep ==
    ASSUME DifficultyInv, NewTemplate \/ GraceEnds \/ UNCHANGED difficultyVars
    PROVE  DifficultyInv'
<1>0. DifficultyTypes /\ NotifyLocked
  BY DEF DifficultyInv
<1>1. /\ stage' = stage /\ wanted' = wanted /\ difficulty' = difficulty
      /\ notifyHolder' = notifyHolder /\ assigned' = assigned
      /\ overlapped' = overlapped /\ unannounced' = unannounced
      /\ socket' = socket /\ told' = told /\ work' = work
  BY DEF NewTemplate, GraceEnds, difficultyVars
<1>2. DifficultyTypes'
  <2>1. grace' \in BOOLEAN
    BY <1>0 DEF DifficultyTypes, DifficultyTypeOK, NewTemplate, GraceEnds, difficultyVars
  <2>2. template' \in Nat /\ lastTemplate' \in 0..template'
    <3>1. template \in Nat /\ lastTemplate \in 0..template
      BY <1>0 DEF DifficultyTypes, DifficultyTypeOK
    <3>2. template' \in {template, template + 1} /\ lastTemplate' = lastTemplate
      BY DEF NewTemplate, GraceEnds, difficultyVars
    <3> QED
      BY <3>1, <3>2
  <2>3. previous' = previous /\ changes' = changes
    BY DEF NewTemplate, GraceEnds, difficultyVars
  <2> QED
    BY <2>1, <2>2, <2>3, <1>0, <1>1 DEF DifficultyTypes, DifficultyTypeOK
<1>3. NotifyLocked'
  BY <1>0, <1>1 DEF NotifyLocked
<1>4. ToldInOrder => ToldInOrder'
  BY <1>1 DEF ToldInOrder, Tells, TellsBy
<1>5. ASSUME JudgedAsTold PROVE JudgedAsTold'
  <2>1. ASSUME unannounced = 0, \A t \in Tellers : stage[t] = "idle"
        PROVE  \E j \in 0..MaxWork, d \in 0..TopDiff :
                  Announced(j, d)' /\ (j > 0 => d = assigned'[j])
    <3>1. PICK j \in 0..MaxWork, d \in 0..TopDiff : Announced(j, d) /\ (j > 0 => d = assigned[j])
      BY <1>5, <2>1 DEF JudgedAsTold
    <3>2. Announced(j, d)'
      BY <3>1, <1>1, SameStream
    <3> QED
      BY <3>1, <3>2, <1>1
  <2>2. ASSUME NEW t \in Tellers, stage[t] = "write"
        PROVE  (\E u \in Tellers : Follows(u)') \/ assigned'[Len(assigned')] = difficulty'
    <3>1. \A u \in Tellers : Follows(u) => Follows(u)'
      BY <1>1 DEF Follows
    <3> QED
      BY <1>5, <2>2, <3>1, <1>1 DEF JudgedAsTold
  <2> QED
    BY <2>1, <2>2, <1>1 DEF JudgedAsTold
<1> QED
  BY <1>1, <1>2, <1>3, <1>4, <1>5 DEF DifficultyInv

LEMMA DifficultyKept == DifficultySpec => []DifficultyInv
<1>1. ASSUME DifficultyInv, [DifficultyNext]_difficultyVars PROVE DifficultyInv'
  <2>1. ASSUME NEW t \in Tellers, ChangeDifficulty(t) PROVE DifficultyInv'
    BY <1>1, <2>1, StoreStep DEF ChangeDifficulty
  <2>2. ASSUME NEW t \in Tellers, AdjustLocked(t) PROVE DifficultyInv'
    BY <1>1, <2>2, StoreStep DEF AdjustLocked
  <2> QED
    BY <1>1, <2>1, <2>2, ApplyDifficultyStep, TellDifficultyStep, QuietStep, WriteNotifyStep,
       MinerReadsStep, NobodyStep DEF DifficultyNext
<1> QED
  BY <1>1, DifficultyStarts, PTL DEF DifficultySpec

-----------------------------------------------------------------------------
(* A change whose announcement is dropped.  As long as it is the only one,  *)
(* the newest work differs from what the miner was told by no more than     *)
(* that change.                                                             *)

Near(d, a) == d = a \/ (previous \in Diffs /\ {d, a} \subseteq {previous, difficulty})

AloneBut(t) ==
    \A u, v \in Tellers \ {t} : stage[u] # "idle" /\ stage[v] # "idle" => u = v
OneOpen ==
    \/ unannounced = 0 /\ \A u, v \in Tellers : stage[u] # "idle" /\ stage[v] # "idle" => u = v
    \/ unannounced = 1 /\ \A u \in Tellers : stage[u] = "idle"

\* Past these stages an announcement is written whatever happens.
Committed == {"lockedStored", "lockedSending", "tracked", "write"}

PreviousStored ==
    /\ \A t \in Tellers : stage[t] \in {"stored", "lockedStored"} => previous = difficulty
    /\ \A t \in Tellers : Follows(t) => previous \in Diffs
    /\ (\E t \in Tellers : stage[t] \in Changing) => Tells(previous)

WriteNear ==
    \A t \in Tellers : stage[t] = "write" /\ AloneBut(t) =>
        assigned[Len(assigned)] \in {previous, difficulty}

WorkNear ==
    OneOpen /\ (\A t \in Tellers : stage[t] \notin Committed) =>
        \E j \in 0..MaxWork, d \in 0..TopDiff : Announced(j, d) /\ (j > 0 => Near(d, assigned[j]))

ChangesApart == PreviousStored /\ WriteNear /\ WorkNear

\* With everybody idle and nothing dropped the newest work is judged as told.
LEMMA NearAtRest ==
    ASSUME JudgedAsTold, unannounced = 0, \A t \in Tellers : stage[t] = "idle"
    PROVE  \E j \in 0..MaxWork, d \in 0..TopDiff : Announced(j, d) /\ (j > 0 => Near(d, assigned[j]))
BY DEF JudgedAsTold, Near

\* Only the holder of notifyMu is past the lock.
LEMMA HolderAlone ==
    ASSUME NotifyLocked, NEW t \in Tellers, NEW u \in Tellers,
           stage[t] \in WithLock, stage[u] \in WithLock
    PROVE  t = u
BY DEF NotifyLocked

LEMMA StoreApart ==
    ASSUME DifficultyInv, ~overlapped', ChangesApart,
           NEW t \in Tellers, NEW d \in Diffs, NEW next \in {"stored", "lockedStored"},
           stage[t] = IF next = "stored" THEN "idle" ELSE "locked",
           Store(t, d, next)
    PROVE  ChangesApart'
<1>1. /\ DifficultyTypes /\ NotifyLocked /\ ToldInOrder /\ JudgedAsTold
      /\ \A u \in Tellers : stage[u] \notin Changing
  BY DEF DifficultyInv, Store
<1>2. /\ \A u \in Tellers : stage'[u] = IF u = t THEN next ELSE stage[u]
      /\ difficulty \in Diffs /\ difficulty' = difficulty /\ previous' = difficulty
      /\ assigned' = assigned /\ socket' = socket /\ told' = told /\ work' = work
      /\ unannounced' = unannounced
      /\ next \in Changing /\ next # "idle" /\ next # "write"
  BY <1>1 DEF DifficultyTypes, DifficultyTypeOK, Store, Changing
<1>3. PreviousStored'
  <2>1. Tells(previous)'
    <3>1. PICK e : e = difficulty
      OBVIOUS
    <3>2. Tells(e)'
      BY <3>1, <1>1, <1>2, SameStream DEF ToldInOrder
    <3> QED
      BY <3>1, <3>2, <1>2
  <2>2. \A u \in Tellers : Follows(u)' => previous' \in Diffs'
    BY <1>2 DEF Diffs
  <2> QED
    BY <2>1, <2>2, <1>2 DEF PreviousStored
<1>4. WriteNear'
  <2> SUFFICES ASSUME NEW w \in Tellers, stage'[w] = "write", AloneBut(w)'
               PROVE  assigned'[Len(assigned')] \in {previous', difficulty'}
    BY DEF WriteNear
  <2>1. w # t /\ stage[w] = "write"
    BY <1>2
  <2>2. next = "stored" /\ stage[t] = "idle"
    BY <2>1, <1>1, HolderAlone DEF WithLock
  <2>3. \A u \in Tellers : u # w => stage[u] = "idle"
    <3>1. \A u \in Tellers : u # w /\ stage'[u] # "idle" => u = t
      BY <2>1, <1>2 DEF AloneBut
    <3> QED
      BY <3>1, <2>1, <2>2, <1>2
  <2>4. \A u \in Tellers : ~Follows(u)
    BY <2>1, <2>3 DEF Follows, Changing
  <2> QED
    BY <2>1, <2>4, <1>1, <1>2 DEF JudgedAsTold
<1>5. WorkNear'
  <2> SUFFICES ASSUME OneOpen', \A u \in Tellers : stage'[u] \notin Committed
               PROVE  \E j \in 0..MaxWork, e \in 0..TopDiff :
                         Announced(j, e)' /\ (j > 0 => Near(e, assigned[j])')
    BY DEF WorkNear
  <2>1. next = "stored" /\ stage[t] = "idle"
    BY <1>2 DEF Committed
  <2>2. unannounced = 0 /\ \A u \in Tellers : stage[u] = "idle"
    BY <2>1, <1>2 DEF OneOpen
  <2>3. PICK j \in 0..MaxWork, e \in 0..TopDiff : Announced(j, e) /\ (j > 0 => e = assigned[j])
    BY <2>2, <1>1 DEF JudgedAsTold
  <2>4. Announced(j, e)'
    BY <2>3, <1>2, SameStream
  <2> QED
    BY <2>3, <2>4, <1>2 DEF Near
<1> QED
  BY <1>3, <1>4, <1>5 DEF ChangesApart

LEMMA ApplyApart ==
    ASSUME DifficultyInv, ~overlapped', ChangesApart, NEW t \in Tellers, ApplyDifficulty(t)
    PROVE  ChangesApart'
<1> DEFINE next == IF stage[t] = "stored" THEN "sending" ELSE "lockedSending"
<1>1. DifficultyTypes /\ NotifyLocked /\ ToldInOrder /\ PreviousStored
  BY DEF DifficultyInv, ApplyDifficulty, ChangesApart
<1>2. /\ stage[t] \in {"stored", "lockedStored"} /\ stage[t] \in Changing /\ previous = difficulty
      /\ \A u \in Tellers : stage'[u] = IF u = t THEN next ELSE stage[u]
      /\ previous' = previous /\ assigned' = assigned /\ unannounced' = unannounced
      /\ socket' = socket /\ told' = told /\ work' = work
  BY <1>1 DEF DifficultyTypes, DifficultyTypeOK, ApplyDifficulty, Changing, PreviousStored
<1>3. /\ next \in {"sending", "lockedSending"} /\ next \in Changing
      /\ next = "lockedSending" <=> stage[t] = "lockedStored"
  BY <1>2 DEF Changing
<1> HIDE DEF next
<1>4. \A u \in Tellers : stage'[u] = "idle" <=> stage[u] = "idle"
  BY <1>2, <1>3
<1>5. PreviousStored'
  <2>1. Tells(previous)'
    <3>1. PICK e : e = previous
      OBVIOUS
    <3>2. Tells(e)'
      BY <3>1, <1>1, <1>2, SameStream DEF PreviousStored
    <3> QED
      BY <3>1, <3>2, <1>2
  <2>2. \A u \in Tellers : stage'[u] \notin {"stored", "lockedStored"}
    BY <1>1, <1>2, <1>3 DEF ToldInOrder, Changing
  <2>3. previous' \in Diffs'
    BY <1>1, <1>2 DEF PreviousStored, Follows, Diffs
  <2> QED
    BY <2>1, <2>2, <2>3 DEF PreviousStored
<1>6. WriteNear'
  <2> SUFFICES ASSUME NEW w \in Tellers, stage'[w] = "write", AloneBut(w)'
               PROVE  assigned'[Len(assigned')] \in {previous', difficulty'}
    BY DEF WriteNear
  <2>1. stage[w] = "write" /\ AloneBut(w)
    BY <1>2, <1>3, <1>4 DEF AloneBut
  <2> QED
    BY <2>1, <1>2 DEF ChangesApart, WriteNear
<1>7. WorkNear'
  <2> SUFFICES ASSUME OneOpen', \A u \in Tellers : stage'[u] \notin Committed
               PROVE  \E j \in 0..MaxWork, e \in 0..TopDiff :
                         Announced(j, e)' /\ (j > 0 => Near(e, assigned[j])')
    BY DEF WorkNear
  <2>1. OneOpen
    BY <1>2, <1>4 DEF OneOpen
  <2>2. \A u \in Tellers : stage[u] \notin Committed
    BY <1>2, <1>3 DEF Committed
  <2>3. PICK j \in 0..MaxWork, e \in 0..TopDiff : Announced(j, e) /\ (j > 0 => Near(e, assigned[j]))
    BY <2>1, <2>2 DEF ChangesApart, WorkNear
  <2>4. Announced(j, e)'
    BY <2>3, <1>2, SameStream
  <2>5. j > 0 => Near(e, assigned[j])'
    BY <2>3, <1>2 DEF Near, Diffs
  <2> QED
    BY <2>3, <2>4, <2>5
<1> QED
  BY <1>5, <1>6, <1>7 DEF ChangesApart

LEMMA TellApart ==
    ASSUME DifficultyInv, ~overlapped', ChangesApart, NEW t \in Tellers, TellDifficulty(t)
    PROVE  ChangesApart'
<1> DEFINE next == IF stage[t] = "sending" THEN "announce" ELSE "tracked"
<1>1. DifficultyTypes /\ NotifyLocked /\ ToldInOrder /\ PreviousStored
  BY DEF DifficultyInv, TellDifficulty, ChangesApart
<1>2. /\ stage[t] \in {"sending", "lockedSending"} /\ stage[t] \in Changing
      /\ \A u \in Tellers : stage'[u] = IF u = t THEN next ELSE stage[u]
      /\ previous' = previous /\ difficulty' = difficulty /\ assigned' = assigned
      /\ unannounced' = unannounced
      /\ told' = told /\ work' = work /\ wanted[t] \in Diffs
      /\ socket' = Append(socket, [kind |-> "difficulty", value |-> wanted[t]])
  BY <1>1 DEF DifficultyTypes, DifficultyTypeOK, TellDifficulty, Changing
<1>3. /\ next \in {"announce", "tracked"} /\ next \notin Changing
      /\ next = "tracked" <=> stage[t] = "lockedSending"
  BY <1>2 DEF Changing
<1> HIDE DEF next
<1>4. \A u \in Tellers : stage'[u] = "idle" <=> stage[u] = "idle"
  BY <1>2, <1>3
<1>5. PreviousStored'
  <2>1. \A u \in Tellers : stage'[u] \notin Changing
    BY <1>1, <1>2, <1>3 DEF ToldInOrder
  <2>2. previous' \in Diffs'
    BY <1>1, <1>2 DEF PreviousStored, Follows, Diffs
  <2> QED
    BY <2>1, <2>2 DEF PreviousStored, Changing
<1>6. WriteNear'
  <2> SUFFICES ASSUME NEW w \in Tellers, stage'[w] = "write", AloneBut(w)'
               PROVE  assigned'[Len(assigned')] \in {previous', difficulty'}
    BY DEF WriteNear
  <2>1. stage[w] = "write" /\ AloneBut(w)
    BY <1>2, <1>3, <1>4 DEF AloneBut
  <2> QED
    BY <2>1, <1>2 DEF ChangesApart, WriteNear
<1>7. WorkNear'
  <2> SUFFICES ASSUME OneOpen', \A u \in Tellers : stage'[u] \notin Committed
               PROVE  \E j \in 0..MaxWork, e \in 0..TopDiff :
                         Announced(j, e)' /\ (j > 0 => Near(e, assigned[j])')
    BY DEF WorkNear
  <2>1. OneOpen
    BY <1>2, <1>4 DEF OneOpen
  <2>2. \A u \in Tellers : stage[u] \notin Committed
    BY <1>2, <1>3 DEF Committed
  <2>3. PICK j \in 0..MaxWork, e \in 0..TopDiff : Announced(j, e) /\ (j > 0 => Near(e, assigned[j]))
    BY <2>1, <2>2 DEF ChangesApart, WorkNear
  <2>4. Announced(j, e)'
    <3>1. PICK v \in Diffs : v = wanted[t]
      BY <1>2
    <3> QED
      BY <3>1, <2>3, <1>1, <1>2, DifficultySent
  <2>5. j > 0 => Near(e, assigned[j])'
    BY <2>3, <1>2 DEF Near, Diffs
  <2> QED
    BY <2>3, <2>4, <2>5
<1> QED
  BY <1>5, <1>6, <1>7 DEF ChangesApart

LEMMA BeginApart ==
    ASSUME DifficultyInv, ~overlapped', ChangesApart, NEW t \in Tellers,
           \/ BeginNotify(t) \/ DropOlder(t) \/ KeepDifficulty(t)
    PROVE  ChangesApart'
<1>1. DifficultyTypes /\ NotifyLocked /\ ToldInOrder /\ JudgedAsTold /\ PreviousStored
  BY DEF DifficultyInv, BeginNotify, DropOlder, KeepDifficulty, ChangesApart
<1>2. PICK next \in {"locked", "idle", "tracked"} :
        /\ stage' = [stage EXCEPT ![t] = next]
        /\ next = "locked" => stage[t] \in {"announce", "idle"} /\ notifyHolder = "nobody"
        /\ next # "locked" => stage[t] = "locked"
        /\ unannounced' = IF next = "idle" THEN unannounced + 1 ELSE unannounced
  BY DEF BeginNotify, DropOlder, KeepDifficulty
<1>3. /\ \A u \in Tellers : stage'[u] = IF u = t THEN next ELSE stage[u]
      /\ previous' = previous /\ difficulty' = difficulty /\ assigned' = assigned
      /\ socket' = socket /\ told' = told /\ work' = work /\ unannounced \in Nat
  BY <1>1, <1>2 DEF DifficultyTypes, DifficultyTypeOK, BeginNotify, DropOlder, KeepDifficulty
<1>4. \A u \in Tellers : stage[u] = "write" => u # t /\ next # "locked" /\ stage[t] # "locked"
  BY <1>1, <1>2 DEF NotifyLocked, WithLock, DifficultyTypes, DifficultyTypeOK
<1>5. \A u \in Tellers : stage[u] # "write" /\ stage'[u] # "write"
  BY <1>2, <1>3, <1>4
<1>6. PreviousStored'
  <2>1. \A u \in Tellers : /\ stage'[u] \in Changing => stage[u] \in Changing
                           /\ stage'[u] \in {"stored", "lockedStored"} => stage'[u] = stage[u]
                           /\ Follows(u)' => Follows(u)
    BY <1>2, <1>3 DEF Changing, Follows
  <2>2. ASSUME NEW u \in Tellers, stage'[u] \in Changing PROVE Tells(previous)'
    <3>1. PICK e : e = previous
      OBVIOUS
    <3>2. Tells(e)'
      BY <3>1, <2>1, <2>2, <1>1, <1>3, SameStream DEF PreviousStored
    <3> QED
      BY <3>1, <3>2, <1>3
  <2> QED
    BY <2>1, <2>2, <1>1, <1>3 DEF PreviousStored, Diffs
<1>7. WriteNear'
  BY <1>5 DEF WriteNear
<1>8. WorkNear'
  <2> SUFFICES ASSUME OneOpen', \A u \in Tellers : stage'[u] \notin Committed
               PROVE  \E j \in 0..MaxWork, e \in 0..TopDiff :
                         Announced(j, e)' /\ (j > 0 => Near(e, assigned[j])')
    BY DEF WorkNear
  <2>1. OneOpen
    <3>1. CASE next = "idle"
      <4>1. unannounced = 0 /\ \A u \in Tellers : stage'[u] = "idle"
        BY <3>1, <1>2, <1>3 DEF OneOpen
      <4> QED
        BY <4>1, <1>3 DEF OneOpen
    <3>2. CASE next # "idle"
      <4>1. stage'[t] # "idle" /\ unannounced' = unannounced
        BY <3>2, <1>2, <1>3
      <4>2. unannounced = 0 /\ \A u \in Tellers : u # t => stage[u] = "idle"
        BY <4>1, <1>3 DEF OneOpen
      <4> QED
        BY <4>2 DEF OneOpen
    <3> QED
      BY <3>1, <3>2
  <2>2. \A u \in Tellers : stage[u] \notin Committed
    BY <1>2, <1>3 DEF Committed
  <2>3. PICK j \in 0..MaxWork, e \in 0..TopDiff : Announced(j, e) /\ (j > 0 => Near(e, assigned[j]))
    BY <2>1, <2>2 DEF ChangesApart, WorkNear
  <2>4. Announced(j, e)'
    BY <2>3, <1>3, SameStream
  <2>5. j > 0 => Near(e, assigned[j])'
    BY <2>3, <1>3 DEF Near, Diffs
  <2> QED
    BY <2>3, <2>4, <2>5
<1> QED
  BY <1>6, <1>7, <1>8 DEF ChangesApart

LEMMA TrackApart ==
    ASSUME DifficultyInv, ~overlapped', ChangesApart, NEW t \in Tellers, Track(t)
    PROVE  ChangesApart'
<1>1. DifficultyTypes /\ NotifyLocked /\ PreviousStored
  BY DEF DifficultyInv, Track, ChangesApart
<1>2. /\ stage[t] = "tracked"
      /\ \A u \in Tellers : stage'[u] = IF u = t THEN "write" ELSE stage[u]
      /\ previous' = previous /\ difficulty' = difficulty
      /\ assigned' = Append(assigned, difficulty)
      /\ socket' = socket /\ told' = told /\ work' = work
  BY <1>1 DEF DifficultyTypes, DifficultyTypeOK, Track
<1>3. PreviousStored'
  <2>1. \A u \in Tellers : /\ stage'[u] \in Changing => stage[u] \in Changing
                           /\ stage'[u] \in {"stored", "lockedStored"} => stage'[u] = stage[u]
                           /\ Follows(u)' => Follows(u)
    BY <1>2 DEF Changing, Follows
  <2>2. ASSUME NEW u \in Tellers, stage'[u] \in Changing PROVE Tells(previous)'
    <3>1. PICK e : e = previous
      OBVIOUS
    <3>2. Tells(e)'
      BY <3>1, <2>1, <2>2, <1>1, <1>2, SameStream DEF PreviousStored
    <3> QED
      BY <3>1, <3>2, <1>2
  <2> QED
    BY <2>1, <2>2, <1>1, <1>2 DEF PreviousStored, Diffs
<1>4. WriteNear'
  <2>1. assigned \in Seq(Diffs) /\ difficulty \in Diffs
    BY <1>1 DEF DifficultyTypes, DifficultyTypeOK
  <2>2. assigned'[Len(assigned')] = difficulty
    BY <2>1, <1>2, AppendProperties
  <2> QED
    BY <2>2, <1>2 DEF WriteNear
<1>5. WorkNear'
  BY <1>2 DEF WorkNear, Committed
<1> QED
  BY <1>3, <1>4, <1>5 DEF ChangesApart

LEMMA WriteApart ==
    ASSUME DifficultyInv, DifficultyInv', ~overlapped', ChangesApart,
           NEW t \in Tellers, WriteNotify(t)
    PROVE  ChangesApart'
<1>1. /\ DifficultyTypes /\ NotifyLocked /\ ToldInOrder /\ PreviousStored /\ WriteNear
      /\ JudgedAsTold'
  BY DEF DifficultyInv, WriteNotify, ChangesApart
<1>2. /\ stage[t] = "write"
      /\ \A u \in Tellers : stage'[u] = IF u = t THEN "idle" ELSE stage[u]
      /\ previous' = previous /\ difficulty' = difficulty /\ assigned' = assigned
      /\ told' = told /\ work' = work /\ unannounced' = 0
      /\ socket' = Append(socket, [kind |-> "job", value |-> Len(assigned)])
  BY <1>1 DEF DifficultyTypes, DifficultyTypeOK, WriteNotify
<1>3. PICK n \in 0..MaxWork : n = Len(assigned)
  <2>1. assigned \in Seq(Diffs) /\ Len(assigned) <= MaxWork
    BY <1>1 DEF DifficultyTypes, DifficultyTypeOK
  <2>2. Len(assigned) \in Nat
    BY <2>1, LenProperties
  <2> QED
    BY <2>1, <2>2
<1>4. \A d : Tells(d) => Tells(d)' /\ Announced(n, d)'
  BY <1>1, <1>2, <1>3, JobSent
<1>5. PreviousStored'
  <2>1. \A u \in Tellers : /\ stage'[u] \in Changing => stage[u] \in Changing
                           /\ stage'[u] \in {"stored", "lockedStored"} => stage'[u] = stage[u]
                           /\ Follows(u)' => Follows(u)
    BY <1>2 DEF Changing, Follows
  <2>2. ASSUME NEW u \in Tellers, stage'[u] \in Changing PROVE Tells(previous)'
    <3>1. PICK e : e = previous
      OBVIOUS
    <3>2. Tells(e)'
      BY <3>1, <2>1, <2>2, <1>1, <1>4 DEF PreviousStored
    <3> QED
      BY <3>1, <3>2, <1>2
  <2> QED
    BY <2>1, <2>2, <1>1, <1>2 DEF PreviousStored, Diffs
<1>6. \A u \in Tellers : u # t => stage[u] \notin WithLock
  BY <1>1, <1>2, HolderAlone DEF WithLock
<1>7. WriteNear'
  BY <1>2, <1>6 DEF WriteNear, WithLock
<1>8. WorkNear'
  <2> SUFFICES ASSUME OneOpen', \A u \in Tellers : stage'[u] \notin Committed
               PROVE  \E j \in 0..MaxWork, e \in 0..TopDiff :
                         Announced(j, e)' /\ (j > 0 => Near(e, assigned[j])')
    BY DEF WorkNear
  <2>1. CASE \A u \in Tellers : stage'[u] = "idle"
    <3>1. PICK j \in 0..MaxWork, e \in 0..TopDiff : Announced(j, e)' /\ (j > 0 => e = assigned'[j])
      BY <2>1, <1>1, <1>2 DEF JudgedAsTold
    <3> QED
      BY <3>1 DEF Near
  <2>2. ASSUME NEW u \in Tellers, stage'[u] # "idle"
        PROVE  \E j \in 0..MaxWork, e \in 0..TopDiff :
                  Announced(j, e)' /\ (j > 0 => Near(e, assigned[j])')
    <3>1. u # t /\ stage[u] = stage'[u]
      BY <2>2, <1>2
    <3>2. \A v \in Tellers : v # t /\ stage[v] # "idle" => v = u
      BY <2>2, <1>2 DEF OneOpen
    <3>3. assigned[Len(assigned)] \in {previous, difficulty}
      BY <3>2, <1>1, <1>2 DEF WriteNear, AloneBut
    <3>4. stage[u] \in {"stored", "sending", "announce"}
      BY <2>2, <3>1, <1>1, <1>6 DEF WithLock, Changing, DifficultyTypes, DifficultyTypeOK
    <3>5. previous \in Diffs /\ difficulty \in Diffs
      BY <3>4, <1>1 DEF PreviousStored, Follows, Changing, DifficultyTypes, DifficultyTypeOK
    <3>6. PICK e \in {previous, difficulty} : Tells(e)
      <4>1. CASE stage[u] \in Changing
        BY <4>1, <1>1 DEF PreviousStored
      <4>2. CASE stage[u] \notin Changing
        <5>1. \A v \in Tellers : stage[v] \notin Changing
          BY <4>2, <3>2, <1>2 DEF Changing
        <5> QED
          BY <5>1, <1>1 DEF ToldInOrder
      <4> QED
        BY <4>1, <4>2
    <3>7. Announced(n, e)' /\ e \in 0..TopDiff
      BY <3>5, <3>6, <1>4 DEF Diffs
    <3>8. Near(e, assigned[n])'
      <4>1. previous' \in Diffs'
        BY <3>5, <1>2 DEF Diffs
      <4> QED
        BY <4>1, <3>3, <3>6, <1>2, <1>3 DEF Near
    <3> QED
      BY <3>7, <3>8
  <2> QED
    BY <2>1, <2>2
<1> QED
  BY <1>5, <1>7, <1>8 DEF ChangesApart

\* The miner, the node, time and stuttering
LEMMA OthersApart ==
    ASSUME DifficultyInv, ChangesApart,
           MinerReads \/ NewTemplate \/ GraceEnds \/ UNCHANGED difficultyVars
    PROVE  ChangesApart'
<1>1. DifficultyTypes /\ PreviousStored /\ WriteNear /\ WorkNear
  BY DEF DifficultyInv, ChangesApart
<1>2. /\ stage' = stage /\ previous' = previous /\ difficulty' = difficulty
      /\ assigned' = assigned /\ unannounced' = unannounced
  BY DEF MinerReads, NewTemplate, GraceEnds, difficultyVars
<1>3. /\ \A d : Tells(d) => Tells(d)'
      /\ \A j, d : Announced(j, d) => Announced(j, d)'
  <2>1. CASE MinerReads
    BY <2>1, <1>1, MessageRead
  <2>2. CASE ~MinerReads
    <3>1. socket' = socket /\ told' = told /\ work' = work
      BY <2>2 DEF NewTemplate, GraceEnds, difficultyVars
    <3> QED
      BY <3>1, SameStream
  <2> QED
    BY <2>1, <2>2
<1>4. PreviousStored'
  <2>1. PICK e : e = previous
    OBVIOUS
  <2>2. Tells(previous) => Tells(previous)'
    BY <2>1, <1>2, <1>3
  <2>3. \A u \in Tellers : Follows(u)' => Follows(u)
    BY <1>2 DEF Follows
  <2> QED
    BY <2>2, <2>3, <1>1, <1>2 DEF PreviousStored, Diffs
<1>5. WriteNear'
  BY <1>1, <1>2 DEF WriteNear, AloneBut
<1>6. WorkNear'
  <2> SUFFICES ASSUME OneOpen', \A u \in Tellers : stage'[u] \notin Committed
               PROVE  \E j \in 0..MaxWork, e \in 0..TopDiff :
                         Announced(j, e)' /\ (j > 0 => Near(e, assigned[j])')
    BY DEF WorkNear
  <2>1. OneOpen /\ \A u \in Tellers : stage[u] \notin Committed
    BY <1>2 DEF OneOpen
  <2>2. PICK j \in 0..MaxWork, e \in 0..TopDiff : Announced(j, e) /\ (j > 0 => Near(e, assigned[j]))
    BY <2>1, <1>1 DEF WorkNear
  <2>3. Announced(j, e)' /\ (j > 0 => Near(e, assigned[j])')
    BY <2>2, <1>2, <1>3 DEF Near, Diffs
  <2> QED
    BY <2>2, <2>3
<1> QED
  BY <1>4, <1>5, <1>6 DEF ChangesApart

LEMMA ChangesKept == DifficultySpec => [](DifficultyInv /\ (~overlapped => ChangesApart))
<1>1. DifficultyInit => (~overlapped => ChangesApart)
  <2> SUFFICES ASSUME DifficultyInit PROVE ChangesApart
    OBVIOUS
  <2>1. \A t \in Tellers : stage[t] = "idle"
    BY DEF DifficultyInit
  <2>2. unannounced = 0 /\ JudgedAsTold
    BY DifficultyStarts DEF DifficultyInit, DifficultyInv
  <2>3. WorkNear
    BY <2>1, <2>2, NearAtRest DEF WorkNear
  <2> QED
    BY <2>1, <2>3 DEF ChangesApart, PreviousStored, WriteNear, Follows, Changing
<1>2. ASSUME DifficultyInv, DifficultyInv', ~overlapped => ChangesApart,
             [DifficultyNext]_difficultyVars, ~overlapped'
      PROVE  ChangesApart'
  <2>1. ChangesApart
    BY <1>2 DEF DifficultyNext, difficultyVars, ChangeDifficulty, ApplyDifficulty, TellDifficulty,
       BeginNotify, DropOlder, AdjustLocked, KeepDifficulty, Track, WriteNotify, Store,
       MinerReads, NewTemplate, GraceEnds
  <2>2. ASSUME NEW t \in Tellers, ChangeDifficulty(t) PROVE ChangesApart'
    BY <1>2, <2>1, <2>2, StoreApart DEF ChangeDifficulty
  <2>3. ASSUME NEW t \in Tellers, AdjustLocked(t) PROVE ChangesApart'
    BY <1>2, <2>1, <2>3, StoreApart DEF AdjustLocked
  <2> QED
    BY <1>2, <2>1, <2>2, <2>3, ApplyApart, TellApart, BeginApart, TrackApart, WriteApart,
       OthersApart DEF DifficultyNext
<1> QED
  BY <1>1, <1>2, DifficultyKept, PTL DEF DifficultySpec

(* When everything sent has arrived, a miner's newest work is judged by     *)
(* exactly what it was told before it, grace or no grace:                   *)
(* sendNotifyForWithReason records under notifyMu the difficulty of every   *)
(* announcement, and a change that falls in between is followed by an       *)
(* announcement of its own.  Where that one was dropped, the grace of       *)
(* meetsPrevDiffGrace covers a single raise.                                *)
THEOREM HonestSharesAccepted == DifficultySpec => []HonestShareAccepted
<1>1. ASSUME DifficultyInv, ~overlapped => ChangesApart PROVE HonestShareAccepted
  <2> SUFFICES ASSUME AtRest, ~overlapped
               PROVE  /\ told = difficulty
                      /\ work.job > 0 /\ unannounced = 0 => work.diff = assigned[work.job]
                      /\ work.job > 0 /\ unannounced = 1 /\ previous <= difficulty /\ grace =>
                            MeetsAssigned(work.diff, work.job)
    BY DEF HonestShareAccepted
  <2>1. /\ DifficultyTypes /\ ToldInOrder /\ JudgedAsTold /\ WorkNear /\ Len(socket) = 0
        /\ \A t \in Tellers : stage[t] = "idle"
    BY <1>1, EmptySeq DEF DifficultyInv, ChangesApart, AtRest
  <2>2. told = difficulty
    <3>1. Tells(difficulty)
      BY <2>1 DEF ToldInOrder, Changing
    <3> QED
      BY <3>1, <2>1 DEF Tells, TellsBy
  <2>3. ASSUME work.job > 0, unannounced = 0 PROVE work.diff = assigned[work.job]
    <3>1. PICK j \in 0..MaxWork, d \in 0..TopDiff : Announced(j, d) /\ (j > 0 => d = assigned[j])
      BY <2>1, <2>3 DEF JudgedAsTold
    <3>2. work = [job |-> j, diff |-> d]
      BY <3>1, <2>1 DEF Announced
    <3> QED
      BY <3>1, <3>2, <2>3
  <2>4. ASSUME work.job > 0, unannounced = 1, previous <= difficulty, grace
        PROVE  MeetsAssigned(work.diff, work.job)
    <3>1. OneOpen /\ \A t \in Tellers : stage[t] \notin Committed
      BY <2>1, <2>4 DEF OneOpen, Committed
    <3>2. PICK j \in 0..MaxWork, d \in 0..TopDiff :
             Announced(j, d) /\ (j > 0 => Near(d, assigned[j]))
      BY <3>1, <2>1 DEF WorkNear
    <3>3. work.job = j /\ work.diff = d
      BY <3>2, <2>1 DEF Announced
    <3>4. CASE d = assigned[j]
      BY <3>3, <3>4 DEF MeetsAssigned
    <3>5. CASE previous \in Diffs /\ d \in {previous, difficulty}
      <4>1. previous \in Nat /\ previous > 0 /\ difficulty \in Nat
        BY <3>5, <2>1 DEF Diffs, DifficultyTypes, DifficultyTypeOK
      <4>2. d >= previous
        BY <4>1, <3>5, <2>4
      <4> QED
        BY <4>1, <4>2, <3>3, <2>4 DEF MeetsAssigned
    <3> QED
      BY <3>2, <3>3, <3>4, <3>5, <2>4 DEF Near
  <2> QED
    BY <2>2, <2>3, <2>4
<1> QED
  BY <1>1, ChangesKept, PTL

(* Every variable of a difficulty change keeps its type (miner_rejects.go). *)
THEOREM DifficultyTypesCorrect == DifficultySpec => []DifficultyTypeOK
<1>1. DifficultyInv => DifficultyTypeOK
  BY DEF DifficultyInv, DifficultyTypes
<1> QED
  BY <1>1, DifficultyKept, PTL

HIDE DifficultyAssumption

-----------------------------------------------------------------------------
(* StratumV2 *)

USE StratumV2Assumption

Frames == [type : {"job", "answer"}, id : Nat, answer : Answers \cup {"none"}]
Submissions == [seq : Nat, job : 0..MaxV2Jobs, share : Shares \cup {"none"}]

V2Types ==
    /\ V2TypeOK /\ toMiner \in Seq(Frames) /\ fromMiner \in Seq(Submissions)
    /\ submitCh \in Seq(Submissions) /\ held \in Submissions

AnsweredTo == Cardinality(AnswersTo)
HeldBack == IF reader = "blocked" THEN 1 ELSE 0

\* The submissions that are under way continue the answers, one by one.
InTurn ==
    /\ \A i \in AnswersTo : toMiner[i].id = Cardinality({k \in AnswersTo : k <= i})
    /\ \A i \in 1..Len(submitCh) : submitCh[i].seq = AnsweredTo + i
    /\ reader = "blocked" => held.seq = AnsweredTo + Len(submitCh) + 1
    /\ \A i \in 1..Len(fromMiner) : fromMiner[i].seq = AnsweredTo + Len(submitCh) + HeldBack + i
    /\ submits = AnsweredTo + Len(submitCh) + HeldBack + Len(fromMiner)

JobsActive ==
    /\ sending > 0 => sending \in activeJobs
    /\ \A i \in 1..Len(toMiner) : toMiner[i].type = "job" => toMiner[i].id \in activeJobs

\* The reader starts with the main loop.
ReaderStarts == phase \in {"setup", "open", "send"} => reader = "off"

V2Inv == V2Types /\ InTurn /\ JobsActive /\ ReaderStarts

LEMMA V2Constants ==
    SubmitCap \in Nat /\ SubmitCap > 0 /\ MaxV2Jobs \in Nat /\ MaxSubmits \in Nat
OBVIOUS

LEMMA V2Facts ==
    ASSUME V2Inv
    PROVE  /\ phase \in {"setup", "open", "send", "loop", "closed"}
           /\ published \in 0..MaxV2Jobs /\ jobCh \subseteq 1..MaxV2Jobs
           /\ sending \in 0..MaxV2Jobs /\ activeJobs \subseteq 1..MaxV2Jobs
           /\ gone \in BOOLEAN /\ reader \in {"off", "reading", "blocked", "ended"}
           /\ Len(submitCh) <= SubmitCap /\ errCh \in BOOLEAN /\ submits \in 0..MaxSubmits
           /\ toMiner \in Seq(Frames) /\ fromMiner \in Seq(Submissions)
           /\ submitCh \in Seq(Submissions) /\ held \in Submissions
BY DEF V2Inv, V2Types, V2TypeOK

LEMMA AnswersFinite ==
    ASSUME V2Inv
    PROVE  IsFiniteSet(AnswersTo) /\ AnsweredTo \in Nat /\ AnswersTo \subseteq 1..Len(toMiner)
           /\ Len(toMiner) \in Nat
<1>1. Len(toMiner) \in Nat /\ AnswersTo \in SUBSET (1..Len(toMiner))
  BY V2Facts DEF AnswersTo
<1>2. IsFiniteSet(1..Len(toMiner))
  BY <1>1, FS_Interval
<1> QED
  BY <1>1, <1>2, FS_Subset, FS_CardinalityType DEF AnsweredTo

\* A frame of a job changes no answer.
LEMMA JobWritten ==
    ASSUME V2Inv, NEW f \in Frames, f.type = "job", toMiner' = Append(toMiner, f)
    PROVE  /\ AnswersTo' = AnswersTo /\ toMiner' \in Seq(Frames)
           /\ \A i \in AnswersTo : toMiner'[i] = toMiner[i]
           /\ \A i \in 1..Len(toMiner') : toMiner'[i] = f \/ (i \in 1..Len(toMiner) /\ toMiner'[i] = toMiner[i])
<1>1. /\ toMiner \in Seq(Frames) /\ Len(toMiner) \in Nat
  BY V2Facts
<1>2. /\ toMiner' \in Seq(Frames) /\ Len(toMiner') = Len(toMiner) + 1
      /\ \A i \in 1..Len(toMiner) : toMiner'[i] = toMiner[i]
      /\ toMiner'[Len(toMiner) + 1] = f
  BY <1>1, AppendProperties
<1>3. \A i \in 1..Len(toMiner') : i = Len(toMiner) + 1 \/ i \in 1..Len(toMiner)
  BY <1>1, <1>2
<1>4. AnswersTo' = {i \in 1..Len(toMiner') : toMiner'[i].type = "answer"}
  BY DEF AnswersTo
<1>5. \A i : i \in AnswersTo' <=> i \in AnswersTo
  BY <1>1, <1>2, <1>3, <1>4 DEF AnswersTo
<1> QED
  BY <1>2, <1>3, <1>5 DEF AnswersTo

\* An answer is one more, and leaves the earlier ones their turn.
LEMMA AnswerWritten ==
    ASSUME V2Inv, NEW f \in Frames, f.type = "answer", f.id = AnsweredTo + 1,
           toMiner' = Append(toMiner, f)
    PROVE  /\ AnsweredTo' = AnsweredTo + 1 /\ toMiner' \in Seq(Frames)
           /\ \A i \in AnswersTo' : toMiner'[i].id = Cardinality({k \in AnswersTo' : k <= i})
           /\ \A i \in 1..Len(toMiner') : toMiner'[i] = f \/ (i \in 1..Len(toMiner) /\ toMiner'[i] = toMiner[i])
<1>1. PICK n : n = Len(toMiner)
  OBVIOUS
<1>2. toMiner \in Seq(Frames) /\ n \in Nat /\ AnswersTo \subseteq 1..n /\ IsFiniteSet(AnswersTo)
      /\ AnsweredTo \in Nat
  BY <1>1, V2Facts, AnswersFinite
<1>3. /\ toMiner' \in Seq(Frames) /\ Len(toMiner') = n + 1
      /\ \A i \in 1..n : toMiner'[i] = toMiner[i]
      /\ toMiner'[n + 1] = f
  BY <1>1, <1>2, AppendProperties
<1>4. \A i \in 1..n + 1 : i = n + 1 \/ i \in 1..n
  BY <1>2
<1>5. AnswersTo' = {i \in 1..Len(toMiner') : toMiner'[i].type = "answer"}
      /\ AnswersTo = {i \in 1..n : toMiner[i].type = "answer"}
  BY <1>1 DEF AnswersTo
<1>6. AnswersTo' = AnswersTo \cup {n + 1} /\ n + 1 \notin AnswersTo
  <2>1. n + 1 \in 1..n + 1 /\ n + 1 \notin 1..n /\ 1..n \subseteq 1..n + 1
    BY <1>2
  <2>2. \A i : i \in AnswersTo' <=> i \in AnswersTo \/ i = n + 1
    BY <1>3, <1>4, <1>5, <2>1
  <2> QED
    BY <1>2, <2>1, <2>2
<1>7. AnsweredTo' = AnsweredTo + 1
  BY <1>2, <1>6, FS_AddElement DEF AnsweredTo
<1>8. ASSUME NEW i \in AnswersTo'
      PROVE  toMiner'[i].id = Cardinality({k \in AnswersTo' : k <= i})
  <2>1. CASE i = n + 1
    <3>1. \A k \in AnswersTo' : k <= i
      BY <1>2, <1>6, <2>1
    <3>2. {k \in AnswersTo' : k <= i} = AnswersTo'
      BY <3>1
    <3> QED
      BY <1>3, <1>7, <2>1, <3>2 DEF AnsweredTo
  <2>2. CASE i # n + 1
    <3>1. i \in AnswersTo /\ i \in 1..n
      BY <1>2, <1>6, <2>2
    <3>2. ~(n + 1 <= i)
      BY <1>2, <3>1
    <3>3. {k \in AnswersTo' : k <= i} = {k \in AnswersTo : k <= i}
      BY <1>6, <3>2
    <3>4. toMiner[i].id = Cardinality({k \in AnswersTo : k <= i})
      BY <3>1 DEF V2Inv, InTurn
    <3> QED
      BY <1>3, <3>1, <3>3, <3>4
  <2> QED
    BY <2>1, <2>2
<1> QED
  BY <1>1, <1>3, <1>4, <1>7, <1>8

\* Steps that leave the submissions alone
LEMMA TurnSame ==
    ASSUME V2Inv, UNCHANGED <<fromMiner, held, submitCh, submits>>,
           \/ UNCHANGED toMiner
           \/ \E f \in Frames : f.type = "job" /\ toMiner' = Append(toMiner, f),
           reader' = "blocked" <=> reader = "blocked"
    PROVE  InTurn' /\ toMiner' \in Seq(Frames)
<1>1. AnswersTo' = AnswersTo /\ \A i \in AnswersTo : toMiner'[i] = toMiner[i]
  BY JobWritten DEF AnswersTo
<1>2. toMiner' \in Seq(Frames)
  BY JobWritten, V2Facts
<1>3. AnsweredTo' = AnsweredTo /\ HeldBack' = HeldBack
  BY <1>1 DEF AnsweredTo, HeldBack
<1>4. \A i \in AnswersTo' : toMiner'[i].id = Cardinality({k \in AnswersTo' : k <= i})
  BY <1>1 DEF V2Inv, InTurn
<1> QED
  BY <1>2, <1>3, <1>4 DEF V2Inv, InTurn

\* Steps that write no frame and lose no active job
LEMMA JobsSame ==
    ASSUME V2Inv, UNCHANGED toMiner, activeJobs \subseteq activeJobs',
           sending' > 0 => sending' \in activeJobs'
    PROVE  JobsActive'
BY DEF V2Inv, JobsActive

LEMMA ConnectStep ==
    ASSUME V2Inv, NEW ok \in BOOLEAN, Setup(ok) \/ OpenChannel(ok) PROVE V2Inv'
<1>1. UNCHANGED <<published, jobCh, sending, activeJobs, toMiner, fromMiner, gone, reader, held,
                  submitCh, errCh, submits>>
      /\ phase' \in {"setup", "open", "send", "loop", "closed"} /\ phase \in {"setup", "open", "send"}
  BY DEF Setup, OpenChannel
<1>2. V2Types'
  BY <1>1 DEF V2Inv, V2Types, V2TypeOK
<1>3. JobsActive' /\ ReaderStarts'
  BY <1>1 DEF V2Inv, JobsActive, ReaderStarts
<1> QED
  BY <1>1, <1>2, <1>3, TurnSame DEF V2Inv

LEMMA FirstJobStep == ASSUME V2Inv, FirstJob PROVE V2Inv'
<1>1. /\ UNCHANGED <<published, jobCh, toMiner, fromMiner, gone, held, submitCh, errCh, submits>>
      /\ phase = "send" /\ sending = 0 /\ reader = "off"
  BY DEF FirstJob, V2Inv, ReaderStarts
<1>2. \/ published > 0 /\ sending' = published /\ activeJobs' = activeJobs \cup {published}
         /\ UNCHANGED <<phase, reader>>
      \/ phase' = "loop" /\ reader' = "reading" /\ UNCHANGED <<sending, activeJobs>>
  BY DEF FirstJob, StartSend
<1>3. V2Types'
  <2>1. published > 0 => published \in 1..MaxV2Jobs /\ published \in 0..MaxV2Jobs
    BY V2Facts
  <2>2. sending' \in 0..MaxV2Jobs /\ activeJobs' \subseteq 1..MaxV2Jobs
    BY <1>2, <2>1, V2Facts
  <2> QED
    BY <1>1, <1>2, <2>2, V2Facts DEF V2Inv, V2Types, V2TypeOK
<1>4. JobsActive'
  BY <1>1, <1>2 DEF V2Inv, JobsActive
<1>5. ReaderStarts'
  BY <1>1, <1>2 DEF ReaderStarts
<1>6. InTurn'
  BY <1>1, <1>2, TurnSame
<1> QED
  BY <1>3, <1>4, <1>5, <1>6 DEF V2Inv

LEMMA WriteJobStep == ASSUME V2Inv, NEW ok \in BOOLEAN, WriteJob(ok) PROVE V2Inv'
<1>1. PICK j : j = sending
  OBVIOUS
<1>2. /\ j > 0 /\ phase \in {"send", "loop"} /\ sending' = 0
      /\ toMiner' = IF ok THEN Append(toMiner, JobFrame(j)) ELSE toMiner
      /\ phase' = IF ok THEN "loop" ELSE "closed"
      /\ reader' = IF ok /\ phase = "send" THEN "reading" ELSE reader
      /\ UNCHANGED <<published, jobCh, activeJobs, fromMiner, gone, held, submitCh, errCh, submits>>
  BY <1>1 DEF WriteJob
<1>3. PICK f : f = JobFrame(j)
  OBVIOUS
<1>4. f \in Frames /\ f.type = "job" /\ f.id = j /\ j \in activeJobs
  <2>1. j \in Nat /\ j \in activeJobs
    BY <1>1, <1>2, V2Facts, V2Constants DEF V2Inv, JobsActive
  <2> QED
    BY <1>3, <2>1 DEF JobFrame, Frames
<1>5. reader' = "blocked" <=> reader = "blocked"
  BY <1>2 DEF V2Inv, ReaderStarts
<1>6. InTurn' /\ toMiner' \in Seq(Frames)
  BY <1>2, <1>3, <1>4, <1>5, TurnSame
<1>7. V2Types'
  BY <1>2, <1>6, V2Facts DEF V2Inv, V2Types, V2TypeOK
<1>8. JobsActive'
  <2>1. CASE ok
    <3>1. \A i \in 1..Len(toMiner') : toMiner'[i] = f \/ (i \in 1..Len(toMiner) /\ toMiner'[i] = toMiner[i])
      BY <1>2, <1>3, <1>4, <2>1, JobWritten
    <3> QED
      BY <1>2, <1>4, <3>1 DEF V2Inv, JobsActive
  <2>2. CASE ~ok
    BY <1>2, <2>2, JobsSame
  <2> QED
    BY <2>1, <2>2
<1>9. ReaderStarts'
  BY <1>2 DEF ReaderStarts
<1> QED
  BY <1>6, <1>7, <1>8, <1>9 DEF V2Inv

\* Jobs that are published or taken, errors, and the end of the miner
LEMMA LoopStep ==
    ASSUME V2Inv, Publish \/ MinerGoes \/ ReadFails \/ TakeError \/ TakeJob PROVE V2Inv'
<1>1. UNCHANGED <<toMiner, fromMiner, held, submitCh, submits>>
  BY DEF Publish, MinerGoes, ReadFails, TakeError, TakeJob
<1>2. reader' = "blocked" <=> reader = "blocked"
  BY DEF Publish, MinerGoes, ReadFails, TakeError, TakeJob
<1>3. InTurn'
  BY <1>1, <1>2, TurnSame
<1>4. V2Types'
  <2>1. CASE Publish
    <3>1. published' = published + 1 /\ published < MaxV2Jobs
          /\ (jobCh' = jobCh \cup {published + 1} \/ jobCh' = jobCh)
          /\ UNCHANGED <<phase, sending, activeJobs, gone, reader, errCh>>
      BY <2>1 DEF Publish
    <3>2. published' \in 0..MaxV2Jobs /\ published' \in 1..MaxV2Jobs
      BY <3>1, V2Facts, V2Constants
    <3> QED
      BY <1>1, <3>1, <3>2, V2Facts DEF V2Inv, V2Types, V2TypeOK
  <2>2. CASE MinerGoes \/ ReadFails \/ TakeError
    BY <1>1, <2>2, V2Facts DEF V2Inv, V2Types, V2TypeOK, MinerGoes, ReadFails, TakeError
  <2>3. CASE TakeJob
    <3>1. PICK j \in jobCh : jobCh' = jobCh \ {j} /\ StartSend(j)
      BY <2>3 DEF TakeJob
    <3>2. j \in 1..MaxV2Jobs /\ sending' = j /\ activeJobs' = activeJobs \cup {j}
      BY <3>1, V2Facts DEF StartSend
    <3>3. sending' \in 0..MaxV2Jobs
      BY <3>2
    <3> QED
      BY <1>1, <2>3, <3>1, <3>2, <3>3, V2Facts DEF V2Inv, V2Types, V2TypeOK, TakeJob
  <2> QED
    BY <2>1, <2>2, <2>3
<1>5. JobsActive'
  <2>1. activeJobs \subseteq activeJobs' /\ (sending' = sending \/ sending' \in activeJobs')
    BY DEF Publish, MinerGoes, ReadFails, TakeError, TakeJob, StartSend
  <2>2. sending' > 0 => sending' \in activeJobs'
    BY <2>1 DEF V2Inv, JobsActive
  <2> QED
    BY <1>1, <2>1, <2>2, JobsSame
<1>6. ReaderStarts'
  BY DEF V2Inv, ReaderStarts, Publish, MinerGoes, ReadFails, TakeError, TakeJob
<1> QED
  BY <1>3, <1>4, <1>5, <1>6 DEF V2Inv

\* Steps of the submissions that write no frame
LEMMA SubmitMoved ==
    ASSUME V2Inv, UNCHANGED <<phase, published, jobCh, sending, activeJobs, toMiner, gone, errCh>>,
           reader' \in {"reading", "blocked"} \cup {reader}, reader' = reader \/ reader # "off",
           fromMiner' \in Seq(Submissions), submitCh' \in Seq(Submissions),
           Len(submitCh') <= SubmitCap, held' \in Submissions, submits' \in 0..MaxSubmits,
           \A i \in 1..Len(submitCh') : submitCh'[i].seq = AnsweredTo + i,
           reader' = "blocked" => held'.seq = AnsweredTo + Len(submitCh') + 1,
           \A i \in 1..Len(fromMiner') : fromMiner'[i].seq = AnsweredTo + Len(submitCh') + HeldBack' + i,
           submits' = AnsweredTo + Len(submitCh') + HeldBack' + Len(fromMiner')
    PROVE  V2Inv'
<1>1. AnswersTo' = AnswersTo
  BY DEF AnswersTo
<1>2. AnsweredTo' = AnsweredTo
  BY <1>1 DEF AnsweredTo
<1>3. InTurn'
  <2>1. \A i \in AnswersTo' : toMiner'[i].id = Cardinality({k \in AnswersTo' : k <= i})
    BY <1>1 DEF V2Inv, InTurn
  <2> QED
    BY <1>2, <2>1 DEF InTurn
<1>4. V2Types'
  BY V2Facts DEF V2Inv, V2Types, V2TypeOK
<1>5. JobsActive' /\ ReaderStarts'
  BY DEF V2Inv, JobsActive, ReaderStarts
<1> QED
  BY <1>3, <1>4, <1>5 DEF V2Inv

LEMMA TurnFacts ==
    ASSUME V2Inv
    PROVE  /\ \A i \in 1..Len(submitCh) : submitCh[i].seq = AnsweredTo + i
           /\ reader = "blocked" => held.seq = AnsweredTo + Len(submitCh) + 1
           /\ \A i \in 1..Len(fromMiner) : fromMiner[i].seq = AnsweredTo + Len(submitCh) + HeldBack + i
           /\ submits = AnsweredTo + Len(submitCh) + HeldBack + Len(fromMiner)
           /\ AnsweredTo \in Nat /\ Len(submitCh) \in Nat /\ Len(fromMiner) \in Nat /\ HeldBack \in {0, 1}
<1>1. AnsweredTo \in Nat /\ Len(submitCh) \in Nat /\ Len(fromMiner) \in Nat /\ HeldBack \in {0, 1}
  BY V2Facts, AnswersFinite DEF HeldBack
<1> QED
  BY <1>1 DEF V2Inv, InTurn

LEMMA MinerSubmitsStep == ASSUME V2Inv, MinerSubmits PROVE V2Inv'
<1>1. PICK j \in 0..MaxV2Jobs, share \in Shares :
        fromMiner' = Append(fromMiner, [seq |-> submits', job |-> j, share |-> share])
  BY DEF MinerSubmits
<1>2. /\ submits < MaxSubmits /\ submits' = submits + 1
      /\ UNCHANGED <<phase, published, jobCh, sending, activeJobs, toMiner, gone, reader,
                     held, submitCh, errCh>>
  BY DEF MinerSubmits
<1>3. PICK s : s = [seq |-> submits + 1, job |-> j, share |-> share]
  OBVIOUS
<1>4. submits + 1 \in 0..MaxSubmits /\ submits + 1 \in Nat
  BY <1>2, V2Facts, V2Constants
<1>5. s \in Submissions /\ s.seq = submits + 1
  BY <1>3, <1>4 DEF Submissions
<1>6. PICK n : n = Len(fromMiner)
  OBVIOUS
<1>7. /\ fromMiner' \in Seq(Submissions) /\ Len(fromMiner') = n + 1 /\ n \in Nat
      /\ \A i \in 1..n : fromMiner'[i] = fromMiner[i]
      /\ fromMiner'[n + 1] = s
  BY <1>1, <1>2, <1>3, <1>5, <1>6, V2Facts, AppendProperties
<1>8. HeldBack' = HeldBack
  BY <1>2 DEF HeldBack
<1>9. \A i \in 1..Len(fromMiner') : fromMiner'[i].seq = AnsweredTo + Len(submitCh') + HeldBack' + i
  <2> SUFFICES ASSUME NEW i \in 1..n + 1
               PROVE  fromMiner'[i].seq = AnsweredTo + Len(submitCh) + HeldBack + i
    BY <1>2, <1>7, <1>8
  <2>1. CASE i = n + 1
    <3>1. PICK a, q, h : a = AnsweredTo /\ q = Len(submitCh) /\ h = HeldBack
      OBVIOUS
    <3>2. a \in Nat /\ q \in Nat /\ h \in Nat /\ submits = a + q + h + n
      BY <1>6, <3>1, TurnFacts
    <3>3. submits + 1 = a + q + h + (n + 1)
      BY <1>7, <3>2
    <3>4. fromMiner'[i] = s
      BY <1>7, <2>1
    <3> QED
      BY <1>5, <2>1, <3>1, <3>3, <3>4
  <2>2. CASE i \in 1..n
    <3>1. fromMiner[i].seq = AnsweredTo + Len(submitCh) + HeldBack + i
      BY <1>6, <2>2, TurnFacts
    <3>2. fromMiner'[i] = fromMiner[i]
      BY <1>7, <2>2
    <3> QED
      BY <3>1, <3>2
  <2> QED
    BY <1>7, <2>1, <2>2
<1>10. submits' = AnsweredTo + Len(submitCh') + HeldBack' + Len(fromMiner')
  <2>1. PICK a, q, h : a = AnsweredTo /\ q = Len(submitCh) /\ h = HeldBack
    OBVIOUS
  <2>2. a \in Nat /\ q \in Nat /\ h \in Nat /\ submits = a + q + h + n
    BY <1>6, <2>1, TurnFacts
  <2>3. submits + 1 = a + q + h + (n + 1)
    BY <1>7, <2>2
  <2> QED
    BY <1>2, <1>7, <1>8, <2>1, <2>3
<1> QED
  BY <1>2, <1>4, <1>7, <1>9, <1>10, TurnFacts, V2Facts, SubmitMoved

LEMMA ReadSubmitStep == ASSUME V2Inv, ReadSubmit PROVE V2Inv'
<1>1. /\ reader = "reading" /\ fromMiner # <<>>
      /\ held' = Head(fromMiner) /\ fromMiner' = Tail(fromMiner) /\ reader' = "blocked"
      /\ UNCHANGED <<phase, published, jobCh, sending, activeJobs, toMiner, gone, submitCh,
                     errCh, submits>>
  BY DEF ReadSubmit
<1>2. PICK n : n = Len(fromMiner)
  OBVIOUS
<1>3. /\ n \in Nat /\ n > 0 /\ held' = fromMiner[1] /\ held' \in Submissions
      /\ fromMiner' \in Seq(Submissions) /\ Len(fromMiner') = n - 1
      /\ \A i \in 1..n - 1 : fromMiner'[i] = fromMiner[i + 1]
  <2>1. fromMiner \in Seq(Submissions)
    BY V2Facts
  <2> QED
    BY <1>1, <1>2, <2>1, HeadTailProperties
<1>4. HeldBack = 0 /\ HeldBack' = 1
  BY <1>1 DEF HeldBack
<1>5. held'.seq = AnsweredTo + Len(submitCh') + 1
  <2>1. PICK a, q : a = AnsweredTo /\ q = Len(submitCh) /\ q = Len(submitCh')
    BY <1>1
  <2>2. a \in Nat /\ q \in Nat /\ fromMiner[1].seq = a + q + 0 + 1
    BY <1>2, <1>3, <1>4, <2>1, TurnFacts
  <2> QED
    BY <1>3, <2>1, <2>2
<1>6. \A i \in 1..Len(fromMiner') : fromMiner'[i].seq = AnsweredTo + Len(submitCh') + HeldBack' + i
  <2> SUFFICES ASSUME NEW i \in 1..n - 1
               PROVE  fromMiner'[i].seq = AnsweredTo + Len(submitCh) + 1 + i
    BY <1>1, <1>3, <1>4
  <2>1. i + 1 \in 1..n /\ fromMiner'[i] = fromMiner[i + 1]
    BY <1>3
  <2> QED
    BY <1>2, <1>4, <2>1, TurnFacts
<1>7. submits' = AnsweredTo + Len(submitCh') + HeldBack' + Len(fromMiner')
  <2>1. PICK a, q : a = AnsweredTo /\ q = Len(submitCh) /\ q = Len(submitCh')
    BY <1>1
  <2>2. a \in Nat /\ q \in Nat /\ submits = a + q + 0 + n
    BY <1>2, <1>4, <2>1, TurnFacts
  <2>3. submits' = a + q + 1 + (n - 1)
    BY <1>1, <1>3, <2>2
  <2> QED
    BY <1>3, <1>4, <2>1, <2>3
<1> QED
  BY <1>1, <1>3, <1>5, <1>6, <1>7, TurnFacts, V2Facts, SubmitMoved

LEMMA PassSubmitStep == ASSUME V2Inv, PassSubmit PROVE V2Inv'
<1>1. /\ reader = "blocked" /\ Len(submitCh) < SubmitCap
      /\ submitCh' = Append(submitCh, held) /\ held' = NoSubmit /\ reader' = "reading"
      /\ UNCHANGED <<phase, published, jobCh, sending, activeJobs, toMiner, fromMiner,
                     gone, errCh, submits>>
  BY DEF PassSubmit
<1>2. PICK n : n = Len(submitCh)
  OBVIOUS
<1>3. /\ submitCh' \in Seq(Submissions) /\ Len(submitCh') = n + 1 /\ n \in Nat
      /\ \A i \in 1..n : submitCh'[i] = submitCh[i]
      /\ submitCh'[n + 1] = held
  BY <1>1, <1>2, V2Facts, AppendProperties
<1>4. HeldBack = 1 /\ HeldBack' = 0
  BY <1>1 DEF HeldBack
<1>5. held' \in Submissions
  BY <1>1, V2Constants DEF NoSubmit, Submissions
<1>6. \A i \in 1..Len(submitCh') : submitCh'[i].seq = AnsweredTo + i
  <2> SUFFICES ASSUME NEW i \in 1..n + 1 PROVE submitCh'[i].seq = AnsweredTo + i
    BY <1>3
  <2>1. CASE i = n + 1
    BY <1>1, <1>2, <1>3, <2>1, TurnFacts
  <2>2. CASE i \in 1..n
    BY <1>2, <1>3, <2>2, TurnFacts
  <2> QED
    BY <1>3, <2>1, <2>2
<1>7. \A i \in 1..Len(fromMiner') : fromMiner'[i].seq = AnsweredTo + Len(submitCh') + HeldBack' + i
  <2> SUFFICES ASSUME NEW i \in 1..Len(fromMiner)
               PROVE  fromMiner[i].seq = AnsweredTo + (n + 1) + 0 + i
    BY <1>1, <1>3, <1>4
  <2>1. fromMiner[i].seq = AnsweredTo + n + 1 + i
    BY <1>2, <1>4, TurnFacts
  <2>2. AnsweredTo \in Nat /\ i \in Nat
    BY TurnFacts
  <2> QED
    BY <1>3, <2>1, <2>2
<1>8. submits' = AnsweredTo + Len(submitCh') + HeldBack' + Len(fromMiner')
  <2>1. PICK a, m : a = AnsweredTo /\ m = Len(fromMiner)
    OBVIOUS
  <2>2. a \in Nat /\ m \in Nat /\ submits = a + n + 1 + m
    BY <1>2, <1>4, <2>1, TurnFacts
  <2>3. submits = a + (n + 1) + 0 + m
    BY <1>3, <2>2
  <2> QED
    BY <1>1, <1>3, <1>4, <2>1, <2>3
<1>9. Len(submitCh') <= SubmitCap
  BY <1>1, <1>2, <1>3, V2Constants
<1> QED
  BY <1>1, <1>3, <1>5, <1>6, <1>7, <1>8, <1>9, V2Facts, SubmitMoved

LEMMA HandleSubmitStep == ASSUME V2Inv, HandleSubmit PROVE V2Inv'
<1>1. PICK s : s = Head(submitCh)
  OBVIOUS
<1>2. /\ submitCh # <<>> /\ submitCh' = Tail(submitCh)
      /\ toMiner' = Append(toMiner, AnswerFrame(s.seq, Answer(s)))
      /\ UNCHANGED <<phase, published, jobCh, sending, activeJobs, fromMiner, gone, reader,
                     held, errCh, submits>>
  BY <1>1 DEF HandleSubmit
<1>3. PICK n : n = Len(submitCh)
  OBVIOUS
<1>4. /\ n \in Nat /\ n > 0 /\ s = submitCh[1] /\ s \in Submissions
      /\ submitCh' \in Seq(Submissions) /\ Len(submitCh') = n - 1
      /\ \A i \in 1..n - 1 : submitCh'[i] = submitCh[i + 1]
  <2>1. submitCh \in Seq(Submissions)
    BY V2Facts
  <2> QED
    BY <1>1, <1>2, <1>3, <2>1, HeadTailProperties
<1>5. PICK f : f = AnswerFrame(s.seq, Answer(s))
  OBVIOUS
<1>6. f \in Frames /\ f.type = "answer" /\ f.id = s.seq
  <2>1. Answer(s) \in Answers
    BY DEF Answer, Answers
  <2>2. s.seq \in Nat
    BY <1>4 DEF Submissions
  <2> QED
    BY <1>5, <2>1, <2>2 DEF AnswerFrame, Frames
<1>7. s.seq = AnsweredTo + 1
  BY <1>3, <1>4, TurnFacts
<1>8. /\ AnsweredTo' = AnsweredTo + 1 /\ toMiner' \in Seq(Frames)
      /\ \A i \in AnswersTo' : toMiner'[i].id = Cardinality({k \in AnswersTo' : k <= i})
      /\ \A i \in 1..Len(toMiner') : toMiner'[i] = f \/ (i \in 1..Len(toMiner) /\ toMiner'[i] = toMiner[i])
  BY <1>2, <1>5, <1>6, <1>7, AnswerWritten
<1>9. HeldBack' = HeldBack
  BY <1>2 DEF HeldBack
<1>10. InTurn'
  <2>1. \A i \in 1..Len(submitCh') : submitCh'[i].seq = AnsweredTo' + i
    <3> SUFFICES ASSUME NEW i \in 1..n - 1 PROVE submitCh'[i].seq = AnsweredTo + 1 + i
      BY <1>4, <1>8
    <3>1. i + 1 \in 1..n /\ submitCh'[i] = submitCh[i + 1]
      BY <1>4
    <3> QED
      BY <1>3, <3>1, TurnFacts
  <2>2. AnsweredTo' + Len(submitCh') = AnsweredTo + Len(submitCh)
    <3>1. PICK a : a = AnsweredTo
      OBVIOUS
    <3>2. a \in Nat /\ a + 1 + (n - 1) = a + n
      BY <1>4, <3>1, TurnFacts
    <3> QED
      BY <1>3, <1>4, <1>8, <3>1, <3>2
  <2>3. reader' = "blocked" => held'.seq = AnsweredTo' + Len(submitCh') + 1
    BY <1>2, <2>2, TurnFacts
  <2>4. \A i \in 1..Len(fromMiner') : fromMiner'[i].seq = AnsweredTo' + Len(submitCh') + HeldBack' + i
    BY <1>2, <1>9, <2>2, TurnFacts
  <2>5. submits' = AnsweredTo' + Len(submitCh') + HeldBack' + Len(fromMiner')
    BY <1>2, <1>9, <2>2, TurnFacts
  <2> QED
    BY <1>8, <2>1, <2>3, <2>4, <2>5 DEF InTurn
<1>11. V2Types'
  <2>1. Len(submitCh') <= SubmitCap
    BY <1>3, <1>4, V2Facts, V2Constants
  <2> QED
    BY <1>2, <1>4, <1>8, <2>1, V2Facts DEF V2Inv, V2Types, V2TypeOK
<1>12. JobsActive'
  BY <1>2, <1>6, <1>8 DEF V2Inv, JobsActive
<1>13. ReaderStarts'
  BY <1>2 DEF V2Inv, ReaderStarts
<1> QED
  BY <1>10, <1>11, <1>12, <1>13 DEF V2Inv

LEMMA V2Starts == V2Init => V2Inv
<1> SUFFICES ASSUME V2Init PROVE V2Inv
  OBVIOUS
<1>1. /\ phase = "setup" /\ published = 0 /\ jobCh = {} /\ sending = 0
      /\ activeJobs = {} /\ toMiner = <<>> /\ fromMiner = <<>> /\ gone = FALSE
      /\ reader = "off" /\ held = NoSubmit /\ submitCh = <<>> /\ errCh = FALSE
      /\ submits = 0
  BY DEF V2Init
<1>2. Len(toMiner) = 0 /\ Len(fromMiner) = 0 /\ Len(submitCh) = 0
  BY <1>1
<1>3. AnswersTo = {}
  BY <1>2 DEF AnswersTo
<1>4. AnsweredTo = 0 /\ HeldBack = 0
  BY <1>1, <1>3, FS_EmptySet DEF AnsweredTo, HeldBack
<1>5. InTurn
  BY <1>1, <1>2, <1>3, <1>4 DEF InTurn
<1>6. V2Types
  <2>1. gone \in BOOLEAN /\ errCh \in BOOLEAN
    BY <1>1
  <2>2. held \in Submissions
    BY <1>1, V2Constants DEF NoSubmit, Submissions
  <2>3. toMiner \in Seq(Frames) /\ fromMiner \in Seq(Submissions) /\ submitCh \in Seq(Submissions)
    BY <1>1
  <2> QED
    BY <1>1, <1>2, <2>1, <2>2, <2>3, V2Constants DEF V2Types, V2TypeOK
<1>7. JobsActive /\ ReaderStarts
  BY <1>1, <1>2 DEF JobsActive, ReaderStarts
<1> QED
  BY <1>5, <1>6, <1>7 DEF V2Inv

LEMMA V2Kept == V2Inv /\ [V2Next]_v2Vars => V2Inv'
<1> SUFFICES ASSUME V2Inv, [V2Next]_v2Vars PROVE V2Inv'
  OBVIOUS
<1>1. CASE \E ok \in BOOLEAN : Setup(ok) \/ OpenChannel(ok) \/ WriteJob(ok)
  BY <1>1, ConnectStep, WriteJobStep
<1>2. CASE FirstJob \/ Publish \/ MinerSubmits \/ MinerGoes
  BY <1>2, FirstJobStep, LoopStep, MinerSubmitsStep
<1>3. CASE ReadSubmit \/ PassSubmit \/ ReadFails \/ TakeError \/ TakeJob \/ HandleSubmit
  BY <1>3, ReadSubmitStep, PassSubmitStep, LoopStep, HandleSubmitStep
<1>4. CASE UNCHANGED v2Vars
  <2>1. UNCHANGED <<phase, published, jobCh, sending, activeJobs, toMiner, fromMiner, gone,
                    reader, held, submitCh, errCh, submits>>
    BY <1>4 DEF v2Vars
  <2>2. V2Types' /\ JobsActive' /\ ReaderStarts'
    BY <2>1 DEF V2Inv, V2Types, V2TypeOK, JobsActive, ReaderStarts
  <2> QED
    BY <2>1, <2>2, TurnSame DEF V2Inv
<1> QED
  BY <1>1, <1>2, <1>3, <1>4 DEF V2Next

LEMMA V2Invariant == V2Spec => []V2Inv
BY V2Starts, V2Kept, PTL DEF V2Spec

\* Submissions are answered once each, in the order they were sent, and a job the miner was
\* sent stays active (sendJob, handleSubmit).
THEOREM AnsweredInOrder == V2Spec => []SubmissionsAnsweredInOrder
<1>1. V2Inv => SubmissionsAnsweredInOrder
  BY DEF V2Inv, InTurn, JobsActive, SubmissionsAnsweredInOrder
<1> QED
  BY <1>1, V2Invariant, PTL

\* The variables of a connection keep their types (stratum_v2_conn.go).
THEOREM V2TypesCorrect == V2Spec => []V2TypeOK
<1>1. V2Inv => V2TypeOK
  BY DEF V2Inv, V2Types
<1> QED
  BY <1>1, V2Invariant, PTL

HIDE StratumV2Assumption

-----------------------------------------------------------------------------
(* BlockHistory *)

USE HistoryAssumption

Stamps == [generation : Nat, prev : Nat, sequence : Int]

HistoryTypes ==
    /\ best \in Nat /\ rawBlocks \in Seq(Nat)
    /\ parent \in Nat /\ generation \in Nat /\ applying \in Nat
    /\ unscheduled \subseteq Stamps
    /\ shownTip = [hash |-> shownTip.hash, height |-> shownTip.height]
    /\ shownTip.hash \in Nat /\ tipSequence \in Nat
    /\ historyPending \in Stamps /\ walk.req \in Stamps
    /\ DOMAIN walk = {"req", "at", "times"}

\* The node is ahead of everything that names one of its blocks.
NodeLeads ==
    /\ shownTip.hash <= best
    /\ \A i \in 1 .. Len(rawBlocks) : rawBlocks[i] <= best
    /\ walk.at = "commit" => walk.req.prev <= best

\* A request carries a tip sequence of its past.
SequencesPast ==
    /\ \A q \in unscheduled : q.sequence <= tipSequence
    /\ historyPending.sequence <= tipSequence
    /\ walk.req.sequence <= tipSequence

\* A walk that was told its parent is the best block has no announced block
\* ahead of it, as long as none was announced since its request was made.
WalkLeads ==
    walk.at = "commit" /\ walk.req.sequence = tipSequence =>
        shownTip.hash <= walk.req.prev

HistoryInv == HistoryTypes /\ NodeLeads /\ SequencesPast /\ WalkLeads

LEMMA HistoryStarts == HistoryInit => HistoryInv
<1> SUFFICES ASSUME HistoryInit PROVE HistoryInv
  OBVIOUS
<1>1. rawBlocks \in Seq(Nat) /\ Len(rawBlocks) = 0
  BY EmptySeq DEF HistoryInit
<1>2. NoRequest \in Stamps /\ NoRequest.sequence = 0
  BY DEF NoRequest, Stamps
<1>3. HistoryTypes
  BY <1>1, <1>2 DEF HistoryInit, HistoryTypes, NoWalk
<1>4. NodeLeads
  BY <1>1 DEF HistoryInit, NodeLeads, NoWalk
<1>5. SequencesPast /\ WalkLeads
  BY <1>2 DEF HistoryInit, SequencesPast, WalkLeads, NoWalk
<1> QED
  BY <1>3, <1>4, <1>5 DEF HistoryInv

LEMMA NodeStep == ASSUME HistoryInv, NodeTip PROVE HistoryInv' /\ shownTip' = shownTip
<1>1. PICK b \in best + 1 .. MaxBlock, announced \in BOOLEAN :
        /\ best' = b
        /\ rawBlocks' = IF announced THEN Append(rawBlocks, b) ELSE rawBlocks
        /\ UNCHANGED <<feedState, shownTip, tipSequence, walkState>>
  BY DEF NodeTip
<1>2. b \in Nat /\ b > best
  <2>1. best \in Nat
    BY DEF HistoryInv, HistoryTypes
  <2> QED
    BY <2>1
<1>3. /\ rawBlocks' \in Seq(Nat)
      /\ \A i \in 1 .. Len(rawBlocks') : rawBlocks'[i] <= b
  <2>0. rawBlocks \in Seq(Nat) /\ best \in Nat
    BY DEF HistoryInv, HistoryTypes
  <2>1. /\ rawBlocks \in Seq(Nat) /\ best \in Nat
        /\ \A i \in 1 .. Len(rawBlocks) : rawBlocks[i] <= best /\ rawBlocks[i] \in Nat
    BY <2>0, ElementOfSeq DEF HistoryInv, NodeLeads
  <2>2. CASE announced
    BY <1>1, <1>2, <2>1, <2>2, AppendProperties, LenProperties
  <2>3. CASE ~announced
    BY <1>1, <1>2, <2>1, <2>3, LenProperties, ElementOfSeq
  <2> QED
    BY <2>2, <2>3
<1>4. HistoryTypes'
  BY <1>1, <1>2, <1>3 DEF HistoryInv, HistoryTypes, feedState, walkState
<1>5. NodeLeads'
  <2>1. walk' = walk /\ walk.req.prev \in Nat
    BY <1>1 DEF HistoryInv, HistoryTypes, Stamps, walkState
  <2>2. best \in Nat /\ best' = b /\ shownTip.hash \in Nat /\ shownTip' = shownTip
    BY <1>1 DEF HistoryInv, HistoryTypes
  <2>3. shownTip'.hash <= best'
    BY <1>2, <2>2 DEF HistoryInv, NodeLeads
  <2>4. walk'.at = "commit" => walk'.req.prev <= best'
    BY <1>2, <2>1, <2>2 DEF HistoryInv, NodeLeads
  <2>5. \A i \in 1 .. Len(rawBlocks') : rawBlocks'[i] <= best'
    BY <1>3, <2>2
  <2> QED
    BY <2>3, <2>4, <2>5 DEF NodeLeads
<1>6. SequencesPast' /\ WalkLeads'
  BY <1>1 DEF HistoryInv, SequencesPast, WalkLeads, feedState, walkState
<1> QED
  BY <1>1, <1>4, <1>5, <1>6 DEF HistoryInv

LEMMA AnnounceStep == ASSUME HistoryInv, RecordBlockTip PROVE HistoryInv'
<1> DEFINE b == Head(rawBlocks)
<1>1. /\ rawBlocks # <<>> /\ rawBlocks' = Tail(rawBlocks)
      /\ tipSequence' = tipSequence + 1
      /\ shownTip' = [hash |-> b, height |-> HeightOf[b]]
      /\ UNCHANGED <<best, feedState, walkState>>
  BY DEF RecordBlockTip
<1>2. /\ b \in Nat /\ b <= best /\ rawBlocks' \in Seq(Nat)
      /\ \A i \in 1 .. Len(rawBlocks') : rawBlocks'[i] <= best
  <2>1. rawBlocks \in Seq(Nat)
    BY DEF HistoryInv, HistoryTypes
  <2>2. /\ rawBlocks' \in Seq(Nat) /\ Len(rawBlocks') = Len(rawBlocks) - 1
        /\ Len(rawBlocks) \in Nat \ {0} /\ b = rawBlocks[1] /\ b \in Nat
        /\ \A i \in 1 .. Len(rawBlocks') : rawBlocks'[i] = rawBlocks[i + 1]
    BY <1>1, <2>1, HeadTailProperties, LenProperties, EmptySeq
  <2> QED
    BY <2>2 DEF HistoryInv, NodeLeads
<1>3. shownTip'.hash = b /\ shownTip'.height = HeightOf[b]
  BY <1>1
<1>4. HistoryTypes'
  <2>1. /\ best \in Nat /\ parent \in Nat /\ generation \in Nat /\ applying \in Nat
        /\ unscheduled \subseteq Stamps /\ tipSequence \in Nat
        /\ historyPending \in Stamps /\ walk.req \in Stamps
        /\ DOMAIN walk = {"req", "at", "times"}
    BY DEF HistoryInv, HistoryTypes
  <2>2. /\ best' = best /\ parent' = parent /\ generation' = generation
        /\ applying' = applying /\ unscheduled' = unscheduled
        /\ historyPending' = historyPending /\ walk' = walk
    BY <1>1 DEF feedState, walkState
  <2>3. shownTip' = [hash |-> shownTip'.hash, height |-> shownTip'.height]
    BY <1>1, <1>3
  <2>4. shownTip'.hash \in Nat /\ rawBlocks' \in Seq(Nat) /\ tipSequence' \in Nat
    BY <1>1, <1>2, <1>3, <2>1
  <2> QED
    BY <2>1, <2>2, <2>3, <2>4 DEF HistoryTypes
<1>5. NodeLeads'
  <2>1. walk' = walk /\ best' = best
    BY <1>1 DEF walkState
  <2>2. walk'.at = "commit" => walk'.req.prev <= best'
    BY <2>1 DEF HistoryInv, NodeLeads
  <2>3. shownTip'.hash <= best' /\ \A i \in 1 .. Len(rawBlocks') : rawBlocks'[i] <= best'
    BY <1>2, <1>3, <2>1
  <2> QED
    BY <2>2, <2>3 DEF NodeLeads
<1>6. /\ tipSequence \in Nat /\ walk.req.sequence \in Int
      /\ historyPending.sequence \in Int /\ \A q \in unscheduled : q.sequence \in Int
      /\ tipSequence' = tipSequence + 1 /\ walk' = walk
      /\ historyPending' = historyPending /\ unscheduled' = unscheduled
  BY <1>1 DEF HistoryInv, HistoryTypes, Stamps, feedState, walkState
<1>7. SequencesPast'
  BY <1>6 DEF HistoryInv, SequencesPast
<1>8. WalkLeads'
  <2>1. walk.req.sequence < tipSequence'
    BY <1>6 DEF HistoryInv, SequencesPast
  <2> QED
    BY <1>6, <2>1 DEF WalkLeads
<1> QED
  BY <1>4, <1>5, <1>7, <1>8 DEF HistoryInv

LEMMA VerifyStep == ASSUME HistoryInv, VerifyTemplate PROVE HistoryInv' /\ shownTip' = shownTip
<1>1. /\ applying' = best
      /\ UNCHANGED <<best, rawBlocks, parent, generation, unscheduled, shownTip,
                     tipSequence, walkState>>
  BY DEF VerifyTemplate
<1>2. HistoryTypes'
  BY <1>1 DEF HistoryInv, HistoryTypes, walkState
<1> QED
  BY <1>1, <1>2 DEF HistoryInv, NodeLeads, SequencesPast, WalkLeads, walkState

\* Only the height of the shown tip is raised; the new request has no sequence yet.
LEMMA InstallStep ==
    ASSUME HistoryInv, InstallTemplate
    PROVE  HistoryInv' /\ shownTip'.hash = shownTip.hash
<1> DEFINE q == [generation |-> generation + 1, prev |-> applying, sequence |-> -1]
<1>1. /\ parent' = applying /\ generation' = generation + 1 /\ applying' = 0
      /\ shownTip' \in {shownTip, [shownTip EXCEPT !.height = HeightOf[applying]]}
      /\ unscheduled' \in {unscheduled, unscheduled \cup {q}}
      /\ UNCHANGED <<best, rawBlocks, tipSequence, walkState>>
  BY DEF InstallTemplate
<1>2. HistoryTypes /\ NodeLeads /\ SequencesPast /\ WalkLeads
  BY DEF HistoryInv
<1>3. shownTip = [hash |-> shownTip.hash, height |-> shownTip.height]
  BY <1>2 DEF HistoryTypes
<1>4. /\ shownTip'.hash = shownTip.hash
      /\ shownTip' = [hash |-> shownTip'.hash, height |-> shownTip'.height]
  <2>1. CASE shownTip' = shownTip
    BY <1>3, <2>1
  <2>2. CASE shownTip' = [shownTip EXCEPT !.height = HeightOf[applying]]
    <3>1. shownTip' = [hash |-> shownTip.hash, height |-> HeightOf[applying]]
      BY <1>3, <2>2
    <3> QED
      BY <3>1
  <2> QED
    BY <1>1, <2>1, <2>2
<1>5. q \in Stamps /\ q.sequence = -1
  <2>1. generation + 1 \in Nat /\ applying \in Nat
    BY <1>2 DEF HistoryTypes
  <2> QED
    BY <2>1 DEF Stamps
<1>6. unscheduled' \subseteq Stamps /\ \A r \in unscheduled' : r.sequence <= tipSequence
  <2>1. /\ tipSequence \in Nat /\ unscheduled \subseteq Stamps
        /\ \A r \in unscheduled : r.sequence <= tipSequence
    BY <1>2 DEF HistoryTypes, SequencesPast
  <2>2. q.sequence <= tipSequence
    BY <1>5, <2>1
  <2> QED
    BY <1>1, <1>5, <2>1, <2>2
<1>7. HistoryTypes'
  <2>1. /\ best' = best /\ rawBlocks' = rawBlocks /\ tipSequence' = tipSequence
        /\ historyPending' = historyPending /\ walk' = walk
    BY <1>1 DEF walkState
  <2>2. parent' \in Nat /\ generation' \in Nat /\ applying' \in Nat
    BY <1>1, <1>2 DEF HistoryTypes
  <2>3. shownTip'.hash \in Nat
    BY <1>2, <1>4 DEF HistoryTypes
  <2> QED
    BY <1>2, <1>4, <1>6, <2>1, <2>2, <2>3 DEF HistoryTypes
<1>8. walk' = walk /\ historyPending' = historyPending /\ WalkLeads'
  BY <1>1, <1>2, <1>4 DEF WalkLeads, walkState
<1>9. NodeLeads'
  BY <1>1, <1>2, <1>4, <1>8 DEF NodeLeads
<1>10. SequencesPast'
  BY <1>1, <1>2, <1>6, <1>8 DEF SequencesPast
<1> QED
  BY <1>4, <1>7, <1>8, <1>9, <1>10 DEF HistoryInv

LEMMA SequenceStep ==
    ASSUME HistoryInv, ReadTipSequence
    PROVE  HistoryInv' /\ shownTip' = shownTip
<1>1. PICK q \in unscheduled :
        /\ unscheduled' = (unscheduled \ {q}) \cup {[q EXCEPT !.sequence = tipSequence]}
        /\ UNCHANGED <<best, rawBlocks, parent, generation, applying, shownTip,
                       tipSequence, walkState>>
  BY DEF ReadTipSequence
<1>2. tipSequence \in Nat /\ q \in Stamps
  BY DEF HistoryInv, HistoryTypes
<1>3. /\ [q EXCEPT !.sequence = tipSequence] \in Stamps
      /\ [q EXCEPT !.sequence = tipSequence].sequence <= tipSequence
  BY <1>2 DEF Stamps
<1>4. HistoryTypes'
  BY <1>1, <1>3 DEF HistoryInv, HistoryTypes, walkState
<1>5. NodeLeads' /\ SequencesPast' /\ WalkLeads'
  BY <1>1, <1>3 DEF HistoryInv, NodeLeads, SequencesPast, WalkLeads, walkState
<1> QED
  BY <1>1, <1>4, <1>5 DEF HistoryInv

\* What the walker is given has a sequence of the past, and it asks the node first.
LEMMA ScheduleStep ==
    ASSUME HistoryInv, ScheduleRefresh
    PROVE  HistoryInv' /\ shownTip' = shownTip
<1>1. PICK q \in unscheduled :
        /\ unscheduled' = unscheduled \ {q}
        /\ walk' \in {walk, [req |-> q, at |-> "ask", times |-> Recent]}
        /\ historyPending' \in {historyPending, q}
        /\ UNCHANGED <<best, rawBlocks, parent, generation, applying, shownTip,
                       tipSequence>>
  BY DEF ScheduleRefresh
<1>2. q \in Stamps /\ q.sequence <= tipSequence
  BY DEF HistoryInv, HistoryTypes, SequencesPast
<1>3. HistoryTypes'
  BY <1>1, <1>2 DEF HistoryInv, HistoryTypes
<1>4. NodeLeads' /\ SequencesPast' /\ WalkLeads'
  BY <1>1, <1>2 DEF HistoryInv, NodeLeads, SequencesPast, WalkLeads
<1> QED
  BY <1>1, <1>3, <1>4 DEF HistoryInv

LEMMA AskStep == ASSUME HistoryInv, AskBestBlock PROVE HistoryInv' /\ shownTip' = shownTip
<1>1. /\ walk' = [walk EXCEPT !.at = IF best = walk.req.prev THEN "commit" ELSE "done"]
      /\ UNCHANGED <<best, rawBlocks, feedState, shownTip, tipSequence, historyPending>>
  BY DEF AskBestBlock
<1>2. /\ walk'.req = walk.req /\ DOMAIN walk' = {"req", "at", "times"}
      /\ walk'.at = "commit" => best = walk.req.prev
  BY <1>1 DEF HistoryInv, HistoryTypes
<1>3. HistoryTypes'
  BY <1>1, <1>2 DEF HistoryInv, HistoryTypes, feedState
<1>4. SequencesPast' /\ WalkLeads'
  BY <1>1, <1>2 DEF HistoryInv, NodeLeads, SequencesPast, WalkLeads, feedState
<1>5. NodeLeads'
  BY <1>1, <1>2 DEF HistoryInv, HistoryTypes, NodeLeads
<1> QED
  BY <1>1, <1>3, <1>4, <1>5 DEF HistoryInv

LEMMA WalkFaultStep ==
    ASSUME HistoryInv, WalkFails \/ AncestorMissing
    PROVE  HistoryInv' /\ shownTip' = shownTip
<1>1. /\ \/ walk' = [walk EXCEPT !.at = "done"]
         \/ \E n \in 1 .. walk.times - 1 : walk' = [walk EXCEPT !.times = n]
      /\ UNCHANGED <<best, rawBlocks, feedState, shownTip, tipSequence, historyPending>>
  BY DEF WalkFails, AncestorMissing
<1>2. /\ walk'.req = walk.req /\ DOMAIN walk' = {"req", "at", "times"}
      /\ walk'.at \in {"done", walk.at}
  BY <1>1 DEF HistoryInv, HistoryTypes
<1>3. HistoryTypes'
  BY <1>1, <1>2 DEF HistoryInv, HistoryTypes, feedState
<1>4. NodeLeads' /\ SequencesPast' /\ WalkLeads'
  BY <1>1, <1>2 DEF HistoryInv, NodeLeads, SequencesPast, WalkLeads, feedState
<1> QED
  BY <1>1, <1>3, <1>4 DEF HistoryInv

LEMMA NextRequestStep ==
    ASSUME HistoryInv, NextRequest
    PROVE  HistoryInv' /\ shownTip' = shownTip
<1>1. /\ walk' \in {NoWalk, [req |-> historyPending, at |-> "ask", times |-> Recent]}
      /\ historyPending' = NoRequest
      /\ UNCHANGED <<best, rawBlocks, feedState, shownTip, tipSequence>>
  BY DEF NextRequest
<1>2. NoRequest \in Stamps /\ NoRequest.sequence = 0
  BY DEF NoRequest, Stamps
<1>3. /\ walk'.req \in {NoRequest, historyPending} /\ walk'.at # "commit"
      /\ DOMAIN walk' = {"req", "at", "times"}
  BY <1>1 DEF NoWalk
<1>4. HistoryTypes'
  BY <1>1, <1>2, <1>3 DEF HistoryInv, HistoryTypes, feedState
<1>5. SequencesPast'
  BY <1>1, <1>2, <1>3 DEF HistoryInv, HistoryTypes, SequencesPast, feedState
<1>6. NodeLeads' /\ WalkLeads'
  BY <1>1, <1>3 DEF HistoryInv, NodeLeads, WalkLeads
<1> QED
  BY <1>1, <1>4, <1>5, <1>6 DEF HistoryInv

\* The walk's parent is the node's block of some moment, and is not behind what is
\* shown.
LEMMA CommitStep ==
    ASSUME HistoryInv, CommitHistory
    PROVE  HistoryInv' /\ shownTip'.hash >= shownTip.hash
<1>1. /\ walk.at = "commit" /\ walk' = [walk EXCEPT !.at = "done"]
      /\ UNCHANGED <<best, rawBlocks, feedState, tipSequence, historyPending>>
      /\ \/ /\ StillCurrent(walk.req)
            /\ shownTip' = [hash |-> walk.req.prev, height |-> HeightOf[walk.req.prev]]
         \/ shownTip' = shownTip
  BY DEF CommitHistory
<1>2. /\ walk'.req = walk.req /\ walk'.at = "done"
      /\ DOMAIN walk' = {"req", "at", "times"} /\ walk.req.prev \in Nat
      /\ shownTip.hash \in Nat
  BY <1>1 DEF HistoryInv, HistoryTypes, Stamps
<1>3. /\ shownTip' = [hash |-> shownTip'.hash, height |-> shownTip'.height]
      /\ shownTip'.hash \in {shownTip.hash, walk.req.prev}
      /\ shownTip'.hash >= shownTip.hash
  <2>1. CASE shownTip' = shownTip
    BY <1>2, <2>1 DEF HistoryInv, HistoryTypes
  <2>2. CASE /\ StillCurrent(walk.req)
             /\ shownTip' = [hash |-> walk.req.prev, height |-> HeightOf[walk.req.prev]]
    <3>1. shownTip'.hash = walk.req.prev /\ shownTip'.height = HeightOf[walk.req.prev]
      BY <2>2
    <3>2. walk.req.prev >= shownTip.hash
      BY <1>1, <1>2, <2>2 DEF StillCurrent, HistoryInv, WalkLeads
    <3> QED
      BY <2>2, <3>1, <3>2
  <2> QED
    BY <1>1, <2>1, <2>2
<1>4. HistoryTypes'
  BY <1>1, <1>2, <1>3 DEF HistoryInv, HistoryTypes, feedState
<1>5. NodeLeads' /\ SequencesPast' /\ WalkLeads'
  BY <1>1, <1>2, <1>3 DEF HistoryInv, NodeLeads, SequencesPast, WalkLeads, feedState
<1> QED
  BY <1>3, <1>4, <1>5 DEF HistoryInv

----------------------------------------------------------------------------
LEMMA HistoryStep ==
    ASSUME HistoryInv, [HistoryNext]_historyVars
    PROVE  HistoryInv' /\ (rawBlocks' = rawBlocks => shownTip'.hash >= shownTip.hash)
<1>1. shownTip.hash \in Nat
  BY DEF HistoryInv, HistoryTypes
<1>2. CASE NodeTip
  BY <1>1, <1>2, NodeStep
<1>3. CASE RecordBlockTip
  <2>1. rawBlocks' # rawBlocks
    <3>1. rawBlocks \in Seq(Nat) /\ rawBlocks # <<>> /\ rawBlocks' = Tail(rawBlocks)
      BY <1>3 DEF RecordBlockTip, HistoryInv, HistoryTypes
    <3>2. Len(Tail(rawBlocks)) = Len(rawBlocks) - 1 /\ Len(rawBlocks) \in Nat
      BY <3>1, HeadTailProperties, LenProperties
    <3>3. Len(Tail(rawBlocks)) # Len(rawBlocks)
      BY <3>2
    <3> QED
      BY <3>1, <3>3
  <2> QED
    BY <1>3, <2>1, AnnounceStep
<1>4. CASE VerifyTemplate \/ InstallTemplate
  BY <1>1, <1>4, VerifyStep, InstallStep
<1>5. CASE ReadTipSequence \/ ScheduleRefresh
  BY <1>1, <1>5, SequenceStep, ScheduleStep
<1>6. CASE AskBestBlock \/ WalkFails \/ AncestorMissing \/ NextRequest
  BY <1>1, <1>6, AskStep, WalkFaultStep, NextRequestStep
<1>7. CASE CommitHistory
  BY <1>7, CommitStep
<1>8. CASE UNCHANGED historyVars
  <2>1. /\ UNCHANGED <<best, rawBlocks, feedState, shownTip, tipSequence, walkState>>
        /\ UNCHANGED <<parent, generation, applying, unscheduled>>
        /\ UNCHANGED <<historyPending, walk>>
    BY <1>8 DEF historyVars, feedState, walkState
  <2>2. HistoryInv'
    BY <2>1 DEF HistoryInv, HistoryTypes, NodeLeads, SequencesPast, WalkLeads
  <2> QED
    BY <1>1, <2>1, <2>2
<1> QED
  BY <1>2, <1>3, <1>4, <1>5, <1>6, <1>7, <1>8 DEF HistoryNext

(* Only an announced block changes the shown tip to another branch: no header *)
(* walk, however late it ends, takes it back behind a block that was          *)
(* announced while the walk was under way (commitBlockHistoryIfCurrent,       *)
(* job_manager.go 390-411).                                                   *)
THEOREM WalkNeverRollsBack == HistorySpec => NoRollback
<1>1. HistoryInit => HistoryInv
  BY HistoryStarts
<1>2. HistoryInv /\ [HistoryNext]_historyVars => HistoryInv'
  BY HistoryStep
<1>3. /\ HistoryInv /\ [HistoryNext]_historyVars
      => [rawBlocks' = rawBlocks => shownTip'.hash >= shownTip.hash]_historyVars
  BY HistoryStep
<1> QED
  BY <1>1, <1>2, <1>3, PTL DEF HistorySpec, NoRollback

----------------------------------------------------------------------------
(* At rest the page shows the node's tip: every job's tip has a request     *)
(* that is waiting, walking, served or overtaken.                           *)

Named == unscheduled \cup {historyPending, walk.req, NoRequest}

\* A job follows the node, and the node its announcements.
ParentPast ==
    /\ parent <= best /\ applying <= best /\ (applying # 0 => parent <= applying)
    /\ applying # 0 => generation < MaxJobs
    /\ tipSequence + Len(rawBlocks) < best

\* A request of a later job names no earlier parent; the walker takes them in this order.
NamedInOrder ==
    /\ \A a, b \in Named : a.generation <= b.generation => a.prev <= b.prev
    /\ \A a \in Named : a.prev <= parent /\ a.generation <= generation

WalkerInOrder ==
    /\ historyLatest <= generation
    /\ historyPending.generation <= historyLatest /\ walk.req.generation <= historyLatest
    /\ historyPending # NoRequest => walk.req.generation <= historyPending.generation
    /\ walk.at = "idle" => historyPending = NoRequest
    /\ walk.req.sequence >= 0 /\ historyPending.sequence >= 0

\* The last parent whose walk failed is no later than what is still to be walked.
FailedPast ==
    /\ failedParent <= parent
    /\ walk.at # "idle" => failedParent <= walk.req.prev
    /\ historyPending # NoRequest => failedParent <= historyPending.prev
    /\ \A q \in unscheduled : q.generation >= historyLatest => failedParent <= q.prev
    /\ walk.at \in {"ask", "commit"} => walk.times = Recent \/ failedParent = walk.req.prev

HeightShown ==
    /\ shownTip.height <= HeightOf[best] /\ shownTip.height >= HeightOf[shownTip.hash]
    /\ tipSequence > 0 => shownTip.hash # 0

AnnouncedIsBest ==
    ~rawLost =>
        /\ rawBlocks # <<>> => rawBlocks[Len(rawBlocks)] = best
        /\ rawBlocks = <<>> /\ tipSequence > 0 => shownTip.hash = best

Walked ==
    /\ shownTip = [hash |-> parent, height |-> HeightOf[parent]]
    /\ blockTimes = LastOf(ChainTo[parent], Recent)

ParentServed ==
    \/ historyPending.prev = parent
    \/ walk.at \in {"ask", "commit"} /\ walk.req.prev = parent
    \/ Walked
    \/ failedParent = parent \/ best # parent \/ tipSequence > 0

ParentInHand ==
    parent # 0 =>
        \/ \E q \in unscheduled : q.prev = parent /\ q.generation > historyLatest
        \/ ParentServed

TipInv ==
    /\ HistoryInv /\ BlockHistoryTypeOK /\ ParentPast /\ NamedInOrder /\ WalkerInOrder
    /\ FailedPast /\ HeightShown /\ AnnouncedIsBest /\ ParentInHand

LEMMA HistoryConstants ==
    /\ MaxBlock \in Nat /\ MaxBlock >= 3 /\ ForkAt \in 3 .. MaxBlock /\ ForkAt \in Nat
    /\ Recent \in Nat /\ Recent >= 1 /\ MaxJobs \in Nat /\ MaxWalkFaults \in Nat
OBVIOUS

LEMMA HeightFacts ==
    /\ HeightOf[0] = 0
    /\ \A b \in 0 .. MaxBlock : HeightOf[b] \in 0 .. MaxBlock
    /\ \A b, c \in 0 .. MaxBlock : b <= c => HeightOf[b] <= HeightOf[c]
<1>1. \A b \in 0 .. MaxBlock : HeightOf[b] = IF b < ForkAt THEN b ELSE b - 1
  BY DEF HeightOf
<1> QED
  BY <1>1, HistoryConstants

LEMMA ChainTyped == ASSUME NEW b \in 0 .. MaxBlock PROVE ChainTo[b] \in Seq(1 .. MaxBlock)
<1> DEFINE e(i) == IF b >= ForkAt /\ i >= ForkAt - 1 THEN i + 1 ELSE i
<1>1. ChainTo[b] = [i \in 1 .. HeightOf[b] |-> e(i)]
  BY DEF ChainTo
<1>2. HeightOf[b] = IF b < ForkAt THEN b ELSE b - 1
  BY DEF HeightOf
<1>3. \A i \in 1 .. HeightOf[b] : e(i) \in 1 .. MaxBlock
  BY <1>2, HistoryConstants
<1>4. HeightOf[b] \in Nat
  BY HeightFacts
<1> HIDE DEF e
<1>5. ChainTo[b] \in [1 .. HeightOf[b] -> 1 .. MaxBlock]
  BY <1>1, <1>3
<1> QED
  BY <1>4, <1>5

LEMMA LastOfTyped ==
    ASSUME NEW s \in Seq(1 .. MaxBlock), NEW n \in Nat
    PROVE  LastOf(s, n) \in Seq(1 .. MaxBlock) /\ Len(LastOf(s, n)) <= n
<1>1. Len(s) \in Nat /\ \A i \in 1 .. Len(s) : s[i] \in 1 .. MaxBlock
  BY LenProperties, ElementOfSeq
<1>2. CASE Len(s) <= n
  BY <1>2 DEF LastOf
<1>3. CASE ~(Len(s) <= n)
  <2> DEFINE m == Len(s) - n + 1
             k == Len(s)
  <2>1. m \in Int /\ k \in Int /\ m <= k + 1 /\ k - m + 1 = n /\ \A i \in m .. k : s[i] \in 1 .. MaxBlock
    BY <1>1, <1>3
  <2>2. LastOf(s, n) = SubSeq(s, m, k)
    BY <1>3 DEF LastOf
  <2> HIDE DEF m, k
  <2>3. /\ SubSeq(s, m, k) \in Seq(1 .. MaxBlock)
        /\ Len(SubSeq(s, m, k)) = IF m <= k THEN k - m + 1 ELSE 0
    BY <2>1, SubSeqProperties
  <2> QED
    BY <2>1, <2>2, <2>3
<1> QED
  BY <1>2, <1>3

LEMMA RequestTyped ==
    /\ NoRequest \in Requests
    /\ \A a \in Requests : a.generation \in 0 .. MaxJobs /\ a.prev \in 0 .. MaxBlock /\ a.sequence \in -1 .. MaxBlock
BY HistoryConstants DEF Requests, NoRequest

LEMMA TipStarts == HistoryInit => TipInv
<1> SUFFICES ASSUME HistoryInit PROVE TipInv
  OBVIOUS
<1>1. HistoryInv
  BY HistoryStarts
<1>2. /\ NoRequest.generation = 0 /\ NoRequest.prev = 0 /\ NoRequest.sequence = 0
      /\ walk.req = NoRequest /\ walk.at = "idle" /\ walk.times = 0
      /\ historyPending = NoRequest /\ Named = {NoRequest} /\ unscheduled = {}
  BY DEF HistoryInit, NoRequest, NoWalk, Named
<1>3. rawBlocks = <<>> /\ blockTimes = <<>> /\ Len(<<>>) = 0 /\ <<>> \in Seq(1 .. MaxBlock)
  BY EmptySeq DEF HistoryInit
<1>4. BlockHistoryTypeOK
  <2>1. walk \in [req : Requests, at : {"idle", "ask", "commit", "done"}, times : 0 .. Recent]
    BY RequestTyped, HistoryConstants DEF HistoryInit, NoWalk
  <2>2. shownTip \in [hash : 0 .. MaxBlock, height : 0 .. MaxBlock] /\ rawLost \in BOOLEAN
    <3>1. 0 \in 0 .. MaxBlock /\ FALSE \in BOOLEAN
      BY HistoryConstants
    <3> QED
      BY <3>1 DEF HistoryInit
  <2> QED
    BY <1>2, <1>3, <2>1, <2>2, RequestTyped, HistoryConstants DEF HistoryInit, BlockHistoryTypeOK
<1>5. ParentPast /\ NamedInOrder /\ WalkerInOrder /\ ParentInHand
  BY <1>2, <1>3 DEF HistoryInit, ParentPast, NamedInOrder, WalkerInOrder, ParentInHand
<1>6. FailedPast /\ AnnouncedIsBest
  BY <1>2, <1>3 DEF HistoryInit, FailedPast, AnnouncedIsBest
<1>7. HeightShown
  <2>1. HeightOf[best] >= 0
    BY HeightFacts, HistoryConstants DEF HistoryInit
  <2> QED
    BY <2>1, HeightFacts DEF HistoryInit, HeightShown
<1> QED
  BY <1>1, <1>4, <1>5, <1>6, <1>7 DEF TipInv

LEMMA NodeTipKept == ASSUME TipInv, NodeTip PROVE TipInv'
<1>0. /\ BlockHistoryTypeOK /\ ParentPast /\ NamedInOrder /\ WalkerInOrder
      /\ FailedPast /\ HeightShown /\ AnnouncedIsBest /\ ParentInHand
  BY DEF TipInv
<1>1. PICK b \in best + 1 .. MaxBlock, announced \in BOOLEAN :
        /\ best' = b
        /\ rawBlocks' = IF announced THEN Append(rawBlocks, b) ELSE rawBlocks
        /\ (rawLost' <=> rawLost \/ ~announced) /\ rawLost' \in BOOLEAN
        /\ UNCHANGED <<parent, generation, applying, unscheduled, shownTip, blockTimes, tipSequence,
                       historyLatest, historyPending, walk, walkFaults, failedParent>>
  <2>1. PICK b \in best + 1 .. MaxBlock, announced \in BOOLEAN :
          /\ best' = b
          /\ rawBlocks' = IF announced THEN Append(rawBlocks, b) ELSE rawBlocks
          /\ rawLost' = (rawLost \/ ~announced)
          /\ UNCHANGED <<feedState, shownTip, blockTimes, tipSequence, walkState>>
    BY DEF NodeTip
  <2>2. (rawLost' <=> rawLost \/ ~announced) /\ rawLost' \in BOOLEAN
    BY <2>1
  <2> QED
    BY <2>1, <2>2 DEF feedState, walkState
<1>2. /\ best \in 1 .. MaxBlock /\ b \in 1 .. MaxBlock /\ b > best /\ parent \in 0 .. MaxBlock
      /\ applying \in 0 .. MaxBlock /\ tipSequence \in 0 .. MaxBlock
      /\ rawBlocks \in Seq(1 .. MaxBlock) /\ Len(rawBlocks) \in Nat
  BY <1>0, HistoryConstants, LenProperties DEF BlockHistoryTypeOK
<1>3. /\ rawBlocks' \in Seq(1 .. MaxBlock)
      /\ Len(rawBlocks') <= Len(rawBlocks) + 1 /\ Len(rawBlocks') \in Nat
      /\ announced => rawBlocks' # <<>> /\ rawBlocks'[Len(rawBlocks')] = b
  <2>1. CASE announced
    <3>1. /\ Append(rawBlocks, b) \in Seq(1 .. MaxBlock)
          /\ Append(rawBlocks, b) # <<>> /\ Len(Append(rawBlocks, b)) = Len(rawBlocks) + 1
          /\ Append(rawBlocks, b)[Len(rawBlocks) + 1] = b
      BY <1>2, AppendProperties
    <3> QED
      BY <1>1, <1>2, <2>1, <3>1
  <2>2. CASE ~announced
    BY <1>1, <1>2, <2>2
  <2> QED
    BY <2>1, <2>2
<1>4. BlockHistoryTypeOK'
  BY <1>0, <1>1, <1>2, <1>3 DEF BlockHistoryTypeOK
<1>5. ParentPast'
  BY <1>0, <1>1, <1>2, <1>3 DEF ParentPast
<1>6. NamedInOrder' /\ WalkerInOrder' /\ FailedPast'
  BY <1>0, <1>1 DEF NamedInOrder, WalkerInOrder, FailedPast, Named
<1>7. HeightShown'
  <2>1. HeightOf[best] <= HeightOf[b] /\ HeightOf[best] \in Int /\ HeightOf[b] \in Int
        /\ shownTip.height \in Int
    BY <1>0, <1>2, HeightFacts DEF BlockHistoryTypeOK
  <2> QED
    BY <2>1, <1>0, <1>1 DEF HeightShown
<1>8. AnnouncedIsBest'
  BY <1>1, <1>3 DEF AnnouncedIsBest
<1>9. ParentInHand'
  BY <1>0, <1>1, <1>2 DEF ParentInHand, ParentServed, ParentPast
<1>10. HistoryInv'
  BY NodeStep DEF TipInv
<1> QED
  BY <1>4, <1>5, <1>6, <1>7, <1>8, <1>9, <1>10 DEF TipInv

LEMMA RecordKept == ASSUME TipInv, RecordBlockTip PROVE TipInv'
<1>0. /\ BlockHistoryTypeOK /\ ParentPast /\ NamedInOrder /\ WalkerInOrder
      /\ FailedPast /\ HeightShown /\ AnnouncedIsBest /\ ParentInHand
  BY DEF TipInv
<1> DEFINE b == Head(rawBlocks)
<1>1. /\ rawBlocks # <<>> /\ rawBlocks' = Tail(rawBlocks)
      /\ tipSequence' = tipSequence + 1
      /\ shownTip' = [hash |-> b, height |-> HeightOf[b]]
      /\ blockTimes' \in {LastOf(Append(blockTimes, b), Recent), blockTimes}
      /\ UNCHANGED <<best, rawLost, parent, generation, applying, unscheduled,
                     historyLatest, historyPending, walk, walkFaults, failedParent>>
  BY DEF RecordBlockTip, feedState, walkState
<1>2. /\ rawBlocks \in Seq(1 .. MaxBlock) /\ blockTimes \in Seq(1 .. MaxBlock)
      /\ best \in 1 .. MaxBlock /\ tipSequence \in 0 .. MaxBlock /\ Len(blockTimes) <= Recent
  BY <1>0 DEF BlockHistoryTypeOK
<1>3. /\ b \in 1 .. MaxBlock /\ rawBlocks' \in Seq(1 .. MaxBlock) /\ Len(rawBlocks) \in Nat
      /\ Len(rawBlocks) >= 1 /\ Len(rawBlocks') = Len(rawBlocks) - 1 /\ b = rawBlocks[1]
      /\ \A i \in 1 .. Len(rawBlocks') : rawBlocks'[i] = rawBlocks[i + 1]
  BY <1>1, <1>2, HeadTailProperties, LenProperties, EmptySeq
<1>4. b <= best
  BY <1>3 DEF TipInv, HistoryInv, NodeLeads
<1> HIDE DEF b
<1>a. HeightOf[b] \in 0 .. MaxBlock /\ HeightOf[b] <= HeightOf[best]
  BY <1>2, <1>3, <1>4, HeightFacts
<1>5. blockTimes' \in Seq(1 .. MaxBlock) /\ Len(blockTimes') <= Recent
  <2>1. Append(blockTimes, b) \in Seq(1 .. MaxBlock)
    BY <1>2, <1>3, AppendProperties
  <2>2. LastOf(Append(blockTimes, b), Recent) \in Seq(1 .. MaxBlock)
        /\ Len(LastOf(Append(blockTimes, b), Recent)) <= Recent
    BY <2>1, HistoryConstants, LastOfTyped
  <2> QED
    BY <1>1, <1>2, <2>2
<1>6. ParentPast'
  BY <1>0, <1>1, <1>2, <1>3 DEF ParentPast
<1>7. tipSequence' \in 0 .. MaxBlock /\ tipSequence' > 0
  BY <1>0, <1>1, <1>2, <1>3 DEF ParentPast
<1>8. BlockHistoryTypeOK'
  <2>1. shownTip' \in [hash : 0 .. MaxBlock, height : 0 .. MaxBlock]
    BY <1>1, <1>3, <1>a
  <2> QED
    BY <1>0, <1>1, <1>3, <1>5, <1>7, <2>1 DEF BlockHistoryTypeOK
<1>9. NamedInOrder' /\ WalkerInOrder' /\ FailedPast'
  BY <1>0, <1>1 DEF NamedInOrder, WalkerInOrder, FailedPast, Named
<1>10. HeightShown'
  BY <1>1, <1>3, <1>a DEF HeightShown
<1>11. AnnouncedIsBest'
  <2>1. ASSUME ~rawLost, rawBlocks' # <<>> PROVE rawBlocks'[Len(rawBlocks')] = best
    <3>1. Len(rawBlocks') >= 1
      BY <1>3, <2>1, EmptySeq
    <3> QED
      BY <1>0, <1>1, <1>3, <2>1, <3>1 DEF AnnouncedIsBest
  <2>2. ASSUME ~rawLost, rawBlocks' = <<>> PROVE b = best
    <3>1. Len(rawBlocks') = 0
      BY <2>2, EmptySeq
    <3>2. Len(rawBlocks) = 1
      BY <1>3, <3>1
    <3>3. rawBlocks[Len(rawBlocks)] = best
      BY <1>0, <1>1, <2>2 DEF AnnouncedIsBest
    <3> QED
      BY <1>3, <3>2, <3>3
  <2> QED
    BY <2>1, <2>2, <1>1 DEF AnnouncedIsBest
<1>12. ParentInHand'
  BY <1>7 DEF ParentInHand, ParentServed
<1>13. HistoryInv'
  BY AnnounceStep DEF TipInv
<1> QED
  BY <1>6, <1>8, <1>9, <1>10, <1>11, <1>12, <1>13 DEF TipInv

LEMMA VerifyKept == ASSUME TipInv, VerifyTemplate PROVE TipInv'
<1>0. /\ BlockHistoryTypeOK /\ ParentPast /\ NamedInOrder /\ WalkerInOrder
      /\ FailedPast /\ HeightShown /\ AnnouncedIsBest /\ ParentInHand
  BY DEF TipInv
<1>1. /\ applying' = best
      /\ UNCHANGED <<best, rawBlocks, rawLost, parent, generation, unscheduled, shownTip, blockTimes,
                     tipSequence, historyLatest, historyPending, walk, walkFaults, failedParent>>
  BY DEF VerifyTemplate, walkState
<1>2. BlockHistoryTypeOK'
  BY <1>0, <1>1, HistoryConstants DEF BlockHistoryTypeOK
<1>3. ParentPast'
  <2>1. generation < MaxJobs
    BY DEF VerifyTemplate
  <2> QED
    BY <1>0, <1>1, <2>1, HistoryConstants DEF ParentPast, BlockHistoryTypeOK
<1>4. NamedInOrder' /\ WalkerInOrder' /\ FailedPast' /\ HeightShown' /\ AnnouncedIsBest'
  BY <1>0, <1>1 DEF NamedInOrder, WalkerInOrder, FailedPast, HeightShown, AnnouncedIsBest, Named
<1>5. ParentInHand'
  BY <1>0, <1>1 DEF ParentInHand, ParentServed, Walked
<1>6. HistoryInv'
  BY VerifyStep DEF TipInv
<1> QED
  BY <1>2, <1>3, <1>4, <1>5, <1>6 DEF TipInv

\* A changed parent comes with its request; an unchanged one leaves what was done for it.
LEMMA InstallKept == ASSUME TipInv, InstallTemplate PROVE TipInv'
<1>0. /\ BlockHistoryTypeOK /\ ParentPast /\ NamedInOrder /\ WalkerInOrder
      /\ FailedPast /\ HeightShown /\ AnnouncedIsBest /\ ParentInHand
  BY DEF TipInv
<1> DEFINE q == [generation |-> generation + 1, prev |-> applying, sequence |-> -1]
<1>1. /\ applying # 0 /\ parent' = applying /\ generation' = generation + 1 /\ applying' = 0
      /\ shownTip' = IF HeightOf[applying] > shownTip.height
                     THEN [shownTip EXCEPT !.height = HeightOf[applying]] ELSE shownTip
      /\ unscheduled' = unscheduled \cup {q} \/ (unscheduled' = unscheduled /\ parent = applying)
      /\ UNCHANGED <<best, rawBlocks, rawLost, blockTimes, tipSequence, historyLatest,
                     historyPending, walk, walkFaults, failedParent>>
  BY DEF InstallTemplate, walkState
<1>2. /\ best \in 1 .. MaxBlock /\ parent \in 0 .. MaxBlock /\ applying \in 1 .. MaxBlock
      /\ generation \in 0 .. MaxJobs /\ generation' \in 0 .. MaxJobs
      /\ shownTip \in [hash : 0 .. MaxBlock, height : 0 .. MaxBlock]
      /\ unscheduled \subseteq Requests /\ historyLatest \in 0 .. MaxJobs
      /\ failedParent \in 0 .. MaxBlock /\ historyPending \in Requests /\ walk.req \in Requests
  <2>1. generation \in 0 .. MaxJobs /\ generation < MaxJobs /\ applying \in 0 .. MaxBlock
    BY <1>0, <1>1 DEF BlockHistoryTypeOK, ParentPast
  <2>2. generation' \in 0 .. MaxJobs /\ applying \in 1 .. MaxBlock
    BY <2>1, <1>1, HistoryConstants
  <2> QED
    BY <2>2, <1>0 DEF BlockHistoryTypeOK
<1>3. q \in Requests /\ q.generation = generation + 1 /\ q.prev = applying
  <2>1. -1 \in -1 .. MaxBlock /\ generation + 1 \in 0 .. MaxJobs /\ applying \in 0 .. MaxBlock
    BY <1>1, <1>2, HistoryConstants
  <2> QED
    BY <2>1 DEF Requests
<1> HIDE DEF q
<1>4. parent <= applying /\ applying <= best
  BY <1>0, <1>1 DEF ParentPast
<1>5. /\ shownTip' \in [hash : 0 .. MaxBlock, height : 0 .. MaxBlock] /\ shownTip'.hash = shownTip.hash
      /\ shownTip'.height <= HeightOf[best] /\ shownTip'.height >= shownTip.height
  <2>1. HeightOf[applying] \in 0 .. MaxBlock /\ HeightOf[best] \in 0 .. MaxBlock
        /\ HeightOf[applying] <= HeightOf[best] /\ shownTip.height <= HeightOf[best]
    BY <1>0, <1>2, <1>4, HeightFacts DEF HeightShown
  <2> QED
    BY <1>1, <1>2, <2>1
<1>6. BlockHistoryTypeOK'
  <2>1. 0 \in 0 .. MaxBlock /\ applying \in 0 .. MaxBlock
    BY <1>2, HistoryConstants
  <2>2. unscheduled' \subseteq Requests
    BY <1>1, <1>2, <1>3
  <2> QED
    BY <1>0, <1>1, <1>2, <1>5, <2>1, <2>2 DEF BlockHistoryTypeOK
<1>7. ParentPast'
  BY <1>0, <1>1, <1>2, <1>4, HistoryConstants DEF ParentPast
<1>8. NamedInOrder'
  <2>1. Named \subseteq Requests /\ Named' \subseteq Named \cup {q}
    BY <1>1, <1>2, RequestTyped DEF Named
  <2>2. \A a \in Named : /\ a.prev \in Int /\ a.generation \in Int
                         /\ a.prev <= applying /\ a.generation <= generation
    <3>1. \A a \in Named : a.prev \in Int /\ a.generation \in Int
      BY <2>1, RequestTyped
    <3> QED
      BY <3>1, <1>0, <1>2, <1>4 DEF NamedInOrder
  <2>3. \A a \in Named' : a.prev <= applying /\ a.generation <= generation + 1
    BY <2>1, <2>2, <1>2, <1>3
  <2>4. ASSUME NEW a \in Named', NEW c \in Named', a.generation <= c.generation
        PROVE  a.prev <= c.prev
    <3>1. CASE c = q
      BY <3>1, <2>3, <1>3
    <3>2. CASE c # q
      <4>1. c \in Named
        BY <3>2, <2>1
      <4>2. a # q
        BY <4>1, <2>2, <2>4, <1>2, <1>3
      <4> QED
        BY <4>1, <4>2, <2>1, <2>4, <1>0 DEF NamedInOrder
    <3> QED
      BY <3>1, <3>2
  <2> QED
    BY <2>3, <2>4, <1>1 DEF NamedInOrder
<1>9. WalkerInOrder'
  BY <1>0, <1>1, <1>2 DEF WalkerInOrder
<1>10. FailedPast'
  BY <1>0, <1>1, <1>2, <1>3, <1>4 DEF FailedPast
<1>11. HeightShown'
  <2>1. HeightOf[shownTip.hash] \in 0 .. MaxBlock
    BY <1>2, HeightFacts
  <2>2. shownTip.height \in 0 .. MaxBlock /\ shownTip'.height \in 0 .. MaxBlock
    BY <1>2, <1>5
  <2> QED
    BY <1>0, <1>1, <1>5, <2>1, <2>2, HistoryConstants DEF HeightShown
<1>12. AnnouncedIsBest'
  BY <1>0, <1>1, <1>5 DEF AnnouncedIsBest
<1>13. ParentInHand'
  <2>1. CASE parent = applying
    <3>1. Walked => shownTip' = shownTip
      <4>1. Walked => shownTip.height = HeightOf[parent]
        BY DEF Walked
      <4>2. HeightOf[parent] \in Int
        BY <1>2, HeightFacts
      <4> QED
        BY <4>1, <4>2, <2>1, <1>1
    <3>2. Walked => Walked'
      BY <3>1, <2>1, <1>1 DEF Walked
    <3>3. unscheduled \subseteq unscheduled' /\ parent' = parent
      BY <1>1, <2>1
    <3> QED
      BY <3>2, <3>3, <1>0, <1>1 DEF ParentInHand, ParentServed
  <2>2. CASE parent # applying
    <3>1. q \in unscheduled' /\ q.prev = parent' /\ q.generation > historyLatest'
      BY <1>0, <1>1, <1>2, <1>3, <2>2 DEF WalkerInOrder
    <3> QED
      BY <3>1 DEF ParentInHand
  <2> QED
    BY <2>1, <2>2
<1>14. HistoryInv'
  BY InstallStep DEF TipInv
<1> QED
  BY <1>6, <1>7, <1>8, <1>9, <1>10, <1>11, <1>12, <1>13, <1>14 DEF TipInv

LEMMA ReadSequenceKept == ASSUME TipInv, ReadTipSequence PROVE TipInv'
<1>0. /\ BlockHistoryTypeOK /\ ParentPast /\ NamedInOrder /\ WalkerInOrder
      /\ FailedPast /\ HeightShown /\ AnnouncedIsBest /\ ParentInHand
  BY DEF TipInv
<1>1. PICK q \in unscheduled :
        /\ unscheduled' = (unscheduled \ {q}) \cup {[q EXCEPT !.sequence = tipSequence]}
        /\ UNCHANGED <<best, rawBlocks, rawLost, parent, generation, applying, shownTip, blockTimes,
                       tipSequence, historyLatest, historyPending, walk, walkFaults, failedParent>>
  BY DEF ReadTipSequence, walkState
<1> DEFINE r == [q EXCEPT !.sequence = tipSequence]
<1>2. r \in Requests /\ r.generation = q.generation /\ r.prev = q.prev
  <2>1. q \in Requests /\ tipSequence \in -1 .. MaxBlock
    BY <1>0 DEF BlockHistoryTypeOK
  <2> QED
    BY <2>1 DEF Requests
<1> HIDE DEF r
<1>3. unscheduled' = (unscheduled \ {q}) \cup {r}
  BY <1>1 DEF r
<1>4. BlockHistoryTypeOK'
  BY <1>0, <1>1, <1>2, <1>3 DEF BlockHistoryTypeOK
<1>5. NamedInOrder'
  <2>1. q \in Named /\ Named' \subseteq Named \cup {r}
    BY <1>1, <1>3 DEF Named
  <2> QED
    BY <2>1, <1>0, <1>1, <1>2 DEF NamedInOrder
<1>6. ParentPast' /\ WalkerInOrder' /\ HeightShown' /\ AnnouncedIsBest'
  BY <1>0, <1>1 DEF ParentPast, WalkerInOrder, HeightShown, AnnouncedIsBest
<1>7. FailedPast'
  BY <1>0, <1>1, <1>2, <1>3 DEF FailedPast
<1>8. ParentInHand'
  <2>1. Walked' <=> Walked
    BY <1>1 DEF Walked
  <2>2. (\E a \in unscheduled : a.prev = parent /\ a.generation > historyLatest)
        => (\E a \in unscheduled' : a.prev = parent /\ a.generation > historyLatest)
    BY <1>2, <1>3
  <2> QED
    BY <2>1, <2>2, <1>0, <1>1 DEF ParentInHand, ParentServed
<1>9. HistoryInv'
  BY SequenceStep DEF TipInv
<1> QED
  BY <1>4, <1>5, <1>6, <1>7, <1>8, <1>9 DEF TipInv

\* A request is dropped only for one of a later job, whose parent is no earlier.
LEMMA ScheduleKept == ASSUME TipInv, ScheduleRefresh PROVE TipInv'
<1>0. /\ BlockHistoryTypeOK /\ ParentPast /\ NamedInOrder /\ WalkerInOrder
      /\ FailedPast /\ HeightShown /\ AnnouncedIsBest /\ ParentInHand
  BY DEF TipInv
<1>1. PICK q \in unscheduled :
        /\ q.sequence >= 0 /\ unscheduled' = unscheduled \ {q}
        /\ \/ /\ q.generation < historyLatest
              /\ UNCHANGED <<historyLatest, historyPending, walk>>
           \/ /\ q.generation >= historyLatest /\ historyLatest' = q.generation
              /\ \/ /\ walk.at = "idle" /\ historyPending' = historyPending
                    /\ walk' = [req |-> q, at |-> "ask", times |-> Recent]
                 \/ /\ walk.at # "idle" /\ walk' = walk
                    /\ historyPending' =
                         IF \/ historyPending = NoRequest
                            \/ q.generation >= historyPending.generation
                         THEN q ELSE historyPending
        /\ UNCHANGED <<best, rawBlocks, rawLost, parent, generation, applying, shownTip, blockTimes,
                       tipSequence, walkFaults, failedParent>>
  BY DEF ScheduleRefresh
<1>2. /\ q \in Requests /\ q.generation \in Int /\ q.prev \in Int /\ historyLatest \in Int
      /\ historyPending \in Requests /\ historyPending.generation \in Int /\ historyPending.prev \in Int
      /\ walk.req \in Requests /\ walk.req.generation \in Int /\ walk.req.prev \in Int
      /\ generation \in Int /\ parent \in Int /\ failedParent \in Int
      /\ unscheduled \subseteq Requests /\ \A a \in unscheduled : a.generation \in Int /\ a.prev \in Int
  BY <1>0, RequestTyped DEF BlockHistoryTypeOK
<1>3. /\ q \in Named /\ historyPending \in Named /\ walk.req \in Named /\ unscheduled \subseteq Named
      /\ Named' \subseteq Named
  <2>1. historyPending' \in {historyPending, q} /\ walk'.req \in {walk.req, q}
    BY <1>1
  <2> QED
    BY <2>1, <1>1 DEF Named
<1>4. CASE q.generation < historyLatest
  <2>1. UNCHANGED <<historyLatest, historyPending, walk>>
    BY <1>1, <1>2, <1>4
  <2>2. BlockHistoryTypeOK'
    BY <1>0, <1>1, <2>1 DEF BlockHistoryTypeOK
  <2>3. NamedInOrder'
    BY <1>0, <1>1, <1>3 DEF NamedInOrder
  <2>4. ParentPast' /\ WalkerInOrder' /\ HeightShown' /\ AnnouncedIsBest' /\ FailedPast'
    BY <1>0, <1>1, <2>1 DEF ParentPast, WalkerInOrder, HeightShown, AnnouncedIsBest, FailedPast
  <2>5. ParentInHand'
    <3>1. Walked' <=> Walked
      BY <1>1 DEF Walked
    <3>2. \A a \in unscheduled : a.generation > historyLatest => a \in unscheduled'
      BY <1>1, <1>2, <1>4
    <3> QED
      BY <3>1, <3>2, <2>1, <1>0, <1>1 DEF ParentInHand, ParentServed
  <2> QED
    BY <2>2, <2>3, <2>4, <2>5, ScheduleStep DEF TipInv
<1>5. CASE q.generation >= historyLatest
  <2>1. historyLatest' = q.generation /\ q.generation <= generation
    BY <1>0, <1>1, <1>2, <1>3, <1>5 DEF NamedInOrder
  <2>2. /\ historyPending.generation <= q.generation /\ walk.req.generation <= q.generation
        /\ historyPending.prev <= q.prev /\ walk.req.prev <= q.prev
        /\ failedParent <= q.prev
    <3>1. historyPending.generation <= q.generation /\ walk.req.generation <= q.generation
      BY <1>0, <1>2, <1>5 DEF WalkerInOrder
    <3> QED
      BY <3>1, <1>0, <1>1, <1>3, <1>5 DEF NamedInOrder, FailedPast
  <2>3. \/ /\ walk.at = "idle" /\ historyPending' = historyPending
           /\ walk' = [req |-> q, at |-> "ask", times |-> Recent]
        \/ walk.at # "idle" /\ walk' = walk /\ historyPending' = q
    BY <1>1, <1>2, <1>5, <2>2
  <2>4. BlockHistoryTypeOK'
    <3>1. walk \in [req : Requests, at : {"idle", "ask", "commit", "done"}, times : 0 .. Recent]
      BY <1>0 DEF BlockHistoryTypeOK
    <3>2. walk' \in [req : Requests, at : {"idle", "ask", "commit", "done"}, times : 0 .. Recent]
      BY <3>1, <1>2, <2>3, HistoryConstants
    <3>3. historyLatest' \in 0 .. MaxJobs /\ historyPending' \in Requests
      BY <1>2, <2>1, <2>3, RequestTyped
    <3> QED
      BY <3>2, <3>3, <1>0, <1>1 DEF BlockHistoryTypeOK
  <2>5. NamedInOrder'
    BY <1>0, <1>1, <1>3 DEF NamedInOrder
  <2>6. ParentPast' /\ HeightShown' /\ AnnouncedIsBest'
    BY <1>0, <1>1 DEF ParentPast, HeightShown, AnnouncedIsBest
  <2>7. WalkerInOrder'
    BY <1>0, <1>1, <1>2, <2>1, <2>2, <2>3 DEF WalkerInOrder
  <2>8. \A a \in unscheduled' : a.generation >= historyLatest' => failedParent <= a.prev
    BY <1>0, <1>1, <1>2, <1>5, <2>1 DEF FailedPast
  <2>9. FailedPast'
    <3>1. CASE walk.at = "idle"
      BY <3>1, <2>2, <2>3, <2>8, <1>0, <1>1 DEF FailedPast, WalkerInOrder
    <3>2. CASE walk.at # "idle"
      BY <3>2, <2>2, <2>3, <2>8, <1>0, <1>1 DEF FailedPast
    <3> QED
      BY <3>1, <3>2
  <2>10. ParentInHand'
    <3>1. Walked' <=> Walked
      BY <1>1 DEF Walked
    <3>2. q.prev = parent => ParentServed'
      <4>1. CASE walk.at = "idle"
        <5>1. walk'.at = "ask" /\ walk'.req = q
          BY <4>1, <2>3
        <5> QED
          BY <5>1, <1>1 DEF ParentServed
      <4>2. CASE walk.at # "idle"
        BY <4>2, <2>3, <1>1 DEF ParentServed
      <4> QED
        BY <4>1, <4>2
    <3>3. q.prev <= parent
      BY <1>0, <1>3 DEF NamedInOrder
    <3>4. ASSUME NEW a \in unscheduled, a.prev = parent, a.generation > historyLatest, q.prev # parent
          PROVE  a \in unscheduled' /\ a.generation > historyLatest'
      <4>1. ~(a.generation <= q.generation)
        BY <3>3, <3>4, <1>0, <1>2, <1>3 DEF NamedInOrder
      <4> QED
        BY <4>1, <3>4, <1>1, <1>2, <2>1
    <3>5. ParentServed /\ q.prev # parent => ParentServed'
      <4>1. ASSUME q.prev # parent PROVE historyPending.prev # parent /\ walk.req.prev # parent
        BY <4>1, <3>3, <2>2, <1>2
      <4> QED
        BY <4>1, <3>1, <1>1 DEF ParentServed
    <3> QED
      BY <3>2, <3>4, <3>5, <1>0, <1>1 DEF ParentInHand
  <2> QED
    BY <2>4, <2>5, <2>6, <2>7, <2>9, <2>10, ScheduleStep DEF TipInv
<1> QED
  BY <1>2, <1>4, <1>5

LEMMA AskKept == ASSUME TipInv, AskBestBlock PROVE TipInv'
<1>0. /\ BlockHistoryTypeOK /\ ParentPast /\ NamedInOrder /\ WalkerInOrder
      /\ FailedPast /\ HeightShown /\ AnnouncedIsBest /\ ParentInHand
  BY DEF TipInv
<1>1. /\ walk.at = "ask"
      /\ walk' = [walk EXCEPT !.at = IF best = walk.req.prev THEN "commit" ELSE "done"]
      /\ UNCHANGED <<best, rawBlocks, rawLost, parent, generation, applying, unscheduled, shownTip,
                     blockTimes, tipSequence, historyLatest, historyPending, walkFaults, failedParent>>
  BY DEF AskBestBlock, feedState
<1>2. /\ walk' \in [req : Requests, at : {"idle", "ask", "commit", "done"}, times : 0 .. Recent]
      /\ walk'.req = walk.req /\ walk'.times = walk.times
      /\ \/ walk'.at = "commit" /\ best = walk.req.prev
         \/ walk'.at = "done" /\ best # walk.req.prev
  BY <1>0, <1>1 DEF BlockHistoryTypeOK
<1>3. BlockHistoryTypeOK'
  BY <1>0, <1>1, <1>2 DEF BlockHistoryTypeOK
<1>4. ParentPast' /\ NamedInOrder' /\ WalkerInOrder' /\ HeightShown' /\ AnnouncedIsBest'
  BY <1>0, <1>1, <1>2 DEF ParentPast, NamedInOrder, WalkerInOrder, HeightShown, AnnouncedIsBest, Named
<1>5. FailedPast'
  BY <1>0, <1>1, <1>2 DEF FailedPast
<1>6. ParentInHand'
  <2>1. Walked' <=> Walked
    BY <1>1 DEF Walked
  <2>2. ParentServed => ParentServed'
    BY <2>1, <1>1, <1>2 DEF ParentServed
  <2> QED
    BY <2>2, <1>0, <1>1 DEF ParentInHand
<1>7. HistoryInv'
  BY AskStep DEF TipInv
<1> QED
  BY <1>3, <1>4, <1>5, <1>6, <1>7 DEF TipInv

LEMMA FaultKept == ASSUME TipInv, WalkFails \/ AncestorMissing PROVE TipInv'
<1>0. /\ BlockHistoryTypeOK /\ ParentPast /\ NamedInOrder /\ WalkerInOrder
      /\ FailedPast /\ HeightShown /\ AnnouncedIsBest /\ ParentInHand
  BY DEF TipInv
<1>1. /\ walk.at \in {"ask", "commit"} /\ walkFaults < MaxWalkFaults
      /\ \/ walk' = [walk EXCEPT !.at = "done"]
         \/ \E n \in 1 .. walk.times - 1 : walk' = [walk EXCEPT !.times = n]
      /\ walkFaults' = walkFaults + 1 /\ failedParent' = walk.req.prev
      /\ UNCHANGED <<best, rawBlocks, rawLost, parent, generation, applying, unscheduled, shownTip,
                     blockTimes, tipSequence, historyLatest, historyPending>>
  BY DEF WalkFails, AncestorMissing, feedState
<1>2. walk \in [req : Requests, at : {"idle", "ask", "commit", "done"}, times : 0 .. Recent]
      /\ walk.times \in 0 .. Recent
  BY <1>0 DEF BlockHistoryTypeOK
<1>3. /\ walk' \in [req : Requests, at : {"idle", "ask", "commit", "done"}, times : 0 .. Recent]
      /\ walk'.req = walk.req /\ walk'.at # "idle"
  <2>1. CASE walk' = [walk EXCEPT !.at = "done"]
    BY <1>2, <2>1
  <2>2. CASE \E n \in 1 .. walk.times - 1 : walk' = [walk EXCEPT !.times = n]
    <3>1. PICK n \in 1 .. walk.times - 1 : walk' = [walk EXCEPT !.times = n]
      BY <2>2
    <3>2. n \in 0 .. Recent
      BY <1>2, HistoryConstants
    <3> QED
      BY <1>1, <1>2, <3>1, <3>2
  <2> QED
    BY <1>1, <2>1, <2>2
<1>4. /\ walk.req.generation \in Int /\ walk.req.prev \in 0 .. MaxBlock /\ historyLatest \in Int
      /\ historyPending.generation \in Int /\ failedParent \in Int /\ parent \in Int
      /\ \A q \in unscheduled : q.generation \in Int
  BY <1>0, <1>2, RequestTyped DEF BlockHistoryTypeOK
<1>5. BlockHistoryTypeOK'
  <2>1. walkFaults' \in 0 .. MaxWalkFaults
    <3>1. walkFaults \in 0 .. MaxWalkFaults
      BY <1>0 DEF BlockHistoryTypeOK
    <3> QED
      BY <3>1, <1>1, HistoryConstants
  <2> QED
    BY <2>1, <1>0, <1>1, <1>3, <1>4 DEF BlockHistoryTypeOK
<1>6. ParentPast' /\ NamedInOrder' /\ WalkerInOrder' /\ HeightShown' /\ AnnouncedIsBest'
  BY <1>0, <1>1, <1>3 DEF ParentPast, NamedInOrder, WalkerInOrder, HeightShown, AnnouncedIsBest, Named
<1>7. failedParent <= walk.req.prev /\ walk.req.prev <= parent
  BY <1>0, <1>1 DEF FailedPast, NamedInOrder, Named
<1>8. FailedPast'
  <2>1. historyPending # NoRequest => walk.req.prev <= historyPending.prev
    BY <1>0 DEF WalkerInOrder, NamedInOrder, Named
  <2>2. \A q \in unscheduled : q.generation >= historyLatest => walk.req.prev <= q.prev
    <3>1. ASSUME NEW q \in unscheduled, q.generation >= historyLatest
          PROVE  walk.req.generation <= q.generation
      BY <3>1, <1>0, <1>4 DEF WalkerInOrder
    <3> QED
      BY <3>1, <1>0 DEF NamedInOrder, Named
  <2>3. walk.req.prev <= walk'.req.prev /\ failedParent' = walk'.req.prev
    BY <1>1, <1>3, <1>4
  <2> QED
    BY <2>1, <2>2, <2>3, <1>1, <1>3, <1>7 DEF FailedPast
<1>9. ParentInHand'
  <2>1. Walked' <=> Walked
    BY <1>1 DEF Walked
  <2>2. failedParent = parent \/ walk.req.prev = parent => failedParent' = parent
    BY <1>1, <1>4, <1>7
  <2>3. ParentServed => ParentServed'
    BY <2>1, <2>2, <1>1 DEF ParentServed
  <2> QED
    BY <2>3, <1>0, <1>1 DEF ParentInHand
<1>10. HistoryInv'
  BY WalkFaultStep DEF TipInv
<1> QED
  BY <1>5, <1>6, <1>8, <1>9, <1>10 DEF TipInv

\* With no block announced yet, a walk to the job's parent counts.
LEMMA CommitKept == ASSUME TipInv, CommitHistory PROVE TipInv'
<1>0. /\ BlockHistoryTypeOK /\ ParentPast /\ NamedInOrder /\ WalkerInOrder
      /\ FailedPast /\ HeightShown /\ AnnouncedIsBest /\ ParentInHand /\ HistoryInv
  BY DEF TipInv
<1>1. /\ walk.at = "commit" /\ walk' = [walk EXCEPT !.at = "done"]
      /\ \/ /\ StillCurrent(walk.req)
            /\ shownTip' = [hash |-> walk.req.prev, height |-> HeightOf[walk.req.prev]]
            /\ blockTimes' = LastOf(ChainTo[walk.req.prev], walk.times)
         \/ ~StillCurrent(walk.req) /\ shownTip' = shownTip /\ blockTimes' = blockTimes
      /\ UNCHANGED <<best, rawBlocks, rawLost, parent, generation, applying, unscheduled,
                     tipSequence, historyLatest, historyPending, walkFaults, failedParent>>
  BY DEF CommitHistory, feedState
<1>2. /\ walk' \in [req : Requests, at : {"idle", "ask", "commit", "done"}, times : 0 .. Recent]
      /\ walk'.req = walk.req /\ walk'.at = "done" /\ walk.times \in 0 .. Recent
      /\ walk.req.prev \in 0 .. MaxBlock /\ walk.req.sequence \in Int
      /\ parent \in 0 .. MaxBlock /\ best \in 1 .. MaxBlock /\ tipSequence \in 0 .. MaxBlock
      /\ shownTip.hash \in 0 .. MaxBlock
  <2>1. walk \in [req : Requests, at : {"idle", "ask", "commit", "done"}, times : 0 .. Recent]
    BY <1>0 DEF BlockHistoryTypeOK
  <2>2. walk.req \in Requests /\ walk.times \in 0 .. Recent
    BY <2>1
  <2>3. walk.req.prev \in 0 .. MaxBlock /\ walk.req.sequence \in Int
    BY <2>2, RequestTyped
  <2>4. /\ walk' \in [req : Requests, at : {"idle", "ask", "commit", "done"}, times : 0 .. Recent]
        /\ walk'.req = walk.req /\ walk'.at = "done"
    BY <1>1, <2>1
  <2> QED
    BY <1>0, <2>2, <2>3, <2>4 DEF BlockHistoryTypeOK
<1>3. walk.req.prev <= best /\ HeightOf[walk.req.prev] \in 0 .. MaxBlock
      /\ HeightOf[walk.req.prev] <= HeightOf[best]
  <2>1. walk.req.prev <= best
    BY <1>0, <1>1 DEF HistoryInv, NodeLeads
  <2> QED
    BY <2>1, <1>2, HeightFacts
<1>4. BlockHistoryTypeOK'
  <2>1. shownTip' \in [hash : 0 .. MaxBlock, height : 0 .. MaxBlock]
    <3>1. shownTip \in [hash : 0 .. MaxBlock, height : 0 .. MaxBlock]
      BY <1>0 DEF BlockHistoryTypeOK
    <3>2. [hash |-> walk.req.prev, height |-> HeightOf[walk.req.prev]]
            \in [hash : 0 .. MaxBlock, height : 0 .. MaxBlock]
      BY <1>2, <1>3
    <3> QED
      BY <3>1, <3>2, <1>1
  <2>2. blockTimes' \in Seq(1 .. MaxBlock) /\ Len(blockTimes') <= Recent
    <3>1. CASE blockTimes' = blockTimes
      BY <3>1, <1>0 DEF BlockHistoryTypeOK
    <3>2. CASE blockTimes' = LastOf(ChainTo[walk.req.prev], walk.times)
      <4>1. walk.times \in Nat /\ walk.times <= Recent
        BY <1>2, HistoryConstants
      <4>2. blockTimes' \in Seq(1 .. MaxBlock) /\ Len(blockTimes') <= walk.times
        BY <3>2, <4>1, <1>2, ChainTyped, LastOfTyped
      <4>3. Len(blockTimes') \in Nat
        BY <4>2, LenProperties
      <4> QED
        BY <4>1, <4>2, <4>3, HistoryConstants
    <3> QED
      BY <3>1, <3>2, <1>1
  <2> QED
    BY <2>1, <2>2, <1>0, <1>1, <1>2 DEF BlockHistoryTypeOK
<1>5. ParentPast' /\ NamedInOrder' /\ WalkerInOrder'
  BY <1>0, <1>1, <1>2 DEF ParentPast, NamedInOrder, WalkerInOrder, Named
<1>6. FailedPast'
  BY <1>0, <1>1, <1>2 DEF FailedPast
<1>7. HeightShown' /\ AnnouncedIsBest'
  <2>1. CASE shownTip' = shownTip
    BY <2>1, <1>0, <1>1 DEF HeightShown, AnnouncedIsBest
  <2>2. CASE /\ StillCurrent(walk.req)
             /\ shownTip' = [hash |-> walk.req.prev, height |-> HeightOf[walk.req.prev]]
    <3>1. shownTip'.hash = walk.req.prev /\ shownTip'.height = HeightOf[walk.req.prev]
      BY <2>2
    <3>2. ASSUME tipSequence > 0 PROVE walk.req.prev >= shownTip.hash /\ shownTip.hash # 0
      BY <2>2, <3>2, <1>0, <1>1, <1>2 DEF StillCurrent, HistoryInv, WalkLeads, HeightShown
    <3>3. HeightShown'
      BY <3>1, <3>2, <1>1, <1>2, <1>3 DEF HeightShown
    <3>4. AnnouncedIsBest'
      BY <3>1, <3>2, <1>0, <1>1, <1>2, <1>3 DEF AnnouncedIsBest
    <3> QED
      BY <3>3, <3>4
  <2> QED
    BY <2>1, <2>2, <1>1
<1>8. ParentInHand'
  <2>1. CASE tipSequence > 0
    BY <2>1, <1>1 DEF ParentInHand, ParentServed
  <2>2. CASE walk.req.prev # parent
    <3>1. shownTip' = shownTip /\ blockTimes' = blockTimes
      BY <2>2, <1>1 DEF StillCurrent
    <3>2. Walked' <=> Walked
      BY <3>1, <1>1 DEF Walked
    <3>3. ParentServed => ParentServed'
      BY <2>2, <3>2, <1>1, <1>2 DEF ParentServed
    <3> QED
      BY <3>3, <1>0, <1>1 DEF ParentInHand
  <2>3. CASE walk.req.prev = parent /\ ~(tipSequence > 0)
    <3>1. walk.req.sequence = tipSequence
      BY <2>3, <1>0, <1>2 DEF WalkerInOrder, HistoryInv, SequencesPast
    <3>2. /\ shownTip' = [hash |-> parent, height |-> HeightOf[parent]]
          /\ blockTimes' = LastOf(ChainTo[parent], walk.times)
      BY <2>3, <3>1, <1>1 DEF StillCurrent
    <3>3. walk.times = Recent \/ failedParent = parent
      BY <2>3, <1>0, <1>1 DEF FailedPast
    <3> QED
      BY <3>2, <3>3, <1>1 DEF ParentInHand, ParentServed, Walked
  <2> QED
    BY <2>1, <2>2, <2>3
<1>9. HistoryInv'
  BY <1>0, CommitStep
<1> QED
  BY <1>4, <1>5, <1>6, <1>7, <1>8, <1>9 DEF TipInv

LEMMA NextRequestKept == ASSUME TipInv, NextRequest PROVE TipInv'
<1>0. /\ BlockHistoryTypeOK /\ ParentPast /\ NamedInOrder /\ WalkerInOrder
      /\ FailedPast /\ HeightShown /\ AnnouncedIsBest /\ ParentInHand
  BY DEF TipInv
<1>1. /\ walk.at = "done"
      /\ walk' = IF historyPending = NoRequest THEN NoWalk
                 ELSE [req |-> historyPending, at |-> "ask", times |-> Recent]
      /\ historyPending' = NoRequest
      /\ UNCHANGED <<best, rawBlocks, rawLost, parent, generation, applying, unscheduled, shownTip,
                     blockTimes, tipSequence, historyLatest, walkFaults, failedParent>>
  BY DEF NextRequest, feedState
<1>2. /\ walk' \in [req : Requests, at : {"idle", "ask", "commit", "done"}, times : 0 .. Recent]
      /\ walk'.req = historyPending /\ walk'.at # "commit"
      /\ walk'.at = "idle" <=> historyPending = NoRequest
      /\ historyPending # NoRequest => walk'.at = "ask"
  <2>1. historyPending \in Requests
    BY <1>0 DEF BlockHistoryTypeOK
  <2>2. CASE historyPending = NoRequest
    BY <2>1, <2>2, <1>1, HistoryConstants DEF NoWalk
  <2>3. CASE historyPending # NoRequest
    BY <2>1, <2>3, <1>1, HistoryConstants
  <2> QED
    BY <2>2, <2>3
<1>3. Named' \subseteq Named
  BY <1>1, <1>2 DEF Named
<1>4. NoRequest.generation = 0 /\ NoRequest.sequence = 0 /\ NoRequest.prev = 0
  BY DEF NoRequest
<1>5. BlockHistoryTypeOK'
  BY <1>0, <1>1, <1>2, RequestTyped DEF BlockHistoryTypeOK
<1>6. ParentPast' /\ NamedInOrder' /\ HeightShown' /\ AnnouncedIsBest'
  BY <1>0, <1>1, <1>3 DEF ParentPast, NamedInOrder, HeightShown, AnnouncedIsBest
<1>7. WalkerInOrder'
  <2>1. historyLatest >= 0
    BY <1>0 DEF BlockHistoryTypeOK
  <2> QED
    BY <2>1, <1>0, <1>1, <1>2, <1>4 DEF WalkerInOrder
<1>8. FailedPast'
  BY <1>0, <1>1, <1>2 DEF FailedPast
<1>9. ParentInHand'
  <2>1. Walked' <=> Walked
    BY <1>1 DEF Walked
  <2>2. parent # 0 /\ historyPending.prev = parent => walk'.at = "ask" /\ walk'.req.prev = parent
    BY <1>2, <1>4
  <2>3. parent # 0 /\ ParentServed => ParentServed'
    BY <2>1, <2>2, <1>1 DEF ParentServed
  <2> QED
    BY <2>3, <1>0, <1>1 DEF ParentInHand
<1>10. HistoryInv'
  BY NextRequestStep DEF TipInv
<1> QED
  BY <1>5, <1>6, <1>7, <1>8, <1>9, <1>10 DEF TipInv

LEMMA TipKept == TipInv /\ [HistoryNext]_historyVars => TipInv'
<1> SUFFICES ASSUME TipInv, [HistoryNext]_historyVars PROVE TipInv'
  OBVIOUS
<1>1. CASE NodeTip \/ RecordBlockTip \/ VerifyTemplate \/ InstallTemplate
  BY <1>1, NodeTipKept, RecordKept, VerifyKept, InstallKept
<1>2. CASE ReadTipSequence \/ ScheduleRefresh \/ AskBestBlock
  BY <1>2, ReadSequenceKept, ScheduleKept, AskKept
<1>3. CASE WalkFails \/ AncestorMissing \/ CommitHistory \/ NextRequest
  BY <1>3, FaultKept, CommitKept, NextRequestKept
<1>4. CASE UNCHANGED historyVars
  <2>1. UNCHANGED <<best, rawBlocks, rawLost, parent, generation, applying, unscheduled, shownTip,
                    blockTimes, tipSequence, historyLatest, historyPending, walk, walkFaults,
                    failedParent>>
    BY <1>4 DEF historyVars
  <2>2. BlockHistoryTypeOK' /\ ParentPast' /\ NamedInOrder' /\ WalkerInOrder' /\ FailedPast'
    BY <2>1 DEF TipInv, BlockHistoryTypeOK, ParentPast, NamedInOrder, WalkerInOrder, FailedPast, Named
  <2>3. HeightShown' /\ AnnouncedIsBest' /\ ParentInHand'
    BY <2>1 DEF TipInv, HeightShown, AnnouncedIsBest, ParentInHand, ParentServed, Walked
  <2> QED
    BY <1>4, <2>2, <2>3, HistoryStep DEF TipInv
<1> QED
  BY <1>1, <1>2, <1>3, <1>4 DEF HistoryNext

LEMMA TipInvHolds == HistorySpec => []TipInv
BY TipStarts, TipKept, PTL DEF HistorySpec

(* However notifications, templates and header walks overlapped, once they   *)
(* are over the page shows the node's tip, by its last announcement or by    *)
(* the walk of the newest job.                                               *)
THEOREM TipShownAtRest == HistorySpec => []ShownTipIsBest
<1>1. TipInv => ShownTipIsBest
  <2> SUFFICES ASSUME TipInv, FeedAtRest
               PROVE  LET walked == tipSequence = 0 /\ failedParent # best
                      IN /\ (walked \/ (tipSequence > 0 /\ ~rawLost)) =>
                              shownTip = [hash |-> best, height |-> HeightOf[best]]
                         /\ walked => blockTimes = LastOf(ChainTo[best], Recent)
    BY DEF ShownTipIsBest
  <2>1. /\ ParentInHand /\ WalkerInOrder /\ HeightShown /\ AnnouncedIsBest /\ BlockHistoryTypeOK
        /\ unscheduled = {} /\ walk.at = "idle" /\ rawBlocks = <<>> /\ parent = best
    BY DEF TipInv, FeedAtRest
  <2>2. best \in 1 .. MaxBlock /\ tipSequence \in 0 .. MaxBlock
        /\ shownTip \in [hash : 0 .. MaxBlock, height : 0 .. MaxBlock]
    BY <2>1 DEF BlockHistoryTypeOK
  <2>3. ASSUME tipSequence = 0, failedParent # best PROVE Walked
    <3>1. historyPending.prev # parent
      BY <2>1, <2>2 DEF WalkerInOrder, NoRequest
    <3> QED
      BY <3>1, <2>1, <2>2, <2>3 DEF ParentInHand, ParentServed
  <2>4. ASSUME tipSequence > 0, ~rawLost PROVE shownTip = [hash |-> best, height |-> HeightOf[best]]
    <3>1. shownTip.hash = best
      BY <2>1, <2>4 DEF AnnouncedIsBest
    <3>2. shownTip.height = HeightOf[best]
      BY <2>1, <2>2, <3>1, HeightFacts DEF HeightShown
    <3> QED
      BY <2>2, <3>1, <3>2
  <2> QED
    BY <2>1, <2>3, <2>4 DEF Walked
<1> QED
  BY <1>1, TipInvHolds, PTL

\* Tip, history and requests keep their types (job_block_history.go).
THEOREM HistoryTypesCorrect == HistorySpec => []BlockHistoryTypeOK
<1>1. TipInv => BlockHistoryTypeOK
  BY DEF TipInv
<1> QED
  BY <1>1, TipInvHolds, PTL

HIDE HistoryAssumption

-----------------------------------------------------------------------------
(* RpcClient *)

USE RpcAssumption

Where(step) == {c \in Calls : rpcCall[c].step = step}

\* The cookies that were looked at and read
CookiesInOrder ==
    /\ stamp <= cookie
    /\ \A r \in Reloaders :
          /\ reload[r].step # "none" => reload[r].stat <= cookie
          /\ reload[r].step = "read" => reload[r].stat <= reload[r].read /\ reload[r].read <= cookie
    /\ boot = "up" /\ stamp = cookie /\ cookie \notin {0, unread} => creds = cookie

\* Losses and recoveries alternate; each is counted, or about to be.
LossesCounted ==
    /\ \A step \in {"failed", "lost", "back"} : IsFiniteSet(Where(step))
    /\ disconnects + Cardinality(Where("lost")) =
          reconnects + Cardinality(Where("back")) + (IF unhealthy THEN 1 ELSE 0)
    /\ disconnects + Cardinality(Where("failed")) + Cardinality(Where("lost")) <= errors

RpcInv == RpcTypeOK /\ CookiesInOrder /\ LossesCounted

RpcSteps == {"idle", "sent", "failed", "lost", "retry", "good", "back", "done"}

LEMMA CallMoves ==
    ASSUME RpcTypeOK, NEW c \in Calls, NEW y \in RpcSteps, NEW x \in RpcSteps,
           x # y, rpcCall[c].step = y, rpcCall'[c].step = x,
           \A d \in Calls \ {c} : rpcCall'[d] = rpcCall[d],
           NEW s \in RpcSteps, IsFiniteSet(Where(s))
    PROVE  /\ IsFiniteSet(Where(s)') /\ Cardinality(Where(s)) \in Nat
           /\ Cardinality(Where(s)') = IF s = x THEN Cardinality(Where(s)) + 1
                                       ELSE IF s = y THEN Cardinality(Where(s)) - 1
                                       ELSE Cardinality(Where(s))
<1>1. Cardinality(Where(s)) \in Nat
  BY FS_CardinalityType
<1>2. CASE s = x
  <2>1. Where(s)' = Where(s) \cup {c} /\ c \notin Where(s)
    BY <1>2 DEF Where
  <2> QED
    BY <1>1, <1>2, <2>1, FS_AddElement
<1>3. CASE s = y
  <2>1. Where(s)' = Where(s) \ {c} /\ c \in Where(s)
    BY <1>3 DEF Where
  <2> QED
    BY <1>1, <1>3, <2>1, FS_RemoveElement
<1>4. CASE s # x /\ s # y
  <2>1. Where(s)' = Where(s)
    BY <1>4 DEF Where
  <2> QED
    BY <1>1, <1>4, <2>1
<1> QED
  BY <1>2, <1>3, <1>4

\* A call that goes on from y to x without a cookie being touched
LEMMA CallGoes ==
    ASSUME RpcTypeOK, NEW c \in Calls, NEW y \in RpcSteps, NEW x \in RpcSteps, x # y,
           rpcCall[c].step = y,
           \/ rpcCall' = [rpcCall EXCEPT ![c].step = x]
           \/ \E k \in 0..MaxCookies : rpcCall' = [rpcCall EXCEPT ![c] = [step |-> x, cred |-> k]]
    PROVE  /\ rpcCall' \in [Calls -> [step : RpcSteps, cred : 0..MaxCookies]]
           /\ rpcCall'[c].step = x
           /\ \A d \in Calls \ {c} : rpcCall'[d] = rpcCall[d]
<1>1. rpcCall \in [Calls -> [step : RpcSteps, cred : 0..MaxCookies]]
  BY DEF RpcTypeOK, RpcSteps
<1> QED
  BY <1>1

LEMMA CookiesUntouched ==
    ASSUME CookiesInOrder, cookie' = cookie, boot' = boot, creds' = creds, stamp' = stamp,
           unread' = unread, reload' = reload
    PROVE  CookiesInOrder'
BY DEF CookiesInOrder

\* What the counters of a call's step do
LEMMA CallCounted ==
    ASSUME RpcTypeOK, LossesCounted, NEW c \in Calls, NEW y \in RpcSteps, NEW x \in RpcSteps,
           x # y, rpcCall[c].step = y, rpcCall'[c].step = x,
           \A d \in Calls \ {c} : rpcCall'[d] = rpcCall[d],
           errors' = errors + (IF x = "failed" THEN 1 ELSE 0) \/ (errors' = errors + 1),
           disconnects' = disconnects + (IF y = "lost" THEN 1 ELSE 0),
           reconnects' = reconnects + (IF y = "back" THEN 1 ELSE 0),
           unhealthy \in BOOLEAN, unhealthy' \in BOOLEAN,
           x = "lost" => y = "failed" /\ ~unhealthy /\ unhealthy',
           x = "back" => y = "good" /\ unhealthy /\ ~unhealthy',
           x \notin {"lost", "back"} => (unhealthy' <=> unhealthy)
    PROVE  LossesCounted' /\ disconnects' <= errors' /\ reconnects' <= errors'
                          /\ disconnects' \in Nat /\ reconnects' \in Nat
<1> DEFINE f == Cardinality(Where("failed"))
           l == Cardinality(Where("lost"))
           b == Cardinality(Where("back"))
<1>1. \A s \in {"failed", "lost", "back"} :
         /\ IsFiniteSet(Where(s)') /\ Cardinality(Where(s)) \in Nat
         /\ Cardinality(Where(s)') = IF s = x THEN Cardinality(Where(s)) + 1
                                     ELSE IF s = y THEN Cardinality(Where(s)) - 1
                                     ELSE Cardinality(Where(s))
  BY CallMoves DEF LossesCounted, RpcSteps
<1>2. /\ f \in Nat /\ l \in Nat /\ b \in Nat
      /\ f' = IF x = "failed" THEN f + 1 ELSE IF y = "failed" THEN f - 1 ELSE f
      /\ l' = IF x = "lost" THEN l + 1 ELSE IF y = "lost" THEN l - 1 ELSE l
      /\ b' = IF x = "back" THEN b + 1 ELSE IF y = "back" THEN b - 1 ELSE b
  BY <1>1
<1>3. f' \in Nat /\ l' \in Nat /\ b' \in Nat
  BY <1>1, FS_CardinalityType
<1>4. /\ disconnects + l = reconnects + b + (IF unhealthy THEN 1 ELSE 0)
      /\ disconnects + f + l <= errors
      /\ disconnects \in Nat /\ reconnects \in Nat /\ errors \in Nat
  BY DEF LossesCounted, RpcTypeOK
<1> HIDE DEF f, l, b
<1>5. disconnects' \in Nat /\ reconnects' \in Nat /\ errors' \in Nat
  BY <1>4
<1>6. disconnects' + l' = reconnects' + b' + (IF unhealthy' THEN 1 ELSE 0)
  <2>1. CASE x = "lost"
    BY <2>1, <1>2, <1>4
  <2>2. CASE x = "back"
    BY <2>2, <1>2, <1>4
  <2>3. CASE x \notin {"lost", "back"}
    BY <2>3, <1>2, <1>4
  <2> QED
    BY <2>1, <2>2, <2>3
<1>7. disconnects' + f' + l' <= errors'
  BY <1>2, <1>4
<1>8. disconnects' <= errors' /\ reconnects' <= errors'
  BY <1>3, <1>5, <1>6, <1>7
<1> QED
  BY <1>1, <1>5, <1>6, <1>7, <1>8 DEF LossesCounted, f, l, b

LEMMA RpcStarts == RpcInit => RpcInv
<1> SUFFICES ASSUME RpcInit PROVE RpcInv
  OBVIOUS
<1>1. RpcTypeOK
  <2>1. connected \in BOOLEAN /\ unhealthy \in BOOLEAN
    BY DEF RpcInit
  <2>2. /\ NoCall \in [step : RpcSteps, cred : 0..MaxCookies]
        /\ NoReload \in [step : {"none", "stat", "read"}, stat : 0..MaxCookies, read : 0..MaxCookies]
    BY DEF NoCall, NoReload, RpcSteps
  <2> QED
    BY <2>1, <2>2 DEF RpcInit, RpcTypeOK, RpcSteps
<1>2. CookiesInOrder
  BY DEF RpcInit, CookiesInOrder, NoReload
<1>3. \A s \in {"failed", "lost", "back"} : Where(s) = {}
  BY DEF RpcInit, Where, NoCall
<1>4. LossesCounted
  BY <1>3, FS_EmptySet DEF RpcInit, LossesCounted
<1> QED
  BY <1>1, <1>2, <1>4 DEF RpcInv

\* The steps of the node, the client's start and the reloads
LEMMA CookieSteps ==
    ASSUME RpcInv,
           \/ NodeStarts \/ ReadConfig \/ CreateClient \/ UNCHANGED rpcVars
           \/ \E r \in Reloaders : \/ Stat(r) /\ rpcCall' = rpcCall
                                   \/ ReadCookie(r) \/ StoreCookie(r)
    PROVE  RpcInv'
<1>0. RpcTypeOK /\ CookiesInOrder /\ LossesCounted
  BY DEF RpcInv
<1>1. /\ rpcCall' = rpcCall /\ errors' = errors /\ connected' = connected
      /\ unhealthy' = unhealthy /\ disconnects' = disconnects /\ reconnects' = reconnects
  BY DEF NodeStarts, ReadConfig, CreateClient, Stat, ReadCookie, StoreCookie, rpcVars, healthVars
<1>2. LossesCounted'
  BY <1>0, <1>1 DEF LossesCounted, Where
<1>3. /\ cookie \in 0..MaxCookies /\ stamp \in 0..MaxCookies /\ creds \in 0..MaxCookies
      /\ unread \in 0..MaxCookies /\ boot \in {"config", "create", "up"} /\ stamp <= cookie
      /\ reload \in [Reloaders -> [step : {"none", "stat", "read"}, stat : 0..MaxCookies,
                                   read : 0..MaxCookies]]
  BY <1>0 DEF RpcTypeOK, CookiesInOrder
<1>a. CASE NodeStarts
  <2>1. /\ cookie' = cookie + 1 /\ cookie' \in 0..MaxCookies /\ boot' = boot /\ creds' = creds
        /\ stamp' = stamp /\ unread' = unread /\ reload' = reload
    BY <1>a, <1>3 DEF NodeStarts
  <2>2. RpcTypeOK'
    BY <2>1, <1>0, <1>1 DEF RpcTypeOK
  <2>3. CookiesInOrder'
    <3>1. ASSUME NEW r \in Reloaders
          PROVE  /\ reload[r].stat \in Nat /\ reload[r].read \in Nat
                 /\ reload[r].step # "none" => reload[r].stat <= cookie
                 /\ reload[r].step = "read" => reload[r].stat <= reload[r].read /\ reload[r].read <= cookie
      BY <1>0, <1>3 DEF CookiesInOrder
    <3> QED
      BY <3>1, <2>1, <1>3 DEF CookiesInOrder
  <2> QED
    BY <1>2, <2>2, <2>3 DEF RpcInv
<1>b. CASE ReadConfig
  <2>1. RpcTypeOK'
    BY <1>b, <1>0, <1>1 DEF RpcTypeOK, ReadConfig
  <2>2. CookiesInOrder'
    BY <1>b, <1>0 DEF CookiesInOrder, ReadConfig
  <2> QED
    BY <1>2, <2>1, <2>2 DEF RpcInv
<1>c. CASE CreateClient
  <2>1. RpcTypeOK'
    BY <1>c, <1>0, <1>1 DEF RpcTypeOK, CreateClient
  <2>2. CookiesInOrder'
    BY <1>c, <1>0, <1>3 DEF CookiesInOrder, CreateClient
  <2> QED
    BY <1>2, <2>1, <2>2 DEF RpcInv
<1>d. CASE UNCHANGED rpcVars
  <2>1. RpcTypeOK'
    BY <1>d, <1>0, <1>1 DEF RpcTypeOK, rpcVars
  <2>2. CookiesInOrder'
    BY <1>d, <1>0, CookiesUntouched DEF rpcVars
  <2> QED
    BY <1>2, <2>1, <2>2 DEF RpcInv
<1>e. ASSUME NEW r \in Reloaders, Stat(r) PROVE RpcInv'
  <2>1. /\ cookie' = cookie /\ boot' = boot /\ creds' = creds /\ stamp' = stamp /\ unread' = unread
        /\ reload' = [reload EXCEPT ![r] = [step |-> "stat", stat |-> cookie, read |-> 0]]
    BY <1>e DEF Stat
  <2>2. reload' \in [Reloaders -> [step : {"none", "stat", "read"}, stat : 0..MaxCookies,
                                   read : 0..MaxCookies]]
    BY <2>1, <1>3
  <2>3. RpcTypeOK'
    BY <2>1, <2>2, <1>0, <1>1 DEF RpcTypeOK
  <2>4. CookiesInOrder'
    BY <2>1, <1>0, <1>3 DEF CookiesInOrder
  <2> QED
    BY <1>2, <2>3, <2>4 DEF RpcInv
<1>f. ASSUME NEW r \in Reloaders, ReadCookie(r) PROVE RpcInv'
  <2>1. /\ cookie' = cookie /\ boot' = boot /\ creds' = creds /\ stamp' = stamp /\ unread' = unread
        /\ reload[r].step = "stat"
        /\ reload' = [reload EXCEPT ![r].step = "read", ![r].read = cookie]
    BY <1>f DEF ReadCookie
  <2>2. /\ reload' \in [Reloaders -> [step : {"none", "stat", "read"}, stat : 0..MaxCookies,
                                      read : 0..MaxCookies]]
        /\ \A q \in Reloaders \ {r} : reload'[q] = reload[q]
        /\ reload'[r].stat = reload[r].stat /\ reload'[r].read = cookie
    BY <2>1, <1>3
  <2>3. RpcTypeOK'
    BY <2>1, <2>2, <1>0, <1>1 DEF RpcTypeOK
  <2>4. CookiesInOrder'
    <3>1. reload[r].stat <= cookie
      BY <2>1, <1>0 DEF CookiesInOrder
    <3> QED
      BY <3>1, <2>1, <2>2, <1>0, <1>3 DEF CookiesInOrder
  <2> QED
    BY <1>2, <2>3, <2>4 DEF RpcInv
<1>g. ASSUME NEW r \in Reloaders, StoreCookie(r) PROVE RpcInv'
  <2>1. /\ cookie' = cookie /\ boot' = boot /\ unread' = unread
        /\ creds' = reload[r].read /\ stamp' = reload[r].stat
        /\ reload[r].step = "read"
        /\ reload' = [reload EXCEPT ![r] = NoReload]
    BY <1>g DEF StoreCookie
  <2>2. /\ reload' \in [Reloaders -> [step : {"none", "stat", "read"}, stat : 0..MaxCookies,
                                      read : 0..MaxCookies]]
        /\ \A q \in Reloaders \ {r} : reload'[q] = reload[q]
        /\ reload'[r].step = "none"
    BY <2>1, <1>3 DEF NoReload
  <2>3. reload[r].stat \in 0..MaxCookies /\ reload[r].read \in 0..MaxCookies
    BY <1>3
  <2>4. RpcTypeOK'
    BY <2>1, <2>2, <2>3, <1>0, <1>1 DEF RpcTypeOK
  <2>5. CookiesInOrder'
    <3>1. reload[r].stat <= reload[r].read /\ reload[r].read <= cookie
      BY <2>1, <1>0 DEF CookiesInOrder
    <3> QED
      BY <3>1, <2>1, <2>2, <2>3, <1>0, <1>3 DEF CookiesInOrder
  <2> QED
    BY <1>2, <2>4, <2>5 DEF RpcInv
<1> QED
  BY <1>a, <1>b, <1>c, <1>d, <1>e, <1>f, <1>g

\* A step of a call: where it goes from and to, and what it counts
LEMMA CallSteps ==
    ASSUME RpcInv, NEW c \in Calls,
           \/ SendCall(c) \/ Answered(c) \/ CallFailed(c) \/ CountLost(c) \/ Succeeded(c)
           \/ CountBack(c) \/ Return(c)
           \/ (Go(c, "idle") \/ Go(c, "done")) /\ At(c, "retry")
              /\ UNCHANGED <<cookie, boot, creds, stamp, unread, healthVars, reload, errors>>
    PROVE  RpcInv'
<1>0. RpcTypeOK /\ CookiesInOrder /\ LossesCounted /\ unhealthy \in BOOLEAN
  BY DEF RpcInv, RpcTypeOK
<1>1. /\ cookie' = cookie /\ boot' = boot /\ creds' = creds /\ stamp' = stamp
      /\ unread' = unread /\ reload' = reload
  BY DEF SendCall, Answered, CallFailed, CountLost, Succeeded, CountBack, Return, healthVars
<1>2. unhealthy' \in BOOLEAN /\ connected' \in BOOLEAN
  BY <1>0 DEF RpcTypeOK, SendCall, Answered, CallFailed, CountLost, Succeeded, CountBack, Return,
     healthVars
<1>3. \E y \in RpcSteps, x \in RpcSteps :
        /\ x # y /\ rpcCall[c].step = y
        /\ \/ rpcCall' = [rpcCall EXCEPT ![c].step = x]
           \/ \E k \in 0..MaxCookies : rpcCall' = [rpcCall EXCEPT ![c] = [step |-> x, cred |-> k]]
        /\ \/ errors' = errors + (IF x = "failed" THEN 1 ELSE 0)
           \/ errors' = errors + 1
        /\ errors' \in 0..MaxErrors
        /\ disconnects' = disconnects + (IF y = "lost" THEN 1 ELSE 0)
        /\ reconnects' = reconnects + (IF y = "back" THEN 1 ELSE 0)
        /\ x = "lost" => y = "failed" /\ ~unhealthy /\ unhealthy'
        /\ x = "back" => y = "good" /\ unhealthy /\ ~unhealthy'
        /\ x \notin {"lost", "back"} => (unhealthy' <=> unhealthy)
  <2> DEFINE P(y, x) ==
        /\ x # y /\ rpcCall[c].step = y
        /\ \/ rpcCall' = [rpcCall EXCEPT ![c].step = x]
           \/ \E k \in 0..MaxCookies : rpcCall' = [rpcCall EXCEPT ![c] = [step |-> x, cred |-> k]]
        /\ \/ errors' = errors + (IF x = "failed" THEN 1 ELSE 0)
           \/ errors' = errors + 1
        /\ errors' \in 0..MaxErrors
        /\ disconnects' = disconnects + (IF y = "lost" THEN 1 ELSE 0)
        /\ reconnects' = reconnects + (IF y = "back" THEN 1 ELSE 0)
        /\ x = "lost" => y = "failed" /\ ~unhealthy /\ unhealthy'
        /\ x = "back" => y = "good" /\ unhealthy /\ ~unhealthy'
        /\ x \notin {"lost", "back"} => (unhealthy' <=> unhealthy)
  <2>a. (SendCall(c) \/ Answered(c) \/ CountLost(c) \/ CountBack(c) \/ Return(c)
           \/ UNCHANGED healthVars) => (unhealthy' <=> unhealthy)
    BY DEF SendCall, Answered, CountLost, CountBack, Return, healthVars
  <2>0. errors \in 0..MaxErrors /\ disconnects \in Nat /\ reconnects \in Nat /\ creds \in 0..MaxCookies
    BY <1>0 DEF RpcTypeOK
  <2>1. CASE SendCall(c)
    <3>1. P("idle", "sent")
      <4>1. rpcCall' = [rpcCall EXCEPT ![c] = [step |-> "sent", cred |-> creds]] /\ (unhealthy' <=> unhealthy)
        BY <2>1 DEF SendCall, healthVars
      <4>2. /\ rpcCall[c].step = "idle" /\ errors' = errors
            /\ disconnects' = disconnects /\ reconnects' = reconnects
        BY <2>1 DEF SendCall, At, healthVars
      <4>3. \E k \in 0..MaxCookies : rpcCall' = [rpcCall EXCEPT ![c] = [step |-> "sent", cred |-> k]]
        BY <4>1, <4>2, <2>0
      <4>4. unhealthy' <=> unhealthy
        BY <4>1
      <4>5. errors' = errors + 0 /\ disconnects' = disconnects + 0 /\ reconnects' = reconnects + 0
        BY <4>2, <2>0
      <4> QED
        BY <4>2, <4>3, <4>4, <4>5, <2>0, Zenon
    <3> QED
      BY <3>1 DEF RpcSteps
  <2>2. CASE Answered(c)
    <3>1. P("sent", "good") \/ P("sent", "failed") \/ P("sent", "retry") \/ P("sent", "done")
      BY <2>2, <2>0, <2>a DEF Answered, At, Go, healthVars
    <3> QED
      BY <3>1 DEF RpcSteps
  <2>3. CASE CallFailed(c)
    <3>1. P("failed", "retry") \/ P("failed", "lost")
      <4>1. /\ rpcCall[c].step = "failed" /\ errors' = errors /\ unhealthy'
            /\ disconnects' = disconnects /\ reconnects' = reconnects
        BY <2>3 DEF CallFailed, At
      <4>2. CASE unhealthy
        <5>1. (unhealthy' <=> unhealthy) /\ rpcCall' = [rpcCall EXCEPT ![c].step = "retry"]
          BY <2>3, <4>2, <4>1 DEF CallFailed, Go
        <5> QED
          BY <5>1, <4>1, <2>0
      <4>3. CASE ~unhealthy
        <5>1. rpcCall' = [rpcCall EXCEPT ![c].step = "lost"]
          BY <2>3, <4>3 DEF CallFailed, Go
        <5> QED
          BY <5>1, <4>1, <4>3, <2>0
      <4> QED
        BY <4>2, <4>3
    <3> QED
      BY <3>1 DEF RpcSteps
  <2>4. CASE CountLost(c)
    <3>1. P("lost", "retry")
      BY <2>4, <2>0, <2>a DEF CountLost, At, Go
    <3> QED
      BY <3>1 DEF RpcSteps
  <2>5. CASE Succeeded(c)
    <3>1. P("good", "done") \/ P("good", "back")
      <4>1. /\ rpcCall[c].step = "good" /\ errors' = errors /\ ~unhealthy'
            /\ disconnects' = disconnects /\ reconnects' = reconnects
        BY <2>5 DEF Succeeded, At
      <4>2. CASE unhealthy
        <5>1. rpcCall' = [rpcCall EXCEPT ![c].step = "back"]
          BY <2>5, <4>2 DEF Succeeded, Go
        <5> QED
          BY <5>1, <4>1, <4>2, <2>0
      <4>3. CASE ~unhealthy
        <5>1. (unhealthy' <=> unhealthy) /\ rpcCall' = [rpcCall EXCEPT ![c].step = "done"]
          BY <2>5, <4>3, <4>1 DEF Succeeded, Go
        <5> QED
          BY <5>1, <4>1, <2>0
      <4> QED
        BY <4>2, <4>3
    <3> QED
      BY <3>1 DEF RpcSteps
  <2>6. CASE CountBack(c)
    <3>1. P("back", "done")
      BY <2>6, <2>0, <2>a DEF CountBack, At, Go
    <3> QED
      BY <3>1 DEF RpcSteps
  <2>7. CASE Return(c)
    <3>1. P("done", "idle")
      <4>1. rpcCall' = [rpcCall EXCEPT ![c] = [step |-> "idle", cred |-> 0]] /\ (unhealthy' <=> unhealthy)
        BY <2>7 DEF Return, NoCall, healthVars
      <4>2. /\ rpcCall[c].step = "done" /\ errors' = errors /\ 0 \in 0..MaxCookies
            /\ disconnects' = disconnects /\ reconnects' = reconnects
        BY <2>7 DEF Return, At, healthVars
      <4>3. \E k \in 0..MaxCookies : rpcCall' = [rpcCall EXCEPT ![c] = [step |-> "idle", cred |-> k]]
        BY <4>1, <4>2, <2>0
      <4>4. unhealthy' <=> unhealthy
        BY <4>1
      <4>5. errors' = errors + 0 /\ disconnects' = disconnects + 0 /\ reconnects' = reconnects + 0
        BY <4>2, <2>0
      <4> QED
        BY <4>2, <4>3, <4>4, <4>5, <2>0, Zenon
    <3> QED
      BY <3>1 DEF RpcSteps
  <2>8. CASE (Go(c, "idle") \/ Go(c, "done")) /\ At(c, "retry")
              /\ UNCHANGED <<cookie, boot, creds, stamp, unread, healthVars, reload, errors>>
    <3>1. P("retry", "idle") \/ P("retry", "done")
      BY <2>8, <2>0, <2>a DEF At, Go, healthVars
    <3> QED
      BY <3>1 DEF RpcSteps
  <2> QED
    BY <2>1, <2>2, <2>3, <2>4, <2>5, <2>6, <2>7, <2>8
<1>4. PICK y \in RpcSteps, x \in RpcSteps :
        /\ x # y /\ rpcCall[c].step = y
        /\ \/ rpcCall' = [rpcCall EXCEPT ![c].step = x]
           \/ \E k \in 0..MaxCookies : rpcCall' = [rpcCall EXCEPT ![c] = [step |-> x, cred |-> k]]
        /\ \/ errors' = errors + (IF x = "failed" THEN 1 ELSE 0)
           \/ errors' = errors + 1
        /\ errors' \in 0..MaxErrors
        /\ disconnects' = disconnects + (IF y = "lost" THEN 1 ELSE 0)
        /\ reconnects' = reconnects + (IF y = "back" THEN 1 ELSE 0)
        /\ x = "lost" => y = "failed" /\ ~unhealthy /\ unhealthy'
        /\ x = "back" => y = "good" /\ unhealthy /\ ~unhealthy'
        /\ x \notin {"lost", "back"} => (unhealthy' <=> unhealthy)
  BY <1>3
<1>5. /\ rpcCall' \in [Calls -> [step : RpcSteps, cred : 0..MaxCookies]]
      /\ rpcCall'[c].step = x
      /\ \A d \in Calls \ {c} : rpcCall'[d] = rpcCall[d]
  BY <1>0, <1>4, CallGoes
<1>6. LossesCounted' /\ disconnects' <= errors' /\ reconnects' <= errors'
                     /\ disconnects' \in Nat /\ reconnects' \in Nat
  BY <1>0, <1>2, <1>4, <1>5, CallCounted
<1>7. CookiesInOrder'
  BY <1>0, <1>1, CookiesUntouched
<1>8. RpcTypeOK'
  <2>1. disconnects' \in 0..MaxErrors /\ reconnects' \in 0..MaxErrors /\ errors' \in 0..MaxErrors
    BY <1>4, <1>6
  <2> QED
    BY <2>1, <1>0, <1>1, <1>2, <1>5 DEF RpcTypeOK, RpcSteps
<1> QED
  BY <1>6, <1>7, <1>8 DEF RpcInv

LEMMA RpcKept == RpcSpec => []RpcInv
<1>1. ASSUME RpcInv, [RpcNext]_rpcVars PROVE RpcInv'
  <2>1. ASSUME NEW c \in Calls, Retry(c) PROVE RpcInv'
    <3>1. CASE Stat(c) /\ Go(c, "retry")
      <4>1. rpcCall' = rpcCall
        BY <1>1, <2>1, <3>1 DEF Retry, At, Go, RpcInv, RpcTypeOK
      <4> QED
        BY <1>1, <3>1, <4>1, CookieSteps DEF Reloaders
    <3> QED
      BY <1>1, <2>1, <3>1, CallSteps DEF Retry
  <2>2. ASSUME Watch PROVE RpcInv'
    <3>1. "watcher" \in Reloaders /\ Stat("watcher") /\ rpcCall' = rpcCall
      BY <2>2 DEF Watch, Reloaders
    <3> QED
      BY <3>1, <1>1, CookieSteps
  <2>3. CASE NodeStarts \/ ReadConfig \/ CreateClient \/ UNCHANGED rpcVars
    BY <1>1, <2>3, CookieSteps
  <2>4. CASE \E r \in Reloaders : ReadCookie(r) \/ StoreCookie(r)
    BY <1>1, <2>4, CookieSteps
  <2>5. ASSUME NEW c \in Calls,
               \/ SendCall(c) \/ Answered(c) \/ CallFailed(c) \/ CountLost(c) \/ Succeeded(c)
               \/ CountBack(c) \/ Return(c)
        PROVE  RpcInv'
    BY <1>1, <2>5, CallSteps
  <2> QED
    BY <1>1, <2>1, <2>2, <2>3, <2>4, <2>5 DEF RpcNext
<1> QED
  BY <1>1, RpcStarts, PTL DEF RpcSpec

(* The credentials are those of the cookie whose stamp was noted, and every *)
(* loss and recovery of the node is counted once, however calls, watcher    *)
(* and restarts of the node interleave (rpc.go).                            *)
THEOREM CookieAndHealthHold == RpcSpec => []CookieAndHealthAgree
<1>1. ASSUME RpcInv PROVE CookieAndHealthAgree
  <2>1. boot = "up" /\ stamp = cookie /\ cookie \notin {0, unread} => creds = cookie
    BY <1>1 DEF RpcInv, CookiesInOrder
  <2>2. ASSUME NEW n \in 0..1, unhealthy <=> n = 1, Where("lost") = {}, Where("back") = {}
        PROVE  disconnects = reconnects + n
    <3>1. disconnects + 0 = reconnects + 0 + (IF unhealthy THEN 1 ELSE 0)
      BY <1>1, <2>2, FS_EmptySet DEF RpcInv, LossesCounted
    <3>2. disconnects \in Nat /\ reconnects \in Nat
      BY <1>1 DEF RpcInv, RpcTypeOK
    <3> QED
      BY <3>1, <3>2, <2>2
  <2> QED
    BY <2>1, <2>2 DEF CookieAndHealthAgree, Where, At
<1> QED
  BY <1>1, RpcKept, PTL

(* Every variable of the RPC client keeps its type (rpc.go). *)
THEOREM RpcTypesCorrect == RpcSpec => []RpcTypeOK
<1>1. RpcInv => RpcTypeOK
  BY DEF RpcInv
<1> QED
  BY <1>1, RpcKept, PTL

HIDE RpcAssumption

-----------------------------------------------------------------------------
(* StatusCache *)

USE CacheAssumption

Visits == [at : {"away", "json", "view", "lock", "build", "built", "store", "flush", "page"},
           arrived : 0..LastTime, looked : 0..LastTime, read : 0..LastTime,
           blocks : 0..MaxNewBlocks, settings : 0..MaxSettings, overlapped : BOOLEAN]

CacheTypes ==
    /\ CacheTypeOK /\ visit \in [Visitors -> Visits]
    /\ invalidations <= newBlocks
    /\ pageEntry \in [settings : 0..MaxSettings, overlapped : BOOLEAN]

\* How old what an entry or a request carries may be, when the request arrived
JsonAge == JsonTTL + Slow + StatusTTL

VisitInTime(v) ==
    visit[v].at # "away" =>
        /\ visit[v].arrived <= pageClock /\ pageClock - visit[v].arrived <= Slow
        /\ visit[v].at \in {"lock", "build", "built"} =>
              visit[v].arrived <= visit[v].looked /\ visit[v].looked <= pageClock
        /\ visit[v].at = "built" => visit[v].looked <= visit[v].read /\ visit[v].read <= pageClock
        /\ visit[v].at = "store" => visit[v].arrived - visit[v].read < StatusTTL
        /\ visit[v].at = "flush" => visit[v].arrived - visit[v].read <= JsonAge - 2

EntriesInTime ==
    /\ statusView.stamp >= 0 => statusView.stamp <= statusView.read
    /\ jsonEntry.until - jsonEntry.read <= JsonAge - 1
    /\ responseEntry.until - responseEntry.read <= ResponseTTL + JsonAge - 2

\* A snapshot that is kept, or about to be, knows every block, or is going to be cleared.
BlocksKnown ==
    /\ \A v \in Visitors : visit[v].at \in {"build", "built"} <=> statusOwner = v
    /\ invalidations = 0 =>
          /\ statusView.stamp >= 0 => statusView.blocks = newBlocks
          /\ \A v \in Visitors : visit[v].at = "built" => visit[v].blocks = newBlocks

\* A page of earlier settings is about to be cleared, or overlapped the clearing.
PagesCleared ==
    ~clearing =>
        /\ pageEntry # NoPage => pageEntry.settings = settings \/ pageEntry.overlapped
        /\ \A v \in Visitors :
              visit[v].at = "page" => visit[v].settings = settings \/ visit[v].overlapped

CacheInv ==
    /\ CacheTypes /\ \A v \in Visitors : VisitInTime(v)
    /\ EntriesInTime /\ BlocksKnown /\ PagesCleared

LEMMA CacheConstants ==
    /\ ResponseTTL \in Nat /\ ResponseTTL >= 1 /\ JsonTTL \in Nat /\ JsonTTL >= 1
    /\ StatusTTL \in Nat /\ StatusTTL >= 1
    /\ Slow \in Nat /\ LastTime \in Nat /\ MaxNewBlocks \in Nat
    /\ MaxSettings \in Nat /\ MaxSettings >= 1 /\ NoVisitor \notin Visitors
BY DEF NoVisitor

LEMMA CacheStarts == CacheInit => CacheInv
<1> SUFFICES ASSUME CacheInit PROVE CacheInv
  OBVIOUS
<1>1. NotVisiting \in Visits /\ NotVisiting.at = "away"
  <2>1. FALSE \in BOOLEAN /\ 0 \in 0..LastTime /\ 0 \in 0..MaxNewBlocks /\ 0 \in 0..MaxSettings
    BY CacheConstants
  <2> QED
    BY <2>1 DEF NotVisiting, Visits
<1>2. CacheTypes
  <2>1. clearing \in BOOLEAN /\ pageEntry \in [settings : 0..MaxSettings, overlapped : BOOLEAN]
    <3>1. clearing \in BOOLEAN /\ FALSE \in BOOLEAN
      BY DEF CacheInit
    <3>2. 0 \in 0..MaxSettings /\ pageEntry = [settings |-> 0, overlapped |-> FALSE]
      BY CacheConstants DEF CacheInit, NoPage
    <3> QED
      BY <3>1, <3>2
  <2>2. visit \in [Visitors -> Visits] /\ \A v \in Visitors : visit[v].arrived \in 0..LastTime
    BY <1>1 DEF CacheInit, Visits
  <2> QED
    BY <2>1, <2>2, CacheConstants DEF CacheInit, CacheTypes, CacheTypeOK, NoEntry
<1>3. \A v \in Visitors : visit[v].at = "away"
  BY <1>1 DEF CacheInit
<1>4. EntriesInTime
  BY CacheConstants DEF CacheInit, EntriesInTime, NoEntry, JsonAge
<1>5. BlocksKnown
  BY <1>3, CacheConstants DEF CacheInit, BlocksKnown
<1>6. PagesCleared
  BY <1>3 DEF CacheInit, PagesCleared
<1> QED
  BY <1>2, <1>3, <1>4, <1>5, <1>6 DEF CacheInv, VisitInTime

\* A step of one request
LEMMA VisitMoves ==
    ASSUME CacheTypes, NEW v \in Visitors, NEW w \in Visits, visit' = [visit EXCEPT ![v] = w]
    PROVE  /\ visit' \in [Visitors -> Visits] /\ visit'[v] = w
           /\ \A u \in Visitors \ {v} : visit'[u] = visit[u]
BY DEF CacheTypes

LEMMA OthersInTime ==
    ASSUME CacheInv, pageClock' = pageClock, NEW v \in Visitors,
           \A u \in Visitors \ {v} : visit'[u] = visit[u], VisitInTime(v)'
    PROVE  \A u \in Visitors : VisitInTime(u)'
<1> SUFFICES ASSUME NEW u \in Visitors, u # v PROVE VisitInTime(u)'
  OBVIOUS
<1>1. VisitInTime(u) /\ visit'[u] = visit[u]
  BY DEF CacheInv
<1> QED
  BY <1>1 DEF VisitInTime

\* A request that leaves pool, snapshot and entries alone
LEMMA RequestKept ==
    ASSUME CacheInv, NEW v \in Visitors, NEW w \in Visits, visit' = [visit EXCEPT ![v] = w],
           UNCHANGED <<pageClock, newBlocks, settings, invalidations, clearing>>,
           VisitInTime(v)', statusOwner' \in Visitors \cup {NoVisitor},
           statusView' = statusView, pageEntry' = pageEntry, EntriesInTime',
           jsonEntry' \in [read : 0..LastTime, until : 0..LastTime + JsonTTL],
           responseEntry' \in [read : 0..LastTime, until : 0..LastTime + ResponseTTL],
           \/ statusOwner' = statusOwner /\ (w.at \in {"build", "built"} <=> statusOwner = v)
           \/ statusOwner = NoVisitor /\ statusOwner' = v /\ w.at = "build",
           w.at = "built" /\ invalidations = 0 => w.blocks = newBlocks,
           w.at = "page" /\ ~clearing => w.settings = settings \/ w.overlapped
    PROVE  CacheInv'
<1>0. CacheTypes /\ EntriesInTime /\ BlocksKnown /\ PagesCleared /\ NoVisitor \notin Visitors
  BY CacheConstants DEF CacheInv
<1>1. /\ visit' \in [Visitors -> Visits] /\ visit'[v] = w
      /\ \A u \in Visitors \ {v} : visit'[u] = visit[u]
  BY <1>0, VisitMoves
<1>2. CacheTypes'
  <2>1. \A u \in Visitors : visit'[u].arrived \in 0..LastTime
    BY <1>1 DEF Visits
  <2> QED
    BY <2>1, <1>0, <1>1 DEF CacheTypes, CacheTypeOK
<1>3. \A u \in Visitors : VisitInTime(u)'
  BY <1>1, OthersInTime
<1>4. BlocksKnown'
  BY <1>0, <1>1 DEF BlocksKnown
<1>5. PagesCleared'
  BY <1>0, <1>1 DEF PagesCleared
<1> QED
  BY <1>2, <1>3, <1>4, <1>5 DEF CacheInv

LEMMA ArriveStep == ASSUME CacheInv, NEW v \in Visitors, Arrive(v) PROVE CacheInv'
<1>0. CacheTypes /\ EntriesInTime /\ BlocksKnown /\ visit[v].at = "away" /\ pageClock \in 0..LastTime
  BY DEF CacheInv, CacheTypes, CacheTypeOK, Arrive
<1> DEFINE w == [NotVisiting EXCEPT !.at = "json", !.arrived = pageClock]
<1>1. w \in Visits /\ w.at = "json" /\ w.arrived = pageClock
  <2>1. FALSE \in BOOLEAN /\ 0 \in 0..LastTime /\ 0 \in 0..MaxNewBlocks /\ 0 \in 0..MaxSettings
    BY CacheConstants
  <2> QED
    BY <2>1, <1>0 DEF NotVisiting, Visits
<1> HIDE DEF w
<1>2. /\ visit' = [visit EXCEPT ![v] = w] /\ UNCHANGED <<pageClock, newBlocks, settings, invalidations, clearing>>
      /\ UNCHANGED <<statusView, statusOwner, jsonEntry, responseEntry, pageEntry>>
  BY DEF Arrive, world, w
<1>3. VisitInTime(v)'
  <2>1. visit'[v] = w
    BY <1>0, <1>1, <1>2, VisitMoves
  <2> QED
    BY <2>1, <1>0, <1>1, <1>2, CacheConstants DEF VisitInTime
<1>4. statusOwner # v
  BY <1>0 DEF BlocksKnown
<1>5. EntriesInTime'
  BY <1>0, <1>2 DEF EntriesInTime
<1>6. /\ statusOwner' \in Visitors \cup {NoVisitor} /\ statusOwner' = statusOwner
      /\ jsonEntry' \in [read : 0..LastTime, until : 0..LastTime + JsonTTL]
      /\ responseEntry' \in [read : 0..LastTime, until : 0..LastTime + ResponseTTL]
  BY <1>0, <1>2 DEF CacheTypes, CacheTypeOK
<1> QED
  BY <1>1, <1>2, <1>3, <1>4, <1>5, <1>6, RequestKept

LEMMA LookUpJsonStep == ASSUME CacheInv, NEW v \in Visitors, LookUpJson(v) PROVE CacheInv'
<1>0. /\ CacheTypes /\ EntriesInTime /\ BlocksKnown /\ VisitInTime(v) /\ visit[v].at = "json"
      /\ pageClock \in 0..LastTime /\ visit[v] \in Visits
      /\ jsonEntry \in [read : 0..LastTime, until : 0..LastTime + JsonTTL]
  BY DEF CacheInv, CacheTypes, CacheTypeOK, LookUpJson
<1> DEFINE w == IF pageClock < jsonEntry.until
                THEN [visit[v] EXCEPT !.at = "flush", !.read = jsonEntry.read]
                ELSE [visit[v] EXCEPT !.at = "view"]
<1>1. /\ w \in Visits /\ w.arrived = visit[v].arrived
      /\ \/ w.at = "flush" /\ pageClock < jsonEntry.until /\ w.read = jsonEntry.read
         \/ w.at = "view"
  BY <1>0 DEF Visits
<1>2. /\ visit' = [visit EXCEPT ![v] = w] /\ UNCHANGED <<pageClock, newBlocks, settings, invalidations, clearing>>
      /\ UNCHANGED <<statusView, statusOwner, jsonEntry, responseEntry, pageEntry>>
  BY <1>0 DEF LookUpJson, world, Goto, CacheTypes
<1> HIDE DEF w
<1>3. VisitInTime(v)'
  <2>1. visit'[v] = w
    BY <1>0, <1>1, <1>2, VisitMoves
  <2>2. w.at = "flush" => w.arrived - w.read <= JsonAge - 2
    <3>1. jsonEntry.until - jsonEntry.read <= JsonAge - 1 /\ visit[v].arrived <= pageClock
      BY <1>0 DEF EntriesInTime, VisitInTime
    <3>2. jsonEntry.until \in Int /\ jsonEntry.read \in Int /\ visit[v].arrived \in Int /\ JsonAge \in Int
      BY <1>0, CacheConstants DEF Visits, JsonAge
    <3> QED
      BY <3>1, <3>2, <1>0, <1>1
  <2> QED
    BY <2>1, <2>2, <1>0, <1>1, <1>2 DEF VisitInTime
<1>4. statusOwner # v
  BY <1>0 DEF BlocksKnown
<1>5. EntriesInTime'
  BY <1>0, <1>2 DEF EntriesInTime
<1>6. /\ statusOwner' \in Visitors \cup {NoVisitor} /\ statusOwner' = statusOwner
      /\ jsonEntry' \in [read : 0..LastTime, until : 0..LastTime + JsonTTL]
      /\ responseEntry' \in [read : 0..LastTime, until : 0..LastTime + ResponseTTL]
  BY <1>0, <1>2 DEF CacheTypes, CacheTypeOK
<1> QED
  BY <1>1, <1>2, <1>3, <1>4, <1>5, <1>6, RequestKept

LEMMA LookUpStatusStep == ASSUME CacheInv, NEW v \in Visitors, LookUpStatus(v) PROVE CacheInv'
<1>0. /\ CacheTypes /\ EntriesInTime /\ BlocksKnown /\ VisitInTime(v) /\ visit[v].at = "view"
      /\ pageClock \in 0..LastTime /\ visit[v] \in Visits
      /\ statusView.read \in 0..LastTime /\ statusView.stamp \in -1..LastTime
  BY DEF CacheInv, CacheTypes, CacheTypeOK, LookUpStatus
<1> DEFINE w == IF Fresh(pageClock)
                THEN [visit[v] EXCEPT !.at = "store", !.read = statusView.read]
                ELSE [visit[v] EXCEPT !.at = "lock", !.looked = pageClock]
<1>1. /\ w \in Visits /\ w.arrived = visit[v].arrived
      /\ \/ w.at = "store" /\ Fresh(pageClock) /\ w.read = statusView.read
         \/ w.at = "lock" /\ w.looked = pageClock
  BY <1>0 DEF Visits
<1>2. /\ visit' = [visit EXCEPT ![v] = w] /\ UNCHANGED <<pageClock, newBlocks, settings, invalidations, clearing>>
      /\ UNCHANGED <<statusView, statusOwner, jsonEntry, responseEntry, pageEntry>>
  BY <1>0 DEF LookUpStatus, world, Goto, CacheTypes
<1> HIDE DEF w
<1>3. VisitInTime(v)'
  <2>1. visit'[v] = w
    BY <1>0, <1>1, <1>2, VisitMoves
  <2>2. w.at = "store" => w.arrived - w.read < StatusTTL
    <3>1. visit[v].arrived <= pageClock /\ visit[v].arrived \in Int
      BY <1>0 DEF VisitInTime, Visits
    <3> QED
      BY <3>1, <1>0, <1>1, CacheConstants DEF EntriesInTime, Fresh
  <2> QED
    BY <2>1, <2>2, <1>0, <1>1, <1>2 DEF VisitInTime
<1>4. statusOwner # v
  BY <1>0 DEF BlocksKnown
<1>5. EntriesInTime'
  BY <1>0, <1>2 DEF EntriesInTime
<1>6. /\ statusOwner' \in Visitors \cup {NoVisitor} /\ statusOwner' = statusOwner
      /\ jsonEntry' \in [read : 0..LastTime, until : 0..LastTime + JsonTTL]
      /\ responseEntry' \in [read : 0..LastTime, until : 0..LastTime + ResponseTTL]
  BY <1>0, <1>2 DEF CacheTypes, CacheTypeOK
<1> QED
  BY <1>1, <1>2, <1>3, <1>4, <1>5, <1>6, RequestKept

LEMMA LockStatusStep == ASSUME CacheInv, NEW v \in Visitors, LockStatus(v) PROVE CacheInv'
<1>0. /\ CacheTypes /\ EntriesInTime /\ BlocksKnown /\ VisitInTime(v) /\ visit[v].at = "lock"
      /\ pageClock \in 0..LastTime /\ visit[v] \in Visits /\ statusOwner = NoVisitor
      /\ statusView.read \in 0..LastTime /\ statusView.stamp \in -1..LastTime
  BY DEF CacheInv, CacheTypes, CacheTypeOK, LockStatus
<1> DEFINE w == IF Fresh(visit[v].looked)
                THEN [visit[v] EXCEPT !.at = "store", !.looked = 0, !.read = statusView.read]
                ELSE [visit[v] EXCEPT !.at = "build"]
<1>1. /\ w \in Visits /\ w.arrived = visit[v].arrived
      /\ \/ w.at = "store" /\ Fresh(visit[v].looked) /\ w.read = statusView.read
         \/ w.at = "build" /\ w.looked = visit[v].looked /\ ~Fresh(visit[v].looked)
  <2>1. 0 \in 0..LastTime
    BY CacheConstants
  <2> QED
    BY <2>1, <1>0 DEF Visits
<1>2. /\ visit' = [visit EXCEPT ![v] = w] /\ UNCHANGED <<pageClock, newBlocks, settings, invalidations, clearing>>
      /\ UNCHANGED <<statusView, jsonEntry, responseEntry, pageEntry>>
      /\ w.at = "store" => statusOwner' = statusOwner
      /\ w.at = "build" => statusOwner' = v
  <2>1. CASE Fresh(visit[v].looked)
    <3>1. w.at = "store"
      BY <1>1, <2>1
    <3> QED
      BY <2>1, <3>1 DEF LockStatus, world
  <2>2. CASE ~Fresh(visit[v].looked)
    <3>1. w.at = "build"
      BY <1>1, <2>2
    <3>2. w = [visit[v] EXCEPT !.at = "build"]
      BY <2>2
    <3> QED
      BY <2>2, <3>1, <3>2 DEF LockStatus, world, Goto
  <2> QED
    BY <2>1, <2>2
<1> HIDE DEF w
<1>3. VisitInTime(v)'
  <2>1. visit'[v] = w
    BY <1>0, <1>1, <1>2, VisitMoves
  <2>2. w.at = "store" => w.arrived - w.read < StatusTTL
    <3>1. visit[v].arrived <= visit[v].looked /\ visit[v].arrived \in Int /\ visit[v].looked \in Int
      BY <1>0 DEF VisitInTime, Visits
    <3> QED
      BY <3>1, <1>0, <1>1, CacheConstants DEF EntriesInTime, Fresh
  <2> QED
    BY <2>1, <2>2, <1>0, <1>1, <1>2 DEF VisitInTime
<1>4. statusOwner # v
  BY <1>0 DEF BlocksKnown
<1>5. EntriesInTime'
  BY <1>0, <1>2 DEF EntriesInTime
<1>6. /\ statusOwner' \in Visitors \cup {NoVisitor}
      /\ jsonEntry' \in [read : 0..LastTime, until : 0..LastTime + JsonTTL]
      /\ responseEntry' \in [read : 0..LastTime, until : 0..LastTime + ResponseTTL]
  BY <1>0, <1>1, <1>2 DEF CacheTypes, CacheTypeOK
<1> QED
  BY <1>0, <1>1, <1>2, <1>3, <1>4, <1>5, <1>6, RequestKept

LEMMA BuildStatusStep == ASSUME CacheInv, NEW v \in Visitors, BuildStatus(v) PROVE CacheInv'
<1>0. /\ CacheTypes /\ EntriesInTime /\ BlocksKnown /\ VisitInTime(v) /\ visit[v].at = "build"
      /\ pageClock \in 0..LastTime /\ visit[v] \in Visits /\ newBlocks \in 0..MaxNewBlocks
  BY DEF CacheInv, CacheTypes, CacheTypeOK, BuildStatus
<1> DEFINE w == [visit[v] EXCEPT !.at = "built", !.read = pageClock, !.blocks = newBlocks]
<1>1. /\ w \in Visits /\ w.arrived = visit[v].arrived /\ w.looked = visit[v].looked
      /\ w.at = "built" /\ w.read = pageClock /\ w.blocks = newBlocks
  BY <1>0 DEF Visits
<1>2. /\ visit' = [visit EXCEPT ![v] = w] /\ UNCHANGED <<pageClock, newBlocks, settings, invalidations, clearing>>
      /\ UNCHANGED <<statusView, statusOwner, jsonEntry, responseEntry, pageEntry>>
  BY <1>0 DEF BuildStatus, world, CacheTypes
<1> HIDE DEF w
<1>3. VisitInTime(v)'
  <2>1. visit'[v] = w
    BY <1>0, <1>1, <1>2, VisitMoves
  <2> QED
    BY <2>1, <1>0, <1>1, <1>2 DEF VisitInTime
<1>4. statusOwner = v
  BY <1>0 DEF BlocksKnown
<1>5. EntriesInTime'
  BY <1>0, <1>2 DEF EntriesInTime
<1>6. /\ statusOwner' \in Visitors \cup {NoVisitor} /\ statusOwner' = statusOwner
      /\ jsonEntry' \in [read : 0..LastTime, until : 0..LastTime + JsonTTL]
      /\ responseEntry' \in [read : 0..LastTime, until : 0..LastTime + ResponseTTL]
  BY <1>0, <1>2 DEF CacheTypes, CacheTypeOK
<1> QED
  BY <1>1, <1>2, <1>3, <1>4, <1>5, <1>6, RequestKept

LEMMA StoreStatusStep == ASSUME CacheInv, NEW v \in Visitors, StoreStatus(v) PROVE CacheInv'
<1>0. /\ CacheTypes /\ EntriesInTime /\ BlocksKnown /\ PagesCleared
      /\ VisitInTime(v) /\ visit[v].at = "built"
      /\ pageClock \in 0..LastTime /\ visit[v] \in Visits
  BY DEF CacheInv, CacheTypes, CacheTypeOK, StoreStatus
<1> DEFINE w == [visit[v] EXCEPT !.at = "store", !.looked = 0, !.blocks = 0]
<1>1. /\ w \in Visits /\ w.arrived = visit[v].arrived /\ w.read = visit[v].read /\ w.at = "store"
  <2>1. 0 \in 0..LastTime /\ 0 \in 0..MaxNewBlocks
    BY CacheConstants
  <2> QED
    BY <2>1, <1>0 DEF Visits
<1>2. /\ visit' = [visit EXCEPT ![v] = w] /\ UNCHANGED <<pageClock, newBlocks, settings, invalidations, clearing>>
      /\ UNCHANGED <<jsonEntry, responseEntry, pageEntry>>
      /\ statusView' = [read |-> visit[v].read, blocks |-> visit[v].blocks, stamp |-> visit[v].looked]
      /\ statusOwner' = NoVisitor
  BY <1>0 DEF StoreStatus, world, CacheTypes
<1> HIDE DEF w
<1>3. /\ visit' \in [Visitors -> Visits] /\ visit'[v] = w
      /\ \A u \in Visitors \ {v} : visit'[u] = visit[u]
  BY <1>0, <1>1, <1>2, VisitMoves
<1>4. visit[v].looked \in 0..LastTime /\ visit[v].read \in 0..LastTime /\ visit[v].arrived \in 0..LastTime
      /\ visit[v].blocks \in 0..MaxNewBlocks
  BY <1>0 DEF Visits
<1>5. VisitInTime(v)'
  BY <1>0, <1>1, <1>2, <1>3, <1>4, CacheConstants DEF VisitInTime
<1>6. \A u \in Visitors : VisitInTime(u)'
  BY <1>2, <1>3, <1>5, OthersInTime
<1>7. CacheTypes'
  <2>1. \A u \in Visitors : visit'[u].arrived \in 0..LastTime
    BY <1>3 DEF Visits
  <2>2. statusView' \in [read : 0..LastTime, blocks : 0..MaxNewBlocks, stamp : -1..LastTime]
    BY <1>2, <1>4
  <2> QED
    BY <2>1, <2>2, <1>0, <1>2, <1>3 DEF CacheTypes, CacheTypeOK
<1>8. EntriesInTime'
  BY <1>0, <1>2, <1>4 DEF EntriesInTime, VisitInTime
<1>9. BlocksKnown'
  <2>1. statusOwner = v /\ \A u \in Visitors \ {v} : visit[u].at \notin {"build", "built"}
    BY <1>0 DEF BlocksKnown
  <2>2. \A u \in Visitors : visit'[u].at \notin {"build", "built"}
    BY <2>1, <1>1, <1>3
  <2>3. invalidations = 0 => visit[v].blocks = newBlocks
    BY <1>0 DEF BlocksKnown
  <2> QED
    BY <2>2, <2>3, <1>2, CacheConstants DEF BlocksKnown
<1>10. PagesCleared'
  BY <1>0, <1>1, <1>2, <1>3 DEF PagesCleared
<1> QED
  BY <1>6, <1>7, <1>8, <1>9, <1>10 DEF CacheInv

LEMMA StoreJsonStep == ASSUME CacheInv, NEW v \in Visitors, StoreJson(v) PROVE CacheInv'
<1>0. /\ CacheTypes /\ EntriesInTime /\ BlocksKnown /\ VisitInTime(v) /\ visit[v].at = "store"
      /\ pageClock \in 0..LastTime /\ visit[v] \in Visits
  BY DEF CacheInv, CacheTypes, CacheTypeOK, StoreJson
<1> DEFINE w == [visit[v] EXCEPT !.at = "flush"]
<1>1. w \in Visits /\ w.arrived = visit[v].arrived /\ w.at = "flush" /\ w.read = visit[v].read
  BY <1>0 DEF Visits
<1>2. /\ visit' = [visit EXCEPT ![v] = w] /\ UNCHANGED <<pageClock, newBlocks, settings, invalidations, clearing>>
      /\ UNCHANGED <<statusView, statusOwner, responseEntry, pageEntry>>
      /\ jsonEntry' = [read |-> visit[v].read, until |-> pageClock + JsonTTL]
  BY <1>0 DEF StoreJson, world, Goto, CacheTypes
<1> HIDE DEF w
<1>a. visit[v].read \in 0..LastTime /\ visit[v].arrived \in 0..LastTime
  BY <1>0 DEF Visits
<1>3. VisitInTime(v)'
  <2>1. visit'[v] = w
    BY <1>0, <1>1, <1>2, VisitMoves
  <2> QED
    BY <2>1, <1>0, <1>1, <1>2, <1>a, CacheConstants DEF VisitInTime, JsonAge
<1>4. statusOwner # v
  BY <1>0 DEF BlocksKnown
<1>5. EntriesInTime'
  <2>1. jsonEntry'.until - jsonEntry'.read <= JsonAge - 1
    BY <1>0, <1>2, <1>a, CacheConstants DEF VisitInTime, JsonAge
  <2> QED
    BY <2>1, <1>0, <1>2 DEF EntriesInTime
<1>6. /\ statusOwner' \in Visitors \cup {NoVisitor} /\ statusOwner' = statusOwner
      /\ jsonEntry' \in [read : 0..LastTime, until : 0..LastTime + JsonTTL]
      /\ responseEntry' \in [read : 0..LastTime, until : 0..LastTime + ResponseTTL]
  <2>1. pageClock + JsonTTL \in 0..LastTime + JsonTTL
    BY <1>0, CacheConstants
  <2> QED
    BY <2>1, <1>a, <1>0, <1>2 DEF CacheTypes, CacheTypeOK
<1> QED
  BY <1>1, <1>2, <1>3, <1>4, <1>5, <1>6, RequestKept

LEMMA FlushStep == ASSUME CacheInv, NEW v \in Visitors, Flush(v) PROVE CacheInv'
<1>0. /\ CacheTypes /\ EntriesInTime /\ BlocksKnown /\ VisitInTime(v) /\ visit[v].at = "flush"
      /\ pageClock \in 0..LastTime /\ visit[v] \in Visits
  BY DEF CacheInv, CacheTypes, CacheTypeOK, Flush
<1> DEFINE w == NotVisiting
<1>1. w \in Visits /\ w.at = "away"
  <2>1. FALSE \in BOOLEAN /\ 0 \in 0..LastTime /\ 0 \in 0..MaxNewBlocks /\ 0 \in 0..MaxSettings
    BY CacheConstants
  <2> QED
    BY <2>1 DEF NotVisiting, Visits
<1>2. /\ visit' = [visit EXCEPT ![v] = w] /\ UNCHANGED <<pageClock, newBlocks, settings, invalidations, clearing>>
      /\ UNCHANGED <<statusView, statusOwner, jsonEntry, pageEntry>>
      /\ responseEntry' = [read |-> visit[v].read, until |-> visit[v].arrived + ResponseTTL]
  BY <1>0 DEF Flush, world, Leave, CacheTypes
<1> HIDE DEF w
<1>a. visit[v].read \in 0..LastTime /\ visit[v].arrived \in 0..LastTime
  BY <1>0 DEF Visits
<1>3. VisitInTime(v)'
  <2>1. visit'[v] = w
    BY <1>0, <1>1, <1>2, VisitMoves
  <2> QED
    BY <2>1, <1>1 DEF VisitInTime
<1>4. statusOwner # v
  BY <1>0 DEF BlocksKnown
<1>5. EntriesInTime'
  <2>1. responseEntry'.until - responseEntry'.read <= ResponseTTL + JsonAge - 2
    BY <1>0, <1>2, <1>a, CacheConstants DEF VisitInTime, JsonAge
  <2> QED
    BY <2>1, <1>0, <1>2 DEF EntriesInTime
<1>6. /\ statusOwner' \in Visitors \cup {NoVisitor} /\ statusOwner' = statusOwner
      /\ jsonEntry' \in [read : 0..LastTime, until : 0..LastTime + JsonTTL]
      /\ responseEntry' \in [read : 0..LastTime, until : 0..LastTime + ResponseTTL]
  <2>1. visit[v].arrived + ResponseTTL \in 0..LastTime + ResponseTTL
    BY <1>a, CacheConstants
  <2> QED
    BY <2>1, <1>a, <1>0, <1>2 DEF CacheTypes, CacheTypeOK
<1> QED
  BY <1>1, <1>2, <1>3, <1>4, <1>5, <1>6, RequestKept

LEMMA OpenPageStep == ASSUME CacheInv, NEW v \in Visitors, OpenPage(v) PROVE CacheInv'
<1>0. /\ CacheTypes /\ EntriesInTime /\ BlocksKnown /\ visit[v].at = "away"
      /\ pageClock \in 0..LastTime /\ settings \in 0..MaxSettings
  BY CacheConstants DEF CacheInv, CacheTypes, CacheTypeOK, OpenPage
<1> DEFINE w == [NotVisiting EXCEPT !.at = "page", !.arrived = pageClock, !.settings = settings]
<1>1. w \in Visits /\ w.at = "page" /\ w.arrived = pageClock /\ w.settings = settings
  <2>1. FALSE \in BOOLEAN /\ 0 \in 0..LastTime /\ 0 \in 0..MaxNewBlocks /\ 0 \in 0..MaxSettings
    BY CacheConstants
  <2> QED
    BY <2>1, <1>0 DEF NotVisiting, Visits
<1> HIDE DEF w
<1>2. /\ visit' = [visit EXCEPT ![v] = w] /\ UNCHANGED <<pageClock, newBlocks, settings, invalidations, clearing>>
      /\ UNCHANGED <<statusView, statusOwner, jsonEntry, responseEntry, pageEntry>>
  BY DEF OpenPage, world, w
<1>3. VisitInTime(v)'
  <2>1. visit'[v] = w
    BY <1>0, <1>1, <1>2, VisitMoves
  <2> QED
    BY <2>1, <1>0, <1>1, <1>2, CacheConstants DEF VisitInTime
<1>4. statusOwner # v
  BY <1>0 DEF BlocksKnown
<1>5. EntriesInTime'
  BY <1>0, <1>2 DEF EntriesInTime
<1>6. /\ statusOwner' \in Visitors \cup {NoVisitor} /\ statusOwner' = statusOwner
      /\ jsonEntry' \in [read : 0..LastTime, until : 0..LastTime + JsonTTL]
      /\ responseEntry' \in [read : 0..LastTime, until : 0..LastTime + ResponseTTL]
  BY <1>0, <1>2 DEF CacheTypes, CacheTypeOK
<1> QED
  BY <1>1, <1>2, <1>3, <1>4, <1>5, <1>6, RequestKept

LEMMA StorePageStep == ASSUME CacheInv, NEW v \in Visitors, StorePage(v) PROVE CacheInv'
<1>0. /\ CacheTypes /\ EntriesInTime /\ BlocksKnown /\ PagesCleared
      /\ visit[v].at = "page" /\ visit[v] \in Visits
  BY DEF CacheInv, CacheTypes, CacheTypeOK, StorePage
<1> DEFINE w == NotVisiting
<1>1. w \in Visits /\ w.at = "away"
  <2>1. FALSE \in BOOLEAN /\ 0 \in 0..LastTime /\ 0 \in 0..MaxNewBlocks /\ 0 \in 0..MaxSettings
    BY CacheConstants
  <2> QED
    BY <2>1 DEF NotVisiting, Visits
<1>2. /\ visit' = [visit EXCEPT ![v] = w] /\ UNCHANGED <<pageClock, newBlocks, settings, invalidations, clearing>>
      /\ UNCHANGED <<statusView, statusOwner, jsonEntry, responseEntry>>
      /\ pageEntry' = [settings |-> visit[v].settings, overlapped |-> visit[v].overlapped]
  BY <1>0 DEF StorePage, world, Leave, CacheTypes
<1> HIDE DEF w
<1>3. /\ visit' \in [Visitors -> Visits] /\ visit'[v] = w
      /\ \A u \in Visitors \ {v} : visit'[u] = visit[u]
  BY <1>0, <1>1, <1>2, VisitMoves
<1>4. VisitInTime(v)'
  BY <1>1, <1>3 DEF VisitInTime
<1>5. \A u \in Visitors : VisitInTime(u)'
  BY <1>2, <1>3, <1>4, OthersInTime
<1>6. CacheTypes'
  <2>1. \A u \in Visitors : visit'[u].arrived \in 0..LastTime
    BY <1>3 DEF Visits
  <2>2. visit[v].settings \in 0..MaxSettings /\ visit[v].overlapped \in BOOLEAN
    BY <1>0 DEF Visits
  <2>3. pageEntry' \in [settings : 0..MaxSettings, overlapped : BOOLEAN]
    BY <1>2, <2>2
  <2> QED
    BY <2>1, <2>3, <1>0, <1>2, <1>3 DEF CacheTypes, CacheTypeOK
<1>7. EntriesInTime'
  BY <1>0, <1>2 DEF EntriesInTime
<1>8. BlocksKnown'
  BY <1>0, <1>1, <1>2, <1>3 DEF BlocksKnown
<1>9. PagesCleared'
  <2>1. ASSUME ~clearing, NEW u \in Visitors, visit'[u].at = "page"
        PROVE  visit'[u].settings = settings \/ visit'[u].overlapped
    BY <2>1, <1>0, <1>1, <1>3 DEF PagesCleared
  <2>2. ~clearing => pageEntry'.settings = settings \/ pageEntry'.overlapped
    <3>1. pageEntry'.settings = visit[v].settings /\ pageEntry'.overlapped = visit[v].overlapped
      BY <1>2
    <3>2. ~clearing => visit[v].settings = settings \/ visit[v].overlapped
      BY <1>0 DEF PagesCleared
    <3> QED
      BY <3>1, <3>2
  <2> QED
    BY <2>1, <2>2, <1>2 DEF PagesCleared
<1> QED
  BY <1>5, <1>6, <1>7, <1>8, <1>9 DEF CacheInv


LEMMA NewBlockStep == ASSUME CacheInv, NewBlock PROVE CacheInv'
<1>0. CacheTypes /\ EntriesInTime /\ BlocksKnown /\ PagesCleared /\ \A v \in Visitors : VisitInTime(v)
  BY DEF CacheInv
<1>1. /\ newBlocks' = newBlocks + 1 /\ invalidations' = invalidations + 1 /\ newBlocks < MaxNewBlocks
      /\ UNCHANGED <<pageClock, settings, clearing, statusView, statusOwner, jsonEntry,
                     responseEntry, pageEntry, visit>>
  BY DEF NewBlock
<1>2. CacheTypes'
  <2>1. newBlocks' \in 0..MaxNewBlocks /\ invalidations' \in 0..MaxNewBlocks /\ invalidations' <= newBlocks'
    BY <1>0, <1>1, CacheConstants DEF CacheTypes, CacheTypeOK
  <2> QED
    BY <2>1, <1>0, <1>1 DEF CacheTypes, CacheTypeOK
<1>3. \A v \in Visitors : VisitInTime(v)'
  BY <1>0, <1>1 DEF VisitInTime
<1>4. EntriesInTime' /\ PagesCleared'
  BY <1>0, <1>1 DEF EntriesInTime, PagesCleared
<1>5. BlocksKnown'
  <2>1. invalidations' # 0
    BY <1>0, <1>1, CacheConstants DEF CacheTypes, CacheTypeOK
  <2> QED
    BY <2>1, <1>0, <1>1 DEF BlocksKnown
<1> QED
  BY <1>2, <1>3, <1>4, <1>5 DEF CacheInv

\* No snapshot is being built when the cached one is cleared.
LEMMA InvalidateStep == ASSUME CacheInv, Invalidate PROVE CacheInv'
<1>0. CacheTypes /\ EntriesInTime /\ BlocksKnown /\ PagesCleared /\ \A v \in Visitors : VisitInTime(v)
  BY DEF CacheInv
<1>1. /\ invalidations > 0 /\ invalidations' = invalidations - 1 /\ statusOwner = NoVisitor
      /\ statusView' = [statusView EXCEPT !.stamp = -1]
      /\ UNCHANGED <<pageClock, newBlocks, settings, clearing, statusOwner, jsonEntry,
                     responseEntry, pageEntry, visit>>
  BY DEF Invalidate
<1>2. /\ statusView' \in [read : 0..LastTime, blocks : 0..MaxNewBlocks, stamp : -1..LastTime]
      /\ statusView'.stamp = -1
  <2>1. -1 \in -1..LastTime /\ statusView \in [read : 0..LastTime, blocks : 0..MaxNewBlocks, stamp : -1..LastTime]
    BY <1>0, CacheConstants DEF CacheTypes, CacheTypeOK
  <2> QED
    BY <2>1, <1>1
<1>3. CacheTypes'
  <2>1. invalidations' \in 0..MaxNewBlocks /\ invalidations' <= newBlocks'
    BY <1>0, <1>1, CacheConstants DEF CacheTypes, CacheTypeOK
  <2> QED
    BY <2>1, <1>0, <1>1, <1>2 DEF CacheTypes, CacheTypeOK
<1>4. \A v \in Visitors : VisitInTime(v)'
  BY <1>0, <1>1 DEF VisitInTime
<1>5. EntriesInTime' /\ PagesCleared'
  BY <1>0, <1>1, <1>2 DEF EntriesInTime, PagesCleared
<1>6. BlocksKnown'
  <2>1. \A v \in Visitors : visit[v].at \notin {"build", "built"}
    BY <1>0, <1>1, CacheConstants DEF BlocksKnown
  <2> QED
    BY <2>1, <1>0, <1>1, <1>2, CacheConstants DEF BlocksKnown
<1> QED
  BY <1>3, <1>4, <1>5, <1>6 DEF CacheInv

LEMMA UpdateConfigStep == ASSUME CacheInv, UpdateConfig PROVE CacheInv'
<1>0. CacheTypes /\ EntriesInTime /\ BlocksKnown /\ PagesCleared /\ \A v \in Visitors : VisitInTime(v)
  BY DEF CacheInv
<1>1. /\ settings < MaxSettings /\ settings' = settings + 1 /\ clearing' = TRUE
      /\ UNCHANGED <<pageClock, newBlocks, invalidations, statusView, statusOwner,
                     jsonEntry, responseEntry, pageEntry, visit>>
  BY DEF UpdateConfig
<1>2. CacheTypes'
  <2>1. settings' \in 1..MaxSettings
    BY <1>0, <1>1, CacheConstants DEF CacheTypes, CacheTypeOK
  <2> QED
    BY <2>1, <1>0, <1>1 DEF CacheTypes, CacheTypeOK
<1>3. \A v \in Visitors : VisitInTime(v)'
  BY <1>0, <1>1 DEF VisitInTime
<1>4. EntriesInTime' /\ BlocksKnown' /\ PagesCleared'
  BY <1>0, <1>1 DEF EntriesInTime, PagesCleared, BlocksKnown
<1> QED
  BY <1>2, <1>3, <1>4 DEF CacheInv

LEMMA ClearPagesStep == ASSUME CacheInv, ClearPages PROVE CacheInv'
<1>0. CacheTypes /\ EntriesInTime /\ BlocksKnown /\ PagesCleared /\ \A v \in Visitors : VisitInTime(v)
  BY DEF CacheInv
<1>1. /\ clearing' = FALSE /\ pageEntry' = NoPage
      /\ visit' = [v \in Visitors |-> [visit[v] EXCEPT !.overlapped = (@ \/ visit[v].at = "page")]]
      /\ UNCHANGED <<pageClock, newBlocks, settings, invalidations, statusView,
                     statusOwner, jsonEntry, responseEntry>>
  BY DEF ClearPages
<1>2. ASSUME NEW v \in Visitors
      PROVE  /\ visit'[v] \in Visits /\ visit'[v].at = visit[v].at
             /\ visit'[v].arrived = visit[v].arrived /\ visit'[v].looked = visit[v].looked
             /\ visit'[v].read = visit[v].read /\ visit'[v].blocks = visit[v].blocks
             /\ visit[v].at = "page" => visit'[v].overlapped
  <2>1. visit[v] \in Visits /\ (visit[v].overlapped \/ visit[v].at = "page") \in BOOLEAN
    BY <1>0 DEF CacheTypes
  <2>2. visit'[v] = [visit[v] EXCEPT !.overlapped = (visit[v].overlapped \/ visit[v].at = "page")]
    BY <1>1
  <2> QED
    BY <2>1, <2>2 DEF Visits
<1>3. CacheTypes'
  <2>1. visit' \in [Visitors -> Visits] /\ \A v \in Visitors : visit'[v].arrived \in 0..LastTime
    <3>1. DOMAIN visit' = Visitors /\ visit' = [v \in Visitors |-> visit'[v]]
      BY <1>1
    <3> QED
      BY <3>1, <1>2 DEF Visits
  <2>2. pageEntry' \in [settings : 0..MaxSettings, overlapped : BOOLEAN] /\ clearing' \in BOOLEAN
    <3>1. 0 \in 0..MaxSettings /\ FALSE \in BOOLEAN
      BY CacheConstants
    <3> QED
      BY <3>1, <1>1 DEF NoPage
  <2> QED
    BY <2>1, <2>2, <1>0, <1>1 DEF CacheTypes, CacheTypeOK
<1>4. \A v \in Visitors : VisitInTime(v)'
  BY <1>0, <1>1, <1>2 DEF VisitInTime
<1>5. EntriesInTime'
  BY <1>0, <1>1 DEF EntriesInTime
<1>6. BlocksKnown'
  BY <1>0, <1>1, <1>2 DEF BlocksKnown
<1>7. PagesCleared'
  BY <1>1, <1>2 DEF PagesCleared, NoPage
<1> QED
  BY <1>3, <1>4, <1>5, <1>6, <1>7 DEF CacheInv

LEMMA CacheTickStep == ASSUME CacheInv, ClockTick PROVE CacheInv'
<1>0. CacheTypes /\ EntriesInTime /\ BlocksKnown /\ PagesCleared /\ \A v \in Visitors : VisitInTime(v)
  BY DEF CacheInv
<1>1. /\ pageClock < LastTime /\ pageClock' = pageClock + 1
      /\ \A v \in Visitors : visit[v].at = "away" \/ pageClock - visit[v].arrived < Slow
      /\ UNCHANGED <<newBlocks, settings, invalidations, clearing, statusView,
                     statusOwner, jsonEntry, responseEntry, pageEntry, visit>>
  BY DEF ClockTick
<1>2. pageClock \in 0..LastTime /\ pageClock' \in 0..LastTime
  BY <1>0, <1>1, CacheConstants DEF CacheTypes, CacheTypeOK
<1>3. CacheTypes'
  BY <1>0, <1>1, <1>2 DEF CacheTypes, CacheTypeOK
<1>4. ASSUME NEW v \in Visitors PROVE VisitInTime(v)'
  <2>1. visit[v] \in Visits /\ VisitInTime(v) /\ visit'[v] = visit[v]
    BY <1>0, <1>1 DEF CacheTypes
  <2>2. visit[v].arrived \in Int /\ visit[v].looked \in Int /\ visit[v].read \in Int
    BY <2>1, CacheConstants DEF Visits
  <2> QED
    BY <2>1, <2>2, <1>1, <1>2, CacheConstants DEF VisitInTime
<1>5. EntriesInTime' /\ BlocksKnown' /\ PagesCleared'
  BY <1>0, <1>1 DEF EntriesInTime, BlocksKnown, PagesCleared
<1> QED
  BY <1>3, <1>4, <1>5 DEF CacheInv

LEMMA CacheKept == CacheInv /\ [CacheNext]_cacheVars => CacheInv'
<1> SUFFICES ASSUME CacheInv, [CacheNext]_cacheVars PROVE CacheInv'
  OBVIOUS
<1>1. ASSUME NEW v \in Visitors,
             \/ Arrive(v) \/ LookUpJson(v) \/ LookUpStatus(v) \/ LockStatus(v)
             \/ BuildStatus(v) \/ StoreStatus(v) \/ StoreJson(v) \/ Flush(v)
             \/ OpenPage(v) \/ StorePage(v)
      PROVE  CacheInv'
  BY <1>1, ArriveStep, LookUpJsonStep, LookUpStatusStep, LockStatusStep, BuildStatusStep,
     StoreStatusStep, StoreJsonStep, FlushStep, OpenPageStep, StorePageStep
<1>2. CASE NewBlock \/ Invalidate \/ UpdateConfig \/ ClearPages \/ ClockTick
  BY <1>2, NewBlockStep, InvalidateStep, UpdateConfigStep, ClearPagesStep, CacheTickStep
<1>3. CASE UNCHANGED cacheVars
  BY <1>3 DEF cacheVars, CacheInv, CacheTypes, CacheTypeOK, VisitInTime, EntriesInTime, BlocksKnown,
     PagesCleared
<1> QED
  BY <1>1, <1>2, <1>3 DEF CacheNext

LEMMA CacheInvHolds == CacheSpec => []CacheInv
BY CacheStarts, CacheKept, PTL DEF CacheSpec

\* The arithmetic of what is shown
LEMMA ShownInTime == CacheInv => PagesAreRecent
<1> SUFFICES ASSUME CacheInv PROVE PagesAreRecent
  OBVIOUS
<1>0. CacheTypes /\ EntriesInTime /\ BlocksKnown /\ PagesCleared /\ \A v \in Visitors : VisitInTime(v)
  BY DEF CacheInv
<1>1. /\ pageClock \in Int /\ responseEntry.until \in Int /\ responseEntry.read \in Int
      /\ \A v \in Visitors : visit[v].arrived \in Int /\ visit[v].read \in Int
  <2>1. 0..LastTime \subseteq Int
    BY CacheConstants
  <2>2. ASSUME NEW v \in Visitors PROVE visit[v].arrived \in Int /\ visit[v].read \in Int
    <3>1. visit[v] \in Visits
      BY <1>0 DEF CacheTypes
    <3> QED
      BY <3>1, <2>1 DEF Visits
  <2> QED
    BY <2>2, <1>0, CacheConstants DEF CacheTypes, CacheTypeOK
<1>2. /\ Longer(ResponseTTL, Slow) \in Int
      /\ Longer(ResponseTTL, Slow) >= ResponseTTL /\ Longer(ResponseTTL, Slow) >= Slow
  BY CacheConstants DEF Longer
<1>3. pageClock < responseEntry.until => pageClock - responseEntry.read <= OldestShown
  <2>1. responseEntry.until - responseEntry.read <= ResponseTTL + JsonTTL + Slow + StatusTTL - 2
    BY <1>0 DEF EntriesInTime, JsonAge
  <2> QED
    BY <2>1, <1>1, <1>2, CacheConstants DEF OldestShown
<1>4. ASSUME NEW v \in Visitors, visit[v].at = "flush"
      PROVE  pageClock - visit[v].read <= OldestShown
  <2>1. /\ visit[v].arrived - visit[v].read <= JsonTTL + Slow + StatusTTL - 2
        /\ pageClock - visit[v].arrived <= Slow
    BY <1>0, <1>4 DEF VisitInTime, JsonAge
  <2> QED
    BY <2>1, <1>1, <1>2, CacheConstants DEF OldestShown
<1>5. (invalidations = 0 /\ statusView.stamp >= 0) => statusView.blocks = newBlocks
  BY <1>0 DEF BlocksKnown
<1>6. (pageEntry # NoPage /\ pageEntry.settings < settings) => clearing \/ pageEntry.overlapped
  <2>1. settings \in Int
    BY <1>0, CacheConstants DEF CacheTypes, CacheTypeOK
  <2> QED
    BY <2>1, <1>0 DEF PagesCleared
<1> QED
  BY <1>3, <1>4, <1>5, <1>6 DEF PagesAreRecent

\* What a visitor is shown is never older than the three lifetimes and a build together.
THEOREM PagesRecentHold == CacheSpec => []PagesAreRecent
BY CacheInvHolds, ShownInTime, PTL

\* Caches, builders and visitors keep their types (status_snapshot.go).
THEOREM CacheTypesCorrect == CacheSpec => []CacheTypeOK
<1>1. CacheInv => CacheTypeOK
  BY DEF CacheInv, CacheTypes
<1> QED
  BY <1>1, CacheInvHolds, PTL

HIDE CacheAssumption

-----------------------------------------------------------------------------
(* WorkerNotify *)

USE WorkerNotifyAssumption

Observation == [at : Int, online : BOOLEAN]
WorkerStatus ==
    [known : {TRUE}, online : BOOLEAN, since : Int, seenOnline : BOOLEAN, seenOffline : BOOLEAN,
     offlineEligible : BOOLEAN, offlineNotified : BOOLEAN, recoveryEligible : BOOLEAN,
     recoveryNotified : BOOLEAN]

\* The run that begins at j comes after one of the opposite that lasted; and it lasts itself.
AfterLasting(obs, j) ==
    \E h \in 1..j-1 : StartsRun(obs, h, j - 1) /\ obs[j].at - obs[h].at >= Sustained
HasLasted(obs, j) == \E k \in j..Len(obs) : obs[k].at - obs[j].at >= Sustained

\* What is kept of a worker is what its observations tell, of which the current run begins at j.
FollowsRun(st, obs, j) ==
    /\ StartsRun(obs, j, Len(obs)) /\ st.since = obs[j].at /\ st.online = obs[Len(obs)].online
    /\ j > 1 => st.seenOnline /\ st.seenOffline
    /\ IF st.online THEN st.seenOnline ELSE st.seenOffline
    /\ ~st.online => /\ st.offlineEligible <=> j > 1 /\ AfterLasting(obs, j)
                     /\ st.offlineNotified <=> j > 1 /\ AfterLasting(obs, j) /\ HasLasted(obs, j)
    /\ st.online => /\ st.recoveryNotified <=> j > 1 /\ AfterLasting(obs, j) /\ HasLasted(obs, j)
                    /\ st.recoveryEligible <=> j > 1 /\ AfterLasting(obs, j) /\ ~HasLasted(obs, j)

WorkerFollows(st, obs, pings) ==
    /\ obs \in Seq(Observation)
    /\ \/ st = Unseen /\ obs = <<>> /\ pings = {}
       \/ /\ st \in WorkerStatus /\ obs # <<>>
          /\ \E j \in 1..Len(obs) : FollowsRun(st, obs, j)
          /\ pings = {i \in 1..Len(obs) : Noteworthy(obs, i)}

NotifyTypes ==
    /\ notifyClock \in 0..MaxClock /\ resets \in 0..MaxResets
    /\ cachedLink \in BOOLEAN /\ networkUp \in BOOLEAN
    /\ poll.step \in {"idle", "refresh", "look", "update"} /\ poll.at \in Int
    /\ poll = [step |-> poll.step, saw |-> poll.saw, at |-> poll.at]
    /\ poll.step = "update" => \A w \in DOMAIN poll.saw : poll.saw[w] \in BOOLEAN

NotifyInv ==
    /\ NotifyTypes
    /\ \A w \in Saved : WorkerFollows(statusOf[w], observed[w], pinged[w])

LEMMA NotifyConstants ==
    /\ Sustained \in Int /\ Sustained > 0 /\ WarmUp \in Nat /\ MaxClock \in Nat /\ MaxResets \in Nat
    /\ Never \in Int
BY DEF Never

LEMMA ObservationFields ==
    ASSUME NEW obs \in Seq(Observation)
    PROVE  /\ Len(obs) \in Nat /\ \A i \in 1..Len(obs) : obs[i].at \in Int /\ obs[i].online \in BOOLEAN
<1>1. Len(obs) \in Nat /\ \A i \in 1..Len(obs) : obs[i] \in Observation
  BY LenProperties
<1> QED
  BY <1>1 DEF Observation

\* A run has one beginning.
LEMMA OneStart ==
    ASSUME NEW obs, NEW i \in Nat, NEW j \in 1..i, NEW h \in 1..i, StartsRun(obs, j, i), StartsRun(obs, h, i)
    PROVE  j = h
<1>1. ASSUME NEW a \in 1..i, NEW b \in 1..i, StartsRun(obs, a, i), StartsRun(obs, b, i), a < b
      PROVE  FALSE
  <2>1. b - 1 \in a..i /\ b > 1
    BY <1>1
  <2> QED
    BY <1>1, <2>1 DEF StartsRun
<1>2. ~(j < h) /\ ~(h < j)
  BY <1>1
<1> QED
  BY <1>2

\* One more observation changes nothing about those before.
LEMMA EarlierKept ==
    ASSUME NEW obs \in Seq(Observation), NEW o \in Observation
    PROVE  LET n == Len(obs)  more == Append(obs, o) IN
           /\ more \in Seq(Observation) /\ Len(more) = n + 1 /\ more # <<>> /\ n \in Nat
           /\ more[n + 1] = o /\ \A i \in 1..n : more[i] = obs[i]
           /\ \A i, j \in 1..n : StartsRun(more, j, i) <=> StartsRun(obs, j, i)
           /\ \A i \in 1..n : Noteworthy(more, i) <=> Noteworthy(obs, i)
           /\ \A j \in 1..n : AfterLasting(more, j) <=> AfterLasting(obs, j)
<1>0. PICK n, more : n = Len(obs) /\ more = Append(obs, o)
  OBVIOUS
<1>1. more \in Seq(Observation) /\ Len(more) = n + 1 /\ n \in Nat /\ more # <<>>
      /\ more[n + 1] = o /\ \A i \in 1..n : more[i] = obs[i]
  <2>1. n \in Nat
    BY <1>0, LenProperties
  <2>2. more \in Seq(Observation) /\ Len(more) = n + 1 /\ more[n + 1] = o
        /\ \A i \in 1..n : more[i] = obs[i]
    BY <1>0, AppendProperties
  <2>3. more # <<>>
    BY <2>1, <2>2
  <2> QED
    BY <2>1, <2>2, <2>3
<1>2. ASSUME NEW i \in 1..n, NEW j \in 1..n PROVE StartsRun(more, j, i) <=> StartsRun(obs, j, i)
  <2>1. \A k \in j..i : k \in 1..n
    BY <1>1
  <2>2. j > 1 => j - 1 \in 1..n
    BY <1>1
  <2> QED
    BY <1>1, <2>1, <2>2 DEF StartsRun
<1>3. ASSUME NEW i \in 1..n PROVE Noteworthy(more, i) <=> Noteworthy(obs, i)
  <2>1. \A j \in 1..i : j \in 1..n /\ (j > 1 => j - 1 \in 1..n) /\ \A k \in j..i-1 : k \in 1..n
    BY <1>1
  <2> QED
    BY <1>1, <1>2, <2>1 DEF Noteworthy
<1>4. ASSUME NEW j \in 1..n PROVE AfterLasting(more, j) <=> AfterLasting(obs, j)
  <2>1. \A h \in 1..j-1 : h \in 1..n /\ j - 1 \in 1..n
    BY <1>1
  <2> QED
    BY <1>1, <1>2, <2>1 DEF AfterLasting
<1> QED
  BY <1>0, <1>1, <1>2, <1>3, <1>4

\* The same state is observed again: the last observation is noteworthy if the run begins to
\* last with it, after one that lasted.
LEMMA SameRun ==
    ASSUME NEW obs \in Seq(Observation), NEW o \in Observation, NEW j \in 1..Len(obs),
           StartsRun(obs, j, Len(obs)), o.online = obs[Len(obs)].online
    PROVE  LET n == Len(obs)  more == Append(obs, o) IN
           /\ StartsRun(more, j, n + 1)
           /\ HasLasted(more, j) <=> HasLasted(obs, j) \/ o.at - obs[j].at >= Sustained
           /\ Noteworthy(more, n + 1) <=>
                 j > 1 /\ AfterLasting(obs, j) /\ ~HasLasted(obs, j) /\ o.at - obs[j].at >= Sustained
<1>0. PICK n, more : n = Len(obs) /\ more = Append(obs, o)
  OBVIOUS
<1>1. /\ more \in Seq(Observation) /\ Len(more) = n + 1 /\ n \in Nat
      /\ more[n + 1] = o /\ \A i \in 1..n : more[i] = obs[i]
      /\ \A i, h \in 1..n : StartsRun(more, h, i) <=> StartsRun(obs, h, i)
      /\ AfterLasting(more, j) <=> AfterLasting(obs, j)
  BY <1>0, EarlierKept
<1>2. n >= 1 /\ n \in 1..n /\ j \in 1..(n + 1) /\ j <= n + 1 /\ (n + 1) - 1 = n /\ j \in 1..n
      /\ StartsRun(obs, j, n) /\ o.online = obs[n].online
  BY <1>0, <1>1
<1>3. \A k \in j..(n + 1) : k = n + 1 \/ (k \in j..n /\ k \in 1..n)
  BY <1>1
<1>4. StartsRun(more, j, n + 1)
  <2>1. \A k \in j..n : obs[k].online = obs[n].online
    BY <1>2 DEF StartsRun
  <2>2. \A k \in j..(n + 1) : more[k].online = o.online
    BY <1>1, <1>2, <1>3, <2>1
  <2>3. j > 1 => j - 1 \in 1..n /\ obs[j - 1].online # obs[n].online
    BY <1>1, <1>2 DEF StartsRun
  <2> QED
    BY <1>1, <1>2, <2>2, <2>3 DEF StartsRun
<1>5. HasLasted(more, j) <=> HasLasted(obs, j) \/ o.at - obs[j].at >= Sustained
  <2>1. n + 1 \in j..(n + 1) /\ \A k \in j..n : k \in 1..n /\ k \in j..(n + 1)
    BY <1>1, <1>2
  <2> QED
    BY <1>0, <1>1, <1>2, <1>3, <2>1 DEF HasLasted
<1>6. \A k \in j..n : obs[k].at - obs[j].at < Sustained <=> ~(obs[k].at - obs[j].at >= Sustained)
  <2> SUFFICES ASSUME NEW k \in j..n
               PROVE  obs[k].at - obs[j].at < Sustained <=> ~(obs[k].at - obs[j].at >= Sustained)
    OBVIOUS
  <2>1. k \in 1..n /\ obs[k].at \in Int /\ obs[j].at \in Int
    BY <1>0, <1>1, ObservationFields
  <2> QED
    BY <2>1, NotifyConstants
<1>7. ASSUME Noteworthy(more, n + 1)
      PROVE  j > 1 /\ AfterLasting(obs, j) /\ ~HasLasted(obs, j) /\ o.at - obs[j].at >= Sustained
  <2>1. PICK a \in 1..(n + 1), h \in 1..(n + 1) :
           /\ StartsRun(more, a, n + 1) /\ a > 1 /\ StartsRun(more, h, a - 1)
           /\ more[n + 1].at - more[a].at >= Sustained /\ more[a].at - more[h].at >= Sustained
           /\ \A k \in a..((n + 1) - 1) : more[k].at - more[a].at < Sustained
    BY <1>7 DEF Noteworthy
  <2>2. a = j
    BY <1>1, <1>2, <1>4, <2>1, OneStart
  <2>3. h <= j - 1
    BY <2>1, <2>2 DEF StartsRun
  <2>4. h \in 1..j-1
    BY <1>1, <2>1, <2>3
  <2>5. AfterLasting(more, j)
    BY <2>1, <2>2, <2>4 DEF AfterLasting
  <2>6. \A k \in j..n : obs[k].at - obs[j].at < Sustained
    <3>1. \A k \in j..n : k \in 1..n
      BY <1>1
    <3> QED
      BY <1>1, <1>2, <2>1, <2>2, <3>1
  <2>7. ~HasLasted(obs, j)
    BY <1>0, <1>6, <2>6 DEF HasLasted
  <2> QED
    BY <1>1, <1>2, <2>1, <2>2, <2>5, <2>7
<1>8. ASSUME j > 1, AfterLasting(obs, j), ~HasLasted(obs, j), o.at - obs[j].at >= Sustained
      PROVE  Noteworthy(more, n + 1)
  <2>1. PICK h \in 1..j-1 : StartsRun(more, h, j - 1) /\ more[j].at - more[h].at >= Sustained
    BY <1>1, <1>8 DEF AfterLasting
  <2>2. h \in 1..(n + 1)
    BY <1>1, <1>2, <2>1
  <2>3. \A k \in j..((n + 1) - 1) : more[k].at - more[j].at < Sustained
    <3>1. \A k \in j..n : k \in 1..n
      BY <1>1
    <3> QED
      BY <1>0, <1>1, <1>2, <1>6, <1>8, <3>1 DEF HasLasted
  <2>4. more[n + 1].at - more[j].at >= Sustained
    BY <1>1, <1>2, <1>8
  <2> QED
    BY <1>2, <1>4, <1>8, <2>1, <2>2, <2>3, <2>4 DEF Noteworthy
<1> QED
  BY <1>0, <1>4, <1>5, <1>7, <1>8

\* The other state is observed: a run begins, which has not lasted yet.
LEMMA NewRun ==
    ASSUME NEW obs \in Seq(Observation), NEW o \in Observation,
           Len(obs) > 0 => o.online # obs[Len(obs)].online
    PROVE  LET n == Len(obs)  more == Append(obs, o) IN
           /\ StartsRun(more, n + 1, n + 1) /\ ~HasLasted(more, n + 1) /\ ~Noteworthy(more, n + 1)
           /\ \A j \in 1..n : StartsRun(obs, j, n) =>
                 (AfterLasting(more, n + 1) <=> o.at - obs[j].at >= Sustained)
<1>0. PICK n, more : n = Len(obs) /\ more = Append(obs, o)
  OBVIOUS
<1>1. /\ more \in Seq(Observation) /\ Len(more) = n + 1 /\ n \in Nat
      /\ more[n + 1] = o /\ \A i \in 1..n : more[i] = obs[i]
      /\ \A i, h \in 1..n : StartsRun(more, h, i) <=> StartsRun(obs, h, i)
  BY <1>0, EarlierKept
<1>2. (n + 1) - 1 = n /\ n + 1 <= n + 1 /\ (\A k \in (n + 1)..(n + 1) : k = n + 1)
      /\ (n + 1 > 1 => n > 0 /\ n \in 1..n) /\ n + 1 \in 1..(n + 1)
  BY <1>1
<1>3. StartsRun(more, n + 1, n + 1)
  BY <1>0, <1>1, <1>2 DEF StartsRun
<1>4. ~(o.at - o.at >= Sustained)
  <2>1. o.at \in Int
    BY DEF Observation
  <2> QED
    BY <2>1, NotifyConstants
<1>5. ~HasLasted(more, n + 1)
  BY <1>1, <1>2, <1>4 DEF HasLasted
<1>6. ~Noteworthy(more, n + 1)
  <2>1. ASSUME NEW a \in 1..(n + 1), StartsRun(more, a, n + 1) PROVE a = n + 1
    BY <1>1, <1>2, <1>3, <2>1, OneStart
  <2> QED
    BY <1>1, <1>4, <2>1 DEF Noteworthy
<1>7. ASSUME NEW j \in 1..n, StartsRun(obs, j, n)
      PROVE  AfterLasting(more, n + 1) <=> o.at - obs[j].at >= Sustained
  <2>1. n \in 1..n
    BY <1>1
  <2>2. \A h \in 1..n : StartsRun(more, h, n) <=> h = j
    <3>1. ASSUME NEW h \in 1..n, StartsRun(more, h, n) PROVE h = j
      BY <1>1, <1>7, <2>1, <3>1, OneStart
    <3> QED
      BY <1>1, <1>7, <2>1, <3>1
  <2> QED
    BY <1>1, <1>2, <2>2 DEF AfterLasting
<1> QED
  BY <1>0, <1>3, <1>5, <1>6, <1>7

LEMMA UpdatedFollows ==
    ASSUME NotifyInv, UpdateStates, NEW w \in Saved
    PROVE  WorkerFollows(statusOf'[w], observed'[w], pinged'[w])
<1>1. PICK st, obs, pings, o, n :
         /\ st = statusOf[w] /\ obs = observed[w] /\ pings = pinged[w]
         /\ o = [at |-> poll.at, online |-> poll.saw[w]] /\ n = Len(obs)
  OBVIOUS
<1>2. WorkerFollows(st, obs, pings) /\ obs \in Seq(Observation) /\ n \in Nat
  BY <1>1, LenProperties DEF NotifyInv, WorkerFollows
<1>3. CASE w \notin DOMAIN poll.saw
  <2>1. statusOf'[w] = Unseen /\ observed'[w] = <<>> /\ pinged'[w] = {}
    BY <1>3 DEF UpdateStates
  <2> QED
    BY <2>1 DEF WorkerFollows
<1>4. CASE w \in DOMAIN poll.saw
  <2>1. poll.saw[w] \in BOOLEAN /\ poll.at \in Int
    BY <1>4 DEF NotifyInv, NotifyTypes, UpdateStates
  <2>2. o \in Observation /\ o.at = poll.at /\ o.online = poll.saw[w]
    BY <1>1, <2>1 DEF Observation
  <2>3. PICK more : more = Append(obs, o)
    OBVIOUS
  <2>4. /\ statusOf'[w] = Advanced(w) /\ observed'[w] = more
        /\ pinged'[w] = IF Overdue(w) THEN pings \cup {n + 1} ELSE pings
    BY <1>1, <1>4, <2>3 DEF UpdateStates
  <2>5. /\ more \in Seq(Observation) /\ Len(more) = n + 1 /\ more # <<>>
        /\ more[n + 1] = o /\ \A i \in 1..n : more[i] = obs[i]
    BY <1>1, <1>2, <2>2, <2>3, EarlierKept
  <2>6. \A i \in 1..n : Noteworthy(more, i) <=> Noteworthy(obs, i)
    BY <1>1, <1>2, <2>2, <2>3, EarlierKept
  <2>7. \A j \in 1..n : AfterLasting(more, j) <=> AfterLasting(obs, j)
    BY <1>1, <1>2, <2>2, <2>3, EarlierKept
  <2>8. n + 1 \in 1..(n + 1) /\ \A i \in 1..(n + 1) : i \in 1..n \/ i = n + 1
    BY <1>2
  <2>9. ASSUME ~Noteworthy(more, n + 1)
        PROVE  {i \in 1..n : Noteworthy(obs, i)} = {i \in 1..(n + 1) : Noteworthy(more, i)}
    <3>1. \A i \in 1..n : i \in 1..(n + 1) /\ i # n + 1
      BY <1>2
    <3> QED
      BY <2>6, <2>8, <2>9, <3>1
  <2>10. ASSUME Noteworthy(more, n + 1)
         PROVE  {i \in 1..n : Noteworthy(obs, i)} \cup {n + 1} = {i \in 1..(n + 1) : Noteworthy(more, i)}
    <3>1. \A i \in 1..n : i \in 1..(n + 1) /\ i # n + 1
      BY <1>2
    <3> QED
      BY <2>6, <2>8, <2>10, <3>1
  <2>11. CASE st = Unseen /\ obs = <<>> /\ pings = {}
    <3>1. n = 0 /\ ~st.known
      BY <1>1, <2>11 DEF Unseen
    <3>2. StartsRun(more, n + 1, n + 1) /\ ~HasLasted(more, n + 1) /\ ~Noteworthy(more, n + 1)
      <4>1. Len(obs) > 0 => o.online # obs[Len(obs)].online
        BY <1>1, <3>1
      <4> QED
        BY <1>1, <1>2, <2>2, <2>3, <4>1, NewRun
    <3>3. ~Overdue(w) /\ Advanced(w) = FirstSeen(poll.saw[w])
      BY <1>1, <3>1 DEF Overdue, Advanced
    <3>4. FirstSeen(poll.saw[w]) \in WorkerStatus
      BY <2>1 DEF FirstSeen, WorkerStatus
    <3>5. FollowsRun(FirstSeen(poll.saw[w]), more, n + 1)
      <4>1. n + 1 = 1 /\ ~(n + 1 > 1)
        BY <3>1
      <4>2. PICK fs : fs = FirstSeen(poll.saw[w])
        OBVIOUS
      <4>3. /\ fs.online = poll.saw[w] /\ fs.since = poll.at
            /\ fs.seenOnline = poll.saw[w] /\ fs.seenOffline = ~poll.saw[w]
            /\ ~fs.offlineEligible /\ ~fs.offlineNotified
            /\ ~fs.recoveryEligible /\ ~fs.recoveryNotified
        BY <4>2 DEF FirstSeen
      <4>4. fs.since = more[n + 1].at /\ fs.online = more[n + 1].online
        BY <2>2, <2>5, <4>3
      <4>5. IF fs.online THEN fs.seenOnline ELSE fs.seenOffline
        BY <2>1, <4>3
      <4>6. ~(n + 1 > 1 /\ AfterLasting(more, n + 1))
        BY <4>1
      <4> QED
        BY <2>5, <3>2, <4>1, <4>2, <4>3, <4>4, <4>5, <4>6 DEF FollowsRun
    <3>6. {i \in 1..n : Noteworthy(obs, i)} = {}
      BY <3>1
    <3>7. pinged'[w] = {i \in 1..(n + 1) : Noteworthy(more, i)}
      BY <2>4, <2>9, <2>11, <3>2, <3>3, <3>6
    <3> QED
      BY <2>4, <2>5, <2>8, <3>3, <3>4, <3>5, <3>7 DEF WorkerFollows
  <2>12. CASE st \in WorkerStatus /\ obs # <<>>
    <3>1. PICK j \in 1..n : FollowsRun(st, obs, j)
      BY <1>1, <1>2, <2>12 DEF WorkerFollows, Unseen
    <3>2. pings = {i \in 1..n : Noteworthy(obs, i)} /\ n \in 1..n
      BY <1>1, <1>2, <2>12, <3>1 DEF WorkerFollows, Unseen
    <3>3. /\ st.known /\ st.online \in BOOLEAN /\ st.seenOnline \in BOOLEAN /\ st.seenOffline \in BOOLEAN
          /\ st.offlineEligible \in BOOLEAN /\ st.offlineNotified \in BOOLEAN
          /\ st.recoveryEligible \in BOOLEAN /\ st.recoveryNotified \in BOOLEAN /\ st.since \in Int
      BY <2>12 DEF WorkerStatus
    <3>4. StartsRun(obs, j, n) /\ st.since = obs[j].at /\ st.online = obs[n].online
      BY <1>1, <3>1 DEF FollowsRun
    <3>5. ~First
      BY <1>1, <3>3 DEF First
    <3>6. CASE st.online # poll.saw[w]
      <4>1. PICK ts : ts = Transition(st, poll.saw[w])
        OBVIOUS
      <4>2. ~Overdue(w) /\ Advanced(w) = ts
        BY <1>1, <3>3, <3>6, <4>1 DEF Overdue, Advanced
      <4>3. PICK lasted \in BOOLEAN : lasted <=> poll.at - st.since >= Sustained
        <5>1. (poll.at - st.since >= Sustained) \in BOOLEAN
          OBVIOUS
        <5> QED
          BY <5>1
      <4>4. /\ ts \in WorkerStatus /\ ts.online = poll.saw[w] /\ ts.since = poll.at
            /\ ts.seenOnline <=> st.seenOnline \/ poll.saw[w]
            /\ ts.seenOffline <=> st.seenOffline \/ ~poll.saw[w]
            /\ ~ts.offlineNotified /\ ~ts.recoveryNotified
            /\ ts.offlineEligible <=> ~poll.saw[w] /\ lasted
            /\ ts.recoveryEligible <=> poll.saw[w] /\ lasted
        <5>1. PICK a \in BOOLEAN, b \in BOOLEAN, c \in BOOLEAN, d \in BOOLEAN :
                 /\ a = (st.seenOnline \/ poll.saw[w]) /\ b = (st.seenOffline \/ ~poll.saw[w])
                 /\ c = (~poll.saw[w] /\ poll.at - st.since >= Sustained)
                 /\ d = (poll.saw[w] /\ poll.at - st.since >= Sustained)
          BY Zenon
        <5>2. ts = [st EXCEPT !.online = poll.saw[w], !.since = poll.at,
                              !.seenOnline = a, !.seenOffline = b,
                              !.offlineNotified = FALSE, !.recoveryNotified = FALSE,
                              !.offlineEligible = c, !.recoveryEligible = d]
          BY <4>1, <5>1, Zenon DEF Transition
        <5>3. /\ a <=> st.seenOnline \/ poll.saw[w]
              /\ b <=> st.seenOffline \/ ~poll.saw[w]
              /\ c <=> ~poll.saw[w] /\ poll.at - st.since >= Sustained
              /\ d <=> poll.saw[w] /\ poll.at - st.since >= Sustained
          BY <5>1, Zenon
        <5>4. /\ ts \in WorkerStatus /\ ts.online = poll.saw[w] /\ ts.since = poll.at
              /\ ts.seenOnline = a /\ ts.seenOffline = b
              /\ ts.offlineNotified = FALSE /\ ts.recoveryNotified = FALSE
              /\ ts.offlineEligible = c /\ ts.recoveryEligible = d
          <6>1. PICK g \in BOOLEAN, v \in Int : g = poll.saw[w] /\ v = poll.at
            BY <2>1
          <6>2. ts = [st EXCEPT !.online = g, !.since = v, !.seenOnline = a, !.seenOffline = b,
                                !.offlineNotified = FALSE, !.recoveryNotified = FALSE,
                                !.offlineEligible = c, !.recoveryEligible = d]
            BY <5>2, <6>1, Zenon
          <6>3. ts \in WorkerStatus
            <7>1. ts = [known |-> st.known, online |-> g, since |-> v,
                        seenOnline |-> a, seenOffline |-> b,
                        offlineEligible |-> c, offlineNotified |-> FALSE,
                        recoveryEligible |-> d, recoveryNotified |-> FALSE]
              BY <2>12, <6>2 DEF WorkerStatus
            <7>2. st.known \in {TRUE} /\ FALSE \in BOOLEAN
              BY <2>12 DEF WorkerStatus
            <7> QED
              BY <7>1, <7>2 DEF WorkerStatus
          <6>4. ts.online = g /\ ts.since = v /\ ts.seenOnline = a /\ ts.seenOffline = b
            BY <2>12, <6>2 DEF WorkerStatus
          <6>5. ts.offlineNotified = FALSE /\ ts.recoveryNotified = FALSE
            BY <2>12, <6>2 DEF WorkerStatus
          <6>6. ts.offlineEligible = c /\ ts.recoveryEligible = d
            BY <2>12, <6>2 DEF WorkerStatus
          <6> QED
            BY <6>1, <6>3, <6>4, <6>5, <6>6, Zenon
        <5> QED
          BY <4>3, <5>3, <5>4
      <4>5. /\ StartsRun(more, n + 1, n + 1) /\ ~HasLasted(more, n + 1) /\ ~Noteworthy(more, n + 1)
            /\ AfterLasting(more, n + 1) <=> lasted
        <5>1. n > 0 => o.online # obs[n].online
          BY <2>2, <3>4, <3>6
        <5>2. StartsRun(more, n + 1, n + 1) /\ ~HasLasted(more, n + 1) /\ ~Noteworthy(more, n + 1)
          BY <1>1, <1>2, <2>2, <2>3, <5>1, NewRun
        <5>3. AfterLasting(more, n + 1) <=> o.at - obs[j].at >= Sustained
          BY <1>1, <1>2, <2>2, <2>3, <3>4, <5>1, NewRun
        <5> QED
          BY <2>2, <3>4, <4>3, <5>2, <5>3
      <4>6. IF st.online THEN st.seenOnline ELSE st.seenOffline
        BY <3>1 DEF FollowsRun
      <4>7. ts.seenOnline /\ ts.seenOffline
        BY <2>1, <3>3, <3>6, <4>4, <4>6
      <4>8. n + 1 > 1
        BY <1>2, <3>2
      <4>9. ~ts.online => (ts.offlineEligible <=> lasted) /\ ~ts.offlineNotified
        BY <2>1, <4>4
      <4>10. ts.online => (ts.recoveryEligible <=> lasted) /\ ~ts.recoveryNotified
        BY <2>1, <4>4
      <4>11. FollowsRun(ts, more, n + 1)
        BY <2>2, <2>5, <4>4, <4>5, <4>7, <4>8, <4>9, <4>10 DEF FollowsRun
      <4>12. pinged'[w] = {i \in 1..(n + 1) : Noteworthy(more, i)}
        BY <2>4, <2>9, <3>2, <4>2, <4>5
      <4> QED
        BY <2>4, <2>5, <2>8, <4>2, <4>4, <4>11, <4>12 DEF WorkerFollows
    <3>7. CASE st.online = poll.saw[w]
      <4>1. PICK lasts \in BOOLEAN : lasts <=> poll.at - st.since >= Sustained
        <5>1. (poll.at - st.since >= Sustained) \in BOOLEAN
          OBVIOUS
        <5> QED
          BY <5>1
      <4>2. PICK after \in BOOLEAN : after = (j > 1 /\ AfterLasting(obs, j))
        OBVIOUS
      <4>3. PICK had \in BOOLEAN : had <=> HasLasted(obs, j)
        OBVIOUS
      <4>4. /\ StartsRun(more, j, n + 1) /\ (HasLasted(more, j) <=> had \/ lasts)
            /\ Noteworthy(more, n + 1) <=> after /\ ~had /\ lasts
        <5>1. o.online = obs[n].online
          BY <2>2, <3>4, <3>7
        <5>2. StartsRun(more, j, n + 1)
          BY <1>1, <1>2, <2>2, <2>3, <3>4, <5>1, SameRun
        <5>3. HasLasted(more, j) <=> HasLasted(obs, j) \/ o.at - obs[j].at >= Sustained
          BY <1>1, <1>2, <2>2, <2>3, <3>4, <5>1, SameRun
        <5>4. Noteworthy(more, n + 1) <=>
                 j > 1 /\ AfterLasting(obs, j) /\ ~HasLasted(obs, j) /\ o.at - obs[j].at >= Sustained
          BY <1>1, <1>2, <2>2, <2>3, <3>4, <5>1, SameRun
        <5>5. lasts <=> o.at - obs[j].at >= Sustained
          BY <2>2, <3>4, <4>1
        <5> QED
          BY <4>2, <4>3, <5>2, <5>3, <5>4, <5>5
      <4>5. /\ after => st.seenOnline /\ st.seenOffline
            /\ ~st.online => (st.offlineEligible <=> after) /\ (st.offlineNotified <=> after /\ had)
            /\ st.online => /\ st.recoveryNotified <=> after /\ had
                            /\ st.recoveryEligible <=> after /\ ~had
        BY <3>1, <4>2, <4>3 DEF FollowsRun
      <4>6. (j > 1 /\ AfterLasting(more, j)) <=> after
        BY <2>7, <4>2
      <4>7. Overdue(w) <=> after /\ ~had /\ lasts
        <5>1. Overdue(w) <=> OfflineOverdue(st, poll.saw[w]) \/ RecoveryOverdue(st, poll.saw[w])
          BY <1>1, <3>3, <3>5, <3>7 DEF Overdue
        <5>2. CASE poll.saw[w]
          <6>1. Overdue(w) <=> st.seenOffline /\ st.recoveryEligible /\ ~st.recoveryNotified /\ lasts
            BY <4>1, <5>1, <5>2 DEF OfflineOverdue, RecoveryOverdue
          <6> QED
            BY <3>7, <4>5, <5>2, <6>1
        <5>3. CASE ~poll.saw[w]
          <6>1. Overdue(w) <=> st.seenOnline /\ st.offlineEligible /\ ~st.offlineNotified /\ lasts
            BY <4>1, <5>1, <5>3 DEF OfflineOverdue, RecoveryOverdue
          <6> QED
            BY <3>7, <4>5, <5>3, <6>1
        <5> QED
          BY <2>1, <5>2, <5>3
      <4>8. pinged'[w] = {i \in 1..(n + 1) : Noteworthy(more, i)}
        BY <2>4, <2>9, <2>10, <3>2, <4>4, <4>7
      <4>9. PICK ts : ts = Advanced(w)
        OBVIOUS
      <4>10. /\ ts \in WorkerStatus /\ ts.online = st.online /\ ts.since = st.since
             /\ ts.seenOnline = st.seenOnline /\ ts.seenOffline = st.seenOffline
             /\ ts.offlineEligible = st.offlineEligible
             /\ ts.offlineNotified <=> st.offlineNotified \/ (Overdue(w) /\ ~poll.saw[w])
             /\ ts.recoveryNotified <=> st.recoveryNotified \/ (Overdue(w) /\ poll.saw[w])
             /\ ts.recoveryEligible <=> st.recoveryEligible /\ ~(Overdue(w) /\ poll.saw[w])
        <5>1. CASE Overdue(w) /\ ~poll.saw[w]
          <6>1. ts = [st EXCEPT !.offlineNotified = TRUE]
            BY <1>1, <3>3, <3>7, <4>9, <5>1 DEF Advanced
          <6> QED
            BY <2>12, <5>1, <6>1 DEF WorkerStatus
        <5>2. CASE Overdue(w) /\ poll.saw[w]
          <6>1. ts = [st EXCEPT !.recoveryNotified = TRUE, !.recoveryEligible = FALSE]
            BY <1>1, <3>3, <3>7, <4>9, <5>2 DEF Advanced
          <6> QED
            BY <2>12, <5>2, <6>1 DEF WorkerStatus
        <5>3. CASE ~Overdue(w)
          <6>1. ts = st
            BY <1>1, <3>3, <3>7, <4>9, <5>3 DEF Advanced
          <6> QED
            BY <2>12, <5>3, <6>1
        <5> QED
          BY <2>1, <5>1, <5>2, <5>3
      <4>11. FollowsRun(ts, more, j)
        <5>1. ts.since = more[j].at /\ ts.online = more[n + 1].online
          BY <2>2, <2>5, <3>4, <3>7, <4>10
        <5>2. j > 1 => ts.seenOnline /\ ts.seenOffline
          BY <3>1, <4>10 DEF FollowsRun
        <5>3. IF ts.online THEN ts.seenOnline ELSE ts.seenOffline
          BY <3>1, <4>10 DEF FollowsRun
        <5>4. ~ts.online => /\ ts.offlineEligible <=> after
                            /\ ts.offlineNotified <=> after /\ (had \/ lasts)
          BY <3>7, <4>5, <4>7, <4>10
        <5>5. ts.online => /\ ts.recoveryNotified <=> after /\ (had \/ lasts)
                           /\ ts.recoveryEligible <=> after /\ ~(had \/ lasts)
          BY <3>7, <4>5, <4>7, <4>10
        <5> QED
          BY <2>5, <4>4, <4>6, <5>1, <5>2, <5>3, <5>4, <5>5 DEF FollowsRun
      <4>12. j \in 1..(n + 1)
        BY <1>2
      <4> QED
        BY <2>4, <2>5, <4>8, <4>9, <4>10, <4>11, <4>12 DEF WorkerFollows
    <3> QED
      BY <3>6, <3>7
  <2> QED
    BY <1>2, <2>11, <2>12 DEF WorkerFollows
<1> QED
  BY <1>3, <1>4

LEMMA ForgetKept ==
    ASSUME NotifyInv, Forget(Saved) \/ UNCHANGED <<statusOf, observed, pinged>>
    PROVE  \A w \in Saved : WorkerFollows(statusOf'[w], observed'[w], pinged'[w])
<1>1. CASE Forget(Saved)
  <2>1. \A w \in Saved : statusOf'[w] = Unseen /\ observed'[w] = <<>> /\ pinged'[w] = {}
    BY <1>1 DEF Forget
  <2>2. <<>> \in Seq(Observation)
    OBVIOUS
  <2> QED
    BY <2>1, <2>2 DEF WorkerFollows
<1>2. CASE UNCHANGED <<statusOf, observed, pinged>>
  <2>1. statusOf' = statusOf /\ observed' = observed /\ pinged' = pinged
    BY <1>2
  <2>2. \A w \in Saved : WorkerFollows(statusOf[w], observed[w], pinged[w])
    BY DEF NotifyInv
  <2> SUFFICES ASSUME NEW w \in Saved PROVE WorkerFollows(statusOf'[w], observed'[w], pinged'[w])
    OBVIOUS
  <2>3. PICK st, obs, pings : st = statusOf[w] /\ obs = observed[w] /\ pings = pinged[w]
    OBVIOUS
  <2>4. st = statusOf'[w] /\ obs = observed'[w] /\ pings = pinged'[w]
    BY <2>1, <2>3
  <2>5. WorkerFollows(st, obs, pings)
    BY <2>2, <2>3
  <2> QED
    BY <2>4, <2>5
<1> QED
  BY <1>1, <1>2

\* The polls the steps leave behind
LEMMA PollTypes ==
    ASSUME NotifyTypes, NEW step, NEW saw
    PROVE  /\ [poll EXCEPT !.step = step] = [step |-> step, saw |-> poll.saw, at |-> poll.at]
           /\ [poll EXCEPT !.step = step, !.saw = saw] = [step |-> step, saw |-> saw, at |-> poll.at]
           /\ [NoPoll EXCEPT !.step = "refresh", !.at = notifyClock]
                 = [step |-> "refresh", saw |-> <<>>, at |-> notifyClock]
           /\ Ended = [step |-> "idle", saw |-> <<>>, at |-> notifyClock]
<1>1. PICK s, t, a : poll = [step |-> s, saw |-> t, at |-> a]
  BY DEF NotifyTypes
<1>2. NoPoll = [step |-> "idle", saw |-> <<>>, at |-> Never]
  BY DEF NoPoll
<1>3. Ended = [step |-> "idle", saw |-> <<>>, at |-> notifyClock]
  BY <1>2 DEF Ended
<1>4. [NoPoll EXCEPT !.step = "refresh", !.at = notifyClock]
        = [step |-> "refresh", saw |-> <<>>, at |-> notifyClock]
  <2>1. PICK e, c : e = <<>> /\ c = notifyClock
    OBVIOUS
  <2>2. NoPoll = [step |-> "idle", saw |-> e, at |-> Never]
    BY <1>2, <2>1
  <2>3. [NoPoll EXCEPT !.step = "refresh", !.at = c] = [step |-> "refresh", saw |-> e, at |-> c]
    <3>1. PICK p : p = [NoPoll EXCEPT !.step = "refresh"]
      OBVIOUS
    <3>2. p = [step |-> "refresh", saw |-> e, at |-> Never]
      BY <2>2, <3>1
    <3>3. [NoPoll EXCEPT !.step = "refresh", !.at = c] = [p EXCEPT !.at = c]
      BY <3>1, Zenon
    <3>4. [p EXCEPT !.at = c] = [step |-> "refresh", saw |-> e, at |-> c]
      BY <3>2
    <3> QED
      BY <3>3, <3>4, Zenon
  <2> QED
    BY <2>1, <2>3
<1>5. /\ [poll EXCEPT !.step = step] = [step |-> step, saw |-> poll.saw, at |-> poll.at]
      /\ [poll EXCEPT !.step = step, !.saw = saw] = [step |-> step, saw |-> saw, at |-> poll.at]
  <2>1. poll.saw = t /\ poll.at = a
    BY <1>1
  <2>2. [poll EXCEPT !.step = step] = [step |-> step, saw |-> t, at |-> a]
    BY <1>1
  <2>3. [poll EXCEPT !.step = step, !.saw = saw] = [step |-> step, saw |-> saw, at |-> a]
    <3>1. PICK p : p = [poll EXCEPT !.step = step]
      OBVIOUS
    <3>2. p = [step |-> step, saw |-> t, at |-> a]
      BY <2>2, <3>1
    <3>3. [poll EXCEPT !.step = step, !.saw = saw] = [p EXCEPT !.saw = saw]
      BY <3>1, Zenon
    <3>4. [p EXCEPT !.saw = saw] = [step |-> step, saw |-> saw, at |-> a]
      BY <3>2
    <3> QED
      BY <3>3, <3>4, Zenon
  <2> QED
    BY <2>1, <2>2, <2>3
<1> QED
  BY <1>3, <1>4, <1>5

LEMMA NotifyKept == NotifyInv /\ [WorkerNotifyNext]_notifyVars => NotifyInv'
<1> SUFFICES ASSUME NotifyInv, [WorkerNotifyNext]_notifyVars PROVE NotifyInv'
  OBVIOUS
<1>0. NotifyTypes /\ notifyClock \in Int
  BY NotifyConstants DEF NotifyInv, NotifyTypes
<1>1. CASE PollTick
  <2>1. notifyClock' \in 0..MaxClock
        /\ UNCHANGED <<cachedLink, networkUp, statusOf, poll, resets, observed, pinged>>
    BY <1>0, <1>1, NotifyConstants DEF PollTick, NotifyTypes
  <2> QED
    BY <1>0, <2>1 DEF NotifyInv, NotifyTypes
<1>2. CASE ResetAll
  <2>1. /\ resets' \in 0..MaxResets /\ networkUp' \in BOOLEAN /\ Forget(Saved)
        /\ UNCHANGED <<notifyClock, poll>>
    BY <1>0, <1>2, NotifyConstants DEF ResetAll, NotifyTypes
  <2>2. cachedLink' \in BOOLEAN
    BY <1>2 DEF ResetAll
  <2> QED
    BY <1>0, <2>1, <2>2, ForgetKept DEF NotifyInv, NotifyTypes
<1>3. CASE BeginPoll
  <2>1. poll' = [NoPoll EXCEPT !.step = "refresh", !.at = notifyClock]
        /\ UNCHANGED <<notifyClock, cachedLink, networkUp, statusOf, resets, observed, pinged>>
    BY <1>3 DEF BeginPoll
  <2>2. poll'.step = "refresh" /\ poll'.at = notifyClock
        /\ poll' = [step |-> poll'.step, saw |-> poll'.saw, at |-> poll'.at]
    BY <1>0, <2>1, PollTypes
  <2> QED
    BY <1>0, <2>1, <2>2 DEF NotifyInv, NotifyTypes
<1>4. CASE \E enabled \in BOOLEAN : RefreshLinks(enabled)
  <2>1. PICK enabled \in BOOLEAN : RefreshLinks(enabled)
    BY <1>4
  <2>2. Forget(Saved) \/ UNCHANGED <<statusOf, observed, pinged>>
    BY <2>1 DEF RefreshLinks, Sweep
  <2>3. UNCHANGED <<notifyClock, networkUp, resets>> /\ (cachedLink' = enabled \/ cachedLink' = cachedLink)
    BY <2>1 DEF RefreshLinks
  <2>4. poll' = [poll EXCEPT !.step = "look"] \/ poll' = Ended
    BY <2>1 DEF RefreshLinks
  <2>5. poll'.step \in {"idle", "look"} /\ poll'.at \in Int
        /\ poll' = [step |-> poll'.step, saw |-> poll'.saw, at |-> poll'.at]
    <3>1. PICK a \in Int : a = poll.at
      BY <1>0 DEF NotifyTypes
    <3>2. \/ poll' = [step |-> "look", saw |-> poll.saw, at |-> a]
          \/ poll' = [step |-> "idle", saw |-> <<>>, at |-> notifyClock]
      BY <1>0, <2>4, <3>1, PollTypes
    <3> QED
      BY <1>0, <3>2
  <2> QED
    BY <1>0, <2>2, <2>3, <2>5, ForgetKept DEF NotifyInv, NotifyTypes
<1>5. CASE \E notified \in SUBSET Saved : \E saw \in [notified -> BOOLEAN] : LookUpWorkers(saw)
  <2>0. PICK notified \in SUBSET Saved : \E saw \in [notified -> BOOLEAN] : LookUpWorkers(saw)
    BY <1>5
  <2>1. PICK saw \in [notified -> BOOLEAN] : LookUpWorkers(saw)
    BY <2>0
  <2>2. UNCHANGED <<notifyClock, cachedLink, networkUp, statusOf, resets, observed, pinged>>
        /\ (poll' = [poll EXCEPT !.step = "update", !.saw = saw] \/ poll' = Ended)
    BY <2>1 DEF LookUpWorkers
  <2>3. poll'.step \in {"idle", "update"} /\ poll'.at \in Int /\ (poll'.step = "update" => poll'.saw = saw)
        /\ poll' = [step |-> poll'.step, saw |-> poll'.saw, at |-> poll'.at]
    <3>1. PICK a \in Int : a = poll.at
      BY <1>0 DEF NotifyTypes
    <3>2. \/ poll' = [step |-> "update", saw |-> saw, at |-> a]
          \/ poll' = [step |-> "idle", saw |-> <<>>, at |-> notifyClock]
      BY <1>0, <2>2, <3>1, PollTypes
    <3> QED
      BY <1>0, <3>2
  <2>4. \A w \in DOMAIN saw : saw[w] \in BOOLEAN
    OBVIOUS
  <2> QED
    BY <1>0, <2>2, <2>3, <2>4 DEF NotifyInv, NotifyTypes
<1>6. CASE UpdateStates
  <2>1. poll' = Ended /\ UNCHANGED <<notifyClock, cachedLink, networkUp, resets>>
    BY <1>6 DEF UpdateStates
  <2>2. poll'.step = "idle" /\ poll'.at \in Int
        /\ poll' = [step |-> poll'.step, saw |-> poll'.saw, at |-> poll'.at]
    <3>1. poll' = [step |-> "idle", saw |-> <<>>, at |-> notifyClock]
      BY <1>0, <2>1, PollTypes
    <3> QED
      BY <1>0, <3>1
  <2>3. \A w \in Saved : WorkerFollows(statusOf'[w], observed'[w], pinged'[w])
    BY <1>6, UpdatedFollows
  <2> QED
    BY <1>0, <2>1, <2>2, <2>3 DEF NotifyInv, NotifyTypes
<1>7. CASE UNCHANGED notifyVars
  BY <1>7 DEF notifyVars, NotifyInv, NotifyTypes
<1> QED
  BY <1>1, <1>2, <1>3, <1>4, <1>5, <1>6, <1>7 DEF WorkerNotifyNext

LEMMA NotifyStarts == WorkerNotifyInit => NotifyInv
<1> SUFFICES ASSUME WorkerNotifyInit PROVE NotifyInv
  OBVIOUS
<1>1. poll = [step |-> "idle", saw |-> <<>>, at |-> Never]
  BY DEF WorkerNotifyInit, NoPoll
<1>2. NotifyTypes
  <2>1. cachedLink \in BOOLEAN /\ networkUp \in BOOLEAN
    BY DEF WorkerNotifyInit
  <2> QED
    BY <1>1, <2>1, NotifyConstants DEF WorkerNotifyInit, NotifyTypes
<1>3. \A w \in Saved : statusOf[w] = Unseen /\ observed[w] = <<>> /\ pinged[w] = {}
  BY DEF WorkerNotifyInit
<1>4. <<>> \in Seq(Observation)
  OBVIOUS
<1> QED
  BY <1>2, <1>3, <1>4 DEF NotifyInv, WorkerFollows

LEMMA NotifyInvariant == WorkerNotifySpec => []NotifyInv
BY NotifyStarts, NotifyKept, PTL DEF WorkerNotifySpec

(* For any workers, threshold and clock, a user is pinged exactly for the   *)
(* observations with which a change has been sustained, whatever is reset   *)
(* or switched off between the steps of a poll.                             *)
THEOREM SustainedChangesPinged == WorkerNotifySpec => []PingsOnSustainedChange
<1>1. NotifyInv => PingsOnSustainedChange
  <2> SUFFICES ASSUME NotifyInv, NEW w \in Saved
               PROVE  pinged[w] = {i \in 1..Len(observed[w]) : Noteworthy(observed[w], i)}
    BY DEF PingsOnSustainedChange
  <2>1. PICK obs, pings : obs = observed[w] /\ pings = pinged[w]
    OBVIOUS
  <2>2. WorkerFollows(statusOf[w], obs, pings)
    BY <2>1 DEF NotifyInv
  <2>3. CASE obs = <<>> /\ pings = {}
    <3>1. {i \in 1..Len(obs) : Noteworthy(obs, i)} = {}
      BY <2>3
    <3> QED
      BY <2>1, <2>3, <3>1
  <2>4. CASE pings = {i \in 1..Len(obs) : Noteworthy(obs, i)}
    BY <2>1, <2>4
  <2> QED
    BY <2>2, <2>3, <2>4 DEF WorkerFollows
<1> QED
  BY <1>1, NotifyInvariant, PTL

\* What the notifier remembers of every worker keeps its type (discord_notifier_poll.go).
THEOREM NotifyTypesCorrect == WorkerNotifySpec => []WorkerNotifyTypeOK
<1>1. NotifyInv => WorkerNotifyTypeOK
  <2> SUFFICES ASSUME NotifyInv PROVE WorkerNotifyTypeOK
    OBVIOUS
  <2>1. ASSUME NEW w \in Saved PROVE statusOf[w].known = (observed[w] # <<>>)
    <3>1. WorkerFollows(statusOf[w], observed[w], pinged[w])
      BY DEF NotifyInv
    <3>2. CASE statusOf[w] = Unseen /\ observed[w] = <<>>
      <4>1. statusOf[w].known = FALSE
        BY <3>2 DEF Unseen
      <4> QED
        BY <3>2, <4>1, Zenon
    <3>3. CASE statusOf[w] \in WorkerStatus /\ observed[w] # <<>>
      <4>1. statusOf[w].known = TRUE
        BY <3>3 DEF WorkerStatus
      <4> QED
        BY <3>3, <4>1, Zenon
    <3> QED
      BY <3>1, <3>2, <3>3 DEF WorkerFollows
  <2> QED
    BY <2>1 DEF NotifyInv, NotifyTypes, WorkerNotifyTypeOK
<1> QED
  BY <1>1, NotifyInvariant, PTL

HIDE WorkerNotifyAssumption

-----------------------------------------------------------------------------
(* PingQueue *)

USE PingQueueAssumption

PingMessages == [map : Nat, notices : Seq(Nat), userOrder : SUBSET Users, everyone : BOOLEAN]
UserMaps == [Users -> Seq(Nat)]

\* The lines of a sequence; a line is never after those of a later message, but for the notice of
\* dropped lines.
LinesIn(s) == {s[i] : i \in 1..Len(s)}
InOrder(s) == \A i, k \in 1..Len(s) : i < k /\ s[k] # DropNotice => s[i] <= s[k]
NotAfter(X, Y) == \A x \in X, y \in Y : y = DropNotice \/ x <= y

\* The lines for a user that a message holds, whether or not the user is in its list.
KeptFor(maps, m, u) ==
    IF u = NoUser THEN m.notices ELSE IF m.map = NoMap THEN <<>> ELSE maps[m.map][u]

PingTypes ==
    /\ lines \in 0..MaxQueued /\ wipes \in 0..MaxWipes
    /\ droppedLines \in 0..lines /\ noticeDue \in BOOLEAN
    /\ pingQueue \in Seq(PingMessages) /\ Len(pingQueue) <= QueueLimit
    /\ linesByUser \in Seq(UserMaps) /\ Len(linesByUser) <= lines
    /\ sender = [step |-> sender.step, next |-> sender.next, content |-> sender.content]
    /\ sender.step \in {"idle", "peeked", "rendered", "pop"}
    /\ sender.next \in PingMessages /\ sender.content \in [Readers -> Seq(Nat)]
    /\ posted \in [Readers -> Seq(Nat)]

\* No two messages have a map in common, and the copy being sent only with the head.
KnownMap(m, n) == m.map \in 0..n /\ (m.userOrder # {} => m.map # NoMap)
MapsApart(q, next, n) ==
    /\ \A i \in 1..Len(q) : KnownMap(q[i], n)
    /\ KnownMap(next, n)
    /\ \A i, k \in 1..Len(q) : i < k => q[k].map = NoMap \/ q[i].map # q[k].map
    /\ \A k \in 2..Len(q) : q[k].map = NoMap \/ next.map # q[k].map

\* What is posted comes before what is queued, which is in order; while a message is being sent
\* it comes before all messages but the head.
Ordered(u, q, maps, p, s, top) ==
    /\ \A i \in 1..Len(q) : InOrder(KeptFor(maps, q[i], u))
                            /\ LinesIn(KeptFor(maps, q[i], u)) \subseteq 0..top
    /\ \A i, k \in 1..Len(q) : i < k =>
          NotAfter(LinesIn(KeptFor(maps, q[i], u)), LinesIn(KeptFor(maps, q[k], u)))
    /\ InOrder(p) /\ LinesIn(p) \subseteq 0..top
    /\ \A i \in 1..Len(q) : (s.step = "pop" /\ i = 1)
                            \/ NotAfter(LinesIn(p), LinesIn(KeptFor(maps, q[i], u)))
    /\ s.step \in {"peeked", "rendered"} =>
          /\ InOrder(KeptFor(maps, s.next, u)) /\ LinesIn(KeptFor(maps, s.next, u)) \subseteq 0..top
          /\ NotAfter(LinesIn(p), LinesIn(KeptFor(maps, s.next, u)))
          /\ \A k \in 2..Len(q) :
                NotAfter(LinesIn(KeptFor(maps, s.next, u)), LinesIn(KeptFor(maps, q[k], u)))
    /\ s.step = "rendered" =>
          InOrder(s.content[u]) /\ LinesIn(s.content[u]) \subseteq LinesIn(KeptFor(maps, s.next, u))

PingInv ==
    /\ PingTypes /\ MapsApart(pingQueue, sender.next, Len(linesByUser))
    /\ \A u \in Readers : Ordered(u, pingQueue, linesByUser, posted[u], sender, lines)

-----------------------------------------------------------------------------
(* Sequences of lines *)

LEMMA EmptyOrder == <<>> \in Seq(Nat) /\ InOrder(<<>>) /\ LinesIn(<<>>) = {}
<1>1. <<>> \in Seq(Nat) /\ Len(<<>>) = 0 /\ 1..0 = {}
  OBVIOUS
<1> QED
  BY <1>1 DEF InOrder, LinesIn

LEMMA OneLine ==
    ASSUME NEW l \in Nat
    PROVE  <<l>> \in Seq(Nat) /\ InOrder(<<l>>) /\ LinesIn(<<l>>) = {l}
<1>1. <<l>> \in Seq(Nat) /\ Len(<<l>>) = 1 /\ <<l>>[1] = l /\ 1..1 = {1}
  OBVIOUS
<1> QED
  BY <1>1 DEF InOrder, LinesIn

\* A line with a new number is in order after all others.
LEMMA LineAdded ==
    ASSUME NEW s \in Seq(Nat), NEW top \in Nat, InOrder(s), LinesIn(s) \subseteq 0..top
    PROVE  LET t == Append(s, top + 1) IN
           t \in Seq(Nat) /\ InOrder(t) /\ LinesIn(t) = LinesIn(s) \cup {top + 1}
<1>0. PICK t : t = Append(s, top + 1)
  OBVIOUS
<1>1. PICK n \in Nat : n = Len(s)
  BY LenProperties
<1>2. t \in Seq(Nat) /\ Len(t) = n + 1 /\ t[n + 1] = top + 1 /\ \A i \in 1..n : t[i] = s[i]
  BY <1>0, <1>1, AppendProperties
<1>3. \A i \in 1..(n + 1) : i \in 1..n \/ i = n + 1
  OBVIOUS
<1>4. \A i \in 1..n : s[i] \in 0..top
  BY <1>1 DEF LinesIn
<1>5. InOrder(t)
  <2> SUFFICES ASSUME NEW i \in 1..(n + 1), NEW k \in 1..(n + 1), i < k, t[k] # DropNotice
               PROVE  t[i] <= t[k]
    BY <1>2 DEF InOrder
  <2>1. i \in 1..n
    OBVIOUS
  <2>2. CASE k = n + 1
    BY <1>2, <1>4, <2>1, <2>2
  <2>3. CASE k \in 1..n
    BY <1>1, <1>2, <2>1, <2>3 DEF InOrder
  <2> QED
    BY <1>3, <2>2, <2>3
<1>6. LinesIn(t) = LinesIn(s) \cup {top + 1}
  <2>1. \A i \in 1..n : i \in 1..(n + 1)
    OBVIOUS
  <2>2. n + 1 \in 1..(n + 1)
    OBVIOUS
  <2>3. LinesIn(t) = {t[i] : i \in 1..(n + 1)} /\ LinesIn(s) = {s[i] : i \in 1..n}
    BY <1>1, <1>2 DEF LinesIn
  <2> QED
    BY <1>2, <1>3, <2>1, <2>2, <2>3
<1> QED
  BY <1>0, <1>2, <1>5, <1>6

\* What follows what it may follow is in order.
LEMMA LinesJoined ==
    ASSUME NEW s \in Seq(Nat), NEW t \in Seq(Nat), InOrder(s), InOrder(t),
           NotAfter(LinesIn(s), LinesIn(t))
    PROVE  s \o t \in Seq(Nat) /\ InOrder(s \o t) /\ LinesIn(s \o t) = LinesIn(s) \cup LinesIn(t)
<1>0. PICK b : b = s \o t
  OBVIOUS
<1>1. PICK n \in Nat, m \in Nat : n = Len(s) /\ m = Len(t)
  BY LenProperties
<1>2. b \in Seq(Nat) /\ Len(b) = n + m
      /\ \A i \in 1..(n + m) : b[i] = IF i <= n THEN s[i] ELSE t[i - n]
  BY <1>0, <1>1, ConcatProperties
<1>3. \A i \in 1..(n + m) : (i <= n /\ i \in 1..n) \/ (~(i <= n) /\ i - n \in 1..m)
  OBVIOUS
<1>4. \A i \in 1..n : i \in 1..(n + m) /\ b[i] = s[i]
  BY <1>2
<1>5. \A i \in 1..m : i + n \in 1..(n + m) /\ b[i + n] = t[i]
  <2> TAKE i \in 1..m
  <2>1. i + n \in 1..(n + m) /\ ~(i + n <= n) /\ (i + n) - n = i
    OBVIOUS
  <2> QED
    BY <1>2, <2>1
<1>6. InOrder(b)
  <2> SUFFICES ASSUME NEW i \in 1..(n + m), NEW k \in 1..(n + m), i < k, b[k] # DropNotice
               PROVE  b[i] <= b[k]
    BY <1>2 DEF InOrder
  <2>1. CASE i <= n /\ k <= n
    BY <1>1, <1>2, <2>1 DEF InOrder
  <2>2. CASE i <= n /\ ~(k <= n)
    <3>1. b[i] = s[i] /\ b[k] = t[k - n] /\ i \in 1..n /\ k - n \in 1..m
      BY <1>2, <2>2
    <3>2. s[i] \in LinesIn(s) /\ t[k - n] \in LinesIn(t)
      BY <1>1, <3>1 DEF LinesIn
    <3> QED
      BY <3>1, <3>2 DEF NotAfter
  <2>3. CASE ~(i <= n)
    <3>1. b[i] = t[i - n] /\ b[k] = t[k - n] /\ i - n \in 1..m /\ k - n \in 1..m /\ i - n < k - n
      <4>1. ~(k <= n)
        BY <2>3
      <4>2. i - n \in 1..m /\ k - n \in 1..m /\ i - n < k - n
        BY <2>3, <4>1
      <4>3. b[i] = t[i - n]
        BY <1>2, <2>3
      <4>4. b[k] = t[k - n]
        BY <1>2, <4>1
      <4> QED
        BY <4>2, <4>3, <4>4
    <3> QED
      BY <1>1, <3>1 DEF InOrder
  <2> QED
    BY <2>1, <2>2, <2>3
<1>7. LinesIn(b) = LinesIn(s) \cup LinesIn(t)
  <2>1. LinesIn(b) = {b[i] : i \in 1..(n + m)} /\ LinesIn(s) = {s[i] : i \in 1..n}
        /\ LinesIn(t) = {t[i] : i \in 1..m}
    BY <1>1, <1>2 DEF LinesIn
  <2>2. LinesIn(b) \subseteq LinesIn(s) \cup LinesIn(t)
    BY <1>2, <1>3, <2>1
  <2>3. LinesIn(s) \subseteq LinesIn(b)
    BY <1>4, <2>1
  <2>4. LinesIn(t) \subseteq LinesIn(b)
    BY <1>5, <2>1
  <2> QED
    BY <2>2, <2>3, <2>4
<1> QED
  BY <1>0, <1>2, <1>6, <1>7

-----------------------------------------------------------------------------
(* What an enqueued line changes for one user *)

LEMMA MapAdded ==
    ASSUME NEW maps \in Seq(UserMaps), NEW user \in Users, NEW line \in Nat
    PROVE  LET b == NewMap(maps, user, line)  n == Len(maps) IN
           /\ b \in Seq(UserMaps) /\ Len(b) = n + 1 /\ \A k \in 1..n : b[k] = maps[k]
           /\ \A u \in Users : b[n + 1][u] = IF u = user THEN <<line>> ELSE <<>>
<1>1. PICK new : new = [u \in Users |-> IF u = user THEN <<line>> ELSE <<>>]
  OBVIOUS
<1>2. <<line>> \in Seq(Nat) /\ <<>> \in Seq(Nat)
  OBVIOUS
<1>3. new \in UserMaps
  BY <1>1, <1>2 DEF UserMaps
<1>4. PICK b, n : b = NewMap(maps, user, line) /\ n = Len(maps)
  OBVIOUS
<1>5. b = Append(maps, new)
  BY <1>1, <1>4 DEF NewMap
<1>6. b \in Seq(UserMaps) /\ Len(b) = n + 1 /\ b[n + 1] = new /\ \A k \in 1..n : b[k] = maps[k]
  BY <1>3, <1>4, <1>5, AppendProperties
<1>7. \A u \in Users : b[n + 1][u] = IF u = user THEN <<line>> ELSE <<>>
  BY <1>1, <1>6
<1> QED
  BY <1>4, <1>6, <1>7

LEMMA MapExtended ==
    ASSUME NEW maps \in Seq(UserMaps), NEW j \in 1..Len(maps), NEW user \in Users, NEW line \in Nat
    PROVE  LET b == [maps EXCEPT ![j][user] = Append(@, line)] IN
           /\ b \in Seq(UserMaps) /\ Len(b) = Len(maps)
           /\ \A k \in 1..Len(maps), u \in Users :
                 b[k][u] = IF k = j /\ u = user THEN Append(maps[k][u], line) ELSE maps[k][u]
<1>0. PICK n, b : n = Len(maps) /\ n \in Nat /\ b = [maps EXCEPT ![j][user] = Append(@, line)]
  BY LenProperties
<1>1. maps[j] \in UserMaps /\ \A k \in 1..n : maps[k] \in UserMaps
  BY <1>0, LenProperties
<1>2. PICK more : more = Append(maps[j][user], line)
  OBVIOUS
<1>3. maps[j][user] \in Seq(Nat)
  BY <1>1 DEF UserMaps
<1>4. more \in Seq(Nat)
  BY <1>2, <1>3, AppendProperties
<1>5. PICK new : new = [maps[j] EXCEPT ![user] = more]
  OBVIOUS
<1>6. new \in UserMaps /\ \A u \in Users : new[u] = IF u = user THEN more ELSE maps[j][u]
  BY <1>1, <1>4, <1>5 DEF UserMaps
<1>7. b = [maps EXCEPT ![j] = new]
  BY <1>0, <1>2, <1>5
<1>8. b \in Seq(UserMaps) /\ Len(b) = n /\ \A k \in 1..n : b[k] = IF k = j THEN new ELSE maps[k]
  <2>1. /\ [maps EXCEPT ![j] = new] \in Seq(UserMaps)
        /\ Len([maps EXCEPT ![j] = new]) = Len(maps)
        /\ \A k \in 1..Len(maps) : [maps EXCEPT ![j] = new][k] = IF k = j THEN new ELSE maps[k]
    BY <1>6, ExceptSeq
  <2> QED
    BY <1>0, <1>7, <2>1
<1>9. \A k \in 1..n, u \in Users :
         b[k][u] = IF k = j /\ u = user THEN Append(maps[k][u], line) ELSE maps[k][u]
  BY <1>2, <1>6, <1>8
<1> QED
  BY <1>0, <1>8, <1>9

\* The queue and the maps after a line for user was enqueued, with the fresh map number n + 1.
QueueExtends(user, q, n, q2, n2, line, l) ==
    /\ Len(q2) \in {l, l + 1} /\ n2 \in {n, n + 1}
    /\ \A i \in 1..l : i # l => q2[i] = q[i]
    /\ l > 0 => /\ q2[l].map = q[l].map
                   \/ (q[l].map = NoMap /\ q2[l].map = n + 1 /\ Len(q2) = l /\ n2 = n + 1)
                /\ q2[l].notices = q[l].notices
                   \/ (user = NoUser /\ q2[l].notices = Append(q[l].notices, line))
                /\ q2[l].userOrder # {} => q2[l].map # NoMap
    /\ Len(q2) = l + 1 =>
          /\ q2[l + 1].map = NoMap \/ (q2[l + 1].map = n + 1 /\ n2 = n + 1)
          /\ q2[l + 1].notices \in {<<>>, <<line>>}
          /\ q2[l + 1].userOrder # {} => q2[l + 1].map # NoMap
MapsExtend(q, maps, maps2, line, l, n) ==
    /\ \A k \in 1..n, u \in Users :
          \/ maps2[k][u] = maps[k][u]
          \/ l > 0 /\ k = q[l].map /\ maps2[k][u] = Append(maps[k][u], line)
    /\ Len(maps2) = n + 1 => \A u \in Users : maps2[n + 1][u] \in {<<>>, <<line>>}
Extends(user, q, maps, q2, maps2, line) ==
    /\ QueueExtends(user, q, Len(maps), q2, Len(maps2), line, Len(q))
    /\ MapsExtend(q, maps, maps2, line, Len(q), Len(maps))

\* Of the lines for a user, only those of the last message grow, and those of the copy being sent
\* with them.
GrowsFor(u, q, maps, next, q2, maps2, line) ==
    LET l == Len(q) IN
    /\ Len(q2) \in {l, l + 1}
    /\ \A i \in 1..l : i # l => KeptFor(maps2, q2[i], u) = KeptFor(maps, q[i], u)
    /\ l > 0 => \/ KeptFor(maps2, q2[l], u) = KeptFor(maps, q[l], u)
                \/ KeptFor(maps2, q2[l], u) = Append(KeptFor(maps, q[l], u), line)
    /\ Len(q2) = l + 1 => KeptFor(maps2, q2[l + 1], u) \in {<<>>, <<line>>}
    /\ \/ KeptFor(maps2, next, u) = KeptFor(maps, next, u)
       \/ l = 1 /\ KeptFor(maps2, next, u) = Append(KeptFor(maps, next, u), line)

LEMMA ExtendsGrows ==
    ASSUME NEW user, NEW q \in Seq(PingMessages), NEW maps \in Seq(UserMaps), NEW q2, NEW maps2,
           NEW line \in Nat, NEW next \in PingMessages, NEW u \in Readers,
           MapsApart(q, next, Len(maps)), Extends(user, q, maps, q2, maps2, line)
    PROVE  GrowsFor(u, q, maps, next, q2, maps2, line)
<1>0. PICK l \in Nat, n \in Nat : l = Len(q) /\ n = Len(maps)
  BY LenProperties
<1>1. /\ \A i \in 1..l : q[i].map \in 0..n /\ (q[i].map # NoMap => q[i].map \in 1..n)
      /\ next.map \in 0..n /\ (next.map # NoMap => next.map \in 1..n)
      /\ \A i, k \in 1..l : i < k => q[k].map = NoMap \/ q[i].map # q[k].map
      /\ \A k \in 2..l : q[k].map = NoMap \/ next.map # q[k].map
  BY <1>0 DEF MapsApart, KnownMap, NoMap
<1>2. /\ Len(q2) \in {l, l + 1} /\ Len(maps2) \in {n, n + 1}
      /\ \A i \in 1..l : i # l => q2[i] = q[i]
      /\ \A k \in 1..n, v \in Users :
            \/ maps2[k][v] = maps[k][v]
            \/ l > 0 /\ k = q[l].map /\ maps2[k][v] = Append(maps[k][v], line)
      /\ Len(maps2) = n + 1 => \A v \in Users : maps2[n + 1][v] \in {<<>>, <<line>>}
  BY <1>0 DEF Extends, QueueExtends, MapsExtend
<1>3. ASSUME l > 0
      PROVE  /\ \/ q2[l].map = q[l].map
                \/ q[l].map = NoMap /\ q2[l].map = n + 1 /\ Len(maps2) = n + 1
             /\ \/ q2[l].notices = q[l].notices
                \/ q2[l].notices = Append(q[l].notices, line)
  BY <1>0, <1>3 DEF Extends, QueueExtends, MapsExtend
<1>4. ASSUME Len(q2) = l + 1
      PROVE  /\ q2[l + 1].map = NoMap \/ (q2[l + 1].map = n + 1 /\ Len(maps2) = n + 1)
             /\ q2[l + 1].notices \in {<<>>, <<line>>}
  BY <1>0, <1>4 DEF Extends, QueueExtends, MapsExtend
<1>5. u # NoUser => u \in Users
  BY DEF Readers
<1>6. n + 1 # NoMap
  BY DEF NoMap
<1>7. ASSUME NEW i \in 1..l, i # l PROVE KeptFor(maps2, q2[i], u) = KeptFor(maps, q[i], u)
  <2>1. q2[i] = q[i] /\ l \in 1..l /\ i < l
    BY <1>2, <1>7
  <2>2. q[i].map # NoMap => q[i].map \in 1..n /\ q[i].map # q[l].map
    BY <1>1, <2>1
  <2> QED
    BY <1>2, <1>5, <2>1, <2>2 DEF KeptFor
<1>8. ASSUME l > 0
      PROVE  \/ KeptFor(maps2, q2[l], u) = KeptFor(maps, q[l], u)
             \/ KeptFor(maps2, q2[l], u) = Append(KeptFor(maps, q[l], u), line)
  <2>1. CASE u = NoUser
    BY <1>3, <1>8, <2>1 DEF KeptFor
  <2>2. CASE u # NoUser /\ q2[l].map = q[l].map
    <3>1. CASE q[l].map = NoMap
      BY <2>2, <3>1 DEF KeptFor
    <3>2. CASE q[l].map # NoMap
      <4>1. PICK k \in 1..n : k = q[l].map
        BY <1>1, <1>8, <3>2
      <4>2. maps2[k][u] = maps[k][u] \/ maps2[k][u] = Append(maps[k][u], line)
        BY <1>2, <1>5, <2>2
      <4>3. KeptFor(maps2, q2[l], u) = maps2[k][u] /\ KeptFor(maps, q[l], u) = maps[k][u]
        BY <2>2, <3>2, <4>1 DEF KeptFor
      <4> QED
        BY <4>2, <4>3
    <3> QED
      BY <3>1, <3>2
  <2>3. CASE u # NoUser /\ q[l].map = NoMap /\ q2[l].map = n + 1 /\ Len(maps2) = n + 1
    <3>1. KeptFor(maps, q[l], u) = <<>> /\ KeptFor(maps2, q2[l], u) \in {<<>>, <<line>>}
      BY <1>2, <1>5, <1>6, <2>3 DEF KeptFor
    <3>2. Append(<<>>, line) = <<line>>
      OBVIOUS
    <3> QED
      BY <3>1, <3>2
  <2> QED
    BY <1>3, <1>8, <2>1, <2>2, <2>3
<1>9. ASSUME Len(q2) = l + 1 PROVE KeptFor(maps2, q2[l + 1], u) \in {<<>>, <<line>>}
  BY <1>2, <1>4, <1>5, <1>6, <1>9 DEF KeptFor
<1>10. \/ KeptFor(maps2, next, u) = KeptFor(maps, next, u)
       \/ l = 1 /\ KeptFor(maps2, next, u) = Append(KeptFor(maps, next, u), line)
  <2>1. CASE u = NoUser \/ next.map = NoMap
    BY <2>1 DEF KeptFor
  <2>2. CASE u # NoUser /\ next.map # NoMap
    <3>1. PICK k \in 1..n : k = next.map
      BY <1>1, <2>2
    <3>2. KeptFor(maps2, next, u) = maps2[k][u] /\ KeptFor(maps, next, u) = maps[k][u]
      BY <2>2, <3>1 DEF KeptFor
    <3>3. l > 0 /\ k = q[l].map => l = 1
      BY <1>1, <2>2, <3>1
    <3>4. \/ maps2[k][u] = maps[k][u]
          \/ l > 0 /\ k = q[l].map /\ maps2[k][u] = Append(maps[k][u], line)
      BY <1>2, <1>5, <2>2
    <3> QED
      BY <3>2, <3>3, <3>4
  <2> QED
    BY <2>1, <2>2
<1> QED
  BY <1>0, <1>2, <1>7, <1>8, <1>9, <1>10 DEF GrowsFor

LEMMA ExtendsApart ==
    ASSUME NEW user, NEW q \in Seq(PingMessages), NEW maps \in Seq(UserMaps), NEW q2, NEW maps2,
           NEW line \in Nat, NEW next \in PingMessages,
           MapsApart(q, next, Len(maps)), Extends(user, q, maps, q2, maps2, line)
    PROVE  MapsApart(q2, next, Len(maps2))
<1>0. PICK l, n, l2, n2 : l = Len(q) /\ n = Len(maps) /\ l2 = Len(q2) /\ n2 = Len(maps2)
  OBVIOUS
<1>1. l \in Nat /\ n \in Nat /\ l2 \in {l, l + 1} /\ n2 \in {n, n + 1}
  BY <1>0, LenProperties DEF Extends, QueueExtends, MapsExtend
<1>2. /\ \A i \in 1..l : q[i].map \in 0..n /\ (q[i].userOrder # {} => q[i].map # NoMap)
      /\ next.map \in 0..n /\ (next.userOrder # {} => next.map # NoMap)
      /\ \A i, k \in 1..l : i < k => q[k].map = NoMap \/ q[i].map # q[k].map
      /\ \A k \in 2..l : q[k].map = NoMap \/ next.map # q[k].map
  BY <1>0 DEF MapsApart, KnownMap
<1>3. \A i \in 1..l : i # l => q2[i] = q[i]
  BY <1>0 DEF Extends, QueueExtends, MapsExtend
<1>4. l > 0 => /\ q2[l].map = q[l].map
                  \/ (q[l].map = NoMap /\ q2[l].map = n + 1 /\ l2 = l /\ n2 = n + 1)
               /\ q2[l].userOrder # {} => q2[l].map # NoMap
  BY <1>0 DEF Extends, QueueExtends, MapsExtend
<1>5. l2 = l + 1 => /\ q2[l + 1].map = NoMap \/ (q2[l + 1].map = n + 1 /\ n2 = n + 1)
                    /\ q2[l + 1].userOrder # {} => q2[l + 1].map # NoMap
  BY <1>0 DEF Extends, QueueExtends, MapsExtend
<1>6. \A i \in 1..l2 : (i \in 1..l /\ i # l) \/ (i = l /\ l > 0 /\ l \in 1..l) \/ (i = l + 1 /\ l2 = l + 1)
  BY <1>1
<1>7. 0..n \subseteq 0..n2 /\ (n2 = n + 1 => n + 1 \in 0..n2) /\ NoMap \in 0..n2
  BY <1>1 DEF NoMap
<1>8. ASSUME NEW i \in 1..l2
      PROVE  q2[i].map \in 0..n2 /\ (q2[i].userOrder # {} => q2[i].map # NoMap)
  <2>1. CASE i \in 1..l /\ i # l
    BY <1>2, <1>3, <1>7, <2>1
  <2>2. CASE i = l /\ l > 0 /\ l \in 1..l
    BY <1>2, <1>4, <1>7, <2>2
  <2>3. CASE i = l + 1 /\ l2 = l + 1
    BY <1>5, <1>7, <2>3
  <2> QED
    BY <1>6, <2>1, <2>2, <2>3
<1>9. ASSUME NEW i \in 1..l2, NEW k \in 1..l2, i < k
      PROVE  q2[k].map = NoMap \/ q2[i].map # q2[k].map
  <2>1. CASE k \in 1..l /\ k # l
    <3>1. i \in 1..l /\ i # l
      BY <1>1, <1>9, <2>1
    <3> QED
      BY <1>2, <1>3, <1>9, <2>1, <3>1
  <2>2. CASE k = l /\ l > 0 /\ l \in 1..l
    <3>1. i \in 1..l /\ i # l /\ q2[i].map = q[i].map /\ q[i].map \in 0..n
      BY <1>1, <1>2, <1>3, <1>9, <2>2
    <3> QED
      BY <1>1, <1>2, <1>4, <1>9, <2>2, <3>1
  <2>3. CASE k = l + 1 /\ l2 = l + 1
    <3>1. i \in 1..l
      BY <1>1, <1>9, <2>3
    <3>2. q2[i].map = q[i].map
      BY <1>1, <1>3, <1>4, <2>3, <3>1
    <3>3. q2[i].map \in 0..n
      BY <1>2, <3>1, <3>2
    <3> QED
      BY <1>1, <1>5, <2>3, <3>3
  <2> QED
    BY <1>6, <2>1, <2>2, <2>3
<1>10. ASSUME NEW k \in 2..l2 PROVE q2[k].map = NoMap \/ next.map # q2[k].map
  <2>1. k \in 1..l2
    BY <1>1
  <2>2. CASE k \in 1..l /\ k # l
    <3>1. k \in 2..l
      BY <2>2
    <3> QED
      BY <1>2, <1>3, <2>2, <3>1
  <2>3. CASE k = l /\ l > 0 /\ l \in 1..l
    <3>1. l \in 2..l
      BY <2>3
    <3> QED
      BY <1>1, <1>2, <1>4, <2>3, <3>1
  <2>4. CASE k = l + 1 /\ l2 = l + 1
    BY <1>1, <1>2, <1>5, <2>4
  <2> QED
    BY <1>6, <2>1, <2>2, <2>3, <2>4
<1>11. next.map \in 0..n2
  BY <1>2, <1>7
<1> QED
  BY <1>0, <1>2, <1>8, <1>9, <1>10, <1>11 DEF MapsApart, KnownMap

LEMMA KeptLines ==
    ASSUME NEW maps \in Seq(UserMaps), NEW m \in PingMessages, NEW u \in Readers,
           KnownMap(m, Len(maps))
    PROVE  KeptFor(maps, m, u) \in Seq(Nat)
<1>1. m.notices \in Seq(Nat) /\ <<>> \in Seq(Nat)
  BY DEF PingMessages
<1>2. ASSUME u # NoUser, m.map # NoMap PROVE maps[m.map][u] \in Seq(Nat)
  <2>1. u \in Users /\ m.map \in 1..Len(maps)
    BY <1>2, LenProperties DEF Readers, KnownMap, NoMap
  <2>2. maps[m.map] \in UserMaps
    BY <2>1, LenProperties
  <2> QED
    BY <2>1, <2>2 DEF UserMaps
<1> QED
  BY <1>1, <1>2 DEF KeptFor

\* The lines for a user stay in order when those of the last message grow by a new one.
LEMMA GrowthOrdered ==
    ASSUME NEW q \in Seq(PingMessages), NEW maps \in Seq(UserMaps), NEW q2, NEW maps2,
           NEW top \in Nat, NEW s, s.next \in PingMessages, NEW u \in Readers, NEW p,
           MapsApart(q, s.next, Len(maps)), Ordered(u, q, maps, p, s, top),
           GrowsFor(u, q, maps, s.next, q2, maps2, top + 1)
    PROVE  Ordered(u, q2, maps2, p, s, top + 1)
<1>0. PICK l, line : l = Len(q) /\ l \in Nat /\ line = top + 1 /\ line \in Nat
  BY LenProperties
<1>1. PICK next : next = s.next
  OBVIOUS
<1> DEFINE Old(i) == KeptFor(maps, q[i], u)
           New(i) == KeptFor(maps2, q2[i], u)
<1>2. PICK a, b : a = KeptFor(maps, next, u) /\ b = KeptFor(maps2, next, u)
  OBVIOUS
<1>3. /\ \A i \in 1..l : Old(i) \in Seq(Nat)
      /\ a \in Seq(Nat)
  <2>1. \A i \in 1..l : q[i] \in PingMessages /\ KnownMap(q[i], Len(maps))
    BY <1>0, LenProperties DEF MapsApart
  <2>2. next \in PingMessages /\ KnownMap(next, Len(maps))
    BY <1>1 DEF MapsApart
  <2> QED
    BY <1>2, <2>1, <2>2, KeptLines
<1>4. /\ \A i \in 1..l : InOrder(Old(i)) /\ LinesIn(Old(i)) \subseteq 0..top
      /\ \A i, k \in 1..l : i < k => NotAfter(LinesIn(Old(i)), LinesIn(Old(k)))
      /\ InOrder(p) /\ LinesIn(p) \subseteq 0..top
      /\ \A i \in 1..l : (s.step = "pop" /\ i = 1) \/ NotAfter(LinesIn(p), LinesIn(Old(i)))
  BY <1>0 DEF Ordered
<1>5. s.step \in {"peeked", "rendered"} =>
          /\ InOrder(a) /\ LinesIn(a) \subseteq 0..top /\ NotAfter(LinesIn(p), LinesIn(a))
          /\ \A k \in 2..l : NotAfter(LinesIn(a), LinesIn(Old(k)))
  BY <1>0, <1>1, <1>2 DEF Ordered
<1>6. s.step = "rendered" => InOrder(s.content[u]) /\ LinesIn(s.content[u]) \subseteq LinesIn(a)
  BY <1>1, <1>2 DEF Ordered
<1>7. PICK l2 : l2 = Len(q2) /\ l2 \in {l, l + 1}
  BY <1>0 DEF GrowsFor
<1>8. /\ \A i \in 1..l : i # l => New(i) = Old(i)
      /\ l > 0 => New(l) = Old(l) \/ New(l) = Append(Old(l), line)
      /\ l2 = l + 1 => New(l + 1) \in {<<>>, <<line>>}
      /\ b = a \/ (l = 1 /\ b = Append(a, line))
  BY <1>0, <1>1, <1>2, <1>7 DEF GrowsFor
<1> HIDE DEF Old, New
<1>9. 0..top \subseteq 0..line /\ line \in 0..line /\ \A x \in 0..top : x <= line
  BY <1>0
\* What becomes of the lines of one message
<1>10. ASSUME NEW x \in Seq(Nat), InOrder(x), LinesIn(x) \subseteq 0..top,
              NEW y, y = x \/ y = Append(x, line)
       PROVE  /\ InOrder(y) /\ LinesIn(y) \subseteq 0..line
              /\ LinesIn(x) \subseteq LinesIn(y) /\ LinesIn(y) \subseteq LinesIn(x) \cup {line}
  <2>1. CASE y = x
    BY <1>9, <1>10, <2>1
  <2>2. CASE y = Append(x, line)
    <3>1. InOrder(y) /\ LinesIn(y) = LinesIn(x) \cup {line}
      BY <1>0, <1>10, <2>2, LineAdded
    <3> QED
      BY <1>9, <1>10, <3>1
  <2> QED
    BY <1>10, <2>1, <2>2
<1>11. \A i \in 1..l : New(i) = Old(i) \/ (i = l /\ New(i) = Append(Old(i), line))
  BY <1>0, <1>8
<1>12. ASSUME NEW i \in 1..l
       PROVE  /\ InOrder(New(i)) /\ LinesIn(New(i)) \subseteq 0..line
              /\ LinesIn(New(i)) \subseteq LinesIn(Old(i)) \cup {line}
  BY <1>3, <1>4, <1>10, <1>11
<1>13. ASSUME l2 = l + 1
       PROVE  InOrder(New(l + 1)) /\ LinesIn(New(l + 1)) \subseteq {line}
  BY <1>0, <1>8, <1>13, EmptyOrder, OneLine
<1>14. \A i \in 1..l2 : i \in 1..l \/ (i = l + 1 /\ l2 = l + 1)
  BY <1>0, <1>7
\* A set of known lines stays before what grows by the new one.
<1>15. ASSUME NEW X, NEW Y, NEW Z, NotAfter(X, Y), X \subseteq 0..line, Z \subseteq Y \cup {line}
       PROVE  NotAfter(X, Z)
  BY <1>0, <1>9, <1>15 DEF NotAfter
<1>16. ASSUME NEW X, NEW Z, X \subseteq 0..line, Z \subseteq {line}
       PROVE  NotAfter(X, Z)
  BY <1>0, <1>16 DEF NotAfter
<1>17. \A i \in 1..l2 : InOrder(New(i)) /\ LinesIn(New(i)) \subseteq 0..line
  BY <1>9, <1>12, <1>13, <1>14
<1>18. ASSUME NEW i \in 1..l2, NEW k \in 1..l2, i < k
       PROVE  NotAfter(LinesIn(New(i)), LinesIn(New(k)))
  <2>1. i \in 1..l
    BY <1>0, <1>7, <1>18
  <2>2. CASE k \in 1..l
    <3>1. i # l
      BY <1>18, <2>2
    <3>2. New(i) = Old(i)
      BY <1>8, <2>1, <3>1
    <3>3. NotAfter(LinesIn(New(i)), LinesIn(Old(k)))
      BY <1>4, <1>18, <2>1, <2>2, <3>2
    <3> QED
      BY <1>12, <1>15, <2>1, <2>2, <3>3
  <2>3. CASE k = l + 1 /\ l2 = l + 1
    BY <1>12, <1>13, <1>16, <2>1, <2>3
  <2> QED
    BY <1>14, <2>2, <2>3
<1>19. LinesIn(p) \subseteq 0..line
  BY <1>4, <1>9
<1>20. ASSUME NEW i \in 1..l2
       PROVE  (s.step = "pop" /\ i = 1) \/ NotAfter(LinesIn(p), LinesIn(New(i)))
  <2>1. CASE i \in 1..l
    BY <1>4, <1>12, <1>15, <1>19, <2>1
  <2>2. CASE i = l + 1 /\ l2 = l + 1
    BY <1>13, <1>16, <1>19, <2>2
  <2> QED
    BY <1>14, <2>1, <2>2
<1>21. ASSUME s.step \in {"peeked", "rendered"}
       PROVE  /\ InOrder(b) /\ LinesIn(b) \subseteq 0..line /\ NotAfter(LinesIn(p), LinesIn(b))
              /\ \A k \in 2..l2 : NotAfter(LinesIn(b), LinesIn(New(k)))
  <2>1. /\ InOrder(b) /\ LinesIn(b) \subseteq 0..line
        /\ LinesIn(b) \subseteq LinesIn(a) \cup {line}
    BY <1>3, <1>5, <1>8, <1>10, <1>21
  <2>2. NotAfter(LinesIn(p), LinesIn(b))
    BY <1>5, <1>15, <1>19, <1>21, <2>1
  <2>3. ASSUME NEW k \in 2..l2 PROVE NotAfter(LinesIn(b), LinesIn(New(k)))
    <3>1. k \in 1..l2
      BY <1>0, <1>7
    <3>2. CASE k \in 1..l
      <4>1. l # 1 /\ k \in 2..l
        BY <3>2
      <4>2. b = a
        BY <1>8, <4>1
      <4>3. NotAfter(LinesIn(b), LinesIn(Old(k)))
        BY <1>5, <1>21, <4>1, <4>2
      <4> QED
        BY <1>12, <1>15, <2>1, <3>2, <4>3
    <3>3. CASE k = l + 1 /\ l2 = l + 1
      BY <1>13, <1>16, <2>1, <3>3
    <3> QED
      BY <1>14, <3>1, <3>2, <3>3
  <2> QED
    BY <2>1, <2>2, <2>3
<1>22. ASSUME s.step = "rendered"
       PROVE  InOrder(s.content[u]) /\ LinesIn(s.content[u]) \subseteq LinesIn(b)
  <2>1. LinesIn(a) \subseteq LinesIn(b)
    BY <1>3, <1>5, <1>8, <1>10, <1>22
  <2> QED
    BY <1>6, <1>22, <2>1
<1> QED
  BY <1>0, <1>1, <1>2, <1>4, <1>7, <1>17, <1>18, <1>19, <1>20, <1>21, <1>22 DEF Ordered, New

\* The messages made here
LEMMA NewMessage ==
    ASSUME NEW k \in Nat, NEW notices \in Seq(Nat), NEW users \in SUBSET Users, NEW everyone \in BOOLEAN
    PROVE  LET m == Message(k, notices, users, everyone) IN
           m \in PingMessages /\ m.map = k /\ m.notices = notices /\ m.userOrder = users
BY DEF Message, PingMessages

\* The types an enqueued line leaves behind
QueueTypes(q, maps, dropped) ==
    /\ q \in Seq(PingMessages) /\ Len(q) <= QueueLimit
    /\ maps \in Seq(UserMaps) /\ Len(maps) <= lines + 1 /\ dropped \in 0..(lines + 1)

LEMMA StartNewExtends ==
    ASSUME PingInv, NEW user \in Readers, NEW everyone \in BOOLEAN, NEW maps, NEW line,
           line = lines + 1, maps \in Seq(UserMaps), Len(maps) = Len(linesByUser),
           \A k \in 1..Len(linesByUser), u \in Users :
              \/ maps[k][u] = linesByUser[k][u]
              \/ /\ Len(pingQueue) > 0 /\ k = pingQueue[Len(pingQueue)].map
                 /\ maps[k][u] = Append(linesByUser[k][u], line),
           StartNew(user, line, everyone, maps)
    PROVE  /\ Extends(user, pingQueue, linesByUser, pingQueue', linesByUser', line)
           /\ QueueTypes(pingQueue', linesByUser', droppedLines')
<1>0. PICK q, mp, l, n : q = pingQueue /\ mp = linesByUser /\ l = Len(q) /\ n = Len(mp)
  OBVIOUS
<1>1. /\ q \in Seq(PingMessages) /\ l \in Nat /\ l <= QueueLimit
      /\ mp \in Seq(UserMaps) /\ n \in Nat /\ n <= lines /\ lines \in Nat /\ line \in Nat
      /\ droppedLines \in 0..lines
  BY <1>0, LenProperties DEF PingInv, PingTypes
<1>2. l > 0 /\ q[l].userOrder # {} => q[l].map # NoMap
  BY <1>0, <1>1 DEF PingInv, MapsApart, KnownMap
<1>3. CASE l >= QueueLimit
  <2>1. pingQueue' = q /\ linesByUser' = maps /\ droppedLines' = droppedLines + 1
    BY <1>0, <1>3 DEF StartNew
  <2>2. Extends(user, q, mp, q, maps, line)
    <3>1. QueueExtends(user, q, n, q, n, line, l)
      BY <1>0, <1>1, <1>2 DEF QueueExtends
    <3>2. MapsExtend(q, mp, maps, line, l, n)
      BY <1>0, <1>1 DEF MapsExtend
    <3> QED
      BY <1>0, <3>1, <3>2 DEF Extends
  <2>3. QueueTypes(q, maps, droppedLines + 1)
    BY <1>0, <1>1 DEF QueueTypes
  <2> QED
    BY <1>0, <2>1, <2>2, <2>3
<1>4. CASE ~(l >= QueueLimit) /\ user = NoUser
  <2>0. PICK m : m = Message(NoMap, <<line>>, {}, everyone)
    OBVIOUS
  <2>1. pingQueue' = Append(q, m) /\ linesByUser' = maps /\ droppedLines' = droppedLines
    BY <1>0, <1>4, <2>0 DEF StartNew
  <2>2. m \in PingMessages /\ m.map = NoMap /\ m.notices = <<line>> /\ m.userOrder = {}
    <3>1. PICK k, s, us : k = NoMap /\ s = <<line>> /\ us = {}
      OBVIOUS
    <3>2. k \in Nat /\ s \in Seq(Nat) /\ us \in SUBSET Users
      BY <1>1, <3>1 DEF NoMap
    <3>3. PICK msg : msg = Message(k, s, us, everyone)
      OBVIOUS
    <3>4. msg \in PingMessages /\ msg.map = k /\ msg.notices = s /\ msg.userOrder = us
      BY <3>2, <3>3, NewMessage
    <3> QED
      BY <2>0, <3>1, <3>3, <3>4
  <2>3. PICK q2 : q2 = Append(q, m)
    OBVIOUS
  <2>4. q2 \in Seq(PingMessages) /\ Len(q2) = l + 1 /\ q2[l + 1] = m /\ \A i \in 1..l : q2[i] = q[i]
    BY <1>0, <1>1, <2>2, <2>3, AppendProperties
  <2>5. l > 0 => q2[l] = q[l]
    BY <1>1, <2>4
  <2>6. Len(maps) = n
    BY <1>0
  <2>7. \A k \in 1..n, u \in Users :
           \/ maps[k][u] = mp[k][u]
           \/ l > 0 /\ k = q[l].map /\ maps[k][u] = Append(mp[k][u], line)
    BY <1>0
  <2>8. Extends(user, q, mp, q2, maps, line)
    <3>1. QueueExtends(user, q, n, q2, n, line, l)
      BY <1>1, <1>2, <2>2, <2>4, <2>5 DEF QueueExtends
    <3>2. MapsExtend(q, mp, maps, line, l, n)
      BY <1>1, <2>6, <2>7 DEF MapsExtend
    <3> QED
      BY <1>0, <2>6, <3>1, <3>2 DEF Extends
  <2>9. QueueTypes(q2, maps, droppedLines)
    BY <1>1, <1>4, <2>4, <2>6 DEF QueueTypes
  <2> QED
    BY <1>0, <2>1, <2>3, <2>8, <2>9
<1>5. CASE ~(l >= QueueLimit) /\ user # NoUser
  <2>0. PICK m, mp2 : m = Message(n + 1, <<>>, {user}, everyone) /\ mp2 = NewMap(maps, user, line)
    OBVIOUS
  <2>1. pingQueue' = Append(q, m) /\ linesByUser' = mp2 /\ droppedLines' = droppedLines
    BY <1>0, <1>5, <2>0 DEF StartNew
  <2>2. m \in PingMessages /\ m.map = n + 1 /\ m.notices = <<>> /\ m.userOrder = {user}
    <3>1. PICK k, s, us : k = n + 1 /\ s = <<>> /\ us = {user}
      OBVIOUS
    <3>2. k \in Nat /\ s \in Seq(Nat) /\ us \in SUBSET Users
      BY <1>1, <1>5, <3>1 DEF Readers
    <3>3. PICK msg : msg = Message(k, s, us, everyone)
      OBVIOUS
    <3>4. msg \in PingMessages /\ msg.map = k /\ msg.notices = s /\ msg.userOrder = us
      BY <3>2, <3>3, NewMessage
    <3> QED
      BY <2>0, <3>1, <3>3, <3>4
  <2>3. PICK q2 : q2 = Append(q, m)
    OBVIOUS
  <2>4. q2 \in Seq(PingMessages) /\ Len(q2) = l + 1 /\ q2[l + 1] = m /\ \A i \in 1..l : q2[i] = q[i]
    BY <1>0, <1>1, <2>2, <2>3, AppendProperties
  <2>5. l > 0 => q2[l] = q[l]
    BY <1>1, <2>4
  <2>6. user \in Users /\ Len(maps) = n
    BY <1>0, <1>5 DEF Readers
  <2>7. /\ mp2 \in Seq(UserMaps) /\ Len(mp2) = n + 1 /\ \A k \in 1..n : mp2[k] = maps[k]
        /\ \A u \in Users : mp2[n + 1][u] = IF u = user THEN <<line>> ELSE <<>>
    <3>1. LET b == NewMap(maps, user, line)  j == Len(maps) IN
          /\ b \in Seq(UserMaps) /\ Len(b) = j + 1 /\ \A k \in 1..j : b[k] = maps[k]
          /\ \A u \in Users : b[j + 1][u] = IF u = user THEN <<line>> ELSE <<>>
      <4>1. maps \in Seq(UserMaps) /\ user \in Users /\ line \in Nat
        BY <1>1, <2>6
      <4> QED
        BY ONLY <4>1, MapAdded
    <3> QED
      BY <2>0, <2>6, <3>1
  <2>8. \A k \in 1..n, u \in Users :
           \/ mp2[k][u] = mp[k][u]
           \/ l > 0 /\ k = q[l].map /\ mp2[k][u] = Append(mp[k][u], line)
    <3>1. \A k \in 1..n, u \in Users :
             \/ maps[k][u] = mp[k][u]
             \/ l > 0 /\ k = q[l].map /\ maps[k][u] = Append(mp[k][u], line)
      BY <1>0
    <3>2. ASSUME NEW k \in 1..n, NEW u \in Users
          PROVE  \/ mp2[k][u] = mp[k][u]
                 \/ l > 0 /\ k = q[l].map /\ mp2[k][u] = Append(mp[k][u], line)
      <4>1. mp2[k] = maps[k]
        BY ONLY <2>7, <3>2
      <4>2. \/ maps[k][u] = mp[k][u]
            \/ l > 0 /\ k = q[l].map /\ maps[k][u] = Append(mp[k][u], line)
        BY ONLY <3>1, <3>2
      <4> QED
        BY ONLY <4>1, <4>2
    <3> QED
      BY ONLY <3>2
  <2>9. \A u \in Users : mp2[n + 1][u] \in {<<>>, <<line>>}
    BY <2>7
  <2>10. n + 1 # NoMap
    BY <1>1 DEF NoMap
  <2>11. Extends(user, q, mp, q2, mp2, line)
    <3>1. QueueExtends(user, q, n, q2, n + 1, line, l)
      BY <1>1, <1>2, <2>2, <2>4, <2>5, <2>10 DEF QueueExtends
    <3>2. MapsExtend(q, mp, mp2, line, l, n)
      BY <2>7, <2>8, <2>9 DEF MapsExtend
    <3> QED
      BY <1>0, <2>7, <3>1, <3>2 DEF Extends
  <2>12. QueueTypes(q2, mp2, droppedLines)
    BY <1>1, <1>5, <2>4, <2>7 DEF QueueTypes
  <2> QED
    BY <1>0, <2>1, <2>3, <2>11, <2>12
<1> QED
  BY <1>3, <1>4, <1>5

LEMMA EnqueueExtends ==
    ASSUME PingInv, NEW user \in Readers, NEW everyone \in BOOLEAN, NEW fits \in BOOLEAN,
           Enqueue(user, everyone, fits)
    PROVE  /\ Extends(user, pingQueue, linesByUser, pingQueue', linesByUser', lines + 1)
           /\ QueueTypes(pingQueue', linesByUser', droppedLines')
<1>0. PICK q, mp, l, n, line : q = pingQueue /\ mp = linesByUser /\ l = Len(q) /\ n = Len(mp)
                               /\ line = lines + 1
  OBVIOUS
<1>1. /\ q \in Seq(PingMessages) /\ l \in Nat /\ l <= QueueLimit
      /\ mp \in Seq(UserMaps) /\ n \in Nat /\ n <= lines /\ lines \in Nat /\ line \in Nat
      /\ droppedLines \in 0..lines
  BY <1>0, LenProperties DEF PingInv, PingTypes
<1>2. CASE StartNew(user, line, everyone, mp)
  BY <1>0, <1>1, <1>2, StartNewExtends
<1>3. PICK last : last = q[l]
  OBVIOUS
<1>4. CASE pingQueue # <<>> /\ Merge(last, user, line, everyone, fits)
  <2>1. l > 0 /\ l \in 1..l /\ last \in PingMessages /\ last.map \in 0..n
        /\ (last.map # NoMap => last.map \in 1..n)
        /\ (last.userOrder # {} => last.map # NoMap)
    <3>1. l > 0 /\ l \in 1..l
      BY <1>0, <1>1, <1>4, EmptySeq
    <3>2. last \in PingMessages
      BY <1>0, <1>1, <1>3, <3>1, LenProperties
    <3>3. KnownMap(last, n)
      BY <1>0, <1>3, <3>1 DEF PingInv, MapsApart
    <3> QED
      BY <1>1, <3>1, <3>2, <3>3 DEF KnownMap, NoMap
  <2>2. PICK grown, maps : grown = Grown(last, user, line) /\ maps = GrownMaps(last, user, line)
    OBVIOUS
  <2>3. user # NoUser => user \in Users
    BY DEF Readers
  <2>4. /\ last.notices \in Seq(Nat) /\ last.userOrder \in SUBSET Users /\ last.map \in Nat
    BY <2>1 DEF PingMessages
  \* The map of the last message with the line
  <2>5. ASSUME user # NoUser, last.map # NoMap
        PROVE  /\ maps \in Seq(UserMaps) /\ Len(maps) = n
               /\ \A k \in 1..n, u \in Users :
                     \/ maps[k][u] = mp[k][u]
                     \/ l > 0 /\ k = q[l].map /\ maps[k][u] = Append(mp[k][u], line)
    <3>1. maps = [mp EXCEPT ![last.map][user] = Append(@, line)]
      BY <1>0, <2>2, <2>5 DEF GrownMaps
    <3>2. last.map \in 1..Len(mp) /\ user \in Users
      BY <1>0, <2>1, <2>3, <2>5
    <3>3. LET b == [mp EXCEPT ![last.map][user] = Append(@, line)] IN
          /\ b \in Seq(UserMaps) /\ Len(b) = Len(mp)
          /\ \A k \in 1..Len(mp), u \in Users :
                b[k][u] = IF k = last.map /\ u = user THEN Append(mp[k][u], line) ELSE mp[k][u]
      <4>1. mp \in Seq(UserMaps) /\ line \in Nat
        BY <1>1
      <4> QED
        BY ONLY <3>2, <4>1, MapExtended
    <3>4. maps \in Seq(UserMaps) /\ Len(maps) = n
      BY <1>0, <3>1, <3>3
    <3>5. \A k \in 1..n, u \in Users :
             maps[k][u] = IF k = last.map /\ u = user THEN Append(mp[k][u], line) ELSE mp[k][u]
      BY <1>0, <3>1, <3>3
    <3> QED
      BY <1>3, <2>1, <3>4, <3>5
  <2>6. CASE ~fits
    <3>1. StartNew(user, line, everyone, IF last.map = NoMap THEN linesByUser ELSE maps)
      BY <1>4, <2>2, <2>6 DEF Merge
    <3>2. CASE last.map = NoMap \/ user = NoUser
      <4>1. StartNew(user, line, everyone, mp)
        BY <1>0, <2>2, <3>1, <3>2 DEF GrownMaps
      <4> QED
        BY <1>2, <4>1
    <3>3. CASE last.map # NoMap /\ user # NoUser
      <4>1. StartNew(user, line, everyone, maps)
        BY <3>1, <3>3
      <4>2. /\ maps \in Seq(UserMaps) /\ Len(maps) = Len(linesByUser)
            /\ \A k \in 1..Len(linesByUser), u \in Users :
                  \/ maps[k][u] = linesByUser[k][u]
                  \/ /\ Len(pingQueue) > 0 /\ k = pingQueue[Len(pingQueue)].map
                     /\ maps[k][u] = Append(linesByUser[k][u], line)
        BY <1>0, <2>5, <3>3
      <4> QED
        BY <1>0, <4>1, <4>2, StartNewExtends
    <3> QED
      BY <3>2, <3>3
  <2>7. CASE fits
    <3>1. pingQueue' = [q EXCEPT ![l] = grown] /\ linesByUser' = maps /\ droppedLines' = droppedLines
      BY <1>0, <1>4, <2>2, <2>7 DEF Merge
    <3>2. PICK q2 : q2 = [q EXCEPT ![l] = grown]
      OBVIOUS
    <3>3. ASSUME grown \in PingMessages
          PROVE  /\ q2 \in Seq(PingMessages) /\ Len(q2) = l /\ q2[l] = grown
                 /\ \A i \in 1..l : i # l => q2[i] = q[i]
      <4>1. l \in 1..Len(q)
        BY <1>0, <2>1
      <4>2. /\ [q EXCEPT ![l] = grown] \in Seq(PingMessages)
            /\ Len([q EXCEPT ![l] = grown]) = Len(q)
            /\ \A i \in 1..Len(q) : [q EXCEPT ![l] = grown][i] = IF i = l THEN grown ELSE q[i]
        BY <1>1, <3>3, <4>1, ExceptSeq
      <4> QED
        BY <1>0, <2>1, <3>2, <4>2
    <3>4. CASE user = NoUser
      <4>1. grown = [last EXCEPT !.notices = Append(@, line)] /\ maps = mp
        BY <1>0, <2>2, <3>4 DEF Grown, GrownMaps
      <4>2. PICK more : more = Append(last.notices, line) /\ more \in Seq(Nat)
        BY <1>1, <2>4, AppendProperties
      <4>3. grown = [last EXCEPT !.notices = more]
        BY <4>1, <4>2
      <4>4. /\ grown \in PingMessages /\ grown.map = last.map /\ grown.notices = more
            /\ grown.userOrder = last.userOrder
        BY <2>1, <4>2, <4>3 DEF PingMessages
      <4>5. Extends(user, q, mp, q2, maps, line)
        <5>1. q2[l].map = q[l].map /\ q2[l].notices = Append(q[l].notices, line)
              /\ (q2[l].userOrder # {} => q2[l].map # NoMap)
          BY <1>3, <2>1, <3>3, <4>2, <4>4
        <5>2. QueueExtends(user, q, n, q2, n, line, l)
          BY <1>1, <3>3, <3>4, <4>4, <5>1 DEF QueueExtends
        <5>3. MapsExtend(q, mp, maps, line, l, n)
          BY <1>0, <1>1, <4>1 DEF MapsExtend
        <5> QED
          BY <1>0, <4>1, <5>2, <5>3 DEF Extends
      <4>6. QueueTypes(q2, maps, droppedLines)
        BY <1>0, <1>1, <3>3, <4>1, <4>4 DEF QueueTypes
      <4> QED
        BY <1>0, <3>1, <3>2, <4>5, <4>6
    <3>5. CASE user # NoUser
      <4>1. PICK k, us : /\ k = (IF last.map = NoMap THEN n + 1 ELSE last.map)
                         /\ us = (IF Listed(last, user) THEN last.userOrder ELSE last.userOrder \cup {user})
        OBVIOUS
      <4>2. grown = [last EXCEPT !.map = k, !.userOrder = us]
        BY <1>0, <2>2, <3>5, <4>1 DEF Grown
      <4>3. k \in Nat /\ k # NoMap /\ us \in SUBSET Users
        BY <1>1, <2>3, <2>4, <3>5, <4>1 DEF NoMap
      <4>4. /\ grown \in PingMessages /\ grown.map = k /\ grown.notices = last.notices
            /\ grown.userOrder = us
        BY <2>1, <4>2, <4>3 DEF PingMessages
      <4>5. CASE last.map = NoMap
        <5>1. maps = NewMap(mp, user, line)
          BY <1>0, <2>2, <3>5, <4>5 DEF GrownMaps
        <5>2. /\ maps \in Seq(UserMaps) /\ Len(maps) = n + 1 /\ \A i \in 1..n : maps[i] = mp[i]
              /\ \A u \in Users : maps[n + 1][u] = IF u = user THEN <<line>> ELSE <<>>
          BY <1>0, <1>1, <2>3, <3>5, <5>1, MapAdded
        <5>3. \A u \in Users : maps[n + 1][u] \in {<<>>, <<line>>}
          BY <5>2
        <5>4. k = n + 1
          BY <4>1, <4>5
        <5>5. Extends(user, q, mp, q2, maps, line)
          <6>1. q[l].map = NoMap /\ q2[l].map = n + 1 /\ q2[l].notices = q[l].notices
                /\ q2[l].map # NoMap
            BY <1>3, <3>3, <4>3, <4>4, <4>5, <5>4
          <6>2. QueueExtends(user, q, n, q2, n + 1, line, l)
            BY <1>1, <3>3, <4>4, <6>1 DEF QueueExtends
          <6>3. MapsExtend(q, mp, maps, line, l, n)
            BY <5>2, <5>3 DEF MapsExtend
          <6> QED
            BY <1>0, <5>2, <6>2, <6>3 DEF Extends
        <5>6. QueueTypes(q2, maps, droppedLines)
          BY <1>0, <1>1, <3>3, <4>4, <5>2 DEF QueueTypes
        <5> QED
          BY <1>0, <3>1, <3>2, <5>5, <5>6
      <4>6. CASE last.map # NoMap
        <5>1. /\ maps \in Seq(UserMaps) /\ Len(maps) = n
              /\ \A i \in 1..n, u \in Users :
                    \/ maps[i][u] = mp[i][u]
                    \/ l > 0 /\ i = q[l].map /\ maps[i][u] = Append(mp[i][u], line)
          BY <2>5, <3>5, <4>6
        <5>2. k = last.map
          BY <4>1, <4>6
        <5>3. Extends(user, q, mp, q2, maps, line)
          <6>1. q2[l].map = q[l].map /\ q2[l].notices = q[l].notices /\ q2[l].map # NoMap
            BY <1>3, <3>3, <4>3, <4>4, <5>2
          <6>2. QueueExtends(user, q, n, q2, n, line, l)
            BY <1>1, <3>3, <4>4, <6>1 DEF QueueExtends
          <6>3. MapsExtend(q, mp, maps, line, l, n)
            BY <1>1, <5>1 DEF MapsExtend
          <6> QED
            BY <1>0, <5>1, <6>2, <6>3 DEF Extends
        <5>4. QueueTypes(q2, maps, droppedLines)
          BY <1>0, <1>1, <3>3, <4>4, <5>1 DEF QueueTypes
        <5> QED
          BY <1>0, <3>1, <3>2, <5>3, <5>4
      <4> QED
        BY <4>5, <4>6
    <3> QED
      BY <3>4, <3>5
  <2> QED
    BY <2>6, <2>7
<1> QED
  BY <1>0, <1>2, <1>3, <1>4 DEF Enqueue

-----------------------------------------------------------------------------
(* The queue and the sender *)

LEMMA ShorterOrdered ==
    ASSUME NEW q \in Seq(PingMessages), q # <<>>, NEW maps, NEW u, NEW p, NEW s, NEW top,
           s.step = "pop", Ordered(u, q, maps, p, s, top)
    PROVE  Ordered(u, Tail(q), maps, p, NotSending, top)
<1>0. Len(q) \in Nat /\ Len(q) # 0
  BY LenProperties, EmptySeq
<1>t. PICK t : t = Tail(q)
  OBVIOUS
<1>l. PICK l : l = Len(q)
  OBVIOUS
<1>1. t = Tail(q) /\ l = Len(q) /\ l \in Nat /\ l > 0
  BY <1>0, <1>t, <1>l
<1>2. Len(t) = l - 1 /\ \A i \in 1..(l - 1) : t[i] = q[i + 1]
  BY <1>1, HeadTailProperties
<1>3. \A i \in 1..(l - 1) : i + 1 \in 1..l /\ i + 1 # 1
  BY <1>1
<1>4. NotSending.step = "idle"
  BY DEF NotSending
<1>5. \A i, k \in 1..(l - 1) : i < k => i + 1 < k + 1
  BY <1>1
<1>6. /\ \A i \in 1..l : InOrder(KeptFor(maps, q[i], u))
                         /\ LinesIn(KeptFor(maps, q[i], u)) \subseteq 0..top
      /\ \A i, k \in 1..l : i < k =>
            NotAfter(LinesIn(KeptFor(maps, q[i], u)), LinesIn(KeptFor(maps, q[k], u)))
      /\ InOrder(p) /\ LinesIn(p) \subseteq 0..top
      /\ \A i \in 1..l : i = 1 \/ NotAfter(LinesIn(p), LinesIn(KeptFor(maps, q[i], u)))
  BY <1>1 DEF Ordered
<1>7. /\ \A i \in 1..(l - 1) : InOrder(KeptFor(maps, t[i], u))
                         /\ LinesIn(KeptFor(maps, t[i], u)) \subseteq 0..top
      /\ \A i \in 1..(l - 1) : NotAfter(LinesIn(p), LinesIn(KeptFor(maps, t[i], u)))
  BY <1>2, <1>3, <1>6
<1>8. \A i, k \in 1..(l - 1) : i < k =>
            NotAfter(LinesIn(KeptFor(maps, t[i], u)), LinesIn(KeptFor(maps, t[k], u)))
  BY <1>2, <1>3, <1>5, <1>6
<1> QED
  BY <1>1, <1>2, <1>4, <1>6, <1>7, <1>8 DEF Ordered

\* Without messages nothing is to be kept in order but what is posted and being sent.
LEMMA EmptyOrdered ==
    ASSUME NEW q, NEW maps, NEW u, NEW p, NEW s, NEW top, Ordered(u, q, maps, p, s, top)
    PROVE  Ordered(u, <<>>, maps, p, s, top) /\ Ordered(u, <<>>, maps, p, NotSending, top)
<1>1. NotSending.step = "idle"
  BY DEF NotSending
<1>2. Len(<<>>) = 0 /\ 1..0 = {} /\ 2..0 = {}
  OBVIOUS
<1> QED
  BY <1>1, <1>2 DEF Ordered

\* The notice of dropped lines may be posted after any line.
LEMMA NoticeOrdered ==
    ASSUME NEW q \in Seq(PingMessages), NEW m \in PingMessages, m.map = NoMap,
           m.notices = <<DropNotice>>, NEW maps, NEW u, NEW p, NEW top \in Nat,
           Ordered(u, q, maps, p, NotSending, top)
    PROVE  Ordered(u, Append(q, m), maps, p, NotSending, top)
<1>1. PICK t, l : t = Append(q, m) /\ l = Len(q) /\ l \in Nat
  BY LenProperties
<1>2. Len(t) = l + 1 /\ t[l + 1] = m /\ \A i \in 1..l : t[i] = q[i]
  BY <1>1, AppendProperties
<1>3. NotSending.step = "idle"
  BY DEF NotSending
<1>4. InOrder(KeptFor(maps, m, u)) /\ LinesIn(KeptFor(maps, m, u)) \subseteq {DropNotice}
  <2>1. KeptFor(maps, m, u) \in {<<>>, <<DropNotice>>} /\ DropNotice \in Nat
    BY DEF KeptFor, DropNotice
  <2> QED
    BY <2>1, EmptyOrder, OneLine
<1>5. \A X : NotAfter(X, LinesIn(KeptFor(maps, m, u)))
  BY <1>4 DEF NotAfter
<1>6. LinesIn(KeptFor(maps, m, u)) \subseteq 0..top
  BY <1>4 DEF DropNotice
<1>7. \A i \in 1..(l + 1) : i \in 1..l \/ i = l + 1
  BY <1>1
<1>8. \A i, k \in 1..(l + 1) : i < k => i \in 1..l
  BY <1>1
<1>9. /\ \A i \in 1..l : InOrder(KeptFor(maps, q[i], u))
                         /\ LinesIn(KeptFor(maps, q[i], u)) \subseteq 0..top
      /\ \A i, k \in 1..l : i < k =>
            NotAfter(LinesIn(KeptFor(maps, q[i], u)), LinesIn(KeptFor(maps, q[k], u)))
      /\ InOrder(p) /\ LinesIn(p) \subseteq 0..top
      /\ \A i \in 1..l : NotAfter(LinesIn(p), LinesIn(KeptFor(maps, q[i], u)))
  BY <1>1, <1>3 DEF Ordered
<1>10. \A i \in 1..(l + 1) : InOrder(KeptFor(maps, t[i], u))
                             /\ LinesIn(KeptFor(maps, t[i], u)) \subseteq 0..top
  BY <1>2, <1>4, <1>6, <1>7, <1>9
<1>11. \A i \in 1..(l + 1) : NotAfter(LinesIn(p), LinesIn(KeptFor(maps, t[i], u)))
  BY <1>2, <1>5, <1>7, <1>9
<1>12. \A i, k \in 1..(l + 1) : i < k =>
            NotAfter(LinesIn(KeptFor(maps, t[i], u)), LinesIn(KeptFor(maps, t[k], u)))
  BY <1>2, <1>5, <1>7, <1>8, <1>9
<1> QED
  BY <1>1, <1>2, <1>3, <1>9, <1>10, <1>11, <1>12 DEF Ordered

\* The steps of the sender that leave the queue alone
LEMMA SenderOrdered ==
    ASSUME NEW q \in Seq(PingMessages), NEW maps, NEW u, NEW p, NEW s, NEW s2, NEW top,
           Ordered(u, q, maps, p, s, top),
           \/ s.step = "idle" /\ q # <<>> /\ s2.step = "peeked" /\ s2.next = q[1]
           \/ /\ s.step = "peeked" /\ s2.step = "rendered" /\ s2.next = s.next
              /\ s2.content[u] = KeptFor(maps, s.next, u) \/ s2.content[u] = <<>>
           \/ s.step = "rendered" /\ s2.step \in {"idle", "pop"}
    PROVE  Ordered(u, q, maps, p, s2, top)
<1>1. PICK l : l = Len(q) /\ l \in Nat
  BY LenProperties
<1>2. /\ \A i \in 1..l : InOrder(KeptFor(maps, q[i], u))
                         /\ LinesIn(KeptFor(maps, q[i], u)) \subseteq 0..top
      /\ \A i, k \in 1..l : i < k =>
            NotAfter(LinesIn(KeptFor(maps, q[i], u)), LinesIn(KeptFor(maps, q[k], u)))
      /\ InOrder(p) /\ LinesIn(p) \subseteq 0..top
  BY <1>1 DEF Ordered
<1>3. \A i \in 1..l : NotAfter(LinesIn(p), LinesIn(KeptFor(maps, q[i], u)))
  BY <1>1 DEF Ordered
<1>4. CASE s.step = "idle" /\ q # <<>> /\ s2.step = "peeked" /\ s2.next = q[1]
  <2>1. 1 \in 1..l /\ \A k \in 2..l : k \in 1..l /\ 1 < k
    BY <1>1, <1>4, EmptySeq
  <2>2. /\ InOrder(KeptFor(maps, s2.next, u)) /\ LinesIn(KeptFor(maps, s2.next, u)) \subseteq 0..top
        /\ NotAfter(LinesIn(p), LinesIn(KeptFor(maps, s2.next, u)))
        /\ \A k \in 2..l :
              NotAfter(LinesIn(KeptFor(maps, s2.next, u)), LinesIn(KeptFor(maps, q[k], u)))
    BY <1>2, <1>3, <1>4, <2>1
  <2> QED
    BY <1>1, <1>2, <1>3, <1>4, <2>2 DEF Ordered
<1>5. CASE /\ s.step = "peeked" /\ s2.step = "rendered" /\ s2.next = s.next
           /\ s2.content[u] = KeptFor(maps, s.next, u) \/ s2.content[u] = <<>>
  <2>1. /\ InOrder(KeptFor(maps, s2.next, u)) /\ LinesIn(KeptFor(maps, s2.next, u)) \subseteq 0..top
        /\ NotAfter(LinesIn(p), LinesIn(KeptFor(maps, s2.next, u)))
        /\ \A k \in 2..l :
              NotAfter(LinesIn(KeptFor(maps, s2.next, u)), LinesIn(KeptFor(maps, q[k], u)))
    BY <1>1, <1>5 DEF Ordered
  <2>2. InOrder(s2.content[u]) /\ LinesIn(s2.content[u]) \subseteq LinesIn(KeptFor(maps, s2.next, u))
    BY <1>5, <2>1, EmptyOrder
  <2> QED
    BY <1>1, <1>2, <1>3, <1>5, <2>1, <2>2 DEF Ordered
<1>6. CASE s.step = "rendered" /\ s2.step \in {"idle", "pop"}
  BY <1>1, <1>2, <1>3, <1>6 DEF Ordered
<1> QED
  BY <1>4, <1>5, <1>6

\* What is posted is followed by all messages but the head.
LEMMA PostOrdered ==
    ASSUME NEW q \in Seq(PingMessages), NEW maps, NEW u, NEW p \in Seq(Nat), NEW s, NEW s2,
           NEW top, Ordered(u, q, maps, p, s, top), s.content[u] \in Seq(Nat),
           s.step = "rendered", s2.step = "pop"
    PROVE  Ordered(u, q, maps, p \o s.content[u], s2, top)
<1>1. PICK l : l = Len(q) /\ l \in Nat
  BY LenProperties
<1>2. PICK c, kept : c = s.content[u] /\ kept = LinesIn(KeptFor(maps, s.next, u))
  OBVIOUS
<1>3. /\ \A i \in 1..l : InOrder(KeptFor(maps, q[i], u))
                         /\ LinesIn(KeptFor(maps, q[i], u)) \subseteq 0..top
      /\ \A i, k \in 1..l : i < k =>
            NotAfter(LinesIn(KeptFor(maps, q[i], u)), LinesIn(KeptFor(maps, q[k], u)))
  BY <1>1 DEF Ordered
<1>4. /\ InOrder(p) /\ LinesIn(p) \subseteq 0..top /\ kept \subseteq 0..top
      /\ NotAfter(LinesIn(p), kept)
      /\ \A k \in 2..l : NotAfter(kept, LinesIn(KeptFor(maps, q[k], u)))
      /\ InOrder(c) /\ LinesIn(c) \subseteq kept
  BY <1>1, <1>2 DEF Ordered
<1>5. \A i \in 1..l : NotAfter(LinesIn(p), LinesIn(KeptFor(maps, q[i], u)))
  BY <1>1 DEF Ordered
<1>6. NotAfter(LinesIn(p), LinesIn(c))
  BY <1>4 DEF NotAfter
<1>7. PICK j : j = p \o c
  OBVIOUS
<1>8. InOrder(j) /\ LinesIn(j) = LinesIn(p) \cup LinesIn(c)
  BY <1>2, <1>4, <1>6, <1>7, LinesJoined
<1>9. LinesIn(j) \subseteq 0..top
  BY <1>4, <1>8
<1>10. ASSUME NEW i \in 1..l PROVE i = 1 \/ NotAfter(LinesIn(j), LinesIn(KeptFor(maps, q[i], u)))
  <2>1. i = 1 \/ i \in 2..l
    BY <1>1
  <2>2. ASSUME i \in 2..l PROVE NotAfter(LinesIn(j), LinesIn(KeptFor(maps, q[i], u)))
    <3>1. NotAfter(LinesIn(p), LinesIn(KeptFor(maps, q[i], u)))
      BY <1>5
    <3>2. NotAfter(kept, LinesIn(KeptFor(maps, q[i], u)))
      BY <1>4, <2>2
    <3> QED
      BY <1>4, <1>8, <3>1, <3>2 DEF NotAfter
  <2> QED
    BY <2>1, <2>2
<1> QED
  BY <1>1, <1>2, <1>3, <1>7, <1>8, <1>9, <1>10 DEF Ordered

\* The copy being sent, when it changes, is the head or none at all; popping the head leaves no map
\* in common.
LEMMA SenderApart ==
    ASSUME NEW q \in Seq(PingMessages), NEW next, NEW next2, NEW n, MapsApart(q, next, n),
           next2 \in {next, NotSending.next} \/ (q # <<>> /\ next2 = q[1]), n \in Nat
    PROVE  MapsApart(q, next2, n)
<1>1. PICK l : l = Len(q) /\ l \in Nat
  BY LenProperties
<1>2. NotSending.next.map = NoMap /\ NotSending.next.userOrder = {}
  BY DEF NotSending, Message
<1>3. CASE next2 = next
  BY <1>3
<1>4. CASE next2 = NotSending.next
  BY <1>2, <1>4 DEF MapsApart, KnownMap, NoMap
<1>5. CASE q # <<>> /\ next2 = q[1]
  <2>1. l # 0
    BY <1>1, <1>5, EmptySeq
  <2>2. 1 \in 1..l /\ \A k \in 2..l : k \in 1..l /\ 1 < k
    BY <1>1, <2>1
  <2> QED
    BY <1>1, <1>5, <2>2 DEF MapsApart
<1> QED
  BY <1>3, <1>4, <1>5

LEMMA ShorterApart ==
    ASSUME NEW q \in Seq(PingMessages), q # <<>>, NEW next, NEW n \in Nat, MapsApart(q, next, n)
    PROVE  MapsApart(Tail(q), NotSending.next, n)
<1>0. Len(q) \in Nat /\ Len(q) # 0
  BY LenProperties, EmptySeq
<1>t. PICK t, none : t = Tail(q) /\ none = NotSending.next
  OBVIOUS
<1>l. PICK l : l = Len(q)
  OBVIOUS
<1>1. t = Tail(q) /\ l = Len(q) /\ l \in Nat /\ l > 0 /\ none = NotSending.next
  BY <1>0, <1>t, <1>l
<1>2. Len(t) = l - 1 /\ \A i \in 1..(l - 1) : t[i] = q[i + 1]
  BY <1>1, HeadTailProperties
<1>3. none.map = NoMap /\ none.userOrder = {}
  BY <1>1 DEF NotSending, Message
<1>4. \A i \in 1..(l - 1) : i + 1 \in 1..l
  BY <1>1
<1>5. \A i, k \in 1..(l - 1) : i < k => i + 1 < k + 1
  BY <1>1
<1>6. \A k \in 2..(l - 1) : k \in 1..(l - 1)
  BY <1>1
<1>7. /\ \A i \in 1..l : KnownMap(q[i], n)
      /\ \A i, k \in 1..l : i < k => q[k].map = NoMap \/ q[i].map # q[k].map
  BY <1>1 DEF MapsApart
<1>8. \A i \in 1..(l - 1) : KnownMap(t[i], n)
  BY <1>2, <1>4, <1>7
<1>9. \A i, k \in 1..(l - 1) : i < k => t[k].map = NoMap \/ t[i].map # t[k].map
  BY <1>2, <1>4, <1>5, <1>7
<1>10. \A k \in 2..(l - 1) : t[k].map = NoMap \/ none.map # t[k].map
  BY <1>3
<1>11. KnownMap(none, n)
  BY <1>3 DEF KnownMap, NoMap
<1> QED
  BY <1>1, <1>2, <1>8, <1>9, <1>10, <1>11 DEF MapsApart

LEMMA NoticeApart ==
    ASSUME NEW q \in Seq(PingMessages), NEW m \in PingMessages, m.map = NoMap, m.userOrder = {},
           NEW next, NEW n \in Nat, MapsApart(q, next, n)
    PROVE  MapsApart(Append(q, m), next, n)
<1>1. PICK t, l : t = Append(q, m) /\ l = Len(q) /\ l \in Nat
  BY LenProperties
<1>2. Len(t) = l + 1 /\ t[l + 1] = m /\ \A i \in 1..l : t[i] = q[i]
  BY <1>1, AppendProperties
<1>3. KnownMap(m, n)
  BY DEF KnownMap, NoMap
<1>4. \A i \in 1..(l + 1) : i \in 1..l \/ i = l + 1
  BY <1>1
<1>5. \A i, k \in 1..(l + 1) : i < k => i \in 1..l
  BY <1>1
<1>6. \A k \in 2..(l + 1) : k \in 2..l \/ k = l + 1
  BY <1>1
<1>7. \A k \in 2..l : k \in 1..l
  BY <1>1
<1>8. /\ \A i \in 1..l : KnownMap(q[i], n)
      /\ \A i, k \in 1..l : i < k => q[k].map = NoMap \/ q[i].map # q[k].map
      /\ \A k \in 2..l : q[k].map = NoMap \/ next.map # q[k].map
      /\ KnownMap(next, n)
  BY <1>1 DEF MapsApart
<1>9. \A i \in 1..(l + 1) : KnownMap(t[i], n)
  BY <1>2, <1>3, <1>4, <1>8
<1>10. \A i, k \in 1..(l + 1) : i < k => t[k].map = NoMap \/ t[i].map # t[k].map
  BY <1>2, <1>4, <1>5, <1>8
<1>11. \A k \in 2..(l + 1) : t[k].map = NoMap \/ next.map # t[k].map
  BY <1>2, <1>6, <1>7, <1>8
<1> QED
  BY <1>1, <1>2, <1>8, <1>9, <1>10, <1>11 DEF MapsApart

LEMMA NoneApart ==
    ASSUME NEW q, NEW next, NEW n, MapsApart(q, next, n)
    PROVE  MapsApart(<<>>, next, n)
<1>1. Len(<<>>) = 0 /\ 1..0 = {} /\ 2..0 = {}
  OBVIOUS
<1> QED
  BY <1>1 DEF MapsApart

-----------------------------------------------------------------------------
(* The steps *)

LEMMA PingStarts == PingInit => PingInv
<1> SUFFICES ASSUME PingInit PROVE PingInv
  OBVIOUS
<1>1. /\ pingQueue = <<>> /\ linesByUser = <<>> /\ droppedLines = 0 /\ noticeDue = TRUE
      /\ sender = NotSending /\ lines = 0 /\ wipes = 0 /\ posted = Blank
  BY DEF PingInit
<1>2. <<>> \in Seq(PingMessages) /\ <<>> \in Seq(UserMaps) /\ <<>> \in Seq(Nat) /\ Len(<<>>) = 0
      /\ 1..0 = {} /\ 2..0 = {}
  OBVIOUS
<1>3. Blank \in [Readers -> Seq(Nat)] /\ \A u \in Readers : Blank[u] = <<>>
  BY <1>2 DEF Blank
<1>4. PICK msg : msg = Message(NoMap, <<>>, {}, FALSE)
  OBVIOUS
<1>5. msg \in PingMessages /\ msg.map = NoMap /\ msg.userOrder = {}
  BY <1>2, <1>4 DEF Message, PingMessages, NoMap
<1>6. NotSending = [step |-> "idle", next |-> msg, content |-> Blank]
  BY <1>4 DEF NotSending
<1>7. /\ NotSending = [step |-> NotSending.step, next |-> NotSending.next, content |-> NotSending.content]
      /\ NotSending.step = "idle" /\ NotSending.next = msg /\ NotSending.content = Blank
  BY <1>6
<1>8. PingTypes
  <2>1. QueueLimit \in Nat /\ MaxQueued \in Nat /\ MaxWipes \in Nat
    BY DEF PingQueueAssumption
  <2> QED
    BY <1>1, <1>2, <1>3, <1>5, <1>7, <2>1 DEF PingTypes
<1>9. MapsApart(pingQueue, sender.next, Len(linesByUser))
  BY <1>1, <1>2, <1>5, <1>7 DEF MapsApart, KnownMap, NoMap
<1>10. ASSUME NEW u \in Readers PROVE Ordered(u, pingQueue, linesByUser, posted[u], sender, lines)
  BY <1>1, <1>2, <1>3, <1>7, EmptyOrder DEF Ordered
<1> QED
  BY <1>8, <1>9, <1>10 DEF PingInv

LEMMA EnqueueKept ==
    ASSUME PingInv, NEW user \in Readers, NEW everyone \in BOOLEAN, NEW fits \in BOOLEAN,
           Enqueue(user, everyone, fits)
    PROVE  PingInv'
<1>0. PICK q, mp, q2, mp2, s, p, line :
          /\ q = pingQueue /\ mp = linesByUser /\ q2 = pingQueue' /\ mp2 = linesByUser'
          /\ s = sender /\ p = posted /\ line = lines + 1
  OBVIOUS
<1>1. /\ lines < MaxQueued /\ lines' = line /\ noticeDue' = noticeDue /\ sender' = s
      /\ wipes' = wipes /\ posted' = p
  BY <1>0 DEF Enqueue
<1>2. /\ Extends(user, q, mp, q2, mp2, line) /\ QueueTypes(q2, mp2, droppedLines')
  BY <1>0, EnqueueExtends
<1>3. /\ q \in Seq(PingMessages) /\ mp \in Seq(UserMaps) /\ lines \in 0..MaxQueued
      /\ s.next \in PingMessages /\ MapsApart(q, s.next, Len(mp))
      /\ \A u \in Readers : Ordered(u, q, mp, p[u], s, lines)
  BY <1>0 DEF PingInv, PingTypes
<1>4. lines \in Nat /\ line \in Nat /\ line \in 0..MaxQueued
  BY <1>0, <1>1, <1>3 DEF PingQueueAssumption
<1>5. MapsApart(q2, s.next, Len(mp2))
  BY <1>2, <1>3, <1>4, ExtendsApart
<1>6. ASSUME NEW u \in Readers PROVE Ordered(u, q2, mp2, p[u], s, line)
  <2>1. GrowsFor(u, q, mp, s.next, q2, mp2, line)
    BY <1>2, <1>3, <1>4, ExtendsGrows
  <2>2. PICK top, next, pu : top = lines /\ next = s.next /\ pu = p[u]
    OBVIOUS
  <2>3. top \in Nat /\ line = top + 1 /\ GrowsFor(u, q, mp, s.next, q2, mp2, top + 1)
        /\ Ordered(u, q, mp, pu, s, top)
    BY <1>0, <1>3, <1>4, <2>1, <2>2
  <2>4. Ordered(u, q2, mp2, pu, s, top + 1)
    BY <1>3, <2>3, GrowthOrdered
  <2> QED
    BY <2>2, <2>3, <2>4
<1>7. PingTypes'
  <2>1. /\ q2 \in Seq(PingMessages) /\ Len(q2) <= QueueLimit /\ mp2 \in Seq(UserMaps)
        /\ Len(mp2) <= line /\ droppedLines' \in 0..line
    BY <1>0, <1>2 DEF QueueTypes
  <2> QED
    BY <1>0, <1>1, <1>4, <2>1 DEF PingInv, PingTypes
<1> QED
  BY <1>0, <1>1, <1>5, <1>6, <1>7 DEF PingInv

LEMMA WipeKept ==
    ASSUME PingInv, Wipe \/ Suppress
    PROVE  PingInv'
<1>1. /\ wipes < MaxWipes /\ wipes' = wipes + 1 /\ pingQueue' = <<>> /\ droppedLines' = 0
      /\ noticeDue' = TRUE
      /\ linesByUser' = linesByUser /\ sender' = sender /\ lines' = lines /\ posted' = posted
  BY DEF Wipe, Suppress
<1>2. <<>> \in Seq(PingMessages) /\ Len(<<>>) = 0
  OBVIOUS
<1>3. wipes + 1 \in 0..MaxWipes /\ 0 \in 0..lines /\ 0 <= QueueLimit
  BY <1>1 DEF PingInv, PingTypes, PingQueueAssumption
<1>4. PingTypes'
  BY <1>1, <1>2, <1>3 DEF PingInv, PingTypes
<1>5. MapsApart(<<>>, sender.next, Len(linesByUser))
  BY NoneApart DEF PingInv
<1>6. \A u \in Readers : Ordered(u, <<>>, linesByUser, posted[u], sender, lines)
  BY EmptyOrdered DEF PingInv
<1> QED
  BY <1>1, <1>4, <1>5, <1>6 DEF PingInv

\* The sender's own steps, the queue unchanged: what is to be known of its new copy
LEMMA SenderKept ==
    ASSUME PingInv, NEW step, NEW next, NEW content,
           UNCHANGED <<pingQueue, linesByUser, droppedLines, noticeDue, lines, wipes, posted>>,
           sender' = [step |-> step, next |-> next, content |-> content],
           step \in {"idle", "peeked", "rendered", "pop"}, content \in [Readers -> Seq(Nat)],
           next \in {sender.next, NotSending.next}
           \/ (pingQueue # <<>> /\ next = pingQueue[1]),
           \/ sender.step = "idle" /\ pingQueue # <<>> /\ step = "peeked" /\ next = pingQueue[1]
           \/ /\ sender.step = "peeked" /\ step = "rendered" /\ next = sender.next
              /\ \A u \in Readers : \/ content[u] = KeptFor(linesByUser, sender.next, u)
                                    \/ content[u] = <<>>
           \/ sender.step = "rendered" /\ step \in {"idle", "pop"}
    PROVE  PingInv'
<1>1. PICK s : s = [step |-> step, next |-> next, content |-> content]
  OBVIOUS
<1>2. /\ s = [step |-> s.step, next |-> s.next, content |-> s.content]
      /\ s.step = step /\ s.next = next /\ s.content = content
  BY <1>1
<1>3. /\ pingQueue' = pingQueue /\ linesByUser' = linesByUser /\ droppedLines' = droppedLines
      /\ noticeDue' = noticeDue /\ lines' = lines /\ wipes' = wipes /\ posted' = posted
      /\ sender' = s
  BY <1>1
<1>4. pingQueue \in Seq(PingMessages) /\ Len(linesByUser) \in Nat
  BY LenProperties DEF PingInv, PingTypes
<1>5. MapsApart(pingQueue, next, Len(linesByUser))
  BY <1>4, SenderApart DEF PingInv
<1>6. next \in PingMessages
  <2>1. NotSending.next \in PingMessages /\ sender.next \in PingMessages
    <3>1. <<>> \in Seq(Nat) /\ NoMap \in Nat
      BY DEF NoMap
    <3> QED
      BY <3>1 DEF NotSending, Message, PingMessages, PingInv, PingTypes
  <2>2. ASSUME pingQueue # <<>> PROVE pingQueue[1] \in PingMessages
    <3>1. Len(pingQueue) \in Nat /\ Len(pingQueue) # 0
      BY <1>4, <2>2, LenProperties, EmptySeq
    <3>2. 1 \in 1..Len(pingQueue)
      BY <3>1
    <3> QED
      BY <1>4, <3>2, LenProperties
  <2> QED
    BY <2>1, <2>2
<1>7. PingTypes'
  BY <1>2, <1>3, <1>6 DEF PingInv, PingTypes
<1>8. ASSUME NEW u \in Readers PROVE Ordered(u, pingQueue, linesByUser, posted[u], s, lines)
  <2>1. Ordered(u, pingQueue, linesByUser, posted[u], sender, lines)
    BY DEF PingInv
  <2>2. \/ sender.step = "idle" /\ pingQueue # <<>> /\ s.step = "peeked" /\ s.next = pingQueue[1]
        \/ /\ sender.step = "peeked" /\ s.step = "rendered" /\ s.next = sender.next
           /\ s.content[u] = KeptFor(linesByUser, sender.next, u) \/ s.content[u] = <<>>
        \/ sender.step = "rendered" /\ s.step \in {"idle", "pop"}
    BY <1>2
  <2> QED
    BY <1>4, <2>1, <2>2, SenderOrdered
<1> QED
  BY <1>2, <1>3, <1>5, <1>7, <1>8 DEF PingInv

LEMMA PeekKept ==
    ASSUME PingInv, Peek
    PROVE  PingInv'
<1>1. /\ sender.step = "idle" /\ pingQueue # <<>>
      /\ sender' = [NotSending EXCEPT !.step = "peeked", !.next = Head(pingQueue)]
      /\ UNCHANGED <<pingQueue, linesByUser, droppedLines, noticeDue, lines, wipes, posted>>
  BY DEF Peek
<1>2. Head(pingQueue) = pingQueue[1]
  BY <1>1, HeadTailProperties DEF PingInv, PingTypes
<1>3. PICK next : next = pingQueue[1]
  OBVIOUS
<1>4. sender' = [step |-> "peeked", next |-> next, content |-> Blank]
  BY <1>1, <1>2, <1>3 DEF NotSending
<1>5. Blank \in [Readers -> Seq(Nat)]
  <2>1. <<>> \in Seq(Nat)
    OBVIOUS
  <2> QED
    BY <2>1 DEF Blank
<1> QED
  BY <1>1, <1>3, <1>4, <1>5, SenderKept

LEMMA RenderKept ==
    ASSUME PingInv, Render
    PROVE  PingInv'
<1>1. /\ sender.step = "peeked"
      /\ sender' = [sender EXCEPT !.step = "rendered", !.content = LinesOf(sender.next)]
      /\ UNCHANGED <<pingQueue, linesByUser, droppedLines, noticeDue, lines, wipes, posted>>
  BY DEF Render
<1>2. PICK next, c : next = sender.next /\ c = LinesOf(next)
  OBVIOUS
<1>3. sender = [step |-> sender.step, next |-> sender.next, content |-> sender.content]
  BY DEF PingInv, PingTypes
<1>4. sender' = [step |-> "rendered", next |-> next, content |-> c]
  BY <1>1, <1>2, <1>3
<1>5. next \in PingMessages /\ linesByUser \in Seq(UserMaps) /\ KnownMap(next, Len(linesByUser))
  BY <1>2 DEF PingInv, PingTypes, MapsApart
<1>6. ASSUME NEW u \in Readers
      PROVE  /\ c[u] \in Seq(Nat)
             /\ c[u] = KeptFor(linesByUser, next, u) \/ c[u] = <<>>
  <2>1. c[u] = IF u = NoUser THEN next.notices
               ELSE IF u \in next.userOrder THEN linesByUser[next.map][u] ELSE <<>>
    BY <1>2 DEF LinesOf
  <2>2. u \in next.userOrder => next.map # NoMap
    BY <1>5 DEF KnownMap
  <2>3. c[u] = KeptFor(linesByUser, next, u) \/ c[u] = <<>>
    BY <2>1, <2>2 DEF KeptFor
  <2>4. KeptFor(linesByUser, next, u) \in Seq(Nat) /\ <<>> \in Seq(Nat)
    BY <1>5, KeptLines
  <2> QED
    BY <2>3, <2>4
<1>7. c \in [Readers -> Seq(Nat)]
  <2>1. c = [u \in Readers |-> c[u]]
    BY <1>2 DEF LinesOf
  <2>2. \A u \in Readers : c[u] \in Seq(Nat)
    BY <1>6
  <2> QED
    BY <2>1, <2>2
<1> QED
  BY <1>1, <1>2, <1>4, <1>6, <1>7, SenderKept

\* A post extends what was posted for every user.
LEMMA PostKept ==
    ASSUME PingInv, SendPing("ok")
    PROVE  PingInv'
<1>1. /\ sender.step = "rendered"
      /\ posted' = [u \in Readers |-> posted[u] \o sender.content[u]]
      /\ sender' = [sender EXCEPT !.step = "pop"]
      /\ UNCHANGED <<pingQueue, linesByUser, droppedLines, noticeDue, lines, wipes>>
  BY DEF SendPing
<1>2. PICK s : s = [step |-> "pop", next |-> sender.next, content |-> sender.content]
  OBVIOUS
<1>3. sender = [step |-> sender.step, next |-> sender.next, content |-> sender.content]
  BY DEF PingInv, PingTypes
<1>4. sender' = s
  BY <1>1, <1>2, <1>3
<1>5. /\ s = [step |-> s.step, next |-> s.next, content |-> s.content]
      /\ s.step = "pop" /\ s.next = sender.next /\ s.content = sender.content
  BY <1>2
<1>6. \A u \in Readers : posted[u] \in Seq(Nat) /\ sender.content[u] \in Seq(Nat)
  BY DEF PingInv, PingTypes
<1>7. ASSUME NEW u \in Readers
      PROVE  Ordered(u, pingQueue, linesByUser, posted[u] \o sender.content[u], s, lines)
  <2>1. Ordered(u, pingQueue, linesByUser, posted[u], sender, lines)
        /\ pingQueue \in Seq(PingMessages)
    BY DEF PingInv, PingTypes
  <2> QED
    BY <1>1, <1>5, <1>6, <2>1, PostOrdered
<1>8. \A u \in Readers : posted[u] \o sender.content[u] \in Seq(Nat)
  BY <1>6, ConcatProperties
<1>9. posted' \in [Readers -> Seq(Nat)]
      /\ \A u \in Readers : posted'[u] = posted[u] \o sender.content[u]
  BY <1>1, <1>8
<1>10. PingTypes'
  BY <1>1, <1>4, <1>5, <1>9 DEF PingInv, PingTypes
<1>11. MapsApart(pingQueue, s.next, Len(linesByUser))
  BY <1>5 DEF PingInv
<1> QED
  BY <1>1, <1>4, <1>7, <1>9, <1>10, <1>11 DEF PingInv

LEMMA SendKept ==
    ASSUME PingInv, NEW result \in {"ok", "refused", "failed"}, SendPing(result)
    PROVE  PingInv'
<1>1. sender = [step |-> sender.step, next |-> sender.next, content |-> sender.content]
      /\ sender.content \in [Readers -> Seq(Nat)]
  BY DEF PingInv, PingTypes
<1>2. Blank \in [Readers -> Seq(Nat)]
  <2>1. <<>> \in Seq(Nat)
    OBVIOUS
  <2> QED
    BY <2>1 DEF Blank
<1>3. CASE result = "ok"
  BY <1>3, PostKept
<1>4. CASE result = "refused"
  <2>1. /\ sender.step = "rendered" /\ sender' = [sender EXCEPT !.step = "pop", !.content = Blank]
        /\ UNCHANGED <<pingQueue, linesByUser, droppedLines, noticeDue, lines, wipes, posted>>
    BY <1>4 DEF SendPing
  <2>2. PICK next : next = sender.next
    OBVIOUS
  <2>3. sender' = [step |-> "pop", next |-> next, content |-> Blank]
    BY <1>1, <2>1, <2>2
  <2> QED
    BY <1>2, <2>1, <2>2, <2>3, SenderKept
<1>5. CASE result = "failed"
  <2>1. /\ sender.step = "rendered" /\ sender' = NotSending
        /\ UNCHANGED <<pingQueue, linesByUser, droppedLines, noticeDue, lines, wipes, posted>>
    BY <1>5 DEF SendPing
  <2>2. PICK next : next = NotSending.next
    OBVIOUS
  <2>3. sender' = [step |-> "idle", next |-> next, content |-> Blank]
    BY <2>1, <2>2 DEF NotSending
  <2> QED
    BY <1>2, <2>1, <2>2, <2>3, SenderKept
<1> QED
  BY <1>3, <1>4, <1>5

LEMMA PopKept ==
    ASSUME PingInv, Pop
    PROVE  PingInv'
<1>1. /\ sender.step = "pop" /\ sender' = NotSending
      /\ droppedLines' = (IF Mentions THEN 0 ELSE droppedLines)
      /\ noticeDue' = (noticeDue /\ ~Mentions)
      /\ IF Mentions /\ Len(Popped) < QueueLimit
         THEN pingQueue' = Append(Popped, Message(NoMap, <<DropNotice>>, {}, FALSE))
         ELSE pingQueue' = Popped
      /\ linesByUser' = linesByUser /\ lines' = lines /\ wipes' = wipes /\ posted' = posted
  BY DEF Pop
<1>2. PICK n, q, none, l : /\ n = Len(linesByUser) /\ q = Popped /\ none = NotSending.next
                           /\ l = Len(pingQueue)
  OBVIOUS
<1>3. /\ pingQueue \in Seq(PingMessages) /\ l \in Nat /\ l <= QueueLimit
      /\ linesByUser \in Seq(UserMaps) /\ n \in Nat /\ lines \in Nat
  BY <1>2, LenProperties DEF PingInv, PingTypes
<1>4. /\ q \in Seq(PingMessages) /\ Len(q) \in Nat /\ Len(q) <= QueueLimit
      /\ MapsApart(q, none, n)
      /\ \A u \in Readers : Ordered(u, q, linesByUser, posted[u], NotSending, lines)
  <2>1. CASE pingQueue = <<>>
    <3>1. q = <<>> /\ <<>> \in Seq(PingMessages) /\ Len(<<>>) = 0 /\ QueueLimit \in Nat
      BY <1>2, <2>1 DEF Popped, PingQueueAssumption
    <3>2. MapsApart(<<>>, none, n)
      <4>1. MapsApart(pingQueue, none, n)
        BY <1>2, <1>3, SenderApart DEF PingInv
      <4> QED
        BY <4>1, <2>1
    <3>3. \A u \in Readers : Ordered(u, <<>>, linesByUser, posted[u], NotSending, lines)
      BY EmptyOrdered DEF PingInv
    <3> QED
      BY <3>1, <3>2, <3>3
  <2>2. CASE pingQueue # <<>>
    <3>1. q = Tail(pingQueue)
      BY <1>2, <2>2 DEF Popped
    <3>2. q \in Seq(PingMessages) /\ Len(q) = l - 1
      BY <1>2, <1>3, <2>2, <3>1, HeadTailProperties
    <3>3. Len(q) \in Nat
      BY <3>2, LenProperties
    <3>4. MapsApart(q, none, n)
      BY <1>2, <1>3, <2>2, <3>1, ShorterApart DEF PingInv
    <3>5. \A u \in Readers : Ordered(u, q, linesByUser, posted[u], NotSending, lines)
      BY <1>1, <1>3, <2>2, <3>1, ShorterOrdered DEF PingInv
    <3>6. Len(q) <= QueueLimit
      BY <1>3, <3>2, <3>3 DEF PingQueueAssumption
    <3> QED
      BY <3>2, <3>3, <3>4, <3>5, <3>6
  <2> QED
    BY <2>1, <2>2
<1>5. PICK m, s : m = Message(NoMap, s, {}, FALSE) /\ s = <<DropNotice>>
  OBVIOUS
<1>6. m \in PingMessages /\ m.map = NoMap /\ m.notices = <<DropNotice>> /\ m.userOrder = {}
  <2>1. s \in Seq(Nat) /\ NoMap \in Nat
    BY <1>5 DEF NoMap, DropNotice
  <2> QED
    BY <1>5, <2>1 DEF Message, PingMessages
<1>7. /\ pingQueue' \in Seq(PingMessages) /\ Len(pingQueue') <= QueueLimit
      /\ MapsApart(pingQueue', none, n)
      /\ \A u \in Readers : Ordered(u, pingQueue', linesByUser, posted[u], NotSending, lines)
  <2>1. CASE Mentions /\ Len(q) < QueueLimit
    <3>1. PICK q2 : q2 = Append(q, m)
      OBVIOUS
    <3>2. q2 \in Seq(PingMessages) /\ Len(q2) = Len(q) + 1
      BY <1>4, <1>6, <3>1, AppendProperties
    <3>3. Len(q2) <= QueueLimit
      BY <1>4, <2>1, <3>2 DEF PingQueueAssumption
    <3>4. MapsApart(q2, none, n)
      BY <1>3, <1>4, <1>6, <3>1, NoticeApart
    <3>5. \A u \in Readers : Ordered(u, q2, linesByUser, posted[u], NotSending, lines)
      BY <1>3, <1>4, <1>6, <3>1, NoticeOrdered
    <3>6. pingQueue' = q2
      BY <1>1, <1>2, <1>5, <2>1, <3>1
    <3> QED
      BY <3>2, <3>3, <3>4, <3>5, <3>6
  <2>2. CASE ~(Mentions /\ Len(q) < QueueLimit)
    <3>1. pingQueue' = q
      BY <1>1, <1>2, <2>2
    <3> QED
      BY <1>4, <3>1
  <2> QED
    BY <2>1, <2>2
<1>8. PingTypes'
  <2>1. droppedLines' \in 0..lines /\ noticeDue' \in BOOLEAN
    BY <1>1 DEF PingInv, PingTypes
  <2>2. /\ sender' = [step |-> sender'.step, next |-> sender'.next, content |-> sender'.content]
        /\ sender'.step = "idle" /\ sender'.next \in PingMessages
        /\ sender'.content \in [Readers -> Seq(Nat)]
    <3>1. PICK msg, none2 : msg = <<>> /\ none2 = Message(NoMap, msg, {}, FALSE)
      OBVIOUS
    <3>2. msg \in Seq(Nat) /\ none2 \in PingMessages
      BY <3>1 DEF Message, PingMessages, NoMap
    <3>3. Blank \in [Readers -> Seq(Nat)]
      BY <3>1, <3>2 DEF Blank
    <3>4. sender' = [step |-> "idle", next |-> none2, content |-> Blank]
      BY <1>1, <3>1 DEF NotSending
    <3> QED
      BY <3>2, <3>3, <3>4
  <2> QED
    BY <1>1, <1>7, <2>1, <2>2 DEF PingInv, PingTypes
<1>9. /\ MapsApart(pingQueue, sender.next, Len(linesByUser))'
      /\ (\A u \in Readers : Ordered(u, pingQueue, linesByUser, posted[u], sender, lines))'
  BY <1>1, <1>2, <1>7
<1> QED
  BY <1>8, <1>9 DEF PingInv

LEMMA PingKept == PingInv /\ [PingNext]_pingVars => PingInv'
<1> SUFFICES ASSUME PingInv, [PingNext]_pingVars PROVE PingInv'
  OBVIOUS
<1>1. CASE MinutePasses
  BY <1>1 DEF MinutePasses, PingInv, PingTypes
<1>2. CASE UNCHANGED pingVars
  BY <1>2 DEF pingVars, PingInv, PingTypes
<1> QED
  BY <1>1, <1>2, EnqueueKept, SendKept, WipeKept, PeekKept, RenderKept, PopKept DEF PingNext

\* The invariant the order of the posts rests on (discord_notifier_queue.go).
THEOREM PingInvariant == PingSpec => []PingInv
<1> QED
  BY PingStarts, PingKept, PTL DEF PingSpec

(* The lines of a user, and the notices, are posted in the order in which   *)
(* they were enqueued, whatever is merged into a message while it is being  *)
(* sent, wiped or popped (enqueueQueuedLine, sendNextQueuedMessage).        *)
THEOREM PostsKeepOrder == PingSpec => []PostsInOrder
<1>1. PingInv => PostsInOrder
  BY DEF PingInv, Ordered, InOrder, PostsInOrder
<1> QED
  BY <1>1, PingInvariant, PTL

(* The queue and what the sender copies from it have their types. *)
THEOREM PingTypesCorrect == PingSpec => []PingTypeOK
<1>1. PingInv => PingTypeOK
  <2> SUFFICES ASSUME PingInv PROVE PingTypeOK
    OBVIOUS
  <2>1. Len(linesByUser) \in Nat /\ lines \in 0..MaxQueued /\ Len(linesByUser) <= lines
        /\ droppedLines \in 0..lines /\ MaxQueued \in Nat
    BY LenProperties DEF PingInv, PingTypes, PingQueueAssumption
  <2>2. Len(linesByUser) <= MaxQueued /\ droppedLines \in 0..MaxQueued
    BY <2>1
  <2> QED
    BY <2>2 DEF PingInv, PingTypes, PingTypeOK
<1> QED
  BY <1>1, PingInvariant, PTL

HIDE PingQueueAssumption
=============================================================================
