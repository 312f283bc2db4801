--------------------------- MODULE WorkerHistory ---------------------------
(***************************************************************************)
(* The history of best shares per minute of the saved workers.             *)
(*                                                                         *)
(* Shares are noted in a ring of minutes per worker                        *)
(* (worker_list_store_minutebest.go); once a minute a sampler moves the    *)
(* completed minute into the ring the history page reads, fills the gap of *)
(* a worker that was away with zeroes (status_saved_worker_periods.go),    *)
(* and the rings survive a restart in a snapshot                           *)
(* (status_saved_worker_periods_persist.go).  A share brings its own time, *)
(* taken before the lock.                                                  *)
(***************************************************************************)
EXTENDS Integers, FiniteSets, FiniteSetsExt

CONSTANTS
    Rigs,          \* workers
    PoolKey,       \* savedWorkerPeriodPoolKey
    Slots,         \* savedWorkerPeriodSlots
    MaxRings,      \* savedWorkerPeriodMaxWorkers
    BestValues,    \* quantized difficulties
    MaxMinute, MaxNoted, MaxRestarts

ASSUME WorkerHistoryAssumption ==
    /\ IsFiniteSet(Rigs) /\ PoolKey \notin Rigs /\ Slots \in Nat \ {0} /\ MaxRings \in Nat \ {0}
    /\ BestValues \subseteq Nat \ {0} /\ MaxMinute \in Nat \ {0} /\ MaxNoted \in Nat
    /\ MaxRestarts \in Nat

VARIABLES
    minute,      \* the clock, in minutes
    minuteBest,  \* minuteBestByID: rings by worker, NoRing for none
    periods,     \* savedWorkerPeriods
    lastBucket,  \* savedWorkerPeriodsLastBucket
    snapshot,    \* the snapshot file: rings and last bucket
    noted, restarts,
    earnedSlots       \* the best share each worker had in each minute

periodsVars == <<minute, minuteBest, periods, lastBucket, snapshot, noted, restarts, earnedSlots>>

Keys == Rigs \cup {PoolKey}
EmptyRing == [minutes |-> [i \in 0..Slots-1 |-> 0], best |-> [i \in 0..Slots-1 |-> 0], last |-> 0]
NoRing == [EmptyRing EXCEPT !.last = -1]

PeriodsTypeOK ==
    /\ minute \in 1..MaxMinute /\ noted \in 0..MaxNoted /\ restarts \in 0..MaxRestarts
    /\ \A w \in Rigs : minuteBest[w].last \in -1..MaxMinute
    /\ \A k \in Keys : periods[k].last \in -1..MaxMinute
    /\ Cardinality({k \in Keys : periods[k] # NoRing}) <= MaxRings
    /\ lastBucket \in 0..MaxMinute

PeriodsInit ==
    /\ minute = 1 /\ minuteBest = [w \in Rigs |-> NoRing]
    /\ periods = [k \in Keys |-> NoRing] /\ lastBucket = 0
    /\ snapshot = [rings |-> [k \in Keys |-> NoRing], bucket |-> 0]
    /\ noted = 0 /\ restarts = 0
    /\ earnedSlots = [w \in Rigs |-> [m \in 1..MaxMinute |-> 0]]

-----------------------------------------------------------------------------
Index(m) == m % Slots          \* savedWorkerRingIndex
Larger(a, b) == IF a > b THEN a ELSE b

\* A slot is taken over by a new minute, and keeps the better value within one.
Note(ring, m, q) ==
    LET i == Index(m)
        old == IF ring.minutes[i] = m THEN ring.best[i] ELSE 0
    IN  [minutes |-> [ring.minutes EXCEPT ![i] = m],
         best |-> [ring.best EXCEPT ![i] = Larger(old, q)], last |-> m]
Existing(ring) == IF ring = NoRing THEN EmptyRing ELSE ring

\* The age of a ring; the difference of two uint32 wraps around below zero.
Wrap == 1000
Age(m, ring) == (m - ring.last) % Wrap

\* pruneSavedWorkerMinuteBestLocked
PrunedBest(rings, m) ==
    [w \in Rigs |-> IF rings[w] # NoRing /\ (rings[w].last = 0 \/ Age(m, rings[w]) > Slots)
                    THEN NoRing ELSE rings[w]]

\* The results of pruneSavedWorkerPeriodsLocked: old rings go, and when there are
\* too many, any others but that of the pool if possible.
Kept(rings) == {k \in Keys : rings[k] # NoRing}
PrunedPeriods(rings, m) ==
    LET young == {k \in Kept(rings) : rings[k].last # 0 /\ Age(m, rings[k]) < Slots}
        few == {S \in SUBSET young : Cardinality(S) = Min({MaxRings, Cardinality(young)})
                                     /\ (PoolKey \in young => PoolKey \in S)}
    IN  {[k \in Keys |-> IF k \in S THEN rings[k] ELSE NoRing] : S \in few}

-----------------------------------------------------------------------------
MinuteTick ==
    /\ minute < MaxMinute /\ minute' = minute + 1
    /\ UNCHANGED <<minuteBest, periods, lastBucket, snapshot, noted, restarts, earnedSlots>>

\* UpdateSavedWorkerMinuteBestDifficulty for a share of minute m
NoteShare(w, q, m) ==
    /\ noted < MaxNoted /\ noted' = noted + 1
    /\ minuteBest' = PrunedBest([minuteBest EXCEPT ![w] = Note(Existing(@), m, q)], m)
    /\ earnedSlots' = [earnedSlots EXCEPT ![w][m] = Larger(@, q)]
    /\ UNCHANGED <<minute, periods, lastBucket, snapshot, restarts>>

\* ConsumeSavedWorkerMinuteBestDifficulty
InMinute(rings, w, m) ==
    IF rings[w] # NoRing /\ rings[w].minutes[Index(m)] = m THEN rings[w].best[Index(m)] ELSE 0
Consumed(rings, W, m) ==
    [w \in Rigs |-> IF w \in W /\ rings[w] # NoRing /\ rings[w].minutes[Index(m)] = m
                    THEN [rings[w] EXCEPT !.best[Index(m)] = 0] ELSE rings[w]]

\* backfillSavedWorkerOfflineGapLocked: the minutes after the last sample are zero.
Backfill(ring, m) ==
    LET gap(i) == {n \in ring.last+1..m-1 : ring.last > 0 /\ n > m - Slots /\ Index(n) = i
                                            /\ ring.minutes[i] # n}
    IN  [ring EXCEPT !.minutes = [i \in 0..Slots-1 |-> IF gap(i) = {} THEN @[i] ELSE Max(gap(i))],
                     !.best = [i \in 0..Slots-1 |-> IF gap(i) = {} THEN @[i] ELSE 0]]

\* recordSavedOnlineWorkerPeriods at the time `now`, for the workers online and
\* those among them that are saved: the minute before is sampled.
Sample(now, online, saved) ==
    /\ now > 1 /\ now > lastBucket /\ lastBucket' = now
    /\ LET m == now - 1
           rings == PrunedBest(minuteBest, minute)
           best(k) == IF k = PoolKey THEN Max({InMinute(rings, w, m) : w \in online} \cup {0})
                      ELSE InMinute(rings, k, m)
           sampled(k) == Note(Backfill(Existing(periods[k]), m), m, best(k))
       IN  /\ minuteBest' = IF online = {} THEN minuteBest ELSE Consumed(rings, online, m)
           /\ periods' \in PrunedPeriods(
                  [k \in Keys |-> IF k \in saved \cup {PoolKey} THEN sampled(k) ELSE periods[k]],
                  now)
    /\ UNCHANGED <<minute, snapshot, noted, restarts, earnedSlots>>

\* savedWorkerPeriodHistory is read: rings that are too old are pruned.
ReadHistory ==
    /\ periods' \in PrunedPeriods(periods, minute) /\ periods' # periods
    /\ UNCHANGED <<minute, minuteBest, lastBucket, snapshot, noted, restarts, earnedSlots>>

\* persistSavedWorkerPeriodsSnapshot, every few minutes and at shutdown
Persist ==
    /\ periods' \in PrunedPeriods(periods, minute)
    /\ snapshot' = [rings |-> periods', bucket |-> lastBucket]
    /\ UNCHANGED <<minute, minuteBest, lastBucket, noted, restarts, earnedSlots>>

\* The process restarts; loadSavedWorkerPeriodsSnapshot may fail.
RestartHistory(loads) ==
    /\ restarts < MaxRestarts /\ restarts' = restarts + 1
    /\ minuteBest' = [w \in Rigs |-> NoRing]
    /\ IF loads
       THEN /\ periods' \in PrunedPeriods(snapshot.rings, minute)
            /\ lastBucket' = snapshot.bucket
       ELSE periods' = [k \in Keys |-> NoRing] /\ lastBucket' = 0
    /\ UNCHANGED <<minute, snapshot, noted, earnedSlots>>

PeriodsNext ==
    \/ MinuteTick \/ ReadHistory \/ Persist
    \/ \E w \in Rigs, q \in BestValues, m \in {minute, minute - 1} \ {0} : NoteShare(w, q, m)
    \/ \E now \in {minute, minute - 1}, online \in SUBSET Rigs :
          \E saved \in SUBSET online : Sample(now, online, saved)
    \/ \E loads \in BOOLEAN : RestartHistory(loads)

PeriodsSpec == PeriodsInit /\ [][PeriodsNext]_periodsVars

-----------------------------------------------------------------------------
(* What the history shows for a minute is the best share of that minute, or *)
(* too little (a share came late, a ring was dropped), never that of an     *)
(* earlier time round the ring, of another minute or of another worker; and *)
(* it shows a minute in its own slot only, none later than the last sample  *)
(* (recordSavedOnlineWorkerPeriods, loadSavedWorkerPeriodsSnapshot).        *)
Sources(k) == IF k = PoolKey THEN Rigs ELSE {k}
HistoryIsTrue ==
    \A k \in Kept(periods) : \A i \in 0..Slots-1 :
        LET m == periods[k].minutes[i] IN
        m # 0 => /\ Index(m) = i /\ m <= periods[k].last
                 /\ periods[k].best[i] # 0 =>
                       \E w \in Sources(k) : periods[k].best[i] <= earnedSlots[w][m]
=============================================================================
