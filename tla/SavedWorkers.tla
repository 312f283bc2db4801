---------------------------- MODULE SavedWorkers ----------------------------
(***************************************************************************)
(* The workers users have saved, and their best difficulties               *)
(* (worker_list_store_saved.go, worker_list_store_bestdiff.go,             *)
(* miner_wallet.go).                                                       *)
(*                                                                         *)
(* A connection caches whether its worker is saved and how good its best   *)
(* share was; saving or removing the worker has the cache looked up again, *)
(* and a lookup counts only for the generation that began it.  A better    *)
(* share goes to a map in memory that is flushed to the table: the batch   *)
(* is taken out first and merged back when the transaction fails.          *)
(***************************************************************************)
EXTENDS FiniteSetsExt, Integers

CONSTANTS
    Savers,          \* users
    Names,           \* hashes of worker names
    MaxSaved,        \* maxSavedWorkersPerUser
    MaxBest,         \* difficulties are 1..MaxBest
    MaxGeneration, MaxScored, MaxSaves, MaxSaveFaults, MaxSaveStops

ASSUME SavedWorkersAssumption ==
    /\ "nobody" \notin Names /\ MaxSaved \in Nat \ {0} /\ MaxBest \in Nat \ {0}
    /\ {MaxGeneration, MaxScored, MaxSaves, MaxSaveFaults, MaxSaveStops} \subseteq Nat

NotSaved == -1
Nobody == "nobody"
NoBest == [w \in Names |-> 0]

VARIABLES
    rows,          \* saved_workers: the best difficulty of a user's worker, or NotSaved
    pendingBest, flushing,   \* bestDiffPending, and the batch flushBestDiffPending took from it
    updates,       \* bestDiffCh
    store,         \* the store's worker: up, or making its last flush
    registered, syncGeneration, syncing, tracked, cachedBest,      \* of the connection
    lookups,       \* lookups of the cache in progress
    scored,        \* the share being recorded
    toRefresh,     \* workers whose handler has not refreshed the connection yet
    unknown,       \* the last lookup of the cache failed
    earnedBest, removed,         \* best shares of tracked workers; workers ever removed
    shareCount, saves, saveFaults, saveStops

savedVars == <<rows, pendingBest, flushing, updates, store, registered, syncGeneration, syncing,
               tracked, cachedBest, lookups, scored, toRefresh, unknown, earnedBest, removed,
               shareCount, saves, saveFaults, saveStops>>
connVars == <<registered, syncGeneration, syncing, tracked, cachedBest, lookups, unknown>>
storeVars == <<pendingBest, flushing, updates, store>>
countVars == <<shareCount, saves, saveFaults, saveStops>>

NoScore == [step |-> "idle", name |-> Nobody, diff |-> 0, best |-> 0]
Lookup == [name : Names, gen : 1..MaxGeneration, step : {"pending", "row", "done"},
           best : 0..MaxBest, found : BOOLEAN, ok : BOOLEAN]

SavedTypeOK ==
    /\ rows \in [Savers \X Names -> {NotSaved} \cup 0..MaxBest]
    /\ pendingBest \in [Names -> 0..MaxBest] /\ flushing \in [Names -> 0..MaxBest]
    /\ updates \subseteq Names \X (1..MaxBest) /\ store \in {"up", "closing"}
    /\ registered \in Names \cup {Nobody} /\ syncGeneration \in 0..MaxGeneration
    /\ {syncing, tracked, unknown} \subseteq BOOLEAN /\ cachedBest \in 0..MaxBest
    /\ lookups \subseteq Lookup
    /\ scored.step \in {"idle", "pending", "row", "record", "cache"}
    /\ toRefresh \subseteq Names /\ removed \subseteq Names /\ earnedBest \in [Names -> 0..MaxBest]

SavedInit ==
    /\ rows = [x \in Savers \X Names |-> NotSaved]
    /\ pendingBest = NoBest /\ flushing = NoBest /\ updates = {} /\ store = "up"
    /\ registered = Nobody /\ syncGeneration = 0 /\ syncing = FALSE /\ tracked = FALSE
    /\ cachedBest = 0 /\ lookups = {} /\ scored = NoScore /\ toRefresh = {} /\ unknown = FALSE
    /\ earnedBest = NoBest /\ removed = {}
    /\ shareCount = 0 /\ saves = 0 /\ saveFaults = 0 /\ saveStops = 0

Higher(a, b) == IF a > b THEN a ELSE b
Earn(w, d) == earnedBest' = [earnedBest EXCEPT ![w] = Higher(@, d)]
IsSaved(w) == \E u \in Savers : rows[<<u, w>>] # NotSaved
RowBest(w) == Max({0} \cup {rows[<<u, w>>] : u \in Savers})
SaveOutcome(ok) == (ok \/ saveFaults < MaxSaveFaults) /\ saveFaults' = saveFaults + (IF ok THEN 0 ELSE 1)

-----------------------------------------------------------------------------
\* handleWorkerSave, handleWorkerRemove and RemoveUser: the table changes, then the
\* handler refreshes the connections.
Change == saves < MaxSaves /\ saves' = saves + 1
ChangeKeeps == UNCHANGED <<storeVars, connVars, scored, earnedBest, shareCount, saveFaults, saveStops>>

Add(u, w) ==
    /\ Change
    /\ rows' = IF Cardinality({v \in Names : rows[<<u, v>>] # NotSaved}) < MaxSaved
                  /\ rows[<<u, w>>] = NotSaved
               THEN [rows EXCEPT ![<<u, w>>] = 0] ELSE rows
    /\ toRefresh' = toRefresh \cup {w}
    /\ ChangeKeeps /\ UNCHANGED removed

Delete(u, names) ==
    /\ Change
    /\ rows' = [x \in Savers \X Names |-> IF x[1] = u /\ x[2] \in names THEN NotSaved ELSE rows[x]]
    /\ removed' = removed \cup {w \in names : rows[<<u, w>>] # NotSaved}
    /\ toRefresh' = toRefresh \cup names
    /\ ChangeKeeps
Unsave(u, w) == Delete(u, {w})
RemoveUser(u) == Delete(u, {w \in Names : rows[<<u, w>>] # NotSaved})

\* beginSavedWorkerSyncLocked, and the lookup it leads to
BeginSync(w) ==
    /\ syncGeneration < MaxGeneration /\ syncGeneration' = syncGeneration + 1
    /\ syncing' = TRUE /\ tracked' = FALSE /\ cachedBest' = 0 /\ unknown' = FALSE
    /\ lookups' = lookups \cup {[name |-> w, gen |-> syncGeneration', step |-> "pending",
                                 best |-> 0, found |-> FALSE, ok |-> TRUE]}

Refresh(w) ==
    /\ w \in toRefresh /\ toRefresh' = toRefresh \ {w}
    /\ IF registered = w THEN BeginSync(w) /\ UNCHANGED registered ELSE UNCHANGED connVars
    /\ UNCHANGED <<rows, storeVars, scored, earnedBest, removed, countVars>>

\* registerWorker
Register(w) ==
    /\ store = "up" /\ registered # w /\ registered' = w /\ BeginSync(w)
    /\ UNCHANGED <<rows, storeVars, scored, toRefresh, earnedBest, removed, countVars>>

\* unregisterRegisteredWorker
Unregister ==
    /\ registered # Nobody /\ registered' = Nobody
    /\ syncGeneration < MaxGeneration /\ syncGeneration' = syncGeneration + 1
    /\ syncing' = FALSE /\ tracked' = FALSE /\ cachedBest' = 0
    /\ UNCHANGED <<rows, storeVars, lookups, unknown, scored, toRefresh, earnedBest, removed, countVars>>

\* BestDifficultyForHash reads the pending map, then the table.
LookUpDifficulty(l, ok) ==
    /\ SaveOutcome(ok)
    /\ \/ /\ l.step = "pending" /\ ok
          /\ lookups' = (lookups \ {l}) \cup
                          {[l EXCEPT !.step = "row", !.best = pendingBest[l.name]]}
       \/ /\ l.step = "row"
          /\ lookups' = (lookups \ {l}) \cup
                          {[l EXCEPT !.step = "done", !.ok = ok, !.found = IsSaved(l.name),
                                     !.best = Higher(@, RowBest(l.name))]}
    /\ UNCHANGED <<rows, storeVars, registered, syncGeneration, syncing, tracked, cachedBest, unknown,
                   scored, toRefresh, earnedBest, removed, shareCount, saves, saveStops>>

\* completeSavedWorkerSync
CompleteSync(l) ==
    /\ l.step = "done" /\ lookups' = lookups \ {l}
    /\ IF registered = l.name /\ syncGeneration = l.gen /\ syncing
       THEN /\ syncing' = FALSE /\ unknown' = ~l.ok
            /\ IF l.ok
               THEN /\ tracked' = l.found
                    /\ cachedBest' = IF l.found THEN Higher(l.best, cachedBest) ELSE l.best
               ELSE UNCHANGED <<tracked, cachedBest>>
       ELSE UNCHANGED <<syncing, tracked, cachedBest, unknown>>
    /\ UNCHANGED <<rows, storeVars, registered, syncGeneration, scored, toRefresh, earnedBest, removed,
                   countVars>>

-----------------------------------------------------------------------------
\* maybeUpdateSavedWorkerBestDiffHash: what is known of the worker decides; a share of
\* another worker, or one that comes during a lookup, has it read from the store.
Decided(w, d, known, best) ==
    IF known /\ d > best THEN /\ scored' = [step |-> "record", name |-> w, diff |-> d, best |-> 0]
                              /\ UNCHANGED earnedBest
                         ELSE scored' = NoScore /\ (IF known THEN Earn(w, d) ELSE UNCHANGED earnedBest)

Share(w, d) ==
    /\ store = "up" /\ scored = NoScore /\ shareCount < MaxScored /\ shareCount' = shareCount + 1
    /\ IF registered = w /\ ~syncing
       THEN Decided(w, d, tracked, cachedBest)
       ELSE /\ scored' = [step |-> "pending", name |-> w, diff |-> d, best |-> 0]
            /\ UNCHANGED earnedBest
    /\ UNCHANGED <<rows, storeVars, connVars, toRefresh, removed, saves, saveFaults, saveStops>>

ScoreReads(ok) ==
    /\ SaveOutcome(ok)
    /\ \/ /\ scored.step = "pending" /\ ok
          /\ scored' = [scored EXCEPT !.step = "row", !.best = pendingBest[scored.name]]
          /\ UNCHANGED earnedBest
       \/ /\ scored.step = "row" /\ ok
          /\ Decided(scored.name, scored.diff, IsSaved(scored.name),
                     Higher(scored.best, RowBest(scored.name)))
       \/ scored.step = "row" /\ ~ok /\ scored' = NoScore /\ UNCHANGED earnedBest
    /\ UNCHANGED <<rows, storeVars, connVars, toRefresh, removed, shareCount, saves, saveStops>>

\* UpdateSavedWorkerBestDifficulty: the send on the channel does not block.
RecordBest ==
    /\ scored.step = "record" /\ scored' = [scored EXCEPT !.step = "cache"]
    /\ LET w == scored.name IN
       /\ Earn(w, scored.diff)
       /\ pendingBest' = [pendingBest EXCEPT ![w] = Higher(@, scored.diff)]
       /\ updates' = IF scored.diff > pendingBest[w] /\ updates = {} THEN {<<w, scored.diff>>}
                     ELSE updates
    /\ UNCHANGED <<rows, flushing, store, connVars, toRefresh, removed, countVars>>

CacheBest ==
    /\ scored.step = "cache" /\ scored' = NoScore
    /\ cachedBest' = IF registered = scored.name THEN Higher(cachedBest, scored.diff) ELSE cachedBest
    /\ UNCHANGED <<rows, storeVars, registered, syncGeneration, syncing, tracked, lookups, unknown,
                   toRefresh, earnedBest, removed, countVars>>

-----------------------------------------------------------------------------
\* The worker of startBestDiffWorker
DrainUpdate ==
    /\ store = "up" /\ flushing = NoBest
    /\ \E x \in updates : /\ updates' = updates \ {x}
                          /\ pendingBest' = [pendingBest EXCEPT ![x[1]] = Higher(@, x[2])]
    /\ UNCHANGED <<rows, flushing, store, connVars, scored, toRefresh, earnedBest, removed, countVars>>

BeginFlush ==
    /\ flushing = NoBest /\ pendingBest # NoBest
    /\ flushing' = pendingBest /\ pendingBest' = NoBest
    /\ UNCHANGED <<rows, updates, store, connVars, scored, toRefresh, earnedBest, removed, countVars>>

\* Mutant: a failed batch is not merged back.
EndFlushDrops(ok) ==
    /\ flushing # NoBest /\ SaveOutcome(ok)
    /\ rows' = IF ~ok THEN rows
               ELSE [x \in Savers \X Names |->
                        IF rows[x] # NotSaved THEN Higher(rows[x], flushing[x[2]]) ELSE NotSaved]
    /\ flushing' = NoBest
    /\ UNCHANGED <<pendingBest, updates, store, connVars, scored, toRefresh, earnedBest, removed,
                   shareCount, saves, saveStops>>

\* One transaction updates the rows the batch improves; when it fails, mergeBack.
EndFlush(ok) ==
    /\ flushing # NoBest /\ SaveOutcome(ok)
    /\ rows' = IF ~ok THEN rows
               ELSE [x \in Savers \X Names |->
                        IF rows[x] # NotSaved THEN Higher(rows[x], flushing[x[2]]) ELSE NotSaved]
    /\ pendingBest' = IF ok THEN pendingBest
                      ELSE [w \in Names |-> Higher(pendingBest[w], flushing[w])]
    /\ flushing' = NoBest
    /\ UNCHANGED <<updates, store, connVars, scored, toRefresh, earnedBest, removed, shareCount,
                   saves, saveStops>>

\* Close: the miners and their shares are gone, the worker makes a last flush.
Close ==
    /\ store = "up" /\ saveStops < MaxSaveStops /\ saveStops' = saveStops + 1
    /\ registered = Nobody /\ lookups = {} /\ scored = NoScore /\ toRefresh = {} /\ flushing = NoBest
    /\ store' = "closing"
    /\ UNCHANGED <<rows, pendingBest, flushing, updates, connVars, scored, toRefresh, earnedBest,
                   removed, shareCount, saves, saveFaults>>

\* A new process knows the table only.  A failed last flush and a crash lose the
\* difficulties in memory.
ReopenStore ==
    /\ pendingBest' = NoBest /\ flushing' = NoBest /\ updates' = {} /\ store' = "up"
    /\ registered' = Nobody /\ syncGeneration' = 0 /\ syncing' = FALSE /\ tracked' = FALSE
    /\ cachedBest' = 0 /\ lookups' = {} /\ scored' = NoScore /\ toRefresh' = {} /\ unknown' = FALSE
    /\ UNCHANGED <<rows, removed, shareCount, saves, saveFaults>>
Reopen == store = "closing" /\ pendingBest = NoBest /\ flushing = NoBest /\ ReopenStore
          /\ UNCHANGED <<earnedBest, saveStops>>
Lost == /\ saveStops < MaxSaveStops /\ saveStops' = saveStops + 1 /\ ReopenStore
        /\ earnedBest' = [w \in Names |-> RowBest(w)]

SavedNext ==
    \/ \E u \in Savers : \/ RemoveUser(u)
                         \/ \E w \in Names : Add(u, w) \/ Unsave(u, w)
    \/ \E w \in Names : \/ Refresh(w) \/ Register(w)
                        \/ \E d \in 1..MaxBest : Share(w, d)
    \/ Unregister \/ RecordBest \/ CacheBest \/ DrainUpdate \/ BeginFlush \/ Close \/ Reopen \/ Lost
    \/ \E l \in lookups : CompleteSync(l) \/ \E ok \in BOOLEAN : LookUpDifficulty(l, ok)
    \/ \E ok \in BOOLEAN : ScoreReads(ok) \/ EndFlush(ok)

SavedSpec == SavedInit /\ [][SavedNext]_savedVars

-----------------------------------------------------------------------------
(* The best difficulty of a tracked worker is in its row, pending, or in    *)
(* the batch being flushed, however shares, failed flushes and an orderly   *)
(* stop interleave, as long as the worker stays saved; and a connection     *)
(* whose lookup is done tracks its worker exactly when somebody saved it,   *)
(* even when it is looked up anew meanwhile (flushBestDiffPending,          *)
(* completeSavedWorkerSync).                                                *)
SavedWorkersAgree ==
    /\ \A w \in Names \ removed : Max({RowBest(w), pendingBest[w], flushing[w]}) >= earnedBest[w]
    /\ registered \in Names \ toRefresh /\ ~syncing /\ ~unknown =>
          (tracked <=> IsSaved(registered))
=============================================================================
