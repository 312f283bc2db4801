-------------------------- MODULE PendingSubmission --------------------------
(***************************************************************************)
(* The life of a solved block in goPool: handleBlockShare, which persists  *)
(* the block, races it to bitcoind and records the outcome; the SQLite     *)
(* table pending_submissions with its compare-and-transition updates; the  *)
(* emergency spool directory used when SQLite is not available; the        *)
(* replayer goroutine; and the start-up recovery that runs before mining.  *)
(*                                                                         *)
(* A block stands for its exact bytes, and for its key (the header hash)   *)
(* too.  A storage operation may fail, MaxFaults times in all, and a call  *)
(* to bitcoind may fail or lose its answer, MaxRpcFaults times in all.  The *)
(* process may crash (losing memory and whatever was not synced) or be shut *)
(* down, MaxStops times in all; it is then started again.                   *)
(***************************************************************************)
EXTENDS Integers, FiniteSets

CONSTANTS Blocks,         \* solved blocks
          InvalidBlocks,  \* those bitcoind rejects whenever it is asked
          MaxFinds,       \* submissions of one winning share by its miner
          MaxFaults,      \* failing writes to SQLite or to the spool
          MaxRpcFaults,   \* failing or inconclusive calls to bitcoind
          MaxStops        \* crashes and shutdowns

ASSUME BlocksAssumption == InvalidBlocks \subseteq Blocks
ASSUME BoundsAssumption ==
    /\ MaxFinds \in Nat /\ MaxFaults \in Nat
    /\ MaxRpcFaults \in Nat /\ MaxStops \in Nat

VARIABLES
    \* durable state
    status,     \* status[b]: the row of b in pending_submissions
    spool,      \* spool[b]: <digest>.json in the spool directory
    temp,       \* temp[b]: the temporary file a spool write renames
    \* bitcoind
    known,      \* blocks bitcoind has processed
    \* the process
    proc,       \* where main is
    job,        \* job[b]: the job b was found on is still in memory
    todo,       \* spool files the recovery pass still has to import
    \* handleBlockShare, one activation per block at a time
    hpc,        \* control
    persisted,  \* pendingPersisted
    outcome,    \* what submitBlockWithFastRetry returned
    finished,   \* submissionFinished
    reply,      \* the last Stratum response for the share
    \* the replayer goroutine
    rpc,        \* control
    batch,      \* rows read by the scan and not yet visited
    item,       \* the row being visited
    backoff,    \* backoff[b]: pendingReplayBackoff does not allow b yet
    \* bounds
    finds, faults, rpcFaults, stops

dbVars == <<status>>
spoolVars == <<spool, temp>>
procVars == <<proc, job, todo, stops>>
handlerVars == <<hpc, persisted, outcome, finished, reply, finds>>
replayVars == <<rpc, batch, item, backoff>>
vars == <<status, spool, temp, known, proc, job, todo, hpc, persisted, outcome,
          finished, reply, rpc, batch, item, backoff, finds, faults, rpcFaults,
          stops>>

None == "none"
RowStates == {None, "pending", "submitting", "submitted"}
SpoolStates == {None,        \* no such file
                "volatile",  \* renamed into place, directory not synced
                "durable",   \* renamed into place, directory synced
                "unlinked"}  \* removed, directory not synced
TempStates == {None,
               "partial",    \* being written
               "synced",     \* written and fsynced
               "torn",       \* incomplete file left by a crash
               "kept"}       \* complete file left by a crash
HandlerStates == {"idle", "persist", "create", "sync", "install", "syncdir",
                  "submit", "failed", "failedFallback", "failedLog",
                  "accepted", "acceptedFallback", "acceptedLog",
                  "unspool", "respond", "deferred"}
ProcStates == {"down", "recover", "reclaim", "up", "draining"}
ReplayStates == {"idle", "items", "submit", "accepted", "failed", "deferred"}
Outcomes == {None, "accepted", "failed"}
Files == Blocks \X {"json", "tmp"}

Init ==
    /\ status = [b \in Blocks |-> None]
    /\ spool = [b \in Blocks |-> None]
    /\ temp = [b \in Blocks |-> None]
    /\ known = {}
    /\ proc = "up"
    /\ job = [b \in Blocks |-> FALSE]
    /\ todo = {}
    /\ hpc = [b \in Blocks |-> "idle"]
    /\ persisted = [b \in Blocks |-> FALSE]
    /\ outcome = [b \in Blocks |-> None]
    /\ finished = [b \in Blocks |-> FALSE]
    /\ reply = [b \in Blocks |-> None]
    /\ rpc = "idle"
    /\ batch = {}
    /\ item = None
    /\ backoff = [b \in Blocks |-> FALSE]
    /\ finds = [b \in Blocks |-> 0]
    /\ faults = 0
    /\ rpcFaults = 0
    /\ stops = 0

-----------------------------------------------------------------------------
(***************************************************************************)
(* Storage.  A statement that returns an error leaves the row as it was.   *)
(***************************************************************************)
Fault == faults < MaxFaults /\ faults' = faults + 1

\* INSERT ... ON CONFLICT DO UPDATE: the row takes the new status whatever it was.
Upsert(b, new, ok) ==
    \/ ok /\ status' = [status EXCEPT ![b] = new] /\ UNCHANGED faults
    \/ ~ok /\ Fault /\ UNCHANGED status

\* UPDATE ... WHERE key AND status = from; ok when exactly one row changed and
\* the statement returned no error.
Transition(b, from, to, ok) ==
    \/ ok /\ status[b] = from /\ status' = [status EXCEPT ![b] = to] /\ UNCHANGED faults
    \/ ~ok /\ status[b] # from /\ UNCHANGED <<status, faults>>
    \/ ~ok /\ Fault /\ UNCHANGED status

(***************************************************************************)
(* bitcoind.  delivered says whether the node processed the block.         *)
(***************************************************************************)
Process(b, delivered) ==
    /\ delivered => b \notin InvalidBlocks
    /\ known' = IF delivered THEN known \cup {b} ELSE known

RpcFault == rpcFaults < MaxRpcFaults /\ rpcFaults' = rpcFaults + 1

\* A null result or "duplicate".
RpcAccept(b) == Process(b, TRUE) /\ UNCHANGED rpcFaults

\* Any other result string: "inconclusive" is retried, the rest are rejections.
RpcInconclusive(b) == RpcFault /\ \E delivered \in BOOLEAN : Process(b, delivered)
RpcReject(b) ==
    /\ Process(b, FALSE)
    /\ IF b \in InvalidBlocks THEN UNCHANGED rpcFaults ELSE RpcFault

\* The call failed; a call that timed out may have reached the node.
RpcError(b) == RpcFault /\ Process(b, FALSE)
RpcTimeout(b) == RpcFault /\ \E delivered \in BOOLEAN : Process(b, delivered)

-----------------------------------------------------------------------------
(***************************************************************************)
(* handleBlockShare                                                        *)
(***************************************************************************)
HandlerGoto(b, pc) == hpc' = [hpc EXCEPT ![b] = pc]

\* The miner submits the winning share, for the first time or again: blocks are
\* not looked up in the duplicate-share cache.  The job must still be known.
Find(b) ==
    /\ proc = "up" /\ hpc[b] = "idle"
    /\ finds[b] < MaxFinds /\ (finds[b] = 0 \/ job[b])
    /\ finds' = [finds EXCEPT ![b] = @ + 1]
    /\ job' = [job EXCEPT ![b] = TRUE]
    /\ HandlerGoto(b, "persist")
    /\ persisted' = [persisted EXCEPT ![b] = FALSE]
    /\ outcome' = [outcome EXCEPT ![b] = None]
    /\ finished' = [finished EXCEPT ![b] = FALSE]
    /\ UNCHANGED <<dbVars, spoolVars, known, proc, todo, stops, reply, replayVars,
                   faults, rpcFaults>>

\* Mutation: the row is visible to the replayer from the start.
PersistAsPending(b) ==
    /\ hpc[b] = "persist"
    /\ \E ok \in BOOLEAN :
         /\ Upsert(b, "pending", ok)
         /\ persisted' = [persisted EXCEPT ![b] = ok]
         /\ HandlerGoto(b, IF ok THEN "submit" ELSE "create")
    /\ UNCHANGED <<spoolVars, known, procVars, outcome, finished, reply, finds,
                   replayVars, rpcFaults>>

\* Mutation: no spool file when SQLite fails.
PersistWithoutSpool(b) ==
    /\ hpc[b] = "persist"
    /\ \E ok \in BOOLEAN :
         /\ Upsert(b, "submitting", ok)
         /\ persisted' = [persisted EXCEPT ![b] = ok]
         /\ HandlerGoto(b, "submit")
    /\ UNCHANGED <<spoolVars, known, procVars, outcome, finished, reply, finds,
                   replayVars, rpcFaults>>

\* The row is written as submitting before the first submitblock.  The write has
\* 50ms; after that it is given up, applied or not, and the block is spooled.
Persist(b) ==
    /\ hpc[b] = "persist"
    /\ \E ok \in BOOLEAN :
         /\ \/ Upsert(b, "submitting", ok)
            \/ ~ok /\ Fault /\ status' = [status EXCEPT ![b] = "submitting"]
         /\ persisted' = [persisted EXCEPT ![b] = ok]
         /\ HandlerGoto(b, IF ok THEN "submit" ELSE "create")
    /\ UNCHANGED <<spoolVars, known, procVars, outcome, finished, reply, finds,
                   replayVars, rpcFaults>>

\* After a spool write, done or failed: the first one precedes submitblock, the
\* one that follows a failed submission precedes logPendingSubmission.
AfterSpool(b) == IF outcome[b] = None THEN "submit" ELSE "failedLog"

SpoolUnchanged(b) == UNCHANGED <<dbVars, known, procVars, persisted, outcome,
                                 finished, reply, finds, replayVars, rpcFaults>>

\* A failure before the rename removes the temporary file.
SpoolFails(b) ==
    /\ Fault
    /\ temp' = [temp EXCEPT ![b] = None]
    /\ HandlerGoto(b, AfterSpool(b))
    /\ UNCHANGED spool

SpoolCreate(b) ==
    /\ hpc[b] = "create"
    /\ \/ /\ temp' = [temp EXCEPT ![b] = "partial"]
          /\ HandlerGoto(b, "sync")
          /\ UNCHANGED <<spool, faults>>
       \/ SpoolFails(b)
    /\ SpoolUnchanged(b)

SpoolSync(b) ==
    /\ hpc[b] = "sync"
    /\ \/ /\ temp' = [temp EXCEPT ![b] = "synced"]
          /\ HandlerGoto(b, "install")
          /\ UNCHANGED <<spool, faults>>
       \/ SpoolFails(b)
    /\ SpoolUnchanged(b)

\* The rename replaces a file with the same bytes, if there is one.
SpoolInstall(b) ==
    /\ hpc[b] = "install"
    /\ \/ /\ temp' = [temp EXCEPT ![b] = None]
          /\ spool' = [spool EXCEPT ![b] = IF @ = "durable" THEN @ ELSE "volatile"]
          /\ HandlerGoto(b, "syncdir")
          /\ UNCHANGED faults
       \/ SpoolFails(b)
    /\ SpoolUnchanged(b)

SpoolSyncDir(b) ==
    /\ hpc[b] = "syncdir"
    /\ \/ spool' = [spool EXCEPT ![b] = "durable"] /\ UNCHANGED faults
       \/ Fault /\ UNCHANGED spool
    /\ HandlerGoto(b, AfterSpool(b))
    /\ UNCHANGED temp
    /\ SpoolUnchanged(b)

\* What submitBlockWithFastRetry returns, or another round of its loop.
Return(b, o) ==
    /\ outcome' = [outcome EXCEPT ![b] = o]
    /\ HandlerGoto(b, CASE o = "accepted" -> IF persisted[b] THEN "accepted" ELSE "acceptedLog"
                        [] o = "failed" -> IF persisted[b] THEN "failed" ELSE "create"
                        [] OTHER -> "submit")

\* One submitblock call.  A rejection or a timeout is followed by a
\* getblockheader check, which may find the block in the chain; an error or an
\* inconclusive answer is retried until the retry window is over.
Submit(b) ==
    /\ hpc[b] = "submit"
    /\ \/ RpcAccept(b) /\ Return(b, "accepted")
       \/ RpcReject(b) /\ \E o \in {"accepted", "failed"} :
                             (o = "accepted" => b \in known) /\ Return(b, o)
       \/ RpcTimeout(b) /\ \E o \in Outcomes :
                             (o = "accepted" => b \in known') /\ Return(b, o)
       \/ RpcError(b) /\ \E o \in {None, "failed"} : Return(b, o)
       \/ RpcInconclusive(b) /\ \E o \in {None, "failed"} : Return(b, o)
    /\ UNCHANGED <<dbVars, spoolVars, procVars, persisted, finished, reply, finds,
                   replayVars, faults>>

\* The row leaves submitting: by compare-and-transition first, then, when that
\* did not change the row, by an unconditional write of the complete record.
Record(b, from, to, fallback) ==
    /\ hpc[b] = from
    /\ \E ok \in BOOLEAN :
         /\ Transition(b, "submitting", to, ok)
         /\ finished' = [finished EXCEPT ![b] = ok]
         /\ HandlerGoto(b, IF ok THEN "respond" ELSE fallback)
    /\ UNCHANGED <<spoolVars, known, procVars, persisted, outcome, reply, finds,
                   replayVars, rpcFaults>>

\* The unconditional write after a compare-and-transition that failed.
RecordFallback(b, from, to) ==
    /\ hpc[b] = from
    /\ \E ok \in BOOLEAN :
         /\ Upsert(b, to, ok)
         /\ finished' = [finished EXCEPT ![b] = ok]
    /\ HandlerGoto(b, "respond")
    /\ UNCHANGED <<spoolVars, known, procVars, persisted, outcome, reply, finds,
                   replayVars, rpcFaults>>

RecordFailed(b) == Record(b, "failed", "pending", "failedFallback")
RecordFailedFallback(b) == RecordFallback(b, "failedFallback", "pending")
RecordAccepted(b) == Record(b, "accepted", "submitted", "acceptedFallback")
RecordAcceptedFallback(b) == RecordFallback(b, "acceptedFallback", "submitted")

\* Mutation: the spool file is removed whether or not SQLite took the block.
LogUnpersistedUnspools(b, from, new) ==
    /\ hpc[b] = from
    /\ \E ok \in BOOLEAN : Upsert(b, new, ok)
    /\ HandlerGoto(b, "unspool")
    /\ UNCHANGED <<spoolVars, known, procVars, persisted, outcome, finished, reply,
                   finds, replayVars, rpcFaults>>

\* A block that could not be persisted at first is written now; its spool file
\* is removed only when SQLite has taken it.
LogUnpersisted(b, from, new) ==
    /\ hpc[b] = from
    /\ \E ok \in BOOLEAN :
         /\ Upsert(b, new, ok)
         /\ HandlerGoto(b, IF ok THEN "unspool" ELSE "respond")
    /\ UNCHANGED <<spoolVars, known, procVars, persisted, outcome, finished, reply,
                   finds, replayVars, rpcFaults>>

LogFailed(b) == LogUnpersisted(b, "failedLog", "pending")
LogAccepted(b) == LogUnpersisted(b, "acceptedLog", "submitted")

Removed(f) == IF f = None THEN None ELSE "unlinked"

\* removePendingSubmissionSpool: unlink, then sync the directory.
Unspool(b) ==
    /\ hpc[b] = "unspool"
    /\ \/ spool' = [spool EXCEPT ![b] = None] /\ UNCHANGED faults
       \/ Fault /\ \/ spool' = [spool EXCEPT ![b] = Removed(@)]
                   \/ UNCHANGED spool
    /\ HandlerGoto(b, "respond")
    /\ UNCHANGED <<dbVars, temp, known, procVars, persisted, outcome, finished,
                   reply, finds, replayVars, rpcFaults>>

Respond(b) ==
    /\ hpc[b] = "respond"
    /\ reply' = [reply EXCEPT ![b] = outcome[b]]
    /\ HandlerGoto(b, "deferred")
    /\ UNCHANGED <<dbVars, spoolVars, known, procVars, persisted, outcome, finished,
                   finds, replayVars, faults, rpcFaults>>

\* The deferred function: a row whose outcome was not recorded becomes pending.
Deferred(b) ==
    /\ hpc[b] = "deferred"
    /\ IF persisted[b] /\ ~finished[b]
       THEN \E ok \in BOOLEAN : Transition(b, "submitting", "pending", ok)
       ELSE UNCHANGED <<status, faults>>
    /\ HandlerGoto(b, "idle")
    /\ UNCHANGED <<spoolVars, known, procVars, persisted, outcome, finished, reply,
                   finds, replayVars, rpcFaults>>

Handler(b) ==
    \/ Persist(b) \/ SpoolCreate(b) \/ SpoolSync(b) \/ SpoolInstall(b) \/ SpoolSyncDir(b)
    \/ Submit(b)
    \/ RecordFailed(b) \/ RecordFailedFallback(b) \/ LogFailed(b)
    \/ RecordAccepted(b) \/ RecordAcceptedFallback(b) \/ LogAccepted(b)
    \/ Unspool(b) \/ Respond(b) \/ Deferred(b)

-----------------------------------------------------------------------------
(***************************************************************************)
(* replayPendingSubmissions, run at start-up and then on a ticker          *)
(***************************************************************************)
ReplayUnchanged == UNCHANGED <<spoolVars, procVars, handlerVars>>

\* The ticker fires; without pending rows the scan has nothing to do.
ReplayScan ==
    /\ proc = "up" /\ rpc = "idle"
    /\ batch' = {b \in Blocks : status[b] = "pending"}
    /\ rpc' = IF batch' = {} THEN "idle" ELSE "items"
    /\ UNCHANGED <<dbVars, known, item, backoff, faults, rpcFaults>>
    /\ ReplayUnchanged

\* After the last row of the scan the replayer waits for its ticker.
NextItem(rest) ==
    /\ batch' = rest
    /\ item' = None
    /\ rpc' = IF rest = {} THEN "idle" ELSE "items"

\* The row read by the scan is claimed, unless it may not be retried yet or is
\* no longer pending.  A shutdown ends the batch.
ReplayClaim ==
    /\ rpc = "items"
    /\ \/ \E b \in batch : \E ok \in BOOLEAN :
            /\ proc = "up" /\ ~backoff[b]
            /\ Transition(b, "pending", "submitting", ok)
            /\ IF ok THEN /\ rpc' = "submit" /\ item' = b
                          /\ batch' = batch \ {b}
                     ELSE NextItem(batch \ {b})
       \/ \E b \in batch : /\ proc = "up" /\ backoff[b]
                           /\ NextItem(batch \ {b})
                           /\ UNCHANGED <<status, faults>>
       \/ proc = "draining" /\ NextItem({}) /\ UNCHANGED <<status, faults>>
    /\ UNCHANGED <<known, backoff, rpcFaults>>
    /\ ReplayUnchanged

\* Mutation: the result string of submitblock is not looked at.
ReplaySubmitIgnoresResult ==
    /\ rpc = "submit"
    /\ \/ (RpcAccept(item) \/ RpcReject(item)) /\ rpc' = "accepted"
       \/ RpcError(item) /\ rpc' = "failed"
    /\ UNCHANGED <<dbVars, batch, item, backoff, faults>>
    /\ ReplayUnchanged

\* One submitblock call; a shutdown cancels it, delivered or not.
ReplaySubmit ==
    /\ rpc = "submit"
    /\ \/ RpcAccept(item) /\ rpc' = "accepted"
       \/ /\ \/ RpcReject(item) \/ RpcError(item)
             \/ RpcTimeout(item) \/ RpcInconclusive(item)
             \/ /\ proc = "draining" /\ UNCHANGED rpcFaults
                /\ \E delivered \in BOOLEAN : Process(item, delivered)
          /\ rpc' = "failed"
    /\ UNCHANGED <<dbVars, batch, item, backoff, faults>>
    /\ ReplayUnchanged

\* The outcome is recorded by compare-and-transition; attemptFinished skips the
\* deferred release.
ReplayRecord(from, to, delayed) ==
    /\ rpc = from
    /\ backoff' = [backoff EXCEPT ![item] = delayed]
    /\ \E ok \in BOOLEAN :
         /\ Transition(item, "submitting", to, ok)
         /\ IF ok THEN NextItem(batch)
                  ELSE rpc' = "deferred" /\ UNCHANGED <<batch, item>>
    /\ UNCHANGED <<known, rpcFaults>>
    /\ ReplayUnchanged

ReplayAccepted == ReplayRecord("accepted", "submitted", FALSE)
ReplayFailed == ReplayRecord("failed", "pending", TRUE)

\* Mutation: the claim is not released when its outcome could not be recorded.
ReplayDeferredKeepsClaim ==
    /\ rpc = "deferred"
    /\ NextItem(batch)
    /\ UNCHANGED <<dbVars, known, backoff, faults, rpcFaults>>
    /\ ReplayUnchanged

ReplayDeferred ==
    /\ rpc = "deferred"
    /\ \E ok \in BOOLEAN : Transition(item, "submitting", "pending", ok)
    /\ NextItem(batch)
    /\ UNCHANGED <<known, backoff, rpcFaults>>
    /\ ReplayUnchanged

\* nextAllowed passes.
BackoffOver(b) ==
    /\ backoff[b]
    /\ backoff' = [backoff EXCEPT ![b] = FALSE]
    /\ UNCHANGED <<dbVars, known, rpc, batch, item, faults, rpcFaults>>
    /\ ReplayUnchanged

ReplayVisit == ReplayClaim \/ ReplaySubmit \/ ReplayAccepted \/ ReplayFailed \/ ReplayDeferred

-----------------------------------------------------------------------------
(***************************************************************************)
(* The process: stop, start, recovery                                      *)
(***************************************************************************)
\* What a crash leaves of a file whose creation, rename or removal had not been
\* synced: a renamed file may be found under either name, or not at all.
CrashTemp(b) ==
    CASE temp[b] = "partial" -> {None, "torn"}
      [] temp[b] = "synced" -> {None, "kept"}
      [] OTHER -> {temp[b]}

CrashSpool(b) == IF spool[b] \in {"volatile", "unlinked"} THEN {None, "durable"} ELSE {spool[b]}

CrashFiles(b, sp, tp) ==
    /\ sp \in CrashSpool(b)
    /\ \/ tp \in CrashTemp(b)
       \/ spool[b] = "volatile" /\ sp = None /\ tp = "kept"

ResetMemory ==
    /\ job' = [b \in Blocks |-> FALSE]
    /\ todo' = {}
    /\ hpc' = [b \in Blocks |-> "idle"]
    /\ rpc' = "idle" /\ batch' = {} /\ item' = None
    /\ backoff' = [b \in Blocks |-> FALSE]
    /\ UNCHANGED <<persisted, outcome, finished, reply, finds>>

Crash ==
    /\ proc # "down" /\ stops < MaxStops
    /\ stops' = stops + 1
    /\ proc' = "down"
    /\ spool' \in [Blocks -> SpoolStates]
    /\ temp' \in [Blocks -> TempStates]
    /\ \A b \in Blocks : CrashFiles(b, spool'[b], temp'[b])
    /\ ResetMemory
    /\ UNCHANGED <<dbVars, known, faults, rpcFaults>>

\* SIGTERM: no new submissions; main waits for the handlers, whose submitblock
\* loops are not cancelled, and for the replayer, and closes the database.
Shutdown ==
    /\ proc = "up" /\ stops < MaxStops
    /\ stops' = stops + 1
    /\ proc' = "draining"
    /\ UNCHANGED <<dbVars, spoolVars, known, job, todo, handlerVars, replayVars,
                   faults, rpcFaults>>

Exit ==
    /\ proc = "draining"
    /\ \A b \in Blocks : hpc[b] = "idle"
    /\ rpc = "idle"
    /\ proc' = "down"
    /\ ResetMemory
    /\ UNCHANGED <<dbVars, spoolVars, known, stops, faults, rpcFaults>>

Present(f) == IF f[2] = "json" THEN spool[f[1]] \in {"volatile", "durable"}
                               ELSE temp[f[1]] # None

\* Recovery lists the spool directory before anything else runs.
Start ==
    /\ proc = "down"
    /\ proc' = "recover"
    /\ todo' = {f \in Files : Present(f)}
    /\ UNCHANGED <<dbVars, spoolVars, known, job, stops, handlerVars, replayVars,
                   faults, rpcFaults>>

\* The file f goes away, or stays when it could not be removed.
RemoveFile(f) ==
    IF f[2] = "json"
    THEN spool' = [spool EXCEPT ![f[1]] = "unlinked"] /\ UNCHANGED temp
    ELSE temp' = [temp EXCEPT ![f[1]] = None] /\ UNCHANGED spool

\* Mutation: ON CONFLICT DO UPDATE, as in the other insert.
ImportOverwrites(b) == status' = [status EXCEPT ![b] = "pending"]

\* Mutation: a status of its own for recovered rows.
ImportOwnStatus(b) == status' = [status EXCEPT ![b] = IF @ = None THEN "recovered" ELSE @]

\* INSERT ... ON CONFLICT DO NOTHING.
Import(b) == status' = [status EXCEPT ![b] = IF @ = None THEN "pending" ELSE @]

\* A complete file is imported and removed, a torn one is renamed out of the
\* way; an import error leaves the file for the next pass, and mining waits.
RecoverFile(f) ==
    /\ proc = "recover" /\ f \in todo
    /\ IF f[2] = "tmp" /\ temp[f[1]] = "torn"
       THEN /\ RemoveFile(f)
            /\ todo' = todo \ {f}
            /\ UNCHANGED <<status, faults>>
       ELSE \/ /\ Import(f[1])
               /\ todo' = todo \ {f}
               /\ \/ RemoveFile(f) /\ UNCHANGED faults
                  \/ Fault /\ UNCHANGED spoolVars
            \/ Fault /\ UNCHANGED <<status, todo, spoolVars>>
    /\ UNCHANGED <<known, proc, job, stops, handlerVars, replayVars, rpcFaults>>

\* The directory is synced once, after the pass; a failing sync is only logged.
FinishRecovery ==
    /\ proc = "recover" /\ todo = {}
    /\ proc' = "reclaim"
    /\ \/ /\ spool' = [b \in Blocks |-> IF spool[b] = "unlinked" THEN None ELSE spool[b]]
          /\ UNCHANGED faults
       \/ Fault /\ UNCHANGED spool
    /\ UNCHANGED <<dbVars, temp, known, job, todo, stops, handlerVars, replayVars,
                   rpcFaults>>

\* Mutation: interrupted rows keep their status.
ReclaimNothing ==
    /\ proc = "reclaim"
    /\ proc' = "up"
    /\ UNCHANGED <<dbVars, spoolVars, known, job, todo, stops, handlerVars,
                   replayVars, faults, rpcFaults>>

\* Rows left submitting by the previous process become pending; only then do
\* the replayer and the listeners start.
Reclaim ==
    /\ proc = "reclaim"
    /\ \/ /\ status' = [b \in Blocks |-> IF status[b] = "submitting" THEN "pending"
                                         ELSE status[b]]
          /\ proc' = "up"
          /\ UNCHANGED faults
       \/ Fault /\ UNCHANGED <<status, proc>>
    /\ UNCHANGED <<spoolVars, known, job, todo, stops, handlerVars, replayVars,
                   rpcFaults>>

Next ==
    \/ \E b \in Blocks : Find(b) \/ Handler(b) \/ BackoffOver(b)
    \/ ReplayScan \/ ReplayVisit
    \/ Crash \/ Shutdown \/ Exit \/ Start
    \/ \E f \in Files : RecoverFile(f)
    \/ FinishRecovery \/ Reclaim

Spec == Init /\ [][Next]_vars

(***************************************************************************)
(* Handlers and the replayer are goroutines the Go scheduler keeps running, *)
(* the ticker keeps firing, backoff delays end, and a stopped process is    *)
(* started again.  Nothing makes a miner find a block or a process stop.    *)
(***************************************************************************)
Fairness ==
    /\ \A b \in Blocks : WF_vars(Handler(b)) /\ WF_vars(BackoffOver(b))
    /\ WF_vars(ReplayScan) /\ WF_vars(ReplayVisit)
    /\ WF_vars(Exit) /\ WF_vars(Start)
    /\ WF_vars(\E f \in Files : RecoverFile(f))
    /\ WF_vars(FinishRecovery) /\ WF_vars(Reclaim)

FairSpec == Spec /\ Fairness

-----------------------------------------------------------------------------
TypeOK ==
    /\ status \in [Blocks -> RowStates]
    /\ spool \in [Blocks -> SpoolStates]
    /\ temp \in [Blocks -> TempStates]
    /\ known \subseteq Blocks
    /\ proc \in ProcStates
    /\ job \in [Blocks -> BOOLEAN]
    /\ todo \subseteq Files
    /\ hpc \in [Blocks -> HandlerStates]
    /\ persisted \in [Blocks -> BOOLEAN]
    /\ outcome \in [Blocks -> Outcomes]
    /\ finished \in [Blocks -> BOOLEAN]
    /\ reply \in [Blocks -> Outcomes]
    /\ rpc \in ReplayStates
    /\ batch \subseteq Blocks
    /\ item \in Blocks \cup {None}
    /\ rpc \in {"submit", "accepted", "failed", "deferred"} => item \in Blocks
    /\ backoff \in [Blocks -> BOOLEAN]
    /\ finds \in [Blocks -> 0..MaxFinds]
    /\ faults \in 0..MaxFaults
    /\ rpcFaults \in 0..MaxRpcFaults
    /\ stops \in 0..MaxStops
-----------------------------------------------------------------------------
(***************************************************************************)
(* Properties                                                              *)
(***************************************************************************)
\* The exact bytes of b survive any crash from here on.
OnDisk(b) == status[b] # None \/ spool[b] = "durable" \/ temp[b] = "kept"

\* A row marked submitted, and a positive answer to the miner, both mean that
\* bitcoind has processed the block: neither an inconclusive result, a rejection
\* nor a lost answer is ever taken for acceptance (miner_rpc.go:16-164,
\* pending_submissions.go:316-352).
AcceptedMeansKnown ==
    \A b \in Blocks : status[b] = "submitted" \/ reply[b] = "accepted" => b \in known

\* The block is on disk before submitblock is first attempted, unless SQLite and
\* the spool both failed (miner_submit_block.go:12-15, 130-159).
OnDiskBeforeRpc ==
    \A b \in Blocks : hpc[b] = "submit" /\ faults < 2 => OnDisk(b)

\* While the process runs, a row marked submitting is being worked on by a
\* handler or by the replayer: one failing write leaves no row where neither
\* looks for it (miner_submit_block.go:160-196, 220-236,
\* pending_submissions.go:304-314).
Working(b) ==
    \/ hpc[b] # "idle"
    \/ item = b /\ rpc \in {"submit", "accepted", "failed", "deferred"}
OneFaultStrandsNothing ==
    \A b \in Blocks :
        proc \in {"up", "draining"} /\ faults < 2 /\ status[b] = "submitting" => Working(b)

\* The handler and the replayer never submit the same block at the same time
\* (pending_submissions.go:293-303), as long as the share was submitted once.
SoleSubmitter ==
    \A b \in Blocks : finds[b] <= 1 => ~(hpc[b] = "submit" /\ rpc = "submit" /\ item = b)

\* A submitted row is never reopened: not by the other submitter's late outcome
\* and not by the import of a spool file that came back after a crash
\* (pending_submissions.go:415-444, pending_submission_spool.go:321-325); as
\* long as the share was submitted once.
SubmittedIsFinal ==
    [][\A b \in Blocks : status[b] = "submitted" /\ finds'[b] <= 1
                            => status'[b] = "submitted"]_vars

\* The same without the last condition: what the comment on
\* transitionPendingSubmissionStatus says of the initial submitter and the
\* replayer (pending_submissions.go:415-417).
TerminalStateKept ==
    [][\A b \in Blocks : status[b] = "submitted" => status'[b] = "submitted"]_vars

\* Where b is held, in the terms of BlockCustody.
Place(b) ==
    IF b \in known THEN "node"
    ELSE IF OnDisk(b) THEN "disk"
    ELSE IF hpc[b] # "idle" THEN "memory"
    ELSE IF finds[b] > 0 THEN "lost" ELSE "none"

Custody == [b \in Blocks |-> Place(b)]

Abstract == INSTANCE BlockCustody WITH custody <- Custody

\* handleBlockShare, the replayer and the start-up recovery keep the promise of
\* BlockCustody: a block that is on disk is never lost (miner_submit_block.go:21-301,
\* pending_submissions.go:199-355, pending_submission_spool.go:63-168, 211-347).
ImplementsCustody == Abstract!Spec

\* A block that is on disk is in the end taken by bitcoind and recorded as
\* submitted, whatever the crashes and lost answers, when bitcoind does not
\* reject it and no second storage fault hides it from the running process
\* (pending_submissions.go:119-162, pending_submission_spool.go:179-209).
OnDiskLeadsToSubmitted ==
    \A b \in Blocks \ InvalidBlocks : OnDisk(b) ~> status[b] = "submitted"
=============================================================================
