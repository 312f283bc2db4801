---------------------------- MODULE FoundBlockLog ----------------------------
(***************************************************************************)
(* The audit log of found blocks (found_block_async.go, logFoundBlock):    *)
(* a bounded queue that never delays the submitter, one goroutine that     *)
(* writes its entries to SQLite, and the barrier with which the shutdown   *)
(* sequence of main.go waits for them before it closes the database.       *)
(* Submitters are the connection handlers and the workers of the           *)
(* submission pool; shutdown stops the first, then drains the second.      *)
(***************************************************************************)
EXTENDS Integers, Sequences

CONSTANTS
    Handlers,      \* connections that submit inline
    PoolWorkers,   \* workers of the submission pool
    AuditRoom,     \* cap(foundBlockLogCh), 64 in the code
    MaxFound,      \* bound: found blocks
    MaxWriteFaults \* bound: inserts that fail

ASSUME AuditAssumption ==
    /\ Handlers \cap PoolWorkers = {}
    /\ AuditRoom \in Nat \ {0} /\ MaxFound \in Nat /\ MaxWriteFaults \in Nat

VARIABLES
    found,        \* accepted blocks so far; a block is its number
    logging,      \* per submitter: the block it has to log, 0 when it has none
    auditQueue,   \* foundBlockLogCh: block numbers, 0 is the barrier
    writing,      \* the entry the goroutine has taken, -1 when none
    written, skipped, writeFaults,
    poolTasks,    \* tasks queued for the submission pool
    stopping      \* the shutdown sequence: the step main is at

auditVars == <<found, logging, auditQueue, writing, written, skipped,
               writeFaults, poolTasks, stopping>>

Submitters == Handlers \cup PoolWorkers
Barrier == 0
HandlersServe == stopping \in {"running", "draining handlers"}
ShutdownSteps == {"running", "draining handlers", "draining pool",
                  "sending barrier", "waiting barrier", "closed"}

AuditInit ==
    /\ found = 0 /\ logging = [s \in Submitters |-> 0]
    /\ auditQueue = <<>> /\ writing = -1
    /\ written = {} /\ skipped = {} /\ writeFaults = 0
    /\ poolTasks = 0 /\ stopping = "running"

----------------------------------------------------------------------------
(* A handler's block is accepted inline, perhaps when the stop is already  *)
(* requested ...                                                           *)
HandlerFinds ==
    \E h \in Handlers :
        /\ HandlersServe /\ logging[h] = 0 /\ found + poolTasks < MaxFound
        /\ found' = found + 1 /\ logging' = [logging EXCEPT ![h] = found + 1]
        /\ UNCHANGED <<auditQueue, writing, written, skipped, writeFaults,
                       poolTasks, stopping>>

(* ... or becomes a task of the submission pool, which drainAndClose lets  *)
(* finish.                                                                 *)
HandOver ==
    /\ HandlersServe /\ Handlers # {} /\ found + poolTasks < MaxFound
    /\ poolTasks' = poolTasks + 1
    /\ UNCHANGED <<found, logging, auditQueue, writing, written, skipped,
                   writeFaults, stopping>>

WorkerFinds ==
    \E w \in PoolWorkers :
        /\ logging[w] = 0 /\ poolTasks > 0
        /\ poolTasks' = poolTasks - 1
        /\ found' = found + 1 /\ logging' = [logging EXCEPT ![w] = found + 1]
        /\ UNCHANGED <<auditQueue, writing, written, skipped, writeFaults, stopping>>

(* logFoundBlock: the entry is queued, or dropped when the queue is full.  *)
LogFoundBlock(s) ==
    /\ logging[s] # 0
    /\ logging' = [logging EXCEPT ![s] = 0]
    /\ IF Len(auditQueue) < AuditRoom
       THEN /\ auditQueue' = Append(auditQueue, logging[s]) /\ UNCHANGED skipped
       ELSE /\ skipped' = skipped \cup {logging[s]} /\ UNCHANGED auditQueue
    /\ UNCHANGED <<found, writing, written, writeFaults, poolTasks, stopping>>

----------------------------------------------------------------------------
(* startFoundBlockLogger: the goroutine takes an entry ...                 *)
TakeEntry ==
    /\ writing = -1 /\ auditQueue # <<>>
    /\ writing' = Head(auditQueue) /\ auditQueue' = Tail(auditQueue)
    /\ UNCHANGED <<found, logging, written, skipped, writeFaults, poolTasks, stopping>>

(* ... and inserts it while the database is open; a failed insert is only  *)
(* logged.                                                                 *)
InsertEntry ==
    /\ writing > 0 /\ stopping # "closed"
    /\ \/ /\ written' = written \cup {writing}
          /\ UNCHANGED <<skipped, writeFaults>>
       \/ /\ writeFaults < MaxWriteFaults
          /\ skipped' = skipped \cup {writing} /\ writeFaults' = writeFaults + 1
          /\ UNCHANGED written
    /\ writing' = -1
    /\ UNCHANGED <<found, logging, auditQueue, poolTasks, stopping>>

(* The barrier releases main.                                              *)
PassBarrier ==
    /\ writing = Barrier /\ stopping = "waiting barrier"
    /\ writing' = -1 /\ stopping' = "closed"
    /\ UNCHANGED <<found, logging, auditQueue, written, skipped, writeFaults, poolTasks>>

----------------------------------------------------------------------------
(* main's shutdown sequence: one step after the other.                     *)
BeginShutdown ==
    /\ stopping = "running" /\ stopping' = "draining handlers"
    /\ UNCHANGED <<found, logging, auditQueue, writing, written, skipped,
                   writeFaults, poolTasks>>

(* connWg.Wait(): no handler is serving, so none will log any more.        *)
HandlersDone ==
    /\ stopping = "draining handlers" /\ \A h \in Handlers : logging[h] = 0
    /\ stopping' = "draining pool"
    /\ UNCHANGED <<found, logging, auditQueue, writing, written, skipped,
                   writeFaults, poolTasks>>

(* Mutant: the pool is closed and not waited for.                          *)
PoolClosed ==
    /\ stopping = "draining pool"
    /\ stopping' = "sending barrier"
    /\ UNCHANGED <<found, logging, auditQueue, writing, written, skipped,
                   writeFaults, poolTasks>>

(* drainAndClose: the queued tasks and those under way are done.           *)
PoolDrained ==
    /\ stopping = "draining pool"
    /\ poolTasks = 0 /\ \A w \in PoolWorkers : logging[w] = 0
    /\ stopping' = "sending barrier"
    /\ UNCHANGED <<found, logging, auditQueue, writing, written, skipped,
                   writeFaults, poolTasks>>

(* drainFoundBlockLogger: the send blocks while the queue is full.         *)
SendBarrier ==
    /\ stopping = "sending barrier" /\ Len(auditQueue) < AuditRoom
    /\ auditQueue' = Append(auditQueue, Barrier) /\ stopping' = "waiting barrier"
    /\ UNCHANGED <<found, logging, writing, written, skipped, writeFaults, poolTasks>>

AuditNext ==
    \/ HandlerFinds \/ HandOver \/ WorkerFinds
    \/ \E s \in Submitters : LogFoundBlock(s)
    \/ TakeEntry \/ InsertEntry \/ PassBarrier
    \/ BeginShutdown \/ HandlersDone \/ PoolDrained \/ SendBarrier

AuditSpec == AuditInit /\ [][AuditNext]_auditVars

----------------------------------------------------------------------------
AuditTypeOK ==
    /\ found \in 0 .. MaxFound /\ logging \in [Submitters -> 0 .. MaxFound]
    /\ auditQueue \in Seq(0 .. MaxFound) /\ Len(auditQueue) <= AuditRoom
    /\ writing \in -1 .. MaxFound
    /\ written \subseteq 1 .. MaxFound /\ skipped \subseteq 1 .. MaxFound
    /\ writeFaults \in 0 .. MaxWriteFaults /\ poolTasks \in 0 .. MaxFound
    /\ stopping \in ShutdownSteps

(***************************************************************************)
(* When the database is closed, every block that was ever accepted has its *)
(* audit row, or was dropped for a reason the log names: the queue was     *)
(* full or the insert failed.  No row is written twice and nothing is left *)
(* in the queue (main.go 1027-1037, found_block_async.go 52-58).           *)
(***************************************************************************)
AuditComplete ==
    /\ written \cap skipped = {}
    /\ stopping = "closed" =>
          /\ written \cup skipped = 1 .. found
          /\ auditQueue = <<>> /\ writing = -1
=============================================================================
