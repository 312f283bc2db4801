----------------------- MODULE PendingSubmission_proofs -----------------------
(***************************************************************************)
(* Proofs about PendingSubmission for every set of blocks and every bound: *)
(* types, acceptance, the refinement of BlockCustody, and that a block is  *)
(* on disk before it is submitted, has one submitter at a time, stays      *)
(* submitted and is not stranded by a single fault.                        *)
(***************************************************************************)
EXTENDS PendingSubmission, TLAPS

\* Blocks are not strings of control: None is not one of them.
USE BlocksAssumption, BoundsAssumption

LEMMA TypeInit == Init => TypeOK
  BY DEF Init, TypeOK, RowStates, SpoolStates, TempStates, ProcStates, HandlerStates,
         ReplayStates, Outcomes, Files, None

LEMMA HandlerType ==
    ASSUME TypeOK, NEW b \in Blocks, Handler(b)
    PROVE  TypeOK'
<1> USE DEF TypeOK, HandlerGoto, dbVars, spoolVars, procVars, handlerVars, replayVars
<1>1. CASE Persist(b)
  BY <1>1 DEF Persist, Upsert, Fault, RowStates, HandlerStates
<1>2. CASE SpoolCreate(b)
  BY <1>2 DEF SpoolCreate, SpoolFails, SpoolUnchanged, Fault, TempStates, None, HandlerStates, AfterSpool
<1>3. CASE SpoolSync(b)
  BY <1>3 DEF SpoolSync, SpoolFails, SpoolUnchanged, Fault, TempStates, None, HandlerStates, AfterSpool
<1>4. CASE SpoolInstall(b)
  BY <1>4 DEF SpoolInstall, SpoolFails, SpoolUnchanged, Fault, SpoolStates, TempStates, None, HandlerStates, AfterSpool
<1>5. CASE SpoolSyncDir(b)
  BY <1>5 DEF SpoolSyncDir, SpoolUnchanged, Fault, SpoolStates, HandlerStates, AfterSpool
<1>6. CASE Submit(b)
  BY <1>6 DEF Submit, RpcAccept, RpcReject, RpcTimeout, RpcError, RpcInconclusive, RpcFault, Process,
              Return, Outcomes, None, HandlerStates
<1>7. CASE RecordFailed(b) \/ RecordAccepted(b)
  BY <1>7 DEF RecordFailed, RecordAccepted, Record, Transition, Fault, RowStates, HandlerStates
<1>8. CASE RecordFailedFallback(b) \/ RecordAcceptedFallback(b)
  BY <1>8 DEF RecordFailedFallback, RecordAcceptedFallback, RecordFallback, Upsert, Fault, RowStates, HandlerStates
<1>9. CASE LogFailed(b) \/ LogAccepted(b)
  BY <1>9 DEF LogFailed, LogAccepted, LogUnpersisted, Upsert, Fault, RowStates, HandlerStates
<1>10. CASE Unspool(b)
  BY <1>10 DEF Unspool, Removed, Fault, SpoolStates, None, HandlerStates
<1>11. CASE Respond(b)
  BY <1>11 DEF Respond, HandlerStates
<1>12. CASE Deferred(b)
  BY <1>12 DEF Deferred, Transition, Fault, RowStates, HandlerStates
<1> QED
  BY <1>1, <1>2, <1>3, <1>4, <1>5, <1>6, <1>7, <1>8, <1>9, <1>10, <1>11, <1>12 DEF Handler

LEMMA ReplayType ==
    ASSUME TypeOK, ReplayScan \/ ReplayVisit \/ \E b \in Blocks : BackoffOver(b)
    PROVE  TypeOK'
<1> USE DEF TypeOK, ReplayUnchanged, dbVars, spoolVars, procVars, handlerVars
<1>1. CASE ReplayScan
  BY <1>1 DEF ReplayScan, ReplayStates
<1>2. CASE ReplayClaim
  BY <1>2 DEF ReplayClaim, NextItem, Transition, Fault, RowStates, ReplayStates, None
<1>3. CASE ReplaySubmit
  BY <1>3 DEF ReplaySubmit, RpcAccept, RpcReject, RpcTimeout, RpcError, RpcInconclusive, RpcFault, Process,
              ReplayStates
<1>4. ASSUME NEW from \in {"accepted", "failed"}, NEW to \in RowStates, NEW delayed \in BOOLEAN,
             ReplayRecord(from, to, delayed)
      PROVE  TypeOK'
  <2>1. item \in Blocks
    BY <1>4 DEF ReplayRecord
  <2>2. PICK ok \in BOOLEAN : /\ Transition(item, "submitting", to, ok)
                             /\ IF ok THEN NextItem(batch)
                                      ELSE rpc' = "deferred" /\ UNCHANGED <<batch, item>>
    BY <1>4 DEF ReplayRecord
  <2>3. status' \in [Blocks -> RowStates] /\ faults' \in 0..MaxFaults
    BY <2>1, <2>2 DEF Transition, Fault
  <2>4. /\ rpc' \in ReplayStates /\ batch' \subseteq Blocks /\ item' \in Blocks \cup {None}
        /\ rpc' \in {"submit", "accepted", "failed", "deferred"} => item' \in Blocks
    BY <2>1, <2>2 DEF NextItem, ReplayStates
  <2> QED
    BY <1>4, <2>3, <2>4 DEF ReplayRecord
<1>5. CASE ReplayDeferred
  BY <1>5 DEF ReplayDeferred, NextItem, Transition, Fault, RowStates, ReplayStates, None
<1>6. CASE \E b \in Blocks : BackoffOver(b)
  BY <1>6 DEF BackoffOver
<1> QED
  BY <1>1, <1>2, <1>3, <1>4, <1>5, <1>6 DEF ReplayVisit, ReplayAccepted, ReplayFailed, RowStates

LEMMA ProcessType ==
    ASSUME TypeOK,
           \/ Crash \/ Shutdown \/ Exit \/ Start
           \/ \E f \in Files : RecoverFile(f)
           \/ FinishRecovery \/ Reclaim
           \/ \E b \in Blocks : Find(b)
    PROVE  TypeOK'
<1> USE DEF TypeOK, dbVars, spoolVars, procVars, handlerVars, replayVars
<1>1. CASE Crash
  BY <1>1 DEF Crash, ResetMemory, ProcStates, HandlerStates, ReplayStates, None, Files
<1>2. CASE Shutdown
  BY <1>2 DEF Shutdown, ProcStates
<1>3. CASE Exit
  BY <1>3 DEF Exit, ResetMemory, ProcStates, HandlerStates, ReplayStates, None, Files
<1>4. CASE Start
  BY <1>4 DEF Start, ProcStates, Files
<1>5. ASSUME NEW f \in Files, RecoverFile(f) PROVE TypeOK'
  <2>1. f[1] \in Blocks /\ f[2] \in {"json", "tmp"}
    BY DEF Files
  <2> QED
    BY <1>5, <2>1 DEF RecoverFile, RemoveFile, Import, Fault, RowStates, SpoolStates, TempStates, None
<1>6. CASE FinishRecovery
  BY <1>6 DEF FinishRecovery, Fault, SpoolStates, ProcStates, None
<1>7. CASE Reclaim
  BY <1>7 DEF Reclaim, Fault, RowStates, ProcStates
<1>8. ASSUME NEW b \in Blocks, Find(b) PROVE TypeOK'
  BY <1>8 DEF Find, HandlerGoto, HandlerStates, Outcomes, None
<1> QED
  BY <1>1, <1>2, <1>3, <1>4, <1>5, <1>6, <1>7, <1>8

\* Every variable keeps to its type: rows, files and control stay in the states
\* the code gives them, and the replayer has a row in hand whenever it submits
\* or records one.
THEOREM TypeCorrect == Spec => []TypeOK
<1>1. TypeOK /\ [Next]_vars => TypeOK'
  <2> SUFFICES ASSUME TypeOK, [Next]_vars PROVE TypeOK'
    OBVIOUS
  <2>1. CASE UNCHANGED vars
    BY <2>1 DEF vars, TypeOK
  <2>2. CASE Next
    BY <2>2, HandlerType, ReplayType, ProcessType DEF Next
  <2> QED
    BY <2>1, <2>2
<1> QED
  BY <1>1, TypeInit, PTL DEF Spec

-----------------------------------------------------------------------------
(***************************************************************************)
(* Acceptance.  AcceptedMeansKnown is not inductive: the row is written a   *)
(* step after the answer, so the strengthening also follows the answer      *)
(* through the local state of the handler and of the replayer.              *)
(***************************************************************************)
HandlerKnows ==
    \A b \in Blocks :
        \/ hpc[b] \in {"accepted", "acceptedFallback", "acceptedLog"}
        \/ outcome[b] = "accepted"
        => b \in known

ReplayerKnows == rpc = "accepted" => item \in known

AcceptanceInv == TypeOK /\ AcceptedMeansKnown /\ HandlerKnows /\ ReplayerKnows

\* Nothing makes bitcoind forget a block.
LEMMA KnownGrows ==
    ASSUME Next
    PROVE  known \subseteq known'
<1> USE DEF dbVars, spoolVars, procVars, handlerVars, replayVars
<1>1. ASSUME NEW b \in Blocks, Handler(b) \/ Find(b) \/ BackoffOver(b) PROVE known \subseteq known'
  BY <1>1 DEF Handler, Find, BackoffOver, Persist, SpoolCreate, SpoolSync, SpoolInstall, SpoolSyncDir,
     SpoolUnchanged, Submit, RpcAccept, RpcReject, RpcTimeout, RpcError, RpcInconclusive, Process,
     RecordFailed, RecordAccepted, Record, RecordFailedFallback, RecordAcceptedFallback, RecordFallback,
     LogFailed, LogAccepted, LogUnpersisted, Unspool, Respond, Deferred
<1>2. CASE ReplayScan \/ ReplayVisit
  BY <1>2 DEF ReplayScan, ReplayVisit, ReplayClaim, ReplaySubmit, RpcAccept, RpcReject, RpcTimeout,
     RpcError, RpcInconclusive, Process, ReplayAccepted, ReplayFailed, ReplayRecord, ReplayDeferred
<1>3. CASE Crash \/ Shutdown \/ Exit \/ Start \/ (\E f \in Files : RecoverFile(f)) \/ FinishRecovery \/ Reclaim
  BY <1>3 DEF Crash, Shutdown, Exit, Start, RecoverFile, FinishRecovery, Reclaim
<1> QED
  BY <1>1, <1>2, <1>3 DEF Next

\* A handler step keeps the strengthening: only an accepting Submit makes the
\* handler believe in acceptance, and it then holds of bitcoind.
LEMMA HandlerAcceptance ==
    ASSUME AcceptanceInv, TypeOK', NEW b \in Blocks, Handler(b), known \subseteq known'
    PROVE  AcceptedMeansKnown' /\ HandlerKnows' /\ ReplayerKnows'
<1> USE DEF AcceptanceInv, AcceptedMeansKnown, HandlerKnows, ReplayerKnows, TypeOK, HandlerGoto, dbVars,
        spoolVars, procVars, handlerVars, replayVars
<1>1. CASE Persist(b)
  BY <1>1 DEF Persist, Upsert
<1>2. CASE SpoolCreate(b) \/ SpoolSync(b) \/ SpoolInstall(b) \/ SpoolSyncDir(b)
  BY <1>2 DEF SpoolCreate, SpoolSync, SpoolInstall, SpoolSyncDir, SpoolFails, SpoolUnchanged, AfterSpool
<1>3. CASE Submit(b)
  <2>1. PICK o \in Outcomes : Return(b, o) /\ (o = "accepted" => b \in known')
    BY <1>3 DEF Submit, RpcAccept, Process, Outcomes, None
  <2> QED
    BY <1>3, <2>1 DEF Submit, Return, Outcomes
<1>4. CASE RecordFailed(b) \/ RecordAccepted(b)
  BY <1>4 DEF RecordFailed, RecordAccepted, Record, Transition
<1>5. CASE RecordFailedFallback(b) \/ RecordAcceptedFallback(b)
  BY <1>5 DEF RecordFailedFallback, RecordAcceptedFallback, RecordFallback, Upsert
<1>6. CASE LogFailed(b) \/ LogAccepted(b)
  BY <1>6 DEF LogFailed, LogAccepted, LogUnpersisted, Upsert
<1>7. CASE Unspool(b)
  BY <1>7 DEF Unspool
<1>8. CASE Respond(b)
  BY <1>8 DEF Respond
<1>9. CASE Deferred(b)
  BY <1>9 DEF Deferred, Transition
<1> QED
  BY <1>1, <1>2, <1>3, <1>4, <1>5, <1>6, <1>7, <1>8, <1>9 DEF Handler

LEMMA ReplayAcceptance ==
    ASSUME AcceptanceInv, TypeOK', known \subseteq known',
           ReplayScan \/ ReplayVisit \/ \E b \in Blocks : BackoffOver(b)
    PROVE  AcceptedMeansKnown' /\ HandlerKnows' /\ ReplayerKnows'
<1> USE DEF AcceptanceInv, AcceptedMeansKnown, HandlerKnows, ReplayerKnows, TypeOK, ReplayUnchanged,
        dbVars, spoolVars, procVars, handlerVars
<1>1. CASE ReplayScan
  BY <1>1 DEF ReplayScan
<1>2. CASE ReplayClaim
  BY <1>2 DEF ReplayClaim, NextItem, Transition
<1>3. CASE ReplaySubmit
  BY <1>3 DEF ReplaySubmit, RpcAccept, Process
<1>4. CASE ReplayAccepted
  BY <1>4 DEF ReplayAccepted, ReplayRecord, NextItem, Transition
<1>5. CASE ReplayFailed
  BY <1>5 DEF ReplayFailed, ReplayRecord, NextItem, Transition
<1>6. CASE ReplayDeferred
  BY <1>6 DEF ReplayDeferred, NextItem, Transition
<1>7. CASE \E b \in Blocks : BackoffOver(b)
  BY <1>7 DEF BackoffOver
<1> QED
  BY <1>1, <1>2, <1>3, <1>4, <1>5, <1>6, <1>7 DEF ReplayVisit

LEMMA ProcessAcceptance ==
    ASSUME AcceptanceInv, TypeOK', known \subseteq known',
           \/ Crash \/ Shutdown \/ Exit \/ Start
           \/ \E f \in Files : RecoverFile(f)
           \/ FinishRecovery \/ Reclaim
           \/ \E b \in Blocks : Find(b)
    PROVE  AcceptedMeansKnown' /\ HandlerKnows' /\ ReplayerKnows'
<1> USE DEF AcceptanceInv, AcceptedMeansKnown, HandlerKnows, ReplayerKnows, TypeOK, dbVars, spoolVars,
        procVars, handlerVars, replayVars
<1>1. CASE Crash \/ Shutdown \/ Exit \/ Start
  BY <1>1 DEF Crash, Shutdown, Exit, Start, ResetMemory
<1>2. ASSUME NEW f \in Files, RecoverFile(f) PROVE AcceptedMeansKnown' /\ HandlerKnows' /\ ReplayerKnows'
  <2>1. f[1] \in Blocks
    BY DEF Files
  <2> QED
    BY <1>2, <2>1 DEF RecoverFile, Import
<1>3. CASE FinishRecovery \/ Reclaim
  BY <1>3 DEF FinishRecovery, Reclaim
<1>4. ASSUME NEW b \in Blocks, Find(b) PROVE AcceptedMeansKnown' /\ HandlerKnows' /\ ReplayerKnows'
  BY <1>4 DEF Find, HandlerGoto, None
<1> QED
  BY <1>1, <1>2, <1>3, <1>4

\* No row is ever marked submitted, and no miner is ever told its block was
\* accepted, before bitcoind has processed the block, for every number of
\* blocks, faults, lost answers, retransmissions and crashes.
THEOREM AcceptanceCorrect == Spec => []AcceptedMeansKnown
<1>1. Init => AcceptanceInv
  BY TypeInit DEF Init, AcceptanceInv, AcceptedMeansKnown, HandlerKnows, ReplayerKnows, None
<1>2. AcceptanceInv /\ [Next]_vars => AcceptanceInv'
  <2> SUFFICES ASSUME AcceptanceInv, [Next]_vars PROVE AcceptanceInv'
    OBVIOUS
  <2>1. CASE UNCHANGED vars
    BY <2>1 DEF vars, AcceptanceInv, TypeOK, AcceptedMeansKnown, HandlerKnows, ReplayerKnows
  <2>2. CASE Next
    <3>1. TypeOK'
      BY <2>2, HandlerType, ReplayType, ProcessType DEF Next, AcceptanceInv
    <3> QED
      BY <2>2, <3>1, KnownGrows, HandlerAcceptance, ReplayAcceptance, ProcessAcceptance
      DEF Next, AcceptanceInv
  <2> QED
    BY <2>1, <2>2
<1>3. AcceptanceInv => AcceptedMeansKnown
  BY DEF AcceptanceInv
<1> QED
  BY <1>1, <1>2, <1>3, PTL DEF Spec

-----------------------------------------------------------------------------
(***************************************************************************)
(* Refinement of BlockCustody.  The strengthening says why a spool file can *)
(* be removed (its block has a row), and that files and control belong to   *)
(* blocks that were found, the files a crash left to blocks whose job is    *)
(* gone.                                                                    *)
(***************************************************************************)
CustodyOf(b) ==
    /\ hpc[b] = "unspool" => status[b] # None
    /\ hpc[b] # "idle" => job[b] /\ finds[b] > 0
    /\ temp[b] = "kept" => ~job[b]
    /\ temp[b] # None \/ spool[b] # None => finds[b] > 0

ReplayerHasRow == rpc = "submit" => status[item] # None

ListedWereFound == \A f \in todo : finds[f[1]] > 0

CustodyInv == TypeOK /\ (\A b \in Blocks : CustodyOf(b)) /\ ReplayerHasRow /\ ListedWereFound

\* A row is never deleted.
RowsStay == \A b \in Blocks : status[b] # None => status'[b] # None

LEMMA HandlerCustody ==
    ASSUME CustodyInv, TypeOK', NEW b \in Blocks, Handler(b)
    PROVE  /\ \A c \in Blocks : CustodyOf(c)'
           /\ ReplayerHasRow' /\ ListedWereFound'
           /\ RowsStay
<1> USE DEF CustodyInv, CustodyOf, ReplayerHasRow, ListedWereFound, RowsStay, TypeOK, HandlerGoto, dbVars, spoolVars,
        procVars, handlerVars, replayVars, None
<1>1. CASE Persist(b)
  BY <1>1 DEF Persist, Upsert
<1>2. CASE SpoolCreate(b)
  BY <1>2 DEF SpoolCreate, SpoolFails, SpoolUnchanged, AfterSpool
<1>3. CASE SpoolSync(b)
  BY <1>3 DEF SpoolSync, SpoolFails, SpoolUnchanged, AfterSpool
<1>4. CASE SpoolInstall(b)
  BY <1>4 DEF SpoolInstall, SpoolFails, SpoolUnchanged, AfterSpool
<1>5. CASE SpoolSyncDir(b)
  BY <1>5 DEF SpoolSyncDir, SpoolUnchanged, AfterSpool
<1>6. CASE Submit(b)
  <2>1. PICK o \in Outcomes : Return(b, o)
    BY <1>6 DEF Submit, Outcomes
  <2> QED
    BY <1>6, <2>1 DEF Submit, Return, Outcomes
<1>7. CASE RecordFailed(b) \/ RecordAccepted(b)
  BY <1>7 DEF RecordFailed, RecordAccepted, Record, Transition
<1>8. CASE RecordFailedFallback(b) \/ RecordAcceptedFallback(b)
  BY <1>8 DEF RecordFailedFallback, RecordAcceptedFallback, RecordFallback, Upsert
<1>9. CASE LogFailed(b) \/ LogAccepted(b)
  BY <1>9 DEF LogFailed, LogAccepted, LogUnpersisted, Upsert
<1>10. CASE Unspool(b)
  BY <1>10 DEF Unspool, Removed
<1>11. CASE Respond(b)
  BY <1>11 DEF Respond
<1>12. CASE Deferred(b)
  BY <1>12 DEF Deferred, Transition
<1> QED
  BY <1>1, <1>2, <1>3, <1>4, <1>5, <1>6, <1>7, <1>8, <1>9, <1>10, <1>11, <1>12 DEF Handler

LEMMA ReplayCustody ==
    ASSUME CustodyInv, TypeOK', ReplayScan \/ ReplayVisit \/ \E b \in Blocks : BackoffOver(b)
    PROVE  /\ \A c \in Blocks : CustodyOf(c)'
           /\ ReplayerHasRow' /\ ListedWereFound'
           /\ RowsStay
<1> USE DEF CustodyInv, CustodyOf, ReplayerHasRow, ListedWereFound, RowsStay, TypeOK, ReplayUnchanged, dbVars, spoolVars,
        procVars, handlerVars, None
<1>1. CASE ReplayScan
  BY <1>1 DEF ReplayScan
<1>2. CASE ReplayClaim
  BY <1>2 DEF ReplayClaim, NextItem, Transition
<1>3. CASE ReplaySubmit
  BY <1>3 DEF ReplaySubmit
<1>4. CASE ReplayAccepted
  BY <1>4 DEF ReplayAccepted, ReplayRecord, NextItem, Transition
<1>5. CASE ReplayFailed
  BY <1>5 DEF ReplayFailed, ReplayRecord, NextItem, Transition
<1>6. CASE ReplayDeferred
  BY <1>6 DEF ReplayDeferred, NextItem, Transition
<1>7. CASE \E b \in Blocks : BackoffOver(b)
  BY <1>7 DEF BackoffOver
<1> QED
  BY <1>1, <1>2, <1>3, <1>4, <1>5, <1>6, <1>7 DEF ReplayVisit

LEMMA ProcessCustody ==
    ASSUME CustodyInv, TypeOK',
           \/ Crash \/ Shutdown \/ Exit \/ Start
           \/ \E f \in Files : RecoverFile(f)
           \/ FinishRecovery \/ Reclaim
           \/ \E b \in Blocks : Find(b)
    PROVE  /\ \A c \in Blocks : CustodyOf(c)'
           /\ ReplayerHasRow' /\ ListedWereFound'
           /\ RowsStay
<1> DEFINE Goal == (\A c \in Blocks : CustodyOf(c)') /\ ReplayerHasRow' /\ ListedWereFound' /\ RowsStay
<1> USE DEF CustodyInv, CustodyOf, ReplayerHasRow, ListedWereFound, RowsStay, TypeOK, dbVars, spoolVars, procVars,
        handlerVars, replayVars, None
<1>1. CASE Crash
  BY <1>1 DEF Crash, ResetMemory, CrashFiles, CrashTemp, CrashSpool
<1>2. CASE Shutdown \/ Exit
  BY <1>2 DEF Shutdown, Exit, ResetMemory
<1>7. CASE Start
  <2>1. \A f \in Files : f[1] \in Blocks /\ (Present(f) => finds[f[1]] > 0)
    BY DEF Files, Present
  <2> QED
    BY <1>7, <2>1 DEF Start
<1>3. ASSUME NEW f \in Files, RecoverFile(f) PROVE Goal
  <2>1. f[1] \in Blocks
    BY DEF Files
  <2>2. finds[f[1]] > 0
    BY <1>3 DEF RecoverFile
  <2> QED
    BY <1>3, <2>1, <2>2 DEF RecoverFile, RemoveFile, Import
<1>4. CASE FinishRecovery
  BY <1>4 DEF FinishRecovery
<1>5. CASE Reclaim
  BY <1>5 DEF Reclaim
<1>6. ASSUME NEW b \in Blocks, Find(b) PROVE Goal
  BY <1>6 DEF Find, HandlerGoto
<1> QED
  BY <1>1, <1>2, <1>3, <1>4, <1>5, <1>6, <1>7

-----------------------------------------------------------------------------
\* The moves of a single block that BlockCustody allows.
Moves(b) ==
    \/ Place(b)' = Place(b)
    \/ Place(b) \in {"none", "lost"} /\ Place(b)' = "memory"
    \/ Place(b) \in {"memory", "lost"} /\ Place(b)' = "disk"
    \/ Place(b) \in {"memory", "disk"} /\ Place(b)' = "node"
    \/ Place(b) = "memory" /\ Place(b)' = "lost"

OnlyMoves(b) == Moves(b) /\ \A c \in Blocks \ {b} : Place(c)' = Place(c)

LEMMA MoveIsAbstract ==
    ASSUME NEW b \in Blocks, OnlyMoves(b)
    PROVE  [Abstract!Next]_Custody
<1> DEFINE old == Custody
           new == Custody'
<1>1. old = [c \in Blocks |-> Place(c)] /\ new = [c \in Blocks |-> Place(c)']
  BY DEF Custody
<1>2. new = [old EXCEPT ![b] = Place(b)'] /\ old[b] = Place(b)
  BY <1>1 DEF OnlyMoves
<1>3. CASE Place(b)' = Place(b)
  <2>1. new = old
    BY <1>1, <1>2, <1>3
  <2> QED
    BY <2>1
<1>4. CASE Place(b) \in {"none", "lost"} /\ Place(b)' = "memory"
  BY <1>2, <1>4 DEF Abstract!Next, Abstract!Solve, Abstract!Move
<1>5. CASE Place(b) \in {"memory", "lost"} /\ Place(b)' = "disk"
  BY <1>2, <1>5 DEF Abstract!Next, Abstract!Preserve, Abstract!Move
<1>6. CASE Place(b) \in {"memory", "disk"} /\ Place(b)' = "node"
  BY <1>2, <1>6 DEF Abstract!Next, Abstract!Deliver, Abstract!Move
<1>7. CASE Place(b) = "memory" /\ Place(b)' = "lost"
  BY <1>2, <1>7 DEF Abstract!Next, Abstract!Lose, Abstract!Move
<1> QED
  BY <1>3, <1>4, <1>5, <1>6, <1>7 DEF OnlyMoves, Moves

LEMMA HandlerMoves ==
    ASSUME CustodyInv, TypeOK', NEW b \in Blocks, Handler(b)
    PROVE  OnlyMoves(b)
<1> USE DEF CustodyInv, CustodyOf, TypeOK, OnlyMoves, Moves, Place, OnDisk, HandlerGoto, dbVars, spoolVars,
        procVars, handlerVars, replayVars, None
<1>1. CASE Persist(b)
  BY <1>1 DEF Persist, Upsert
<1>2. CASE SpoolCreate(b)
  BY <1>2 DEF SpoolCreate, SpoolFails, SpoolUnchanged, AfterSpool
<1>3. CASE SpoolSync(b)
  BY <1>3 DEF SpoolSync, SpoolFails, SpoolUnchanged, AfterSpool
<1>4. CASE SpoolInstall(b)
  BY <1>4 DEF SpoolInstall, SpoolFails, SpoolUnchanged, AfterSpool
<1>5. CASE SpoolSyncDir(b)
  BY <1>5 DEF SpoolSyncDir, SpoolUnchanged, AfterSpool
<1>6. CASE Submit(b)
  <2>1. PICK o \in Outcomes : Return(b, o)
    BY <1>6 DEF Submit, Outcomes
  <2>2. hpc'[b] # "idle" /\ \A c \in Blocks \ {b} : hpc'[c] = hpc[c]
    BY <2>1 DEF Return
  <2>3. known' = known \/ known' = known \cup {b}
    BY <1>6 DEF Submit, RpcAccept, RpcReject, RpcTimeout, RpcError, RpcInconclusive, Process
  <2>4. UNCHANGED <<status, spool, temp, finds>> /\ hpc[b] # "idle"
    BY <1>6 DEF Submit
  <2> QED
    BY <2>2, <2>3, <2>4
<1>7. CASE RecordFailed(b) \/ RecordAccepted(b)
  BY <1>7 DEF RecordFailed, RecordAccepted, Record, Transition
<1>8. CASE RecordFailedFallback(b) \/ RecordAcceptedFallback(b)
  BY <1>8 DEF RecordFailedFallback, RecordAcceptedFallback, RecordFallback, Upsert
<1>9. CASE LogFailed(b) \/ LogAccepted(b)
  BY <1>9 DEF LogFailed, LogAccepted, LogUnpersisted, Upsert
<1>10. CASE Unspool(b)
  BY <1>10 DEF Unspool, Removed
<1>11. CASE Respond(b)
  BY <1>11 DEF Respond
<1>12. CASE Deferred(b)
  BY <1>12 DEF Deferred, Transition
<1> QED
  BY <1>1, <1>2, <1>3, <1>4, <1>5, <1>6, <1>7, <1>8, <1>9, <1>10, <1>11, <1>12 DEF Handler

LEMMA ReplayMoves ==
    ASSUME CustodyInv, TypeOK', ReplayScan \/ ReplayVisit \/ \E b \in Blocks : BackoffOver(b)
    PROVE  \/ \A c \in Blocks : Place(c)' = Place(c)
           \/ \E b \in Blocks : OnlyMoves(b)
<1> USE DEF CustodyInv, CustodyOf, ReplayerHasRow, TypeOK, Place, OnDisk, ReplayUnchanged, dbVars, spoolVars,
        procVars, handlerVars, None
<1>1. CASE ReplayScan
  BY <1>1 DEF ReplayScan
<1>2. CASE ReplayClaim
  BY <1>2 DEF ReplayClaim, NextItem, Transition
<1>3. CASE ReplaySubmit
  <2>1. known' = known \/ known' = known \cup {item}
    BY <1>3 DEF ReplaySubmit, RpcAccept, RpcReject, RpcTimeout, RpcError, RpcInconclusive, Process
  <2>2. UNCHANGED <<status, spool, temp, finds, hpc>> /\ status[item] # None /\ item \in Blocks
    BY <1>3 DEF ReplaySubmit
  <2>3. PICK b \in Blocks : b = item
    BY <2>2
  <2>4. OnlyMoves(b)
    BY <2>1, <2>2, <2>3 DEF OnlyMoves, Moves
  <2> QED
    BY <2>4
<1>4. CASE ReplayAccepted
  BY <1>4 DEF ReplayAccepted, ReplayRecord, NextItem, Transition
<1>5. CASE ReplayFailed
  BY <1>5 DEF ReplayFailed, ReplayRecord, NextItem, Transition
<1>6. CASE ReplayDeferred
  BY <1>6 DEF ReplayDeferred, NextItem, Transition
<1>7. CASE \E b \in Blocks : BackoffOver(b)
  BY <1>7 DEF BackoffOver
<1> QED
  BY <1>1, <1>2, <1>3, <1>4, <1>5, <1>6, <1>7 DEF ReplayVisit

\* A crash moves many blocks at once: BlockCustody's Stop.
LEMMA CrashMoves ==
    ASSUME CustodyInv, TypeOK', Crash
    PROVE  [Abstract!Next]_Custody
<1> DEFINE B == {b \in Blocks : Place(b) \in {"memory", "lost"}}
           kept == {b \in B : Place(b)' = "disk"}
<1>1. \A b \in Blocks : IF Place(b) \in {"memory", "lost"} THEN Place(b)' \in {"disk", "lost"}
                                                         ELSE Place(b)' = Place(b)
  BY DEF Crash, ResetMemory, CrashFiles, CrashTemp, CrashSpool, CustodyInv, CustodyOf, TypeOK, Place,
         OnDisk, dbVars, None
<1>2. /\ Custody' = [b \in Blocks |-> Place(b)']
      /\ \A b \in Blocks : Custody[b] = Place(b)
  BY DEF Custody
<1>3. Abstract!Stop(B, kept)
  <2>1. Custody' = [b \in Blocks |-> IF b \in kept THEN "disk" ELSE IF b \in B THEN "lost" ELSE Custody[b]]
    BY <1>1, <1>2
  <2> QED
    BY <1>2, <2>1 DEF Abstract!Stop
<1>4. B \in SUBSET Blocks /\ kept \in SUBSET B
  OBVIOUS
<1> QED
  BY <1>3, <1>4 DEF Abstract!Next

LEMMA ProcessMoves ==
    ASSUME CustodyInv, TypeOK',
           \/ Shutdown \/ Exit \/ Start
           \/ \E f \in Files : RecoverFile(f)
           \/ FinishRecovery \/ Reclaim
           \/ \E b \in Blocks : Find(b)
    PROVE  \/ \A c \in Blocks : Place(c)' = Place(c)
           \/ \E b \in Blocks : OnlyMoves(b)
<1> USE DEF CustodyInv, CustodyOf, ListedWereFound, TypeOK, Place, OnDisk, dbVars, spoolVars, procVars,
        handlerVars, replayVars, None
<1>1. CASE Shutdown \/ Exit \/ Start
  BY <1>1 DEF Shutdown, Exit, Start, ResetMemory
<1>2. ASSUME NEW f \in Files, RecoverFile(f) PROVE \E b \in Blocks : OnlyMoves(b)
  <2>1. f[1] \in Blocks /\ finds[f[1]] > 0
    BY <1>2 DEF Files, RecoverFile
  <2>2. OnlyMoves(f[1])
    BY <1>2, <2>1 DEF RecoverFile, RemoveFile, Import, OnlyMoves, Moves
  <2> QED
    BY <2>1, <2>2
<1>3. CASE FinishRecovery
  BY <1>3 DEF FinishRecovery
<1>4. CASE Reclaim
  BY <1>4 DEF Reclaim
<1>5. ASSUME NEW b \in Blocks, Find(b) PROVE OnlyMoves(b)
  BY <1>5 DEF Find, HandlerGoto, OnlyMoves, Moves
<1> QED
  BY <1>1, <1>2, <1>3, <1>4, <1>5

LEMMA StillIsAbstract ==
    ASSUME \A c \in Blocks : Place(c)' = Place(c)
    PROVE  [Abstract!Next]_Custody
<1>1. Custody' = Custody
  BY DEF Custody
<1> QED
  BY <1>1

\* handleBlockShare, the spool, the replayer and the start-up recovery together
\* implement BlockCustody: from the moment the bytes of a solved block are on
\* disk, no failing write, crash, retransmission or race of the two submitters
\* ever leaves it neither on disk nor with bitcoind.
THEOREM Refines == Spec => ImplementsCustody
<1>1. Init => CustodyInv /\ Abstract!Init
  <2> SUFFICES ASSUME Init PROVE CustodyInv /\ Abstract!Init
    OBVIOUS
  <2>1. CustodyInv
    BY TypeInit DEF Init, CustodyInv, CustodyOf, ReplayerHasRow, ListedWereFound, None
  <2>2. Custody = [b \in Blocks |-> "none"]
    BY DEF Init, Custody, Place, OnDisk, None
  <2> QED
    BY <2>1, <2>2 DEF Abstract!Init
<1>2. CustodyInv /\ [Next]_vars => CustodyInv' /\ [Abstract!Next]_Custody
  <2> SUFFICES ASSUME CustodyInv, [Next]_vars PROVE CustodyInv' /\ [Abstract!Next]_Custody
    OBVIOUS
  <2>1. CASE UNCHANGED vars
    <3>1. \A c \in Blocks : Place(c)' = Place(c)
      BY <2>1 DEF vars, Place, OnDisk
    <3>2. CustodyInv'
      BY <2>1 DEF vars, CustodyInv, CustodyOf, TypeOK, ReplayerHasRow, ListedWereFound
    <3> QED
      BY <3>1, <3>2, StillIsAbstract
  <2>2. CASE Next
    <3>1. TypeOK'
      BY <2>2, HandlerType, ReplayType, ProcessType DEF Next, CustodyInv
    <3>2. CustodyInv'
      BY <2>2, <3>1, HandlerCustody, ReplayCustody, ProcessCustody DEF Next, CustodyInv
    <3>3. [Abstract!Next]_Custody
      BY <2>2, <3>1, HandlerMoves, ReplayMoves, ProcessMoves, CrashMoves, MoveIsAbstract, StillIsAbstract
      DEF Next
    <3> QED
      BY <3>2, <3>3
  <2> QED
    BY <2>1, <2>2
<1> QED
  BY <1>1, <1>2, PTL DEF Spec, ImplementsCustody, Abstract!Spec

-----------------------------------------------------------------------------
(***************************************************************************)
(* The remaining safety properties.  Handlers and the replayer run only     *)
(* while the process serves, and a block that is submitted although its     *)
(* first write failed has been through the spool.                           *)
(***************************************************************************)
Serving == proc \in {"up", "draining"}
Spooling == {"create", "sync", "install", "syncdir"}
Logging == {"failedLog", "acceptedLog"}
Recording == {"failed", "failedFallback", "accepted", "acceptedFallback"}
Unrecorded == {"persist", "submit"} \cup Spooling \cup Logging \cup Recording

SavedOf(b) ==
    /\ hpc[b] # "idle" => Serving
    /\ hpc[b] \in Spooling /\ outcome[b] = None => faults >= 1
    /\ hpc[b] = "submit" => faults >= 2 \/ status[b] # None \/ spool[b] = "durable"

ReplayerServes == rpc # "idle" => Serving

SavedInv == CustodyInv /\ ReplayerServes /\ \A b \in Blocks : SavedOf(b)

\* Of a share that was submitted once, the row is the handler's until its outcome
\* is recorded: the replayer claims pending rows only.
ReplayWorks(b) == item = b /\ rpc \in {"submit", "accepted", "failed", "deferred"}

SoleOf(b) ==
    /\ finds[b] = 0 => status[b] = None
    /\ ReplayWorks(b) => finds[b] > 0
    /\ finds[b] <= 1 /\ hpc[b] \in Unrecorded =>
          status[b] \in {None, "submitting"} /\ ~ReplayWorks(b)

SoleInv == SavedInv /\ \A b \in Blocks : SoleOf(b)

\* Who will take a row out of submitting, and the faults it takes to stop them.
Owner(b) ==
    \/ hpc[b] \in Unrecorded \ {"persist"}
    \/ hpc[b] \in {"respond", "deferred"} /\ persisted[b] /\ ~finished[b]

StrandOf(b) ==
    /\ Serving /\ faults < 2 /\ status[b] = "submitting" => ReplayWorks(b) \/ Owner(b)
    /\ hpc[b] \in Recording => persisted[b]
    /\ hpc[b] \in Spooling \cup Logging => ~persisted[b] /\ faults >= 1
    /\ hpc[b] = "submit" /\ ~persisted[b] => faults >= 1
    /\ hpc[b] = "unspool" => ~persisted[b]
    /\ hpc[b] \in {"respond", "deferred"} /\ persisted[b] /\ ~finished[b] => faults >= 1
    /\ rpc = "deferred" /\ item = b /\ status[b] = "submitting" => faults >= 1 \/ Owner(b)

StrandInv == SavedInv /\ \A b \in Blocks : StrandOf(b)

\* A handler leaves the other blocks and the other processes alone.
LEMMA HandlerFrame ==
    ASSUME TypeOK, NEW b \in Blocks, Handler(b)
    PROVE  /\ UNCHANGED <<proc, rpc, item, todo, finds>>
           /\ faults' >= faults /\ faults' \in Nat /\ faults \in Nat
           /\ \A c \in Blocks \ {b} :
                 /\ status'[c] = status[c] /\ spool'[c] = spool[c] /\ hpc'[c] = hpc[c]
                 /\ persisted'[c] = persisted[c] /\ outcome'[c] = outcome[c]
                 /\ finished'[c] = finished[c]
<1> USE DEF TypeOK, HandlerGoto, dbVars, spoolVars, procVars, handlerVars, replayVars, Fault
<1>1. CASE Persist(b)
  BY <1>1 DEF Persist, Upsert
<1>2. CASE SpoolCreate(b) \/ SpoolSync(b)
  BY <1>2 DEF SpoolCreate, SpoolSync, SpoolFails, SpoolUnchanged
<1>3. CASE SpoolInstall(b) \/ SpoolSyncDir(b)
  BY <1>3 DEF SpoolInstall, SpoolSyncDir, SpoolFails, SpoolUnchanged
<1>4. CASE Submit(b)
  <2>1. PICK o \in Outcomes : Return(b, o)
    BY <1>4 DEF Submit, Outcomes
  <2> QED
    BY <1>4, <2>1 DEF Submit, Return
<1>5. CASE RecordFailed(b) \/ RecordAccepted(b)
  BY <1>5 DEF RecordFailed, RecordAccepted, Record, Transition
<1>6. CASE RecordFailedFallback(b) \/ RecordAcceptedFallback(b)
  BY <1>6 DEF RecordFailedFallback, RecordAcceptedFallback, RecordFallback, Upsert
<1>7. CASE LogFailed(b) \/ LogAccepted(b)
  BY <1>7 DEF LogFailed, LogAccepted, LogUnpersisted, Upsert
<1>8. CASE Unspool(b) \/ Respond(b)
  BY <1>8 DEF Unspool, Respond
<1>9. CASE Deferred(b)
  BY <1>9 DEF Deferred, Transition
<1> QED
  BY <1>1, <1>2, <1>3, <1>4, <1>5, <1>6, <1>7, <1>8, <1>9 DEF Handler

\* The replayer leaves the handlers alone, and every block but the one it visits.
LEMMA ReplayFrame ==
    ASSUME TypeOK, ReplayScan \/ ReplayVisit \/ \E b \in Blocks : BackoffOver(b)
    PROVE  /\ UNCHANGED <<proc, todo, spool, temp, hpc, persisted, outcome, finished, finds>>
           /\ faults' >= faults /\ faults' \in Nat /\ faults \in Nat
           /\ \A c \in Blocks : status'[c] # status[c] =>
                 \/ status[c] = "pending" /\ status'[c] = "submitting"
                    /\ item' = c /\ rpc' = "submit"
                 \/ status[c] = "submitting" /\ status'[c] \in {"pending", "submitted"}
                    /\ ReplayWorks(c)
<1> USE DEF TypeOK, ReplayUnchanged, dbVars, spoolVars, procVars, handlerVars, Fault,
        ReplayWorks
<1>1. CASE ReplayScan
  BY <1>1 DEF ReplayScan
<1>2. CASE ReplayClaim
  BY <1>2 DEF ReplayClaim, NextItem, Transition
<1>3. CASE ReplaySubmit
  BY <1>3 DEF ReplaySubmit
<1>4. CASE ReplayAccepted
  BY <1>4 DEF ReplayAccepted, ReplayRecord, NextItem, Transition
<1>5. CASE ReplayFailed
  BY <1>5 DEF ReplayFailed, ReplayRecord, NextItem, Transition
<1>6. CASE ReplayDeferred
  BY <1>6 DEF ReplayDeferred, NextItem, Transition
<1>7. CASE \E b \in Blocks : BackoffOver(b)
  BY <1>7 DEF BackoffOver
<1> QED
  BY <1>1, <1>2, <1>3, <1>4, <1>5, <1>6, <1>7 DEF ReplayVisit

-----------------------------------------------------------------------------
LEMMA HandlerSaved ==
    ASSUME SavedInv, TypeOK', NEW b \in Blocks, Handler(b)
    PROVE  ReplayerServes' /\ \A c \in Blocks : SavedOf(c)'
<1> USE DEF Serving, Spooling
<1>1. TypeOK /\ (\A c \in Blocks : SavedOf(c)) /\ ReplayerServes
  BY DEF SavedInv, CustodyInv
<1>2. ReplayerServes'
  BY <1>1, HandlerFrame DEF ReplayerServes
<1>3. \A c \in Blocks \ {b} : SavedOf(c)'
  BY <1>1, HandlerFrame DEF SavedOf
<1>4. /\ hpc[b] # "idle" /\ Serving /\ proc' = proc
      /\ faults' >= faults /\ faults' \in Nat /\ faults \in Nat
  <2>1. hpc[b] # "idle"
    BY DEF Handler, Persist, SpoolCreate, SpoolSync, SpoolInstall, SpoolSyncDir, Submit,
           RecordFailed, RecordFailedFallback, LogFailed, RecordAccepted,
           RecordAcceptedFallback, LogAccepted, Record, RecordFallback, LogUnpersisted,
           Unspool, Respond, Deferred
  <2> QED
    BY <1>1, <2>1, HandlerFrame DEF SavedOf
<1>5. SavedOf(b)'
  <2> USE <1>4 DEF SavedOf, TypeOK, HandlerGoto, dbVars, spoolVars, procVars, handlerVars, None
  <2>1. CASE Persist(b)
    BY <1>1, <2>1 DEF Persist, Upsert, Fault
  <2>2. CASE SpoolCreate(b) \/ SpoolSync(b)
    BY <1>1, <2>2 DEF SpoolCreate, SpoolSync, SpoolFails, SpoolUnchanged, AfterSpool, Fault
  <2>3. CASE SpoolInstall(b) \/ SpoolSyncDir(b)
    BY <1>1, <2>3 DEF SpoolInstall, SpoolSyncDir, SpoolFails, SpoolUnchanged, AfterSpool, Fault
  <2>4. CASE Submit(b)
    <3>1. PICK o \in Outcomes : Return(b, o)
      BY <2>4 DEF Submit, Outcomes
    <3>2. hpc[b] = "submit" /\ UNCHANGED <<status, spool, faults>>
      BY <2>4 DEF Submit
    <3> QED
      BY <1>1, <3>1, <3>2 DEF Return, Outcomes
  <2>5. CASE RecordFailed(b) \/ RecordAccepted(b)
    BY <1>1, <2>5 DEF RecordFailed, RecordAccepted, Record
  <2>6. CASE RecordFailedFallback(b) \/ RecordAcceptedFallback(b)
    BY <1>1, <2>6 DEF RecordFailedFallback, RecordAcceptedFallback, RecordFallback
  <2>7. CASE LogFailed(b) \/ LogAccepted(b)
    BY <1>1, <2>7 DEF LogFailed, LogAccepted, LogUnpersisted
  <2>8. CASE Unspool(b) \/ Respond(b) \/ Deferred(b)
    BY <1>1, <2>8 DEF Unspool, Respond, Deferred
  <2> QED
    BY <2>1, <2>2, <2>3, <2>4, <2>5, <2>6, <2>7, <2>8 DEF Handler
<1> QED
  BY <1>2, <1>3, <1>5

LEMMA ReplaySaved ==
    ASSUME SavedInv, TypeOK', ReplayScan \/ ReplayVisit \/ \E b \in Blocks : BackoffOver(b)
    PROVE  ReplayerServes' /\ \A c \in Blocks : SavedOf(c)'
<1>1. TypeOK /\ (\A c \in Blocks : SavedOf(c)) /\ ReplayerServes
  BY DEF SavedInv, CustodyInv
<1>2. \A c \in Blocks : SavedOf(c)'
  BY <1>1, ReplayFrame DEF SavedOf, Serving, None
<1>3. ReplayerServes'
  BY <1>1, ReplayFrame DEF ReplayerServes, Serving, ReplayScan, ReplayVisit, ReplayClaim,
     ReplaySubmit, ReplayAccepted, ReplayFailed, ReplayRecord, ReplayDeferred, BackoffOver
<1> QED
  BY <1>2, <1>3

LEMMA ProcessSaved ==
    ASSUME SavedInv, TypeOK',
           \/ Crash \/ Shutdown \/ Exit \/ Start
           \/ \E f \in Files : RecoverFile(f)
           \/ FinishRecovery \/ Reclaim
           \/ \E b \in Blocks : Find(b)
    PROVE  ReplayerServes' /\ \A c \in Blocks : SavedOf(c)'
<1> DEFINE Goal == ReplayerServes' /\ \A c \in Blocks : SavedOf(c)'
<1>1. TypeOK /\ (\A c \in Blocks : SavedOf(c)) /\ ReplayerServes
  BY DEF SavedInv, CustodyInv
<1> USE <1>1 DEF SavedOf, ReplayerServes, Serving, Spooling, dbVars, spoolVars, procVars,
        handlerVars, replayVars
<1>2. CASE Crash \/ Exit
  BY <1>2 DEF Crash, Exit, ResetMemory
<1>3. CASE Shutdown \/ Start
  BY <1>3 DEF Shutdown, Start
<1>4. CASE FinishRecovery \/ Reclaim
  BY <1>4 DEF FinishRecovery, Reclaim
<1>5. CASE \E f \in Files : RecoverFile(f)
  BY <1>5 DEF RecoverFile
<1>6. CASE \E b \in Blocks : Find(b)
  BY <1>6 DEF Find, HandlerGoto, TypeOK
<1> QED
  BY <1>2, <1>3, <1>4, <1>5, <1>6

LEMMA CustodyKept ==
    ASSUME CustodyInv, Next
    PROVE  CustodyInv'
<1>1. TypeOK'
  BY HandlerType, ReplayType, ProcessType DEF Next, CustodyInv
<1> QED
  BY <1>1, HandlerCustody, ReplayCustody, ProcessCustody DEF Next, CustodyInv

LEMMA SavedInductive ==
    /\ Init => SavedInv
    /\ SavedInv /\ [Next]_vars => SavedInv'
<1>1. Init => SavedInv
  BY TypeInit DEF Init, SavedInv, CustodyInv, CustodyOf, ReplayerHasRow, ListedWereFound,
     ReplayerServes, SavedOf, Spooling, None
<1>2. ASSUME SavedInv, Next PROVE SavedInv'
  <2>1. CustodyInv' /\ TypeOK'
    BY <1>2, CustodyKept DEF SavedInv, CustodyInv
  <2> QED
    BY <1>2, <2>1, HandlerSaved, ReplaySaved, ProcessSaved DEF Next, SavedInv
<1>3. ASSUME SavedInv, UNCHANGED vars PROVE SavedInv'
  BY <1>3 DEF vars, SavedInv, CustodyInv, CustodyOf, TypeOK, ReplayerHasRow,
     ListedWereFound, ReplayerServes, SavedOf, Serving
<1> QED
  BY <1>1, <1>2, <1>3

\* The first submitblock of a block never happens before its bytes are on disk,
\* unless the row and the spool file both failed, for every number of blocks,
\* retransmissions, faults and crashes.
THEOREM OnDiskFirst == Spec => []OnDiskBeforeRpc
<1>1. SavedInv => OnDiskBeforeRpc
  BY DEF SavedInv, CustodyInv, TypeOK, SavedOf, OnDiskBeforeRpc, OnDisk
<1> QED
  BY <1>1, SavedInductive, PTL DEF Spec

-----------------------------------------------------------------------------
LEMMA HandlerSole ==
    ASSUME SoleInv, NEW b \in Blocks, Handler(b)
    PROVE  /\ \A c \in Blocks : SoleOf(c)'
           /\ status[b] = "submitted" /\ finds[b] <= 1 => status'[b] = "submitted"
<1> USE DEF Unrecorded, Spooling, Logging, Recording
<1>1. TypeOK /\ (\A c \in Blocks : SoleOf(c)) /\ CustodyOf(b)
  BY DEF SoleInv, SavedInv, CustodyInv
<1>2. \A c \in Blocks \ {b} : SoleOf(c)'
  BY <1>1, HandlerFrame DEF SoleOf, ReplayWorks
<1>3. /\ finds'[b] = finds[b] /\ (ReplayWorks(b)' <=> ReplayWorks(b))
      /\ finds[b] > 0 /\ finds[b] \in Nat
  <2>1. hpc[b] # "idle"
    BY DEF Handler, Persist, SpoolCreate, SpoolSync, SpoolInstall, SpoolSyncDir, Submit,
           RecordFailed, RecordFailedFallback, LogFailed, RecordAccepted,
           RecordAcceptedFallback, LogAccepted, Record, RecordFallback, LogUnpersisted,
           Unspool, Respond, Deferred
  <2>2. UNCHANGED <<rpc, item, finds>>
    BY <1>1, HandlerFrame
  <2> QED
    BY <1>1, <2>1, <2>2 DEF CustodyOf, ReplayWorks, TypeOK
<1>4. SoleOf(b)' /\ (status[b] = "submitted" /\ finds[b] <= 1 => status'[b] = "submitted")
  <2> USE <1>1, <1>3 DEF SoleOf, TypeOK, HandlerGoto, dbVars, spoolVars, procVars,
          handlerVars, None
  <2>1. CASE Persist(b)
    BY <2>1 DEF Persist, Upsert
  <2>2. CASE SpoolCreate(b) \/ SpoolSync(b)
    BY <2>2 DEF SpoolCreate, SpoolSync, SpoolFails, SpoolUnchanged, AfterSpool
  <2>3. CASE SpoolInstall(b) \/ SpoolSyncDir(b)
    BY <2>3 DEF SpoolInstall, SpoolSyncDir, SpoolFails, SpoolUnchanged, AfterSpool
  <2>4. CASE Submit(b)
    BY <2>4 DEF Submit
  <2>5. CASE RecordFailed(b) \/ RecordAccepted(b)
    BY <2>5 DEF RecordFailed, RecordAccepted, Record, Transition
  <2>6. CASE RecordFailedFallback(b) \/ RecordAcceptedFallback(b)
    BY <2>6 DEF RecordFailedFallback, RecordAcceptedFallback, RecordFallback, Upsert
  <2>7. CASE LogFailed(b) \/ LogAccepted(b)
    BY <2>7 DEF LogFailed, LogAccepted, LogUnpersisted, Upsert
  <2>8. CASE Unspool(b) \/ Respond(b)
    BY <2>8 DEF Unspool, Respond
  <2>9. CASE Deferred(b)
    BY <2>9 DEF Deferred, Transition
  <2> QED
    BY <2>1, <2>2, <2>3, <2>4, <2>5, <2>6, <2>7, <2>8, <2>9 DEF Handler
<1> QED
  BY <1>2, <1>4

LEMMA ReplaySole ==
    ASSUME SoleInv, ReplayScan \/ ReplayVisit \/ \E b \in Blocks : BackoffOver(b)
    PROVE  /\ \A c \in Blocks : SoleOf(c)'
           /\ \A c \in Blocks : status[c] = "submitted" => status'[c] = "submitted"
<1>1. TypeOK /\ \A c \in Blocks : SoleOf(c)
  BY DEF SoleInv, SavedInv, CustodyInv
<1>2. \A c \in Blocks : ReplayWorks(c)' => ReplayWorks(c) \/ status[c] = "pending"
  BY <1>1 DEF TypeOK, ReplayWorks, ReplayScan, ReplayVisit, ReplayClaim, ReplaySubmit,
     ReplayAccepted, ReplayFailed, ReplayRecord, ReplayDeferred, NextItem, BackoffOver,
     Transition, None
<1>3. ASSUME NEW c \in Blocks PROVE SoleOf(c)'
  <2>1. finds'[c] = finds[c] /\ finds[c] \in Nat /\ hpc'[c] = hpc[c] /\ SoleOf(c)
    BY <1>1, ReplayFrame DEF TypeOK
  <2>2. CASE status'[c] = status[c]
    BY <1>2, <2>1, <2>2 DEF SoleOf, None
  <2>3. CASE status'[c] # status[c]
    <3>1. status[c] = "pending" \/ ReplayWorks(c)
      BY <1>1, <2>3, ReplayFrame
    <3> QED
      BY <1>2, <2>1, <3>1 DEF SoleOf, None
  <2> QED
    BY <2>2, <2>3
<1>4. \A c \in Blocks : status[c] = "submitted" => status'[c] = "submitted"
  BY <1>1, ReplayFrame
<1> QED
  BY <1>3, <1>4

LEMMA ProcessSole ==
    ASSUME SoleInv,
           \/ Crash \/ Shutdown \/ Exit \/ Start
           \/ \E f \in Files : RecoverFile(f)
           \/ FinishRecovery \/ Reclaim
           \/ \E b \in Blocks : Find(b)
    PROVE  /\ \A c \in Blocks : SoleOf(c)'
           /\ \A c \in Blocks : status[c] = "submitted" => status'[c] = "submitted"
<1> DEFINE Goal == /\ \A c \in Blocks : SoleOf(c)'
                   /\ \A c \in Blocks : status[c] = "submitted" => status'[c] = "submitted"
<1>1. /\ TypeOK /\ (\A c \in Blocks : SoleOf(c)) /\ ReplayerServes /\ ListedWereFound
      /\ \A c \in Blocks : hpc[c] # "idle" => Serving
  BY DEF SoleInv, SavedInv, CustodyInv, SavedOf
<1> USE <1>1 DEF SoleOf, ReplayWorks, TypeOK, Unrecorded, Spooling, Logging, Recording,
        dbVars, spoolVars, procVars, handlerVars, replayVars
<1>2. CASE Crash \/ Exit
  BY <1>2 DEF Crash, Exit, ResetMemory, None
<1>3. CASE Shutdown \/ Start \/ FinishRecovery
  BY <1>3 DEF Shutdown, Start, FinishRecovery
<1>4. CASE Reclaim
  BY <1>4 DEF Reclaim, Serving, None
<1>5. ASSUME NEW f \in Files, RecoverFile(f) PROVE Goal
  <2>1. f[1] \in Blocks /\ f \in todo /\ finds[f[1]] > 0
    BY <1>5 DEF Files, RecoverFile, ListedWereFound
  <2>2. \A c \in Blocks : hpc[c] = "idle" /\ rpc = "idle"
    BY <1>5 DEF RecoverFile, Serving, ReplayerServes
  <2>3. /\ UNCHANGED <<hpc, rpc, item, finds>>
        /\ status' \in {status, [status EXCEPT ![f[1]] = IF @ = None THEN "pending" ELSE @]}
    BY <1>5 DEF RecoverFile, Import
  <2> QED
    BY <2>1, <2>2, <2>3 DEF None
<1>6. ASSUME NEW b \in Blocks, Find(b) PROVE Goal
  BY <1>6 DEF Find, HandlerGoto, None
<1> QED
  BY <1>2, <1>3, <1>4, <1>5, <1>6

LEMMA SoleInductive ==
    /\ Init => SoleInv
    /\ SoleInv /\ [Next]_vars => SoleInv'
    /\ SoleInv /\ [Next]_vars =>
          \A b \in Blocks : status[b] = "submitted" /\ finds'[b] <= 1 => status'[b] = "submitted"
<1>1. Init => SoleInv
  BY SavedInductive DEF Init, SoleInv, SoleOf, ReplayWorks, Unrecorded, Spooling, Logging,
     Recording, None
<1>2. ASSUME SoleInv, Next
      PROVE  /\ SoleInv'
             /\ \A b \in Blocks : status[b] = "submitted" /\ finds'[b] <= 1
                                    => status'[b] = "submitted"
  <2>1. SavedInv' /\ TypeOK
    BY <1>2, SavedInductive DEF SoleInv, SavedInv, CustodyInv
  <2>2. ASSUME NEW b \in Blocks, Handler(b)
        PROVE  /\ \A c \in Blocks : SoleOf(c)'
               /\ \A c \in Blocks : status[c] = "submitted" /\ finds'[c] <= 1
                                      => status'[c] = "submitted"
    BY <1>2, <2>1, <2>2, HandlerSole, HandlerFrame
  <2> QED
    BY <1>2, <2>1, <2>2, ReplaySole, ProcessSole DEF Next, SoleInv
<1>3. ASSUME SoleInv, UNCHANGED vars
      PROVE  SoleInv' /\ status' = status
  <2>1. SavedInv'
    BY <1>3, SavedInductive DEF SoleInv
  <2> QED
    BY <1>3, <2>1 DEF vars, SoleInv, SoleOf, ReplayWorks
<1> QED
  BY <1>1, <1>2, <1>3

\* The handler and the replayer never have the same block at bitcoind at once, as
\* long as its share came once: the row is submitting while the handler works on
\* it, and the replayer claims only pending rows by compare-and-transition.
THEOREM OneSubmitter == Spec => []SoleSubmitter
<1>1. SoleInv => SoleSubmitter
  BY DEF SoleInv, SoleOf, SoleSubmitter, ReplayWorks, Unrecorded
<1> QED
  BY <1>1, SoleInductive, PTL DEF Spec

\* A row marked submitted stays so whatever the other submitter, a late outcome,
\* a crash or the import of a spool file does, as long as its share came once.
THEOREM SubmittedStays == Spec => SubmittedIsFinal
<1>1. SoleInv /\ [Next]_vars =>
        [\A b \in Blocks : status[b] = "submitted" /\ finds'[b] <= 1
                              => status'[b] = "submitted"]_vars
  BY SoleInductive
<1> QED
  BY <1>1, SoleInductive, PTL DEF Spec, SubmittedIsFinal

-----------------------------------------------------------------------------
LEMMA HandlerStrand ==
    ASSUME StrandInv, NEW b \in Blocks, Handler(b)
    PROVE  \A c \in Blocks : StrandOf(c)'
<1> USE DEF Unrecorded, Spooling, Logging, Recording
<1>1. TypeOK /\ (\A c \in Blocks : StrandOf(c)) /\ (hpc[b] # "idle" => Serving)
  BY DEF StrandInv, SavedInv, CustodyInv, SavedOf
<1>2. /\ UNCHANGED <<proc, rpc, item>> /\ (Serving' <=> Serving)
      /\ faults' >= faults /\ faults' \in Nat /\ faults \in Nat
      /\ \A c \in Blocks : ReplayWorks(c)' <=> ReplayWorks(c)
  BY <1>1, HandlerFrame DEF Serving, ReplayWorks
<1>3. \A c \in Blocks \ {b} : StrandOf(c)'
  BY <1>1, <1>2, HandlerFrame DEF StrandOf, Owner
<1>4. StrandOf(b)'
  <2> USE <1>1, <1>2 DEF StrandOf, Owner, TypeOK, HandlerGoto, dbVars, spoolVars, procVars,
          handlerVars, None, Fault
  <2>1. CASE Persist(b)
    BY <2>1 DEF Persist, Upsert
  <2>2. CASE SpoolCreate(b) \/ SpoolSync(b)
    BY <2>2 DEF SpoolCreate, SpoolSync, SpoolFails, SpoolUnchanged, AfterSpool
  <2>3. CASE SpoolInstall(b) \/ SpoolSyncDir(b)
    BY <2>3 DEF SpoolInstall, SpoolSyncDir, SpoolFails, SpoolUnchanged, AfterSpool
  <2>4. CASE Submit(b)
    <3>1. PICK o \in Outcomes : Return(b, o)
      BY <2>4 DEF Submit, Outcomes
    <3>2. hpc[b] = "submit" /\ UNCHANGED <<status, persisted, finished, faults>>
      BY <2>4 DEF Submit
    <3> QED
      BY <3>1, <3>2 DEF Return, Outcomes
  <2>5. CASE RecordFailed(b) \/ RecordAccepted(b)
    BY <2>5 DEF RecordFailed, RecordAccepted, Record, Transition
  <2>6. CASE RecordFailedFallback(b) \/ RecordAcceptedFallback(b)
    BY <2>6 DEF RecordFailedFallback, RecordAcceptedFallback, RecordFallback, Upsert
  <2>7. CASE LogFailed(b) \/ LogAccepted(b)
    BY <2>7 DEF LogFailed, LogAccepted, LogUnpersisted, Upsert
  <2>8. CASE Unspool(b) \/ Respond(b)
    BY <2>8 DEF Unspool, Respond
  <2>9. CASE Deferred(b)
    BY <2>9 DEF Deferred, Transition
  <2> QED
    BY <2>1, <2>2, <2>3, <2>4, <2>5, <2>6, <2>7, <2>8, <2>9 DEF Handler
<1> QED
  BY <1>3, <1>4

LEMMA ReplayStrand ==
    ASSUME StrandInv, ReplayScan \/ ReplayVisit \/ \E b \in Blocks : BackoffOver(b)
    PROVE  \A c \in Blocks : StrandOf(c)'
<1>1. TypeOK /\ \A c \in Blocks : StrandOf(c)
  BY DEF StrandInv, SavedInv, CustodyInv
<1>2. \A c \in Blocks :
        /\ hpc'[c] = hpc[c] /\ persisted'[c] = persisted[c] /\ finished'[c] = finished[c]
        /\ (Owner(c)' <=> Owner(c)) /\ (Serving' <=> Serving)
        /\ faults' >= faults /\ faults' \in Nat /\ faults \in Nat
  BY <1>1, ReplayFrame DEF Owner, Serving
<1>3. ASSUME NEW c \in Blocks,
             Serving', faults' < 2, status'[c] = "submitting", ~Owner(c)
      PROVE  ReplayWorks(c)'
  <2>1. CASE status[c] # "submitting"
    BY <1>1, <1>3, <2>1, ReplayFrame DEF ReplayWorks
  <2>2. CASE status[c] = "submitting"
    <3>1. ReplayWorks(c) /\ (rpc = "deferred" => faults >= 1)
      BY <1>1, <1>2, <1>3, <2>2 DEF StrandOf, ReplayWorks
    <3> QED
      BY <1>1, <1>2, <1>3, <2>2, <3>1 DEF TypeOK, ReplayWorks, ReplayScan, ReplayVisit,
         ReplayClaim, ReplaySubmit, ReplayAccepted, ReplayFailed, ReplayRecord,
         ReplayDeferred, NextItem, BackoffOver, Transition, Fault, dbVars, None
  <2> QED
    BY <2>1, <2>2
<1>4. ASSUME NEW c \in Blocks,
             rpc' = "deferred", item' = c, status'[c] = "submitting", ~Owner(c)
      PROVE  faults' >= 1
  BY <1>1, <1>2, <1>4 DEF StrandOf, TypeOK, ReplayScan, ReplayVisit, ReplayClaim,
     ReplaySubmit, ReplayAccepted, ReplayFailed, ReplayRecord, ReplayDeferred, NextItem,
     BackoffOver, Transition, Fault, dbVars, None
<1> QED
  BY <1>1, <1>2, <1>3, <1>4 DEF StrandOf

LEMMA ProcessStrand ==
    ASSUME StrandInv,
           \/ Crash \/ Shutdown \/ Exit \/ Start
           \/ \E f \in Files : RecoverFile(f)
           \/ FinishRecovery \/ Reclaim
           \/ \E b \in Blocks : Find(b)
    PROVE  \A c \in Blocks : StrandOf(c)'
<1>1. /\ TypeOK /\ (\A c \in Blocks : StrandOf(c)) /\ ReplayerServes
      /\ \A c \in Blocks : hpc[c] # "idle" => Serving
  BY DEF StrandInv, SavedInv, CustodyInv, SavedOf
<1> USE <1>1 DEF StrandOf, Owner, ReplayWorks, TypeOK, Unrecorded, Spooling, Logging,
        Recording, Serving, ReplayerServes, dbVars, spoolVars, procVars, handlerVars,
        replayVars
<1>2. CASE Crash \/ Exit
  BY <1>2 DEF Crash, Exit, ResetMemory
<1>3. CASE Shutdown \/ Start \/ FinishRecovery
  BY <1>3 DEF Shutdown, Start, FinishRecovery
<1>4. CASE Reclaim
  BY <1>4 DEF Reclaim, Fault
<1>5. CASE \E f \in Files : RecoverFile(f)
  BY <1>5 DEF RecoverFile
<1>6. CASE \E b \in Blocks : Find(b)
  BY <1>6 DEF Find, HandlerGoto
<1> QED
  BY <1>2, <1>3, <1>4, <1>5, <1>6

\* While the process runs, it takes two failing writes to leave a row marked
\* submitting that neither a handler nor the replayer will move on.
THEOREM NothingStranded == Spec => []OneFaultStrandsNothing
<1>1. Init => StrandInv
  BY SavedInductive DEF Init, StrandInv, StrandOf, Unrecorded, Spooling, Logging, Recording,
     None
<1>2. StrandInv /\ [Next]_vars => StrandInv'
  <2> SUFFICES ASSUME StrandInv, [Next]_vars PROVE StrandInv'
    OBVIOUS
  <2>1. SavedInv'
    BY SavedInductive DEF StrandInv
  <2>2. CASE UNCHANGED vars
    BY <2>1, <2>2 DEF vars, StrandInv, StrandOf, Owner, ReplayWorks, Serving
  <2>3. CASE Next
    BY <2>1, <2>3, HandlerStrand, ReplayStrand, ProcessStrand DEF Next, StrandInv
  <2> QED
    BY <2>2, <2>3
<1>3. StrandInv => OneFaultStrandsNothing
  BY DEF StrandInv, SavedInv, CustodyInv, TypeOK, StrandOf, Owner, OneFaultStrandsNothing,
     Working, ReplayWorks, Serving, Unrecorded, Spooling, Logging, Recording
<1> QED
  BY <1>1, <1>2, <1>3, PTL DEF Spec
=============================================================================
