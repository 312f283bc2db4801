---------------------------- MODULE BlockHistory ----------------------------
(***************************************************************************)
(* The chain tip and the times of the last blocks that the status pages    *)
(* show (job_manager.go).  Three writers share zmqPayload: a raw-block     *)
(* notification (recordBlockTip), every applied template                   *)
(* (updateBlockTipFromTemplate, height only) and a header walk over RPC    *)
(* that runs behind the job feed, at most one at a time, the requests of   *)
(* later jobs coalesced into one pending request.                          *)
(* A block is the number of the moment it became the node's best block;    *)
(* block ForkAt replaces its predecessor (a reorganisation).               *)
(***************************************************************************)
EXTENDS Integers, Sequences

CONSTANTS
    MaxBlock,      \* the last tip of the node
    ForkAt,        \* the block that builds on its predecessor's parent
    Recent,        \* block times kept (4 in the code)
    MaxJobs,       \* bound: job generations
    MaxWalkFaults  \* bound: header walks that meet an RPC error

ASSUME HistoryAssumption ==
    /\ MaxBlock \in Nat \ {0} /\ ForkAt \in 3 .. MaxBlock
    /\ Recent \in Nat \ {0} /\ MaxJobs \in Nat /\ MaxWalkFaults \in Nat

VARIABLES
    best,         \* the node's best block
    rawBlocks,    \* rawblock messages published and not yet read
    rawLost,      \* TRUE: a rawblock message never reached the pool
    parent,       \* curJob.Template.Previous, 0 before the first job
    generation,   \* curJob.Generation
    applying,     \* the parent of the template being applied under applyMu
    unscheduled,  \* jobs between the release of applyMu and historyMu
    shownTip,     \* zmqPayload.BlockTip
    blockTimes,   \* zmqPayload.RecentBlockTimes, as blocks
    tipSequence,  \* blockTipSequence
    historyLatest, historyPending, walk, walkFaults, failedParent

historyVars == <<best, rawBlocks, rawLost, parent, generation, applying,
                 unscheduled, shownTip, blockTimes, tipSequence, historyLatest,
                 historyPending, walk, walkFaults, failedParent>>
feedState == <<parent, generation, applying, unscheduled>>
walkState == <<historyLatest, historyPending, walk, walkFaults, failedParent>>

NoRequest == [generation |-> 0, prev |-> 0, sequence |-> 0]
NoWalk == [req |-> NoRequest, at |-> "idle", times |-> 0]

(* Block ForkAt has the height of its predecessor, which its chain lacks.  *)
HeightOf[b \in 0 .. MaxBlock] == IF b < ForkAt THEN b ELSE b - 1
ChainTo[b \in 0 .. MaxBlock] ==
    [i \in 1 .. HeightOf[b] |-> IF b >= ForkAt /\ i >= ForkAt - 1 THEN i + 1 ELSE i]
LastOf(s, n) == IF Len(s) <= n THEN s ELSE SubSeq(s, Len(s) - n + 1, Len(s))

HistoryInit ==
    /\ best = 1 /\ rawBlocks = <<>> /\ rawLost = FALSE
    /\ parent = 0 /\ generation = 0 /\ applying = 0 /\ unscheduled = {}
    /\ shownTip = [hash |-> 0, height |-> 0] /\ blockTimes = <<>>
    /\ tipSequence = 0
    /\ historyLatest = 0 /\ historyPending = NoRequest /\ walk = NoWalk
    /\ walkFaults = 0 /\ failedParent = 0

----------------------------------------------------------------------------
(* bitcoind: a new tip, announced over ZMQ or not.                         *)
NodeTip ==
    \E b \in best + 1 .. MaxBlock, announced \in BOOLEAN :
        /\ best' = b
        /\ rawBlocks' = IF announced THEN Append(rawBlocks, b) ELSE rawBlocks
        /\ rawLost' = (rawLost \/ ~announced)
        /\ UNCHANGED <<feedState, shownTip, blockTimes, tipSequence, walkState>>

(* handleZMQNotification, rawblock: the announced block is the tip at      *)
(* once; its time is appended when it is not the tip already shown.        *)
RecordBlockTip ==
    /\ rawBlocks # <<>>
    /\ LET b == Head(rawBlocks)
           isNew == \/ shownTip.height = 0
                    \/ HeightOf[b] > shownTip.height
                    \/ b # shownTip.hash
       IN /\ tipSequence' = tipSequence + 1
          /\ shownTip' = [hash |-> b, height |-> HeightOf[b]]
          /\ blockTimes' = IF isNew THEN LastOf(Append(blockTimes, b), Recent)
                           ELSE blockTimes
    /\ rawBlocks' = Tail(rawBlocks)
    /\ UNCHANGED <<best, rawLost, feedState, walkState>>

----------------------------------------------------------------------------
(* The job feed.  The template is verified against the node's tip under    *)
(* applyMu, then installed.                                                *)
VerifyTemplate ==
    /\ applying = 0 /\ generation < MaxJobs
    /\ applying' = best
    /\ UNCHANGED <<best, rawBlocks, rawLost, parent, generation, unscheduled,
                   shownTip, blockTimes, tipSequence, walkState>>

(* curJob is set, the shown height is raised (never lowered, and the hash  *)
(* stays the old one), and a new parent or height asks for a header walk.  *)
InstallTemplate ==
    LET prevHeight == shownTip.height
        height == HeightOf[applying]
        tipChanged == parent # applying
    IN /\ applying # 0
       /\ parent' = applying /\ generation' = generation + 1 /\ applying' = 0
       /\ shownTip' = IF height > prevHeight
                      THEN [shownTip EXCEPT !.height = height] ELSE shownTip
       /\ unscheduled' =
            IF tipChanged \/ height > prevHeight
            THEN unscheduled \cup {[generation |-> generation + 1,
                                    prev |-> applying, sequence |-> -1]}
            ELSE unscheduled
       /\ UNCHANGED <<best, rawBlocks, rawLost, blockTimes, tipSequence, walkState>>

(* scheduleBlockHistoryRefresh: the tip sequence is read first ...         *)
ReadTipSequence ==
    \E q \in unscheduled :
        /\ q.sequence = -1
        /\ unscheduled' = (unscheduled \ {q}) \cup {[q EXCEPT !.sequence = tipSequence]}
        /\ UNCHANGED <<best, rawBlocks, rawLost, parent, generation, applying,
                       shownTip, blockTimes, tipSequence, walkState>>

(* ... then, under historyMu, a request of an older job is dropped, the    *)
(* newest replaces the pending one, and an idle walker is started.         *)
ScheduleRefresh ==
    \E q \in unscheduled :
        /\ q.sequence >= 0
        /\ unscheduled' = unscheduled \ {q}
        /\ \/ /\ q.generation < historyLatest
              /\ UNCHANGED <<historyLatest, historyPending, walk>>
           \/ /\ q.generation >= historyLatest
              /\ historyLatest' = q.generation
              /\ \/ /\ walk.at = "idle"
                    /\ walk' = [req |-> q, at |-> "ask", times |-> Recent]
                    /\ UNCHANGED historyPending
                 \/ /\ walk.at # "idle"
                    /\ historyPending' =
                         IF \/ historyPending = NoRequest
                            \/ q.generation >= historyPending.generation
                         THEN q ELSE historyPending
                    /\ UNCHANGED walk
        /\ UNCHANGED <<best, rawBlocks, rawLost, parent, generation, applying,
                       shownTip, blockTimes, tipSequence, walkFaults, failedParent>>

----------------------------------------------------------------------------
(* runBlockHistoryRefreshes.  fetchBlockHistoryFromRPC gives up when the   *)
(* node's best block is no longer the request's parent ...                 *)
AskBestBlock ==
    /\ walk.at = "ask"
    /\ walk' = [walk EXCEPT !.at = IF best = walk.req.prev THEN "commit" ELSE "done"]
    /\ UNCHANGED <<best, rawBlocks, rawLost, feedState, shownTip, blockTimes,
                   tipSequence, historyLatest, historyPending, walkFaults,
                   failedParent>>

(* ... or on an RPC error or its time limit.                               *)
WalkFails ==
    /\ walk.at \in {"ask", "commit"} /\ walkFaults < MaxWalkFaults
    /\ walk' = [walk EXCEPT !.at = "done"]
    /\ walkFaults' = walkFaults + 1 /\ failedParent' = walk.req.prev
    /\ UNCHANGED <<best, rawBlocks, rawLost, feedState, shownTip, blockTimes,
                   tipSequence, historyLatest, historyPending>>

(* An ancestor's header that cannot be fetched ends the list of times.     *)
AncestorMissing ==
    /\ walk.at = "commit" /\ walkFaults < MaxWalkFaults
    /\ \E n \in 1 .. walk.times - 1 : walk' = [walk EXCEPT !.times = n]
    /\ walkFaults' = walkFaults + 1 /\ failedParent' = walk.req.prev
    /\ UNCHANGED <<best, rawBlocks, rawLost, feedState, shownTip, blockTimes,
                   tipSequence, historyLatest, historyPending>>

(* Mutant: whatever tip was announced in the meantime.                     *)
StillCurrentAnyTip(req) == parent = req.prev

(* commitBlockHistoryIfCurrent, one critical section: the walk counts only *)
(* while its parent is the current job's, and it does not replace another  *)
(* block that was announced since it was asked for.                        *)
StillCurrent(req) ==
    /\ parent = req.prev
    /\ \/ tipSequence = req.sequence
       \/ shownTip.hash \in {0, req.prev}

CommitHistory ==
    /\ walk.at = "commit"
    /\ walk' = [walk EXCEPT !.at = "done"]
    /\ IF StillCurrent(walk.req)
       THEN /\ shownTip' = [hash |-> walk.req.prev, height |-> HeightOf[walk.req.prev]]
            /\ blockTimes' = LastOf(ChainTo[walk.req.prev], walk.times)
       ELSE UNCHANGED <<shownTip, blockTimes>>
    /\ UNCHANGED <<best, rawBlocks, rawLost, feedState, tipSequence,
                   historyLatest, historyPending, walkFaults, failedParent>>

(* The walker takes the pending request, or ends.                          *)
NextRequest ==
    /\ walk.at = "done"
    /\ walk' = IF historyPending = NoRequest THEN NoWalk
               ELSE [req |-> historyPending, at |-> "ask", times |-> Recent]
    /\ historyPending' = NoRequest
    /\ UNCHANGED <<best, rawBlocks, rawLost, feedState, shownTip, blockTimes,
                   tipSequence, historyLatest, walkFaults, failedParent>>

HistoryNext ==
    \/ NodeTip \/ RecordBlockTip \/ VerifyTemplate \/ InstallTemplate
    \/ ReadTipSequence \/ ScheduleRefresh
    \/ AskBestBlock \/ WalkFails \/ AncestorMissing \/ CommitHistory \/ NextRequest

HistorySpec == HistoryInit /\ [][HistoryNext]_historyVars

----------------------------------------------------------------------------
Requests == [generation : 0 .. MaxJobs, prev : 0 .. MaxBlock, sequence : -1 .. MaxBlock]

BlockHistoryTypeOK ==
    /\ best \in 1 .. MaxBlock /\ rawBlocks \in Seq(1 .. MaxBlock)
    /\ rawLost \in BOOLEAN /\ parent \in 0 .. MaxBlock /\ generation \in 0 .. MaxJobs
    /\ applying \in 0 .. MaxBlock /\ unscheduled \subseteq Requests
    /\ shownTip \in [hash : 0 .. MaxBlock, height : 0 .. MaxBlock]
    /\ blockTimes \in Seq(1 .. MaxBlock) /\ Len(blockTimes) <= Recent
    /\ tipSequence \in 0 .. MaxBlock /\ historyLatest \in 0 .. MaxJobs
    /\ historyPending \in Requests
    /\ walk \in [req : Requests, at : {"idle", "ask", "commit", "done"}, times : 0 .. Recent]
    /\ walkFaults \in 0 .. MaxWalkFaults /\ failedParent \in 0 .. MaxBlock

(* Nothing of the pool's is under way, and its job builds on the tip.      *)
FeedAtRest ==
    /\ applying = 0 /\ unscheduled = {} /\ walk.at = "idle" /\ rawBlocks = <<>>
    /\ parent = best

(***************************************************************************)
(* However notifications, templates and header walks overlapped, once they *)
(* are over the page shows the node's tip: by its last announcement when   *)
(* raw blocks arrive, by the walk of the newest job when they do not, and  *)
(* then with the times of that tip's own chain (job_manager.go 313-447).   *)
(***************************************************************************)
ShownTipIsBest ==
    FeedAtRest =>
        LET walked == tipSequence = 0 /\ failedParent # best
        IN /\ (walked \/ (tipSequence > 0 /\ ~rawLost)) =>
                shownTip = [hash |-> best, height |-> HeightOf[best]]
           /\ walked => blockTimes = LastOf(ChainTo[best], Recent)

(***************************************************************************)
(* A header walk never takes the page from a block the node announced back *)
(* to the block it replaced (job_manager.go 398-406).                      *)
(***************************************************************************)
NoRollback ==
    [][rawBlocks' = rawBlocks => shownTip'.hash >= shownTip.hash]_historyVars
=============================================================================
