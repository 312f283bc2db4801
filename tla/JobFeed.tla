------------------------------- MODULE JobFeed -------------------------------
(***************************************************************************)
(* How JobManager follows bitcoind: the three ways a block template is     *)
(* fetched (the long poll; the refreshes that ZMQ, the heartbeat and new   *)
(* connections ask for; the poll after a block of this pool was accepted), *)
(* the application of templates one at a time under applyMu, with its      *)
(* check against the node's best block, and the publication of the new     *)
(* job.  The way of a job to the miners is in JobDispatch; here it is      *)
(* broadcast in one step.                                                  *)
(***************************************************************************)
EXTENDS Naturals

CONSTANTS MaxTips,      \* best blocks of the node in a behaviour
          MaxMempool,   \* changes of the mempool on top of each
          OurBlocks     \* best blocks that this pool submitted

ASSUME FeedAssumption ==
    MaxTips \in Nat \ {0} /\ MaxMempool \in Nat /\ OurBlocks \subseteq Nat

Fetchers == {"longpoll", "refresh", "accepted"}
NoOne == "no one"

VARIABLES
    node,       \* bitcoind: its best block, its mempool, the payload of its template
    accepted,   \* our best blocks that refreshAfterAcceptedBlock still has to follow
    polled,     \* the longpollid the waiting long poll was sent with
    longPollID, \* JobManager.longPollID
    fetched,    \* fetched[f]: the template f has received
    pc,         \* pc[f]: control
    applyMu,    \* who holds it
    job,        \* the template of JobManager.job
    pub         \* how the job still has to be broadcast, "idle" when it has been

feedVars == <<node, accepted, polled, longPollID, fetched, pc, applyMu>>
vars == <<feedVars, job, pub>>

(***************************************************************************)
(* Best blocks are numbered in the order in which the node adopts them: a  *)
(* reorganisation is a new number, like any other best block.              *)
(***************************************************************************)
Templates == {t \in [tip : 1..MaxTips, mempool : 0..MaxMempool, payload : 0..MaxMempool] :
                t.payload <= t.mempool}
NoTemplate == [tip |-> 0, mempool |-> 0, payload |-> 0]

NoJob == [tip |-> 0, payload |-> 0]

Init ==
    /\ node = [tip |-> 1, mempool |-> 0, payload |-> 0]
    /\ accepted = {}
    /\ polled = NoTemplate
    /\ longPollID = NoTemplate
    /\ fetched = [f \in Fetchers |-> NoTemplate]
    /\ pc = [f \in Fetchers |-> "idle"]
    /\ applyMu = NoOne
    /\ job = NoJob
    /\ pub = "idle"

-----------------------------------------------------------------------------
(***************************************************************************)
(* bitcoind                                                                *)
(***************************************************************************)
NewBlock ==
    /\ node.tip < MaxTips
    /\ node' = [tip |-> node.tip + 1, mempool |-> 0, payload |-> 0]
    /\ accepted' = accepted \cup ({node.tip + 1} \cap OurBlocks)
    /\ UNCHANGED <<polled, longPollID, fetched, pc, applyMu, job, pub>>

\* Not every change of the mempool changes the template.
NewTransactions ==
    /\ node.mempool < MaxMempool
    /\ \E p \in {node.payload, node.payload + 1} :
          node' = [node EXCEPT !.mempool = @ + 1, !.payload = p]
    /\ UNCHANGED <<accepted, polled, longPollID, fetched, pc, applyMu, job, pub>>

-----------------------------------------------------------------------------
(***************************************************************************)
(* Fetching.  A call that fails is made again later and changes nothing.   *)
(***************************************************************************)
\* getblocktemplate answers with the node's current template.
Fetch(f, from) ==
    /\ pc[f] = from
    /\ fetched' = [fetched EXCEPT ![f] = node]
    /\ pc' = [pc EXCEPT ![f] = "lock"]
    /\ UNCHANGED <<node, longPollID, applyMu, job, pub>>

\* longpollLoop; without a job it refreshes like the others.
LongPoll ==
    /\ job # NoJob /\ pc["longpoll"] = "idle"
    /\ polled' = longPollID
    /\ pc' = [pc EXCEPT !["longpoll"] = "wait"]
    /\ UNCHANGED <<node, accepted, longPollID, fetched, applyMu, job, pub>>

\* The node answers when it is no longer in the state that longpollid names.
LongPollReturns ==
    /\ node # polled
    /\ Fetch("longpoll", "wait")
    /\ polled' = NoTemplate
    /\ UNCHANGED accepted

\* refreshJobCtx, one caller at a time under refreshMu.
Refresh == Fetch("refresh", "idle") /\ UNCHANGED <<accepted, polled>>

\* refreshAfterAcceptedBlock polls until the template is above the block.
AcceptedRefresh ==
    /\ \E h \in accepted : accepted' = accepted \ {h}
    /\ Fetch("accepted", "idle")
    /\ UNCHANGED polled

\* Its 4s are over.
AcceptedGivesUp ==
    /\ \E h \in accepted : accepted' = accepted \ {h}
    /\ UNCHANGED <<node, polled, longPollID, fetched, pc, applyMu, job, pub>>

-----------------------------------------------------------------------------
(***************************************************************************)
(* refreshFromTemplateWithReason                                           *)
(***************************************************************************)
Goto(f, to) == pc' = [pc EXCEPT ![f] = to]

\* lockMutexContext: the attempt's time may run out first.
Lock(f) ==
    /\ pc[f] = "lock"
    /\ \/ /\ applyMu = NoOne /\ applyMu' = f
          /\ Goto(f, "verify") /\ UNCHANGED fetched
       \/ /\ applyMu # NoOne /\ UNCHANGED applyMu
          /\ Goto(f, "idle") /\ fetched' = [fetched EXCEPT ![f] = NoTemplate]
    /\ UNCHANGED <<node, accepted, polled, longPollID, job, pub>>

\* The attempt is over.
Unlock(f) ==
    /\ applyMu' = NoOne
    /\ Goto(f, "idle")
    /\ fetched' = [fetched EXCEPT ![f] = NoTemplate]

\* Mutation: the best block is not asked for.
VerifyNothing(f) ==
    /\ pc[f] = "verify"
    /\ Goto(f, "apply")
    /\ UNCHANGED <<node, accepted, polled, longPollID, fetched, applyMu, job, pub>>

\* Mutation: the long-poll cursor moves although the template is refused.
VerifyMovesCursor(f) ==
    /\ pc[f] = "verify"
    /\ \/ fetched[f].tip = node.tip /\ Goto(f, "apply") /\ UNCHANGED <<applyMu, longPollID, fetched>>
       \/ Unlock(f) /\ longPollID' = fetched[f]
    /\ UNCHANGED <<node, accepted, polled, job, pub>>

\* Mutation: applyMu is not released on the error path.
VerifyLeaksLock(f) ==
    /\ pc[f] = "verify"
    /\ \/ fetched[f].tip = node.tip /\ Goto(f, "apply")
       \/ Goto(f, "idle")
    /\ UNCHANGED <<node, accepted, polled, longPollID, fetched, applyMu, job, pub>>

\* ensureTemplateFresh: getbestblockhash must be the template's parent.  When it
\* is not, when the call fails or when no job can be built, the attempt is over.
Verify(f) ==
    /\ pc[f] = "verify"
    /\ \/ fetched[f].tip = node.tip /\ Goto(f, "apply") /\ UNCHANGED <<applyMu, fetched>>
       \/ Unlock(f)
    /\ UNCHANGED <<node, accepted, polled, longPollID, job, pub>>

\* Mutation: other transactions make no new job.
ChangedHeader(t) == job = NoJob \/ t.tip # job.tip

\* templateChangedLocked.
Changed(t) == job = NoJob \/ t.tip # job.tip \/ t.payload # job.payload

\* A changed template becomes the current job, which is broadcast with applyMu
\* held; an unchanged one only moves the long-poll cursor.
Apply(f) ==
    /\ pc[f] = "apply"
    /\ longPollID' = fetched[f]
    /\ IF Changed(fetched[f])
       THEN /\ job' = [tip |-> fetched[f].tip, payload |-> fetched[f].payload]
            /\ pub' = IF f = "accepted" THEN "sync" ELSE "queue"
            /\ Goto(f, "publish")
            /\ UNCHANGED <<applyMu, fetched>>
       ELSE Unlock(f) /\ UNCHANGED <<job, pub>>
    /\ UNCHANGED <<node, accepted, polled>>

\* The job is in the queue, or in every subscriber's channel.
Published(f) ==
    /\ pc[f] = "publish" /\ pub = "idle"
    /\ Unlock(f)
    /\ UNCHANGED <<node, accepted, polled, longPollID, job, pub>>

Broadcast == pub # "idle" /\ pub' = "idle" /\ UNCHANGED <<feedVars, job>>

Attempt(f) == Lock(f) \/ Verify(f) \/ Apply(f) \/ Published(f)

Fetching == LongPoll \/ LongPollReturns \/ Refresh \/ AcceptedRefresh \/ AcceptedGivesUp

Next ==
    \/ NewBlock \/ NewTransactions
    \/ Fetching
    \/ \E f \in Fetchers : Attempt(f)
    \/ Broadcast

Spec == Init /\ [][Next]_vars

(***************************************************************************)
(* The heartbeat's ticker keeps asking for refreshes, calls to the node    *)
(* end, and a goroutine that can go on does.  A template that is checked   *)
(* again and again while it is fresh is not refused every time, and a      *)
(* polling lock is obtained if it is free again and again.                 *)
(***************************************************************************)
Fairness ==
    /\ WF_vars(Refresh) /\ WF_vars(Broadcast)
    /\ \A f \in Fetchers :
          /\ WF_vars(Attempt(f))
          /\ SF_vars(Lock(f) /\ applyMu' = f)
          /\ SF_vars(Verify(f) /\ applyMu' = f)

FairSpec == Spec /\ Fairness

-----------------------------------------------------------------------------
TypeOK ==
    /\ node \in Templates
    /\ accepted \subseteq 1..MaxTips
    /\ polled \in Templates \cup {NoTemplate}
    /\ longPollID \in Templates \cup {NoTemplate}
    /\ fetched \in [Fetchers -> Templates \cup {NoTemplate}]
    /\ pc \in [Fetchers -> {"idle", "wait", "lock", "verify", "apply", "publish"}]
    /\ applyMu \in Fetchers \cup {NoOne}
    /\ \A f \in Fetchers : pc[f] \in {"verify", "apply", "publish"} <=> applyMu = f
    /\ job \in [tip : 0..MaxTips, payload : 0..MaxMempool]
    /\ pub \in {"idle", "queue", "sync"}

(***************************************************************************)
(* Properties                                                              *)
(***************************************************************************)
\* The pool's work never goes back to an earlier best block, although templates
\* are fetched concurrently and applied in any order (job_refresh.go:72-158,
\* job_validate.go:13-41).
TipNeverRegresses == [][job'.tip >= job.tip]_vars

\* The long-poll cursor and the job are about the same template: one that was
\* refused cannot move the cursor past a change nobody has published
\* (job_refresh.go:92-112, 129-132).
CursorMatchesJob == longPollID.tip = job.tip /\ longPollID.payload = job.payload

\* One job is published at a time, its broadcast included: the drop-and-retry of
\* broadcastJob relies on a single caller (job_refresh.go:82-149).
PublisherAlone == \A f \in Fetchers : pc[f] = "apply" => pub = "idle"

\* When the node keeps still, the pool ends up with its template, although a
\* template fetched earlier may have been applied last
\* (job_feed.go:106-170, job_manager.go:501-514).
FollowsNode == <>[](job.tip = node.tip /\ job.payload = node.payload)
=============================================================================
