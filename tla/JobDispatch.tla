----------------------------- MODULE JobDispatch -----------------------------
(***************************************************************************)
(* How a job published by JobManager reaches the miners: the notification  *)
(* queue and its single worker, the synchronous broadcast used after an    *)
(* accepted block, the subscriber channels with their drop-oldest sends,   *)
(* and the connections at the other end.  A Stratum V1 connection has two  *)
(* goroutines that notify, the session (initial work, re-notification) and *)
(* listenJobs, serialised by notifyMu; a Stratum V2 connection has one.    *)
(***************************************************************************)
EXTENDS Naturals, Sequences

CONSTANTS V1Conns, V2Conns,   \* connections, each of which connects once
          QueueCap,           \* capacity of notifyQueue
          ChanCap,            \* jobSubscriberBuffer
          MaxJobs,            \* jobs published in a behaviour
          SyncAllowed         \* accepted_block broadcasts happen

ASSUME ConnsAssumption == V1Conns \cap V2Conns = {}
ASSUME CapsAssumption ==
    /\ QueueCap \in Nat \ {0} /\ ChanCap \in Nat \ {0} /\ MaxJobs \in Nat
    /\ SyncAllowed \in BOOLEAN

Conns == V1Conns \cup V2Conns

VARIABLES
    curJob,   \* JobManager.curJob
    pub,      \* what the publisher, which holds applyMu, does next
    queue,    \* notifyQueue
    worker,   \* the job notificationWorker has taken from the queue
    sending,  \* the broadcast that holds subsMu
    conn,     \* conn[c]: life cycle
    chan,     \* chan[c]: jobCh
    hand,     \* hand[c]: the job the receiving goroutine is about to send
    own,      \* own[c]: the job the session goroutine is about to send
    last,     \* last[c]: the job c was last given (lastJob)
    cleaned   \* cleaned[c]: the clean_jobs flag it came with

managerVars == <<curJob, pub>>
workerVars == <<queue, worker, sending>>
connVars == <<conn, chan, hand, own, last, cleaned>>
dispatchVars == <<managerVars, workerVars, connVars>>

NoJob == [gen |-> 0, tip |-> 0, payload |-> 0, clean |-> FALSE]
Jobs == [gen : 1..MaxJobs, tip : Nat, payload : Nat, clean : BOOLEAN]
Idle == [job |-> NoJob, left |-> {}, full |-> {}, by |-> "nobody"]
ConnStates == {"new",        \* not connected
               "open",       \* subscribed to the job feed, no listener yet
               "initial",    \* listening, initial work not read yet
               "listening", "closed"}

Init ==
    /\ curJob = NoJob
    /\ pub = "idle"
    /\ queue = <<>>
    /\ worker = NoJob
    /\ sending = Idle
    /\ conn = [c \in Conns |-> "new"]
    /\ chan = [c \in Conns |-> <<>>]
    /\ hand = [c \in Conns |-> NoJob]
    /\ own = [c \in Conns |-> NoJob]
    /\ last = [c \in Conns |-> NoJob]
    /\ cleaned = [c \in Conns |-> FALSE]

-----------------------------------------------------------------------------
(***************************************************************************)
(* The publisher                                                           *)
(***************************************************************************)
\* A template with another header than the current job's needs clean work.
\* curJob is set before the job is broadcast.
Publish(tip, payload, sync) ==
    /\ pub = "idle" /\ curJob.gen < MaxJobs
    /\ curJob' = [gen |-> curJob.gen + 1, tip |-> tip, payload |-> payload,
                  clean |-> curJob = NoJob \/ tip # curJob.tip]
    /\ pub' = IF sync THEN "sync" ELSE "queue"
    /\ UNCHANGED <<workerVars, connVars>>

\* broadcastJob; the queue may be full.
Enqueue ==
    /\ pub = "queue"
    /\ IF Len(queue) < QueueCap
       THEN queue' = Append(queue, curJob) /\ pub' = "idle"
       ELSE pub' = "drop" /\ UNCHANGED queue
    /\ UNCHANGED <<curJob, worker, sending, connVars>>

DropHead(q) == IF q = <<>> THEN q ELSE Tail(q)

\* Mutation: the newest job, not the oldest, is dropped.
ReplaceDropsNewest ==
    /\ pub = "drop"
    /\ pub' = "idle"
    /\ UNCHANGED <<curJob, workerVars, connVars>>

\* Drop one queued job, if the worker has not made room meanwhile, and retry.
Replace ==
    /\ pub = "drop"
    /\ queue' = Append(DropHead(queue), curJob)
    /\ pub' = "idle"
    /\ UNCHANGED <<curJob, worker, sending, connVars>>

-----------------------------------------------------------------------------
(***************************************************************************)
(* Broadcasts to the subscribers, under subsMu                             *)
(***************************************************************************)
Subscribed == {c \in Conns : conn[c] \in {"open", "initial", "listening"}}

WorkerTake ==
    /\ worker = NoJob /\ queue # <<>>
    /\ worker' = Head(queue)
    /\ queue' = Tail(queue)
    /\ UNCHANGED <<managerVars, sending, connVars>>

Broadcast(job, by) ==
    /\ sending = Idle
    /\ sending' = [job |-> job, left |-> Subscribed, full |-> {}, by |-> by]
    /\ UNCHANGED <<managerVars, queue, worker, connVars>>

WorkerBroadcast == worker # NoJob /\ Broadcast(worker, "worker")
SyncBroadcast == pub = "sync" /\ Broadcast(curJob, "sync")

\* Mutation: the send does not look at the channel's capacity.
SendUnbounded(c) ==
    /\ c \in sending.left /\ sending.full = {}
    /\ chan' = [chan EXCEPT ![c] = Append(@, sending.job)]
    /\ sending' = [sending EXCEPT !.left = @ \ {c}]
    /\ UNCHANGED <<managerVars, queue, worker, conn, hand, own, last, cleaned>>

\* sendJobNonBlocking, first attempt.  Subscribers are visited in any order.
Send(c) ==
    /\ c \in sending.left /\ sending.full = {}
    /\ IF Len(chan[c]) < ChanCap
       THEN /\ chan' = [chan EXCEPT ![c] = Append(@, sending.job)]
            /\ sending' = [sending EXCEPT !.left = @ \ {c}]
       ELSE /\ sending' = [sending EXCEPT !.full = {c}]
            /\ UNCHANGED chan
    /\ UNCHANGED <<managerVars, queue, worker, conn, hand, own, last, cleaned>>

\* The channel was full: drop one job, if there still is one, and retry.
SendDropping(c) ==
    /\ c \in sending.full
    /\ chan' = [chan EXCEPT ![c] = Append(DropHead(@), sending.job)]
    /\ sending' = [sending EXCEPT !.left = @ \ {c}, !.full = {}]
    /\ UNCHANGED <<managerVars, queue, worker, conn, hand, own, last, cleaned>>

EndBroadcast ==
    /\ sending # Idle /\ sending.left = {}
    /\ sending' = Idle
    /\ worker' = IF sending.by = "worker" THEN NoJob ELSE worker
    /\ pub' = IF sending.by = "sync" THEN "idle" ELSE pub
    /\ UNCHANGED <<curJob, queue, connVars>>

-----------------------------------------------------------------------------
(***************************************************************************)
(* Connections.  Subscribe and Unsubscribe take subsMu.                    *)
(***************************************************************************)
Become(c, from, to) ==
    /\ conn[c] = from
    /\ conn' = [conn EXCEPT ![c] = to]
    /\ UNCHANGED <<managerVars, workerVars>>

\* NewMinerConn, or an opened V2 channel, which goes on to its first job.
Connect(c) ==
    /\ sending = Idle
    /\ Become(c, "new", IF c \in V1Conns THEN "open" ELSE "initial")
    /\ UNCHANGED <<chan, hand, own, last, cleaned>>

\* Subscribed and authorized: what the channel holds is drained, listenJobs is
\* started and the initial work is scheduled.
Authorize(c) ==
    /\ c \in V1Conns
    /\ Become(c, "open", "initial")
    /\ chan' = [chan EXCEPT ![c] = <<>>]
    /\ UNCHANGED <<hand, own, last, cleaned>>

\* Mutation: initial work is left to the listener.
ReadInitialSkipped(c) ==
    /\ Become(c, "initial", "listening")
    /\ UNCHANGED <<chan, hand, own, last, cleaned>>

\* The current job is read, and sent by Notify later.
ReadInitial(c) ==
    /\ Become(c, "initial", "listening")
    /\ own' = [own EXCEPT ![c] = curJob]
    /\ UNCHANGED <<chan, hand, last, cleaned>>

\* A difficulty change makes the V1 session send the current job again.
ReadAgain(c) ==
    /\ c \in V1Conns /\ own[c] = NoJob /\ last[c] # NoJob
    /\ Become(c, "listening", "listening")
    /\ own' = [own EXCEPT ![c] = curJob]
    /\ UNCHANGED <<chan, hand, last, cleaned>>

\* The V2 connection reads its channel only after its first job is sent.
Receive(c) ==
    /\ conn[c] \in (IF c \in V1Conns THEN {"initial", "listening"} ELSE {"listening"})
    /\ hand[c] = NoJob /\ chan[c] # <<>>
    /\ c \in V2Conns => own[c] = NoJob
    /\ hand' = [hand EXCEPT ![c] = Head(chan[c])]
    /\ chan' = [chan EXCEPT ![c] = Tail(@)]
    /\ UNCHANGED <<managerVars, workerVars, conn, own, last, cleaned>>

\* cleanFlagFor: the header differs from that of the last job on this connection.
NeedsClean(c, job) == last[c] = NoJob \/ last[c].tip # job.tip

\* Mutation: only the manager's classification is used.
GiveManagerFlag(c, job, force) ==
    IF c \in V1Conns /\ job.gen < last[c].gen
    THEN UNCHANGED <<last, cleaned>>
    ELSE /\ last' = [last EXCEPT ![c] = job]
         /\ cleaned' = [cleaned EXCEPT ![c] = force \/ job.clean]

\* Mutation: an older job replaces newer work.
GiveUnguarded(c, job, force) ==
    /\ last' = [last EXCEPT ![c] = job]
    /\ cleaned' = [cleaned EXCEPT ![c] = force \/ job.clean \/ NeedsClean(c, job)]

\* sendNotifyForWithReason, under notifyMu, drops a job older than the last one.
\* The V2 sendJob has no such check, and announces a new prevhash every time.
Give(c, job, force) ==
    IF c \in V1Conns /\ job.gen < last[c].gen
    THEN UNCHANGED <<last, cleaned>>
    ELSE /\ last' = [last EXCEPT ![c] = job]
         /\ cleaned' = [cleaned EXCEPT ![c] = \/ force \/ job.clean \/ NeedsClean(c, job)
                                              \/ c \in V2Conns]

NotifyOwn(c) ==
    /\ own[c] # NoJob
    /\ Give(c, own[c], TRUE)
    /\ own' = [own EXCEPT ![c] = NoJob]
    /\ UNCHANGED <<managerVars, workerVars, conn, chan, hand>>

NotifyReceived(c) ==
    /\ hand[c] # NoJob
    /\ Give(c, hand[c], FALSE)
    /\ hand' = [hand EXCEPT ![c] = NoJob]
    /\ UNCHANGED <<managerVars, workerVars, conn, chan, own>>

\* The connection is closed; nothing is sent on it afterwards.
Disconnect(c) ==
    /\ c \in Subscribed /\ sending = Idle
    /\ conn' = [conn EXCEPT ![c] = "closed"]
    /\ chan' = [chan EXCEPT ![c] = <<>>]
    /\ hand' = [hand EXCEPT ![c] = NoJob]
    /\ own' = [own EXCEPT ![c] = NoJob]
    /\ UNCHANGED <<managerVars, workerVars, last, cleaned>>

Dispatch ==
    \/ Enqueue \/ Replace
    \/ WorkerTake \/ WorkerBroadcast \/ SyncBroadcast \/ EndBroadcast
    \/ \E c \in Conns : Send(c) \/ SendDropping(c)

Serve(c) == ReadInitial(c) \/ Receive(c) \/ NotifyOwn(c) \/ NotifyReceived(c)

Miner(c) == Connect(c) \/ Authorize(c) \/ ReadAgain(c) \/ Disconnect(c)

\* The feed as its environment: any template follows, with the same header or another.
Next ==
    \/ \E tip \in {curJob.tip, curJob.tip + 1}, sync \in BOOLEAN :
          (sync => SyncAllowed) /\ Publish(tip, 0, sync)
    \/ Dispatch
    \/ \E c \in Conns : Serve(c) \/ Miner(c)

Spec == Init /\ [][Next]_dispatchVars

\* Goroutines that can run keep running; nothing makes a miner connect or leave.
DispatchFairness ==
    /\ WF_dispatchVars(Dispatch)
    /\ \A c \in Conns :
          /\ WF_dispatchVars(ReadInitial(c)) /\ WF_dispatchVars(NotifyOwn(c))
          /\ WF_dispatchVars(Receive(c)) /\ WF_dispatchVars(NotifyReceived(c))

FairSpec == Spec /\ DispatchFairness

-----------------------------------------------------------------------------
TypeOK ==
    /\ curJob \in Jobs \cup {NoJob}
    /\ pub \in {"idle", "queue", "drop", "sync"}
    /\ queue \in Seq(Jobs) /\ Len(queue) <= QueueCap
    /\ worker \in Jobs \cup {NoJob}
    /\ sending.job \in Jobs \cup {NoJob}
    /\ sending.left \subseteq Conns /\ sending.full \subseteq sending.left
    /\ sending.by \in {"nobody", "worker", "sync"}
    /\ conn \in [Conns -> ConnStates]
    /\ chan \in [Conns -> Seq(Jobs)] /\ \A c \in Conns : Len(chan[c]) <= ChanCap
    /\ hand \in [Conns -> Jobs \cup {NoJob}]
    /\ own \in [Conns -> Jobs \cup {NoJob}]
    /\ last \in [Conns -> Jobs \cup {NoJob}]
    /\ cleaned \in [Conns -> BOOLEAN]

(***************************************************************************)
(* Properties                                                              *)
(***************************************************************************)
Elements(s) == {s[i] : i \in DOMAIN s}

\* Every job that has not been given to c yet and still can be.
OnTheWay(c) ==
    Elements(queue) \cup {worker, hand[c], own[c]} \cup Elements(chan[c])
        \cup (IF pub = "idle" THEN {} ELSE {curJob})
        \cup (IF c \in sending.left THEN {sending.job} ELSE {})

\* The newest job is never lost between the manager and a connection that
\* listens: not when the queue or the channel overflows, not when the connection
\* subscribes, or drains its channel, while the job is being broadcast
\* (job_subscribe.go:61-107, miner_auth.go:170-198, 425-464).
NewestNotLost ==
    \A c \in Conns :
        conn[c] = "listening" /\ curJob # NoJob => curJob \in OnTheWay(c) \cup {last[c]}

\* Work whose header differs from that of the miner's previous work is announced
\* as clean, although the job that made the change may never have reached this
\* connection (miner_auth.go:1456-1460, miner_rejects.go:915-922).
HeaderChangeIsClean ==
    [][\A c \in V1Conns :
          last'[c] # last[c] /\ last[c] # NoJob /\ last'[c].tip # last[c].tip => cleaned'[c]]_dispatchVars

Work == INSTANCE WorkFeed WITH Conns <- V1Conns, newest <- curJob.gen,
                               seen <- [c \in V1Conns |-> last[c].gen]

\* A V1 miner is never sent back to older work (miner_auth.go:1306-1324).
ImplementsWorkFeed == Work!Spec

Settled(c) ==
    /\ conn[c] = "listening" /\ pub = "idle" /\ queue = <<>> /\ worker = NoJob /\ sending = Idle
    /\ chan[c] = <<>> /\ hand[c] = NoJob /\ own[c] = NoJob

\* "so the subscriber converges to the newest template" (job_subscribe.go:85-87):
\* once everything sent has arrived, a connection works on the newest job.
SettledOnNewest == \A c \in Conns : Settled(c) => last[c] = curJob

\* When no more templates come, every connection that listens ends up on the
\* newest job, whatever was dropped on the way (job_subscribe.go:61-156,
\* miner_conn.go:531-607, 630-644).
Converges ==
    \A c \in Conns : <>[](conn[c] \in {"new", "open", "closed"} \/ last[c] = curJob)
=============================================================================
