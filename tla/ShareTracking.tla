---------------------------- MODULE ShareTracking ----------------------------
(***************************************************************************)
(* The submissions of one Stratum V1 connection: the jobs it may submit    *)
(* for (recent jobs, and retired jobs kept for blocks only), the duplicate *)
(* caches that follow a job when it is retired, the session goroutine that *)
(* looks a job up and hashes the header, and the workers that every        *)
(* connection shares, which judge ordinary shares later and concurrently.  *)
(*                                                                         *)
(* A solution stands for the fields of a duplicateShareKey (extranonce2,   *)
(* ntime, nonce, version); its hash is winning, too low, or neither.  The  *)
(* n-th notification of the connection has job id n.                       *)
(***************************************************************************)
EXTENDS Naturals, Sequences, FiniteSets

CONSTANTS Solutions,
          Winning,        \* solutions that meet the network target
          LowDiff,        \* solutions that miss the assigned difficulty
          TipOf,          \* the header (previous block) of each job
          FreshnessMode,  \* share_job_freshness_mode: off, job_id, job_id+prevhash
          MaxRecent,      \* max_recent_jobs
          DupHistory,     \* duplicateShareHistory
          Workers,        \* workers of the submission pool
          MaxJobs,        \* notifications in a behaviour
          MaxSubmits      \* submissions in a behaviour

ASSUME SolutionsAssumption ==
    Winning \subseteq Solutions /\ LowDiff \subseteq Solutions \ Winning
ASSUME SizesAssumption ==
    /\ MaxRecent \in Nat \ {0} /\ DupHistory \in Nat \ {0} /\ Workers \in Nat \ {0}
    /\ MaxJobs \in Nat /\ MaxSubmits \in Nat /\ FreshnessMode \in 0..2
    /\ TipOf \in [1..MaxJobs -> Nat]

Jobs == 1..MaxJobs
Requests == 1..MaxSubmits

VARIABLES
    newest,    \* the last job notified
    active,    \* jobOrder
    retired,   \* retiredJobOrder
    cache,     \* cache[j]: which map holds the duplicate set of job j
    seen,      \* seen[j]: duplicateShareSet.order
    banned,    \* the connection is banned
    closed,    \* the connection is closed
    stats,     \* its statsUpdates channel is open
    counted,   \* the accepted submissions its statistics have
    handler,   \* the submission the session goroutine works on, 0 for none
    task,      \* task[r]: the r-th submission
    stage,     \* stage[r]: how far it is
    outcome,   \* outcome[r]: the verdict
    acked,     \* submissions answered with success on the open socket
    queue,     \* this connection's part of the pool's task queue
    pool,      \* the pool accepts tasks
    entered    \* entered[j]: every solution that passed the duplicate check of j

jobVars == <<newest, active, retired, cache, seen, entered>>
connVars == <<banned, closed, stats>>
taskVars == <<counted, handler, task, stage, outcome, acked, queue, pool>>
vars == <<jobVars, connVars, taskVars>>

NoTask == [job |-> 0, sol |-> "none", age |-> 0, known |-> FALSE, stale |-> FALSE, banned |-> FALSE]

CacheStates == {"none",
                "active",    \* shareCache
                "evicted",   \* evictedShareCache
                "expired"}   \* deleted from it
Stages == {"unsent", "prepared", "queued", "taken", "found", "good", "counted", "done"}
Outcomes == {"none", "stale", "banned", "duplicate", "low", "busy", "ok", "block"}

Init ==
    /\ newest = 0 /\ active = <<>> /\ retired = <<>>
    /\ cache = [j \in Jobs |-> "none"]
    /\ seen = [j \in Jobs |-> <<>>]
    /\ banned = FALSE /\ closed = FALSE /\ stats = TRUE
    /\ counted = {}
    /\ handler = 0
    /\ task = [r \in Requests |-> NoTask]
    /\ stage = [r \in Requests |-> "unsent"]
    /\ outcome = [r \in Requests |-> "none"]
    /\ acked = {}
    /\ queue = <<>>
    /\ pool = TRUE
    /\ entered = [j \in Jobs |-> <<>>]

Elements(s) == {s[i] : i \in DOMAIN s}

-----------------------------------------------------------------------------
(***************************************************************************)
(* trackJob, under jobMu                                                   *)
(***************************************************************************)
InFlight(j) == {r \in Requests : task[r].job = j /\ stage[r] \notin {"unsent", "done"}}

\* Evicted caches whose grace (a minute) may be over: a submission does not wait
\* that long for its duplicate check.
Outdated == {j \in Jobs : cache[j] = "evicted" /\ InFlight(j) = {}}

\* Mutation: retired jobs are never forgotten.
RetireUnbounded(j) == retired' = Append(retired, j)

\* The job becomes a block-only binding.
Retire(j) ==
    LET order == Append(retired, j)
    IN retired' = IF Len(order) > MaxRecent THEN Tail(order) ELSE order

\* Mutation: the duplicate cache of the retired job is dropped at once.
KeepCacheNot(j, old) ==
    cache' = [k \in Jobs |-> IF k \in old \/ (k = j /\ cache[k] = "active") THEN "none" ELSE cache[k]]

\* Its duplicate cache, if it has one, is kept for late submissions.
KeepCache(j, old) ==
    cache' = [k \in Jobs |-> IF k = j /\ cache[k] = "active" THEN "evicted"
                             ELSE IF k \in old THEN "expired" ELSE cache[k]]

\* sendNotifyForWithReason, from listenJobs, the session or a worker.
Notify ==
    /\ ~closed /\ newest < MaxJobs
    /\ newest' = newest + 1
    /\ \E old \in SUBSET Outdated :
          IF Len(active) < MaxRecent
          THEN /\ active' = Append(active, newest')
               /\ KeepCache(0, old)
               /\ UNCHANGED retired
          ELSE /\ active' = Append(Tail(active), newest')
               /\ Retire(Head(active))
               /\ KeepCache(Head(active), old)
    /\ UNCHANGED <<seen, entered, connVars, taskVars>>

-----------------------------------------------------------------------------
(***************************************************************************)
(* The session goroutine: handleSubmit, one submission at a time           *)
(***************************************************************************)
Known(j) == j \in Elements(active) \cup Elements(retired)

\* Why an ordinary share for j is refused whatever its hash is.
Stale(j) == \/ j \notin Elements(active)
            \/ FreshnessMode = 2 /\ TipOf[j] # TipOf[newest]

Decide(r, verdict) ==
    /\ outcome' = [outcome EXCEPT ![r] = verdict]
    /\ stage' = [stage EXCEPT ![r] = "done"]
    /\ handler' = IF handler = r THEN 0 ELSE handler

\* Mutation: a retired job is as unknown as a forgotten one.
PrepareActiveOnly(r, j, s) ==
    /\ task' = [task EXCEPT ![r] = [job |-> j, sol |-> s, age |-> newest - j,
                                    known |-> Known(j), stale |-> Stale(j), banned |-> banned]]
    /\ IF j \notin Elements(active) /\ FreshnessMode > 0
       THEN Decide(r, "stale")
       ELSE /\ handler' = r
            /\ stage' = [stage EXCEPT ![r] = "prepared"]
            /\ UNCHANGED outcome

\* prepareSubmissionTaskFromParsed: the job is looked up once, under jobMu, and
\* what the policy says at this moment goes with the task.  A forgotten job is
\* refused here or, without freshness checks, replaced by the last job.
Prepare(r, j, s) ==
    /\ task' = [task EXCEPT ![r] = [job |-> j, sol |-> s, age |-> newest - j,
                                    known |-> Known(j), stale |-> Stale(j), banned |-> banned]]
    /\ IF ~Known(j) /\ FreshnessMode > 0
       THEN Decide(r, "stale")
       ELSE /\ handler' = r
            /\ stage' = [stage EXCEPT ![r] = "prepared"]
            /\ UNCHANGED outcome

Submit(r) ==
    /\ ~closed /\ handler = 0
    /\ stage[r] = "unsent" /\ \A q \in Requests : q < r => stage[q] # "unsent"
    /\ \E j \in 1..newest, s \in Solutions : Prepare(r, j, s)
    /\ UNCHANGED <<jobVars, connVars, counted, acked, queue, pool>>

\* The header hash meets the target of the job it was found on.
Wins(r) == task[r].known /\ task[r].sol \in Winning

Goto(r, to) == stage' = [stage EXCEPT ![r] = to] /\ UNCHANGED outcome

\* A winning share is handled by the session itself.  Others are queued, unless
\* the connections together have filled the queue.
Admit(r) ==
    /\ stage[r] = "prepared"
    /\ IF Wins(r) THEN Goto(r, "good") /\ UNCHANGED <<handler, queue>>
       ELSE IF ~pool THEN Goto(r, "taken") /\ UNCHANGED <<handler, queue>>
       ELSE \/ queue' = Append(queue, r) /\ Goto(r, "queued") /\ handler' = 0
            \/ Decide(r, "busy") /\ UNCHANGED queue
    /\ UNCHANGED <<jobVars, connVars, counted, task, acked, pool>>

-----------------------------------------------------------------------------
(***************************************************************************)
(* processPreparedShare, on a worker or, for a winning share, the session  *)
(***************************************************************************)
Processing == {r \in Requests : stage[r] \in {"taken", "found", "good", "counted"}}

\* Mutation: workers leave when the pool is closed.
TakeWhileOpen ==
    /\ pool /\ queue # <<>> /\ Cardinality(Processing \ {handler}) < Workers
    /\ Goto(Head(queue), "taken")
    /\ queue' = Tail(queue)
    /\ UNCHANGED <<jobVars, connVars, counted, handler, task, acked, pool>>

\* A closed channel still hands out what it holds.
Take ==
    /\ queue # <<>> /\ Cardinality(Processing \ {handler}) < Workers
    /\ Goto(Head(queue), "taken")
    /\ queue' = Tail(queue)
    /\ UNCHANGED <<jobVars, connVars, counted, handler, task, acked, pool>>

\* Refused by policy, or the duplicate set of the job is looked up under jobMu,
\* in shareCache, then in evictedShareCache, and created when it is in neither.
Judge(r) ==
    LET j == task[r].job
        found == cache[j] \in {"active", "evicted"}
    IN /\ stage[r] = "taken"
       /\ IF task[r].banned \/ task[r].stale
          THEN Decide(r, IF task[r].banned THEN "banned" ELSE "stale") /\ UNCHANGED <<cache, seen>>
          ELSE /\ cache' = [cache EXCEPT ![j] = IF found THEN @ ELSE "active"]
               /\ seen' = [seen EXCEPT ![j] = IF found THEN @ ELSE <<>>]
               /\ Goto(r, "found") /\ UNCHANGED handler
       /\ UNCHANGED <<newest, active, retired, entered, connVars, counted, task, acked, queue, pool>>

DupEvict == IF DupHistory >= 20 THEN DupHistory \div 10 ELSE 1

\* The oldest tenth makes room.
Add(order, s) ==
    IF s \in Elements(order) THEN order
    ELSE Append(IF Len(order) >= DupHistory THEN SubSeq(order, DupEvict + 1, Len(order)) ELSE order, s)

\* seenOrAdd, under the lock of the set that was found.
Enter(r) ==
    LET j == task[r].job
        s == task[r].sol
        order == Add(seen[j], s)
    IN /\ stage[r] = "found"
       /\ seen' = [seen EXCEPT ![j] = order]
       /\ IF order = seen[j] THEN Decide(r, "duplicate") /\ UNCHANGED entered
          ELSE /\ entered' = [entered EXCEPT ![j] = Append(@, s)]
               /\ IF s \in LowDiff THEN Decide(r, "low")
                                   ELSE Goto(r, "good") /\ UNCHANGED handler
       /\ UNCHANGED <<newest, active, retired, cache, connVars, counted, task, acked, queue, pool>>

\* recordShare: nothing is counted once the channel is closed.
Count(r) ==
    /\ stage[r] = "good"
    /\ counted' = IF stats THEN counted \cup {r} ELSE counted
    /\ Goto(r, "counted")
    /\ UNCHANGED <<jobVars, connVars, handler, task, acked, queue, pool>>

\* The success response, for a winning share after handleBlockShare.
Acknowledge(r) ==
    /\ stage[r] = "counted"
    /\ Decide(r, IF Wins(r) THEN "block" ELSE "ok")
    /\ acked' = IF closed THEN acked ELSE acked \cup {r}
    /\ UNCHANGED <<jobVars, connVars, counted, task, queue, pool>>

-----------------------------------------------------------------------------
(***************************************************************************)
(* Bans, the end of the connection, and the shutdown                       *)
(***************************************************************************)
\* Too many invalid submissions, an administrator, or the end of the ban.
BanChanges ==
    /\ ~closed
    /\ banned' = ~banned
    /\ UNCHANGED <<jobVars, closed, stats, taskVars>>

\* Mutation: the statistics are closed while the session is still writable.
CloseStatsFirst ==
    /\ ~closed /\ stats
    /\ stats' = FALSE
    /\ UNCHANGED <<jobVars, banned, closed, taskVars>>

\* cleanupResources, from any goroutine: first the socket ...
Close ==
    /\ ~closed
    /\ closed' = TRUE
    /\ UNCHANGED <<jobVars, banned, stats, taskVars>>

\* ... then the statistics.
CloseStats ==
    /\ closed /\ stats
    /\ stats' = FALSE
    /\ UNCHANGED <<jobVars, banned, closed, taskVars>>

\* main closes the pool when every connection handler has returned.
ClosePool ==
    /\ pool /\ closed /\ ~stats /\ handler = 0
    /\ pool' = FALSE
    /\ UNCHANGED <<jobVars, connVars, counted, handler, task, stage, outcome, acked, queue>>

Process(r) == Admit(r) \/ Judge(r) \/ Enter(r) \/ Count(r) \/ Acknowledge(r)

Next ==
    \/ Notify \/ BanChanges \/ Take
    \/ \E r \in Requests : Submit(r) \/ Process(r)
    \/ Close \/ CloseStats \/ ClosePool

Spec == Init /\ [][Next]_vars

\* The session and the workers are goroutines that keep running; a closed
\* connection's cleanup ends.  Nothing makes a miner submit or leave.
Fairness ==
    /\ WF_vars(Take) /\ WF_vars(CloseStats)
    /\ \A r \in Requests : WF_vars(Process(r))

FairSpec == Spec /\ Fairness

-----------------------------------------------------------------------------
Tasks == [job : 0..MaxJobs, sol : Solutions \cup {"none"}, age : Nat, known : BOOLEAN,
          stale : BOOLEAN, banned : BOOLEAN]

TypeOK ==
    /\ newest \in 0..MaxJobs
    /\ active \in Seq(Jobs) /\ Len(active) <= MaxRecent
    /\ retired \in Seq(Jobs) /\ Len(retired) <= MaxRecent
    /\ cache \in [Jobs -> CacheStates]
    /\ seen \in [Jobs -> Seq(Solutions)] /\ \A j \in Jobs : Len(seen[j]) <= DupHistory
    /\ banned \in BOOLEAN /\ closed \in BOOLEAN /\ stats \in BOOLEAN /\ pool \in BOOLEAN
    /\ handler \in 0..MaxSubmits
    /\ task \in [Requests -> Tasks]
    /\ stage \in [Requests -> Stages]
    /\ outcome \in [Requests -> Outcomes]
    /\ counted \subseteq Requests /\ acked \subseteq Requests
    /\ queue \in Seq(Requests)
    /\ entered \in [Jobs -> Seq(Solutions)]

(***************************************************************************)
(* Properties                                                              *)
(***************************************************************************)
\* The same work passes the duplicate check of its job twice only when most of a
\* full history of other work lies between: not because two workers check at
\* once, and not because the job is retired while a copy waits in the queue
\* (miner_rejects.go:675-704, 924-966, miner_duplicates.go:116-143).
DuplicatesFarApart ==
    \A j \in Jobs : \A p, q \in DOMAIN entered[j] :
        p < q /\ entered[j][p] = entered[j][q] => q - p > DupHistory - DupEvict + 1

\* A winning share on any of the last 2 * MaxRecent jobs goes to handleBlockShare,
\* whatever the ban, the freshness policy, the duplicate cache or a full queue
\* would say of an ordinary share, and it never waits in the queue
\* (miner_rejects.go:706-739, miner_submit_process.go:165-217,
\* miner_submit_handlers.go:29-35).
WinningShareIsHandled ==
    \A r \in Requests : task[r].sol \in Winning /\ task[r].age < 2 * MaxRecent =>
        /\ outcome[r] \in {"none", "block"}
        /\ stage[r] \notin {"queued", "taken", "found"}

\* A success response that reached the socket is in the statistics: the socket is
\* closed before statsUpdates (miner_conn.go:23-41, miner_stats.go:218-258).
AckedIsCounted == acked \subseteq counted

\* Every submission is decided, also when the connection and the pool are closed
\* meanwhile (submission_worker_pool.go:180-209, main.go:1005-1033).
EverySubmissionDecided ==
    \A r \in Requests : stage[r] # "unsent" ~> stage[r] = "done"

\* "The eviction logic below will handle cleanup when we exceed maxRecentJobs"
\* (miner_rejects.go:630-631): an evicted job whose submissions are all decided
\* has no cache in shareCache.
EvictedJobsCleanedUp ==
    \A j \in Jobs : cache[j] = "active" => j \in Elements(active) \/ InFlight(j) # {}
=============================================================================
