# goPool in TLA+

A verification project for goPool, a solo-mining pool written in Go that speaks
Stratum V1 and V2 to miners and JSON-RPC to bitcoind.  It holds TLA+ models of
the parts of `src/` whose correctness depends on the order of events, the TLC
configurations that check them on small instances, and proofs, checked by
TLAPS, of the results that should hold for every size.  Paths and line numbers
below are relative to the repository.

1. [The system](#1-the-system) -- components, state, interactions, hazards
2. [Structure](#2-structure)
3. [Models and the code they stand for](#3-models-and-the-code-they-stand-for)
4. [Runs](#4-runs)
5. [Fairness](#5-fairness)
6. [Proofs](#6-proofs)
7. [Findings](#7-findings)
8. [Assumptions and what is left out](#8-assumptions-and-what-is-left-out)

Running it, in this directory:

    tlc -workers 2 -config PendingSubmission.cfg MCPendingSubmission
    tlapm PendingSubmission_proofs.tla

`PROJECT.json` lists every run with its module and configuration, the mutants
that show each property can fail, the source lines of each definition, the
hazards and the theorems.

## 1. The system

One process.  `main.go` opens the SQLite state database, recovers unfinished
block submissions, starts the job manager, the pool of submission workers, the
replayer and the web server, and accepts miners.  A V1 miner gets a `MinerConn`
with a session goroutine, a `listenJobs` goroutine and a statistics goroutine; a
V2 miner gets a `stratumV2Conn`.  bitcoind is reached by RPC (long poll, refresh,
submitblock) and ZMQ.

    bitcoind --templates--> JobManager --jobs--> notifyQueue --> subscriber channels --> connections --> miners
        ^                      (JobFeed)                      (JobDispatch)                                |
        |                                                                                                 shares
        +-- submitblock <-- handleBlockShare <-- winning share --- session goroutine <--------------------+
        |                    |        \                             | other shares
        +-- replayer <-- SQLite rows <-- spool directory            v
               (PendingSubmission)                       submission workers --> statistics
                                                              (ShareTracking)

Components that carry the program's own logic:

| Component (main files) | State | Operations and interactions | Hard behaviours | What makes it correct |
|---|---|---|---|---|
| Solved-block submission (`miner_submit_block.go`, `pending_submissions.go`, `pending_submission_spool.go`, `miner_rpc.go`) | table `pending_submissions`, spool directory, backoff map | `handleBlockShare` persists, submits, records, answers; replayer scans, claims, submits; start-up imports the spool and reclaims rows | crash at any step, failing or timed-out writes, lost RPC answers, handler and replayer on the same row, retransmitted share | a block on disk is never lost; accepted means the node has it; one fault strands nothing; it is eventually submitted |
| Job feed (`job_refresh.go`, `job_validate.go`, `job_feed.go`, `job_manager.go`, `job_build.go`) | current job, long-poll cursor, `applyMu`, `refreshMu`, job generation | long poll, refresh (ZMQ, heartbeat, connections), poll after an accepted block; build and publish | templates applied in another order than fetched, timeouts while waiting for the lock, cursor ahead of the job | the tip never regresses; the cursor describes the job; the pool follows the node |
| Job dispatch (`job_subscribe.go`, `miner_conn.go`, `miner_auth.go`, `stratum_v2_conn.go`) | `notifyQueue`, subscriber set and channels, last job of each connection | enqueue with drop-oldest, worker, synchronous broadcast, subscribe and drain, notify | full queue and channels, subscription during a broadcast, two goroutines notifying one miner | the newest job is never lost; a V1 miner never gets older work; a header change is announced clean |
| Share tracking of a connection (`miner_submit_*.go`, `miner_rejects.go`, `miner_duplicates.go`, `submission_worker_pool.go`, `miner_stats.go`) | active and retired jobs, duplicate sets, shared task queue, statistics channel | look up and hash a share, bypass for winning shares, queue the rest, judge, count, answer; close | verdict taken early and used late, eviction while a share waits, full queue, close and shutdown with work in flight | a winning share is always handled; the same work is credited once; what was acknowledged is counted |
| V1 session (`miner_auth.go`, `miner_conn.go`, `miner_io.go`) | subscribed/authorized flags, worker name, masks, timers, `notifyMu` | configure, subscribe, authorize, suggest_difficulty, initial work, notify, clean-up | five goroutines on one socket, re-authorization while work is built, close during authorize | work only under the name last authorized; no job, mask or difficulty is lost; no closed connection stays registered |
| Variable difficulty (`miner_rejects.go`, `miner_stats.go`, `miner_conn.go`) | difficulty with its predecessor and time, difficulty of each job, retarget window | judge the window, step, round, store, tell the miner, announce work | stores one after the other under no lock, changed by the session, by workers and under `notifyMu`; a controller that may oscillate | a share worth what its miner was told is accepted; the share rate settles |
| Version rolling (`version_bits.go`, `miner_rejects.go`) | mask, history of masks | negotiate, change with a job, remember | mask changes in flight | no mask a miner may use is forgotten |
| Bans (`miner_ban.go`, `accounting.go`) | invalid-submission windows, ban deadline, persisted list | count, ban, expire, persist | ban between parse and judgement | winning shares are exempt |
| Accept loop, limits, shutdown (`main.go`, `accept_rate_limiter.go`, `reconnect_tracker.go`, `miner_registry.go`, `stratum_health.go`) | registry, token bucket, reconnect bans, degraded-since times, wait groups | accept, wait for a token, read the first byte, admit, gate, drain, stop in order | loops that sleep with reserved tokens, a blocking first byte, a stop at any moment | capacity and rate are respected; nothing registers behind the shutdown |
| Stratum V2 (`stratum_v2_*.go`) | channel, jobs, sequence, frame formats | set up, open a channel, select among errors, jobs and submissions | a frame that breaks off, a select that may choose anything ready | what is written is what is read; every submission is answered in turn |
| Block history (`job_manager.go:182-447`) | tip, block times, generation, tip sequence | coalescing walker, raw-block notifications, templates | a walk that ends after a newer block was announced, a lost or late notification | a walk never takes the page back; at rest the page shows the tip |
| Saved workers (`worker_list_store_*.go`, `miner_wallet.go`) and their history (`status_saved_worker_periods*.go`) | table, cached verdict of a connection, pending best difficulties, minute rings, snapshot | save, remove, look up, note a share, flush, sample, restore | a removal while a flush is out, a failed flush merged back, a lookup that ends late, a share older than the sampled minute | what is stored agrees with what is in memory; no share is attributed to a worker that was removed |
| Statistics (`miner_stats.go`, `metrics.go`) and audit log (`found_block_async.go`) | queues, counters, best-share list, table | queue or count directly, close and drain, rank, write, retry | full queues, close between two counters, two writers of one list, a stop while the queue holds entries | every judged share counts once; the list is the best; every found block has its row or a logged reason |
| One-time codes (`one_time_code.go`), backup (`backblaze_backup.go`) | codes in memory and table; versions in memory and table | issue, redeem, expire, persist, load; snapshot, copy, upload, stamp | requests during the save, a failing statement, a crash between two steps | a redeemed code is not valid again; a backup is never claimed to be newer than it is |
| Discord (`discord_notifier_*.go`) | state per worker, message queue | poll, advance, reset; merge, send, pop | reset between lookup and update, a head that changes while it is sent | users hear of what lasted, in order |
| RPC client (`rpc.go`, `config_rpc.go`) | credentials with their stamp, health | call, retry, reload, count losses | cookie replaced while a call is out, stamp and contents read apart | credentials belong to the stamp; losses and recoveries alternate |
| Status caches (`status_*cache.go`, `status_server_http.go`), live configuration (`status_server_admin_*.go`, `config_*.go`) | three layers of cache; configuration in the status server, the job manager and on disk | render, store, invalidate; apply, persist, reload | a page rendered before an invalidation and stored after it; two administrators at once, a stop with a file moved aside | a page is no older than its lifetimes allow; a configuration in force was asked for |
| Page contents, TLS, encryption | | presentation, I/O, cryptography | little | not modelled, see section 8 |

The five goroutines of a V1 session that write to its socket -- the session loop,
`listenJobs`, the timer of the initial work, a submission worker and whoever closes
the connection -- are in `MinerSession`.  The hazards each component has, at the
line where they bite, are in `PROJECT.json` under `hazards`, with the properties
that would catch them going wrong.

## 2. Structure

| Group | Modules | Proofs |
|---|---|---|
| Solved blocks | `BlockCustody` (abstract), `PendingSubmission` | `PendingSubmission_proofs` |
| Work | `WorkFeed` (abstract), `JobFeed`, `JobDispatch`, `MiningWork` (the composition of the two) | `JobFeed_proofs`; `JobDispatch_proofs`, which also proves about `MiningWork` |
| One V1 connection | `ShareTracking`, `MinerSession` | `ShareTracking_proofs`, `MinerSession_proofs` |
| Difficulty of a connection | `DifficultyChange`, `Retarget` | `Interfaces_proofs` |
| Stratum V2 | `Sv2Codec` (frames and messages), `StratumV2` (one connection) | `Records_proofs` (frames and messages), `Interfaces_proofs` (the connection) |
| The way in and out | `Admission`, `AcceptLimiter` | `Interfaces_proofs` |
| Node | `BlockHistory`, `RpcClient` | `Interfaces_proofs` |
| Told and shown | `WorkerNotify`, `PingQueue`, `StatusCache` | `Interfaces_proofs` |
| Stored, counted, configured | `SavedWorkers`, `WorkerHistory`, `OneTimeCodes`, `Backup`, `ConnStats`, `BestShares`, `FoundBlockLog`, `LiveConfig` | `Records_proofs` |
| All of the last six rows | `Services` | `Services_proofs` |
| Instances | `MCPendingSubmission`, `MCJobFeed`, `MCJobDispatch`, `MCMiningWork`, `MCShareTracking`, `MCMinerSession`, `MCServices` | |

The modules of the rows from `DifficultyChange` to `LiveConfig` share no state with each
other.  Each is a specification of its own; `Services` puts them into one state space,
in which the variable `part`, chosen at first, says which of them moves, and
`MCServices` gives it one small instance of each.  A behaviour of `Services` is
therefore a behaviour of one component while the others keep their initial state, and
`Services_proofs` uses just that: each component's specification follows from
`ServicesSpec`.

## 3. Models and the code they stand for

Every definition that stands for code is listed with its lines under `map` in
`PROJECT.json`.  Definitions whose comment begins with "Mutation:" model plausible
mistakes; no specification uses them.

### BlockCustody, PendingSubmission

`BlockCustody` says only where a solved block is: in `memory`, on `disk`, with the
`node`, or `lost`.  Only a block that is still in memory can be lost.

`PendingSubmission` has the durable state (`status`: the row of each block;
`spool`, `temp`: the JSON file and the temporary file it is renamed from, with what
has been fsynced), bitcoind (`known`), and three processes:

- `handleBlockShare` (`hpc`): `Find`, `Persist` (50 ms upsert as `submitting`),
  `SpoolCreate/Sync/Install/SyncDir` (the emergency file when SQLite fails),
  `Submit` (one `submitblock` and the `getblockheader` check that follows a
  rejection or a timeout), `RecordAccepted`/`RecordFailed` and their fallbacks,
  `LogAccepted`/`LogFailed` when the first write failed, `Unspool`, `Respond` and
  the deferred clean-up;
- the replayer (`rpc`): `ReplayScan`, the claim by compare-and-transition, the
  call, the recording, the deferred restore; `backoff` abstracts the delay map;
- `main` (`proc`): `Crash`, `Shutdown` (connections, then replayer, then database),
  `Start`, `RecoverFile`, `FinishRecovery`, `Reclaim`.  Mining starts only then.

A crash keeps what was fsynced; a rename or an unlink that was not followed by a
directory fsync may or may not survive.  `MaxFaults`, `MaxRpcFaults`, `MaxStops`
and `MaxFinds` bound a behaviour.

### JobFeed

Three fetchers (`longpoll`, `refresh`, `accepted`) hold a template each and go
through `Lock` (`lockMutexContext`, which may give up), `Verify`
(`ensureTemplateFresh` and the building of the job), `Apply` (swap the job, move
the cursor) and `Published` (release `applyMu` after the broadcast).  bitcoind's
best blocks are numbered in the order it adopts them, so a reorganisation is a
higher number like any other.  A `payload` is what distinguishes two templates on
one best block; the mempool may also change without changing it, which moves the
cursor only.

### WorkFeed, JobDispatch

`WorkFeed` numbers the pool's jobs and says that a connection may skip some and
never goes back.  `JobDispatch` has the publisher (`pub`), `notifyQueue` with the
drop-oldest retry, `notificationWorker`, broadcasts under `subsMu` (`sending`),
and per connection the channel (`chan`), the job its receiving goroutine holds
(`hand`), the job its session goroutine holds (`own`) and the last one sent
(`last`).  Reading the current job and sending it are separate steps; `Give` is
what `sendNotifyForWithReason` does under `notifyMu`, or `sendJob` for V2.  A
channel send that finds the channel full is two steps, because the connection can
receive in between.

### MiningWork

`JobFeed` and `JobDispatch` over one `curJob`: `Apply` of a changed template is
`Publish`, and `applyMu` is held until the enqueueing or the synchronous broadcast
is over.

### ShareTracking

One V1 connection and the workers it shares.  `Notify` is `trackJob`: the job
window (`active`), the retired jobs kept for blocks (`retired`), and the duplicate
set of a job moving from `shareCache` to `evictedShareCache` (`cache`).  `Submit` is
the parse, job lookup and policy verdict; `Admit` the hash, the bypass of a winning
share and the queue, which other connections may have filled; `Take` a worker;
`Judge` the policy and the lookup of the duplicate set under `jobMu`; `Enter` the
check-and-add under the set's own lock; `Count` and `Acknowledge` the statistics
and the answer.  `Close`, `CloseStats` and `ClosePool` follow `cleanupResources` and
the end of `main`.  `entered` records what passed each duplicate check and is
read by a property only.

### MinerSession

One V1 connection from the handshake to its clean-up.  Each of the five goroutines
`t` has a label `pc[t]`, where it waits for a lock or is about to write, and `todo[t]`,
the calls its handler still has to make, named after the functions: `"listen"`
(drain the subscription and start `listenJobs`), `"schedule"`
(`scheduleInitialWork`), `"suggest"`, `"initial"` (`maybeSendInitialWork`),
`"difficulty"` (`setDifficulty`), `"pendingDifficulty"` and `"pendingMask"` (the two
halves of `sendPendingStratumSetup`), `"firstJob"`, `"clean"`, `"notifyAgain"`.
`notifyMu` is a variable: authorize and configure hold it from their check of
`closed` to their response, `sendNotifyForWithReason` from `LockNotify` over `Setup`
(difficulty, mask) to `Notify`.  The initial work and `setDifficulty` write without
it, as the code does.

A write fails at any moment and always once `closed` is set; its caller then closes
the session.  `Close`, `Unregister` and `Unsubscribe` are `cleanupResources` under
`cleanupOnce`, by whichever goroutine comes first.  `told` and `work` are what the
miner has read: its last authorized name, whether a difficulty reached it, its
mask, its job and the name that job was built for.

Version masks follow `negotiateVersionRolling`, `updateVersionMask` and
`rememberVersionMaskLocked`, with masks as sets of bits.

### Retarget, DifficultyChange

`Retarget` is the control loop `suggestedVardiff` closes around a miner whose
hashrate is constant for a while: shares per window (`WindowShares` of the assigned
difficulty), the noise band, the debounce, the damped and capped step, the
cool-down after a large one, the hold for slow miners, the rails, the rounding, and
the step back of a miner that sends nothing.  Time passes in ticks of half a minute.

`DifficultyChange` has the stores of `setDifficulty` one by one (predecessor,
difficulty, time, message), the announcements of work that record the difficulty
their shares are judged by, and a miner that solves shares worth what it was last
told; `Tellers` are the session or a worker, and the listener.  `unannounced` counts
the changes whose announcement was dropped since the newest work was announced: it is
what tells the work a miner can be judged wrongly on from the work it cannot.

### Admission, AcceptLimiter

`Admission` follows `main.go:858-1032`: accept, gate, tracker, capacity, first byte,
handler, `enforceStratumFreshness`, and the steps of an orderly stop.
`AcceptLimiter` is the token bucket: a loop that finds no token takes the balance
below zero and sleeps until its token is due, or gives it back on a stop.

### Sv2Codec, StratumV2

`Sv2Codec` writes and reads frames and messages digit by digit in base `Base` (256 in
the code), among them two frames that arrive together and one that breaks off
anywhere.  The length of a payload is written in three bytes without a check
(`stratum_v2_frame.go:31`); no message is too long for them from `Base = 7` on, which is
the assumption on `Base` and part of the proof (`MessageLength`).
`StratumV2` has the reader, `submitCh` and the select of the main loop.

### BlockHistory, RpcClient

`BlockHistory` has the three writers of the tip (raw-block notifications, which may
be lost or late, templates, header walks) against a node that extends its chain and
reorganises it once; the walk reads the tip's sequence, asks the node, and commits
when neither sequence nor generation moved.  `RpcClient` has calls with retries, the
cookie with its stamp, and the watcher.

### SavedWorkers, WorkerHistory, OneTimeCodes, Backup

`SavedWorkers` has the table, the pending map, the batch that a flush took out, and
the connections' cached verdicts with their generations; `WorkerHistory` the ring of
minutes, the sampler, the history ring and the snapshot; `OneTimeCodes` the codes in
memory and in the table, with statements that fail and stops at any point; `Backup`
the version, the snapshot, the local copy, the upload and the two stamps.

### ConnStats, BestShares, FoundBlockLog

`ConnStats` follows a judged share through `recordShare` (queue or direct), the
pool's counters, and the close of its connection.  `BestShares` has the sorted list,
its worker, the goroutines beside it, and the copies written outside the lock.
`FoundBlockLog` has both kinds of submitters, the bounded queue, its writer, and the
barrier that the shutdown sends.

### WorkerNotify, PingQueue, StatusCache, LiveConfig

`WorkerNotify` is the poll loop with the state machine of each saved worker and a reset
between any two of its steps; `PingQueue` the messages with the map that their copies
share, where a line may or may not fit into the last message (`fits`), the lengths of
lines being left open.  `StatusCache` has the layers a request passes, each with its lifetime and
locks, and `LiveConfig` the copies of the configuration, the apply and persist steps of
several administrators, and the reload.

## 4. Runs

"Expected violation" runs are the findings of section 7.  `CHECK_DEADLOCK FALSE` is
set where the behaviour ends because its bounds are used up (no more jobs, every
connection closed); the other safety runs have no deadlock.

| Run | Instance | Shows |
|---|---|---|
| `pending_submission` | 2 blocks, one of which bitcoind rejects; 2 storage faults, 1 RPC fault, 1 stop | `AcceptedMeansKnown`, `OnDiskBeforeRpc`, `OneFaultStrandsNothing`, `SoleSubmitter`, `SubmittedIsFinal`, and `ImplementsCustody` (refinement) |
| `pending_submission_live` | 1 block sent twice by its miner; 1 storage fault, 2 RPC faults, 2 stops | `OnDiskLeadsToSubmitted` |
| `pending_submission_terminal` | 1 block sent twice, 1 RPC fault | expected violation of `TerminalStateKept` |
| `job_feed` | 3 best blocks, the second ours; 1 mempool change on each | `TipNeverRegresses`, `CursorMatchesJob`, `FollowsNode`, no deadlock |
| `job_dispatch` | one V1 and one V2 connection, queue and channels of 1, 3 jobs | `NewestNotLost`, `HeaderChangeIsClean`, `ImplementsWorkFeed`, `Converges` |
| `job_dispatch_sync` | one V1 connection, queue and channel of 2, 3 jobs, synchronous broadcasts | `ImplementsWorkFeed` although the broadcast overtakes the queue |
| `job_dispatch_stale` | one V2 connection, the channel capacity of the source (4), synchronous broadcasts | expected violation of `SettledOnNewest` |
| `mining_work` | one V1 connection, 2 best blocks, the second ours, queue of 1, channel of 2 | `MinerTipNeverRegresses` and `MinersFollowNode`, end to end and with the synchronous broadcast |
| `share_tracking` | a winning, a low and an ordinary solution; window of 1, 3 jobs, 2 submissions, 2 workers, freshness by prevhash | `WinningShareIsHandled`, `AckedIsCounted`, `DuplicatesFarApart`, `EverySubmissionDecided` |
| `miner_session` | 2 workers, one with a difficulty hint; 3 requests, 2 jobs with different masks, 1 share, channel of 1, history of 4 masks | `NotifiedWorkerAuthorized`, `ClosedLeavesRegistry`, `ToldMaskRemembered`, `MinerServed` |
| `share_tracking_leak` | mixed solutions, 2 jobs, 1 submission | expected violation of `EvictedJobsCleanedUp` |
| `services` | one small instance of each of the 19 other components, see below | their properties, joined by what they are about |

Why these bounds are enough for what they are asked.  Two blocks are the fewest
that share the replayer's batch and the recovery pass; blocks do not otherwise
interact.  Two storage faults are what it takes to break the promise that needs
at most one.  A queue and channels of one are full as soon as a second job comes,
so every drop and every retry happens; three jobs are the fewest of which one can
be dropped, one be in a goroutine's hands and one be new.  In `mining_work` two
jobs in a queue of one and a channel of two let the synchronous broadcast overtake
the queued job; with a channel so small that the older jobs overflow it after the
overtaking, the newest job would be dropped, so convergence is claimed only where
the channel has room for them.  A window of one
job makes the second notification retire a job and the third forget one, so three
jobs let a share refer to a current, a retired and a forgotten job.  A duplicate
history of two with two submissions never evicts; what an eviction leaves is covered by
the theorem, which holds for every size.  In `miner_session` three requests are
a handshake and one more (a second authorization under another name, a
configuration or a suggestion) in any order; the second job changes the mask and
overflows the channel.  Its history holds every mask of the instance, as the source's
(twice `maxRecentJobs`) holds more masks than jobs can be worked on: with a shorter
one `ToldMaskRemembered` fails, because the initial work may tell the miner of a mask
that later ones have already pushed out.  The theorems of section 6 remove the
bounds for the properties they cover, `ImplementsCustody` with repeated submissions
and any number of faults among them.

### The parts of `services`

| Property | Parts | Instance |
|---|---|---|
| `HonestShareAccepted` | `DifficultyChange`: between changes a miner's newest work is judged by exactly what it was told, with or without the grace, unless the announcement of a change was dropped; the grace covers one dropped raise | session and listener, 3 difficulties, 2 changes, 2 works |
| `RateSettles` | `Retarget`: ten ticks (five minutes) after the last change of its hashrate a miner's difficulty is one at which it may stay | difficulties 1 to 32, hashrates of 20, 100, 700 units, 1 disturbance |
| `Admitted` | `Admission`: bounds of the registry, nothing registers behind the shutdown; `AcceptLimiter`: no more passes than burst and time allow | 2 listeners, 2 connections of one host, capacity 1, threshold 1; burst 2 falling to 1, 4 ticks |
| `V2Faithful` | `Sv2Codec`: read is as written, nothing is read of what broke off; `StratumV2`: answers in order, no known job is refused | base 8 with fields of 0, 7 and 70 bytes; 2 jobs, 2 submissions, a channel of 1 |
| `StorageAgrees` | `OneTimeCodes`, `Backup`, `SavedWorkers`, `LiveConfig` | 1 or 2 faults, 1 or 2 stops, 2 users, connections or administrators |
| `StatisticsTrue` | `WorkerHistory`, `ConnStats`, `BestShares`, `FoundBlockLog` | 2 workers, rings of 2 minutes, queues of 1 |
| `NotificationsTrue` | `WorkerNotify`, `PingQueue` | threshold 2, 5 units of time, 1 reset; queue of 2 messages of 2 lines, 1 wipe |
| `PagesTrue`, `NoRollback` | `BlockHistory`, `StatusCache`, `RpcClient` | 3 blocks, the third a reorganisation, 3 jobs, 1 failed walk; 2 visitors, lifetimes of 2 ticks for each of the three layers, 5 ticks, 1 new block, 2 settings; 2 calls, 2 cookies |

The parts have between some hundred and two hundred thousand states, about 772,000
together.  Queues and rings of one or two places are full at the second entry; two
writers, visitors or calls are what every race in these components takes; one
restart separates what is in memory from what is stored, a second one shows what is
read twice.  `Base = 8` lets a one-byte count overflow with ten elements and a
two-byte one with seventy.  Lifetimes of two ticks let the layers of the status caches add up
to a page four ticks old; a request that itself takes a tick (`Slow`) triples the states
and is left to the theorem `PagesRecentHold`.  Retarget's range of 32 holds a jump by the largest
factor, the debounce after it and the cool-down between.

Where the code departs from an unconditional form of a property the condition says
so (`unannounced`, `overlapped`, `copyFailed`, `late`, `kept`, `bypassed`,
`writersCrossed`, `savesCrossed`, `unread`, `failedParent`); the comment of the
property and section 8 say what happens then.

Invariants were chosen to relate several actors; the mutants in `PROJECT.json` show
that each is violated by a plausible bug in the mapped code (a persist that leaves
the row visible to the replayer, a spool file removed before its import, a
verification left out, a drop of the newest job instead of the oldest, workers
that leave when the pool closes, and so on).

## 5. Fairness

- `PendingSubmission`: weak fairness of every handler and replayer step (running
  goroutines), of the end of a backoff delay (the clock advances), of exit, start
  and recovery.  The restart assumes a supervisor, as the operations guide does.
  Finding, crashing, faults and shutdowns are never forced.  Faults are bounded,
  which says that storage and RPC do not fail for ever.
- `JobFeed`: weak fairness of the refresh (the heartbeat ticker) and of every
  attempt; strong fairness of a lock attempt that succeeds and of a verification
  that succeeds, because `lockMutexContext` polls and the node's answer may fail
  any number of times but not always.  Nothing forces the long poll to return or
  the accepted-block refresh to run: `FollowsNode` rests on the heartbeat only.
- `JobDispatch`: weak fairness of the notification worker and broadcaster, and of
  each connection's goroutines.  Connecting, authorizing and leaving are not
  forced, which is why the property speaks of connections that listen.
- `ShareTracking`: weak fairness of workers, of the session's processing and of the
  clean-up of a closed connection.
- The specifications of `services` state none: what is asked of them are safety
  properties, `RateSettles` included, which bounds the time in ticks.

## 6. Proofs

All for every value of the constants, from the named assumptions in the modules
only (sizes are natural numbers, subsets are subsets, V1 and V2 connections are
disjoint).  Three theorems have a hypothesis of their own, named in the table.

| Theorem | Statement | Argument |
|---|---|---|
| *Solved blocks* | | |
| `PendingSubmission_proofs!TypeCorrect` | `Spec => []TypeOK` | by process: handler, replayer, main |
| `PendingSubmission_proofs!AcceptanceCorrect` | `Spec => []AcceptedMeansKnown` | inductive with `HandlerKnows` and `ReplayerKnows`: the goroutine that is about to record acceptance has seen the node hold the block; `known` only grows |
| `PendingSubmission_proofs!Refines` | `Spec => ImplementsCustody` | inductive `CustodyInv`: a spool file is about to be removed only when its block has a row, files and control belong to blocks that were found, a file a crash left belongs to a block whose job is gone, what the replayer submits has a row, what recovery lists was found; rows never disappear (`RowsStay`); then every action is a `BlockCustody` step or a stutter of `Place` |
| `PendingSubmission_proofs!OnDiskFirst` | `Spec => []OnDiskBeforeRpc` | inductive `SavedInv`: at the call the block has a row or a durable file or two operations have failed, and a spool write is under way only after a first failure; with `CustodyInv` the row stays and the file is removed only under it |
| `PendingSubmission_proofs!OneSubmitter` | `Spec => []SoleSubmitter` | inductive `SoleInv`: until the outcome of a share that was sent once is recorded, its row is missing or `submitting`, and the replayer, which claims pending rows only, is not at work on it |
| `PendingSubmission_proofs!SubmittedStays` | `Spec => SubmittedIsFinal` | `SoleInv` again: what would reopen a row has to be at work on it |
| `PendingSubmission_proofs!NothingStranded` | `Spec => []OneFaultStrandsNothing` | inductive `StrandInv`: a `submitting` row has an `Owner` or the replayer while fewer than two faults have been spent, because each way to leave without recording costs one and its deferred repair a second one |
| *Work* | | |
| `JobFeed_proofs!TypeCorrect` | `Spec => []TypeOK` | includes that `applyMu` is held exactly by the attempt that verifies, applies or publishes |
| `JobFeed_proofs!TipMonotone` | `Spec => TipNeverRegresses` | `TipInv`: neither the job nor a fetched template is above the node, and the job is not above a template that has been verified and is about to be applied, because the attempt that verified it holds `applyMu` |
| `JobFeed_proofs!PublisherIsAlone` | `Spec => []PublisherAlone` | a pending broadcast belongs to a fetcher in `publish`, which holds `applyMu` |
| `JobFeed_proofs!CursorCorrect` | `Spec => []CursorMatchesJob` | the cursor moves only in `Apply` |
| `JobDispatch_proofs!TypeCorrect` | `Spec => []TypeOK` | with `RealJobs`: what is being sent or about to be published is a job |
| `JobDispatch_proofs!GivesInOrder` | `Spec => ImplementsWorkFeed` | `AgeInv`: all that is in flight is older than the current job or is it (`FromManager`: a step brings nothing else into flight); so a step that gives work is a `WorkFeed` step, because of the generation guard of `Give` |
| `JobDispatch_proofs!HeaderChangesAreClean` | `Spec => HeaderChangeIsClean` | from what a step may do to a connection's work (`WorkStep`) |
| `JobDispatch_proofs!NewestIsKept` | `~SyncAllowed` implies `Spec => []NewestNotLost` | `OrderInv`: queue, worker, broadcast and channel hold jobs in order with the newest last (`QueueInOrder`, `ChannelInOrder`), so what is dropped to make room is never the newest (`NewestComes`) |
| `JobDispatch_proofs!SettlesOnNewest` | `~SyncAllowed` implies `Spec => []SettledOnNewest` | `OrderInv` again: the last job given is the newest one that reached the connection.  The violation in `job_dispatch_stale` therefore needs the synchronous broadcast |
| `JobDispatch_proofs!WorkIsFeed` | `WorkSpec => FeedProofs!Spec` | the steps of the composition are steps of `JobFeed` or leave it alone; its `Broadcast` is the enqueueing of a job or the end of its synchronous broadcast |
| `JobDispatch_proofs!MinersNeverSentBack` | `WorkSpec => MinerTipNeverRegresses` | `WorkInv` puts both halves together: `TypeOK` and `TipInv` of the feed hold of the composition (its lemmas are used through `INSTANCE JobFeed_proofs`), `AgeInv` of the dispatch does, and `TipsInOrder`: among all known jobs a later generation has no earlier tip, because a job enters with the highest of both |
| *A V1 connection* | | |
| `ShareTracking_proofs!TypeCorrect` | `Spec => []TypeOK` | with `Arrived`: every submission that left `unsent` has a job the connection was given; the lists stay within their configured sizes |
| `ShareTracking_proofs!AckedCounted` | `Spec => []AckedIsCounted` | `CountInv`: while the socket is open the statistics channel is, so what passes `Count` is counted |
| `ShareTracking_proofs!WinningHandled` | `Spec => []WinningShareIsHandled` | `Window`: `active` and `retired` hold exactly the newest jobs, in order and without gaps, so a job of age below `2 * MaxRecent` is known (`RecentIsKnown`); `WinInv`: a share that wins on a known job goes from `prepared` to `good` without a queue |
| `ShareTracking_proofs!DuplicatesApart` | `Spec => []DuplicatesFarApart` | inductive `DupInv`: while a duplicate set is in one of the two maps it is the end of what passed its job's check, and shorter only if an eviction from a full history made it so; a set leaves the maps when nothing that could still pass refers to its job, which needs `Window` (a retired job does not come back) and `Waiting` (a submission is queued once) |
| `MinerSession_proofs!TypeCorrect` | `Spec => []TypeOK` | includes that a goroutine between taking and leaving `notifyMu` holds it |
| `MinerSession_proofs!NotifiedAuthorized` | `Spec => NotifiedWorkerAuthorized` | `AuthInv`: the miner has read the name in `worker`, unless the session is between `register` and its answer, where it holds `notifyMu`; so `Notify`, which holds it as well, finds the name that was told |
| `MinerSession_proofs!RegistryLeft` | `Spec => []ClosedLeavesRegistry` | `CleanInv`: one goroutine cleans up, after `closed` was set; past `Unregister` the connection is not registered, unless the session is at `authCheck`, where it will see `closed` |
| `MinerSession_proofs!MasksRemembered` | `Spec => []ToldMaskRemembered`, when the history has room for the masks that jobs and offers can combine to | `MaskInv`: what the miner was told, is being told and works with is in the history, which has no mask twice and therefore does not evict (a counting argument) |
| `MinerSession_proofs!MinersAreServed` | `Spec => []MinerServed` | `ServeInv`, while the connection is open: the answers the miner read are true (`HandshakeInv`); listener and initial work run or are the first calls still to make (`StartInv`); no job is sent after a newer one (`OrderInv`); the newest job was sent, ends the channel, or is in a goroutine's hands (`NewestInv`); a difficulty was told or will be (`DifficultyInv`).  `JobsInv` says what may still be in `todo` at each label |
| *Interfaces* | | |
| `Interfaces_proofs!AdmissionIsSafe` | `AdmissionSpec => []AdmissionSafe` | `Attended`: the registry is the V1 connections, and each connection whose first byte is awaited has one loop; `Counted`: the registry is no larger than its bound and the loops about to add; `Staged`: each step of the shutdown finds the earlier ones done |
| `Interfaces_proofs!AcceptsAreBounded` | `LimiterSpec => []AcceptsBounded` | `Conserved`: passes, sleepers, balance and unclaimed time together stay within burst and time; `DebtHasSleepers`: what the balance owes after any number of further tokens is owed by loops that still sleep then |
| `Interfaces_proofs!RetargetTypesCorrect` | `RetargetSpec => []RetargetTypeOK` | `ClampBounds`: clamp and rounding end within the bounds whatever the step; so every difficulty is one |
| `Interfaces_proofs!HonestSharesAccepted` | `DifficultySpec => []HonestShareAccepted` | `ToldInOrder`: while no two changes overlapped, what is on the wire tells the difficulty in force; `JudgedAsTold`: announced work is judged by what is told before it, or a change is under way that has to announce work itself; `ChangesApart`: while one change is open or was dropped, what the newest work was told and is judged by are the previous and the present difficulty at most |
| `Interfaces_proofs!AnsweredInOrder` | `V2Spec => []SubmissionsAnsweredInOrder` | `InTurn`: the numbers in the channel, with the blocked reader and on the wire continue those that were answered, one by one; `JobsActive`: a job on the wire is active |
| `Interfaces_proofs!WalkNeverRollsBack` | `HistorySpec => NoRollback` | `NodeLeads`: nothing names a block the node does not have; `SequencesPast`: a request carries a tip sequence of its past; so (`WalkLeads`) a walk that finds its sequence still in force was told a parent no older than the tip it replaces |
| `Interfaces_proofs!TipShownAtRest` | `HistorySpec => []ShownTipIsBest` | `TipInv`: the parent of the last template has a request that waits or walks, or was served, or was overtaken (`ParentInHand`); requests of later jobs name later parents and are taken in that order; the last parent whose walk failed is no later than what is still to be walked |
| `Interfaces_proofs!CookieAndHealthHold` | `RpcSpec => []CookieAndHealthAgree` | `CookiesInOrder`: what was looked at, read and stamped are cookies in that order; `LossesCounted`: losses about to be counted plus those counted exceed the recoveries by one exactly while the node is unhealthy |
| `Interfaces_proofs!PagesRecentHold` | `CacheSpec => []PagesAreRecent` | `VisitInTime`, `EntriesInTime`: each layer's entry expires a bounded time after what it carries was read; `BlocksKnown`: a kept snapshot knows every block or is about to be cleared; `PagesCleared` |
| `Interfaces_proofs!SustainedChangesPinged` | `WorkerNotifySpec => []PingsOnSustainedChange` | `WorkerFollows`: since, eligible and notified are functions of the observations, namely of where the current run begins and whether it and the one before it lasted (`FollowsRun`) |
| `Interfaces_proofs!PostsKeepOrder` | `PingSpec => []PostsInOrder` | `MapsApart`: no two queued messages have a map in common, and the copy being sent only with the head; `Ordered`: lines are in order within a message and between messages, what was posted before what is queued (but for the head that was just sent), and only the last message grows |
| `Interfaces_proofs!...TypesCorrect` | `...Spec => []...TypeOK` of the other interfaces | with the range of what is counted: `LimiterRange` (a loop owes one token at most), `TrackerTypes` |
| *Records* | | |
| `Records_proofs!CodecRoundTripsHolds` | `CodecSpec => []CodecRoundTrips` | `CodecInv`: what is left to read is the frames still to come, one behind the other (`Unread`), or a part of the last one (`LastPart`).  A number reads back from its digits (`NumberReadsBack`), a field from where it lies (`FieldReadsBack`), a message from its fields, and from a part of it nothing (`DecodeOfPart`), a frame whatever follows it (`FrameReads`, `PartOfFrame`); three bytes tell every length (`MessageLength`) |
| `Records_proofs!LogIsComplete` | `AuditSpec => []AuditComplete` | `OnePlace`: a found block is with its submitter, in the queue, with the writer, written or skipped, and in one place only; `Quiet`: the barrier is the last entry, because no submitter is left |
| `Records_proofs!SpentCodesRefused` | `CodesSpec => []SpentCodesStaySpent` | `CodesDistinct`: a code belongs to one entry among all copies; `SpentInv`: the table is empty while codes can be spent, and what is left of a spent code was copied before |
| `Records_proofs!UploadsNotOverstated` | `BackupSpec => []UploadIsNotOverstated` | `CopiesCover`: without a lost local copy, whatever could still be uploaded is at least as new as every stamp |
| `Records_proofs!SavedWorkersHold` | `SavedSpec => []SavedWorkersAgree` | `StoreInv`: what was earned is held in memory, in the batch or in a row, of saved workers only; `ConnInv`, `ScoreInv`: what lookups and the share under way found is still so, because a worker that stays saved loses nothing (`Grows`); `SyncInv`: only the lookup of the latest generation counts |
| `Records_proofs!ConfigurationHolds` | `LiveConfigSpec => []ConfigHolds` | `RewritesAlone`: one writer at a time moves the file aside, and only while it is there; `CopiesCurrent`: an administrator's copy has the settings in force but those of the form; `PolicyFollows`: what was installed last is what is published next |
| `Records_proofs!HistoryTruthful` | `PeriodsSpec => []HistoryIsTrue` | `TrueRing`: every minute stands in its slot with no more than was earned in it; `RingUntil`: none is later than the last sampled one, so that a slot is overwritten by later minutes only |
| `Records_proofs!CountsHold` | `StatsSpec => []CountsAgree` | `CountsFollow`: accepted plus queued are the shares that reached the connection, the pool's count those that are done (cardinalities); `ClosedDrained` |
| `Records_proofs!BestSharesHold` | `BestSpec => []BestSharesKept` | `AllRanked`, `BestOfListed`: the list is in order, and what is not in it is below it; `NotListedYet`: a share is in one place; `OneWriter`: until two writers cross there is one, which carries the list.  `RankedPlaces` says where an insertion leaves everything |
| `Records_proofs!...TypesCorrect` | `...Spec => []...TypeOK` | `AuditRange` and the like |
| *All services together* | | |
| `Services_proofs` | `ServicesSpec => []P` for `ServicesTypeOK`, `Admitted`, `V2Faithful`, `HonestShareAccepted`, `PagesTrue`, `StorageAgrees`, `StatisticsTrue`, `NotificationsTrue`; `=> NoRollback` | for each component the lemma `...Part`: `ServicesSpec` implies its specification, since a step of another part leaves its variables alone; then the theorem of the component |

The invariants that are not inductive as they stand, and why: `AcceptedMeansKnown`
needs the control state of the two submitters, because the row is written after
the answer; `TipNeverRegresses` needs the lock, because the check against the node
precedes the swap; `WinningShareIsHandled` needs the shape of both job lists,
because the age of a job says nothing about membership otherwise;
`NotifiedWorkerAuthorized` needs the lock, because `worker` changes before the
answer is written; `MinerServed` speaks of idle sessions only, so its invariant has to
say for every busy one which call will still do what is missing; `NewestNotLost` needs
the order of every buffer on the way, because only that says what a full one drops;
`ShownTipIsBest` needs to know of each request whether a later one has overtaken it;
`PingsOnSustainedChange` compares with a definition over all observations, of which
the notifier keeps four flags and a time.  Most actions of `MinerSession` are shown to
be `Plain` (they leave name, registry and clean-up alone) or `Aside` and `MaskPlain`
(likewise for masks and service), and one lemma covers these.

Facts about data that several proofs use are lemmas of their own: what a bounded queue
holds after an addition, a removal or a replacement (`Added`, `Taken`, `Replaced`), the
least element of a set of numbers (`LeastNatural`, from the well-foundedness of `<`;
recursive functions like those that decode and flatten are determined with it, by a
least argument at which two solutions would differ), where the sequences lie that
`FlattenSeq` puts together (`Concatenation`),
the places of a sorted insertion (`RankedPlaces`), order of lines under append and
concatenation.

Only model-checked, and why
- Every liveness property (`OnDiskLeadsToSubmitted`, `FollowsNode`, `Converges`,
  `MinersFollowNode`, `EverySubmissionDecided`): fairness and ENABLED are out of the
  prover's reach.
- `RateSettles`: it does not hold for every value of the constants.  How many ticks the
  loop needs depends on the range of difficulties and on `SettleTicks`; the run shows it
  for a range that holds the largest jump and everything that follows one.

## 7. Findings

- **A submitted row can be reopened** (`pending_submission_terminal`).
  `handleBlockShare` upserts `submitting` whatever the row's status was
  (`miner_submit_block.go:139`), and winning shares are not looked up in the
  duplicate cache.  A miner that sends its winning share again therefore reopens a
  row already marked `submitted`.  The comment at `pending_submissions.go:415-416`
  speaks of "one another's terminal state" being kept.  The block is not lost (the
  refinement holds), it is submitted once more.
- **A V2 miner can settle on an older job** (`job_dispatch_stale`).  After an
  accepted block the new job is broadcast synchronously (`job_refresh.go:140`) and
  can overtake an older one in `notifyQueue`; the V1 path drops the older one by its
  generation, the V2 job loop sends it.  `job_subscribe.go:85-87` says that
  subscribers converge to the newest template.
- **A duplicate cache outlives its job** (`share_tracking_leak`).  A share that was
  accepted for a job while it was active and is judged after `trackJob` evicted it
  creates an entry in `shareCache` that no later eviction removes
  (`miner_rejects.go:959`); `miner_rejects.go:630-631` relies on the eviction for
  clean-up.  The entry goes with the connection.

## 8. Assumptions and what is left out

PendingSubmission
- A statement that returns an error leaves its row as it was, except the first,
  50 ms bounded upsert, which may have been applied.
- A block stands for its bytes and for its key; the node never forgets a block it
  processed; panics are covered by `Crash`.
- After a second storage fault a row can stay `submitting` until the next start; the
  liveness run allows one fault for that reason, and the hazard is listed uncovered.
- Building the block bytes and the found-block audit record are left out.

JobFeed, JobDispatch, MiningWork
- Accepted-block refreshes run one at a time; ZMQ socket health, reconnection and
  retry delays are left out (a failing call changes nothing).
- Each connection connects once.  `MiningWork` has no mempool changes, so the
  number of jobs is bounded by the number of best blocks.
- `Converges` and `NewestNotLost` are claimed without the synchronous broadcast;
  with it, convergence fails for V2 (section 7), and for V1 it needs a subscriber
  channel with room for the newest job and the older ones that follow it, which
  `mining_work` has.

ShareTracking
- A share waits in the queue for less than `evictedShareCacheGrace` (one minute); a
  cache expires only when nothing in flight refers to it.
- The notification binding, `trackJob` and the write to the socket are one step, and
  the ban and the job lookup of a submission are read in one step.
- Hashing is abstracted to three classes of solution; parameter parsing, ntime,
  version and worker-name checks and the statistics of rejected shares are left out.
- The branch for a closed pool is unreachable while main closes it last; it is kept
  because the code has it.

MinerSession
- Difficulties have no value: only that one is pending or was told.  What a share
  is judged by is in `DifficultyChange`; how a submitted version is read under the
  mask, and the versions a winning share is tried with, are not modelled.
- A mask in `told` counts as in use until the next one is read.  The miner may keep
  a mask that is no longer in force, because the initial work sends its mask
  outside `notifyMu`; what is checked is that a winning share under it is tried.
- `MinerServed` says what holds whenever every goroutine is idle; it is a safety
  property, so nothing about the scheduler is assumed.
- Storing a job and broadcasting it are one step (`JobDispatch` has them apart), and
  the messages that `sendNotifyForWithReason` sends before the job are one step.
- Extranonce notification, ping, saved-worker lookup, idle time-outs, message rate
  limits and the wording of answers are left out; a request that ends the session is
  `AuthorizeRefused`.

The parts of `services`
- The hashrate estimate of `Retarget` is exact and shares come evenly; what is
  checked is the loop, not its noise.  A hashrate may change once.
- In `DifficultyChange` the messages of one connection stay in order on the wire.
- `Admission`: the health verdict and a host's window of attempts change at any time;
  how job age and feed errors make the verdict is not modelled.
- `StratumV2`: whether a share meets its target is a choice.
- `BlockHistory`: one reorganisation, of one block.
- `SavedWorkers`, `WorkerHistory`, `BestShares`, `Backup`, `OneTimeCodes`: a statement
  or a transaction succeeds or leaves the table as it was.
- `LiveConfig`: two settings, one of them sensitive; parsing and validation are
  sequential and left out.
- `StatusCache`: one URL of each kind.

What the models showed of the code, which no property states because the code
promises nothing else:
- Accept path: the first byte is read without a deadline, so one silent connection
  stops its accept loop and the shutdown that waits for it (`main.go:932`).  V2
  connections are in no registry: `MaxConns` does not count them, although
  `config_examples.go:122` calls it the "maximum simultaneous Stratum connections
  allowed", and shutdown waits for them without closing them (`main.go:925`,
  `main.go:1007`).  `Admitted` bounds the registry only.  A miner whose first
  byte is awaited can register after the safeguard has disconnected the others.  The
  first byte of an encrypted V2 connection is peeked through a buffered reader, which
  takes all that has arrived, and the handshake then reads the connection itself
  (`main.go:933`, `main.go:958`): it waits, on the accept loop, for what is already in
  the buffer.
- Difficulty: two changes at once may end with a difficulty the miner was not told
  last (`miner_rejects.go:1543`); an announcement after a change is dropped when newer
  work was just sent.  That work can be judged by the new difficulty although it reached
  the miner before the miner was told.  The grace covers one such raise while it lasts; a
  lowered difficulty, a second dropped change or the end of the grace may cost shares
  until the next work.  The debounce measures the distance to the target by a
  ratio that it does not invert below one, so every step down counts as a near one
  (`shouldDelayVardiffAdjustment`).
- Stratum V2: a submission read before an error of the connection may be dropped; the
  reader can be left blocked on `submitCh`; a found block is submitted once, without
  persistence or a check of the result (`stratum_v2_conn.go:297`).
- Notifier: a check that is under way when the state is reset stores the old state
  again.  A line merged into the message that is being sent may be posted twice or
  never (`discord_notifier_queue.go:313`).  A line that does not fit stays in the map of
  the message before, which had a map already: it is posted twice in a row when its user
  is in the list of that message, and a line counted as dropped may be posted.
- One-time codes: a code redeemed while the codes are being saved at shutdown is valid
  again after the start (`one_time_code.go:337`).
- Backup: when the local copy fails, the snapshot version still advances, and a later
  retry uploads the old copy as the new version (`backblaze_backup.go:382`).
- Saved workers: a second user who saves the same worker starts from zero; a failed
  last flush is merged back and lost with the process
  (`worker_list_store_bestdiff.go:130`).
- RPC client: a cookie written between the reading of the configuration and the
  creation of the client (`main.go:177`, `main.go:439`) is stamped and never read.
- Statistics: a share counted directly because the queue is full can bring the
  hashrate of a closed connection back.  Two writers of the best shares may end with
  the older copy in the table.
- Configuration: `SIGUSR2` while an administrator's save has moved `config.toml` aside
  ends the process; a stop in that window leaves the `.bak` only, and two saves at once
  can lose both.  A reload reaches the status server and not the jobs, until the next
  apply.  Applies and log flags are read, changed and written without a lock.
- Block history: a late raw-block message together with the loss of a newer one
  leaves an old tip on the page until the next block; a template raises the height
  while the hash stays.
- Status pages: a page rendered before the cache was cleared and stored after it stays
  until the next clearing (`status_server_cache.go:82-130`).

Not modelled, and why
- Block and coinbase encoding, hashing: byte-level pure functions, compared with other
  implementations by the repository's tests.
- Stratum V2 encryption: cryptography over a byte stream without shared state.
- The contents of pages, templates and chat messages, forms, log wording: presentation.
- Parsing, defaults and validation of the configuration: sequential, once at start.
- TLS, ACME, HTTP serving and transports, ZMQ sockets: I/O of libraries.
- Ban thresholds and windows, RPC statistics, worker profiles, login limits: counters of
  one owner under one lock, where the models have a choice at any time instead.
