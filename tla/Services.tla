------------------------------ MODULE Services ------------------------------
(***************************************************************************)
(* The components that share no state with each other: a behaviour chooses *)
(* a component and stays with it, the rest keeps its initial state.  The   *)
(* properties are those of the components, joined by what they are about.  *)
(***************************************************************************)
EXTENDS Retarget, DifficultyChange, Admission, AcceptLimiter, Sv2Codec,
        StratumV2, WorkerNotify, PingQueue, OneTimeCodes, WorkerHistory,
        Backup, SavedWorkers, RpcClient, ConnStats, BestShares, LiveConfig,
        BlockHistory, StatusCache, FoundBlockLog

VARIABLE part

Parts == {"retarget", "difficulty", "admission", "limiter", "codec", "v2", "notify",
          "pings", "codes", "periods", "backup", "saved", "rpc", "stats", "best",
          "config", "history", "pages", "audit"}

servicesVars == <<part, retargetVars, difficultyVars, admissionVars, limiterVars,
                  codecVars, v2Vars, notifyVars, pingVars, codeVars, periodsVars,
                  backupVars, savedVars, rpcVars, statVars, bestVars,
                  liveConfigVars, historyVars, cacheVars, auditVars>>

ServicesInit ==
    /\ part \in Parts
    /\ RetargetInit /\ DifficultyInit /\ AdmissionInit /\ LimiterInit /\ CodecInit
    /\ V2Init /\ WorkerNotifyInit /\ PingInit /\ CodesInit /\ PeriodsInit
    /\ BackupInit /\ SavedInit /\ RpcInit /\ StatsInit /\ BestInit
    /\ LiveConfigInit /\ HistoryInit /\ CacheInit /\ AuditInit

\* The components that are not p keep their state.
Others(p) ==
    /\ part = p /\ part' = p
    /\ p # "retarget" => UNCHANGED retargetVars
    /\ p # "difficulty" => UNCHANGED difficultyVars
    /\ p # "admission" => UNCHANGED admissionVars
    /\ p # "limiter" => UNCHANGED limiterVars
    /\ p # "codec" => UNCHANGED codecVars
    /\ p # "v2" => UNCHANGED v2Vars
    /\ p # "notify" => UNCHANGED notifyVars
    /\ p # "pings" => UNCHANGED pingVars
    /\ p # "codes" => UNCHANGED codeVars
    /\ p # "periods" => UNCHANGED periodsVars
    /\ p # "backup" => UNCHANGED backupVars
    /\ p # "saved" => UNCHANGED savedVars
    /\ p # "rpc" => UNCHANGED rpcVars
    /\ p # "stats" => UNCHANGED statVars
    /\ p # "best" => UNCHANGED bestVars
    /\ p # "config" => UNCHANGED liveConfigVars
    /\ p # "history" => UNCHANGED historyVars
    /\ p # "pages" => UNCHANGED cacheVars
    /\ p # "audit" => UNCHANGED auditVars

ServicesNext ==
    \/ Others("retarget") /\ RetargetNext
    \/ Others("difficulty") /\ DifficultyNext
    \/ Others("admission") /\ AdmissionNext
    \/ Others("limiter") /\ LimiterNext
    \/ Others("codec") /\ CodecNext
    \/ Others("v2") /\ V2Next
    \/ Others("notify") /\ WorkerNotifyNext
    \/ Others("pings") /\ PingNext
    \/ Others("codes") /\ CodesNext
    \/ Others("periods") /\ PeriodsNext
    \/ Others("backup") /\ BackupNext
    \/ Others("saved") /\ SavedNext
    \/ Others("rpc") /\ RpcNext
    \/ Others("stats") /\ StatsNext
    \/ Others("best") /\ BestNext
    \/ Others("config") /\ LiveConfigNext
    \/ Others("history") /\ HistoryNext
    \/ Others("pages") /\ CacheNext
    \/ Others("audit") /\ AuditNext

ServicesSpec == ServicesInit /\ [][ServicesNext]_servicesVars

-----------------------------------------------------------------------------
\* Every variable of every component keeps its type.
ServicesTypeOK ==
    /\ RetargetTypeOK /\ DifficultyTypeOK /\ AdmissionTypeOK /\ LimiterTypeOK
    /\ V2TypeOK /\ WorkerNotifyTypeOK /\ PingTypeOK /\ CodesTypeOK /\ PeriodsTypeOK
    /\ BackupTypeOK /\ SavedTypeOK /\ RpcTypeOK /\ StatsTypeOK /\ BestTypeOK
    /\ LiveConfigTypeOK /\ BlockHistoryTypeOK /\ CacheTypeOK /\ AuditTypeOK

\* The way in: no connection past the gates and limits, no token spent twice
\* (main.go, accept_rate_limiter.go).
Admitted == AdmissionSafe /\ AcceptsBounded

\* Stratum V2: what is written is what is read, and every submission is answered
\* in turn (stratum_v2_frame.go, stratum_v2_conn.go).
V2Faithful == CodecRoundTrips /\ SubmissionsAnsweredInOrder

\* What is stored agrees with what is in memory, across faults and restarts
\* (one_time_code.go, backblaze_backup.go, worker_list_store*.go, config_*.go).
StorageAgrees ==
    SpentCodesStaySpent /\ UploadIsNotOverstated /\ SavedWorkersAgree /\ ConfigHolds

\* What is counted, ranked and logged happened, and is counted once
\* (status_workers_saved.go, miner_stats.go, metrics.go, found_block_async.go).
StatisticsTrue == HistoryIsTrue /\ CountsAgree /\ BestSharesKept /\ AuditComplete

\* Users hear of what lasted, in the order it happened (discord_notifier*.go).
NotificationsTrue == PingsOnSustainedChange /\ PostsInOrder

\* What the status pages show of the node and the pool is current
\* (job_manager.go, status_*cache.go, rpc.go).
PagesTrue == ShownTipIsBest /\ PagesAreRecent /\ CookieAndHealthAgree
=============================================================================
