-------------------------- MODULE Services_proofs --------------------------
(* Proofs about Services: the properties of the run, from those of the components. *)
EXTENDS Services, Interfaces_proofs, Records_proofs, TLAPS

LEMMA RetargetPart == ServicesSpec => RetargetSpec
<1>1. ServicesInit => RetargetInit
  BY DEF ServicesInit
<1>2. [ServicesNext]_servicesVars => [RetargetNext]_retargetVars
  BY DEF ServicesNext, Others, servicesVars
<1> QED
  BY <1>1, <1>2, PTL DEF ServicesSpec, RetargetSpec

LEMMA DifficultyPart == ServicesSpec => DifficultySpec
<1>1. ServicesInit => DifficultyInit
  BY DEF ServicesInit
<1>2. [ServicesNext]_servicesVars => [DifficultyNext]_difficultyVars
  BY DEF ServicesNext, Others, servicesVars
<1> QED
  BY <1>1, <1>2, PTL DEF ServicesSpec, DifficultySpec

LEMMA AdmissionPart == ServicesSpec => AdmissionSpec
<1>1. ServicesInit => AdmissionInit
  BY DEF ServicesInit
<1>2. [ServicesNext]_servicesVars => [AdmissionNext]_admissionVars
  BY DEF ServicesNext, Others, servicesVars
<1> QED
  BY <1>1, <1>2, PTL DEF ServicesSpec, AdmissionSpec

LEMMA LimiterPart == ServicesSpec => LimiterSpec
<1>1. ServicesInit => LimiterInit
  BY DEF ServicesInit
<1>2. [ServicesNext]_servicesVars => [LimiterNext]_limiterVars
  BY DEF ServicesNext, Others, servicesVars
<1> QED
  BY <1>1, <1>2, PTL DEF ServicesSpec, LimiterSpec

LEMMA CodecPart == ServicesSpec => CodecSpec
<1>1. ServicesInit => CodecInit
  BY DEF ServicesInit
<1>2. [ServicesNext]_servicesVars => [CodecNext]_codecVars
  BY DEF ServicesNext, Others, servicesVars
<1> QED
  BY <1>1, <1>2, PTL DEF ServicesSpec, CodecSpec

LEMMA V2Part == ServicesSpec => V2Spec
<1>1. ServicesInit => V2Init
  BY DEF ServicesInit
<1>2. [ServicesNext]_servicesVars => [V2Next]_v2Vars
  BY DEF ServicesNext, Others, servicesVars
<1> QED
  BY <1>1, <1>2, PTL DEF ServicesSpec, V2Spec

LEMMA WorkerNotifyPart == ServicesSpec => WorkerNotifySpec
<1>1. ServicesInit => WorkerNotifyInit
  BY DEF ServicesInit
<1>2. [ServicesNext]_servicesVars => [WorkerNotifyNext]_notifyVars
  BY DEF ServicesNext, Others, servicesVars
<1> QED
  BY <1>1, <1>2, PTL DEF ServicesSpec, WorkerNotifySpec

LEMMA PingPart == ServicesSpec => PingSpec
<1>1. ServicesInit => PingInit
  BY DEF ServicesInit
<1>2. [ServicesNext]_servicesVars => [PingNext]_pingVars
  BY DEF ServicesNext, Others, servicesVars
<1> QED
  BY <1>1, <1>2, PTL DEF ServicesSpec, PingSpec

LEMMA CodesPart == ServicesSpec => CodesSpec
<1>1. ServicesInit => CodesInit
  BY DEF ServicesInit
<1>2. [ServicesNext]_servicesVars => [CodesNext]_codeVars
  BY DEF ServicesNext, Others, servicesVars
<1> QED
  BY <1>1, <1>2, PTL DEF ServicesSpec, CodesSpec

LEMMA PeriodsPart == ServicesSpec => PeriodsSpec
<1>1. ServicesInit => PeriodsInit
  BY DEF ServicesInit
<1>2. [ServicesNext]_servicesVars => [PeriodsNext]_periodsVars
  BY DEF ServicesNext, Others, servicesVars
<1> QED
  BY <1>1, <1>2, PTL DEF ServicesSpec, PeriodsSpec

LEMMA BackupPart == ServicesSpec => BackupSpec
<1>1. ServicesInit => BackupInit
  BY DEF ServicesInit
<1>2. [ServicesNext]_servicesVars => [BackupNext]_backupVars
  BY DEF ServicesNext, Others, servicesVars
<1> QED
  BY <1>1, <1>2, PTL DEF ServicesSpec, BackupSpec

LEMMA SavedPart == ServicesSpec => SavedSpec
<1>1. ServicesInit => SavedInit
  BY DEF ServicesInit
<1>2. [ServicesNext]_servicesVars => [SavedNext]_savedVars
  BY DEF ServicesNext, Others, servicesVars
<1> QED
  BY <1>1, <1>2, PTL DEF ServicesSpec, SavedSpec

LEMMA RpcPart == ServicesSpec => RpcSpec
<1>1. ServicesInit => RpcInit
  BY DEF ServicesInit
<1>2. [ServicesNext]_servicesVars => [RpcNext]_rpcVars
  BY DEF ServicesNext, Others, servicesVars
<1> QED
  BY <1>1, <1>2, PTL DEF ServicesSpec, RpcSpec

LEMMA StatsPart == ServicesSpec => StatsSpec
<1>1. ServicesInit => StatsInit
  BY DEF ServicesInit
<1>2. [ServicesNext]_servicesVars => [StatsNext]_statVars
  BY DEF ServicesNext, Others, servicesVars
<1> QED
  BY <1>1, <1>2, PTL DEF ServicesSpec, StatsSpec

LEMMA BestPart == ServicesSpec => BestSpec
<1>1. ServicesInit => BestInit
  BY DEF ServicesInit
<1>2. [ServicesNext]_servicesVars => [BestNext]_bestVars
  BY DEF ServicesNext, Others, servicesVars
<1> QED
  BY <1>1, <1>2, PTL DEF ServicesSpec, BestSpec

LEMMA LiveConfigPart == ServicesSpec => LiveConfigSpec
<1>1. ServicesInit => LiveConfigInit
  BY DEF ServicesInit
<1>2. [ServicesNext]_servicesVars => [LiveConfigNext]_liveConfigVars
  BY DEF ServicesNext, Others, servicesVars
<1> QED
  BY <1>1, <1>2, PTL DEF ServicesSpec, LiveConfigSpec

LEMMA HistoryPart == ServicesSpec => HistorySpec
<1>1. ServicesInit => HistoryInit
  BY DEF ServicesInit
<1>2. [ServicesNext]_servicesVars => [HistoryNext]_historyVars
  BY DEF ServicesNext, Others, servicesVars
<1> QED
  BY <1>1, <1>2, PTL DEF ServicesSpec, HistorySpec

LEMMA CachePart == ServicesSpec => CacheSpec
<1>1. ServicesInit => CacheInit
  BY DEF ServicesInit
<1>2. [ServicesNext]_servicesVars => [CacheNext]_cacheVars
  BY DEF ServicesNext, Others, servicesVars
<1> QED
  BY <1>1, <1>2, PTL DEF ServicesSpec, CacheSpec

LEMMA AuditPart == ServicesSpec => AuditSpec
<1>1. ServicesInit => AuditInit
  BY DEF ServicesInit
<1>2. [ServicesNext]_servicesVars => [AuditNext]_auditVars
  BY DEF ServicesNext, Others, servicesVars
<1> QED
  BY <1>1, <1>2, PTL DEF ServicesSpec, AuditSpec

-----------------------------------------------------------------------------
(* The accept path keeps its limits: gates, capacity and rate, whatever the *)
(* other components do (main.go, accept_rate_limiter.go).                   *)
THEOREM AdmittedHolds == ServicesSpec => []Admitted
<1> QED
  BY AdmissionPart, LimiterPart, AdmissionIsSafe, AcceptsAreBounded, PTL DEF Admitted

(* A header walk never takes the shown tip back behind a block announced    *)
(* meanwhile (job_manager.go).                                              *)
THEOREM TipNotRolledBack == ServicesSpec => NoRollback
<1> QED
  BY HistoryPart, WalkNeverRollsBack, PTL

(* A connection's honest shares are accepted across a change of difficulty,  *)
(* whatever the other components do (miner_rejects.go).                      *)
THEOREM HonestShares == ServicesSpec => []HonestShareAccepted
<1> QED
  BY DifficultyPart, HonestSharesAccepted, PTL

(* Stratum V2: messages are read as they were written, whole or not at all,  *)
(* and every submission is answered in turn (stratum_v2_frame.go,            *)
(* stratum_v2_types.go, stratum_v2_conn.go).                                 *)
THEOREM V2FaithfulHolds == ServicesSpec => []V2Faithful
<1> QED
  BY CodecPart, V2Part, CodecRoundTripsHolds, AnsweredInOrder, PTL DEF V2Faithful

(* The status pages show the tip the node has announced or walked to, recent *)
(* snapshots, and the node's health as the RPC client found it               *)
(* (job_manager.go, status_snapshot.go, rpc.go).                             *)
THEOREM PagesTrueHolds == ServicesSpec => []PagesTrue
<1> QED
  BY HistoryPart, CachePart, RpcPart, TipShownAtRest, PagesRecentHold, CookieAndHealthHold,
     PTL DEF PagesTrue

(* Codes, uploads, saved workers and settings in the databases and files     *)
(* agree with the memory, across faults and restarts (one_time_code.go,      *)
(* backblaze_backup.go, worker_list_store_saved.go, config_load.go).         *)
THEOREM StorageAgreesHolds == ServicesSpec => []StorageAgrees
<1> QED
  BY CodesPart, BackupPart, SavedPart, LiveConfigPart, SpentCodesRefused, UploadsNotOverstated,
     SavedWorkersHold, ConfigurationHolds, PTL DEF StorageAgrees

(* Samples, counters, best shares and the audit log tell what happened, once *)
(* (status_saved_worker_periods.go, miner_stats.go, metrics.go,              *)
(* found_block_async.go).                                                    *)
THEOREM StatisticsTrueHolds == ServicesSpec => []StatisticsTrue
<1> QED
  BY PeriodsPart, StatsPart, BestPart, AuditPart, HistoryTruthful, CountsHold, BestSharesHold,
     LogIsComplete, PTL DEF StatisticsTrue

(* Users are pinged for what lasted, and read their lines in order           *)
(* (discord_notifier_poll.go, discord_notifier_queue.go).                    *)
THEOREM NotificationsTrueHolds == ServicesSpec => []NotificationsTrue
<1> QED
  BY WorkerNotifyPart, PingPart, SustainedChangesPinged, PostsKeepOrder, PTL DEF NotificationsTrue

(* Every variable of every component keeps its type, side by side with the   *)
(* others.                                                                   *)
THEOREM ServicesTypesCorrect == ServicesSpec => []ServicesTypeOK
<1>1. ServicesSpec => [](RetargetTypeOK /\ DifficultyTypeOK /\ AdmissionTypeOK /\ LimiterTypeOK)
  BY RetargetPart, DifficultyPart, AdmissionPart, LimiterPart, RetargetTypesCorrect,
     DifficultyTypesCorrect, AdmissionTypesCorrect, LimiterTypesCorrect, PTL
<1>2. ServicesSpec => [](V2TypeOK /\ WorkerNotifyTypeOK /\ PingTypeOK /\ CodesTypeOK)
  BY V2Part, WorkerNotifyPart, PingPart, CodesPart, V2TypesCorrect, NotifyTypesCorrect,
     PingTypesCorrect, CodesTypesCorrect, PTL
<1>3. ServicesSpec => [](PeriodsTypeOK /\ BackupTypeOK /\ SavedTypeOK /\ RpcTypeOK)
  BY PeriodsPart, BackupPart, SavedPart, RpcPart, PeriodTypesCorrect, BackupTypesCorrect,
     SavedTypesCorrect, RpcTypesCorrect, PTL
<1>4. ServicesSpec => [](StatsTypeOK /\ BestTypeOK /\ LiveConfigTypeOK)
  BY StatsPart, BestPart, LiveConfigPart, StatsTypesCorrect, BestTypesCorrect, ConfigTypesCorrect,
     PTL
<1>5. ServicesSpec => [](BlockHistoryTypeOK /\ CacheTypeOK /\ AuditTypeOK)
  BY HistoryPart, CachePart, AuditPart, HistoryTypesCorrect, CacheTypesCorrect, AuditTypesCorrect,
     PTL
<1> QED
  BY <1>1, <1>2, <1>3, <1>4, <1>5, PTL DEF ServicesTypeOK
=============================================================================
