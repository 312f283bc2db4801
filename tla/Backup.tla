------------------------------- MODULE Backup -------------------------------
(***************************************************************************)
(* Backups of the state database (backblaze_backup.go).                    *)
(*                                                                         *)
(* Triggers count the changes of the database in a version; backup_state   *)
(* is not one of the tables they watch.  A run takes a snapshot when the   *)
(* version moved, copies it next to the database, and uploads it; when     *)
(* only the upload is missing, it uploads the copy.  What was done is kept *)
(* in memory and in backup_state.  Writes, faults and a stop of the        *)
(* process come between any two steps.                                     *)
(***************************************************************************)
EXTENDS Integers

CONSTANTS
    CloudEnabled,     \* b2Enabled
    KeepsCopy,        \* snapshotPath is set
    ForceInterval,    \* force_every_interval
    MaxVersion, MaxBackupFaults, MaxBackupStops

ASSUME BackupAssumption ==
    /\ CloudEnabled \in BOOLEAN /\ KeepsCopy \in BOOLEAN /\ ForceInterval \in BOOLEAN
    /\ CloudEnabled \/ KeepsCopy
    /\ MaxVersion \in Nat \ {0} /\ MaxBackupFaults \in Nat /\ MaxBackupStops \in Nat

VARIABLES
    version,        \* db_change_state
    lastSnapshot, lastUpload,     \* the versions in memory
    snapshotRow, uploadRow,       \* those in backup_state
    localCopy,      \* the version in the local copy, 0 for none
    remote,         \* the version in the bucket, 0 for none
    bucket,         \* the bucket was reachable when it was last tried
    backup,         \* the run in progress: its step, and the version it uploads
    copyFailed,     \* a local copy could not be written
    backupFaults, backupStops

backupVars == <<version, lastSnapshot, lastUpload, snapshotRow, uploadRow, localCopy, remote,
                bucket, backup, copyFailed, backupFaults, backupStops>>

NoBackup == [step |-> "none", source |-> 0]

BackupTypeOK ==
    /\ version \in 1..MaxVersion
    /\ {lastSnapshot, lastUpload, snapshotRow, uploadRow, localCopy, remote} \subseteq 0..version
    /\ bucket \in BOOLEAN /\ copyFailed \in BOOLEAN
    /\ backup.step \in {"none", "snapshot", "stamp", "upload", "uploaded"}
    /\ backup.source \in 0..version
    /\ backupFaults \in 0..MaxBackupFaults /\ backupStops \in 0..MaxBackupStops

BackupInit ==
    /\ version = 1 /\ lastSnapshot = 0 /\ lastUpload = 0 /\ snapshotRow = 0 /\ uploadRow = 0
    /\ localCopy = 0 /\ remote = 0 /\ bucket = FALSE /\ backup = NoBackup /\ copyFailed = FALSE
    /\ backupFaults = 0 /\ backupStops = 0

Works(ok) == ok \/ backupFaults < MaxBackupFaults
Count(ok) == backupFaults' = IF ok THEN backupFaults ELSE backupFaults + 1

-----------------------------------------------------------------------------
\* Another component writes to the database; the operator may remove the copy.
Write ==
    /\ version < MaxVersion /\ version' = version + 1
    /\ UNCHANGED <<lastSnapshot, lastUpload, snapshotRow, uploadRow, localCopy, remote, bucket,
                   backup, copyFailed, backupFaults, backupStops>>
CopyRemoved ==
    /\ localCopy > 0 /\ localCopy' = 0 /\ Works(FALSE) /\ Count(FALSE)
    /\ UNCHANGED <<version, lastSnapshot, lastUpload, snapshotRow, uploadRow, remote, bucket,
                   backup, copyFailed, backupStops>>

\* runLocked: the bucket is tried again, and it is decided what to do.  Reading the
\* version may fail, which counts as a change.
BeginBackup(force, reachable, read) ==
    /\ backup.step = "none" /\ Works(read) /\ Count(read)
    /\ (CloudEnabled \/ ~reachable) /\ (bucket => reachable) /\ bucket' = reachable
    /\ LET dirty == ~read \/ lastSnapshot = 0 \/ version # lastSnapshot
           retry == CloudEnabled /\ reachable /\ lastSnapshot > 0 /\ lastUpload # lastSnapshot
           needed == force \/ ForceInterval \/ dirty \/ (retry /\ localCopy = 0)
       IN  backup' = CASE needed -> [NoBackup EXCEPT !.step = "snapshot"]
                       [] ~needed /\ retry -> [step |-> "upload", source |-> localCopy]
                       [] OTHER -> NoBackup
    /\ UNCHANGED <<version, lastSnapshot, lastUpload, snapshotRow, uploadRow, localCopy, remote,
                   copyFailed, backupStops>>

\* snapshotWorkerDB, and atomicCopyFile to the local copy
TakeSnapshot(ok, copies) ==
    /\ backup.step = "snapshot" /\ Works(ok /\ copies) /\ Count(ok /\ copies)
    /\ (~copies => ok /\ KeepsCopy)
    /\ IF ~ok
       THEN backup' = NoBackup /\ UNCHANGED <<lastSnapshot, localCopy, copyFailed>>
       ELSE /\ backup' = [step |-> "stamp", source |-> version]
            /\ lastSnapshot' = version
            /\ localCopy' = IF KeepsCopy /\ copies THEN version ELSE localCopy
            /\ copyFailed' = (copyFailed \/ ~copies)
    /\ UNCHANGED <<version, lastUpload, snapshotRow, uploadRow, remote, bucket, backupStops>>

\* writeLastBackupStampToDB; its failure is only logged.
StampSnapshot(ok) ==
    /\ backup.step = "stamp" /\ Works(ok) /\ Count(ok)
    /\ snapshotRow' = IF ok THEN lastSnapshot ELSE snapshotRow
    /\ backup' = IF bucket THEN [backup EXCEPT !.step = "upload"] ELSE NoBackup
    /\ UNCHANGED <<version, lastSnapshot, lastUpload, uploadRow, localCopy, remote, bucket,
                   copyFailed, backupStops>>

\* upload; opening a copy that is gone fails.
Upload(ok) ==
    /\ backup.step = "upload" /\ (Works(ok) \/ backup.source = 0) /\ (ok => backup.source > 0)
    /\ Count(ok \/ backup.source = 0)
    /\ IF ok THEN /\ remote' = backup.source /\ lastUpload' = lastSnapshot
                  /\ backup' = [backup EXCEPT !.step = "uploaded"]
             ELSE backup' = NoBackup /\ UNCHANGED <<remote, lastUpload>>
    /\ UNCHANGED <<version, lastSnapshot, snapshotRow, uploadRow, localCopy, bucket, copyFailed,
                   backupStops>>

StampUpload(ok) ==
    /\ backup.step = "uploaded" /\ Works(ok) /\ Count(ok)
    /\ uploadRow' = IF ok THEN lastUpload ELSE uploadRow
    /\ backup' = NoBackup
    /\ UNCHANGED <<version, lastSnapshot, lastUpload, snapshotRow, localCopy, remote, bucket,
                   copyFailed, backupStops>>

\* The process stops, and starts with what backup_state says.
StopAndStart ==
    /\ backupStops < MaxBackupStops /\ backupStops' = backupStops + 1
    /\ backup' = NoBackup /\ bucket' = FALSE
    /\ lastSnapshot' = snapshotRow /\ lastUpload' = uploadRow
    /\ UNCHANGED <<version, snapshotRow, uploadRow, localCopy, remote, copyFailed, backupFaults>>

BackupNext ==
    \/ Write \/ CopyRemoved \/ StopAndStart
    \/ \E force, reachable, read \in BOOLEAN : BeginBackup(force, reachable, read)
    \/ \E ok, copies \in BOOLEAN : TakeSnapshot(ok, copies)
    \/ \E ok \in BOOLEAN : StampSnapshot(ok) \/ Upload(ok) \/ StampUpload(ok)

BackupSpec == BackupInit /\ [][BackupNext]_backupVars

-----------------------------------------------------------------------------
(* What counts as uploaded is in the bucket, in that version or a newer     *)
(* one, across failures and restarts, as long as every local copy could be  *)
(* written: a snapshot without its copy is later uploaded from the old one  *)
(* and stamped as the new one.  When nothing is left to do, the bucket      *)
(* holds the database as it is (runLocked).                                 *)
UploadIsNotOverstated ==
    ~copyFailed => /\ remote >= lastUpload /\ remote >= uploadRow
                   /\ CloudEnabled /\ backup.step = "none"
                         /\ lastSnapshot = version /\ lastUpload = version => remote = version
=============================================================================
