----------------------------- MODULE StratumV2 -----------------------------
(***************************************************************************)
(* One Stratum V2 connection (stratum_v2_conn.go).                         *)
(*                                                                         *)
(* After set-up and the opening of its channel the connection has two      *)
(* goroutines: a reader that decodes submissions into submitCh, and the    *)
(* main loop, which selects among read errors, jobs of the job feed and    *)
(* submissions.  Whichever is ready may be chosen.  The end of the main    *)
(* loop closes the connection.                                             *)
(***************************************************************************)
EXTENDS Integers, Sequences, FiniteSets

CONSTANTS
    SubmitCap,     \* capacity of submitCh
    MaxV2Jobs,     \* bound on the jobs published
    MaxSubmits     \* bound on the submissions of the miner

ASSUME StratumV2Assumption ==
    SubmitCap \in Nat \ {0} /\ MaxV2Jobs \in Nat /\ MaxSubmits \in Nat

VARIABLES
    phase,       \* handle: "setup", "open", "send", "loop" or "closed"
    published,   \* the newest job of the job feed
    jobCh,       \* jobs in the subscription's channel
    sending,     \* the job whose second message is still to be written, or 0
    activeJobs,  \* c.activeJobs
    toMiner,     \* frames written to the miner
    fromMiner,   \* submissions on the connection: [job, low]
    gone,        \* the miner has closed the connection
    reader,      \* the reader: "off", "reading", "blocked" or "ended"
    held,        \* the submission the reader has decoded
    submitCh, errCh,
    submits      \* submissions so far, with what became of them

v2Vars == <<phase, published, jobCh, sending, activeJobs, toMiner, fromMiner, gone,
            reader, held, submitCh, errCh, submits>>

NoSubmit == [seq |-> 0, job |-> 0, share |-> "none"]
Shares == {"low", "share"}   \* a block is a share, submitted once, whatever comes of it
Answers == {"job-not-found", "low-difficulty", "success"}
JobFrame(j) == [type |-> "job", id |-> j, answer |-> "none"]
AnswerFrame(s, a) == [type |-> "answer", id |-> s, answer |-> a]

V2TypeOK ==
    /\ phase \in {"setup", "open", "send", "loop", "closed"}
    /\ published \in 0..MaxV2Jobs /\ jobCh \subseteq 1..MaxV2Jobs
    /\ sending \in 0..MaxV2Jobs /\ activeJobs \subseteq 1..MaxV2Jobs
    /\ gone \in BOOLEAN /\ reader \in {"off", "reading", "blocked", "ended"}
    /\ Len(submitCh) <= SubmitCap /\ errCh \in BOOLEAN /\ submits \in 0..MaxSubmits

V2Init ==
    /\ phase = "setup" /\ published = 0 /\ jobCh = {} /\ sending = 0
    /\ activeJobs = {} /\ toMiner = <<>> /\ fromMiner = <<>> /\ gone = FALSE
    /\ reader = "off" /\ held = NoSubmit /\ submitCh = <<>> /\ errCh = FALSE
    /\ submits = 0

-----------------------------------------------------------------------------
\* SetupConnection: anything else, or another protocol, ends the connection.
Setup(ok) ==
    /\ phase = "setup" /\ phase' = IF ok THEN "open" ELSE "closed"
    /\ UNCHANGED <<published, jobCh, sending, activeJobs, toMiner, fromMiner, gone,
                   reader, held, submitCh, errCh, submits>>

\* OpenStandardMiningChannel, its answer, and Subscribe, which leaves the newest
\* job in the channel as CurrentJob does for the first sendJob
OpenChannel(ok) ==
    /\ phase = "open" /\ phase' = IF ok THEN "send" ELSE "closed"
    /\ UNCHANGED <<published, jobCh, sending, activeJobs, toMiner, fromMiner, gone,
                   reader, held, submitCh, errCh, submits>>

\* Mutant: a new job replaces the others.
StartSendAlone(j) ==
    /\ sending' = j /\ activeJobs' = {j}

\* sendJob: the job is stored before SetNewPrevHash and NewMiningJob are written.
StartSend(j) ==
    /\ sending' = j /\ activeJobs' = activeJobs \cup {j}

FirstJob ==
    /\ phase = "send" /\ sending = 0
    /\ IF published > 0 THEN StartSend(published) /\ UNCHANGED <<phase, reader>>
       ELSE phase' = "loop" /\ reader' = "reading" /\ UNCHANGED <<sending, activeJobs>>
    /\ UNCHANGED <<published, jobCh, toMiner, fromMiner, gone, held, submitCh, errCh, submits>>

\* The frames of the job are written, or the write fails and handle returns.
WriteJob(ok) ==
    /\ sending > 0 /\ phase \in {"send", "loop"} /\ (~ok => gone)
    /\ sending' = 0
    /\ toMiner' = IF ok THEN Append(toMiner, JobFrame(sending)) ELSE toMiner
    /\ phase' = IF ok THEN "loop" ELSE "closed"
    /\ reader' = IF ok /\ phase = "send" THEN "reading" ELSE reader
    /\ UNCHANGED <<published, jobCh, activeJobs, fromMiner, gone, held, submitCh, errCh, submits>>

Publish ==
    /\ published < MaxV2Jobs /\ published' = published + 1
    /\ jobCh' = IF phase \in {"send", "loop"} THEN jobCh \cup {published + 1} ELSE jobCh
    /\ UNCHANGED <<phase, sending, activeJobs, toMiner, fromMiner, gone, reader, held,
                   submitCh, errCh, submits>>

-----------------------------------------------------------------------------
\* The miner submits on a job it was sent, or on one it made up; then it may go.
MinerSubmits ==
    /\ ~gone /\ submits < MaxSubmits /\ submits' = submits + 1
    /\ \E j \in 0..MaxV2Jobs, share \in Shares :
         /\ j > 0 => \E i \in 1..Len(toMiner) : toMiner[i] = JobFrame(j)
         /\ fromMiner' = Append(fromMiner, [seq |-> submits', job |-> j, share |-> share])
    /\ UNCHANGED <<phase, published, jobCh, sending, activeJobs, toMiner, gone, reader,
                   held, submitCh, errCh>>
MinerGoes ==
    /\ ~gone /\ gone' = TRUE
    /\ UNCHANGED <<phase, published, jobCh, sending, activeJobs, toMiner, fromMiner,
                   reader, held, submitCh, errCh, submits>>

\* The reader goroutine
ReadSubmit ==
    /\ reader = "reading" /\ fromMiner # <<>>
    /\ held' = Head(fromMiner) /\ fromMiner' = Tail(fromMiner) /\ reader' = "blocked"
    /\ UNCHANGED <<phase, published, jobCh, sending, activeJobs, toMiner, gone, submitCh,
                   errCh, submits>>
PassSubmit ==
    /\ reader = "blocked" /\ Len(submitCh) < SubmitCap
    /\ submitCh' = Append(submitCh, held) /\ held' = NoSubmit /\ reader' = "reading"
    /\ UNCHANGED <<phase, published, jobCh, sending, activeJobs, toMiner, fromMiner,
                   gone, errCh, submits>>
ReadFails ==
    /\ reader = "reading" /\ \/ gone /\ fromMiner = <<>>
                             \/ phase = "closed"
    /\ reader' = "ended" /\ errCh' = TRUE
    /\ UNCHANGED <<phase, published, jobCh, sending, activeJobs, toMiner, fromMiner, gone,
                   held, submitCh, submits>>

-----------------------------------------------------------------------------
\* The main loop
TakeError ==
    /\ phase = "loop" /\ sending = 0 /\ errCh
    /\ phase' = "closed" /\ errCh' = FALSE
    /\ UNCHANGED <<published, jobCh, sending, activeJobs, toMiner, fromMiner, gone, reader,
                   held, submitCh, submits>>
TakeJob ==
    /\ phase = "loop" /\ sending = 0 /\ jobCh # {}
    /\ \E j \in jobCh : /\ \A k \in jobCh : j <= k
                        /\ jobCh' = jobCh \ {j} /\ StartSend(j)
    /\ UNCHANGED <<phase, published, toMiner, fromMiner, gone, reader, held, submitCh,
                   errCh, submits>>

\* handleSubmit, with sendShareSuccess and sendShareError
Answer(s) ==
    CASE s.job \notin activeJobs -> "job-not-found"
      [] s.job \in activeJobs /\ s.share = "low" -> "low-difficulty"
      [] OTHER -> "success"
HandleSubmit ==
    /\ phase = "loop" /\ sending = 0 /\ submitCh # <<>>
    /\ submitCh' = Tail(submitCh)
    /\ toMiner' = Append(toMiner, AnswerFrame(Head(submitCh).seq, Answer(Head(submitCh))))
    /\ UNCHANGED <<phase, published, jobCh, sending, activeJobs, fromMiner, gone, reader,
                   held, errCh, submits>>

V2Next ==
    \/ \E ok \in BOOLEAN : Setup(ok) \/ OpenChannel(ok) \/ WriteJob(ok)
    \/ FirstJob \/ Publish \/ MinerSubmits \/ MinerGoes
    \/ ReadSubmit \/ PassSubmit \/ ReadFails \/ TakeError \/ TakeJob \/ HandleSubmit

V2Spec == V2Init /\ [][V2Next]_v2Vars

-----------------------------------------------------------------------------
AnswersTo == {i \in 1..Len(toMiner) : toMiner[i].type = "answer"}

(* Submissions are answered once each and in the order they were sent; none *)
(* is skipped before a later one is answered.  A submission on a job the    *)
(* miner was sent is never "job-not-found", whatever jobs were written in   *)
(* between and however full submitCh is (sendJob, handleSubmit).            *)
SubmissionsAnsweredInOrder ==
    /\ \A i \in AnswersTo :
          toMiner[i].id = Cardinality({k \in AnswersTo : k <= i})
    /\ \A i \in 1..Len(toMiner) : toMiner[i].type = "job" => toMiner[i].id \in activeJobs
=============================================================================
