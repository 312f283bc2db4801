----------------------------- MODULE MinerSession -----------------------------
(***************************************************************************)
(* One Stratum V1 connection from the handshake to its clean-up            *)
(* (miner_auth.go, miner_conn.go, miner_io.go, and the difficulty and      *)
(* version-mask messages of miner_rejects.go).                             *)
(*                                                                         *)
(* Five goroutines act on the connection: its session loop, listenJobs, the*)
(* timer of the initial work, a submission worker that announces a new     *)
(* difficulty after a share, and whoever disconnects it from outside.  They*)
(* write to one socket; `told' and `work' are what the miner has read from *)
(* it.  Each goroutine has a label `pc', and `todo' holds the calls its    *)
(* handler still has to make; a call without an effect of its own is taken *)
(* off and nothing else happens.                                           *)
(*                                                                         *)
(* Jobs are numbered in the order in which the job manager publishes them  *)
(* (JobFeed, JobDispatch).  A mask is a set of bits.  Difficulties have no *)
(* value: only whether one is pending and whether the miner was told one.  *)
(***************************************************************************)
EXTENDS Integers, Sequences

CONSTANTS
    Workers,        \* worker names that pass every validation of authorize
    Hinted,         \* those whose name or password carries a difficulty
    Options,        \* what a miner may ask for in mining.configure: a mask, and
                    \* whether it also asks for a minimum above its difficulty
    JobMask,        \* the version mask of each job
    ConfigMask,     \* the mask of the pool's configuration
    HistoryLimit,   \* how many masks are remembered for block rescue
    ChanCap,        \* capacity of the subscription channel
    MaxJobs, MaxRequests, MaxShares,    \* bounds of a behaviour
    None

ASSUME BoundsAssumption ==
    /\ ChanCap \in Nat \ {0} /\ HistoryLimit \in Nat \ {0}
    /\ MaxJobs \in Nat /\ MaxRequests \in Nat /\ MaxShares \in Nat
ASSUME MaskAssumption == DOMAIN JobMask = 1..MaxJobs

Threads == {"session", "listener", "timer", "share", "admin"}

ASSUME NamesAssumption == None \notin Workers \cup Threads

VARIABLES
    subscribed, authorized, listenerOn, worker,     \* the handshake
    registered,                 \* the name under which the worker registry holds the connection
    scheduled, initialSent, suggestDone, hintMin,   \* the initial work and the hints
    pendingDifficulty,
    poolMask, minerMask, versionRoll, versionMask, pendingMask, history,
    lastJob, curJob, jobCh,
    notifyMu, closed, cleanup,
    told, work,                 \* what the miner has read from the socket
    pc, todo, job, mask, want,
    requests, shares

handshakeVars == <<subscribed, authorized, listenerOn, worker>>
initialVars   == <<scheduled, initialSent, suggestDone, hintMin>>
maskVars      == <<poolMask, minerMask, versionRoll, versionMask, pendingMask, history>>
feedVars      == <<curJob, jobCh>>
closeVars     == <<closed, cleanup>>
countVars     == <<requests, shares>>
vars == <<handshakeVars, registered, initialVars, pendingDifficulty, maskVars, lastJob, feedVars,
          notifyMu, closeVars, told, work, pc, todo, job, mask, want, countVars>>

\* The labels at which a goroutine holds notifyMu.
Notifying == {"setup", "notify"}
Locked == Notifying \cup {"register", "authCheck", "authWrite", "cfgWrite", "cfgMask"}
Labels == Locked \cup {"idle", "lockNotify", "authLock", "cfgLock", "subWrite",
                       "writeMask", "close", "unregister", "unsubscribe"}

Init ==
    /\ subscribed = FALSE /\ authorized = FALSE /\ listenerOn = FALSE /\ worker = None
    /\ registered = None
    /\ scheduled = "no" /\ initialSent = FALSE /\ suggestDone = FALSE /\ hintMin = FALSE
    /\ pendingDifficulty = FALSE
    /\ poolMask = ConfigMask /\ minerMask = {} /\ versionRoll = FALSE /\ versionMask = {}
    /\ pendingMask = FALSE /\ history = <<>>
    /\ lastJob = 0 /\ curJob = 0 /\ jobCh = <<>>
    /\ notifyMu = None /\ closed = FALSE /\ cleanup = "no"
    /\ told = [subscribed |-> FALSE, worker |-> None, difficulty |-> FALSE, mask |-> None]
    /\ work = [job |-> 0, worker |-> None]
    /\ pc = [t \in Threads |-> "idle"] /\ todo = [t \in Threads |-> <<>>]
    /\ job = [t \in Threads |-> 0] /\ mask = [t \in Threads |-> {}] /\ want = None
    /\ requests = 0 /\ shares = 0

-----------------------------------------------------------------------------
(* Goroutines, writes and the mask *)

Idle(t) == pc[t] = "idle" /\ todo[t] = <<>>

Go(t, label) == pc' = [pc EXCEPT ![t] = label]

\* The next call of t is taken off; the calls it makes come first.
Calls(t, call) == pc[t] = "idle" /\ todo[t] # <<>> /\ Head(todo[t]) = call
Then(t, calls) == todo' = [todo EXCEPT ![t] = calls \o Tail(todo[t])]
Return(t) == Then(t, <<>>) /\ pc' = pc
Run(t, calls) == todo' = [todo EXCEPT ![t] = calls] /\ Go(t, "idle")

\* A write may fail, and does once the session is closed: writeBytes publishes
\* the end of the session before the next writer, and the caller cleans up.
WriteFails(t) ==
    /\ closed' = TRUE
    /\ Go(t, "close") /\ todo' = [todo EXCEPT ![t] = <<>>]
    /\ UNCHANGED <<cleanup, told>>

Unlock == notifyMu' = None
Lock(t) == notifyMu = None /\ notifyMu' = t

\* rememberVersionMaskLocked: a repeated mask moves to the newest position.
Without(h, m) ==
    IF \E i \in 1..Len(h) : h[i] = m
    THEN LET i == CHOOSE i \in 1..Len(h) : h[i] = m
         IN  SubSeq(h, 1, i - 1) \o SubSeq(h, i + 1, Len(h))
    ELSE h
Remember(h, m) ==
    LET longer == Append(Without(h, m), m)
    IN  IF Len(longer) > HistoryLimit THEN Tail(longer) ELSE longer

\* Mutation: masks that arrive with a job are not remembered.
RememberNothing(m) == history
\* updateVersionMask remembers the mask while version rolling is on.
RememberUpdate(m) == IF versionRoll THEN Remember(history, m) ELSE history

Effective(m) == IF versionRoll THEN m \cap minerMask ELSE m
MaskChanges(m) == poolMask # m \/ versionMask # Effective(m)
UpdateVersionMask(m) ==
    /\ poolMask' = m
    /\ versionMask' = Effective(m)
    /\ history' = RememberUpdate(Effective(m))
    /\ UNCHANGED <<minerMask, versionRoll>>

-----------------------------------------------------------------------------
(* Requests of the miner, read by the session loop *)

Reads == Idle("session") /\ ~closed /\ requests < MaxRequests /\ requests' = requests + 1

\* handleSubscribeID.  A second subscribe is answered with an error and changes
\* nothing.  The mask of the current job is in force before a listener exists.
SubscribeMask ==
    IF curJob = 0 THEN UNCHANGED maskVars
    ELSE /\ UpdateVersionMask(JobMask[curJob])
         /\ pendingMask' = (pendingMask \/ (MaskChanges(JobMask[curJob]) /\ versionRoll))
Subscribe ==
    /\ Reads /\ ~subscribed
    /\ subscribed' = TRUE
    /\ SubscribeMask
    /\ Go("session", "subWrite")
    /\ UNCHANGED <<authorized, listenerOn, worker, registered, initialVars, pendingDifficulty,
                   lastJob, feedVars, notifyMu, closeVars, told, work, todo, job, mask, want,
                   shares>>

\* Mutation: the listener starts after the initial work.
StartWorkLate == <<"schedule", "initial", "listen">>
StartWork == <<"listen", "schedule", "initial">>

\* The answer, and then the work of a miner that authorized first.
SubscribeWrite ==
    /\ pc["session"] = "subWrite"
    /\ \/ /\ ~closed
          /\ told' = [told EXCEPT !.subscribed = TRUE]
          /\ Run("session", IF authorized THEN StartWork ELSE <<>>)
          /\ UNCHANGED closeVars
       \/ WriteFails("session")
    /\ UNCHANGED <<handshakeVars, registered, initialVars, pendingDifficulty, maskVars, lastJob,
                   feedVars, notifyMu, work, job, mask, want, countVars>>

\* handleAuthorizeID with a name, password, ban or difficulty hint that is refused;
\* a suggestion or a minimum out of enforced limits ends the session the same way.
AuthorizeRefused ==
    /\ Reads
    /\ Go("session", "close")
    /\ UNCHANGED <<handshakeVars, registered, initialVars, pendingDifficulty, maskVars, lastJob,
                   feedVars, notifyMu, closeVars, told, work, todo, job, mask, want, shares>>

\* handleAuthorizeID with a valid name.
Authorize(w) ==
    /\ Reads
    /\ want' = [worker |-> w]
    /\ Go("session", "authLock")
    /\ UNCHANGED <<handshakeVars, registered, initialVars, pendingDifficulty, maskVars, lastJob,
                   feedVars, notifyMu, closeVars, told, work, todo, job, mask, shares>>

\* Mutation: the new identity is published while a notify may be under way.
PublishUnlocked == worker' = want.worker /\ Go("session", "register") /\ UNCHANGED notifyMu

\* The ordering boundary between authorizations and jobs.
PublishIdentity ==
    /\ notifyMu = None
    /\ \/ closed /\ Go("session", "idle") /\ UNCHANGED <<worker, notifyMu>>
       \/ ~closed /\ Lock("session") /\ worker' = want.worker /\ Go("session", "register")
AuthorizeLock ==
    /\ pc["session"] = "authLock"
    /\ PublishIdentity
    /\ hintMin' = (hintMin \/ (~closed /\ want.worker \in Hinted))
    /\ UNCHANGED <<subscribed, authorized, listenerOn, registered, scheduled, initialSent,
                   suggestDone, pendingDifficulty,
                   maskVars, lastJob, feedVars, closeVars, told, work, todo, job, mask, want,
                   countVars>>

\* registerWorker: another name replaces the one the connection had.
Register ==
    /\ pc["session"] = "register"
    /\ registered' = want.worker
    /\ Go("session", "authCheck")
    /\ UNCHANGED <<handshakeVars, initialVars, pendingDifficulty, maskVars, lastJob, feedVars,
                   notifyMu, closeVars, told, work, todo, job, mask, want, countVars>>

\* Mutation: authorize does not look whether the connection was closed while it registered.
AuthorizeUnchecked ==
    Go("session", "authWrite") /\ authorized' = TRUE /\ UNCHANGED <<registered, notifyMu>>

\* Mutation: notifyMu is given up before the success response.
AuthorizeUnlocksEarly ==
    \/ closed /\ registered' = None /\ Unlock /\ Go("session", "idle") /\ UNCHANGED authorized
    \/ ~closed /\ authorized' = TRUE /\ Unlock /\ Go("session", "authWrite") /\ UNCHANGED registered

\* A close that passed its own unregister step while the worker was registered
\* is made good here.
AuthorizeCheck ==
    \/ closed /\ registered' = None /\ Unlock /\ Go("session", "idle") /\ UNCHANGED authorized
    \/ /\ ~closed /\ authorized' = TRUE /\ Go("session", "authWrite")
       /\ UNCHANGED <<registered, notifyMu>>
AuthorizeRegistered ==
    /\ pc["session"] = "authCheck"
    /\ AuthorizeCheck
    /\ UNCHANGED <<subscribed, listenerOn, worker, initialVars, pendingDifficulty, maskVars,
                   lastJob, feedVars, closeVars, told, work, todo, job, mask, want, countVars>>

\* Before subscribe an authorization starts nothing.
AfterAuthorize ==
    IF ~subscribed THEN <<>>
    ELSE <<"listen">> \o (IF want.worker \in Hinted THEN <<"suggest">> ELSE <<>>)
         \o <<"schedule", "initial">>
AuthorizeWrite ==
    /\ pc["session"] = "authWrite"
    /\ Unlock /\ want' = None
    /\ \/ /\ ~closed
          /\ told' = [told EXCEPT !.worker = want.worker]
          /\ Run("session", AfterAuthorize)
          /\ UNCHANGED closeVars
       \/ WriteFails("session")
    /\ UNCHANGED <<handshakeVars, registered, initialVars, pendingDifficulty, maskVars, lastJob,
                   feedVars, work, job, mask, countVars>>

\* handleConfigure; only the first minimum of a connection counts.
Configure(option) ==
    /\ Reads
    /\ want' = option
    /\ Go("session", "cfgLock")
    /\ UNCHANGED <<handshakeVars, registered, initialVars, pendingDifficulty, maskVars, lastJob,
                   feedVars, notifyMu, closeVars, told, work, todo, job, mask, shares>>

\* negotiateVersionRolling: an empty intersection leaves version rolling off.
Negotiate(m) ==
    /\ minerMask' = m
    /\ versionRoll' = (m \cap poolMask # {})
    /\ IF m \cap poolMask = {}
       THEN versionMask' = poolMask /\ pendingMask' = FALSE /\ UNCHANGED history
       ELSE versionMask' = m \cap poolMask /\ history' = Remember(history, m \cap poolMask)
            /\ UNCHANGED pendingMask
    /\ UNCHANGED poolMask
ConfigureLock ==
    /\ pc["session"] = "cfgLock" /\ notifyMu = None
    /\ \/ closed /\ Go("session", "idle") /\ UNCHANGED <<maskVars, notifyMu, hintMin, want>>
       \/ /\ ~closed
          /\ Lock("session") /\ Negotiate(want.mask) /\ Go("session", "cfgWrite")
          /\ hintMin' = (hintMin \/ want.floor)
          /\ want' = [want EXCEPT !.floor = @ /\ ~hintMin]
    /\ UNCHANGED <<handshakeVars, registered, scheduled, initialSent, suggestDone,
                   pendingDifficulty, lastJob, feedVars, closeVars, told, work, todo, job, mask,
                   countVars>>

AfterConfigure == (IF want.floor THEN <<"difficulty", "clean">> ELSE <<>>) \o <<"initial">>

\* The answer, and sendVersionMask: before subscribe the mask waits.
ConfigureWrite ==
    /\ pc["session"] = "cfgWrite"
    /\ \/ /\ ~closed
          /\ told' = [told EXCEPT !.mask = IF versionRoll THEN versionMask ELSE None]
          /\ pendingMask' = (pendingMask \/ (versionRoll /\ ~subscribed))
          /\ IF versionRoll /\ subscribed
             THEN Go("session", "cfgMask") /\ UNCHANGED <<todo, notifyMu, want>>
             ELSE Unlock /\ want' = None /\ Run("session", AfterConfigure)
          /\ UNCHANGED closeVars
       \/ WriteFails("session") /\ Unlock /\ want' = None /\ UNCHANGED pendingMask
    /\ UNCHANGED <<handshakeVars, registered, initialVars, pendingDifficulty, poolMask, minerMask,
                   versionRoll, versionMask, history, lastJob, feedVars, work, job, mask,
                   countVars>>
ConfigureMask ==
    /\ pc["session"] = "cfgMask"
    /\ Unlock /\ want' = None
    /\ \/ /\ ~closed
          /\ told' = [told EXCEPT !.mask = versionMask]
          /\ Run("session", AfterConfigure)
          /\ UNCHANGED closeVars
       \/ WriteFails("session")
    /\ pendingMask' = (pendingMask /\ closed)
    /\ UNCHANGED <<handshakeVars, registered, initialVars, pendingDifficulty, poolMask, minerMask,
                   versionRoll, versionMask, history, lastJob, feedVars, work, job, mask,
                   countVars>>

\* suggestDifficulty: only the first suggestion counts.
SuggestDifficulty ==
    /\ Reads /\ ~suggestDone
    /\ todo' = [todo EXCEPT !["session"] = <<"suggest">>]
    /\ UNCHANGED <<handshakeVars, registered, initialVars, pendingDifficulty, maskVars, lastJob,
                   feedVars, notifyMu, closeVars, told, work, pc, job, mask, want, shares>>

-----------------------------------------------------------------------------
(* Calls of the handlers *)

\* The subscription is drained before its listener starts; a closed channel ends
\* the handler.
Listen ==
    /\ Calls("session", "listen")
    /\ \/ listenerOn /\ Return("session") /\ UNCHANGED <<listenerOn, jobCh>>
       \/ ~listenerOn /\ cleanup = "done" /\ Run("session", <<>>) /\ jobCh' = <<>>
          /\ UNCHANGED listenerOn
       \/ /\ ~listenerOn /\ cleanup # "done"
          /\ Return("session") /\ jobCh' = <<>> /\ listenerOn' = TRUE
    /\ UNCHANGED <<subscribed, authorized, worker, registered, initialVars, pendingDifficulty,
                   maskVars, lastJob, curJob, notifyMu, closeVars, told, work, job, mask,
                   want, countVars>>

\* scheduleInitialWork
Schedule ==
    /\ Calls("session", "schedule") /\ Return("session")
    /\ scheduled' = IF scheduled = "no" /\ ~initialSent THEN "set" ELSE scheduled
    /\ UNCHANGED <<handshakeVars, registered, initialSent, suggestDone, hintMin, pendingDifficulty,
                   maskVars, lastJob, feedVars, notifyMu, closeVars, told, work, job, mask, want,
                   countVars>>

\* applySuggestedDifficulty
Suggest ==
    /\ Calls("session", "suggest") /\ pc' = pc
    /\ Then("session", IF suggestDone THEN <<>> ELSE <<"difficulty", "initial", "clean">>)
    /\ suggestDone' = TRUE
    /\ UNCHANGED <<handshakeVars, registered, scheduled, initialSent, hintMin, pendingDifficulty,
                   maskVars, lastJob, feedVars, notifyMu, closeVars, told, work, job, mask, want,
                   countVars>>

\* maybeSendInitialWork and sendInitialWork: whoever sets initialSent sends it.
Initial(t) ==
    /\ Calls(t, "initial") /\ pc' = pc
    /\ IF subscribed /\ authorized /\ listenerOn /\ ~initialSent
       THEN /\ initialSent' = TRUE
            /\ Then(t, (IF suggestDone THEN <<>> ELSE <<"difficulty">>)
                       \o <<"pendingDifficulty", "pendingMask", "firstJob">>)
       ELSE Then(t, <<>>) /\ UNCHANGED initialSent
    /\ UNCHANGED <<handshakeVars, registered, scheduled, suggestDone, hintMin, pendingDifficulty,
                   maskVars, lastJob, feedVars, notifyMu, closeVars, told, work, job, mask, want,
                   countVars>>

\* The first job; without one the refresh fails and the initial work is given up.
FirstJob(t) ==
    /\ Calls(t, "firstJob") /\ Then(t, <<>>)
    /\ IF curJob = 0 THEN UNCHANGED <<pc, job>>
       ELSE Go(t, "lockNotify") /\ job' = [job EXCEPT ![t] = curJob]
    /\ UNCHANGED <<handshakeVars, registered, initialVars, pendingDifficulty, maskVars, lastJob,
                   feedVars, notifyMu, closeVars, told, work, mask, want, countVars>>

\* maybeSendCleanJobAfterSuggest
CleanJob ==
    /\ Calls("session", "clean") /\ Then("session", <<>>)
    /\ IF initialSent /\ authorized /\ listenerOn /\ curJob # 0
       THEN Go("session", "lockNotify") /\ job' = [job EXCEPT !["session"] = curJob]
       ELSE UNCHANGED <<pc, job>>
    /\ UNCHANGED <<handshakeVars, registered, initialVars, pendingDifficulty, maskVars, lastJob,
                   feedVars, notifyMu, closeVars, told, work, mask, want, countVars>>

\* sendDifficultyNotification; difficulties have no value here, so storing and
\* sending one is a single step.
TellDifficulty(t) ==
    \/ ~closed /\ told' = [told EXCEPT !.difficulty = TRUE] /\ Return(t) /\ UNCHANGED closeVars
    \/ WriteFails(t)

\* setDifficulty: before subscribe the difficulty waits.
SetDifficulty(t) ==
    /\ Calls(t, "difficulty")
    /\ \/ subscribed /\ ~closed /\ pendingDifficulty' = FALSE /\ TellDifficulty(t)
       \/ ~subscribed /\ pendingDifficulty' = TRUE /\ Return(t) /\ UNCHANGED <<told, closeVars>>
       \/ subscribed /\ closed /\ Return(t) /\ UNCHANGED <<pendingDifficulty, told, closeVars>>
    /\ UNCHANGED <<handshakeVars, registered, initialVars, maskVars, lastJob, feedVars, notifyMu,
                   work, job, mask, want, countVars>>

\* The two halves of sendPendingStratumSetup, where it is called without notifyMu.
PendingDifficulty(t) ==
    /\ Calls(t, "pendingDifficulty")
    /\ \/ pendingDifficulty /\ ~closed /\ pendingDifficulty' = FALSE /\ TellDifficulty(t)
       \/ (closed \/ ~pendingDifficulty)
          /\ Return(t) /\ UNCHANGED <<pendingDifficulty, told, closeVars>>
    /\ UNCHANGED <<handshakeVars, registered, initialVars, maskVars, lastJob, feedVars, notifyMu,
                   work, job, mask, want, countVars>>
PendingMask(t) ==
    /\ Calls(t, "pendingMask") /\ Then(t, <<>>)
    /\ IF pendingMask /\ versionRoll /\ ~closed
       THEN pendingMask' = FALSE /\ mask' = [mask EXCEPT ![t] = versionMask] /\ Go(t, "writeMask")
       ELSE UNCHANGED <<pendingMask, mask, pc>>
    /\ UNCHANGED <<handshakeVars, registered, initialVars, pendingDifficulty, poolMask, minerMask,
                   versionRoll, versionMask, history, lastJob, feedVars, notifyMu, closeVars, told,
                   work, job, want, countVars>>

WriteMask(t) ==
    /\ pc[t] = "writeMask" /\ mask' = [mask EXCEPT ![t] = {}]
    /\ \/ ~closed /\ told' = [told EXCEPT !.mask = mask[t]] /\ Go(t, "idle")
          /\ UNCHANGED <<todo, closeVars>>
       \/ WriteFails(t)
    /\ UNCHANGED <<handshakeVars, registered, initialVars, pendingDifficulty, maskVars, lastJob,
                   feedVars, notifyMu, work, job, want, countVars>>

-----------------------------------------------------------------------------
(* sendNotifyForWithReason: one job at a time, under notifyMu *)

\* Work for a closed connection and work older than the last is dropped.
Forget(t) == job' = [job EXCEPT ![t] = 0]
Refused(j) == closed \/ ~subscribed \/ j < lastJob
LockNotify(t) ==
    /\ pc[t] = "lockNotify" /\ notifyMu = None
    /\ \/ Refused(job[t]) /\ Go(t, "idle") /\ Forget(t) /\ UNCHANGED notifyMu
       \/ ~Refused(job[t]) /\ Lock(t) /\ Go(t, "setup") /\ UNCHANGED job
    /\ UNCHANGED <<handshakeVars, registered, initialVars, pendingDifficulty, maskVars, lastJob,
                   feedVars, closeVars, told, work, todo, mask, want, countVars>>

\* A difficulty adjusted to the shares is told first.  Then the job's mask comes
\* into force, and the miner is told of a change and of what waited for
\* subscribe.  The pending marks of a session that failed are read by nobody.
Setup(t) ==
    LET m == JobMask[job[t]]
        tellMask == versionRoll /\ (MaskChanges(m) \/ pendingMask)
    IN
    /\ pc[t] = "setup"
    /\ \/ /\ closed /\ Unlock /\ Forget(t) /\ Go(t, "idle")
          /\ UNCHANGED <<maskVars, pendingDifficulty, told, todo, closeVars>>
       \/ /\ shares > 0 /\ WriteFails(t) /\ Unlock
          /\ UNCHANGED <<maskVars, pendingDifficulty, job>>
       \/ /\ ~closed /\ UpdateVersionMask(m)
          /\ pendingMask' = (pendingMask /\ ~versionRoll) /\ pendingDifficulty' = FALSE
          /\ \E adjusted \in {FALSE, shares > 0} :
                told' = [told EXCEPT !.mask = IF tellMask THEN versionMask' ELSE @,
                                     !.difficulty = @ \/ pendingDifficulty \/ adjusted]
          /\ Go(t, "notify")
          /\ UNCHANGED <<job, todo, closeVars, notifyMu>>
       \/ /\ ~closed /\ (tellMask \/ pendingDifficulty)
          /\ UpdateVersionMask(m) /\ WriteFails(t) /\ Unlock
          /\ UNCHANGED <<pendingMask, pendingDifficulty, job>>
    /\ UNCHANGED <<handshakeVars, registered, initialVars, lastJob, feedVars, work, mask, want,
                   countVars>>

\* The coinbase is built for the current worker, the job is tracked and written.
Notify(t) ==
    /\ pc[t] = "notify" /\ Unlock /\ Forget(t)
    /\ lastJob' = IF worker = None THEN lastJob ELSE job[t]
    /\ \/ /\ ~closed /\ worker # None
          /\ work' = [job |-> job[t], worker |-> worker]
          /\ Go(t, "idle")
          /\ UNCHANGED <<todo, closeVars, told>>
       \/ WriteFails(t) /\ UNCHANGED work
    /\ UNCHANGED <<handshakeVars, registered, initialVars, pendingDifficulty, maskVars, feedVars,
                   mask, want, countVars>>

-----------------------------------------------------------------------------
(* The other goroutines *)

\* listenJobs; a closed channel is still read to its end.
Receive ==
    /\ Idle("listener") /\ listenerOn /\ jobCh # <<>>
    /\ job' = [job EXCEPT !["listener"] = Head(jobCh)] /\ jobCh' = Tail(jobCh)
    /\ Go("listener", "lockNotify")
    /\ UNCHANGED <<handshakeVars, registered, initialVars, pendingDifficulty, maskVars, lastJob,
                   curJob, notifyMu, closeVars, told, work, todo, mask, want, countVars>>

\* The timer of scheduleInitialWork.  The session loop makes the same check before
\* each read, when the handler that scheduled the work has already sent it; a
\* timer that fires then has no effect.
TimerFires ==
    /\ scheduled = "set" /\ ~initialSent /\ scheduled' = "fired"
    /\ todo' = [todo EXCEPT !["timer"] = <<"initial">>]
    /\ UNCHANGED <<handshakeVars, registered, initialSent, suggestDone, hintMin, pendingDifficulty,
                   maskVars, lastJob, feedVars, notifyMu, closeVars, told, work, pc, job, mask, want,
                   countVars>>

\* A submission worker credits a share of job j and adjusts the difficulty
\* (processPreparedShare): set_difficulty, then the share's job again, as clean.
ShareAccepted(j) ==
    /\ Idle("share") /\ shares < MaxShares /\ ~closed
    /\ shares' = shares + 1
    /\ job' = [job EXCEPT !["share"] = j]
    /\ todo' = [todo EXCEPT !["share"] = <<"difficulty", "notifyAgain">>]
    /\ UNCHANGED <<handshakeVars, registered, initialVars, pendingDifficulty, maskVars, lastJob,
                   feedVars, notifyMu, closeVars, told, work, pc, mask, want, requests>>
NotifyAgain ==
    /\ Calls("share", "notifyAgain") /\ Then("share", <<>>)
    /\ Go("share", "lockNotify")
    /\ UNCHANGED <<handshakeVars, registered, initialVars, pendingDifficulty, maskVars, lastJob,
                   feedVars, notifyMu, closeVars, told, work, job, mask, want, countVars>>

\* Close from outside the session: an administrator, or the shutdown of the process.
Disconnect ==
    /\ Idle("admin") /\ cleanup = "no"
    /\ Go("admin", "close")
    /\ UNCHANGED <<handshakeVars, registered, initialVars, pendingDifficulty, maskVars, lastJob,
                   feedVars, notifyMu, closeVars, told, work, todo, job, mask, want, countVars>>

\* The session loop reads an end of file, an error or a time-out, or the socket
\* was closed; it returns and its clean-up is deferred.
SessionEnds ==
    /\ Idle("session") /\ cleanup = "no"
    /\ Go("session", "close")
    /\ UNCHANGED <<handshakeVars, registered, initialVars, pendingDifficulty, maskVars, lastJob,
                   feedVars, notifyMu, closeVars, told, work, todo, job, mask, want, countVars>>

\* cleanupOnce: the first caller cleans up, the others wait for it.
Close(t) ==
    /\ pc[t] = "close"
    /\ \/ cleanup = "no" /\ closed' = TRUE /\ cleanup' = "running" /\ Go(t, "unregister")
       \/ cleanup = "done" /\ Go(t, "idle") /\ UNCHANGED <<closed, cleanup>>
    /\ UNCHANGED <<handshakeVars, registered, initialVars, pendingDifficulty, maskVars, lastJob,
                   feedVars, notifyMu, told, work, todo, job, mask, want, countVars>>
Unregister(t) ==
    /\ pc[t] = "unregister" /\ registered' = None /\ Go(t, "unsubscribe")
    /\ UNCHANGED <<handshakeVars, initialVars, pendingDifficulty, maskVars, lastJob, feedVars,
                   notifyMu, closeVars, told, work, todo, job, mask, want, countVars>>
Unsubscribe(t) ==
    /\ pc[t] = "unsubscribe" /\ cleanup' = "done" /\ Go(t, "idle")
    /\ UNCHANGED <<handshakeVars, registered, initialVars, pendingDifficulty, maskVars, lastJob,
                   feedVars, notifyMu, closed, told, work, todo, job, mask, want, countVars>>

-----------------------------------------------------------------------------
(* The job manager and the network *)

\* A new current job and its broadcast, which drops the oldest job when the
\* channel is full (the steps between them are JobDispatch's).  Jobs that
\* are published after the end of the session are refused, and left out.
Publish ==
    /\ curJob < MaxJobs /\ ~closed /\ curJob' = curJob + 1
    /\ jobCh' = Append(IF Len(jobCh) = ChanCap THEN Tail(jobCh) ELSE jobCh, curJob + 1)
    /\ UNCHANGED <<handshakeVars, registered, initialVars, pendingDifficulty, maskVars, lastJob,
                   notifyMu, closeVars, told, work, pc, todo, job, mask, want, countVars>>

Session ==
    \/ SubscribeWrite \/ AuthorizeLock \/ Register \/ AuthorizeRegistered \/ AuthorizeWrite
    \/ ConfigureLock \/ ConfigureWrite \/ ConfigureMask
    \/ Listen \/ Schedule \/ Suggest \/ CleanJob
Common(t) ==
    \/ Initial(t) \/ FirstJob(t) \/ SetDifficulty(t) \/ PendingDifficulty(t) \/ PendingMask(t)
    \/ WriteMask(t) \/ LockNotify(t) \/ Setup(t) \/ Notify(t)
    \/ Close(t) \/ Unregister(t) \/ Unsubscribe(t)
Requests ==
    \/ Subscribe \/ AuthorizeRefused \/ SuggestDifficulty
    \/ \E w \in Workers : Authorize(w)
    \/ \E option \in Options : Configure(option)
Next ==
    \/ Requests \/ Session
    \/ \E t \in Threads : Common(t)
    \/ Receive \/ TimerFires \/ NotifyAgain \/ SessionEnds \/ Disconnect
    \/ \E j \in 1..lastJob : ShareAccepted(j)
    \/ Publish

Spec == Init /\ [][Next]_vars

-----------------------------------------------------------------------------
(* Properties *)

FlagsOK ==
    /\ subscribed \in BOOLEAN /\ authorized \in BOOLEAN /\ listenerOn \in BOOLEAN
    /\ initialSent \in BOOLEAN /\ suggestDone \in BOOLEAN /\ hintMin \in BOOLEAN
    /\ pendingDifficulty \in BOOLEAN /\ pendingMask \in BOOLEAN /\ versionRoll \in BOOLEAN
    /\ closed \in BOOLEAN
DataOK ==
    /\ worker \in Workers \cup {None} /\ registered \in Workers \cup {None}
    /\ scheduled \in {"no", "set", "fired"} /\ cleanup \in {"no", "running", "done"}
    /\ lastJob \in 0..MaxJobs /\ curJob \in 0..MaxJobs
    /\ jobCh \in Seq(1..MaxJobs)
    /\ job \in [Threads -> 0..MaxJobs]
    /\ work \in [job : 0..MaxJobs, worker : Workers \cup {None}]
ToldOK ==
    /\ DOMAIN told = {"subscribed", "worker", "difficulty", "mask"}
    /\ told.worker \in Workers \cup {None}
ControlOK ==
    /\ pc \in [Threads -> Labels]
    /\ notifyMu \in Threads \cup {None}
    /\ \A t \in Threads : pc[t] \in Locked => notifyMu = t

\* A goroutine at a label of a critical section holds notifyMu, among the types.
TypeOK == FlagsOK /\ DataOK /\ ToldOK /\ ControlOK

\* Once the success response of an authorization was sent, no later notify names
\* another worker (miner_auth.go:312-314), not even while the miner authorizes
\* again and three goroutines announce work.
NotifiedWorkerAuthorized == [][work' # work => work'.worker = told.worker]_vars

\* A connection that was cleaned up is not left in the worker registry: whichever
\* of the clean-up and an authorization comes last removes it (miner_auth.go:403-410).
ClosedLeavesRegistry ==
    cleanup = "done" /\ registered # None => pc["session"] = "authCheck"

\* Every mask the miner works with is among those a winning share is tried with
\* (miner_rejects.go:1711-1744, miner_submit_process.go:102-121), also when two
\* goroutines tell it of masks in another order than they came into force.
ToldMaskRemembered ==
    told.mask # None => \E i \in 1..Len(history) : history[i] = told.mask

\* A miner that subscribed and authorized works on the newest job and was told a
\* difficulty when no goroutine has anything left to do: no job is lost between
\* the drained subscription, the initial work, its timer and the listener
\* (miner_auth.go:173-199, 433-464, miner_conn.go:487-607).
Quiet ==
    /\ \A t \in Threads : Idle(t)
    /\ listenerOn => jobCh = <<>>
    /\ ~closed
MinerServed ==
    Quiet /\ told.subscribed /\ told.worker # None /\ curJob # 0 =>
        work.job = curJob /\ told.difficulty
=============================================================================
