-------------------------- MODULE MinerSession_proofs --------------------------
(***************************************************************************)
(* Proofs about MinerSession, for every set of workers, every offer of the *)
(* miner, every sequence of jobs and masks, and any number of requests and *)
(* shares.                                                                 *)
(***************************************************************************)
EXTENDS MinerSession, FiniteSetTheorems, SequenceTheorems, TLAPS

\* The labels at which an authorization or the clean-up is under way.
Authorizing == {"register", "authCheck", "authWrite"}
Cleaning == {"unregister", "unsubscribe"}
Marked == {"authLock"} \cup Authorizing \cup Cleaning

\* The miner has read the name its work is built for, unless an authorization
\* holds notifyMu.
AuthInv ==
    /\ pc["session"] \in Authorizing \cup {"authLock"} => want.worker \in Workers
    /\ pc["session"] \in Authorizing => worker = want.worker
    /\ closed \/ worker = told.worker \/ pc["session"] \in Authorizing

\* One goroutine cleans up, after the session was marked closed; when it has
\* passed the registry, only an authorization under way can be registered.
CleanInv ==
    /\ cleanup # "no" => closed
    /\ \A t \in Threads : pc[t] \in Cleaning => cleanup = "running"
    /\ \A s, t \in Threads : pc[s] \in Cleaning /\ pc[t] \in Cleaning => s = t
    /\ (cleanup = "done" \/ \E t \in Threads : pc[t] = "unsubscribe")
          => registered = None \/ pc["session"] = "authCheck"

Inv == TypeOK /\ AuthInv /\ CleanInv

\* What a step of any other kind leaves alone.
Plain ==
    /\ worker' = worker /\ registered' = registered /\ cleanup' = cleanup
    /\ told'.worker = told.worker
    /\ closed => closed'
    /\ \A t \in Threads : pc'[t] = pc[t] \/ (pc[t] \notin Marked /\ pc'[t] \notin Marked)
    /\ want' = want \/ (pc["session"] \notin Marked /\ pc'["session"] \notin Marked)

\* Tuples of variables are expanded everywhere.
USE DEF handshakeVars, initialVars, maskVars, feedVars, closeVars, countVars

\* The session loop is one of the goroutines.
LEMMA SessionIsThread == "session" \in Threads
  BY DEF Threads

-----------------------------------------------------------------------------
(* Types *)

\* A goroutine in a critical section holds notifyMu.
LEMMA LockHolder ==
    ASSUME ControlOK, NEW t \in Threads, pc[t] \in Locked
    PROVE  notifyMu = t
  BY DEF ControlOK

\* A step of one goroutine from one label to another keeps the discipline of
\* notifyMu: it enters a critical section only with the lock, and leaves it with it.
LEMMA ControlStep ==
    ASSUME ControlOK, NEW t \in Threads, NEW l \in Labels, Go(t, l),
           \/ notifyMu' = notifyMu /\ (l \in Locked => notifyMu = t)
           \/ Unlock /\ pc[t] \in Locked /\ l \notin Locked
           \/ Lock(t)
    PROVE  ControlOK'
  BY NamesAssumption DEF ControlOK, Go, Lock, Unlock

\* A step that moves no goroutine and leaves the lock alone keeps the discipline.
LEMMA ControlSame ==
    ASSUME ControlOK, pc' = pc, notifyMu' = notifyMu
    PROVE  ControlOK'
  BY DEF ControlOK

\* What the miner reads keeps its type, and any message but the answer to
\* authorize the name.
LEMMA ToldStep ==
    ASSUME ToldOK,
           \/ told' = told
           \/ \E x, y : told' = [told EXCEPT !.mask = x, !.difficulty = y]
           \/ \E x : \/ told' = [told EXCEPT !.mask = x]
                      \/ told' = [told EXCEPT !.difficulty = x]
                      \/ told' = [told EXCEPT !.subscribed = x]
    PROVE  ToldOK' /\ told'.worker = told.worker
  BY DEF ToldOK

\* The answer to authorize names a worker.
LEMMA ToldWorkerStep ==
    ASSUME ToldOK, NEW x \in Workers, told' = [told EXCEPT !.worker = x]
    PROVE  ToldOK'
  BY DEF ToldOK

\* What the job manager puts into the channel is a job.
LEMMA PublishJobs ==
    ASSUME DataOK, Publish
    PROVE  jobCh' \in Seq(1..MaxJobs) /\ curJob' \in 0..MaxJobs
<1>1. curJob + 1 \in 1..MaxJobs
  BY BoundsAssumption DEF Publish, DataOK
<1>2. jobCh # <<>> => Tail(jobCh) \in Seq(1..MaxJobs)
  BY HeadTailProperties DEF DataOK
<1>3. Len(jobCh) = ChanCap => jobCh # <<>>
  BY BoundsAssumption, EmptySeq DEF DataOK
<1>4. jobCh' \in Seq(1..MaxJobs)
  BY <1>1, <1>2, <1>3, AppendProperties DEF Publish, DataOK
<1> QED
  BY <1>1, <1>4, BoundsAssumption DEF Publish

\* What listenJobs takes from its channel is a job.
LEMMA ReceiveJob ==
    ASSUME DataOK, Receive
    PROVE  jobCh' \in Seq(1..MaxJobs) /\ job' \in [Threads -> 0..MaxJobs]
<1>1. Head(jobCh) \in 1..MaxJobs /\ Tail(jobCh) \in Seq(1..MaxJobs)
  BY HeadTailProperties DEF Receive, DataOK
<1>2. Head(jobCh) \in 0..MaxJobs
  BY <1>1, BoundsAssumption
<1> QED
  BY <1>1, <1>2 DEF Receive, DataOK

\* A share is on a job.
LEMMA ShareJob ==
    ASSUME DataOK, NEW j \in 1..lastJob, ShareAccepted(j)
    PROVE  job' \in [Threads -> 0..MaxJobs]
<1>1. j \in 0..MaxJobs
  BY BoundsAssumption DEF DataOK
<1> QED
  BY <1>1 DEF ShareAccepted, DataOK

\* Reading a request keeps the types.
LEMMA RequestTypes ==
    ASSUME TypeOK, AuthInv, Requests
    PROVE  TypeOK'
<1>0. ControlOK /\ ToldOK /\ DataOK /\ FlagsOK
  BY DEF TypeOK
<1>1. CASE Subscribe
  BY <1>1, <1>0, SessionIsThread, ControlStep, ControlSame
  DEF Subscribe, Reads, Idle, SubscribeMask, UpdateVersionMask, TypeOK, FlagsOK, DataOK,
      ToldOK, Locked, Notifying, Labels
<1>2. CASE AuthorizeRefused
  BY <1>2, <1>0, SessionIsThread, ControlStep, ControlSame
  DEF AuthorizeRefused, Reads, Idle, TypeOK, FlagsOK, DataOK, ToldOK, Locked, Notifying, Labels
<1>3. CASE SuggestDifficulty
  BY <1>3, <1>0, SessionIsThread, ControlStep, ControlSame
  DEF SuggestDifficulty, TypeOK, FlagsOK, DataOK, ToldOK, Locked, Notifying, Labels
<1>4. CASE \E w \in Workers : Authorize(w)
  BY <1>4, <1>0, SessionIsThread, ControlStep, ControlSame
  DEF Authorize, Reads, Idle, TypeOK, FlagsOK, DataOK, ToldOK, Locked, Notifying, Labels
<1>5. CASE \E option \in Options : Configure(option)
  BY <1>5, <1>0, SessionIsThread, ControlStep, ControlSame
  DEF Configure, Reads, Idle, TypeOK, FlagsOK, DataOK, ToldOK, Locked, Notifying, Labels
<1> QED
  BY <1>1, <1>2, <1>3, <1>4, <1>5 DEF Requests

\* The steps of the session goroutine keep the types.
LEMMA SessionTypes ==
    ASSUME TypeOK, AuthInv, Session
    PROVE  TypeOK'
<1>0. ControlOK /\ ToldOK /\ DataOK /\ FlagsOK
  BY DEF TypeOK
<1>1. CASE SubscribeWrite
  <2>1. ControlOK'
    BY <1>1, <1>0, SessionIsThread, ControlStep, ControlSame
    DEF SubscribeWrite, WriteFails, Run, Locked, Notifying, Labels
  <2>2. ToldOK'
    BY <1>1, <1>0, ToldStep DEF SubscribeWrite, WriteFails
  <2>3. DataOK'
    BY <1>1, <1>0 DEF SubscribeWrite, WriteFails, Run, DataOK
  <2>4. FlagsOK'
    BY <1>1, <1>0 DEF SubscribeWrite, WriteFails, Run, FlagsOK
  <2> QED
    BY <2>1, <2>2, <2>3, <2>4 DEF TypeOK
<1>2. CASE AuthorizeLock
  BY <1>2, <1>0, SessionIsThread, ControlStep, ControlSame
  DEF AuthorizeLock, PublishIdentity, Lock, AuthInv, Authorizing, TypeOK, FlagsOK, DataOK,
      ToldOK, Locked, Notifying, Labels
<1>3. CASE Register
  <2>0. pc["session"] \in Locked /\ notifyMu = "session"
    BY <1>3, <1>0, SessionIsThread, LockHolder DEF Register, Locked, Notifying
  <2>1. ControlOK'
    BY <1>3, <2>0, <1>0, SessionIsThread, ControlStep, ControlSame
    DEF Register, Locked, Notifying, Labels
  <2>2. ToldOK'
    BY <1>3, <1>0, ToldStep DEF Register
  <2>3. DataOK'
    BY <1>3, <1>0 DEF Register, AuthInv, Authorizing, DataOK
  <2>4. FlagsOK'
    BY <1>3, <1>0 DEF Register, FlagsOK
  <2> QED
    BY <2>1, <2>2, <2>3, <2>4 DEF TypeOK
<1>4. CASE AuthorizeRegistered
  <2>0. pc["session"] \in Locked /\ notifyMu = "session"
    BY <1>4, <1>0, SessionIsThread, LockHolder DEF AuthorizeRegistered, Locked, Notifying
  <2>1. ControlOK'
    BY <1>4, <2>0, <1>0, SessionIsThread, ControlStep, ControlSame
    DEF AuthorizeRegistered, AuthorizeCheck, Unlock, Locked, Notifying, Labels
  <2>2. ToldOK'
    BY <1>4, <1>0, ToldStep DEF AuthorizeRegistered, AuthorizeCheck, Unlock
  <2>3. DataOK'
    BY <1>4, <1>0 DEF AuthorizeRegistered, AuthorizeCheck, Unlock, AuthInv, Authorizing, DataOK
  <2>4. FlagsOK'
    BY <1>4, <1>0 DEF AuthorizeRegistered, AuthorizeCheck, Unlock, FlagsOK
  <2> QED
    BY <2>1, <2>2, <2>3, <2>4 DEF TypeOK
<1>5. CASE AuthorizeWrite
  <2>1. ControlOK'
    BY <1>5, <1>0, SessionIsThread, ControlStep, ControlSame
    DEF AuthorizeWrite, WriteFails, Run, Unlock, Locked, Notifying, Labels
  <2>2. ToldOK'
    BY <1>5, <1>0, ToldStep, ToldWorkerStep DEF AuthorizeWrite, WriteFails, AuthInv, Authorizing
  <2>3. DataOK'
    BY <1>5, <1>0 DEF AuthorizeWrite, WriteFails, Run, Unlock, AuthInv, Authorizing, DataOK
  <2>4. FlagsOK'
    BY <1>5, <1>0 DEF AuthorizeWrite, WriteFails, Run, Unlock, FlagsOK
  <2> QED
    BY <2>1, <2>2, <2>3, <2>4 DEF TypeOK
<1>6. CASE ConfigureLock
  <2>1. ControlOK'
    BY <1>6, <1>0, SessionIsThread, ControlStep, ControlSame
    DEF ConfigureLock, Lock, Negotiate, Locked, Notifying, Labels
  <2>2. ToldOK'
    BY <1>6, <1>0, ToldStep DEF ConfigureLock, Lock, Negotiate
  <2>3. DataOK'
    BY <1>6, <1>0 DEF ConfigureLock, Lock, Negotiate, DataOK
  <2>4. FlagsOK'
    BY <1>6, <1>0 DEF ConfigureLock, Lock, Negotiate, FlagsOK
  <2> QED
    BY <2>1, <2>2, <2>3, <2>4 DEF TypeOK
<1>7. CASE ConfigureWrite
  <2>0. pc["session"] \in Locked /\ notifyMu = "session"
    BY <1>7, <1>0, SessionIsThread, LockHolder DEF ConfigureWrite, Locked, Notifying
  <2>1. ControlOK'
    BY <1>7, <2>0, <1>0, SessionIsThread, ControlStep, ControlSame
    DEF ConfigureWrite, WriteFails, Run, Unlock, Locked, Notifying, Labels
  <2>2. ToldOK'
    BY <1>7, <1>0, ToldStep DEF ConfigureWrite, WriteFails
  <2>3. DataOK'
    BY <1>7, <1>0 DEF ConfigureWrite, WriteFails, Run, Unlock, DataOK
  <2>4. FlagsOK'
    BY <1>7, <1>0 DEF ConfigureWrite, WriteFails, Run, Unlock, FlagsOK
  <2> QED
    BY <2>1, <2>2, <2>3, <2>4 DEF TypeOK
<1>8. CASE ConfigureMask
  <2>1. ControlOK'
    BY <1>8, <1>0, SessionIsThread, ControlStep, ControlSame
    DEF ConfigureMask, WriteFails, Run, Unlock, Locked, Notifying, Labels
  <2>2. ToldOK'
    BY <1>8, <1>0, ToldStep DEF ConfigureMask, WriteFails
  <2>3. DataOK'
    BY <1>8, <1>0 DEF ConfigureMask, WriteFails, Run, Unlock, DataOK
  <2>4. FlagsOK'
    BY <1>8, <1>0 DEF ConfigureMask, WriteFails, Run, Unlock, FlagsOK
  <2> QED
    BY <2>1, <2>2, <2>3, <2>4 DEF TypeOK
<1>9. CASE Listen
  <2>1. ControlOK'
    BY <1>9, <1>0, SessionIsThread, ControlStep, ControlSame
    DEF Listen, Calls, Return, Then, Run, Locked, Notifying, Labels
  <2>2. ToldOK'
    BY <1>9, <1>0, ToldStep DEF Listen, Calls, Return, Then, Run
  <2>3. DataOK'
    BY <1>9, EmptySeq, <1>0 DEF Listen, Calls, Return, Then, Run, DataOK
  <2>4. FlagsOK'
    BY <1>9, <1>0 DEF Listen, Calls, Return, Then, Run, FlagsOK
  <2> QED
    BY <2>1, <2>2, <2>3, <2>4 DEF TypeOK
<1>10. CASE Schedule
  BY <1>10, <1>0, SessionIsThread, ControlStep, ControlSame
  DEF Schedule, Return, Then, TypeOK, FlagsOK, DataOK, ToldOK, Locked, Notifying, Labels
<1>11. CASE Suggest
  BY <1>11, <1>0, SessionIsThread, ControlStep, ControlSame
  DEF Suggest, TypeOK, FlagsOK, DataOK, ToldOK, Locked, Notifying, Labels
<1>12. CASE CleanJob
  BY <1>12, <1>0, SessionIsThread, ControlStep, ControlSame
  DEF CleanJob, Calls, TypeOK, FlagsOK, DataOK, ToldOK, Locked, Notifying, Labels
<1> QED
  BY <1>1, <1>2, <1>3, <1>4, <1>5, <1>6, <1>7, <1>8, <1>9, <1>10, <1>11, <1>12 DEF Session

\* The calls that any goroutine makes keep the types.
LEMMA CommonTypes ==
    ASSUME TypeOK, AuthInv, NEW t \in Threads, Common(t)
    PROVE  TypeOK'
<1>0. ControlOK /\ ToldOK /\ DataOK /\ FlagsOK
  BY DEF TypeOK
<1>1. CASE Initial(t)
  <2>1. ControlOK'
    BY <1>1, <1>0, SessionIsThread, ControlStep, ControlSame
    DEF Initial, Locked, Notifying, Labels
  <2>2. ToldOK'
    BY <1>1, <1>0, ToldStep DEF Initial
  <2>3. DataOK'
    BY <1>1, <1>0 DEF Initial, DataOK
  <2>4. FlagsOK'
    BY <1>1, <1>0 DEF Initial, FlagsOK
  <2> QED
    BY <2>1, <2>2, <2>3, <2>4 DEF TypeOK
<1>2. CASE FirstJob(t)
  BY <1>2, <1>0, SessionIsThread, ControlStep, ControlSame
  DEF FirstJob, Calls, TypeOK, FlagsOK, DataOK, ToldOK, Locked, Notifying, Labels
<1>3. CASE SetDifficulty(t)
  <2>1. ControlOK'
    BY <1>3, <1>0, SessionIsThread, ControlStep, ControlSame
    DEF SetDifficulty, TellDifficulty, WriteFails, Return, Calls, Locked, Notifying, Labels
  <2>2. ToldOK'
    BY <1>3, <1>0, ToldStep DEF SetDifficulty, TellDifficulty, WriteFails
  <2>3. DataOK'
    BY <1>3, <1>0 DEF SetDifficulty, TellDifficulty, WriteFails, Return, Calls, DataOK
  <2>4. FlagsOK'
    BY <1>3, <1>0 DEF SetDifficulty, TellDifficulty, WriteFails, Return, Calls, FlagsOK
  <2> QED
    BY <2>1, <2>2, <2>3, <2>4 DEF TypeOK
<1>4. CASE PendingDifficulty(t)
  <2>1. ControlOK'
    BY <1>4, <1>0, SessionIsThread, ControlStep, ControlSame
    DEF PendingDifficulty, TellDifficulty, WriteFails, Return, Calls, Locked, Notifying, Labels
  <2>2. ToldOK'
    BY <1>4, <1>0, ToldStep DEF PendingDifficulty, TellDifficulty, WriteFails
  <2>3. DataOK'
    BY <1>4, <1>0 DEF PendingDifficulty, TellDifficulty, WriteFails, Return, Calls, DataOK
  <2>4. FlagsOK'
    BY <1>4, <1>0 DEF PendingDifficulty, TellDifficulty, WriteFails, Return, Calls, FlagsOK
  <2> QED
    BY <2>1, <2>2, <2>3, <2>4 DEF TypeOK
<1>5. CASE PendingMask(t)
  <2>1. ControlOK'
    BY <1>5, <1>0, SessionIsThread, ControlStep, ControlSame
    DEF PendingMask, Calls, Locked, Notifying, Labels
  <2>2. ToldOK'
    BY <1>5, <1>0, ToldStep DEF PendingMask, Calls
  <2>3. DataOK'
    BY <1>5, <1>0 DEF PendingMask, Calls, DataOK
  <2>4. FlagsOK'
    BY <1>5, <1>0 DEF PendingMask, Calls, FlagsOK
  <2> QED
    BY <2>1, <2>2, <2>3, <2>4 DEF TypeOK
<1>6. CASE WriteMask(t)
  <2>1. ControlOK'
    BY <1>6, <1>0, SessionIsThread, ControlStep, ControlSame
    DEF WriteMask, WriteFails, Locked, Notifying, Labels
  <2>2. ToldOK'
    BY <1>6, <1>0, ToldStep DEF WriteMask, WriteFails
  <2>3. DataOK'
    BY <1>6, <1>0 DEF WriteMask, WriteFails, DataOK
  <2>4. FlagsOK'
    BY <1>6, <1>0 DEF WriteMask, WriteFails, FlagsOK
  <2> QED
    BY <2>1, <2>2, <2>3, <2>4 DEF TypeOK
<1>7. CASE LockNotify(t)
  <2>1. ControlOK'
    BY <1>7, <1>0, SessionIsThread, ControlStep, ControlSame
    DEF LockNotify, Forget, Lock, Locked, Notifying, Labels
  <2>2. ToldOK'
    BY <1>7, <1>0, ToldStep DEF LockNotify, Forget, Lock
  <2>3. DataOK'
    BY <1>7, BoundsAssumption, <1>0 DEF LockNotify, Forget, Lock, DataOK
  <2>4. FlagsOK'
    BY <1>7, <1>0 DEF LockNotify, Forget, Lock, FlagsOK
  <2> QED
    BY <2>1, <2>2, <2>3, <2>4 DEF TypeOK
<1>8. CASE Setup(t)
  <2>0. pc[t] \in Locked /\ notifyMu = t
    BY <1>8, <1>0, SessionIsThread, LockHolder DEF Setup, Locked, Notifying
  <2>1. ControlOK'
    BY <1>8, <2>0, <1>0, SessionIsThread, ControlStep, ControlSame
    DEF Setup, WriteFails, UpdateVersionMask, Forget, Unlock, Locked, Notifying, Labels
  <2>2. ToldOK'
    BY <1>8, <1>0, ToldStep DEF Setup, WriteFails
  <2>3. DataOK'
    BY <1>8, BoundsAssumption, <1>0, SMTT(40) DEF Setup, WriteFails, Forget, DataOK
  <2>4. FlagsOK'
    BY <1>8, <1>0, ZenonT(90)
    DEF Setup, WriteFails, UpdateVersionMask, Forget, Unlock, FlagsOK
  <2> QED
    BY <2>1, <2>2, <2>3, <2>4 DEF TypeOK
<1>9. CASE Notify(t)
  <2>1. ControlOK'
    BY <1>9, <1>0, SessionIsThread, ControlStep, ControlSame
    DEF Notify, WriteFails, Forget, Unlock, Locked, Notifying, Labels
  <2>2. ToldOK'
    BY <1>9, <1>0, ToldStep DEF Notify, WriteFails
  <2>3. DataOK'
    BY <1>9, BoundsAssumption, <1>0 DEF Notify, WriteFails, Forget, Unlock, DataOK
  <2>4. FlagsOK'
    BY <1>9, <1>0 DEF Notify, WriteFails, Forget, Unlock, FlagsOK
  <2> QED
    BY <2>1, <2>2, <2>3, <2>4 DEF TypeOK
<1>10. CASE Close(t)
  <2>1. ControlOK'
    BY <1>10, <1>0, SessionIsThread, ControlStep, ControlSame
    DEF Close, Locked, Notifying, Labels
  <2>2. ToldOK'
    BY <1>10, <1>0, ToldStep DEF Close
  <2>3. DataOK'
    BY <1>10, <1>0 DEF Close, DataOK
  <2>4. FlagsOK'
    BY <1>10, <1>0 DEF Close, FlagsOK
  <2> QED
    BY <2>1, <2>2, <2>3, <2>4 DEF TypeOK
<1>11. CASE Unregister(t)
  BY <1>11, <1>0, SessionIsThread, ControlStep, ControlSame
  DEF Unregister, TypeOK, FlagsOK, DataOK, ToldOK, Locked, Notifying, Labels
<1>12. CASE Unsubscribe(t)
  BY <1>12, <1>0, SessionIsThread, ControlStep, ControlSame
  DEF Unsubscribe, TypeOK, FlagsOK, DataOK, ToldOK, Locked, Notifying, Labels
<1> QED
  BY <1>1, <1>2, <1>3, <1>4, <1>5, <1>6, <1>7, <1>8, <1>9, <1>10, <1>11, <1>12 DEF Common

\* The steps of the other goroutines keep the types.
LEMMA OtherTypes ==
    ASSUME TypeOK, AuthInv,
           \/ Receive \/ TimerFires \/ NotifyAgain \/ SessionEnds \/ Disconnect
           \/ \E j \in 1..lastJob : ShareAccepted(j)
           \/ Publish
    PROVE  TypeOK'
<1>0. ControlOK /\ ToldOK /\ DataOK /\ FlagsOK
  BY DEF TypeOK
<1>1. CASE Receive
  <2>1. ControlOK'
    BY <1>1, <1>0, SessionIsThread, ControlStep, ControlSame
    DEF Receive, Idle, Threads, Locked, Notifying, Labels
  <2>2. ToldOK'
    BY <1>1, <1>0, ToldStep DEF Receive, Idle
  <2>3. DataOK'
    BY <1>1, ReceiveJob, <1>0 DEF Receive, Idle, DataOK
  <2>4. FlagsOK'
    BY <1>1, <1>0 DEF Receive, Idle, FlagsOK
  <2> QED
    BY <2>1, <2>2, <2>3, <2>4 DEF TypeOK
<1>2. CASE TimerFires
  BY <1>2, <1>0, SessionIsThread, ControlStep, ControlSame
  DEF TimerFires, TypeOK, FlagsOK, DataOK, ToldOK, Locked, Notifying, Labels
<1>3. CASE NotifyAgain
  BY <1>3, <1>0, SessionIsThread, ControlStep, ControlSame
  DEF NotifyAgain, Calls, Threads, TypeOK, FlagsOK, DataOK, ToldOK, Locked, Notifying, Labels
<1>4. CASE SessionEnds
  BY <1>4, <1>0, SessionIsThread, ControlStep, ControlSame
  DEF SessionEnds, Idle, TypeOK, FlagsOK, DataOK, ToldOK, Locked, Notifying, Labels
<1>5. CASE Disconnect
  BY <1>5, <1>0, SessionIsThread, ControlStep, ControlSame
  DEF Disconnect, Idle, Threads, TypeOK, FlagsOK, DataOK, ToldOK, Locked, Notifying, Labels
<1>6. CASE \E j \in 1..lastJob : ShareAccepted(j)
  <2> PICK j \in 1..lastJob : ShareAccepted(j)
    BY <1>6
  <2>1. ControlOK'
    BY <1>0, SessionIsThread, ControlStep, ControlSame
    DEF ShareAccepted, Locked, Notifying, Labels
  <2>2. ToldOK'
    BY <1>0, ToldStep DEF ShareAccepted
  <2>3. DataOK'
    BY ShareJob, <1>0 DEF ShareAccepted, DataOK
  <2>4. FlagsOK'
    BY <1>0 DEF ShareAccepted, FlagsOK
  <2> QED
    BY <2>1, <2>2, <2>3, <2>4 DEF TypeOK
<1>7. CASE Publish
  <2>1. ControlOK'
    BY <1>7, <1>0, SessionIsThread, ControlStep, ControlSame
    DEF Publish, Locked, Notifying, Labels
  <2>2. ToldOK'
    BY <1>7, <1>0, ToldStep DEF Publish
  <2>3. DataOK'
    BY <1>7, PublishJobs, <1>0 DEF Publish, DataOK
  <2>4. FlagsOK'
    BY <1>7, <1>0 DEF Publish, FlagsOK
  <2> QED
    BY <2>1, <2>2, <2>3, <2>4 DEF TypeOK
<1> QED
  BY <1>1, <1>2, <1>3, <1>4, <1>5, <1>6, <1>7

\* Every step keeps the types.
LEMMA TypeStep ==
    ASSUME TypeOK, AuthInv, [Next]_vars
    PROVE  TypeOK'
<1>1. CASE UNCHANGED vars
  BY <1>1 DEF vars, TypeOK, FlagsOK, DataOK, ToldOK, ControlOK
<1> QED
  BY <1>1, RequestTypes, SessionTypes, CommonTypes, OtherTypes DEF Next

-----------------------------------------------------------------------------
(* Identity, registry and clean-up *)

\* A plain step keeps both invariants.
LEMMA PlainStep ==
    ASSUME AuthInv, CleanInv, Plain
    PROVE  AuthInv' /\ CleanInv'
<1>1. pc'["session"] = pc["session"] \/ (pc["session"] \notin Marked /\ pc'["session"] \notin Marked)
  BY SessionIsThread DEF Plain
<1>2. AuthInv'
  BY <1>1 DEF AuthInv, Plain, Marked, Authorizing
<1>3. \A t \in Threads : pc'[t] \in Cleaning => pc[t] \in Cleaning
  BY DEF Plain, Marked
<1>4. \A t \in Threads : pc'[t] = "unsubscribe" => pc[t] = "unsubscribe"
  BY DEF Plain, Marked, Cleaning
<1>5. pc["session"] = "authCheck" => pc'["session"] = "authCheck"
  BY <1>1 DEF Marked, Authorizing
<1>6. CleanInv'
  BY <1>3, <1>4, <1>5 DEF CleanInv, Plain
<1> QED
  BY <1>2, <1>6

\* One goroutine moves between labels that are not marked.
LEMMA GoPlain ==
    ASSUME ControlOK, NEW t \in Threads, NEW l, pc[t] \notin Marked, l \notin Marked, Go(t, l)
    PROVE  \A s \in Threads : pc'[s] = pc[s] \/ (pc[s] \notin Marked /\ pc'[s] \notin Marked)
  BY DEF ControlOK, Go

\* Requests other than an authorization are plain.
LEMMA PlainRequests ==
    ASSUME TypeOK,
           Subscribe \/ AuthorizeRefused \/ SuggestDifficulty
           \/ \E option \in Options : Configure(option)
    PROVE  Plain
<1>0. ControlOK /\ ToldOK
  BY DEF TypeOK
<1>1. CASE Subscribe
  BY <1>1, <1>0, SessionIsThread, GoPlain
  DEF Subscribe, Reads, Idle, SubscribeMask, Go, ControlOK, Plain, Marked, Authorizing, Cleaning
<1>2. CASE AuthorizeRefused
  BY <1>2, <1>0, SessionIsThread, GoPlain
  DEF AuthorizeRefused, Reads, Idle, Go, ControlOK, Plain, Marked, Authorizing, Cleaning
<1>3. CASE SuggestDifficulty
  BY <1>3, <1>0, SessionIsThread, GoPlain
  DEF SuggestDifficulty, Go, ControlOK, Plain, Marked, Authorizing, Cleaning
<1>4. CASE \E option \in Options : Configure(option)
  BY <1>4, <1>0, SessionIsThread, GoPlain
  DEF Configure, Reads, Idle, Go, ControlOK, Plain, Marked, Authorizing, Cleaning
<1> QED
  BY <1>1, <1>2, <1>3, <1>4

\* The steps of the session goroutine that do not authorize are plain.
LEMMA PlainSession ==
    ASSUME TypeOK,
           SubscribeWrite \/ ConfigureLock \/ ConfigureWrite \/ ConfigureMask
           \/ Listen \/ Schedule \/ Suggest \/ CleanJob
    PROVE  Plain
<1>0. ControlOK /\ ToldOK
  BY DEF TypeOK
<1>1. CASE SubscribeWrite
  BY <1>1, <1>0, SessionIsThread, ToldStep, GoPlain
  DEF SubscribeWrite, WriteFails, Run, Go, ControlOK, Plain, Marked, Authorizing, Cleaning
<1>2. CASE ConfigureLock
  BY <1>2, <1>0, SessionIsThread, GoPlain
  DEF ConfigureLock, Go, ControlOK, Plain, Marked, Authorizing, Cleaning
<1>3. CASE ConfigureWrite
  BY <1>3, <1>0, SessionIsThread, ToldStep, GoPlain
  DEF ConfigureWrite, WriteFails, Run, Go, ControlOK, Plain, Marked, Authorizing, Cleaning
<1>4. CASE ConfigureMask
  <2>1. told'.worker = told.worker /\ (closed => closed')
    BY <1>4, <1>0, ToldStep DEF ConfigureMask, WriteFails, Run
  <2>2. \A s \in Threads : pc'[s] = pc[s] \/ (pc[s] \notin Marked /\ pc'[s] \notin Marked)
    BY <1>4, <1>0, SessionIsThread, GoPlain
    DEF ConfigureMask, WriteFails, Run, Marked, Authorizing, Cleaning
  <2>3. pc["session"] \notin Marked /\ pc'["session"] \notin Marked
    BY <1>4, <1>0, SessionIsThread
    DEF ConfigureMask, WriteFails, Run, Go, ControlOK, Marked, Authorizing, Cleaning
  <2> QED
    BY <1>4, <2>1, <2>2, <2>3 DEF ConfigureMask, WriteFails, Plain
<1>5. CASE Listen
  BY <1>5, <1>0, SessionIsThread, GoPlain
  DEF Listen, Calls, Return, Then, Run, Go, ControlOK, Plain, Marked, Authorizing, Cleaning
<1>6. CASE Schedule
  BY <1>6, <1>0, SessionIsThread, GoPlain
  DEF Schedule, Return, Then, Go, ControlOK, Plain, Marked, Authorizing, Cleaning
<1>7. CASE Suggest
  BY <1>7, <1>0, SessionIsThread, GoPlain
  DEF Suggest, Go, ControlOK, Plain, Marked, Authorizing, Cleaning
<1>8. CASE CleanJob
  BY <1>8, <1>0, SessionIsThread, GoPlain
  DEF CleanJob, Calls, Go, ControlOK, Plain, Marked, Authorizing, Cleaning
<1> QED
  BY <1>1, <1>2, <1>3, <1>4, <1>5, <1>6, <1>7, <1>8

\* The calls that do not clean up are plain.
LEMMA PlainCommon ==
    ASSUME TypeOK, NEW t \in Threads,
           Initial(t) \/ FirstJob(t) \/ SetDifficulty(t) \/ PendingDifficulty(t) \/ PendingMask(t)
           \/ WriteMask(t) \/ LockNotify(t) \/ Setup(t) \/ Notify(t)
    PROVE  Plain
<1>0. ControlOK /\ ToldOK
  BY DEF TypeOK
<1>1. CASE Initial(t)
  BY <1>1, <1>0, SessionIsThread, GoPlain
  DEF Initial, Go, ControlOK, Plain, Marked, Authorizing, Cleaning
<1>2. CASE FirstJob(t)
  BY <1>2, <1>0, SessionIsThread, GoPlain
  DEF FirstJob, Calls, Go, ControlOK, Plain, Marked, Authorizing, Cleaning
<1>3. CASE SetDifficulty(t)
  <2>1. told'.worker = told.worker
    BY <1>3, <1>0, ToldStep DEF SetDifficulty, TellDifficulty, WriteFails
  <2>2. \A s \in Threads : pc'[s] = pc[s] \/ (pc[s] \notin Marked /\ pc'[s] \notin Marked)
    BY <1>3, GoPlain, <1>0
    DEF SetDifficulty, TellDifficulty, WriteFails, Return, Calls, Marked, Authorizing,
        Cleaning
  <2> QED
    BY <1>3, <2>1, <2>2 DEF SetDifficulty, TellDifficulty, WriteFails, Return, Calls, Plain
<1>4. CASE PendingDifficulty(t)
  <2>1. told'.worker = told.worker
    BY <1>4, <1>0, ToldStep DEF PendingDifficulty, TellDifficulty, WriteFails
  <2>2. \A s \in Threads : pc'[s] = pc[s] \/ (pc[s] \notin Marked /\ pc'[s] \notin Marked)
    BY <1>4, GoPlain, <1>0
    DEF PendingDifficulty, TellDifficulty, WriteFails, Return, Calls, Marked, Authorizing,
        Cleaning
  <2> QED
    BY <1>4, <2>1, <2>2 DEF PendingDifficulty, TellDifficulty, WriteFails, Return, Calls, Plain
<1>5. CASE PendingMask(t)
  BY <1>5, <1>0, SessionIsThread, GoPlain
  DEF PendingMask, Calls, Go, ControlOK, Plain, Marked, Authorizing, Cleaning
<1>6. CASE WriteMask(t)
  BY <1>6, <1>0, SessionIsThread, ToldStep, GoPlain
  DEF WriteMask, WriteFails, Go, ControlOK, Plain, Marked, Authorizing, Cleaning
<1>7. CASE LockNotify(t)
  BY <1>7, <1>0, SessionIsThread, GoPlain
  DEF LockNotify, Go, ControlOK, Plain, Marked, Authorizing, Cleaning
<1>8. CASE Setup(t)
  <2>1. told'.worker = told.worker
    BY <1>8, <1>0, ToldStep DEF Setup, WriteFails
  <2>2. \A s \in Threads : pc'[s] = pc[s] \/ (pc[s] \notin Marked /\ pc'[s] \notin Marked)
    BY <1>8, GoPlain, <1>0 DEF Setup, WriteFails, Marked, Authorizing, Cleaning
  <2> QED
    BY <1>8, <2>1, <2>2 DEF Setup, WriteFails, Plain
<1>9. CASE Notify(t)
  BY <1>9, <1>0, SessionIsThread, ToldStep, GoPlain
  DEF Notify, WriteFails, Go, ControlOK, Plain, Marked, Authorizing, Cleaning
<1> QED
  BY <1>1, <1>2, <1>3, <1>4, <1>5, <1>6, <1>7, <1>8, <1>9

\* The steps of the other goroutines are plain.
LEMMA PlainOthers ==
    ASSUME TypeOK,
           \/ Receive \/ TimerFires \/ NotifyAgain \/ SessionEnds \/ Disconnect
           \/ \E j \in 1..lastJob : ShareAccepted(j)
           \/ Publish
    PROVE  Plain
<1>0. ControlOK /\ ToldOK
  BY DEF TypeOK
<1>1. CASE Receive
  BY <1>1, <1>0, SessionIsThread, GoPlain
  DEF Receive, Idle, Go, ControlOK, Plain, Marked, Authorizing, Cleaning
<1>2. CASE TimerFires
  BY <1>2, <1>0, SessionIsThread, GoPlain
  DEF TimerFires, Go, ControlOK, Plain, Marked, Authorizing, Cleaning
<1>3. CASE NotifyAgain
  BY <1>3, <1>0, SessionIsThread, GoPlain
  DEF NotifyAgain, Calls, Go, ControlOK, Plain, Marked, Authorizing, Cleaning
<1>4. CASE SessionEnds
  BY <1>4, <1>0, SessionIsThread, GoPlain
  DEF SessionEnds, Idle, Go, ControlOK, Plain, Marked, Authorizing, Cleaning
<1>5. CASE Disconnect
  BY <1>5, <1>0, SessionIsThread, GoPlain
  DEF Disconnect, Idle, Go, ControlOK, Plain, Marked, Authorizing, Cleaning
<1>6. CASE \E j \in 1..lastJob : ShareAccepted(j)
  BY <1>6, <1>0, SessionIsThread, GoPlain
  DEF ShareAccepted, Go, ControlOK, Plain, Marked, Authorizing, Cleaning
<1>7. CASE Publish
  BY <1>7, <1>0, SessionIsThread, GoPlain
  DEF Publish, Go, ControlOK, Plain, Marked, Authorizing, Cleaning
<1> QED
  BY <1>1, <1>2, <1>3, <1>4, <1>5, <1>6, <1>7

\* An authorization passes the identity on under notifyMu, and removes what it
\* registered on a closed session.
LEMMA AuthorizeStep ==
    ASSUME Inv,
           \/ \E w \in Workers : Authorize(w)
           \/ AuthorizeLock \/ Register \/ AuthorizeRegistered \/ AuthorizeWrite
    PROVE  AuthInv' /\ CleanInv'
<1>0. TypeOK /\ ControlOK /\ ToldOK /\ AuthInv /\ CleanInv
  BY DEF Inv, TypeOK
<1>1. CASE \E w \in Workers : Authorize(w)
  <2>1. AuthInv'
    BY <1>1, <1>0, SessionIsThread DEF Authorize, Reads, Idle, AuthInv, ControlOK, Go, Authorizing
  <2>2. CleanInv'
    BY <1>1, <1>0, SessionIsThread DEF Authorize, Reads, Idle, CleanInv, ControlOK, Go, Cleaning
  <2> QED
    BY <2>1, <2>2
<1>2. CASE AuthorizeLock
  <2>1. AuthInv'
    BY <1>2, <1>0, SessionIsThread
    DEF AuthorizeLock, PublishIdentity, AuthInv, ControlOK, Go, Authorizing
  <2>2. CleanInv'
    BY <1>2, <1>0, SessionIsThread
    DEF AuthorizeLock, PublishIdentity, CleanInv, ControlOK, Go, Cleaning
  <2> QED
    BY <2>1, <2>2
<1>3. CASE Register
  <2>1. AuthInv'
    BY <1>3, <1>0, SessionIsThread DEF Register, AuthInv, ControlOK, Go, Authorizing
  <2>2. CleanInv'
    BY <1>3, <1>0, SessionIsThread DEF Register, CleanInv, ControlOK, Go, Cleaning
  <2> QED
    BY <2>1, <2>2
<1>4. CASE AuthorizeRegistered
  <2>1. AuthInv'
    BY <1>4, <1>0, SessionIsThread
    DEF AuthorizeRegistered, AuthorizeCheck, AuthInv, ControlOK, Go, Authorizing
  <2>2. CleanInv'
    BY <1>4, <1>0, SessionIsThread
    DEF AuthorizeRegistered, AuthorizeCheck, CleanInv, ControlOK, Go, Cleaning
  <2> QED
    BY <2>1, <2>2
<1>5. CASE AuthorizeWrite
  <2>1. AuthInv'
    BY <1>5, <1>0, SessionIsThread
    DEF AuthorizeWrite, WriteFails, Run, AuthInv, ToldOK, ControlOK, Go, Authorizing
  <2>2. CleanInv'
    BY <1>5, <1>0, SessionIsThread
    DEF AuthorizeWrite, WriteFails, Run, CleanInv, ControlOK, Go, Cleaning
  <2> QED
    BY <2>1, <2>2
<1> QED
  BY <1>1, <1>2, <1>3, <1>4, <1>5

\* The first goroutine to close the session cleans up.
LEMMA CleanStep ==
    ASSUME Inv, NEW t \in Threads,
           Close(t) \/ Unregister(t) \/ Unsubscribe(t)
    PROVE  AuthInv' /\ CleanInv'
<1>0. TypeOK /\ ControlOK /\ ToldOK /\ AuthInv /\ CleanInv
  BY DEF Inv, TypeOK
<1>1. CASE Close(t)
  <2>1. AuthInv'
    BY <1>1, <1>0, SessionIsThread DEF Close, AuthInv, ControlOK, Go, Authorizing
  <2>2. CleanInv'
    BY <1>1, <1>0, SessionIsThread DEF Close, CleanInv, ControlOK, Go, Cleaning
  <2> QED
    BY <2>1, <2>2
<1>2. CASE Unregister(t)
  <2>1. AuthInv'
    BY <1>2, <1>0, SessionIsThread DEF Unregister, AuthInv, ControlOK, Go, Authorizing
  <2>2. CleanInv'
    BY <1>2, <1>0, SessionIsThread DEF Unregister, CleanInv, ControlOK, Go, Cleaning
  <2> QED
    BY <2>1, <2>2
<1>3. CASE Unsubscribe(t)
  <2>1. AuthInv'
    BY <1>3, <1>0, SessionIsThread DEF Unsubscribe, AuthInv, ControlOK, Go, Authorizing
  <2>2. CleanInv'
    BY <1>3, <1>0, SessionIsThread DEF Unsubscribe, CleanInv, ControlOK, Go, Cleaning
  <2> QED
    BY <2>1, <2>2
<1> QED
  BY <1>1, <1>2, <1>3

-----------------------------------------------------------------------------
(* Theorems *)

\* A new connection satisfies the invariant.
LEMMA InitInv == Init => Inv
<1> SUFFICES ASSUME Init PROVE Inv
  OBVIOUS
<1>1. FlagsOK
  BY DEF Init, FlagsOK
<1>2. DataOK /\ ToldOK /\ ControlOK
  BY BoundsAssumption, EmptySeq DEF Init, DataOK, ToldOK, ControlOK, Labels, Locked, Notifying
<1>3. AuthInv /\ CleanInv
  BY SessionIsThread DEF Init, AuthInv, CleanInv, Authorizing, Cleaning
<1> QED
  BY <1>1, <1>2, <1>3 DEF Inv, TypeOK

\* Every step keeps the invariant.
LEMMA NextInv == Inv /\ [Next]_vars => Inv'
<1> SUFFICES ASSUME Inv, [Next]_vars PROVE Inv'
  OBVIOUS
<1>0. TypeOK /\ AuthInv /\ CleanInv
  BY DEF Inv
<1>1. TypeOK'
  BY <1>0, TypeStep
<1>2. AuthInv' /\ CleanInv'
  <2>1. CASE UNCHANGED vars
    BY <2>1, <1>0 DEF vars, AuthInv, CleanInv
  <2>2. CASE Requests
    BY <2>2, <1>0, AuthorizeStep, PlainRequests, PlainStep DEF Requests, Inv
  <2>3. CASE Session
    BY <2>3, <1>0, AuthorizeStep, PlainSession, PlainStep DEF Session, Inv
  <2>4. ASSUME NEW t \in Threads, Common(t) PROVE AuthInv' /\ CleanInv'
    BY <2>4, <1>0, CleanStep, PlainCommon, PlainStep DEF Common, Inv
  <2> QED
    BY <2>1, <2>2, <2>3, <2>4, <1>0, PlainOthers, PlainStep DEF Next
<1> QED
  BY <1>1, <1>2 DEF Inv

\* The invariant holds in every reachable state.
THEOREM Invariance == Spec => []Inv
  BY InitInv, NextInv, PTL DEF Spec

\* Type correctness: a goroutine that sends work, answers an authorization or
\* negotiates a mask holds notifyMu.
THEOREM TypeCorrect == Spec => []TypeOK
<1>1. Inv => TypeOK
  BY DEF Inv
<1> QED
  BY <1>1, Invariance, PTL

\* Once the success response of an authorization was sent, no later notify names
\* another worker (miner_auth.go:312-314).
THEOREM NotifiedAuthorized == Spec => NotifiedWorkerAuthorized
<1>1. Inv /\ [Next]_vars => [work' # work => work'.worker = told.worker]_vars
  <2> SUFFICES ASSUME Inv, Next, work' # work PROVE work'.worker = told.worker
    OBVIOUS
  <2>1. PICK t \in Threads : Notify(t)
    BY ZenonT(60) DEF Next, Requests, Session, Common, Subscribe, AuthorizeRefused, SuggestDifficulty,
           Authorize, Configure, SubscribeWrite, AuthorizeLock, Register, AuthorizeRegistered,
           AuthorizeWrite, ConfigureLock, ConfigureWrite, ConfigureMask, Listen, Schedule,
           Suggest, CleanJob, Initial, FirstJob, SetDifficulty, PendingDifficulty, PendingMask,
           WriteMask, LockNotify, Setup, Close, Unregister, Unsubscribe, Receive, TimerFires,
           NotifyAgain, SessionEnds, Disconnect, ShareAccepted, Publish
  <2>2. ~closed /\ work' = [job |-> job[t], worker |-> worker]
    BY <2>1 DEF Notify
  <2>3. notifyMu = t /\ pc[t] = "notify"
    BY <2>1, LockHolder DEF Notify, Inv, TypeOK, Locked, Notifying
  <2>4. pc["session"] \notin Authorizing
    <3>1. pc["session"] \in Authorizing => notifyMu = "session"
      BY SessionIsThread, LockHolder DEF Inv, TypeOK, Authorizing, Locked
    <3> QED
      BY <3>1, <2>3 DEF Authorizing
  <2>5. worker = told.worker
    BY <2>2, <2>4 DEF Inv, AuthInv
  <2> QED
    BY <2>2, <2>5
<1> QED
  BY <1>1, Invariance, PTL DEF Spec, NotifiedWorkerAuthorized

\* A connection that was cleaned up is not left in the worker registry
\* (miner_auth.go:403-410).
THEOREM RegistryLeft == Spec => []ClosedLeavesRegistry
<1>1. Inv => ClosedLeavesRegistry
  BY DEF Inv, CleanInv, ClosedLeavesRegistry
<1> QED
  BY <1>1, Invariance, PTL

-----------------------------------------------------------------------------
(* The masks a winning share is tried with *)

\* The masks that can be in force, and those the history holds.
PoolMasks == {ConfigMask} \cup {JobMask[j] : j \in 1..MaxJobs}
Masks == {m \cap option.mask : m \in PoolMasks, option \in Options}
Remembered == {history[i] : i \in 1..Len(history)}
Distinct(h) == \A i, j \in 1..Len(h) : h[i] = h[j] => i = j

\* Taking one mask out of the history leaves the others, in their order.
LEMMA WithoutOne ==
    ASSUME NEW S, NEW h \in Seq(S), Distinct(h), NEW m
    PROVE  /\ Without(h, m) \in Seq(S) /\ Distinct(Without(h, m))
           /\ \A k \in 1..Len(Without(h, m)) : Without(h, m)[k] # m
           /\ \A i \in 1..Len(h) :
                h[i] # m => \E k \in 1..Len(Without(h, m)) : Without(h, m)[k] = h[i]
<1>0. Len(h) \in Nat /\ \A k \in 1..Len(h) : h[k] \in S
  BY LenProperties, ElementOfSeq
<1>1. CASE ~\E i \in 1..Len(h) : h[i] = m
  BY <1>1 DEF Without
<1>2. CASE \E i \in 1..Len(h) : h[i] = m
  <2>1. PICK i \in 1..Len(h) : h[i] = m /\ Without(h, m) = SubSeq(h, 1, i - 1) \o SubSeq(h, i + 1, Len(h))
    BY <1>2 DEF Without
  <2> DEFINE before == SubSeq(h, 1, i - 1)
             after == SubSeq(h, i + 1, Len(h))
  <2>2. i \in Nat /\ 1 <= i /\ i <= Len(h)
    BY <1>0
  <2>3. before \in Seq(S) /\ Len(before) = i - 1 /\ \A k \in 1..(i - 1) : before[k] = h[k]
    <3>1. i - 1 \in Int /\ 1 \in Int /\ \A k \in 1..(i - 1) : h[k] \in S
      BY <1>0, <2>2
    <3>2. /\ before \in Seq(S) /\ Len(before) = IF 1 <= i - 1 THEN (i - 1) - 1 + 1 ELSE 0
          /\ \A k \in 1..((i - 1) - 1 + 1) : before[k] = h[1 + k - 1]
      BY <3>1, SubSeqProperties
    <3> HIDE DEF before
    <3> QED
      BY <3>2, <2>2
  <2>4. /\ after \in Seq(S) /\ Len(after) = Len(h) - i
        /\ \A k \in 1..(Len(h) - i) : after[k] = h[i + k]
    <3>1. i + 1 \in Int /\ Len(h) \in Int /\ \A k \in (i + 1)..Len(h) : h[k] \in S
      BY <1>0, <2>2
    <3>2. /\ after \in Seq(S) /\ Len(after) = IF i + 1 <= Len(h) THEN Len(h) - (i + 1) + 1 ELSE 0
          /\ \A k \in 1..(Len(h) - (i + 1) + 1) : after[k] = h[i + 1 + k - 1]
      BY <3>1, SubSeqProperties
    <3> HIDE DEF after
    <3> QED
      BY <3>2, <2>2, <1>0
  <2>5. /\ Without(h, m) \in Seq(S) /\ Len(Without(h, m)) = Len(h) - 1
        /\ \A k \in 1..(Len(h) - 1) : Without(h, m)[k] = IF k < i THEN h[k] ELSE h[k + 1]
    <3> HIDE DEF before, after
    <3>1. Without(h, m) = before \o after
      BY <2>1 DEF before, after
    <3>a. before \in Seq(S) /\ after \in Seq(S)
      BY <2>3, <2>4
    <3>b. /\ before \o after \in Seq(S) /\ Len(before \o after) = Len(before) + Len(after)
          /\ \A k \in 1..Len(before) + Len(after) :
                (before \o after)[k] = IF k <= Len(before) THEN before[k] ELSE after[k - Len(before)]
      BY <3>a, ConcatProperties
    <3>2. /\ Without(h, m) \in Seq(S) /\ Len(Without(h, m)) = Len(before) + Len(after)
          /\ \A k \in 1..Len(before) + Len(after) :
                Without(h, m)[k] = IF k <= Len(before) THEN before[k] ELSE after[k - Len(before)]
      BY <3>1, <3>b
    <3>3. ASSUME NEW k \in 1..(Len(h) - 1)
          PROVE  Without(h, m)[k] = IF k < i THEN h[k] ELSE h[k + 1]
      <4>1. Without(h, m)[k] = IF k <= i - 1 THEN before[k] ELSE after[k - (i - 1)]
        BY <3>2, <2>3, <2>4, <2>2, <1>0
      <4>2. CASE k < i
        BY <4>1, <4>2, <2>3, <2>2
      <4>3. CASE ~(k < i)
        <5>1. k - (i - 1) \in 1..(Len(h) - i) /\ i + (k - (i - 1)) = k + 1
          BY <4>3, <2>2, <1>0
        <5> QED
          BY <5>1, <4>1, <4>3, <2>4, <2>2
      <4> QED
        BY <4>2, <4>3
    <3>4. Len(Without(h, m)) = Len(h) - 1
      BY <3>2, <2>3, <2>4, <2>2, <1>0
    <3> QED
      BY <3>2, <3>3, <3>4
  <2> HIDE DEF before, after
  <2>6. ASSUME NEW k \in 1..(Len(h) - 1) PROVE Without(h, m)[k] # m
    <3>1. k \in 1..Len(h) /\ k + 1 \in 1..Len(h)
      BY <1>0
    <3>2. Without(h, m)[k] = IF k < i THEN h[k] ELSE h[k + 1]
      BY <2>5
    <3> QED
      BY <3>1, <3>2, <2>1, <2>2 DEF Distinct
  <2>7. Distinct(Without(h, m))
    BY <2>5, <2>2, <1>0 DEF Distinct
  <2>8. ASSUME NEW j \in 1..Len(h), h[j] # m
        PROVE  \E k \in 1..(Len(h) - 1) : Without(h, m)[k] = h[j]
    <3>1. CASE j < i
      BY <3>1, <2>5, <2>2, <1>0
    <3>2. CASE j > i
      <4>1. j - 1 \in 1..(Len(h) - 1) /\ ~(j - 1 < i) /\ (j - 1) + 1 = j
        BY <3>2, <2>2, <1>0
      <4> QED
        BY <4>1, <2>5
    <3>3. j # i
      BY <2>8, <2>1
    <3> QED
      BY <3>1, <3>2, <3>3, <2>2
  <2>9. \A k \in 1..Len(Without(h, m)) : Without(h, m)[k] # m
    BY <2>5, <2>6
  <2>10. \A j \in 1..Len(h) :
           h[j] # m => \E k \in 1..Len(Without(h, m)) : Without(h, m)[k] = h[j]
    BY <2>5, <2>8
  <2> QED
    BY <2>5, <2>7, <2>9, <2>10
<1> QED
  BY <1>1, <1>2

\* A history of distinct masks is no longer than their number.
LEMMA FewMasks ==
    ASSUME NEW S, IsFiniteSet(S), NEW h \in Seq(S), Distinct(h)
    PROVE  Len(h) <= Cardinality(S)
<1>1. Len(h) \in Nat /\ h \in [1..Len(h) -> S]
  BY LenProperties
<1>2. IsFiniteSet(1..Len(h)) /\ Cardinality(1..Len(h)) = Len(h)
  BY <1>1, FS_Interval
<1>3. Cardinality(S) \in Nat
  BY FS_CardinalityType
<1>4. ~(Cardinality(S) < Cardinality(1..Len(h)))
  BY <1>1, <1>2, FS_PigeonHole DEF Distinct
<1> QED
  BY <1>1, <1>2, <1>3, <1>4

\* A history with room for every mask forgets none.
Extends(S, h, m, new) ==
    /\ new \in Seq(S) /\ Distinct(new)
    /\ \E k \in 1..Len(new) : new[k] = m
    /\ \A i \in 1..Len(h) : \E k \in 1..Len(new) : new[k] = h[i]
LEMMA RememberAll ==
    ASSUME NEW S, IsFiniteSet(S), Cardinality(S) <= HistoryLimit,
           NEW h \in Seq(S), Distinct(h), NEW m \in S
    PROVE  Extends(S, h, m, Remember(h, m))
<1> DEFINE kept == Without(h, m)
           longer == Append(kept, m)
<1>1. /\ kept \in Seq(S) /\ Distinct(kept) /\ Len(kept) \in Nat
      /\ \A k \in 1..Len(kept) : kept[k] # m
      /\ \A i \in 1..Len(h) : h[i] # m => \E k \in 1..Len(kept) : kept[k] = h[i]
  BY WithoutOne, LenProperties
<1> HIDE DEF kept
<1>2. /\ longer \in Seq(S) /\ Len(longer) = Len(kept) + 1
      /\ \A k \in 1..Len(kept) : longer[k] = kept[k]
      /\ longer[Len(kept) + 1] = m
  BY <1>1, AppendProperties
<1> HIDE DEF longer
<1>3. Distinct(longer)
  BY <1>1, <1>2 DEF Distinct
<1>4. Len(longer) <= Cardinality(S) /\ Cardinality(S) \in Nat
  BY <1>2, <1>3, FewMasks, FS_CardinalityType
<1>5. Remember(h, m) = longer
  BY <1>2, <1>4, <1>1, BoundsAssumption DEF Remember, longer, kept
<1>6. ASSUME NEW i \in 1..Len(h)
      PROVE  \E k \in 1..Len(longer) : longer[k] = h[i]
  <2>1. CASE h[i] = m
    BY <2>1, <1>1, <1>2
  <2>2. CASE h[i] # m
    BY <2>2, <1>1, <1>2
  <2> QED
    BY <2>1, <2>2
<1> QED
  BY <1>1, <1>2, <1>3, <1>5, <1>6 DEF Extends

-----------------------------------------------------------------------------
(* The calls of a goroutine *)

CallNames == {"listen", "schedule", "initial", "suggest", "difficulty", "pendingDifficulty",
              "pendingMask", "firstJob", "clean", "notifyAgain"}
TodoOK == todo \in [Threads -> Seq(CallNames)]
Waits(t, call) == \E i \in 1..Len(todo[t]) : todo[t][i] = call

\* The labels of the session goroutine inside a request, and those at which a job
\* is about to be sent.
Answering == {"subWrite", "authLock", "register", "authCheck", "authWrite", "cfgLock",
              "cfgWrite", "cfgMask"}
Announcing == {"lockNotify"} \cup Notifying

\* One goroutine goes to a label, the others stay.
LEMMA GoOne ==
    ASSUME ControlOK, NEW t \in Threads, NEW l, Go(t, l)
    PROVE  pc'[t] = l /\ \A s \in Threads \ {t} : pc'[s] = pc[s]
  BY DEF ControlOK, Go

\* One goroutine gets other calls, the others keep theirs.
LEMMA TodoOne ==
    ASSUME TodoOK, NEW t \in Threads, NEW calls \in Seq(CallNames),
           todo' = [todo EXCEPT ![t] = calls]
    PROVE  TodoOK' /\ todo'[t] = calls /\ \A s \in Threads \ {t} : todo'[s] = todo[s]
  BY DEF TodoOK

\* The calls a goroutine still has to make are its calls without the first.
LEMMA Rest ==
    ASSUME TodoOK, NEW t \in Threads, todo[t] # <<>>
    PROVE  /\ Tail(todo[t]) \in Seq(CallNames) /\ Head(todo[t]) = todo[t][1]
           /\ Len(todo[t]) \in Nat /\ Len(Tail(todo[t])) = Len(todo[t]) - 1
           /\ \A i \in 1..(Len(todo[t]) - 1) : Tail(todo[t])[i] = todo[t][i + 1]
<1>1. todo[t] \in Seq(CallNames)
  BY DEF TodoOK
<1>2. Head(todo[t]) = todo[t][1]
  BY <1>1
<1> QED
  BY <1>1, <1>2, HeadTailProperties, LenProperties

\* The first call of a goroutine is replaced by the calls it makes.
LEMMA ThenCalls ==
    ASSUME TodoOK, NEW t \in Threads, todo[t] # <<>>, NEW calls \in Seq(CallNames),
           Then(t, calls)
    PROVE  /\ TodoOK' /\ \A s \in Threads \ {t} : todo'[s] = todo[s]
           /\ \A c : Waits(t, c) /\ c # Head(todo[t]) => Waits(t, c)'
           /\ \A i \in 1..Len(calls) : Waits(t, calls[i])'
           /\ Len(todo'[t]) = Len(calls) + Len(todo[t]) - 1
           /\ \A i \in 1..Len(todo'[t]) :
                todo'[t][i] = IF i <= Len(calls) THEN calls[i] ELSE todo[t][i - Len(calls) + 1]
<1> DEFINE rest == Tail(todo[t])
<1>1. /\ rest \in Seq(CallNames) /\ Head(todo[t]) = todo[t][1]
      /\ Len(todo[t]) \in Nat /\ Len(rest) = Len(todo[t]) - 1
      /\ \A i \in 1..(Len(todo[t]) - 1) : rest[i] = todo[t][i + 1]
  BY Rest
<1>2. /\ calls \o rest \in Seq(CallNames) /\ Len(calls \o rest) = Len(calls) + Len(rest)
      /\ Len(calls) \in Nat
      /\ \A i \in 1..Len(calls) + Len(rest) :
            (calls \o rest)[i] = IF i <= Len(calls) THEN calls[i] ELSE rest[i - Len(calls)]
  BY <1>1, ConcatProperties, LenProperties
<1>3. todo' = [todo EXCEPT ![t] = calls \o rest]
  BY DEF Then
<1> HIDE DEF rest
<1>4. TodoOK' /\ todo'[t] = calls \o rest /\ \A s \in Threads \ {t} : todo'[s] = todo[s]
  BY <1>2, <1>3, TodoOne
<1>5. ASSUME NEW i \in 1..(Len(calls) + Len(todo[t]) - 1)
      PROVE  (calls \o rest)[i] = IF i <= Len(calls) THEN calls[i] ELSE todo[t][i - Len(calls) + 1]
  <2>1. CASE i <= Len(calls)
    BY <2>1, <1>1, <1>2
  <2>2. CASE ~(i <= Len(calls))
    <3>1. i - Len(calls) \in 1..(Len(todo[t]) - 1) /\ i \in 1..Len(calls) + Len(rest)
      BY <2>2, <1>1, <1>2
    <3>2. (calls \o rest)[i] = rest[i - Len(calls)]
      BY <2>2, <3>1, <1>2
    <3> QED
      BY <3>1, <3>2, <2>2, <1>1
  <2> QED
    BY <2>1, <2>2
<1>6. ASSUME NEW c, NEW i \in 1..Len(todo[t]), todo[t][i] = c, c # Head(todo[t])
      PROVE  \E k \in 1..Len(calls \o rest) : (calls \o rest)[k] = c
  <2>1. i # 1 /\ i - 1 \in 1..Len(rest)
    BY <1>6, <1>1
  <2>2. Len(calls) + (i - 1) \in 1..(Len(calls) + Len(rest)) /\ ~(Len(calls) + (i - 1) <= Len(calls))
    BY <2>1, <1>1, <1>2
  <2>3. (calls \o rest)[Len(calls) + (i - 1)] = todo[t][Len(calls) + (i - 1) - Len(calls) + 1]
    BY <2>2, <1>5, <1>1
  <2>4. Len(calls) + (i - 1) - Len(calls) + 1 = i
    BY <1>2
  <2> QED
    BY <2>2, <2>3, <2>4, <1>2, <1>6
<1>7. ASSUME NEW i \in 1..Len(calls)
      PROVE  \E k \in 1..Len(calls \o rest) : (calls \o rest)[k] = calls[i]
  <2>1. i \in 1..Len(calls \o rest) /\ i <= Len(calls)
    BY <1>1, <1>2
  <2> QED
    BY <2>1, <1>2
<1>8. Len(todo'[t]) = Len(calls) + Len(todo[t]) - 1
  BY <1>4, <1>2, <1>1
<1>9. \A c : Waits(t, c) /\ c # Head(todo[t]) => Waits(t, c)'
  BY <1>4, <1>6 DEF Waits
<1>10. \A i \in 1..Len(calls) : Waits(t, calls[i])'
  BY <1>4, <1>7 DEF Waits
<1>11. \A i \in 1..Len(todo'[t]) :
         todo'[t][i] = IF i <= Len(calls) THEN calls[i] ELSE todo[t][i - Len(calls) + 1]
  BY <1>4, <1>5, <1>8
<1> QED
  BY <1>4, <1>8, <1>9, <1>10, <1>11

-----------------------------------------------------------------------------
(* The jobs that are about to be sent *)

\* A goroutine that sends work has a job; the submission worker has it from the
\* share that called for it.  A goroutine that answers a request has no other call
\* to make, and listenJobs and an administrator never have one.
ShareCalls == {<<>>, <<"difficulty", "notifyAgain">>, <<"notifyAgain">>}
JobsLocal(t) ==
    /\ todo[t] \in Seq(CallNames)
    /\ pc[t] \in Announcing => job[t] # 0
    /\ t = "share" => /\ todo[t] \in ShareCalls
                      /\ todo[t] # <<>> => pc[t] = "idle" /\ job[t] # 0
    /\ t \in {"listener", "admin"} => todo[t] = <<>>
    /\ t = "session" /\ pc[t] \in Answering => todo[t] = <<>>
JobsInv == TodoOK /\ \A t \in Threads : JobsLocal(t)

\* Only t moves.
Only(t) ==
    /\ TodoOK'
    /\ \A s \in Threads \ {t} : pc'[s] = pc[s] /\ todo'[s] = todo[s] /\ job'[s] = job[s]

LEMMA OnlyStep ==
    ASSUME JobsInv, NEW t \in Threads, Only(t), JobsLocal(t)'
    PROVE  JobsInv'
  BY DEF JobsInv, JobsLocal, Only

\* The kinds of steps a goroutine takes: it goes to a label, drops its calls or has
\* the first one taken off, and gets or loses a job.
LEMMA Moves ==
    ASSUME TypeOK, TodoOK, NEW t \in Threads,
           pc' = pc \/ \E l : Go(t, l),
           \/ todo' = todo
           \/ \E calls \in Seq(CallNames) : todo' = [todo EXCEPT ![t] = calls],
           job' = job \/ \E j : job' = [job EXCEPT ![t] = j]
    PROVE  Only(t)
<1>1. TodoOK' /\ \A s \in Threads \ {t} : todo'[s] = todo[s]
  BY TodoOne DEF TodoOK
<1>2. \A s \in Threads \ {t} : pc'[s] = pc[s]
  BY GoOne DEF TypeOK
<1>3. \A s \in Threads \ {t} : job'[s] = job[s]
  BY DEF TypeOK, DataOK
<1> QED
  BY <1>1, <1>2, <1>3 DEF Only

\* What Then puts in place is a sequence of calls.
LEMMA ThenSeq ==
    ASSUME TodoOK, NEW t \in Threads, todo[t] # <<>>, NEW calls \in Seq(CallNames), Then(t, calls)
    PROVE  \E new \in Seq(CallNames) : todo' = [todo EXCEPT ![t] = new] /\ todo'[t] = new
                                       /\ (calls = <<>> => new = Tail(todo[t]))
<1>1. Tail(todo[t]) \in Seq(CallNames)
  BY Rest
<1>2. calls \o Tail(todo[t]) \in Seq(CallNames)
  BY <1>1, ConcatProperties
<1>3. calls = <<>> => calls \o Tail(todo[t]) = Tail(todo[t])
  BY <1>1, ConcatEmptySeq
<1> QED
  BY <1>2, <1>3 DEF Then, TodoOK

\* A write that fails leaves nothing to do but close.
LEMMA FailsLocal ==
    ASSUME TypeOK, TodoOK, NEW t \in Threads, WriteFails(t), job' = job \/ Forget(t)
    PROVE  Only(t) /\ JobsLocal(t)'
<1>1. <<>> \in Seq(CallNames)
  BY EmptySeq
<1>2. Only(t)
  BY <1>1, Moves DEF WriteFails, Forget
<1>3. pc'[t] = "close" /\ todo'[t] = <<>>
  BY GoOne DEF WriteFails, TypeOK, TodoOK
<1> QED
  BY <1>1, <1>2, <1>3 DEF JobsLocal, Announcing, Notifying, Answering, ShareCalls

\* A step that starts no call and announces no job keeps what is true of its goroutine.
LEMMA GoLocal ==
    ASSUME TypeOK, JobsInv, NEW t \in Threads, NEW l, Go(t, l), todo' = todo,
           job' = job \/ Forget(t), l \notin Announcing, pc[t] = "idle" => todo[t] = <<>>,
           l \in Answering => pc[t] \in Answering \/ todo[t] = <<>>
    PROVE  Only(t) /\ JobsLocal(t)'
<1>1. Only(t)
  BY Moves DEF Forget, JobsInv
<1>2. pc'[t] = l /\ todo'[t] = todo[t]
  BY GoOne DEF TypeOK
<1> QED
  BY <1>1, <1>2 DEF JobsInv, JobsLocal

\* The session goroutine or the timer runs new calls.
LEMMA RunLocal ==
    ASSUME TypeOK, JobsInv, NEW t \in {"session", "timer"}, NEW calls \in Seq(CallNames),
           todo' = [todo EXCEPT ![t] = calls], (pc' = pc /\ pc[t] = "idle") \/ Go(t, "idle"), job' = job
    PROVE  Only(t) /\ JobsLocal(t)'
<1>0. t \in Threads
  BY DEF Threads
<1>1. Only(t)
  BY <1>0, Moves DEF JobsInv
<1>2. pc'[t] = "idle" /\ todo'[t] = calls
  BY <1>0, GoOne DEF TypeOK, JobsInv, TodoOK
<1> QED
  BY <1>1, <1>2 DEF JobsLocal, Announcing, Notifying, Answering

\* The first call of the session goroutine or of the timer is taken off.
LEMMA ThenLocal ==
    ASSUME TypeOK, JobsInv, NEW t \in {"session", "timer"}, NEW c, Calls(t, c),
           NEW calls \in Seq(CallNames), Then(t, calls), job' = job, pc' = pc
    PROVE  Only(t) /\ JobsLocal(t)'
<1>1. t \in Threads /\ todo[t] # <<>> /\ pc[t] = "idle"
  BY DEF Threads, Calls
<1>2. \E new \in Seq(CallNames) : todo' = [todo EXCEPT ![t] = new]
  BY <1>1, ThenSeq DEF JobsInv
<1> QED
  BY <1>1, <1>2, RunLocal

\* Only the session goroutine and the timer make calls of other kinds.
LEMMA Caller ==
    ASSUME JobsInv, NEW t \in Threads, NEW c, Calls(t, c), c \notin {"difficulty", "notifyAgain"}
    PROVE  t \in {"session", "timer"}
<1>1. todo[t] # <<>> /\ Head(todo[t]) = c
  BY DEF Calls
<1>2. t # "listener" /\ t # "admin"
  BY <1>1 DEF JobsInv, JobsLocal
<1>3. t # "share"
  <2>1. Head(<<"difficulty", "notifyAgain">>) = "difficulty" /\ Head(<<"notifyAgain">>) = "notifyAgain"
    OBVIOUS
  <2> QED
    BY <1>1, <2>1 DEF JobsInv, JobsLocal, ShareCalls
<1> QED
  BY <1>2, <1>3 DEF Threads

\* The sequences of calls that handlers start.
LEMMA CallSequences ==
    /\ <<>> \in Seq(CallNames) /\ <<"suggest">> \in Seq(CallNames) /\ <<"initial">> \in Seq(CallNames)
    /\ StartWork \in Seq(CallNames) /\ AfterAuthorize \in Seq(CallNames)
    /\ AfterConfigure \in Seq(CallNames)
    /\ <<"difficulty", "initial", "clean">> \in Seq(CallNames)
    /\ <<"pendingDifficulty", "pendingMask", "firstJob">> \in Seq(CallNames)
    /\ <<"difficulty">> \o <<"pendingDifficulty", "pendingMask", "firstJob">> \in Seq(CallNames)
    /\ <<>> \o <<"pendingDifficulty", "pendingMask", "firstJob">> \in Seq(CallNames)
    /\ <<"difficulty", "notifyAgain">> \in Seq(CallNames) /\ <<"notifyAgain">> \in Seq(CallNames)
<1>1. <<>> \in Seq(CallNames)
  BY EmptySeq
<1>2. /\ <<"suggest">> \in Seq(CallNames) /\ <<"initial">> \in Seq(CallNames)
      /\ <<"listen">> \in Seq(CallNames) /\ <<"difficulty">> \in Seq(CallNames)
      /\ <<"notifyAgain">> \in Seq(CallNames)
  BY DEF CallNames
<1>3. /\ <<"schedule", "initial">> \in Seq(CallNames) /\ <<"difficulty", "clean">> \in Seq(CallNames)
      /\ <<"difficulty", "notifyAgain">> \in Seq(CallNames)
  BY DEF CallNames
<1>4. <<"difficulty", "initial", "clean">> \in Seq(CallNames) /\ StartWork \in Seq(CallNames)
      /\ <<"pendingDifficulty", "pendingMask", "firstJob">> \in Seq(CallNames)
  BY DEF CallNames, StartWork
<1>5. AfterAuthorize \in Seq(CallNames)
  <2>1. (IF want.worker \in Hinted THEN <<"suggest">> ELSE <<>>) \in Seq(CallNames)
    BY <1>1, <1>2
  <2>2. <<"listen">> \o (IF want.worker \in Hinted THEN <<"suggest">> ELSE <<>>) \in Seq(CallNames)
    BY <2>1, <1>2, ConcatProperties
  <2>3. (<<"listen">> \o (IF want.worker \in Hinted THEN <<"suggest">> ELSE <<>>))
          \o <<"schedule", "initial">> \in Seq(CallNames)
    BY <2>2, <1>3, ConcatProperties
  <2> QED
    BY <2>3, <1>1 DEF AfterAuthorize
<1>6. AfterConfigure \in Seq(CallNames)
  <2>1. (IF want.floor THEN <<"difficulty", "clean">> ELSE <<>>) \in Seq(CallNames)
    BY <1>1, <1>3
  <2> QED
    BY <2>1, <1>2, ConcatProperties DEF AfterConfigure
<1>7. /\ <<"difficulty">> \o <<"pendingDifficulty", "pendingMask", "firstJob">> \in Seq(CallNames)
      /\ <<>> \o <<"pendingDifficulty", "pendingMask", "firstJob">> \in Seq(CallNames)
  BY <1>1, <1>2, <1>4, ConcatProperties
<1> QED
  BY <1>1, <1>2, <1>3, <1>4, <1>5, <1>6, <1>7

\* A request finds the session goroutine with nothing else to do.
LEMMA RequestJobs ==
    ASSUME TypeOK, JobsInv, Requests
    PROVE  Only("session") /\ JobsLocal("session")'
<1> USE SessionIsThread
<1>1. CASE Subscribe
  BY <1>1, GoLocal DEF Subscribe, Reads, Idle, Announcing, Notifying
<1>2. CASE AuthorizeRefused
  BY <1>2, GoLocal DEF AuthorizeRefused, Reads, Idle, Announcing, Notifying
<1>3. CASE SuggestDifficulty
  BY <1>3, RunLocal, CallSequences DEF SuggestDifficulty, Reads, Idle
<1>4. CASE \E w \in Workers : Authorize(w)
  BY <1>4, GoLocal DEF Authorize, Reads, Idle, Announcing, Notifying
<1>5. CASE \E option \in Options : Configure(option)
  BY <1>5, GoLocal DEF Configure, Reads, Idle, Announcing, Notifying
<1> QED
  BY <1>1, <1>2, <1>3, <1>4, <1>5 DEF Requests

\* While it answers, it has no other call to make.
LEMMA SessionJobs ==
    ASSUME TypeOK, JobsInv, Session
    PROVE  Only("session") /\ JobsLocal("session")'
<1> USE SessionIsThread
<1>0. TodoOK
  BY DEF JobsInv
<1>1. CASE SubscribeWrite
  <2>1. CASE WriteFails("session")
    BY <2>1, <1>0, <1>1, FailsLocal DEF SubscribeWrite
  <2>2. CASE Run("session", IF authorized THEN StartWork ELSE <<>>)
    BY <2>2, <1>1, RunLocal, CallSequences DEF SubscribeWrite, Run
  <2> QED
    BY <2>1, <2>2, <1>1 DEF SubscribeWrite
<1>2. CASE AuthorizeLock
  <2>1. PICK l \in {"idle", "register"} : Go("session", l)
    BY <1>2 DEF AuthorizeLock, PublishIdentity
  <2> QED
    BY <2>1, <1>2, GoLocal DEF AuthorizeLock, Announcing, Notifying, Answering
<1>3. CASE Register
  BY <1>3, GoLocal DEF Register, Announcing, Notifying, Answering
<1>4. CASE AuthorizeRegistered
  <2>1. PICK l \in {"idle", "authWrite"} : Go("session", l)
    BY <1>4 DEF AuthorizeRegistered, AuthorizeCheck
  <2> QED
    BY <2>1, <1>4, GoLocal DEF AuthorizeRegistered, Announcing, Notifying, Answering
<1>5. CASE AuthorizeWrite
  <2>1. CASE WriteFails("session")
    BY <2>1, <1>0, <1>5, FailsLocal DEF AuthorizeWrite
  <2>2. CASE Run("session", AfterAuthorize)
    BY <2>2, <1>5, RunLocal, CallSequences DEF AuthorizeWrite, Run
  <2> QED
    BY <2>1, <2>2, <1>5 DEF AuthorizeWrite
<1>6. CASE ConfigureLock
  <2>1. PICK l \in {"idle", "cfgWrite"} : Go("session", l)
    BY <1>6 DEF ConfigureLock
  <2> QED
    BY <2>1, <1>6, GoLocal DEF ConfigureLock, Announcing, Notifying, Answering
<1>7. CASE ConfigureWrite
  <2>1. CASE WriteFails("session")
    BY <2>1, <1>0, <1>7, FailsLocal DEF ConfigureWrite
  <2>2. CASE Run("session", AfterConfigure)
    BY <2>2, <1>7, RunLocal, CallSequences DEF ConfigureWrite, Run
  <2>3. CASE Go("session", "cfgMask") /\ todo' = todo
    BY <2>3, <1>7, GoLocal DEF ConfigureWrite, Announcing, Notifying, Answering
  <2> QED
    BY <2>1, <2>2, <2>3, <1>7 DEF ConfigureWrite
<1>8. CASE ConfigureMask
  <2>1. CASE WriteFails("session")
    BY <2>1, <1>0, <1>8, FailsLocal DEF ConfigureMask
  <2>2. CASE Run("session", AfterConfigure)
    BY <2>2, <1>8, RunLocal, CallSequences DEF ConfigureMask, Run
  <2> QED
    BY <2>1, <2>2, <1>8 DEF ConfigureMask
<1>9. CASE Listen
  <2>1. CASE Return("session")
    BY <2>1, <1>9, ThenLocal, CallSequences DEF Listen, Return
  <2>2. CASE Run("session", <<>>)
    BY <2>2, <1>9, RunLocal, CallSequences DEF Listen, Run
  <2> QED
    BY <2>1, <2>2, <1>9 DEF Listen
<1>10. CASE Schedule
  BY <1>10, ThenLocal, CallSequences DEF Schedule, Return
<1>11. CASE Suggest
  <2>1. (IF suggestDone THEN <<>> ELSE <<"difficulty", "initial", "clean">>) \in Seq(CallNames)
    BY CallSequences
  <2> QED
    BY <2>1, <1>11, ThenLocal DEF Suggest
<1>12. CASE CleanJob
  <2>1. CASE pc' = pc /\ job' = job
    BY <2>1, <1>12, ThenLocal, CallSequences DEF CleanJob
  <2>2. CASE curJob # 0 /\ Go("session", "lockNotify") /\ job' = [job EXCEPT !["session"] = curJob]
    <3>1. todo["session"] # <<>> /\ Then("session", <<>>)
      BY <1>12 DEF CleanJob, Calls
    <3>2. PICK new \in Seq(CallNames) : todo' = [todo EXCEPT !["session"] = new] /\ todo'["session"] = new
      BY <3>1, <1>0, ThenSeq, CallSequences
    <3>3. Only("session")
      BY <3>2, <2>2, <1>0, Moves
    <3>4. pc'["session"] = "lockNotify" /\ job'["session"] = curJob
      BY <2>2, GoOne DEF TypeOK, DataOK
    <3> QED
      BY <3>2, <3>3, <3>4, <2>2 DEF JobsLocal, Answering
  <2> QED
    BY <2>1, <2>2, <1>12 DEF CleanJob
<1> QED
  BY <1>1, <1>2, <1>3, <1>4, <1>5, <1>6, <1>7, <1>8, <1>9, <1>10, <1>11, <1>12 DEF Session

\* The first call is taken off and the goroutine goes on elsewhere.
LEMMA ThenGoLocal ==
    ASSUME TypeOK, JobsInv, NEW t \in {"session", "timer"}, NEW c, Calls(t, c), Then(t, <<>>),
           NEW l, Go(t, l), l \notin Answering, job' = job \/ (\E j : job' = [job EXCEPT ![t] = j]),
           l \in Announcing => job'[t] # 0
    PROVE  Only(t) /\ JobsLocal(t)'
<1>1. t \in Threads /\ todo[t] # <<>> /\ TodoOK
  BY DEF Threads, Calls, JobsInv
<1>2. PICK new \in Seq(CallNames) : todo' = [todo EXCEPT ![t] = new] /\ todo'[t] = new
  BY <1>1, ThenSeq, CallSequences
<1>3. Only(t)
  BY <1>1, <1>2, Moves
<1>4. pc'[t] = l
  BY <1>1, GoOne DEF TypeOK
<1> QED
  BY <1>2, <1>3, <1>4 DEF JobsLocal

\* A goroutine that holds a job takes it to the next label of its announcement.
LEMMA AnnounceLocal ==
    ASSUME TypeOK, JobsInv, NEW t \in Threads, NEW l \in Announcing, Go(t, l), todo' = todo,
           job' = job, pc[t] \in Announcing
    PROVE  Only(t) /\ JobsLocal(t)'
<1>1. Only(t)
  BY Moves DEF JobsInv
<1>2. pc'[t] = l /\ todo'[t] = todo[t] /\ job'[t] = job[t]
  BY GoOne DEF TypeOK
<1> QED
  BY <1>1, <1>2 DEF JobsInv, JobsLocal, Announcing, Notifying, Answering

\* After its difficulty the submission worker has one call left.
LEMMA ShareLocal ==
    ASSUME TypeOK, JobsInv, Calls("share", "difficulty"), Return("share"), job' = job
    PROVE  Only("share") /\ JobsLocal("share")'
<1>1. "share" \in Threads /\ todo["share"] # <<>> /\ TodoOK /\ pc["share"] = "idle"
  BY DEF Threads, Calls, JobsInv
<1>2. PICK new \in Seq(CallNames) : /\ todo' = [todo EXCEPT !["share"] = new]
                                    /\ todo'["share"] = new /\ new = Tail(todo["share"])
  BY <1>1, ThenSeq, CallSequences DEF Return
<1>3. Only("share")
  BY <1>1, <1>2, Moves DEF Return
<1>4. todo["share"] = <<"difficulty", "notifyAgain">> \/ todo["share"] = <<"notifyAgain">>
  BY <1>1 DEF JobsInv, JobsLocal, ShareCalls
<1>5. Tail(todo["share"]) \in ShareCalls
  <2>1. Tail(<<"notifyAgain">>) = <<>>
    OBVIOUS
  <2>2. Tail(<<"difficulty", "notifyAgain">>) = <<"notifyAgain">>
    OBVIOUS
  <2> QED
    BY <1>4, <2>1, <2>2 DEF ShareCalls
<1>6. job["share"] # 0
  BY <1>1 DEF JobsInv, JobsLocal
<1> QED
  BY <1>1, <1>2, <1>3, <1>5, <1>6 DEF JobsLocal, Return, Announcing, Notifying

\* Telling a difficulty ends a call or the session.
LEMMA TellLocal ==
    ASSUME TypeOK, JobsInv, NEW t \in Threads,
           Calls(t, "difficulty") \/ Calls(t, "pendingDifficulty"),
           TellDifficulty(t) \/ Return(t), job' = job
    PROVE  Only(t) /\ JobsLocal(t)'
<1>1. CASE WriteFails(t)
  BY <1>1, FailsLocal DEF JobsInv
<1>2. CASE Return(t) /\ t \in {"session", "timer"}
  BY <1>2, ThenLocal, CallSequences DEF Return
<1>3. CASE Return(t) /\ t \notin {"session", "timer"}
  <2>1. Calls(t, "difficulty") /\ todo[t] # <<>>
    BY <1>3, Caller DEF Calls
  <2>2. t = "share"
    BY <1>3, <2>1 DEF Threads, JobsInv, JobsLocal
  <2> QED
    BY <1>3, <2>1, <2>2, ShareLocal
<1> QED
  BY <1>1, <1>2, <1>3 DEF TellDifficulty

\* The calls that any goroutine makes.
LEMMA CommonJobs ==
    ASSUME TypeOK, JobsInv, NEW t \in Threads, Common(t)
    PROVE  Only(t) /\ JobsLocal(t)'
<1>0. TodoOK
  BY DEF JobsInv
<1>1. CASE Initial(t)
  <2>1. t \in {"session", "timer"}
    BY <1>1, Caller DEF Initial
  <2>2. \E calls \in Seq(CallNames) : Then(t, calls)
    BY <1>1, CallSequences DEF Initial
  <2> QED
    BY <2>1, <2>2, <1>1, ThenLocal DEF Initial
<1>2. CASE FirstJob(t)
  <2>1. t \in {"session", "timer"}
    BY <1>2, Caller DEF FirstJob
  <2>2. CASE curJob = 0
    BY <2>1, <2>2, <1>2, ThenLocal, CallSequences DEF FirstJob
  <2>3. CASE curJob # 0
    <3>1. job'[t] # 0
      BY <2>3, <1>2 DEF FirstJob, TypeOK, DataOK
    <3> QED
      BY <2>1, <2>3, <3>1, <1>2, ThenGoLocal DEF FirstJob, Answering
  <2> QED
    BY <2>2, <2>3
<1>3. CASE SetDifficulty(t)
  BY <1>3, TellLocal DEF SetDifficulty
<1>4. CASE PendingDifficulty(t)
  BY <1>4, TellLocal DEF PendingDifficulty
<1>5. CASE PendingMask(t)
  <2>1. t \in {"session", "timer"}
    BY <1>5, Caller DEF PendingMask
  <2>2. CASE pc' = pc
    BY <2>1, <2>2, <1>5, ThenLocal, CallSequences DEF PendingMask
  <2>3. CASE Go(t, "writeMask")
    BY <2>1, <2>3, <1>5, ThenGoLocal DEF PendingMask, Answering, Announcing, Notifying
  <2> QED
    BY <2>2, <2>3, <1>5 DEF PendingMask
<1>6. CASE WriteMask(t)
  <2>1. CASE WriteFails(t)
    BY <2>1, <1>0, <1>6, FailsLocal DEF WriteMask
  <2>2. CASE Go(t, "idle") /\ todo' = todo
    BY <2>2, <1>6, GoLocal DEF WriteMask, Answering, Announcing, Notifying
  <2> QED
    BY <2>1, <2>2, <1>6 DEF WriteMask
<1>7. CASE LockNotify(t)
  <2>1. CASE Go(t, "idle") /\ Forget(t)
    BY <2>1, <1>7, GoLocal DEF LockNotify, Answering, Announcing, Notifying
  <2>2. CASE Go(t, "setup") /\ job' = job
    BY <2>2, <1>7, AnnounceLocal DEF LockNotify, Announcing, Notifying
  <2> QED
    BY <2>1, <2>2, <1>7 DEF LockNotify
<1>8. CASE Setup(t)
  <2>1. CASE WriteFails(t) /\ job' = job
    BY <2>1, <1>0, FailsLocal
  <2>2. CASE Go(t, "idle") /\ Forget(t) /\ todo' = todo
    BY <2>2, <1>8, GoLocal DEF Setup, Answering, Announcing, Notifying
  <2>3. CASE Go(t, "notify") /\ job' = job /\ todo' = todo
    BY <2>3, <1>8, AnnounceLocal DEF Setup, Announcing, Notifying
  <2> QED
    BY <2>1, <2>2, <2>3, <1>8 DEF Setup
<1>9. CASE Notify(t)
  <2>1. CASE WriteFails(t)
    BY <2>1, <1>0, <1>9, FailsLocal DEF Notify
  <2>2. CASE Go(t, "idle") /\ todo' = todo
    BY <2>2, <1>9, GoLocal DEF Notify, Answering, Announcing, Notifying
  <2> QED
    BY <2>1, <2>2, <1>9 DEF Notify
<1>10. CASE Close(t)
  <2>1. PICK l \in {"unregister", "idle"} : Go(t, l)
    BY <1>10 DEF Close
  <2> QED
    BY <2>1, <1>10, GoLocal DEF Close, Answering, Announcing, Notifying
<1>11. CASE Unregister(t)
  BY <1>11, GoLocal DEF Unregister, Answering, Announcing, Notifying
<1>12. CASE Unsubscribe(t)
  BY <1>12, GoLocal DEF Unsubscribe, Answering, Announcing, Notifying
<1> QED
  BY <1>1, <1>2, <1>3, <1>4, <1>5, <1>6, <1>7, <1>8, <1>9, <1>10, <1>11, <1>12 DEF Common

\* The job manager, the timer, the submission worker and the ends of the session.
LEMMA OtherJobs ==
    ASSUME TypeOK, JobsInv,
           \/ Receive \/ TimerFires \/ NotifyAgain \/ SessionEnds \/ Disconnect
           \/ \E j \in 1..lastJob : ShareAccepted(j)
           \/ Publish
    PROVE  \E t \in Threads : Only(t) /\ JobsLocal(t)'
<1> DEFINE names == {"session", "listener", "timer", "share", "admin"}
<1>0. TodoOK /\ names \subseteq Threads
  BY DEF JobsInv, Threads
<1>1. CASE Receive
  <2>1. Head(jobCh) \in 1..MaxJobs
    BY <1>1, HeadTailProperties DEF Receive, TypeOK, DataOK
  <2>2. Only("listener")
    BY <1>1, <1>0, Moves DEF Receive
  <2>3. pc'["listener"] = "lockNotify" /\ job'["listener"] # 0 /\ todo'["listener"] = todo["listener"]
    BY <1>1, <1>0, <2>1, GoOne DEF Receive, TypeOK, DataOK
  <2> QED
    BY <1>0, <2>2, <2>3 DEF JobsInv, JobsLocal, Answering
<1>2. CASE TimerFires
  BY <1>0, <1>2, CallSequences, Moves DEF TimerFires, JobsInv, JobsLocal, TodoOK
<1>3. CASE NotifyAgain
  <2>1. todo["share"] # <<>> /\ Head(todo["share"]) = "notifyAgain" /\ job["share"] # 0
    BY <1>0, <1>3 DEF NotifyAgain, Calls, JobsInv, JobsLocal
  <2>2. PICK new \in Seq(CallNames) : /\ todo' = [todo EXCEPT !["share"] = new]
                                      /\ todo'["share"] = new /\ new = Tail(todo["share"])
    BY <1>0, <1>3, <2>1, ThenSeq, CallSequences DEF NotifyAgain
  <2>3. todo["share"] = <<"notifyAgain">>
    BY <1>0, <2>1 DEF JobsInv, JobsLocal, ShareCalls
  <2>4. new = <<>>
    BY <2>2, <2>3
  <2>5. Only("share")
    BY <1>0, <1>3, <2>2, Moves DEF NotifyAgain
  <2>6. pc'["share"] = "lockNotify" /\ job' = job
    BY <1>0, <1>3, GoOne DEF NotifyAgain, TypeOK
  <2> QED
    BY <1>0, <2>1, <2>2, <2>4, <2>5, <2>6, CallSequences DEF JobsLocal, ShareCalls
<1>4. CASE SessionEnds
  BY <1>4, <1>0, GoLocal DEF SessionEnds, Idle, Announcing, Notifying, Answering
<1>5. CASE Disconnect
  BY <1>5, <1>0, GoLocal DEF Disconnect, Idle, Announcing, Notifying, Answering
<1>6. CASE \E j \in 1..lastJob : ShareAccepted(j)
  <2>1. PICK j \in 1..lastJob : ShareAccepted(j)
    BY <1>6
  <2>2. j # 0 /\ j \in Int
    BY DEF TypeOK, DataOK
  <2>3. Only("share")
    BY <1>0, <2>1, CallSequences, Moves DEF ShareAccepted
  <2>4. todo'["share"] = <<"difficulty", "notifyAgain">> /\ job'["share"] = j /\ pc' = pc
    BY <1>0, <2>1 DEF ShareAccepted, TodoOK, TypeOK, DataOK
  <2>5. pc["share"] = "idle"
    BY <2>1 DEF ShareAccepted, Idle
  <2> QED
    BY <1>0, <2>2, <2>3, <2>4, <2>5, CallSequences DEF JobsLocal, ShareCalls, Announcing, Notifying
<1>7. CASE Publish
  <2>1. Only("session") /\ pc' = pc /\ todo' = todo /\ job' = job
    BY <1>7, <1>0, Moves DEF Publish
  <2> QED
    BY <2>1, <1>0 DEF JobsInv, JobsLocal
<1> QED
  BY <1>1, <1>2, <1>3, <1>4, <1>5, <1>6, <1>7

\* Every step keeps what is true of the calls and the jobs that are sent.
LEMMA JobsStep ==
    ASSUME TypeOK, JobsInv, [Next]_vars
    PROVE  JobsInv'
<1>1. CASE UNCHANGED vars
  BY <1>1 DEF vars, JobsInv, TodoOK, JobsLocal
<1>2. CASE Requests
  BY <1>2, RequestJobs, OnlyStep, SessionIsThread
<1>3. CASE Session
  BY <1>3, SessionJobs, OnlyStep, SessionIsThread
<1>4. CASE \E t \in Threads : Common(t)
  BY <1>4, CommonJobs, OnlyStep
<1>5. CASE \/ Receive \/ TimerFires \/ NotifyAgain \/ SessionEnds \/ Disconnect
           \/ \E j \in 1..lastJob : ShareAccepted(j)
           \/ Publish
  BY <1>5, OtherJobs, OnlyStep
<1> QED
  BY <1>1, <1>2, <1>3, <1>4, <1>5 DEF Next

LEMMA JobsInit == Init => JobsInv
  BY CallSequences DEF Init, JobsInv, TodoOK, JobsLocal, ShareCalls, Announcing, Notifying, Answering

-----------------------------------------------------------------------------
(* Every mask the miner works with is remembered *)

\* What the miner was told, is being told, and works with is in the history, which
\* holds no mask twice.
MaskInv ==
    /\ history \in Seq(Masks) /\ Distinct(history)
    /\ poolMask \in PoolMasks
    /\ DOMAIN mask = Threads
    /\ versionRoll => versionMask \in Remembered /\ \E option \in Options : minerMask = option.mask
    /\ told.mask # None => told.mask \in Remembered
    /\ \A t \in Threads : pc[t] = "writeMask" => mask[t] \in Remembered
    /\ pc["session"] = "cfgMask" => versionRoll
    /\ pc["session"] = "cfgLock" => want \in Options

\* The history as a step may leave it.
HistoryGrows == history' \in Seq(Masks) /\ Distinct(history') /\ Remembered \subseteq Remembered'

\* The masks in force as a step may leave them.
MasksInForce ==
    /\ HistoryGrows
    /\ poolMask' \in PoolMasks
    /\ versionRoll' => versionMask' \in Remembered' /\ \E option \in Options : minerMask' = option.mask

\* What a step that has nothing to do with masks leaves alone.
MaskPlain ==
    /\ UNCHANGED <<poolMask, minerMask, versionRoll, versionMask, history, mask>>
    /\ told'.mask = told.mask
    /\ \A t \in Threads : pc'[t] = "writeMask" => pc[t] = "writeMask"
    /\ pc'["session"] = "cfgMask" => pc["session"] = "cfgMask"
    /\ pc'["session"] = "cfgLock" => pc["session"] = "cfgLock" /\ want' = want

LEMMA SameMasks ==
    ASSUME MaskInv, UNCHANGED <<poolMask, minerMask, versionRoll, versionMask, history>>
    PROVE  MasksInForce /\ Remembered' = Remembered
<1>1. Remembered' = Remembered
  BY DEF Remembered
<1> QED
  BY <1>1 DEF MaskInv, MasksInForce, HistoryGrows

LEMMA MaskPlainStep ==
    ASSUME MaskInv, MaskPlain
    PROVE  MaskInv'
<1>1. Remembered' = Remembered
  BY DEF Remembered, MaskPlain
<1> QED
  BY <1>1 DEF MaskInv, MaskPlain

\* A mask that comes into force with a job is remembered.
LEMMA RememberGrows ==
    ASSUME IsFiniteSet(Masks), Cardinality(Masks) <= HistoryLimit, MaskInv,
           NEW m \in Masks, history' = Remember(history, m)
    PROVE  HistoryGrows /\ m \in Remembered'
<1>1. history \in Seq(Masks) /\ Distinct(history)
  BY DEF MaskInv
<1>2. Extends(Masks, history, m, Remember(history, m))
  BY <1>1, RememberAll
<1>3. Extends(Masks, history, m, history')
  BY <1>2
<1> QED
  BY <1>3 DEF HistoryGrows, Remembered, Extends, Distinct

LEMMA UpdateGrows ==
    ASSUME IsFiniteSet(Masks), Cardinality(Masks) <= HistoryLimit, MaskInv,
           NEW m \in PoolMasks, UpdateVersionMask(m)
    PROVE  MasksInForce /\ (versionRoll => versionMask' \in Remembered')
<1>1. CASE versionRoll
  <2>1. PICK option \in Options : minerMask = option.mask
    BY <1>1 DEF MaskInv
  <2>2. Effective(m) \in Masks
    BY <1>1, <2>1 DEF Effective, Masks
  <2>3. history' = Remember(history, Effective(m)) /\ versionMask' = Effective(m)
    BY <1>1 DEF UpdateVersionMask, RememberUpdate
  <2>4. HistoryGrows /\ Effective(m) \in Remembered'
    BY <2>2, <2>3, RememberGrows
  <2> QED
    BY <2>1, <2>3, <2>4 DEF MasksInForce, UpdateVersionMask
<1>2. CASE ~versionRoll
  <2>1. history' = history /\ versionRoll' = versionRoll /\ poolMask' = m
    BY <1>2 DEF UpdateVersionMask, RememberUpdate
  <2>2. HistoryGrows
    BY <2>1 DEF HistoryGrows, MaskInv, Remembered
  <2> QED
    BY <1>2, <2>1, <2>2 DEF MasksInForce
<1> QED
  BY <1>1, <1>2

\* A job's mask is one of the pool's.
LEMMA JobMasks ==
    ASSUME TypeOK, JobsInv
    PROVE  /\ curJob # 0 => JobMask[curJob] \in PoolMasks
           /\ \A t \in Threads : pc[t] \in Announcing => JobMask[job[t]] \in PoolMasks
<1>1. curJob # 0 => curJob \in 1..MaxJobs
  BY BoundsAssumption DEF TypeOK, DataOK
<1>2. ASSUME NEW t \in Threads, pc[t] \in Announcing PROVE job[t] \in 1..MaxJobs
  BY <1>2, BoundsAssumption DEF TypeOK, DataOK, JobsInv, JobsLocal
<1> QED
  BY <1>1, <1>2 DEF PoolMasks

\* What the miner is told of masks is remembered.
TellsKnown == told'.mask # None => told'.mask = told.mask \/ told'.mask \in Remembered'

\* One goroutine moves, and none reads a mask to write it.
LEMMA MaskMove ==
    ASSUME TypeOK, MaskInv, MasksInForce, TellsKnown, DOMAIN mask' = Threads,
           NEW t \in Threads, t = "session" \/ (versionRoll' = versionRoll /\ want' = want),
           pc'[t] \notin {"writeMask", "cfgMask", "cfgLock"},
           \A s \in Threads \ {t} : pc'[s] = pc[s] /\ mask'[s] = mask[s]
    PROVE  MaskInv'
<1>1. \A s \in Threads : pc'[s] = "writeMask" => mask'[s] \in Remembered'
  BY DEF MaskInv, MasksInForce, HistoryGrows
<1>2. pc'["session"] = "cfgMask" => versionRoll'
  BY SessionIsThread DEF MaskInv
<1>3. pc'["session"] = "cfgLock" => want' \in Options
  BY SessionIsThread DEF MaskInv
<1>4. told'.mask # None => told'.mask \in Remembered'
  BY DEF MaskInv, MasksInForce, HistoryGrows, TellsKnown
<1> QED
  BY <1>1, <1>2, <1>3, <1>4 DEF MaskInv, MasksInForce, HistoryGrows

\* The same for a step to a label.
LEMMA MaskGo ==
    ASSUME TypeOK, MaskInv, MasksInForce, TellsKnown, mask' = mask,
           NEW t \in Threads, t = "session" \/ (versionRoll' = versionRoll /\ want' = want),
           NEW l, Go(t, l), l \notin {"writeMask", "cfgMask", "cfgLock"}
    PROVE  MaskInv'
<1>1. pc'[t] = l /\ \A s \in Threads \ {t} : pc'[s] = pc[s]
  BY GoOne DEF TypeOK
<1> QED
  BY <1>1, MaskMove DEF MaskInv

\* What an answer tells of masks.
LEMMA ToldMask ==
    ASSUME ToldOK
    PROVE  /\ \A x : [told EXCEPT !.mask = x].mask = x
           /\ \A x : [told EXCEPT !.subscribed = x].mask = told.mask
           /\ \A x : [told EXCEPT !.worker = x].mask = told.mask
           /\ \A x : [told EXCEPT !.difficulty = x].mask = told.mask
           /\ \A x, y : [told EXCEPT !.mask = x, !.difficulty = y].mask = x
  BY DEF ToldOK

\* Requests.
LEMMA RequestMasks ==
    ASSUME IsFiniteSet(Masks), Cardinality(Masks) <= HistoryLimit, TypeOK, JobsInv, MaskInv, Requests
    PROVE  MaskInv'
<1> USE SessionIsThread
<1>1. CASE Subscribe
  <2>1. MasksInForce
    BY <1>1, SameMasks, UpdateGrows, JobMasks DEF Subscribe, SubscribeMask
  <2>2. versionRoll' = versionRoll /\ told' = told /\ mask' = mask /\ Go("session", "subWrite")
    BY <1>1 DEF Subscribe, SubscribeMask, UpdateVersionMask
  <2> QED
    BY <2>1, <2>2, MaskGo DEF TellsKnown
<1>2. CASE AuthorizeRefused
  BY <1>2, SameMasks, MaskGo DEF AuthorizeRefused, TellsKnown
<1>3. CASE SuggestDifficulty
  <2>1. pc["session"] = "idle" /\ pc' = pc
    BY <1>3 DEF SuggestDifficulty, Reads, Idle
  <2> QED
    BY <2>1, <1>3, MaskPlainStep DEF SuggestDifficulty, MaskPlain
<1>4. CASE \E w \in Workers : Authorize(w)
  BY <1>4, SameMasks, MaskGo DEF Authorize, TellsKnown
<1>5. CASE \E option \in Options : Configure(option)
  <2>1. PICK option \in Options : Configure(option)
    BY <1>5
  <2>2. pc'["session"] = "cfgLock" /\ \A s \in Threads \ {"session"} : pc'[s] = pc[s]
    BY <2>1, GoOne DEF Configure, TypeOK
  <2>3. Remembered' = Remembered
    BY <2>1 DEF Configure, Remembered
  <2> QED
    BY <2>1, <2>2, <2>3 DEF Configure, MaskInv
<1> QED
  BY <1>1, <1>2, <1>3, <1>4, <1>5 DEF Requests

\* An answer to mining.configure tells the mask that was negotiated.
LEMMA ConfigureMasks ==
    ASSUME IsFiniteSet(Masks), Cardinality(Masks) <= HistoryLimit, TypeOK, JobsInv, MaskInv,
           ConfigureLock \/ ConfigureWrite \/ ConfigureMask
    PROVE  MaskInv'
<1> USE SessionIsThread
<1>0. ToldOK
  BY DEF TypeOK
<1>1. CASE ConfigureLock
  <2>0. told' = told /\ mask' = mask /\ pc["session"] = "cfgLock" /\ want \in Options
    BY <1>1 DEF ConfigureLock, MaskInv
  <2>1. CASE closed
    <3>1. Go("session", "idle") /\ UNCHANGED maskVars
      BY <1>1, <2>1 DEF ConfigureLock
    <3> QED
      BY <3>1, <2>0, SameMasks, MaskGo DEF TellsKnown
  <2>2. CASE ~closed
    <3>1. Negotiate(want.mask) /\ Go("session", "cfgWrite")
      BY <1>1, <2>2 DEF ConfigureLock
    <3>2. CASE want.mask \cap poolMask = {}
      <4>1. history' = history /\ ~versionRoll' /\ poolMask' = poolMask
        BY <3>1, <3>2 DEF Negotiate
      <4>2. HistoryGrows
        BY <4>1 DEF HistoryGrows, MaskInv, Remembered
      <4>3. MasksInForce
        BY <4>1, <4>2 DEF MasksInForce, MaskInv
      <4> QED
        BY <3>1, <4>3, <2>0, MaskGo DEF TellsKnown
    <3>3. CASE want.mask \cap poolMask # {}
      <4>1. want.mask \cap poolMask \in Masks
        BY <2>0 DEF MaskInv, Masks
      <4>2. /\ history' = Remember(history, want.mask \cap poolMask)
            /\ versionMask' = want.mask \cap poolMask /\ minerMask' = want.mask /\ poolMask' = poolMask
        BY <3>1, <3>3 DEF Negotiate
      <4>3. HistoryGrows /\ versionMask' \in Remembered'
        BY <4>1, <4>2, RememberGrows
      <4>4. MasksInForce
        BY <4>2, <4>3, <2>0 DEF MasksInForce, MaskInv
      <4> QED
        BY <3>1, <4>4, <2>0, MaskGo DEF TellsKnown
    <3> QED
      BY <3>2, <3>3
  <2> QED
    BY <2>1, <2>2
<1>2. CASE ConfigureWrite
  <2>1. MasksInForce /\ Remembered' = Remembered
    BY <1>2, SameMasks DEF ConfigureWrite
  <2>2. told' = told \/ told'.mask = IF versionRoll THEN versionMask ELSE None
    BY <1>2, <1>0, ToldMask DEF ConfigureWrite, WriteFails
  <2>3. TellsKnown
    BY <2>1, <2>2 DEF MaskInv, TellsKnown
  <2>4. PICK l \in {"cfgMask", "idle", "close"} : Go("session", l) /\ (l = "cfgMask" => versionRoll)
    BY <1>2 DEF ConfigureWrite, WriteFails, Run
  <2>5. versionRoll' = versionRoll /\ mask' = mask
    BY <1>2 DEF ConfigureWrite
  <2>6. CASE l # "cfgMask"
    BY <2>1, <2>3, <2>4, <2>5, <2>6, MaskGo
  <2>7. CASE l = "cfgMask"
    <3>1. pc'["session"] = "cfgMask" /\ \A s \in Threads \ {"session"} : pc'[s] = pc[s]
      BY <2>4, <2>7, GoOne DEF TypeOK
    <3> QED
      BY <3>1, <2>1, <2>3, <2>4, <2>5, <2>7 DEF MaskInv, MasksInForce, HistoryGrows, TellsKnown
  <2> QED
    BY <2>6, <2>7
<1>3. CASE ConfigureMask
  <2>1. MasksInForce /\ Remembered' = Remembered
    BY <1>3, SameMasks DEF ConfigureMask
  <2>2. told' = told \/ told'.mask = versionMask
    BY <1>3, <1>0, ToldMask DEF ConfigureMask, WriteFails
  <2>3. TellsKnown
    BY <1>3, <2>1, <2>2 DEF MaskInv, ConfigureMask, TellsKnown
  <2>4. PICK l \in {"idle", "close"} : Go("session", l)
    BY <1>3 DEF ConfigureMask, WriteFails, Run
  <2>5. mask' = mask
    BY <1>3 DEF ConfigureMask
  <2> QED
    BY <2>1, <2>3, <2>4, <2>5, MaskGo
<1> QED
  BY <1>1, <1>2, <1>3

\* The steps that tell masks: the two halves of a pending mask, and the mask of a job.
LEMMA TellingMasks ==
    ASSUME IsFiniteSet(Masks), Cardinality(Masks) <= HistoryLimit, TypeOK, JobsInv, MaskInv,
           NEW t \in Threads, PendingMask(t) \/ WriteMask(t) \/ Setup(t)
    PROVE  MaskInv'
<1>0. ToldOK
  BY DEF TypeOK
<1>1. CASE PendingMask(t)
  <2>1. MasksInForce /\ Remembered' = Remembered /\ told' = told /\ versionRoll' = versionRoll /\ want' = want
    BY <1>1, SameMasks DEF PendingMask
  <2>2. CASE pc' = pc /\ mask' = mask
    BY <2>1, <2>2, <1>1, MaskPlainStep DEF PendingMask, MaskPlain
  <2>3. CASE Go(t, "writeMask") /\ versionRoll /\ mask' = [mask EXCEPT ![t] = versionMask]
    <3>1. mask'[t] \in Remembered' /\ \A s \in Threads \ {t} : mask'[s] = mask[s]
      BY <2>1, <2>3 DEF MaskInv
    <3>2. pc'[t] = "writeMask" /\ \A s \in Threads \ {t} : pc'[s] = pc[s]
      BY <2>3, GoOne DEF TypeOK
    <3>3. DOMAIN mask' = Threads /\ poolMask' \in PoolMasks
      BY <2>1, <2>3 DEF MaskInv, MasksInForce
    <3>4. \A s \in Threads : pc'[s] = "writeMask" => mask'[s] \in Remembered'
      BY <3>1, <3>2, <2>1 DEF MaskInv
    <3>5. /\ pc'["session"] = "cfgMask" => versionRoll'
          /\ pc'["session"] = "cfgLock" => want' \in Options
      BY <3>2, <2>1, SessionIsThread DEF MaskInv
    <3> QED
      BY <3>3, <3>4, <3>5, <2>1 DEF MaskInv, MasksInForce, HistoryGrows
  <2> QED
    BY <2>2, <2>3, <1>1 DEF PendingMask
<1>2. CASE WriteMask(t)
  <2>1. MasksInForce /\ Remembered' = Remembered
    BY <1>2, SameMasks DEF WriteMask
  <2>2. told' = told \/ told'.mask = mask[t]
    BY <1>2, <1>0, ToldMask DEF WriteMask, WriteFails
  <2>3. TellsKnown
    BY <1>2, <2>1, <2>2 DEF MaskInv, WriteMask, TellsKnown
  <2>4. PICK l \in {"idle", "close"} : Go(t, l)
    BY <1>2 DEF WriteMask, WriteFails
  <2>5. pc'[t] = l /\ \A s \in Threads \ {t} : pc'[s] = pc[s]
    BY <2>4, GoOne DEF TypeOK
  <2>6. DOMAIN mask' = Threads /\ \A s \in Threads \ {t} : mask'[s] = mask[s]
    BY <1>2 DEF WriteMask, MaskInv
  <2>7. versionRoll' = versionRoll /\ want' = want
    BY <1>2 DEF WriteMask
  <2> QED
    BY <2>1, <2>3, <2>4, <2>5, <2>6, <2>7, MaskMove
<1>3. CASE Setup(t)
  <2> DEFINE m == JobMask[job[t]]
  <2>1. m \in PoolMasks
    BY <1>3, JobMasks DEF Setup, Announcing, Notifying
  <2> HIDE DEF m
  <2>2. UNCHANGED maskVars \/ UpdateVersionMask(m)
    BY <1>3 DEF Setup, m
  <2>3. MasksInForce /\ (UpdateVersionMask(m) /\ versionRoll => versionMask' \in Remembered')
    BY <2>1, <2>2, SameMasks, UpdateGrows
  <2>4. TellsKnown
    <3>1. CASE told' = told
      BY <3>1 DEF TellsKnown
    <3>2. CASE told' # told
      <4>1. UpdateVersionMask(m)
        BY <1>3, <3>2 DEF Setup, WriteFails, m
      <4>2. \E x, y : /\ told' = [told EXCEPT !.mask = x, !.difficulty = y]
                      /\ x = told.mask \/ (versionRoll /\ x = versionMask')
        BY <1>3, <3>2 DEF Setup, WriteFails
      <4>3. told'.mask = told.mask \/ (versionRoll /\ told'.mask = versionMask')
        BY <4>2, <1>0, ToldMask
      <4> QED
        BY <4>1, <4>3, <2>3 DEF TellsKnown
    <3> QED
      BY <3>1, <3>2
  <2>5. PICK l \in {"idle", "close", "notify"} : Go(t, l)
    BY <1>3 DEF Setup, WriteFails
  <2>6. mask' = mask /\ versionRoll' = versionRoll /\ want' = want
    BY <1>3, <2>2 DEF Setup, UpdateVersionMask
  <2> QED
    BY <2>3, <2>4, <2>5, <2>6, MaskGo
<1> QED
  BY <1>1, <1>2, <1>3

\* A step of t that has nothing to do with masks.
Aside(t) ==
    /\ UNCHANGED <<poolMask, minerMask, versionRoll, versionMask, history, mask>>
    /\ told'.mask = told.mask
    /\ \/ pc' = pc /\ want' = want
       \/ \E l : /\ Go(t, l) /\ l \notin {"writeMask", "cfgMask", "cfgLock"}
                 /\ t = "session" \/ want' = want

LEMMA AsideStep ==
    ASSUME TypeOK, MaskInv, NEW t \in Threads, Aside(t)
    PROVE  MaskInv'
<1>1. CASE pc' = pc /\ want' = want
  BY <1>1, MaskPlainStep DEF Aside, MaskPlain
<1>2. CASE \E l : /\ Go(t, l) /\ l \notin {"writeMask", "cfgMask", "cfgLock"}
                  /\ t = "session" \/ want' = want
  BY <1>2, SameMasks, MaskGo DEF Aside, TellsKnown
<1> QED
  BY <1>1, <1>2 DEF Aside

\* The other steps of the session goroutine.
LEMMA AsideSession ==
    ASSUME TypeOK,
           \/ SubscribeWrite \/ AuthorizeLock \/ Register \/ AuthorizeRegistered \/ AuthorizeWrite
           \/ Listen \/ Schedule \/ Suggest \/ CleanJob
    PROVE  Aside("session")
<1>0. ToldOK
  BY DEF TypeOK
<1>1. CASE SubscribeWrite
  BY <1>1, <1>0, ToldMask DEF SubscribeWrite, WriteFails, Run, Aside
<1>2. CASE AuthorizeLock
  BY <1>2 DEF AuthorizeLock, PublishIdentity, Aside
<1>3. CASE Register
  BY <1>3 DEF Register, Aside
<1>4. CASE AuthorizeRegistered
  BY <1>4 DEF AuthorizeRegistered, AuthorizeCheck, Aside
<1>5. CASE AuthorizeWrite
  BY <1>5, <1>0, ToldMask DEF AuthorizeWrite, WriteFails, Run, Aside
<1>6. CASE Listen
  BY <1>6 DEF Listen, Return, Run, Aside
<1>7. CASE Schedule
  BY <1>7 DEF Schedule, Return, Aside
<1>8. CASE Suggest
  BY <1>8 DEF Suggest, Aside
<1>9. CASE CleanJob
  BY <1>9 DEF CleanJob, Aside
<1> QED
  BY <1>1, <1>2, <1>3, <1>4, <1>5, <1>6, <1>7, <1>8, <1>9

\* The other calls.
LEMMA AsideCommon ==
    ASSUME TypeOK, NEW t \in Threads,
           \/ Initial(t) \/ FirstJob(t) \/ SetDifficulty(t) \/ PendingDifficulty(t)
           \/ LockNotify(t) \/ Notify(t) \/ Close(t) \/ Unregister(t) \/ Unsubscribe(t)
    PROVE  Aside(t)
<1>0. ToldOK
  BY DEF TypeOK
<1>1. CASE Initial(t)
  BY <1>1 DEF Initial, Aside
<1>2. CASE FirstJob(t)
  BY <1>2 DEF FirstJob, Aside
<1>3. CASE SetDifficulty(t)
  BY <1>3, <1>0, ToldMask DEF SetDifficulty, TellDifficulty, WriteFails, Return, Aside
<1>4. CASE PendingDifficulty(t)
  BY <1>4, <1>0, ToldMask DEF PendingDifficulty, TellDifficulty, WriteFails, Return, Aside
<1>5. CASE LockNotify(t)
  BY <1>5 DEF LockNotify, Aside
<1>6. CASE Notify(t)
  BY <1>6 DEF Notify, WriteFails, Aside
<1>7. CASE Close(t)
  BY <1>7 DEF Close, Aside
<1>8. CASE Unregister(t)
  BY <1>8 DEF Unregister, Aside
<1>9. CASE Unsubscribe(t)
  BY <1>9 DEF Unsubscribe, Aside
<1> QED
  BY <1>1, <1>2, <1>3, <1>4, <1>5, <1>6, <1>7, <1>8, <1>9

\* The other goroutines.
LEMMA AsideOthers ==
    ASSUME \/ Receive \/ TimerFires \/ NotifyAgain \/ SessionEnds \/ Disconnect
           \/ \E j \in 1..lastJob : ShareAccepted(j)
           \/ Publish
    PROVE  \E t \in Threads : Aside(t)
<1> DEFINE names == {"session", "listener", "share", "admin"}
<1>0. names \subseteq Threads
  BY DEF Threads
<1>1. CASE Receive
  <2>1. Aside("listener")
    BY <1>1 DEF Receive, Aside
  <2> QED
    BY <2>1, <1>0
<1>2. CASE TimerFires
  <2>1. Aside("session")
    BY <1>2 DEF TimerFires, Aside
  <2> QED
    BY <2>1, <1>0
<1>3. CASE NotifyAgain
  <2>1. Aside("share")
    BY <1>3 DEF NotifyAgain, Aside
  <2> QED
    BY <2>1, <1>0
<1>4. CASE SessionEnds
  <2>1. Aside("session")
    BY <1>4 DEF SessionEnds, Aside
  <2> QED
    BY <2>1, <1>0
<1>5. CASE Disconnect
  <2>1. Aside("admin")
    BY <1>5 DEF Disconnect, Aside
  <2> QED
    BY <2>1, <1>0
<1>6. CASE \E j \in 1..lastJob : ShareAccepted(j)
  <2>1. Aside("session")
    BY <1>6 DEF ShareAccepted, Aside
  <2> QED
    BY <2>1, <1>0
<1>7. CASE Publish
  <2>1. Aside("session")
    BY <1>7 DEF Publish, Aside
  <2> QED
    BY <2>1, <1>0
<1> QED
  BY <1>1, <1>2, <1>3, <1>4, <1>5, <1>6, <1>7

LEMMA MaskStep ==
    ASSUME IsFiniteSet(Masks), Cardinality(Masks) <= HistoryLimit, TypeOK, JobsInv, MaskInv,
           [Next]_vars
    PROVE  MaskInv'
<1>1. CASE UNCHANGED vars
  BY <1>1, MaskPlainStep DEF vars, MaskPlain
<1>2. CASE Requests
  BY <1>2, RequestMasks
<1>3. CASE Session
  BY <1>3, SessionIsThread, ConfigureMasks, AsideSession, AsideStep DEF Session
<1>4. ASSUME NEW t \in Threads, Common(t) PROVE MaskInv'
  <2>1. CASE PendingMask(t) \/ WriteMask(t) \/ Setup(t)
    BY <2>1, TellingMasks
  <2>2. CASE \/ Initial(t) \/ FirstJob(t) \/ SetDifficulty(t) \/ PendingDifficulty(t)
             \/ LockNotify(t) \/ Notify(t) \/ Close(t) \/ Unregister(t) \/ Unsubscribe(t)
    BY <2>2, AsideCommon, AsideStep
  <2> QED
    BY <2>1, <2>2, <1>4 DEF Common
<1>5. CASE \/ Receive \/ TimerFires \/ NotifyAgain \/ SessionEnds \/ Disconnect
           \/ \E j \in 1..lastJob : ShareAccepted(j)
           \/ Publish
  BY <1>5, AsideOthers, AsideStep
<1> QED
  BY <1>1, <1>2, <1>3, <1>4, <1>5 DEF Next

LEMMA MaskInit == Init => MaskInv
<1>1. <<>> \in Seq(Masks) /\ Distinct(<<>>)
  BY EmptySeq DEF Distinct
<1> QED
  BY <1>1, SessionIsThread DEF Init, MaskInv, PoolMasks

\* Every mask the miner works with is among those a winning share is tried with
\* (miner_rejects.go:1711-1744), as long as the masks that the jobs and the offers
\* of a connection can combine to fit the history.
THEOREM MasksRemembered ==
    ASSUME IsFiniteSet(Masks), Cardinality(Masks) <= HistoryLimit
    PROVE  Spec => []ToldMaskRemembered
<1> DEFINE MInv == Inv /\ JobsInv /\ MaskInv
<1>1. Init => MInv
  BY InitInv, JobsInit, MaskInit
<1>2. MInv /\ [Next]_vars => MInv'
  BY NextInv, JobsStep, MaskStep DEF Inv
<1>3. MInv => ToldMaskRemembered
  BY DEF MaskInv, Remembered, ToldMaskRemembered
<1> QED
  BY <1>1, <1>2, <1>3, PTL DEF Spec

-----------------------------------------------------------------------------
(* A miner that subscribed and authorized is served *)

\* The miner reads the answers of requests that were granted.
HandshakeInv ==
    /\ told.subscribed => subscribed
    /\ told.worker # None => authorized
    /\ pc["session"] = "subWrite" => subscribed
    /\ pc["session"] = "authWrite" => authorized

\* Such a miner has a listener and the initial work, or they are still to come; the
\* listener is the first of them.
ToStart(call) == Waits("session", call) \/ pc["session"] \in {"subWrite", "authWrite"}
StartInv ==
    /\ \A i \in 1..Len(todo["session"]) : todo["session"][i] = "listen" => i = 1
    /\ subscribed /\ authorized => listenerOn \/ ToStart("listen")
    /\ subscribed /\ authorized => initialSent \/ ToStart("initial")
    /\ initialSent => subscribed /\ listenerOn

\* No job is sent after a newer one, and none before subscribe.
OrderLocal(t) == job[t] <= curJob /\ (pc[t] \in Notifying => subscribed /\ lastJob <= job[t])
OrderInv ==
    /\ lastJob <= curJob /\ work.job = lastJob
    /\ ~subscribed => lastJob = 0
    /\ \A i \in 1..Len(jobCh) : jobCh[i] <= curJob
    /\ \A t \in Threads : OrderLocal(t)

\* The newest job was sent, is on its way through the channel or in a goroutine, or
\* is the one the initial work will send.
Carries(t) == (pc[t] \in Announcing /\ job[t] = curJob) \/ Waits(t, "firstJob")
InChannel == jobCh # <<>> /\ jobCh[Len(jobCh)] = curJob
NewestInv ==
    initialSent /\ curJob # 0 =>
        lastJob = curJob \/ InChannel \/ \E t \in Threads : Carries(t)

\* A difficulty was told or will be, and what is pending is told before a job.
DifficultyInv ==
    /\ initialSent \/ suggestDone =>
          told.difficulty \/ pendingDifficulty \/ \E t \in Threads : Waits(t, "difficulty")
    /\ pendingDifficulty => lastJob = 0 /\ \A t \in Threads : pc[t] # "notify"

\* The timer has no call to make before it fires.
TimerInv == scheduled # "fired" => todo["timer"] = <<>>

ServeInv ==
    closed \/ (HandshakeInv /\ StartInv /\ OrderInv /\ NewestInv /\ DifficultyInv /\ TimerInv)

\* Messages that carry another part of what the miner is told.
LEMMA ToldAnswers ==
    ASSUME ToldOK
    PROVE  /\ \A x, y : LET t == [told EXCEPT !.mask = x, !.difficulty = y]
                        IN  t.subscribed = told.subscribed /\ t.worker = told.worker /\ t.difficulty = y
           /\ \A x : LET t == [told EXCEPT !.mask = x]
                     IN  t.subscribed = told.subscribed /\ t.worker = told.worker /\ t.difficulty = told.difficulty
           /\ \A x : LET t == [told EXCEPT !.difficulty = x]
                     IN  t.subscribed = told.subscribed /\ t.worker = told.worker /\ t.difficulty = x
           /\ \A x : LET t == [told EXCEPT !.subscribed = x]
                     IN  t.worker = told.worker /\ t.difficulty = told.difficulty
           /\ \A x : LET t == [told EXCEPT !.worker = x]
                     IN  t.subscribed = told.subscribed /\ t.difficulty = told.difficulty
  BY DEF ToldOK

\* A session that was closed stays closed.
LEMMA ClosedStays ==
    ASSUME Inv, [Next]_vars, closed
    PROVE  closed'
<1>1. CASE UNCHANGED vars
  BY <1>1 DEF vars
<1>2. CASE Requests
  BY <1>2, PlainRequests DEF Requests, Inv, Plain, Authorize
<1>3. CASE Session
  BY <1>3, PlainSession
  DEF Session, Inv, Plain, AuthorizeLock, Register, AuthorizeRegistered, AuthorizeWrite, WriteFails
<1>4. ASSUME NEW t \in Threads, Common(t) PROVE closed'
  BY <1>4, PlainCommon DEF Common, Inv, Plain, Close, Unregister, Unsubscribe
<1> QED
  BY <1>1, <1>2, <1>3, <1>4, PlainOthers DEF Next, Inv, Plain

\* What a step that has nothing to do with the handshake leaves alone.
HandshakeAside ==
    /\ subscribed' = subscribed /\ authorized' = authorized
    /\ told'.subscribed = told.subscribed /\ told'.worker = told.worker
    /\ pc'["session"] \in {"subWrite", "authWrite"} => pc'["session"] = pc["session"]

LEMMA HandshakeAsideStep ==
    ASSUME HandshakeInv, HandshakeAside
    PROVE  HandshakeInv'
  BY DEF HandshakeInv, HandshakeAside

LEMMA HandshakeStep ==
    ASSUME TypeOK, HandshakeInv, Next, ~closed'
    PROVE  HandshakeInv'
<1> USE SessionIsThread
<1>0. ToldOK /\ ControlOK
  BY DEF TypeOK
<1>1. CASE Requests
  <2>1. CASE Subscribe
    BY <2>1, <1>0, GoOne DEF Subscribe, HandshakeInv
  <2>2. CASE AuthorizeRefused
    BY <2>2, <1>0, GoOne DEF AuthorizeRefused, HandshakeInv
  <2>3. CASE SuggestDifficulty
    BY <2>3 DEF SuggestDifficulty, HandshakeInv
  <2>4. CASE \E w \in Workers : Authorize(w)
    BY <2>4, <1>0, GoOne DEF Authorize, HandshakeInv
  <2>5. CASE \E option \in Options : Configure(option)
    BY <2>5, <1>0, GoOne DEF Configure, HandshakeInv
  <2> QED
    BY <1>1, <2>1, <2>2, <2>3, <2>4, <2>5 DEF Requests
<1>2. CASE Session
  <2>1. CASE SubscribeWrite
    <3>1. told' = [told EXCEPT !.subscribed = TRUE] /\ Go("session", "idle") /\ UNCHANGED handshakeVars
      BY <2>1 DEF SubscribeWrite, WriteFails, Run
    <3>2. pc["session"] = "subWrite" /\ pc'["session"] = "idle"
      BY <2>1, <3>1, <1>0, GoOne DEF SubscribeWrite
    <3> QED
      BY <3>1, <3>2, <1>0, ToldAnswers DEF HandshakeInv
  <2>2. CASE AuthorizeLock
    BY <2>2, <1>0, GoOne DEF AuthorizeLock, PublishIdentity, HandshakeInv
  <2>3. CASE Register
    BY <2>3, <1>0, GoOne DEF Register, HandshakeInv
  <2>4. CASE AuthorizeRegistered
    BY <2>4, <1>0, GoOne DEF AuthorizeRegistered, AuthorizeCheck, HandshakeInv
  <2>5. CASE AuthorizeWrite
    <3>1. told' = [told EXCEPT !.worker = want.worker] /\ Go("session", "idle") /\ UNCHANGED handshakeVars
      BY <2>5 DEF AuthorizeWrite, WriteFails, Run
    <3>2. pc["session"] = "authWrite" /\ pc'["session"] = "idle"
      BY <2>5, <3>1, <1>0, GoOne DEF AuthorizeWrite
    <3> QED
      BY <3>1, <3>2, <1>0, ToldAnswers DEF HandshakeInv
  <2>6. CASE ConfigureLock
    BY <2>6, <1>0, GoOne DEF ConfigureLock, HandshakeInv
  <2>7. CASE ConfigureWrite
    <3>1. PICK l \in {"cfgMask", "idle"} : Go("session", l)
      BY <2>7 DEF ConfigureWrite, WriteFails, Run
    <3>2. told'.subscribed = told.subscribed /\ told'.worker = told.worker
      <4>1. PICK x : told' = [told EXCEPT !.mask = x]
        BY <2>7 DEF ConfigureWrite, WriteFails
      <4> QED
        BY <4>1, <1>0, ToldAnswers
    <3> QED
      BY <2>7, <3>1, <3>2, <1>0, GoOne, HandshakeAsideStep DEF ConfigureWrite, HandshakeAside
  <2>8. CASE ConfigureMask
    <3>1. Go("session", "idle")
      BY <2>8 DEF ConfigureMask, WriteFails, Run
    <3>2. told'.subscribed = told.subscribed /\ told'.worker = told.worker
      <4>1. PICK x : told' = [told EXCEPT !.mask = x]
        BY <2>8 DEF ConfigureMask, WriteFails
      <4> QED
        BY <4>1, <1>0, ToldAnswers
    <3> QED
      BY <2>8, <3>1, <3>2, <1>0, GoOne, HandshakeAsideStep DEF ConfigureMask, HandshakeAside
  <2>9. CASE Listen
    BY <2>9, <1>0, GoOne DEF Listen, Return, Run, HandshakeInv
  <2>10. CASE Schedule
    BY <2>10 DEF Schedule, Return, HandshakeInv
  <2>11. CASE Suggest
    BY <2>11 DEF Suggest, HandshakeInv
  <2>12. CASE CleanJob
    BY <2>12, <1>0, GoOne DEF CleanJob, HandshakeInv
  <2> QED
    BY <1>2, <2>1, <2>2, <2>3, <2>4, <2>5, <2>6, <2>7, <2>8, <2>9, <2>10, <2>11, <2>12 DEF Session
<1>3. CASE \E t \in Threads : Common(t)
  <2>0. PICK t \in Threads : Common(t)
    BY <1>3
  <2>1. told'.subscribed = told.subscribed /\ told'.worker = told.worker
    <3>1. \/ told' = told
          \/ \E x : told' = [told EXCEPT !.mask = x]
          \/ \E x : told' = [told EXCEPT !.difficulty = x]
          \/ \E x, y : told' = [told EXCEPT !.mask = x, !.difficulty = y]
      BY <2>0
      DEF Common, Initial, FirstJob, SetDifficulty, PendingDifficulty, PendingMask, WriteMask,
          LockNotify, Setup, Notify, Close, Unregister, Unsubscribe, TellDifficulty, WriteFails
    <3>2. CASE \E x : told' = [told EXCEPT !.mask = x]
      BY <3>2, <1>0, ToldAnswers
    <3>3. CASE \E x : told' = [told EXCEPT !.difficulty = x]
      BY <3>3, <1>0, ToldAnswers
    <3>4. CASE \E x, y : told' = [told EXCEPT !.mask = x, !.difficulty = y]
      BY <3>4, <1>0, ToldAnswers
    <3> QED
      BY <3>1, <3>2, <3>3, <3>4
  <2>2. subscribed' = subscribed /\ authorized' = authorized
    BY <2>0
    DEF Common, Initial, FirstJob, SetDifficulty, PendingDifficulty, PendingMask, WriteMask, LockNotify,
        Setup, Notify, Close, Unregister, Unsubscribe
  <2>3. pc' = pc \/ \E l : Go(t, l) /\ l \notin {"subWrite", "authWrite"}
    BY <2>0
    DEF Common, Initial, FirstJob, SetDifficulty, PendingDifficulty, PendingMask, WriteMask, LockNotify,
        Setup, Notify, Close, Unregister, Unsubscribe, TellDifficulty, WriteFails, Return
  <2> QED
    BY <2>1, <2>2, <2>3, <1>0, GoOne, HandshakeAsideStep DEF HandshakeAside
<1>4. CASE \/ Receive \/ TimerFires \/ NotifyAgain \/ SessionEnds \/ Disconnect
           \/ \E j \in 1..lastJob : ShareAccepted(j)
           \/ Publish
  <2>1. told' = told /\ subscribed' = subscribed /\ authorized' = authorized
    BY <1>4 DEF Receive, TimerFires, NotifyAgain, SessionEnds, Disconnect, ShareAccepted, Publish
  <2>2. pc' = pc \/ \E t \in Threads : \E l : Go(t, l) /\ l \notin {"subWrite", "authWrite"}
    BY <1>4
    DEF Receive, TimerFires, NotifyAgain, SessionEnds, Disconnect, ShareAccepted, Publish, Threads
  <2> QED
    BY <2>1, <2>2, <1>0, GoOne, HandshakeAsideStep DEF HandshakeAside
<1> QED
  BY <1>1, <1>2, <1>3, <1>4 DEF Next

Writing == {"subWrite", "authWrite"}

\* The initial work is sent by a goroutine that found the listener.
InitialKept ==
    /\ initialSent => initialSent'
    /\ initialSent' /\ ~initialSent => subscribed /\ listenerOn

\* A step that takes no call off the session goroutine's.
StartKept ==
    /\ todo'["session"] = todo["session"]
    /\ pc["session"] \in Writing => pc'["session"] = pc["session"]
    /\ subscribed => subscribed'
    /\ subscribed' /\ authorized' => (subscribed /\ authorized) \/ pc'["session"] \in Writing
    /\ listenerOn' = listenerOn
    /\ InitialKept

LEMMA StartKeptStep ==
    ASSUME StartInv, StartKept
    PROVE  StartInv'
  BY DEF StartInv, StartKept, InitialKept, ToStart, Waits, Writing

\* Calls that do not start the listener.
StartsNone(calls) == \A i \in 1..Len(calls) : calls[i] # "listen"

\* The session goroutine makes new calls when it has none.
LEMMA StartRun ==
    ASSUME TodoOK, StartInv, NEW calls \in Seq(CallNames), todo' = [todo EXCEPT !["session"] = calls],
           todo["session"] = <<>>, pc["session"] \notin Writing,
           StartsNone(calls),
           UNCHANGED <<subscribed, authorized, listenerOn, initialSent>>
    PROVE  StartInv'
<1>1. todo'["session"] = calls
  BY TodoOne, SessionIsThread
<1>2. ~Waits("session", "listen") /\ ~Waits("session", "initial")
  BY EmptySeq DEF Waits
<1> QED
  BY <1>1, <1>2 DEF StartInv, ToStart, Writing, StartsNone

\* It starts the work of a miner that subscribed and authorized.
LEMMA StartBegins ==
    ASSUME TodoOK, StartInv, NEW calls \in Seq(CallNames), todo' = [todo EXCEPT !["session"] = calls],
           \A i \in 1..Len(calls) : calls[i] = "listen" => i = 1,
           subscribed /\ authorized =>
              \E i, j \in 1..Len(calls) : calls[i] = "listen" /\ calls[j] = "initial",
           UNCHANGED <<subscribed, authorized, listenerOn, initialSent>>
    PROVE  StartInv'
<1>1. todo'["session"] = calls
  BY TodoOne, SessionIsThread
<1>2. subscribed /\ authorized => Waits("session", "listen")' /\ Waits("session", "initial")'
  BY <1>1 DEF Waits
<1> QED
  BY <1>1, <1>2 DEF StartInv, ToStart

\* The first call of the session goroutine is taken off.
LEMMA StartThen ==
    ASSUME TodoOK, StartInv, NEW c, Calls("session", c), NEW calls \in Seq(CallNames),
           Then("session", calls), StartsNone(calls),
           subscribed' = subscribed, authorized' = authorized,
           listenerOn => listenerOn', c = "listen" => listenerOn', InitialKept,
           c = "initial" /\ subscribed /\ authorized /\ listenerOn => initialSent'
    PROVE  StartInv'
<1> USE SessionIsThread
<1>1. todo["session"] # <<>> /\ Head(todo["session"]) = c /\ pc["session"] = "idle"
  BY DEF Calls
<1>2. /\ \A d : Waits("session", d) /\ d # c => Waits("session", d)'
      /\ Len(todo'["session"]) = Len(calls) + Len(todo["session"]) - 1
      /\ \A i \in 1..Len(todo'["session"]) :
           todo'["session"][i] = IF i <= Len(calls) THEN calls[i]
                                 ELSE todo["session"][i - Len(calls) + 1]
  BY <1>1, ThenCalls
<1>3. todo["session"][1] = c /\ Len(todo["session"]) \in Nat /\ Len(calls) \in Nat
  BY <1>1, Rest, LenProperties
<1>4. \A i \in 1..Len(todo'["session"]) : todo'["session"][i] # "listen"
  <2> SUFFICES ASSUME NEW i \in 1..Len(todo'["session"]) PROVE todo'["session"][i] # "listen"
    OBVIOUS
  <2>1. CASE i <= Len(calls)
    BY <2>1, <1>2, <1>3 DEF StartsNone
  <2>2. CASE ~(i <= Len(calls))
    <3>1. i - Len(calls) + 1 \in 1..Len(todo["session"]) /\ i - Len(calls) + 1 # 1
      BY <2>2, <1>2, <1>3
    <3>2. todo["session"][i - Len(calls) + 1] # "listen"
      BY <3>1 DEF StartInv
    <3> QED
      BY <2>2, <3>2, <1>2
  <2> QED
    BY <2>1, <2>2
<1>5. c # "listen" => ~Waits("session", "listen")
  BY <1>3 DEF StartInv, Waits
<1>6. subscribed /\ authorized => listenerOn'
  BY <1>1, <1>5 DEF StartInv, ToStart
<1>7. subscribed /\ authorized => initialSent' \/ Waits("session", "initial")'
  <2>1. CASE c # "initial"
    BY <2>1, <1>1, <1>2 DEF StartInv, ToStart, InitialKept
  <2>2. CASE c = "initial"
    BY <2>2, <1>1, <1>5 DEF StartInv, ToStart
  <2> QED
    BY <2>1, <2>2
<1>8. initialSent' => subscribed /\ listenerOn'
  BY DEF StartInv, InitialKept
<1> QED
  BY <1>4, <1>6, <1>7, <1>8 DEF StartInv, ToStart

\* The calls that start work.
LEMMA Starting ==
    /\ \A i \in 1..Len(StartWork) : StartWork[i] = "listen" => i = 1
    /\ \E i, j \in 1..Len(StartWork) : StartWork[i] = "listen" /\ StartWork[j] = "initial"
    /\ \A i \in 1..Len(AfterAuthorize) : AfterAuthorize[i] = "listen" => i = 1
    /\ subscribed =>
          \E i, j \in 1..Len(AfterAuthorize) :
             AfterAuthorize[i] = "listen" /\ AfterAuthorize[j] = "initial"
    /\ StartsNone(AfterConfigure) /\ StartsNone(<<>>) /\ StartsNone(<<"suggest">>)
    /\ StartsNone(<<"difficulty", "initial", "clean">>)
    /\ StartsNone(<<"pendingDifficulty", "pendingMask", "firstJob">>)
    /\ StartsNone(<<"difficulty">> \o <<"pendingDifficulty", "pendingMask", "firstJob">>)
<1>0. /\ <<"listen">> \in Seq(CallNames) /\ Len(<<"listen">>) = 1 /\ <<"listen">>[1] = "listen"
      /\ <<"suggest">> \in Seq(CallNames) /\ Len(<<"suggest">>) = 1 /\ <<"suggest">>[1] = "suggest"
      /\ <<"initial">> \in Seq(CallNames) /\ Len(<<"initial">>) = 1 /\ <<"initial">>[1] = "initial"
      /\ <<"schedule", "initial">> \in Seq(CallNames) /\ Len(<<"schedule", "initial">>) = 2
      /\ <<"schedule", "initial">>[1] = "schedule" /\ <<"schedule", "initial">>[2] = "initial"
      /\ <<"difficulty", "clean">> \in Seq(CallNames) /\ Len(<<"difficulty", "clean">>) = 2
      /\ <<"difficulty", "clean">>[1] = "difficulty" /\ <<"difficulty", "clean">>[2] = "clean"
  BY DEF CallNames
<1>1. /\ Len(StartWork) = 3 /\ StartWork[1] = "listen" /\ StartWork[2] = "schedule"
      /\ StartWork[3] = "initial"
  BY DEF StartWork
<1>2. /\ \A i \in 1..Len(StartWork) : StartWork[i] = "listen" => i = 1
      /\ 1 \in 1..Len(StartWork) /\ 3 \in 1..Len(StartWork)
  BY <1>1
<1>3. /\ \A i \in 1..Len(AfterAuthorize) : AfterAuthorize[i] = "listen" => i = 1
      /\ subscribed => \E i, j \in 1..Len(AfterAuthorize) :
                          AfterAuthorize[i] = "listen" /\ AfterAuthorize[j] = "initial"
  <2>1. CASE ~subscribed
    BY <2>1 DEF AfterAuthorize
  <2>2. CASE subscribed /\ want.worker \in Hinted
    <3> DEFINE first == <<"listen">> \o <<"suggest">>
    <3>1. /\ first \in Seq(CallNames) /\ Len(first) = 2 /\ first[1] = "listen" /\ first[2] = "suggest"
      BY <1>0, ConcatProperties
    <3>2. AfterAuthorize = first \o <<"schedule", "initial">>
      BY <2>2 DEF AfterAuthorize
    <3> HIDE DEF first
    <3>3. /\ Len(AfterAuthorize) = 4 /\ AfterAuthorize[1] = "listen" /\ AfterAuthorize[2] = "suggest"
          /\ AfterAuthorize[3] = "schedule" /\ AfterAuthorize[4] = "initial"
      <4> DEFINE second == <<"schedule", "initial">>
      <4>0. second \in Seq(CallNames) /\ Len(second) = 2
        BY <1>0
      <4>5. AfterAuthorize = first \o second
        BY <3>2
      <4> HIDE DEF second
      <4>1. /\ Len(AfterAuthorize) = 4
            /\ \A i \in 1..4 : AfterAuthorize[i] = IF i <= 2 THEN first[i] ELSE second[i - 2]
        <5>1. /\ Len(first \o second) = Len(first) + Len(second)
              /\ \A i \in 1..Len(first) + Len(second) :
                   (first \o second)[i] = IF i <= Len(first) THEN first[i] ELSE second[i - Len(first)]
          BY <3>1, <4>0, ConcatProperties
        <5>2. Len(first) = 2 /\ Len(second) = 2
          BY <3>1, <4>0
        <5> QED
          BY <5>1, <5>2, <4>5
      <4>2. AfterAuthorize[1] = first[1] /\ AfterAuthorize[2] = first[2]
        BY <4>1
      <4>3. AfterAuthorize[3] = second[1] /\ AfterAuthorize[4] = second[2]
        BY <4>1
      <4> QED
        BY <4>1, <4>2, <4>3, <3>1, <1>0 DEF second
    <3>4. 1 \in 1..Len(AfterAuthorize) /\ 4 \in 1..Len(AfterAuthorize)
      BY <3>3
    <3> QED
      BY <3>3, <3>4
  <2>3. CASE subscribed /\ want.worker \notin Hinted
    <3>1. <<"listen">> \o <<>> = <<"listen">>
      BY <1>0, ConcatEmptySeq
    <3>2. AfterAuthorize = <<"listen">> \o <<"schedule", "initial">>
      BY <2>3, <3>1 DEF AfterAuthorize
    <3>3. /\ Len(AfterAuthorize) = 3 /\ AfterAuthorize[1] = "listen"
          /\ AfterAuthorize[2] = "schedule" /\ AfterAuthorize[3] = "initial"
      BY <1>0, <3>2, ConcatProperties
    <3>4. 1 \in 1..Len(AfterAuthorize) /\ 3 \in 1..Len(AfterAuthorize)
      BY <3>3
    <3> QED
      BY <3>3, <3>4
  <2> QED
    BY <2>1, <2>2, <2>3
<1>4. StartsNone(AfterConfigure)
  <2>1. CASE want.floor
    <3>2. AfterConfigure = <<"difficulty", "clean">> \o <<"initial">>
      BY <2>1 DEF AfterConfigure
    <3>3. /\ Len(AfterConfigure) = 3 /\ AfterConfigure[1] = "difficulty"
          /\ AfterConfigure[2] = "clean" /\ AfterConfigure[3] = "initial"
      BY <1>0, <3>2, ConcatProperties
    <3> QED
      BY <3>3 DEF StartsNone
  <2>2. CASE ~want.floor
    <3>1. <<>> \o <<"initial">> = <<"initial">>
      BY <1>0, ConcatEmptySeq
    <3>2. AfterConfigure = <<"initial">>
      BY <2>2, <3>1 DEF AfterConfigure
    <3> QED
      BY <3>2 DEF StartsNone
  <2> QED
    BY <2>1, <2>2
<1>5. /\ StartsNone(<<>>) /\ StartsNone(<<"suggest">>)
      /\ StartsNone(<<"difficulty", "initial", "clean">>)
      /\ StartsNone(<<"pendingDifficulty", "pendingMask", "firstJob">>)
  BY DEF StartsNone
<1>6. StartsNone(<<"difficulty">> \o <<"pendingDifficulty", "pendingMask", "firstJob">>)
  <2> DEFINE a == <<"difficulty">>
             b == <<"pendingDifficulty", "pendingMask", "firstJob">>
  <2>1. /\ a \in Seq(CallNames) /\ Len(a) = 1 /\ a[1] = "difficulty" /\ Len(b) = 3
        /\ b \in Seq(CallNames) /\ b[1] = "pendingDifficulty" /\ b[2] = "pendingMask" /\ b[3] = "firstJob"
    BY DEF CallNames
  <2> HIDE DEF a, b
  <2>2. /\ Len(a \o b) = 4
        /\ \A i \in 1..4 : (a \o b)[i] = IF i <= 1 THEN a[i] ELSE b[i - 1]
    BY <2>1, ConcatProperties
  <2>3. StartsNone(a \o b)
    BY <2>1, <2>2 DEF StartsNone
  <2> QED
    BY <2>3 DEF a, b
<1> QED
  BY <1>1, <1>2, <1>3, <1>4, <1>5, <1>6

\* The same when no call is added.
LEMMA StartReturn ==
    ASSUME TodoOK, StartInv, NEW c, Calls("session", c), Then("session", <<>>),
           subscribed' = subscribed, authorized' = authorized,
           listenerOn => listenerOn', c = "listen" => listenerOn', initialSent' = initialSent,
           ~(c = "initial" /\ subscribed /\ authorized /\ listenerOn /\ ~initialSent)
    PROVE  StartInv'
<1>1. <<>> \in Seq(CallNames)
  BY EmptySeq
<1>2. StartsNone(<<>>)
  BY DEF StartsNone
<1>3. InitialKept
  BY DEF InitialKept
<1>4. c = "initial" /\ subscribed /\ authorized /\ listenerOn => initialSent'
  OBVIOUS
<1> QED
  BY <1>1, <1>2, <1>3, <1>4, StartThen

\* Every step keeps the miner's work started or to be started.
LEMMA StartRequests ==
    ASSUME TypeOK, JobsInv, StartInv, Requests
    PROVE  StartInv'
<1> USE SessionIsThread
<1>0. ControlOK /\ TodoOK
  BY DEF TypeOK, JobsInv
<1>1. CASE Subscribe
  BY <1>1, <1>0, GoOne, StartKeptStep DEF Subscribe, Reads, Idle, StartKept, InitialKept, Writing
<1>2. CASE AuthorizeRefused
  BY <1>2, <1>0, GoOne, StartKeptStep
  DEF AuthorizeRefused, Reads, Idle, StartKept, InitialKept, Writing
<1>3. CASE SuggestDifficulty
  <2> QED
    BY <1>3, <1>0, Starting, StartRun, CallSequences DEF SuggestDifficulty, Reads, Idle, Writing
<1>4. CASE \E w \in Workers : Authorize(w)
  BY <1>4, <1>0, GoOne, StartKeptStep DEF Authorize, Reads, Idle, StartKept, InitialKept, Writing
<1>5. CASE \E option \in Options : Configure(option)
  BY <1>5, <1>0, GoOne, StartKeptStep DEF Configure, Reads, Idle, StartKept, InitialKept, Writing
<1> QED
  BY <1>1, <1>2, <1>3, <1>4, <1>5 DEF Requests

LEMMA StartSession ==
    ASSUME Inv, JobsInv, StartInv, HandshakeInv, Session, ~closed'
    PROVE  StartInv'
<1> USE SessionIsThread
<1>0. ControlOK /\ TodoOK
  BY DEF Inv, TypeOK, JobsInv
<1>1. CASE SubscribeWrite
  <2>1. /\ todo' = [todo EXCEPT !["session"] = IF authorized THEN StartWork ELSE <<>>]
        /\ UNCHANGED handshakeVars /\ UNCHANGED initialVars
    BY <1>1 DEF SubscribeWrite, WriteFails, Run
  <2>2. CASE authorized
    <3>1. todo' = [todo EXCEPT !["session"] = StartWork]
      BY <2>1, <2>2
    <3> QED
      BY <3>1, <2>1, <1>0, StartBegins, Starting, CallSequences
  <2>3. CASE ~authorized
    <3>1. todo' = [todo EXCEPT !["session"] = <<>>]
      BY <2>1, <2>3
    <3> QED
      <4>1. \A i \in 1..Len(<<>>) : <<>>[i] = "listen" => i = 1
        OBVIOUS
      <4>2. UNCHANGED <<subscribed, authorized, listenerOn, initialSent>>
        BY <2>1
      <4> QED
        BY <3>1, <4>1, <4>2, <2>3, <1>0, StartBegins, CallSequences
  <2> QED
    BY <2>2, <2>3
<1>2. CASE AuthorizeLock
  BY <1>2, <1>0, GoOne, StartKeptStep DEF AuthorizeLock, PublishIdentity, StartKept, InitialKept, Writing
<1>3. CASE Register
  BY <1>3, <1>0, GoOne, StartKeptStep DEF Register, StartKept, InitialKept, Writing
<1>4. CASE AuthorizeRegistered
  BY <1>4, <1>0, GoOne, StartKeptStep
  DEF AuthorizeRegistered, AuthorizeCheck, StartKept, InitialKept, Writing
<1>5. CASE AuthorizeWrite
  <2>1. /\ todo' = [todo EXCEPT !["session"] = AfterAuthorize]
        /\ UNCHANGED handshakeVars /\ UNCHANGED initialVars
    BY <1>5 DEF AuthorizeWrite, WriteFails, Run
  <2> QED
    BY <2>1, <1>0, StartBegins, Starting, CallSequences
<1>6. CASE ConfigureLock
  BY <1>6, <1>0, GoOne, StartKeptStep DEF ConfigureLock, StartKept, InitialKept, Writing
<1>7. CASE ConfigureWrite
  <2>0. /\ pc["session"] = "cfgWrite" /\ todo["session"] = <<>>
        /\ UNCHANGED handshakeVars /\ UNCHANGED initialVars
    BY <1>7 DEF ConfigureWrite, JobsInv, JobsLocal, Answering
  <2>1. CASE todo' = [todo EXCEPT !["session"] = AfterConfigure]
    BY <2>0, <2>1, <1>0, StartRun, Starting, CallSequences DEF Writing
  <2>2. CASE todo' = todo /\ Go("session", "cfgMask")
    BY <2>0, <2>2, <1>0, GoOne, StartKeptStep DEF StartKept, InitialKept, Writing
  <2> QED
    BY <2>1, <2>2, <1>7 DEF ConfigureWrite, WriteFails, Run
<1>8. CASE ConfigureMask
  <2>0. /\ pc["session"] = "cfgMask" /\ todo["session"] = <<>>
        /\ UNCHANGED handshakeVars /\ UNCHANGED initialVars
    BY <1>8 DEF ConfigureMask, JobsInv, JobsLocal, Answering
  <2>1. todo' = [todo EXCEPT !["session"] = AfterConfigure]
    BY <1>8 DEF ConfigureMask, WriteFails, Run
  <2> QED
    BY <2>0, <2>1, <1>0, StartRun, Starting, CallSequences DEF Writing
<1>9. CASE Listen
  <2>1. /\ Then("session", <<>>) /\ listenerOn' /\ subscribed' = subscribed /\ authorized' = authorized
        /\ initialSent' = initialSent /\ Calls("session", "listen")
    BY <1>9 DEF Listen, Return, Inv, CleanInv
  <2> QED
    BY <2>1, <1>0, StartReturn
<1>10. CASE Schedule
  <2>1. /\ Calls("session", "schedule") /\ Then("session", <<>>) /\ listenerOn' = listenerOn
        /\ subscribed' = subscribed /\ authorized' = authorized /\ initialSent' = initialSent
    BY <1>10 DEF Schedule, Return
  <2> QED
    BY <2>1, <1>0, StartReturn
<1>11. CASE Suggest
  <2>0. /\ Calls("session", "suggest") /\ listenerOn' = listenerOn
        /\ subscribed' = subscribed /\ authorized' = authorized /\ initialSent' = initialSent
    BY <1>11 DEF Suggest
  <2>2. CASE Then("session", <<>>)
    BY <2>0, <2>2, <1>0, StartReturn
  <2>3. CASE Then("session", <<"difficulty", "initial", "clean">>)
    <3>1. InitialKept
      BY <2>0 DEF InitialKept
    <3>2. <<"difficulty", "initial", "clean">> \in Seq(CallNames)
      BY CallSequences
    <3>3. StartsNone(<<"difficulty", "initial", "clean">>)
      BY Starting
    <3>4. /\ "suggest" = "listen" => listenerOn'
          /\ "suggest" = "initial" /\ subscribed /\ authorized /\ listenerOn => initialSent'
          /\ listenerOn => listenerOn'
      BY <2>0
    <3> QED
      BY <2>0, <2>3, <1>0, <3>1, <3>2, <3>3, <3>4, StartThen
  <2> QED
    BY <2>2, <2>3, <1>11 DEF Suggest
<1>12. CASE CleanJob
  <2>1. /\ Calls("session", "clean") /\ Then("session", <<>>) /\ listenerOn' = listenerOn
        /\ subscribed' = subscribed /\ authorized' = authorized /\ initialSent' = initialSent
    BY <1>12 DEF CleanJob
  <2> QED
    BY <2>1, <1>0, StartReturn
<1> QED
  BY <1>1, <1>2, <1>3, <1>4, <1>5, <1>6, <1>7, <1>8, <1>9, <1>10, <1>11, <1>12 DEF Session

\* Whoever sends the initial work found the listener.
LEMMA InitialKeeps ==
    ASSUME NEW t \in Threads, Common(t)
    PROVE  InitialKept /\ subscribed' = subscribed /\ authorized' = authorized /\ listenerOn' = listenerOn
  BY DEF Common, Initial, FirstJob, SetDifficulty, PendingDifficulty, PendingMask, WriteMask, LockNotify,
        Setup, Notify, Close, Unregister, Unsubscribe, InitialKept

LEMMA StartCommon ==
    ASSUME TypeOK, JobsInv, StartInv, NEW t \in Threads, Common(t), ~closed'
    PROVE  StartInv'
<1>0. /\ ControlOK /\ TodoOK
      /\ InitialKept /\ subscribed' = subscribed /\ authorized' = authorized /\ listenerOn' = listenerOn
  BY InitialKeeps DEF TypeOK, JobsInv
<1>1. CASE t # "session"
  <2>1. pc'["session"] = pc["session"] /\ todo'["session"] = todo["session"]
    BY <1>1, CommonJobs, SessionIsThread DEF Only
  <2> QED
    BY <2>1, <1>0, StartKeptStep DEF StartKept
<1>2. CASE t = "session"
  <2>1. CASE Initial(t)
    <3>1. PICK calls \in Seq(CallNames) : Then("session", calls) /\ StartsNone(calls)
      <4>1. CASE Then("session", <<>>)
        BY <4>1, CallSequences, Starting
      <4>2. CASE Then("session", (IF suggestDone THEN <<>> ELSE <<"difficulty">>)
                                   \o <<"pendingDifficulty", "pendingMask", "firstJob">>)
        <5>1. CASE suggestDone
          <6>1. <<>> \o <<"pendingDifficulty", "pendingMask", "firstJob">>
                  = <<"pendingDifficulty", "pendingMask", "firstJob">>
            BY CallSequences, ConcatEmptySeq
          <6> QED
            BY <4>2, <5>1, <6>1, CallSequences, Starting
        <5>2. CASE ~suggestDone
          BY <4>2, <5>2, CallSequences, Starting
        <5> QED
          BY <5>1, <5>2
      <4> QED
        BY <4>1, <4>2, <2>1, <1>2 DEF Initial
    <3>2. subscribed /\ authorized /\ listenerOn => initialSent'
      BY <2>1 DEF Initial
    <3>3. Calls("session", "initial")
      BY <2>1, <1>2 DEF Initial
    <3>4. "initial" = "listen" => listenerOn'
      OBVIOUS
    <3> QED
      BY <3>1, <3>2, <3>3, <3>4, <1>0, StartThen
  <2>2. CASE FirstJob(t)
    <3>1. Calls("session", "firstJob") /\ Then("session", <<>>) /\ initialSent' = initialSent
      BY <2>2, <1>2 DEF FirstJob
    <3> QED
      BY <3>1, <1>0, StartReturn
  <2>3. CASE SetDifficulty(t)
    <3>1. Calls("session", "difficulty") /\ Then("session", <<>>) /\ initialSent' = initialSent
      BY <2>3, <1>2 DEF SetDifficulty, TellDifficulty, WriteFails, Return
    <3> QED
      BY <3>1, <1>0, StartReturn
  <2>4. CASE PendingDifficulty(t)
    <3>1. Calls("session", "pendingDifficulty") /\ Then("session", <<>>) /\ initialSent' = initialSent
      BY <2>4, <1>2 DEF PendingDifficulty, TellDifficulty, WriteFails, Return
    <3> QED
      BY <3>1, <1>0, StartReturn
  <2>5. CASE PendingMask(t)
    <3>1. Calls("session", "pendingMask") /\ Then("session", <<>>) /\ initialSent' = initialSent
      BY <2>5, <1>2 DEF PendingMask
    <3> QED
      BY <3>1, <1>0, StartReturn
  <2>6. CASE \/ WriteMask(t) \/ LockNotify(t) \/ Setup(t) \/ Notify(t)
             \/ Close(t) \/ Unregister(t) \/ Unsubscribe(t)
    <3>1. todo' = todo /\ pc["session"] \notin Writing
      BY <2>6, <1>2 DEF WriteMask, LockNotify, Setup, Notify, Close, Unregister, Unsubscribe,
         WriteFails, Writing
    <3> QED
      BY <3>1, <1>0, StartKeptStep DEF StartKept
  <2> QED
    BY <2>1, <2>2, <2>3, <2>4, <2>5, <2>6 DEF Common
<1> QED
  BY <1>1, <1>2

LEMMA StartOthers ==
    ASSUME TypeOK, JobsInv, StartInv,
           \/ Receive \/ TimerFires \/ NotifyAgain \/ SessionEnds \/ Disconnect
           \/ \E j \in 1..lastJob : ShareAccepted(j)
           \/ Publish
    PROVE  StartInv'
<1>0. ControlOK /\ TodoOK /\ "listener" \in Threads /\ "share" \in Threads /\ "admin" \in Threads
      /\ "timer" \in Threads
  BY DEF TypeOK, JobsInv, Threads
<1>1. InitialKept /\ subscribed' = subscribed /\ authorized' = authorized /\ listenerOn' = listenerOn
  BY DEF Receive, TimerFires, NotifyAgain, SessionEnds, Disconnect, ShareAccepted, Publish, InitialKept
<1>2. todo'["session"] = todo["session"]
  BY <1>0, SessionIsThread DEF Receive, TimerFires, NotifyAgain, SessionEnds, Disconnect, ShareAccepted,
     Publish, Then, TodoOK
<1>3. pc["session"] \in Writing => pc'["session"] = pc["session"]
  BY <1>0, SessionIsThread, GoOne DEF Receive, TimerFires, NotifyAgain, SessionEnds, Disconnect,
     ShareAccepted, Publish, Idle, Writing
<1> QED
  BY <1>1, <1>2, <1>3, StartKeptStep DEF StartKept

LEMMA StartStep ==
    ASSUME Inv, JobsInv, HandshakeInv, StartInv, Next, ~closed'
    PROVE  StartInv'
  BY StartRequests, StartSession, StartCommon, StartOthers DEF Inv, Next

\* A step of t that sends no job and publishes none.
OrderKept(t) ==
    /\ Only(t)
    /\ lastJob' = lastJob /\ work' = work /\ curJob' = curJob
    /\ subscribed => subscribed'
    /\ jobCh' = jobCh \/ jobCh' = <<>>
    /\ job'[t] <= curJob
    /\ pc'[t] \in Notifying => pc[t] \in Notifying /\ job'[t] = job[t]

LEMMA OrderKeptStep ==
    ASSUME TypeOK, OrderInv, NEW t \in Threads, OrderKept(t)
    PROVE  OrderInv'
<1>1. OrderLocal(t)'
  BY DEF OrderInv, OrderLocal, OrderKept
<1>2. \A s \in Threads \ {t} : OrderLocal(s)'
  BY DEF OrderInv, OrderLocal, OrderKept, Only
<1>3. \A i \in 1..Len(jobCh') : jobCh'[i] <= curJob'
  <2>1. CASE jobCh' = jobCh
    BY <2>1 DEF OrderInv, OrderKept
  <2>2. CASE jobCh' = <<>>
    BY <2>2
  <2> QED
    BY <2>1, <2>2 DEF OrderKept
<1> QED
  BY <1>1, <1>2, <1>3 DEF OrderInv, OrderKept

\* The job of a goroutine that went to a label, or got another job.
LEMMA JobAfter ==
    ASSUME TypeOK, OrderInv, NEW t \in Threads
    PROVE  /\ job' = job => job'[t] = job[t] /\ job'[t] <= curJob
           /\ Forget(t) => job'[t] <= curJob
           /\ job' = [job EXCEPT ![t] = curJob] => job'[t] <= curJob
  BY DEF Forget, TypeOK, DataOK, OrderInv, OrderLocal

LEMMA OrderRequests ==
    ASSUME TypeOK, JobsInv, OrderInv, Requests
    PROVE  OrderInv'
<1> USE SessionIsThread
<1>0. ControlOK /\ Only("session")
  BY RequestJobs DEF TypeOK
<1>1. /\ lastJob' = lastJob /\ work' = work /\ curJob' = curJob /\ jobCh' = jobCh /\ job' = job
      /\ subscribed => subscribed'
  BY DEF Requests, Subscribe, AuthorizeRefused, SuggestDifficulty, Authorize, Configure
<1>2. pc' = pc \/ \E l : Go("session", l) /\ l \notin Notifying
  BY DEF Requests, Subscribe, AuthorizeRefused, SuggestDifficulty, Authorize, Configure, Notifying
<1>3. pc'["session"] \in Notifying => pc["session"] \in Notifying
  BY <1>0, <1>2, GoOne
<1> QED
  BY <1>0, <1>1, <1>3, JobAfter, OrderKeptStep DEF OrderKept

LEMMA OrderSession ==
    ASSUME TypeOK, JobsInv, OrderInv, Session
    PROVE  OrderInv'
<1> USE SessionIsThread
<1>0. ControlOK /\ Only("session")
  BY SessionJobs DEF TypeOK
<1>1. /\ lastJob' = lastJob /\ work' = work /\ curJob' = curJob /\ (jobCh' = jobCh \/ jobCh' = <<>>)
      /\ subscribed' = subscribed
      /\ job' = job \/ job' = [job EXCEPT !["session"] = curJob]
  BY DEF Session, SubscribeWrite, AuthorizeLock, Register, AuthorizeRegistered, AuthorizeWrite,
     ConfigureLock, ConfigureWrite, ConfigureMask, Listen, Schedule, Suggest, CleanJob
<1>2. pc' = pc \/ \E l : Go("session", l) /\ l \notin Notifying
  BY DEF Session, SubscribeWrite, AuthorizeLock, Register, AuthorizeRegistered, AuthorizeWrite,
     ConfigureLock, ConfigureWrite, ConfigureMask, Listen, Schedule, Suggest, CleanJob, Notifying,
     PublishIdentity, AuthorizeCheck, WriteFails, Run, Return
<1>3. pc'["session"] \in Notifying => pc["session"] \in Notifying /\ pc' = pc
  BY <1>0, <1>2, GoOne
<1>4. pc' = pc => job' = job \/ pc["session"] = "idle"
  BY DEF Session, SubscribeWrite, AuthorizeLock, Register, AuthorizeRegistered, AuthorizeWrite,
     ConfigureLock, ConfigureWrite, ConfigureMask, Listen, Schedule, Suggest, CleanJob, Calls
<1> QED
  BY <1>0, <1>1, <1>3, <1>4, JobAfter, OrderKeptStep DEF OrderKept, Notifying

LEMMA OrderCommon ==
    ASSUME TypeOK, JobsInv, OrderInv, NEW t \in Threads, Common(t), ~closed'
    PROVE  OrderInv'
<1>0. ControlOK /\ Only(t)
  BY CommonJobs DEF TypeOK
<1>1. CASE LockNotify(t)
  <2>1. CASE Go(t, "idle") /\ Forget(t)
    BY <2>1, <1>0, <1>1, GoOne, JobAfter, OrderKeptStep DEF LockNotify, OrderKept, Notifying
  <2>2. CASE ~Refused(job[t]) /\ job' = job
    <3>1. OrderLocal(t)'
      BY <2>2, <1>1 DEF LockNotify, Refused, OrderInv, OrderLocal, TypeOK, DataOK
    <3>2. \A s \in Threads \ {t} : OrderLocal(s)'
      BY <1>0, <1>1 DEF LockNotify, OrderInv, OrderLocal, Only
    <3> QED
      BY <3>1, <3>2, <1>1 DEF LockNotify, OrderInv
  <2> QED
    BY <2>1, <2>2, <1>1 DEF LockNotify
<1>2. CASE Setup(t)
  <2>1. pc[t] = "setup" /\ (job' = job \/ (Forget(t) /\ pc'[t] = "idle"))
    <3>0. pc[t] = "setup"
      BY <1>2 DEF Setup
    <3>1. CASE WriteFails(t) /\ job' = job
      BY <3>0, <3>1
    <3>2. CASE Go(t, "idle") /\ Forget(t)
      BY <3>0, <3>2, <1>0, GoOne
    <3>3. CASE Go(t, "notify") /\ job' = job
      BY <3>0, <3>3
    <3> QED
      BY <3>1, <3>2, <3>3, <1>2 DEF Setup
  <2> QED
    BY <2>1, <1>2, <1>0, JobAfter, OrderKeptStep DEF Setup, OrderKept, Notifying
<1>3. CASE Notify(t)
  <2>1. /\ worker # None /\ lastJob' = job[t] /\ work' = [job |-> job[t], worker |-> worker]
        /\ Go(t, "idle") /\ Forget(t)
    BY <1>3 DEF Notify, WriteFails
  <2>2. pc'[t] = "idle" /\ job'[t] = 0 /\ pc[t] = "notify"
    BY <2>1, <1>0, <1>3, GoOne DEF Notify, Forget, TypeOK, DataOK
  <2>3. \A s \in Threads \ {t} : pc[s] \notin Notifying
    BY <1>0, <2>2, LockHolder DEF Locked, Notifying
  <2>4. curJob' = curJob /\ jobCh' = jobCh /\ subscribed' = subscribed /\ subscribed /\ job[t] <= curJob
    BY <1>3, <2>2 DEF Notify, OrderInv, OrderLocal, Notifying
  <2>5. OrderLocal(t)'
    BY <2>2, <2>4 DEF OrderLocal, TypeOK, DataOK, Notifying
  <2>6. \A s \in Threads \ {t} : OrderLocal(s)'
    BY <2>3, <2>4, <1>0 DEF OrderInv, OrderLocal, Only
  <2> QED
    BY <2>1, <2>4, <2>5, <2>6 DEF OrderInv
<1>4. CASE \/ Initial(t) \/ FirstJob(t) \/ SetDifficulty(t) \/ PendingDifficulty(t) \/ PendingMask(t)
           \/ WriteMask(t) \/ Close(t) \/ Unregister(t) \/ Unsubscribe(t)
  <2>1. /\ lastJob' = lastJob /\ work' = work /\ curJob' = curJob /\ jobCh' = jobCh
        /\ subscribed' = subscribed
        /\ job' = job \/ (job' = [job EXCEPT ![t] = curJob] /\ Go(t, "lockNotify"))
    BY <1>4 DEF Initial, FirstJob, SetDifficulty, PendingDifficulty, PendingMask, WriteMask, Close,
       Unregister, Unsubscribe
  <2>2. pc' = pc \/ \E l : Go(t, l) /\ l \notin Notifying
    BY <1>4 DEF Initial, FirstJob, SetDifficulty, PendingDifficulty, PendingMask, WriteMask, Close,
       Unregister, Unsubscribe, Notifying, TellDifficulty, WriteFails, Return
  <2>3. pc'[t] \in Notifying => pc[t] \in Notifying /\ job' = job
    BY <1>0, <2>1, <2>2, GoOne DEF Notifying
  <2> QED
    BY <1>0, <2>1, <2>3, JobAfter, OrderKeptStep DEF OrderKept
<1> QED
  BY <1>1, <1>2, <1>3, <1>4 DEF Common

LEMMA OrderOthers ==
    ASSUME TypeOK, JobsInv, OrderInv,
           \/ Receive \/ TimerFires \/ NotifyAgain \/ SessionEnds \/ Disconnect
           \/ \E j \in 1..lastJob : ShareAccepted(j)
           \/ Publish
    PROVE  OrderInv'
<1>0. /\ ControlOK /\ "listener" \in Threads /\ "share" \in Threads /\ "admin" \in Threads
      /\ "timer" \in Threads /\ "session" \in Threads
  BY DEF TypeOK, Threads
<1>1. CASE Receive
  <2>1. jobCh \in Seq(1..MaxJobs) /\ jobCh # <<>>
    BY <1>1 DEF Receive, TypeOK, DataOK
  <2>2. /\ Head(jobCh) = jobCh[1] /\ Len(jobCh) \in Nat /\ Len(jobCh) # 0 /\ Len(Tail(jobCh)) = Len(jobCh) - 1
        /\ \A i \in 1..Len(Tail(jobCh)) : Tail(jobCh)[i] = jobCh[i + 1]
    BY <2>1, HeadTailProperties, LenProperties, EmptySeq
  <2>3. Head(jobCh) <= curJob /\ \A i \in 1..Len(Tail(jobCh)) : Tail(jobCh)[i] <= curJob
    BY <2>2 DEF OrderInv
  <2>4. /\ job'["listener"] = Head(jobCh) /\ pc'["listener"] = "lockNotify"
        /\ \A s \in Threads \ {"listener"} : job'[s] = job[s] /\ pc'[s] = pc[s]
    BY <1>0, <1>1, GoOne DEF Receive, TypeOK, DataOK
  <2>5. /\ lastJob' = lastJob /\ work' = work /\ curJob' = curJob /\ subscribed' = subscribed
        /\ jobCh' = Tail(jobCh)
    BY <1>1 DEF Receive
  <2>6. \A s \in Threads : OrderLocal(s)'
    BY <2>3, <2>4, <2>5 DEF OrderInv, OrderLocal, Notifying
  <2> QED
    BY <2>3, <2>5, <2>6 DEF OrderInv
<1>2. CASE Publish
  <2>1. /\ curJob' = curJob + 1 /\ lastJob' = lastJob /\ work' = work /\ subscribed' = subscribed
        /\ pc' = pc /\ job' = job
    BY <1>2 DEF Publish
  <2>2. curJob \in Nat /\ lastJob \in Nat /\ \A t \in Threads : job[t] \in Nat
    BY BoundsAssumption DEF TypeOK, DataOK
  <2>3. \A t \in Threads : OrderLocal(t)'
    BY <2>1, <2>2 DEF OrderInv, OrderLocal
  <2>4. jobCh \in Seq(1..MaxJobs) /\ Len(jobCh) \in Nat
    BY LenProperties DEF TypeOK, DataOK
  <2>5. PICK kept \in Seq(1..MaxJobs) : /\ jobCh' = Append(kept, curJob + 1)
                                        /\ \A i \in 1..Len(kept) : kept[i] <= curJob
    <3>1. CASE Len(jobCh) = ChanCap
      <4>1. jobCh # <<>>
        BY <3>1, BoundsAssumption
      <4>2. /\ Tail(jobCh) \in Seq(1..MaxJobs) /\ Len(Tail(jobCh)) = Len(jobCh) - 1
            /\ \A i \in 1..Len(Tail(jobCh)) : Tail(jobCh)[i] = jobCh[i + 1]
        BY <2>4, <4>1, HeadTailProperties
      <4>3. \A i \in 1..Len(Tail(jobCh)) : Tail(jobCh)[i] <= curJob
        BY <2>4, <4>2 DEF OrderInv
      <4> QED
        BY <4>2, <4>3, <3>1, <1>2 DEF Publish
    <3>2. CASE Len(jobCh) # ChanCap
      BY <3>2, <2>4, <1>2 DEF Publish, OrderInv
    <3> QED
      BY <3>1, <3>2
  <2>6. curJob + 1 \in 1..MaxJobs /\ Len(kept) \in Nat /\ \A i \in 1..Len(kept) : kept[i] \in 1..MaxJobs
    BY <1>2, <2>2, BoundsAssumption, LenProperties, ElementOfSeq DEF Publish
  <2>7. /\ Len(jobCh') = Len(kept) + 1
        /\ \A i \in 1..Len(kept) : jobCh'[i] = kept[i]
        /\ jobCh'[Len(kept) + 1] = curJob + 1
    BY <2>5, <2>6, AppendProperties
  <2>8. \A i \in 1..Len(jobCh') : jobCh'[i] <= curJob'
    BY <2>1, <2>2, <2>5, <2>6, <2>7
  <2> QED
    BY <2>1, <2>2, <2>3, <2>8 DEF OrderInv
<1>3. CASE \E j \in 1..lastJob : ShareAccepted(j)
  <2>1. PICK j \in 1..lastJob : ShareAccepted(j)
    BY <1>3
  <2>2. job'["share"] = j /\ \A s \in Threads \ {"share"} : job'[s] = job[s]
    BY <1>0, <2>1 DEF ShareAccepted, TypeOK, DataOK
  <2>3. pc' = pc /\ pc["share"] = "idle" /\ j <= curJob
    BY <2>1, BoundsAssumption DEF ShareAccepted, Idle, OrderInv, TypeOK, DataOK
  <2>4. \A s \in Threads : OrderLocal(s)'
    BY <2>1, <2>2, <2>3 DEF ShareAccepted, OrderInv, OrderLocal, Notifying
  <2> QED
    BY <2>1, <2>4 DEF ShareAccepted, OrderInv
<1>4. CASE TimerFires \/ NotifyAgain \/ SessionEnds \/ Disconnect
  <2>1. /\ lastJob' = lastJob /\ work' = work /\ curJob' = curJob /\ jobCh' = jobCh /\ job' = job
        /\ subscribed' = subscribed
    BY <1>4 DEF TimerFires, NotifyAgain, SessionEnds, Disconnect
  <2>2. pc' = pc \/ \E t \in Threads : \E l : Go(t, l) /\ l \notin Notifying
    BY <1>4, <1>0 DEF TimerFires, NotifyAgain, SessionEnds, Disconnect, Notifying
  <2>3. \A s \in Threads : pc'[s] \in Notifying => pc[s] \in Notifying
    BY <2>2, <1>0, GoOne
  <2> QED
    BY <2>1, <2>3 DEF OrderInv, OrderLocal
<1> QED
  BY <1>1, <1>2, <1>3, <1>4

LEMMA OrderStep ==
    ASSUME TypeOK, JobsInv, OrderInv, Next, ~closed'
    PROVE  OrderInv'
  BY OrderRequests, OrderSession, OrderCommon, OrderOthers DEF Next

\* A step of t that loses no job.
NewestKept(t) ==
    /\ Only(t)
    /\ curJob' = curJob
    /\ lastJob' = lastJob
    /\ jobCh' = jobCh \/ ~initialSent
    /\ initialSent' => initialSent \/ Carries(t)'
    /\ initialSent /\ curJob # 0 /\ Carries(t) => Carries(t)'

LEMMA NewestKeptStep ==
    ASSUME NewestInv, NEW t \in Threads, NewestKept(t)
    PROVE  NewestInv'
<1>1. ASSUME NEW s \in Threads \ {t}, Carries(s)
      PROVE  Carries(s)'
  BY <1>1 DEF Carries, Waits, NewestKept, Only
<1>2. InChannel /\ initialSent => InChannel'
  BY DEF InChannel, NewestKept
<1>3. CASE Carries(t)'
  BY <1>3 DEF NewestInv
<1>4. CASE ~Carries(t)'
  <2>1. initialSent' /\ curJob # 0 => initialSent /\ ~Carries(t)
    BY <1>4 DEF NewestKept
  <2> QED
    BY <2>1, <1>1, <1>2 DEF NewestInv, NewestKept
<1> QED
  BY <1>3, <1>4

\* A call that is not for the first job leaves it to be made.
LEMMA CarriesThen ==
    ASSUME TodoOK, NEW t \in Threads, NEW c, Calls(t, c), c # "firstJob",
           NEW calls \in Seq(CallNames), Then(t, calls), Carries(t)
    PROVE  Carries(t)'
<1>1. todo[t] # <<>> /\ Head(todo[t]) = c /\ pc[t] = "idle"
  BY DEF Calls
<1>2. Waits(t, "firstJob")
  BY <1>1 DEF Carries, Announcing, Notifying
<1>3. Waits(t, "firstJob")'
  BY <1>1, <1>2, ThenCalls
<1> QED
  BY <1>3 DEF Carries

\* A goroutine without calls whose label does not announce work carries nothing.
LEMMA CarriesNothing ==
    ASSUME NEW t \in Threads, todo[t] = <<>>, pc[t] \notin Announcing
    PROVE  ~Carries(t)
  BY DEF Carries, Waits

LEMMA NewestRequests ==
    ASSUME TypeOK, JobsInv, NewestInv, Requests
    PROVE  NewestInv'
<1> USE SessionIsThread
<1>1. Only("session")
  BY RequestJobs
<1>2. todo["session"] = <<>> /\ pc["session"] \notin Announcing
  BY DEF Requests, Subscribe, AuthorizeRefused, SuggestDifficulty, Authorize, Configure, Reads, Idle,
     Announcing, Notifying
<1>3. UNCHANGED <<curJob, lastJob, jobCh, initialSent>>
  BY DEF Requests, Subscribe, AuthorizeRefused, SuggestDifficulty, Authorize, Configure
<1> QED
  BY <1>1, <1>2, <1>3, CarriesNothing, NewestKeptStep DEF NewestKept

LEMMA NewestSession ==
    ASSUME Inv, JobsInv, StartInv, NewestInv, Session, ~closed'
    PROVE  NewestInv'
<1> USE SessionIsThread
<1>1. Only("session") /\ TodoOK
  BY SessionJobs DEF Inv, JobsInv
<1>2. curJob' = curJob /\ lastJob' = lastJob /\ initialSent' = initialSent
  BY DEF Session, SubscribeWrite, AuthorizeLock, Register, AuthorizeRegistered, AuthorizeWrite,
     ConfigureLock, ConfigureWrite, ConfigureMask, Listen, Schedule, Suggest, CleanJob
<1>3. jobCh' = jobCh \/ ~initialSent
  BY DEF Session, SubscribeWrite, AuthorizeLock, Register, AuthorizeRegistered, AuthorizeWrite,
     ConfigureLock, ConfigureWrite, ConfigureMask, Listen, Schedule, Suggest, CleanJob, StartInv
<1>4. CASE pc["session"] \in Answering
  <2>1. todo["session"] = <<>> /\ pc["session"] \notin Announcing
    BY <1>4 DEF JobsInv, JobsLocal, Answering, Announcing, Notifying
  <2> QED
    BY <1>1, <1>2, <1>3, <2>1, CarriesNothing, NewestKeptStep DEF NewestKept
<1>5. CASE pc["session"] \notin Answering
  <2>1. CASE Listen
    <3>1. Calls("session", "listen") /\ Then("session", <<>>)
      BY <2>1 DEF Listen, Return, Inv, CleanInv
    <3>2. Carries("session") => Carries("session")'
      BY <3>1, <1>1, CarriesThen, CallSequences
    <3> QED
      BY <3>2, <1>1, <1>2, <1>3, NewestKeptStep DEF NewestKept
  <2>2. CASE Schedule
    <3>1. Calls("session", "schedule") /\ Then("session", <<>>)
      BY <2>2 DEF Schedule, Return
    <3>2. Carries("session") => Carries("session")'
      BY <3>1, <1>1, CarriesThen, CallSequences
    <3> QED
      BY <3>2, <1>1, <1>2, <1>3, NewestKeptStep DEF NewestKept
  <2>3. CASE Suggest
    <3>1. Calls("session", "suggest") /\ \E calls \in Seq(CallNames) : Then("session", calls)
      BY <2>3, CallSequences DEF Suggest
    <3>2. Carries("session") => Carries("session")'
      BY <3>1, <1>1, CarriesThen
    <3> QED
      BY <3>2, <1>1, <1>2, <1>3, NewestKeptStep DEF NewestKept
  <2>4. CASE CleanJob
    <3>1. Calls("session", "clean") /\ Then("session", <<>>)
      BY <2>4 DEF CleanJob
    <3>2. Carries("session") => Carries("session")'
      BY <3>1, <1>1, CarriesThen, CallSequences
    <3> QED
      BY <3>2, <1>1, <1>2, <1>3, NewestKeptStep DEF NewestKept
  <2> QED
    BY <1>5, <2>1, <2>2, <2>3, <2>4
    DEF Session, SubscribeWrite, AuthorizeLock, Register, AuthorizeRegistered, AuthorizeWrite,
        ConfigureLock, ConfigureWrite, ConfigureMask, Answering
<1> QED
  BY <1>4, <1>5

LEMMA NewestCommon ==
    ASSUME TypeOK, JobsInv, StartInv, OrderInv, NewestInv, NEW t \in Threads, Common(t), ~closed'
    PROVE  NewestInv'
<1>0. ControlOK /\ TodoOK /\ Only(t)
  BY CommonJobs DEF TypeOK, JobsInv
<1>1. CASE Initial(t)
  <2>1. Calls(t, "initial") /\ \E calls \in Seq(CallNames) : Then(t, calls)
    BY <1>1, CallSequences DEF Initial
  <2>2. Carries(t) => Carries(t)'
    BY <2>1, <1>0, CarriesThen
  <2>3. curJob' = curJob /\ lastJob' = lastJob /\ jobCh' = jobCh
    BY <1>1 DEF Initial
  <2>4. initialSent' => initialSent \/ Carries(t)'
    <3> SUFFICES ASSUME initialSent', ~initialSent PROVE Waits(t, "firstJob")'
      BY DEF Carries
    <3>1. PICK calls \in Seq(CallNames) : /\ Then(t, calls)
                                        /\ \E i \in 1..Len(calls) : calls[i] = "firstJob"
      <4> DEFINE a == IF suggestDone THEN <<>> ELSE <<"difficulty">>
                 b == <<"pendingDifficulty", "pendingMask", "firstJob">>
      <4>1. a \in Seq(CallNames) /\ Len(a) \in Nat
        <5>1. <<>> \in Seq(CallNames) /\ <<"difficulty">> \in Seq(CallNames)
          BY EmptySeq DEF CallNames
        <5>2. a \in Seq(CallNames)
          BY <5>1
        <5> HIDE DEF a
        <5> QED
          BY <5>2, LenProperties
      <4>2. b \in Seq(CallNames) /\ Len(b) = 3 /\ b[3] = "firstJob"
        BY DEF CallNames
      <4> HIDE DEF a, b
      <4>3. /\ a \o b \in Seq(CallNames) /\ Len(a \o b) = Len(a) + Len(b)
            /\ \A i \in 1..Len(a) + Len(b) : (a \o b)[i] = IF i <= Len(a) THEN a[i] ELSE b[i - Len(a)]
        BY <4>1, <4>2, ConcatProperties
      <4>4. Len(a) + 3 \in 1..Len(a) + Len(b) /\ ~(Len(a) + 3 <= Len(a)) /\ (Len(a) + 3) - Len(a) = 3
        BY <4>1, <4>2
      <4>5. (a \o b)[Len(a) + 3] = "firstJob"
        BY <4>2, <4>3, <4>4
      <4>6. \E i \in 1..Len(a \o b) : (a \o b)[i] = "firstJob"
        BY <4>3, <4>4, <4>5
      <4>7. Then(t, a \o b)
        BY <1>1 DEF Initial, a, b
      <4> QED
        BY <4>3, <4>6, <4>7
    <3>2. PICK i \in 1..Len(calls) : calls[i] = "firstJob"
      BY <3>1
    <3>3. todo[t] # <<>>
      BY <1>1 DEF Initial, Calls
    <3>4. Waits(t, calls[i])'
      BY <3>1, <3>3, <1>0, ThenCalls
    <3> QED
      BY <3>2, <3>4
  <2> QED
    BY <2>2, <2>3, <2>4, <1>0, NewestKeptStep DEF NewestKept
<1>2. CASE FirstJob(t)
  <2>1. curJob' = curJob /\ lastJob' = lastJob /\ jobCh' = jobCh /\ initialSent' = initialSent
    BY <1>2 DEF FirstJob
  <2>2. curJob # 0 => Carries(t)'
    <3>1. curJob # 0 => Go(t, "lockNotify") /\ job' = [job EXCEPT ![t] = curJob]
      BY <1>2 DEF FirstJob
    <3>2. curJob # 0 => pc'[t] = "lockNotify" /\ job'[t] = curJob'
      BY <3>1, <2>1, <1>0, GoOne DEF TypeOK, DataOK
    <3> QED
      BY <3>2 DEF Carries, Announcing
  <2> QED
    BY <2>1, <2>2, <1>0, NewestKeptStep DEF NewestKept
<1>3. CASE SetDifficulty(t)
  <2>1. /\ curJob' = curJob /\ lastJob' = lastJob /\ jobCh' = jobCh /\ initialSent' = initialSent
        /\ Calls(t, "difficulty") /\ Then(t, <<>>)
    BY <1>3 DEF SetDifficulty, TellDifficulty, WriteFails, Return
  <2>2. Carries(t) => Carries(t)'
    BY <2>1, <1>0, CarriesThen, CallSequences
  <2> QED
    BY <2>1, <2>2, <1>0, NewestKeptStep DEF NewestKept
<1>4. CASE PendingDifficulty(t)
  <2>1. /\ curJob' = curJob /\ lastJob' = lastJob /\ jobCh' = jobCh /\ initialSent' = initialSent
        /\ Calls(t, "pendingDifficulty") /\ Then(t, <<>>)
    BY <1>4 DEF PendingDifficulty, TellDifficulty, WriteFails, Return
  <2>2. Carries(t) => Carries(t)'
    BY <2>1, <1>0, CarriesThen, CallSequences
  <2> QED
    BY <2>1, <2>2, <1>0, NewestKeptStep DEF NewestKept
<1>5. CASE PendingMask(t)
  <2>1. /\ curJob' = curJob /\ lastJob' = lastJob /\ jobCh' = jobCh /\ initialSent' = initialSent
        /\ Calls(t, "pendingMask") /\ Then(t, <<>>)
    BY <1>5 DEF PendingMask
  <2>2. Carries(t) => Carries(t)'
    BY <2>1, <1>0, CarriesThen, CallSequences
  <2> QED
    BY <2>1, <2>2, <1>0, NewestKeptStep DEF NewestKept
<1>6. CASE WriteMask(t) \/ Close(t) \/ Unregister(t) \/ Unsubscribe(t)
  <2>1. /\ curJob' = curJob /\ lastJob' = lastJob /\ jobCh' = jobCh /\ initialSent' = initialSent
        /\ todo' = todo /\ pc[t] \notin Announcing
    BY <1>6 DEF WriteMask, Close, Unregister, Unsubscribe, WriteFails, Announcing, Notifying
  <2>2. Carries(t) => Carries(t)'
    BY <2>1 DEF Carries, Waits
  <2> QED
    BY <2>1, <2>2, <1>0, NewestKeptStep DEF NewestKept
<1>7. CASE LockNotify(t)
  <2>1. /\ curJob' = curJob /\ lastJob' = lastJob /\ jobCh' = jobCh /\ initialSent' = initialSent
        /\ todo' = todo /\ ~closed
    BY <1>7 DEF LockNotify
  <2>2. initialSent /\ job[t] = curJob => ~Refused(job[t])
    BY <2>1 DEF Refused, StartInv, OrderInv, TypeOK, DataOK
  <2>3. ~Refused(job[t]) => Go(t, "setup") /\ job' = job
    BY <1>7 DEF LockNotify
  <2>4. initialSent /\ Carries(t) => Carries(t)'
    BY <2>1, <2>2, <2>3, <1>0, GoOne DEF Carries, Waits, Announcing, Notifying
  <2> QED
    BY <2>1, <2>4, <1>0, NewestKeptStep DEF NewestKept
<1>8. CASE Setup(t)
  <2>1. curJob' = curJob /\ lastJob' = lastJob /\ jobCh' = jobCh /\ initialSent' = initialSent
    BY <1>8 DEF Setup
  <2>2. todo' = todo /\ Go(t, "notify") /\ job' = job
    BY <1>8 DEF Setup, WriteFails
  <2>3. Carries(t) => Carries(t)'
    BY <2>1, <2>2, <1>0, GoOne DEF Carries, Waits, Announcing, Notifying
  <2> QED
    BY <2>1, <2>3, <1>0, NewestKeptStep DEF NewestKept
<1>9. CASE Notify(t)
  <2>1. /\ curJob' = curJob /\ jobCh' = jobCh /\ initialSent' = initialSent /\ todo' = todo
        /\ lastJob' = job[t] /\ pc[t] = "notify"
    BY <1>9 DEF Notify, WriteFails
  <2>2. job[t] <= curJob /\ lastJob <= job[t]
    BY <2>1 DEF OrderInv, OrderLocal, Notifying
  <2>3. lastJob = curJob => lastJob' = curJob
    BY <2>1, <2>2 DEF TypeOK, DataOK
  <2>4. Carries(t) => lastJob' = curJob \/ Carries(t)'
    BY <2>1 DEF Carries, Waits, Announcing, Notifying
  <2>5. ASSUME NEW s \in Threads \ {t}, Carries(s) PROVE Carries(s)'
    BY <2>5, <2>1, <1>0 DEF Carries, Waits, Only
  <2>6. InChannel => InChannel'
    BY <2>1 DEF InChannel
  <2> QED
    BY <2>1, <2>3, <2>4, <2>5, <2>6 DEF NewestInv
<1> QED
  BY <1>1, <1>2, <1>3, <1>4, <1>5, <1>6, <1>7, <1>8, <1>9 DEF Common

LEMMA NewestOthers ==
    ASSUME TypeOK, JobsInv, NewestInv,
           \/ Receive \/ TimerFires \/ NotifyAgain \/ SessionEnds \/ Disconnect
           \/ \E j \in 1..lastJob : ShareAccepted(j)
           \/ Publish
    PROVE  NewestInv'
<1>0. /\ ControlOK /\ TodoOK /\ "listener" \in Threads /\ "share" \in Threads /\ "admin" \in Threads
      /\ "timer" \in Threads /\ "session" \in Threads
  BY DEF TypeOK, Threads, JobsInv
<1>1. CASE Receive
  <2>1. jobCh \in Seq(1..MaxJobs) /\ jobCh # <<>>
    BY <1>1 DEF Receive, TypeOK, DataOK
  <2>2. /\ Head(jobCh) = jobCh[1] /\ Len(jobCh) \in Nat /\ Len(jobCh) # 0 /\ Len(Tail(jobCh)) = Len(jobCh) - 1
        /\ \A i \in 1..Len(Tail(jobCh)) : Tail(jobCh)[i] = jobCh[i + 1]
    BY <2>1, HeadTailProperties, LenProperties, EmptySeq
  <2>3. /\ job'["listener"] = Head(jobCh) /\ pc'["listener"] = "lockNotify"
        /\ \A s \in Threads \ {"listener"} : job'[s] = job[s] /\ pc'[s] = pc[s]
    BY <1>0, <1>1, GoOne DEF Receive, TypeOK, DataOK
  <2>4. /\ lastJob' = lastJob /\ curJob' = curJob /\ todo' = todo /\ initialSent' = initialSent
        /\ jobCh' = Tail(jobCh) /\ pc["listener"] = "idle"
    BY <1>1 DEF Receive, Idle
  <2>5. \A s \in Threads : Carries(s) => Carries(s)'
    BY <2>3, <2>4 DEF Carries, Waits, Announcing, Notifying
  <2>6. InChannel => InChannel' \/ Carries("listener")'
    <3>1. CASE Len(jobCh) = 1
      BY <3>1, <2>2, <2>3, <2>4 DEF InChannel, Carries, Announcing
    <3>2. CASE Len(jobCh) # 1
      <4>1. Tail(jobCh) # <<>> /\ Tail(jobCh)[Len(Tail(jobCh))] = jobCh[Len(jobCh)]
        BY <3>2, <2>2
      <4> QED
        BY <4>1, <2>4 DEF InChannel
    <3> QED
      BY <3>1, <3>2
  <2> QED
    BY <1>0, <2>4, <2>5, <2>6 DEF NewestInv
<1>2. CASE Publish
  <2>1. PICK kept \in Seq(1..MaxJobs) : jobCh' = Append(kept, curJob + 1)
    <3>1. jobCh \in Seq(1..MaxJobs) /\ (Len(jobCh) = ChanCap => jobCh # <<>>)
      BY BoundsAssumption DEF TypeOK, DataOK
    <3>2. jobCh # <<>> => Tail(jobCh) \in Seq(1..MaxJobs)
      BY <3>1, HeadTailProperties
    <3> QED
      BY <1>2, <3>1, <3>2 DEF Publish
  <2>2. curJob + 1 \in 1..MaxJobs
    BY <1>2, BoundsAssumption DEF Publish, TypeOK, DataOK
  <2>3. Len(jobCh') = Len(kept) + 1 /\ jobCh'[Len(kept) + 1] = curJob + 1 /\ Len(kept) \in Nat
    BY <2>1, <2>2, AppendProperties, LenProperties
  <2>4. jobCh' # <<>>
    BY <2>3
  <2>5. InChannel'
    BY <1>2, <2>3, <2>4 DEF InChannel, Publish
  <2> QED
    BY <2>5 DEF NewestInv
<1>3. CASE \E j \in 1..lastJob : ShareAccepted(j)
  <2>1. PICK j \in 1..lastJob : ShareAccepted(j)
    BY <1>3
  <2>2. /\ todo["share"] = <<>> /\ pc["share"] \notin Announcing
        /\ \A s \in Threads \ {"share"} : job'[s] = job[s] /\ pc'[s] = pc[s] /\ todo'[s] = todo[s]
    BY <1>0, <2>1 DEF ShareAccepted, Idle, Announcing, Notifying, TypeOK, DataOK, TodoOK
  <2>3. \A s \in Threads : Carries(s) => Carries(s)'
    BY <1>0, <2>1, <2>2, CarriesNothing DEF Carries, Waits, ShareAccepted
  <2> QED
    BY <2>1, <2>3 DEF ShareAccepted, NewestInv, InChannel
<1>4. CASE TimerFires
  BY <1>4 DEF TimerFires, NewestInv
<1>5. CASE NotifyAgain
  <2>1. Calls("share", "notifyAgain") /\ Then("share", <<>>) /\ job' = job
    BY <1>5 DEF NotifyAgain
  <2>2. Carries("share") => Carries("share")'
    BY <2>1, <1>0, CarriesThen, CallSequences
  <2>3. todo["share"] # <<>>
    BY <2>1 DEF Calls
  <2>4. \A s \in Threads \ {"share"} : pc'[s] = pc[s] /\ todo'[s] = todo[s]
    BY <1>5, <1>0, <2>1, GoOne DEF NotifyAgain, Then, TodoOK
  <2>5. \A s \in Threads : Carries(s) => Carries(s)'
    BY <1>5, <2>1, <2>2, <2>4 DEF Carries, Waits, NotifyAgain
  <2> QED
    BY <1>5, <2>5 DEF NotifyAgain, NewestInv, InChannel
<1>6. CASE SessionEnds \/ Disconnect
  <2>1. PICK t \in Threads : Idle(t) /\ Go(t, "close")
    BY <1>6, <1>0 DEF SessionEnds, Disconnect
  <2>2. UNCHANGED <<todo, job, curJob, lastJob, jobCh, initialSent>>
    BY <1>6 DEF SessionEnds, Disconnect
  <2>3. \A s \in Threads : Carries(s) => Carries(s)'
    BY <2>1, <2>2, <1>0, GoOne, CarriesNothing DEF Carries, Waits, Idle, Announcing, Notifying
  <2> QED
    BY <2>2, <2>3 DEF NewestInv, InChannel
<1> QED
  BY <1>1, <1>2, <1>3, <1>4, <1>5, <1>6

LEMMA NewestStep ==
    ASSUME Inv, JobsInv, StartInv, OrderInv, NewestInv, Next, ~closed'
    PROVE  NewestInv'
  BY NewestRequests, NewestSession, NewestCommon, NewestOthers DEF Inv, Next

\* A step of t that tells no job and takes no difficulty off that it does not tell.
Tells(t) == Waits(t, "difficulty")
DifficultyKept(t) ==
    /\ Only(t)
    /\ lastJob' = lastJob
    /\ initialSent' \/ suggestDone' => initialSent \/ suggestDone \/ Tells(t)'
    /\ told.difficulty => told'.difficulty
    /\ pendingDifficulty' => pendingDifficulty
    /\ pendingDifficulty => pendingDifficulty' \/ told'.difficulty
    /\ Tells(t) => Tells(t)' \/ told'.difficulty
    /\ pc'[t] = "notify" => ~pendingDifficulty'

LEMMA DifficultyKeptStep ==
    ASSUME DifficultyInv, NEW t \in Threads, DifficultyKept(t)
    PROVE  DifficultyInv'
<1>1. ASSUME NEW s \in Threads \ {t}, Tells(s)
      PROVE  Tells(s)'
  BY <1>1 DEF Tells, Waits, DifficultyKept, Only
<1>2. pendingDifficulty' => lastJob' = 0 /\ \A s \in Threads : pc'[s] # "notify"
  BY DEF DifficultyInv, DifficultyKept, Only
<1>3. initialSent' \/ suggestDone' =>
          told'.difficulty \/ pendingDifficulty' \/ \E s \in Threads : Tells(s)'
  <2>1. CASE Tells(t)'
    BY <2>1
  <2>2. CASE ~Tells(t)'
    BY <2>2, <1>1 DEF DifficultyInv, DifficultyKept, Tells
  <2> QED
    BY <2>1, <2>2
<1> QED
  BY <1>2, <1>3 DEF DifficultyInv, Tells

\* A call for something else leaves the difficulty to be told.
LEMMA TellsThen ==
    ASSUME TodoOK, NEW t \in Threads, NEW c, Calls(t, c), c # "difficulty",
           NEW calls \in Seq(CallNames), Then(t, calls), Tells(t)
    PROVE  Tells(t)'
<1>1. todo[t] # <<>> /\ Head(todo[t]) = c
  BY DEF Calls
<1>2. Waits(t, "difficulty")'
  BY <1>1, ThenCalls DEF Tells
<1> QED
  BY <1>2 DEF Tells

\* A call that tells a difficulty first.
LEMMA TellsFirst ==
    ASSUME TodoOK, NEW t \in Threads, todo[t] # <<>>, NEW calls \in Seq(CallNames), Then(t, calls),
           NEW i \in 1..Len(calls), calls[i] = "difficulty"
    PROVE  Tells(t)'
<1>1. Waits(t, calls[i])'
  BY ThenCalls
<1> QED
  BY <1>1 DEF Tells

LEMMA DifficultyRequests ==
    ASSUME TypeOK, JobsInv, DifficultyInv, Requests
    PROVE  DifficultyInv'
<1> USE SessionIsThread
<1>1. Only("session") /\ ControlOK
  BY RequestJobs DEF TypeOK
<1>2. ~Tells("session")
  BY DEF Requests, Subscribe, AuthorizeRefused, SuggestDifficulty, Authorize, Configure, Reads, Idle,
     Tells, Waits
<1>3. UNCHANGED <<lastJob, initialSent, suggestDone, told, pendingDifficulty>>
  BY DEF Requests, Subscribe, AuthorizeRefused, SuggestDifficulty, Authorize, Configure
<1>4. pc["session"] = "idle" /\ (pc' = pc \/ \E l : Go("session", l) /\ l # "notify")
  BY DEF Requests, Subscribe, AuthorizeRefused, SuggestDifficulty, Authorize, Configure, Reads, Idle
<1>5. pc'["session"] # "notify"
  BY <1>1, <1>4, GoOne
<1> QED
  BY <1>1, <1>2, <1>3, <1>5, DifficultyKeptStep DEF DifficultyKept

LEMMA DifficultySession ==
    ASSUME Inv, JobsInv, DifficultyInv, Session, ~closed'
    PROVE  DifficultyInv'
<1> USE SessionIsThread
<1>1. Only("session") /\ TodoOK /\ ControlOK /\ ToldOK
  BY SessionJobs DEF Inv, JobsInv, TypeOK
<1>2. lastJob' = lastJob /\ initialSent' = initialSent /\ pendingDifficulty' = pendingDifficulty
  BY DEF Session, SubscribeWrite, AuthorizeLock, Register, AuthorizeRegistered, AuthorizeWrite,
     ConfigureLock, ConfigureWrite, ConfigureMask, Listen, Schedule, Suggest, CleanJob
<1>3. told'.difficulty = told.difficulty
  <2>1. \/ told' = told
        \/ \E x : told' = [told EXCEPT !.mask = x]
        \/ \E x : told' = [told EXCEPT !.subscribed = x]
        \/ \E x : told' = [told EXCEPT !.worker = x]
    BY DEF Session, SubscribeWrite, AuthorizeLock, Register, AuthorizeRegistered, AuthorizeWrite,
       ConfigureLock, ConfigureWrite, ConfigureMask, Listen, Schedule, Suggest, CleanJob, WriteFails
  <2>2. CASE \E x : told' = [told EXCEPT !.mask = x]
    BY <2>2, <1>1, ToldAnswers
  <2>3. CASE \E x : told' = [told EXCEPT !.subscribed = x]
    BY <2>3, <1>1, ToldAnswers
  <2>4. CASE \E x : told' = [told EXCEPT !.worker = x]
    BY <2>4, <1>1, ToldAnswers
  <2> QED
    BY <2>1, <2>2, <2>3, <2>4
<1>4. pc["session"] # "notify" /\ (pc' = pc \/ \E l : Go("session", l) /\ l # "notify")
  BY DEF Session, SubscribeWrite, AuthorizeLock, Register, AuthorizeRegistered, AuthorizeWrite,
     ConfigureLock, ConfigureWrite, ConfigureMask, Listen, Schedule, Suggest, CleanJob, Calls,
     PublishIdentity, AuthorizeCheck, WriteFails, Run, Return
<1>5. pc'["session"] # "notify"
  BY <1>1, <1>4, GoOne
<1>6. CASE pc["session"] \in Answering
  <2>1. ~Tells("session")
    BY <1>6 DEF JobsInv, JobsLocal, Tells, Waits
  <2>2. suggestDone' = suggestDone
    BY <1>6 DEF Session, SubscribeWrite, AuthorizeLock, Register, AuthorizeRegistered, AuthorizeWrite,
       ConfigureLock, ConfigureWrite, ConfigureMask, Listen, Schedule, Suggest, CleanJob, Calls, Answering
  <2> QED
    BY <1>1, <1>2, <1>3, <1>5, <2>1, <2>2, DifficultyKeptStep DEF DifficultyKept
<1>7. CASE Suggest
  <2>1. Calls("session", "suggest") /\ todo["session"] # <<>>
    BY <1>7 DEF Suggest, Calls
  <2>2. PICK calls \in Seq(CallNames) :
           Then("session", calls) /\ (~suggestDone => calls = <<"difficulty", "initial", "clean">>)
    BY <1>7, CallSequences DEF Suggest
  <2>3. Tells("session") => Tells("session")'
    BY <2>1, <2>2, <1>1, TellsThen
  <2>4. ~suggestDone => Tells("session")'
    <3> SUFFICES ASSUME ~suggestDone PROVE Tells("session")'
      OBVIOUS
    <3>1. 1 \in 1..Len(calls) /\ calls[1] = "difficulty"
      BY <2>2
    <3> QED
      BY <3>1, <2>1, <2>2, <1>1, TellsFirst
  <2> QED
    BY <1>1, <1>2, <1>3, <1>5, <2>3, <2>4, DifficultyKeptStep DEF DifficultyKept
<1>8. CASE Listen \/ Schedule \/ CleanJob
  <2>1. PICK c : Calls("session", c) /\ c # "difficulty" /\ Then("session", <<>>)
    BY <1>8 DEF Listen, Schedule, CleanJob, Return, Inv, CleanInv
  <2>2. Tells("session") => Tells("session")'
    BY <2>1, <1>1, TellsThen, CallSequences
  <2>3. suggestDone' = suggestDone
    BY <1>8 DEF Listen, Schedule, CleanJob
  <2> QED
    BY <1>1, <1>2, <1>3, <1>5, <2>2, <2>3, DifficultyKeptStep DEF DifficultyKept
<1> QED
  BY <1>6, <1>7, <1>8
  DEF Session, SubscribeWrite, AuthorizeLock, Register, AuthorizeRegistered, AuthorizeWrite,
      ConfigureLock, ConfigureWrite, ConfigureMask, Answering

LEMMA DifficultyCommon ==
    ASSUME TypeOK, JobsInv, OrderInv, DifficultyInv, NEW t \in Threads, Common(t), ~closed'
    PROVE  DifficultyInv'
<1>0. ControlOK /\ TodoOK /\ Only(t) /\ ToldOK
  BY CommonJobs DEF TypeOK, JobsInv
<1>1. CASE Initial(t)
  <2>1. Calls(t, "initial") /\ \E calls \in Seq(CallNames) : Then(t, calls)
    BY <1>1, CallSequences DEF Initial
  <2>2. Tells(t) => Tells(t)'
    BY <2>1, <1>0, TellsThen
  <2>3. /\ lastJob' = lastJob /\ told' = told /\ pendingDifficulty' = pendingDifficulty
        /\ suggestDone' = suggestDone /\ pc' = pc /\ pc[t] = "idle" /\ todo[t] # <<>>
    BY <1>1 DEF Initial, Calls
  <2>4. initialSent' => initialSent \/ suggestDone \/ Tells(t)'
    <3> SUFFICES ASSUME initialSent', ~initialSent, ~suggestDone PROVE Tells(t)'
      OBVIOUS
    <3> DEFINE calls == <<"difficulty">> \o <<"pendingDifficulty", "pendingMask", "firstJob">>
    <3>1. Then(t, calls)
      BY <1>1 DEF Initial
    <3>2. calls \in Seq(CallNames) /\ Len(calls) = 4 /\ calls[1] = "difficulty"
      <4> DEFINE a == <<"difficulty">>
                 b == <<"pendingDifficulty", "pendingMask", "firstJob">>
      <4>1. a \in Seq(CallNames) /\ Len(a) = 1 /\ a[1] = "difficulty" /\ b \in Seq(CallNames) /\ Len(b) = 3
        BY DEF CallNames
      <4> HIDE DEF a, b
      <4>2. a \o b \in Seq(CallNames) /\ Len(a \o b) = 4 /\ (a \o b)[1] = a[1]
        <5>1. /\ a \o b \in Seq(CallNames) /\ Len(a \o b) = Len(a) + Len(b)
              /\ \A i \in 1..Len(a) + Len(b) :
                   (a \o b)[i] = IF i <= Len(a) THEN a[i] ELSE b[i - Len(a)]
          BY <4>1, ConcatProperties
        <5>2. 1 \in 1..Len(a) + Len(b) /\ 1 <= Len(a) /\ Len(a) + Len(b) = 4
          BY <4>1
        <5> QED
          BY <5>1, <5>2
      <4> QED
        BY <4>1, <4>2 DEF a, b
    <3>3. 1 \in 1..Len(calls)
      BY <3>2
    <3> HIDE DEF calls
    <3> QED
      BY <3>1, <3>2, <3>3, <2>3, <1>0, TellsFirst
  <2> QED
    BY <2>2, <2>3, <2>4, <1>0, DifficultyKeptStep DEF DifficultyKept
<1>2. CASE FirstJob(t) \/ PendingMask(t)
  <2>1. PICK c : Calls(t, c) /\ c # "difficulty" /\ Then(t, <<>>)
    BY <1>2 DEF FirstJob, PendingMask
  <2>2. Tells(t) => Tells(t)'
    BY <2>1, <1>0, TellsThen, CallSequences
  <2>3. UNCHANGED <<lastJob, initialSent, suggestDone, told, pendingDifficulty>>
    BY <1>2 DEF FirstJob, PendingMask
  <2>4. pc[t] = "idle" /\ (pc' = pc \/ \E l : Go(t, l) /\ l # "notify")
    BY <1>2 DEF FirstJob, PendingMask, Calls
  <2>5. pc'[t] # "notify"
    BY <1>0, <2>4, GoOne
  <2> QED
    BY <2>2, <2>3, <2>5, <1>0, DifficultyKeptStep DEF DifficultyKept
<1>3. CASE SetDifficulty(t)
  <2>0. UNCHANGED <<lastJob, initialSent, suggestDone>> /\ ~closed /\ pc' = pc /\ pc[t] = "idle"
    BY <1>3 DEF SetDifficulty, TellDifficulty, WriteFails, Return, Calls
  <2>1. CASE subscribed
    <3>1. pendingDifficulty' = FALSE /\ told' = [told EXCEPT !.difficulty = TRUE]
      BY <1>3, <2>0, <2>1 DEF SetDifficulty, TellDifficulty, WriteFails
    <3>2. told'.difficulty
      BY <3>1, <1>0, ToldAnswers
    <3> QED
      BY <3>1, <3>2, <2>0, <1>0, DifficultyKeptStep DEF DifficultyKept
  <2>2. CASE ~subscribed
    <3>1. pendingDifficulty'
      BY <1>3, <2>2 DEF SetDifficulty
    <3>2. lastJob = 0 /\ \A s \in Threads : pc[s] # "notify"
      BY <2>2 DEF OrderInv, OrderLocal, Notifying
    <3> QED
      BY <3>1, <3>2, <2>0 DEF DifficultyInv
  <2> QED
    BY <2>1, <2>2
<1>4. CASE PendingDifficulty(t)
  <2>0. /\ UNCHANGED <<lastJob, initialSent, suggestDone>> /\ ~closed /\ pc' = pc /\ pc[t] = "idle"
        /\ Calls(t, "pendingDifficulty") /\ Then(t, <<>>)
    BY <1>4 DEF PendingDifficulty, TellDifficulty, WriteFails, Return, Calls
  <2>1. Tells(t) => Tells(t)'
    BY <2>0, <1>0, TellsThen, CallSequences
  <2>2. CASE pendingDifficulty
    <3>1. pendingDifficulty' = FALSE /\ told' = [told EXCEPT !.difficulty = TRUE]
      BY <1>4, <2>0, <2>2 DEF PendingDifficulty, TellDifficulty, WriteFails
    <3>2. told'.difficulty
      BY <3>1, <1>0, ToldAnswers
    <3> QED
      BY <3>1, <3>2, <2>0, <2>1, <1>0, DifficultyKeptStep DEF DifficultyKept
  <2>3. CASE ~pendingDifficulty
    <3>1. pendingDifficulty' = pendingDifficulty /\ told' = told
      BY <1>4, <2>0, <2>3 DEF PendingDifficulty
    <3> QED
      BY <3>1, <2>0, <2>1, <1>0, DifficultyKeptStep DEF DifficultyKept
  <2> QED
    BY <2>2, <2>3
<1>5. CASE WriteMask(t) \/ Close(t) \/ Unregister(t) \/ Unsubscribe(t) \/ LockNotify(t)
  <2>1. UNCHANGED <<todo, lastJob, initialSent, suggestDone, pendingDifficulty>>
    BY <1>5 DEF WriteMask, Close, Unregister, Unsubscribe, LockNotify, WriteFails
  <2>2. told'.difficulty = told.difficulty
    <3>1. told' = told \/ \E x : told' = [told EXCEPT !.mask = x]
      BY <1>5 DEF WriteMask, Close, Unregister, Unsubscribe, LockNotify, WriteFails
    <3>2. CASE \E x : told' = [told EXCEPT !.mask = x]
      BY <3>2, <1>0, ToldAnswers
    <3> QED
      BY <3>1, <3>2
  <2>3. \E l : Go(t, l) /\ l # "notify"
    BY <1>5 DEF WriteMask, Close, Unregister, Unsubscribe, LockNotify, WriteFails
  <2>4. pc'[t] # "notify"
    BY <1>0, <2>3, GoOne
  <2> QED
    BY <2>1, <2>2, <2>4, <1>0, DifficultyKeptStep DEF DifficultyKept, Tells, Waits
<1>6. CASE Setup(t)
  <2>1. UNCHANGED <<todo, lastJob, initialSent, suggestDone>> /\ pendingDifficulty' = FALSE
    BY <1>6 DEF Setup, WriteFails
  <2>2. PICK x, y : /\ told' = [told EXCEPT !.mask = x, !.difficulty = y]
                    /\ told.difficulty \/ pendingDifficulty => y
    <3> DEFINE m == JobMask[job[t]]
               tellMask == versionRoll /\ (MaskChanges(m) \/ pendingMask)
    <3>1. PICK adjusted \in {FALSE, shares > 0} :
             told' = [told EXCEPT !.mask = IF tellMask THEN versionMask' ELSE @,
                                  !.difficulty = @ \/ pendingDifficulty \/ adjusted]
      BY <1>6 DEF Setup, WriteFails
    <3> QED
      BY <3>1, Zenon
  <2>3. told'.difficulty = y
    BY <2>2, <1>0, ToldAnswers
  <2> QED
    BY <2>1, <2>2, <2>3, <1>0, DifficultyKeptStep DEF DifficultyKept, Tells, Waits
<1>7. CASE Notify(t)
  <2>1. /\ UNCHANGED <<todo, initialSent, suggestDone, pendingDifficulty, told>> /\ pc[t] = "notify"
        /\ Go(t, "idle")
    BY <1>7 DEF Notify, WriteFails
  <2>2. ~pendingDifficulty
    BY <2>1 DEF DifficultyInv
  <2> QED
    BY <2>1, <2>2 DEF DifficultyInv, Waits
<1> QED
  BY <1>1, <1>2, <1>3, <1>4, <1>5, <1>6, <1>7 DEF Common

LEMMA DifficultyOthers ==
    ASSUME TypeOK, JobsInv, DifficultyInv, TimerInv,
           \/ Receive \/ TimerFires \/ NotifyAgain \/ SessionEnds \/ Disconnect
           \/ \E j \in 1..lastJob : ShareAccepted(j)
           \/ Publish
    PROVE  DifficultyInv'
<1>0. /\ ControlOK /\ TodoOK /\ "listener" \in Threads /\ "share" \in Threads /\ "admin" \in Threads
      /\ "timer" \in Threads /\ "session" \in Threads
  BY DEF TypeOK, Threads, JobsInv
<1>1. UNCHANGED <<lastJob, initialSent, suggestDone, told, pendingDifficulty>>
  BY DEF Receive, TimerFires, NotifyAgain, SessionEnds, Disconnect, ShareAccepted, Publish
<1>2. \A s \in Threads : pc'[s] = "notify" => pc[s] = "notify"
  <2>1. pc' = pc \/ \E s \in Threads : \E l : Go(s, l) /\ l # "notify"
    BY <1>0 DEF Receive, TimerFires, NotifyAgain, SessionEnds, Disconnect, ShareAccepted, Publish
  <2> QED
    BY <2>1, <1>0, GoOne
<1>3. \A s \in Threads : Tells(s) => Tells(s)'
  <2>1. CASE Receive \/ SessionEnds \/ Disconnect \/ Publish
    BY <2>1 DEF Receive, SessionEnds, Disconnect, Publish, Tells, Waits
  <2>2. CASE TimerFires
    <3>1. todo["timer"] = <<>> /\ \A s \in Threads \ {"timer"} : todo'[s] = todo[s]
      BY <2>2, <1>0 DEF TimerFires, TimerInv, TodoOK
    <3> QED
      BY <3>1 DEF Tells, Waits
  <2>3. CASE \E j \in 1..lastJob : ShareAccepted(j)
    <3>1. todo["share"] = <<>> /\ \A s \in Threads \ {"share"} : todo'[s] = todo[s]
      BY <2>3, <1>0 DEF ShareAccepted, Idle, TodoOK
    <3> QED
      BY <3>1 DEF Tells, Waits
  <2>4. CASE NotifyAgain
    <3>1. Calls("share", "notifyAgain") /\ Then("share", <<>>)
      BY <2>4 DEF NotifyAgain
    <3>2. Tells("share") => Tells("share")'
      BY <3>1, <1>0, TellsThen, CallSequences
    <3>3. \A s \in Threads \ {"share"} : todo'[s] = todo[s]
      BY <3>1, <1>0 DEF Then, TodoOK
    <3> QED
      BY <3>2, <3>3 DEF Tells, Waits
  <2> QED
    BY <2>1, <2>2, <2>3, <2>4
<1> QED
  BY <1>1, <1>2, <1>3 DEF DifficultyInv, Tells

LEMMA DifficultyStep ==
    ASSUME Inv, JobsInv, OrderInv, DifficultyInv, TimerInv, Next, ~closed'
    PROVE  DifficultyInv'
  BY DifficultyRequests, DifficultySession, DifficultyCommon, DifficultyOthers DEF Inv, Next

LEMMA TimerStep ==
    ASSUME TypeOK, JobsInv, TimerInv, Next
    PROVE  TimerInv'
<1>0. "timer" \in Threads /\ TodoOK /\ SessionIsThread
  BY SessionIsThread DEF Threads, JobsInv
<1>1. CASE Requests \/ Session
  <2>1. todo'["timer"] = todo["timer"]
    BY <1>0, <1>1, RequestJobs, SessionJobs, SessionIsThread DEF Only
  <2>2. scheduled = "fired" => scheduled' = "fired"
    BY <1>1 DEF Requests, Subscribe, AuthorizeRefused, SuggestDifficulty, Authorize, Configure,
       Session, SubscribeWrite, AuthorizeLock, Register, AuthorizeRegistered, AuthorizeWrite,
       ConfigureLock, ConfigureWrite, ConfigureMask, Listen, Schedule, Suggest, CleanJob
  <2> QED
    BY <2>1, <2>2 DEF TimerInv
<1>2. ASSUME NEW t \in Threads, Common(t) PROVE TimerInv'
  <2>1. scheduled' = scheduled
    BY <1>2 DEF Common, Initial, FirstJob, SetDifficulty, PendingDifficulty, PendingMask, WriteMask,
       LockNotify, Setup, Notify, Close, Unregister, Unsubscribe
  <2>2. CASE t # "timer"
    BY <2>1, <2>2, <1>0, <1>2, CommonJobs DEF Only, TimerInv
  <2>3. CASE t = "timer"
    <3>1. \/ todo' = todo \/ todo' = [todo EXCEPT ![t] = <<>>] \/ \E c : Calls(t, c)
      BY <1>2 DEF Common, Initial, FirstJob, SetDifficulty, PendingDifficulty, PendingMask, WriteMask,
         LockNotify, Setup, Notify, Close, Unregister, Unsubscribe, WriteFails
    <3> QED
      BY <3>1, <2>1, <2>3, <1>0 DEF TimerInv, Calls, TodoOK
  <2> QED
    BY <2>2, <2>3
<1>3. CASE Receive \/ SessionEnds \/ Disconnect \/ Publish
  BY <1>3 DEF Receive, SessionEnds, Disconnect, Publish, TimerInv
<1>4. CASE TimerFires
  BY <1>4 DEF TimerFires, TimerInv
<1>5. CASE NotifyAgain \/ \E j \in 1..lastJob : ShareAccepted(j)
  BY <1>5, <1>0 DEF NotifyAgain, ShareAccepted, Then, TimerInv, TodoOK, Threads
<1> QED
  BY <1>1, <1>2, <1>3, <1>4, <1>5 DEF Next

\* Every step keeps a miner served, or closes its session.
LEMMA ServeStep ==
    ASSUME Inv, JobsInv, ServeInv, [Next]_vars
    PROVE  ServeInv'
<1>1. CASE closed'
  BY <1>1 DEF ServeInv
<1>2. CASE ~closed' /\ UNCHANGED vars
  <2>1. HandshakeInv' = HandshakeInv /\ StartInv' = StartInv /\ TimerInv' = TimerInv
    BY <1>2 DEF vars, HandshakeInv, StartInv, ToStart, Waits, TimerInv
  <2>2. OrderInv' = OrderInv /\ DifficultyInv' = DifficultyInv
    BY <1>2 DEF vars, OrderInv, OrderLocal, DifficultyInv, Waits
  <2>3. NewestInv' = NewestInv
    BY <1>2 DEF vars, NewestInv, Carries, Waits, InChannel
  <2> QED
    BY <1>2, <2>1, <2>2, <2>3 DEF ServeInv, vars
<1>3. CASE ~closed' /\ Next
  <2>1. ~closed
    BY <1>3, ClosedStays
  <2>2. TypeOK /\ HandshakeInv /\ StartInv /\ OrderInv /\ NewestInv /\ DifficultyInv /\ TimerInv
    BY <2>1 DEF ServeInv, Inv
  <2> QED
    BY <1>3, <2>2, HandshakeStep, StartStep, OrderStep, NewestStep, DifficultyStep, TimerStep DEF ServeInv
<1> QED
  BY <1>1, <1>2, <1>3

LEMMA ServeInit == Init => ServeInv
<1> SUFFICES ASSUME Init PROVE HandshakeInv /\ StartInv /\ OrderInv /\ NewestInv /\ DifficultyInv /\ TimerInv
  BY DEF ServeInv
<1>1. HandshakeInv /\ StartInv /\ TimerInv
  BY SessionIsThread DEF Init, HandshakeInv, StartInv, TimerInv, Threads
<1>2. OrderInv /\ NewestInv /\ DifficultyInv
  BY DEF Init, OrderInv, OrderLocal, NewestInv, DifficultyInv, Notifying
<1> QED
  BY <1>1, <1>2

\* A miner that subscribed and authorized works on the newest job and was told a
\* difficulty when no goroutine has anything left to do (miner_auth.go:173-199,
\* 433-464, miner_conn.go:487-607).
THEOREM MinersAreServed == Spec => []MinerServed
<1> DEFINE SInv == Inv /\ JobsInv /\ ServeInv
<1>1. Init => SInv
  BY InitInv, JobsInit, ServeInit
<1>2. SInv /\ [Next]_vars => SInv'
  BY NextInv, JobsStep, ServeStep DEF Inv
<1>3. SInv => MinerServed
  <2> SUFFICES ASSUME SInv, Quiet, told.subscribed, told.worker # None, curJob # 0
               PROVE  work.job = curJob /\ told.difficulty
    BY DEF MinerServed
  <2>1. HandshakeInv /\ StartInv /\ OrderInv /\ NewestInv /\ DifficultyInv
    BY DEF Quiet, ServeInv
  <2>2. /\ \A t \in Threads : pc[t] = "idle" /\ \A c : ~Waits(t, c)
        /\ listenerOn => jobCh = <<>>
    BY DEF Quiet, Idle, Waits
  <2>3. initialSent /\ listenerOn
    BY <2>1, <2>2, SessionIsThread DEF HandshakeInv, StartInv, ToStart
  <2>4. \A t \in Threads : ~Carries(t)
    BY <2>2 DEF Carries, Announcing, Notifying
  <2>5. lastJob = curJob
    BY <2>1, <2>2, <2>3, <2>4 DEF NewestInv, InChannel
  <2> QED
    BY <2>1, <2>2, <2>3, <2>5 DEF OrderInv, DifficultyInv
<1> QED
  BY <1>1, <1>2, <1>3, PTL DEF Spec
================================================================================
