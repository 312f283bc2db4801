-------------------------- MODULE JobDispatch_proofs --------------------------
(***************************************************************************)
(* Proofs about JobDispatch, for every set of connections, every capacity  *)
(* of the queue and of the channels, and every number of jobs: types, the  *)
(* order of a V1 miner's work (the refinement of WorkFeed), clean jobs at  *)
(* a header change and, as long as no synchronous broadcast overtakes the  *)
(* queue, that the newest job is not lost on its way.  At the end, proofs  *)
(* about MiningWork, its composition with JobFeed.                         *)
(***************************************************************************)
EXTENDS MiningWork, SequenceTheorems, TLAPS

Final(s) == s[Len(s)]

\* What a bounded queue holds after a job is added.
LEMMA Added ==
    ASSUME NEW S, NEW s \in Seq(S), NEW e \in S
    PROVE  /\ Append(s, e) \in Seq(S) /\ Append(s, e) # <<>>
           /\ Len(Append(s, e)) = Len(s) + 1 /\ Len(s) \in Nat
           /\ Final(Append(s, e)) = e
           /\ Elements(Append(s, e)) = Elements(s) \cup {e}
<1>1. /\ Append(s, e) \in Seq(S) /\ Append(s, e) # <<>>
      /\ Len(Append(s, e)) = Len(s) + 1 /\ Len(s) \in Nat
      /\ \A i \in 1 .. Len(s) : Append(s, e)[i] = s[i]
      /\ Append(s, e)[Len(s) + 1] = e
  BY AppendProperties, LenProperties
<1>2. DOMAIN Append(s, e) = 1 .. Len(s) + 1 /\ DOMAIN s = 1 .. Len(s)
  BY <1>1, LenProperties
<1>3. DOMAIN Append(s, e) = DOMAIN s \cup {Len(s) + 1}
  BY <1>1, <1>2
<1>4. Elements(Append(s, e)) = Elements(s) \cup {e}
  BY <1>1, <1>2, <1>3 DEF Elements
<1> QED
  BY <1>1, <1>4 DEF Final

\* What it holds after its first job is taken.
LEMMA Taken ==
    ASSUME NEW S, NEW s \in Seq(S), s # <<>>
    PROVE  /\ Tail(s) \in Seq(S) /\ Head(s) \in S
           /\ Len(Tail(s)) = Len(s) - 1 /\ Len(s) \in Nat \ {0}
           /\ Elements(s) = {Head(s)} \cup Elements(Tail(s))
           /\ Final(s) = IF Tail(s) = <<>> THEN Head(s) ELSE Final(Tail(s))
<1>1. /\ Tail(s) \in Seq(S) /\ Head(s) \in S
      /\ Len(Tail(s)) = Len(s) - 1
      /\ \A i \in 1 .. Len(Tail(s)) : Tail(s)[i] = s[i+1]
  BY HeadTailProperties
<1>2. Len(s) \in Nat \ {0} /\ Head(s) = s[1]
  BY EmptySeq
<1>3. DOMAIN s = 1 .. Len(s) /\ DOMAIN Tail(s) = 1 .. Len(Tail(s))
  BY <1>1, LenProperties
<1>4. Elements(s) = {Head(s)} \cup Elements(Tail(s))
  <2>1. ASSUME NEW i \in 1 .. Len(s) PROVE s[i] \in {Head(s)} \cup Elements(Tail(s))
    <3>1. CASE i = 1
      BY <1>2, <3>1
    <3>2. CASE i # 1
      <4>1. i - 1 \in 1 .. Len(Tail(s)) /\ (i - 1) + 1 = i
        BY <1>1, <1>2, <3>2
      <4>2. Tail(s)[i - 1] = s[i]
        BY <1>1, <4>1
      <4> QED
        BY <1>3, <4>1, <4>2 DEF Elements
    <3> QED
      BY <3>1, <3>2
  <2>2. ASSUME NEW i \in 1 .. Len(Tail(s)) PROVE Tail(s)[i] \in Elements(s)
    <3>1. i + 1 \in 1 .. Len(s)
      BY <1>1, <1>2
    <3> QED
      BY <1>1, <1>3, <3>1 DEF Elements
  <2>3. Head(s) \in Elements(s)
    BY <1>2, <1>3 DEF Elements
  <2>4. /\ \A x \in Elements(s) : \E i \in 1 .. Len(s) : x = s[i]
        /\ \A x \in Elements(Tail(s)) : \E i \in 1 .. Len(Tail(s)) : x = Tail(s)[i]
    BY <1>3 DEF Elements
  <2> QED
    BY <2>1, <2>2, <2>3, <2>4
<1>5. CASE Tail(s) = <<>>
  <2>1. Len(Tail(s)) = 0
    BY <1>5, EmptySeq
  <2>0. Len(s) - 1 = 0
    BY <1>1, <2>1, Zenon
  <2>2. Len(s) = 1
    BY <1>2, <2>0
  <2> QED
    BY <1>1, <1>2, <1>4, <1>5, <2>2 DEF Final
<1>6. CASE Tail(s) # <<>>
  <2>1. Len(Tail(s)) \in Nat \ {0}
    BY <1>1, <1>6, EmptySeq
  <2>2. Tail(s)[Len(Tail(s))] = s[Len(Tail(s)) + 1]
    BY <1>1, <2>1
  <2>3. Len(Tail(s)) + 1 = Len(s)
    BY <1>1, <1>2
  <2> QED
    BY <1>1, <1>2, <1>4, <1>6, <2>2, <2>3 DEF Final
<1> QED
  BY <1>5, <1>6

\* What it holds after its first job, if any, made room for another.
LEMMA Replaced ==
    ASSUME NEW S, NEW s \in Seq(S), NEW e \in S, NEW cap \in Nat \ {0}, Len(s) <= cap
    PROVE  /\ Append(DropHead(s), e) \in Seq(S) /\ Append(DropHead(s), e) # <<>>
           /\ Len(Append(DropHead(s), e)) <= cap
           /\ Final(Append(DropHead(s), e)) = e
           /\ Elements(Append(DropHead(s), e)) \subseteq Elements(s) \cup {e}
           /\ e \in Elements(Append(DropHead(s), e))
<1>1. CASE s = <<>>
  <2>1. DropHead(s) = s
    BY <1>1 DEF DropHead
  <2>2. /\ Append(s, e) \in Seq(S) /\ Append(s, e) # <<>>
        /\ Len(Append(s, e)) = Len(s) + 1 /\ Final(Append(s, e)) = e
        /\ Elements(Append(s, e)) = Elements(s) \cup {e}
    BY Added
  <2>3. Len(s) = 0
    BY <1>1, EmptySeq
  <2> QED
    BY <2>1, <2>2, <2>3
<1>2. CASE s # <<>>
  <2> DEFINE t == Tail(s)
  <2>1. DropHead(s) = t
    BY <1>2 DEF DropHead
  <2>2. /\ t \in Seq(S) /\ Len(t) = Len(s) - 1 /\ Len(s) \in Nat
        /\ Elements(t) \subseteq Elements(s)
    BY <1>2, Taken
  <2> HIDE DEF t
  <2>3. /\ Append(t, e) \in Seq(S) /\ Append(t, e) # <<>>
        /\ Len(Append(t, e)) = Len(t) + 1 /\ Final(Append(t, e)) = e
        /\ Elements(Append(t, e)) = Elements(t) \cup {e}
    BY <2>2, Added
  <2> QED
    BY <2>1, <2>2, <2>3
<1> QED
  BY <1>1, <1>2

LEMMA Empty == Elements(<<>>) = {}
  BY DEF Elements

-----------------------------------------------------------------------------
(***************************************************************************)
(* Types.  What is being sent, and what is about to be published, is a     *)
(* job and not the placeholder for none.                                   *)
(***************************************************************************)
Broadcasts == [job : Jobs \cup {NoJob}, left : SUBSET Conns, full : SUBSET Conns,
               by : {"nobody", "worker", "sync"}]

RealJobs ==
    /\ sending \in Broadcasts
    /\ sending.left # {} => sending.job \in Jobs
    /\ pub # "idle" => curJob \in Jobs

TypeInv == TypeOK /\ RealJobs

LEMMA NoJobIsNone == NoJob \notin Jobs /\ NoJob.gen = 0 /\ NoJob.tip = 0
  BY DEF NoJob, Jobs

LEMMA TypeInit == Init => TypeInv
<1> SUFFICES ASSUME Init PROVE TypeInv
  OBVIOUS
<1>1. /\ <<>> \in Seq(Jobs) /\ Len(<<>>) = 0
      /\ QueueCap \in Nat /\ ChanCap \in Nat
  BY EmptySeq, CapsAssumption
<1>2. Idle \in Broadcasts /\ Idle.left = {} /\ Idle.full = {} /\ Idle.job = NoJob
      /\ Idle.by = "nobody"
  BY DEF Idle, Broadcasts
<1>3. RealJobs
  BY <1>2 DEF Init, RealJobs
<1>4. TypeOK
  BY <1>1, <1>2 DEF Init, TypeOK, ConnStates
<1> QED
  BY <1>3, <1>4 DEF TypeInv

\* Whatever template the feed comes with.
LEMMA PublishTypes ==
    ASSUME TypeInv, NEW tip \in Nat, NEW payload \in Nat, NEW sync \in BOOLEAN,
           Publish(tip, payload, sync)
    PROVE  TypeInv' /\ curJob' \in Jobs /\ curJob'.gen = curJob.gen + 1
<1>1. curJob.gen \in Nat /\ curJob.gen + 1 \in 1 .. MaxJobs
  <2>1. curJob.gen \in 0 .. MaxJobs /\ curJob.gen < MaxJobs /\ MaxJobs \in Nat
    BY CapsAssumption, NoJobIsNone DEF TypeInv, TypeOK, Publish, Jobs
  <2> QED
    BY <2>1
<1>2. curJob' = [gen |-> curJob.gen + 1, tip |-> tip, payload |-> payload,
                 clean |-> curJob = NoJob \/ tip # curJob.tip]
  BY DEF Publish
<1>3. curJob' \in Jobs /\ curJob'.gen = curJob.gen + 1
  BY <1>1, <1>2 DEF Jobs
<1>4. /\ pub' \in {"queue", "sync"}
      /\ UNCHANGED <<queue, worker, sending, conn, chan, hand, own, last, cleaned>>
  BY DEF Publish, workerVars, connVars
<1> QED
  BY <1>3, <1>4 DEF TypeInv, TypeOK, RealJobs

LEMMA EnqueueTypes == ASSUME TypeInv, Enqueue \/ Replace PROVE TypeInv'
<1>1. /\ curJob \in Jobs /\ queue \in Seq(Jobs) /\ Len(queue) \in Nat /\ Len(queue) <= QueueCap
      /\ QueueCap \in Nat \ {0}
  BY CapsAssumption, LenProperties DEF TypeInv, TypeOK, RealJobs, Enqueue, Replace
<1>2. queue' \in Seq(Jobs) /\ Len(queue') <= QueueCap
  <2>1. CASE Enqueue
    BY <1>1, <2>1, Added DEF Enqueue
  <2>2. CASE Replace
    BY <1>1, <2>2, Replaced DEF Replace
  <2> QED
    BY <2>1, <2>2
<1>3. /\ pub' \in {"idle", "drop"}
      /\ UNCHANGED <<curJob, worker, sending, conn, chan, hand, own, last, cleaned>>
  BY DEF Enqueue, Replace, connVars
<1> QED
  BY <1>1, <1>2, <1>3 DEF TypeInv, TypeOK, RealJobs

LEMMA TakeTypes == ASSUME TypeInv, WorkerTake PROVE TypeInv'
<1>1. /\ queue \in Seq(Jobs) /\ queue # <<>> /\ Len(queue) <= QueueCap
      /\ queue' = Tail(queue) /\ worker' = Head(queue)
      /\ UNCHANGED <<curJob, pub, sending, conn, chan, hand, own, last, cleaned>>
  BY DEF TypeInv, TypeOK, WorkerTake, managerVars, connVars
<1>2. /\ queue' \in Seq(Jobs) /\ worker' \in Jobs /\ Len(queue') <= QueueCap
  BY <1>1, Taken, CapsAssumption
<1> QED
  BY <1>1, <1>2 DEF TypeInv, TypeOK, RealJobs

LEMMA BroadcastTypes ==
    ASSUME TypeInv, WorkerBroadcast \/ SyncBroadcast \/ EndBroadcast
    PROVE  TypeInv'
<1>1. /\ UNCHANGED <<curJob, queue, conn, chan, hand, own, last, cleaned>>
      /\ worker' \in {worker, NoJob} /\ pub' \in {pub, "idle"}
  BY DEF WorkerBroadcast, SyncBroadcast, EndBroadcast, Broadcast, managerVars, connVars
<1>2. /\ sending' \in Broadcasts /\ sending'.full = {}
      /\ sending'.left # {} => sending'.job \in Jobs
  <2>1. ASSUME NEW job \in Jobs, NEW by \in {"worker", "sync"}, Broadcast(job, by)
        PROVE  /\ sending' \in Broadcasts /\ sending'.full = {}
               /\ sending'.left # {} => sending'.job \in Jobs
    BY <2>1 DEF Broadcast, Broadcasts, Subscribed
  <2>2. CASE WorkerBroadcast
    BY <2>1, <2>2 DEF WorkerBroadcast, TypeInv, TypeOK
  <2>3. CASE SyncBroadcast
    BY <2>1, <2>3 DEF SyncBroadcast, TypeInv, RealJobs
  <2>4. CASE EndBroadcast
    BY <2>4 DEF EndBroadcast, Idle, Broadcasts
  <2> QED
    BY <2>2, <2>3, <2>4
<1>3. sending'.job \in Jobs \cup {NoJob} /\ sending'.left \subseteq Conns
      /\ sending'.by \in {"nobody", "worker", "sync"}
  BY <1>2 DEF Broadcasts
<1>4. TypeOK'
  BY <1>1, <1>2, <1>3 DEF TypeInv, TypeOK
<1>5. RealJobs'
  BY <1>1, <1>2 DEF TypeInv, RealJobs
<1> QED
  BY <1>4, <1>5 DEF TypeInv

LEMMA SendTypes ==
    ASSUME TypeInv, NEW c \in Conns, Send(c) \/ SendDropping(c)
    PROVE  TypeInv'
<1>1. /\ c \in sending.left /\ sending.job \in Jobs /\ chan[c] \in Seq(Jobs)
      /\ Len(chan[c]) \in Nat /\ Len(chan[c]) <= ChanCap /\ ChanCap \in Nat \ {0}
  BY CapsAssumption, LenProperties DEF TypeInv, TypeOK, RealJobs, Send, SendDropping
<1>2. UNCHANGED <<curJob, pub, queue, worker, conn, hand, own, last, cleaned>>
  BY DEF Send, SendDropping, managerVars
<1>3. /\ sending' \in Broadcasts /\ sending'.job = sending.job
      /\ sending'.left \subseteq sending.left /\ sending'.full \subseteq sending'.left
  <2>1. sending \in Broadcasts /\ sending.full \subseteq sending.left
    BY DEF TypeInv, TypeOK, RealJobs
  <2>2. \/ sending' = [sending EXCEPT !.left = @ \ {c}] /\ sending.full = {}
        \/ sending' = [sending EXCEPT !.full = {c}]
        \/ sending' = [sending EXCEPT !.left = @ \ {c}, !.full = {}]
    BY DEF Send, SendDropping
  <2>3. CASE sending' = [sending EXCEPT !.left = @ \ {c}] /\ sending.full = {}
    BY <2>1, <2>3 DEF Broadcasts
  <2>4. CASE sending' = [sending EXCEPT !.full = {c}]
    BY <1>1, <2>1, <2>4 DEF Broadcasts
  <2>5. CASE sending' = [sending EXCEPT !.left = @ \ {c}, !.full = {}]
    BY <2>1, <2>5 DEF Broadcasts
  <2> QED
    BY <2>2, <2>3, <2>4, <2>5
<1>4. \E s \in Seq(Jobs) : chan' = [chan EXCEPT ![c] = s] /\ Len(s) <= ChanCap
  <2>1. CASE chan' = [chan EXCEPT ![c] = Append(@, sending.job)] /\ Len(chan[c]) < ChanCap
    <3> DEFINE s == Append(chan[c], sending.job)
    <3>1. s \in Seq(Jobs) /\ Len(s) <= ChanCap
      BY <1>1, <2>1, Added
    <3>2. chan' = [chan EXCEPT ![c] = s]
      BY <2>1
    <3> QED
      BY <3>1, <3>2
  <2>2. CASE chan' = [chan EXCEPT ![c] = Append(DropHead(@), sending.job)]
    <3> DEFINE s == Append(DropHead(chan[c]), sending.job)
    <3>1. s \in Seq(Jobs) /\ Len(s) <= ChanCap
      BY <1>1, Replaced
    <3>2. chan' = [chan EXCEPT ![c] = s]
      BY <2>2
    <3> QED
      BY <3>1, <3>2
  <2>3. CASE chan' = chan
    BY <1>1, <2>3 DEF TypeInv, TypeOK
  <2> QED
    BY <2>1, <2>2, <2>3 DEF Send, SendDropping
<1>5. /\ chan' \in [Conns -> Seq(Jobs)] /\ \A d \in Conns : Len(chan'[d]) <= ChanCap
  BY <1>4 DEF TypeInv, TypeOK
<1>6. sending'.left \subseteq Conns /\ sending'.by \in {"nobody", "worker", "sync"}
  BY <1>3 DEF Broadcasts
<1> QED
  BY <1>1, <1>2, <1>3, <1>5, <1>6 DEF TypeInv, TypeOK, RealJobs

LEMMA GiveTypes ==
    ASSUME TypeInv, NEW c \in Conns, NEW job \in Jobs, NEW force \in BOOLEAN,
           Give(c, job, force)
    PROVE  last' \in [Conns -> Jobs \cup {NoJob}] /\ cleaned' \in [Conns -> BOOLEAN]
<1>1. /\ last \in [Conns -> Jobs \cup {NoJob}] /\ cleaned \in [Conns -> BOOLEAN]
  BY DEF TypeInv, TypeOK
<1>2. CASE UNCHANGED <<last, cleaned>>
  BY <1>1, <1>2
<1>3. CASE ~ UNCHANGED <<last, cleaned>>
  <2>1. /\ last' = [last EXCEPT ![c] = job]
        /\ cleaned' = [cleaned EXCEPT ![c] = \/ force \/ job.clean \/ NeedsClean(c, job)
                                             \/ c \in V2Conns]
    BY <1>3 DEF Give
  <2>2. job.clean \in BOOLEAN
    BY DEF Jobs
  <2> DEFINE flag == force \/ job.clean \/ NeedsClean(c, job) \/ c \in V2Conns
  <2>3. flag \in BOOLEAN
    BY <2>2
  <2>4. cleaned' = [cleaned EXCEPT ![c] = flag]
    BY <2>1
  <2> HIDE DEF flag
  <2> QED
    BY <1>1, <2>1, <2>3, <2>4
<1> QED
  BY <1>2, <1>3

LEMMA ConnTypes ==
    ASSUME TypeInv, NEW c \in Conns, Serve(c) \/ Miner(c)
    PROVE  TypeInv'
<1>1. UNCHANGED <<curJob, pub, queue, worker, sending>>
  BY DEF Serve, Miner, ReadInitial, Receive, NotifyOwn, NotifyReceived, Connect, Authorize,
         ReadAgain, Disconnect, Become, managerVars, workerVars
<1>2. /\ curJob \in Jobs \cup {NoJob} /\ conn \in [Conns -> ConnStates]
      /\ chan \in [Conns -> Seq(Jobs)] /\ \A d \in Conns : Len(chan[d]) <= ChanCap
      /\ hand \in [Conns -> Jobs \cup {NoJob}] /\ own \in [Conns -> Jobs \cup {NoJob}]
      /\ last \in [Conns -> Jobs \cup {NoJob}] /\ cleaned \in [Conns -> BOOLEAN]
      /\ <<>> \in Seq(Jobs) /\ Len(<<>>) <= ChanCap
  BY EmptySeq, CapsAssumption DEF TypeInv, TypeOK
<1> DEFINE ConnOK ==
      /\ conn' \in [Conns -> ConnStates]
      /\ chan' \in [Conns -> Seq(Jobs)] /\ \A d \in Conns : Len(chan'[d]) <= ChanCap
      /\ hand' \in [Conns -> Jobs \cup {NoJob}] /\ own' \in [Conns -> Jobs \cup {NoJob}]
      /\ last' \in [Conns -> Jobs \cup {NoJob}] /\ cleaned' \in [Conns -> BOOLEAN]
<1>3. ConnOK
  <2>1. CASE ReadInitial(c) \/ ReadAgain(c)
    BY <1>2, <2>1 DEF ReadInitial, ReadAgain, Become, ConnStates
  <2>2. CASE Connect(c) \/ Authorize(c)
    BY <1>2, <2>2 DEF Connect, Authorize, Become, ConnStates
  <2>3. CASE Disconnect(c)
    BY <1>2, <2>3 DEF Disconnect, ConnStates
  <2>4. CASE Receive(c)
    <3>1. /\ chan[c] \in Seq(Jobs) /\ chan[c] # <<>> /\ Len(chan[c]) <= ChanCap
          /\ hand' = [hand EXCEPT ![c] = Head(chan[c])]
          /\ chan' = [chan EXCEPT ![c] = Tail(chan[c])]
          /\ UNCHANGED <<conn, own, last, cleaned>>
      BY <1>2, <2>4 DEF Receive
    <3>2. /\ Tail(chan[c]) \in Seq(Jobs) /\ Head(chan[c]) \in Jobs
          /\ Len(Tail(chan[c])) <= ChanCap
      BY <3>1, Taken, CapsAssumption
    <3> QED
      BY <1>2, <3>1, <3>2
  <2>5. CASE NotifyOwn(c)
    <3>1. own[c] \in Jobs
      BY <1>2, <2>5 DEF NotifyOwn
    <3>2. last' \in [Conns -> Jobs \cup {NoJob}] /\ cleaned' \in [Conns -> BOOLEAN]
      BY <2>5, <3>1, GiveTypes DEF NotifyOwn
    <3> QED
      BY <1>2, <2>5, <3>2 DEF NotifyOwn
  <2>6. CASE NotifyReceived(c)
    <3>1. hand[c] \in Jobs
      BY <1>2, <2>6 DEF NotifyReceived
    <3>2. last' \in [Conns -> Jobs \cup {NoJob}] /\ cleaned' \in [Conns -> BOOLEAN]
      BY <2>6, <3>1, GiveTypes DEF NotifyReceived
    <3> QED
      BY <1>2, <2>6, <3>2 DEF NotifyReceived
  <2> QED
    BY <2>1, <2>2, <2>3, <2>4, <2>5, <2>6 DEF Serve, Miner
<1> QED
  BY <1>1, <1>3 DEF TypeInv, TypeOK, RealJobs

LEMMA NextTemplate ==
    ASSUME TypeInv, NEW tip \in {curJob.tip, curJob.tip + 1} PROVE tip \in Nat
<1>1. curJob.tip \in Nat
  BY NoJobIsNone DEF TypeInv, TypeOK, Jobs
<1> QED
  BY <1>1

LEMMA TypeStep == TypeInv /\ [Next]_dispatchVars => TypeInv'
<1> SUFFICES ASSUME TypeInv, [Next]_dispatchVars PROVE TypeInv'
  OBVIOUS
<1>1. ASSUME NEW tip \in {curJob.tip, curJob.tip + 1}, NEW sync \in BOOLEAN, Publish(tip, 0, sync)
      PROVE  TypeInv'
  <2>1. tip \in Nat /\ 0 \in Nat
    BY NextTemplate
  <2> QED
    BY <1>1, <2>1, PublishTypes
<1>2. CASE Dispatch
  BY <1>2, EnqueueTypes, TakeTypes, BroadcastTypes, SendTypes DEF Dispatch
<1>3. ASSUME NEW c \in Conns, Serve(c) \/ Miner(c) PROVE TypeInv'
  BY <1>3, ConnTypes
<1>4. CASE UNCHANGED dispatchVars
  BY <1>4 DEF dispatchVars, managerVars, workerVars, connVars, TypeInv, TypeOK, RealJobs
<1> QED
  BY <1>1, <1>2, <1>3, <1>4 DEF Next

LEMMA Typed == Spec => []TypeInv
  BY TypeInit, TypeStep, PTL DEF Spec

\* Every variable keeps its range; the queue and the channels keep their bounds,
\* also when a job is dropped to make room for another.
THEOREM TypeCorrect == Spec => []TypeOK
<1>1. TypeInv => TypeOK
  BY DEF TypeInv
<1> QED
  BY <1>1, Typed, PTL

-----------------------------------------------------------------------------
(***************************************************************************)
(* Ages.  A job comes from the manager's current job only, so that every   *)
(* other job on its way is an older one.                                   *)
(***************************************************************************)
Carried(c) == Elements(chan[c]) \cup {hand[c], own[c], last[c]}

InFlight == Elements(queue) \cup {worker, sending.job} \cup UNION {Carried(c) : c \in Conns}

OlderOrCurrent == \A job \in InFlight : job.gen < curJob.gen \/ job = curJob

AgeInv == TypeInv /\ OlderOrCurrent

LEMMA AgeInit == Init => OlderOrCurrent
<1> SUFFICES ASSUME Init PROVE InFlight \subseteq {curJob}
  BY DEF OlderOrCurrent
<1> QED
  BY Empty DEF Init, InFlight, Carried, Idle

\* What a step brings into flight is the current job or nothing.
LEMMA FromManager ==
    ASSUME TypeInv, Dispatch \/ \E c \in Conns : Serve(c) \/ Miner(c)
    PROVE  curJob' = curJob /\ InFlight' \subseteq InFlight \cup {curJob, NoJob}
<1>0. queue \in Seq(Jobs) /\ \A c \in Conns : chan[c] \in Seq(Jobs)
  BY DEF TypeInv, TypeOK
<1>1. CASE Enqueue \/ Replace
  <2>1. UNCHANGED <<curJob, worker, sending, chan, hand, own, last>>
    BY <1>1 DEF Enqueue, Replace, connVars
  <2>2. Elements(queue') \subseteq Elements(queue) \cup {curJob}
    <3>1. curJob \in Jobs /\ Len(queue) <= QueueCap
      BY <1>1 DEF TypeInv, TypeOK, RealJobs, Enqueue, Replace
    <3>2. CASE Enqueue
      <4>1. queue' = Append(queue, curJob) \/ queue' = queue
        BY <3>2 DEF Enqueue
      <4>2. Elements(Append(queue, curJob)) = Elements(queue) \cup {curJob}
        BY <1>0, <3>1, Added
      <4> QED
        BY <4>1, <4>2
    <3>3. CASE Replace
      <4>1. queue' = Append(DropHead(queue), curJob)
        BY <3>3 DEF Replace
      <4> QED
        BY <1>0, <3>1, <4>1, Replaced, CapsAssumption
    <3> QED
      BY <1>1, <3>2, <3>3
  <2>3. Elements(queue)' = Elements(queue') /\ \A c \in Conns : Carried(c)' = Carried(c)
    BY <2>1 DEF Elements, Carried
  <2> QED
    BY <2>1, <2>2, <2>3 DEF InFlight
<1>2. CASE WorkerTake
  <2>1. UNCHANGED <<curJob, sending, chan, hand, own, last>>
    BY <1>2 DEF WorkerTake, managerVars, connVars
  <2>2. Elements(queue') \subseteq Elements(queue) /\ worker' \in Elements(queue)
    BY <1>0, <1>2, Taken DEF WorkerTake
  <2>3. Elements(queue)' = Elements(queue') /\ \A c \in Conns : Carried(c)' = Carried(c)
    BY <2>1 DEF Elements, Carried
  <2> QED
    BY <2>1, <2>2, <2>3 DEF InFlight
<1>3. CASE WorkerBroadcast \/ SyncBroadcast \/ EndBroadcast
  <2>1. /\ UNCHANGED <<curJob, queue, chan, hand, own, last>> /\ worker' \in {worker, NoJob}
        /\ sending'.job \in {worker, curJob, NoJob}
    BY <1>3 DEF WorkerBroadcast, SyncBroadcast, EndBroadcast, Broadcast, managerVars, connVars, Idle
  <2>2. Elements(queue)' = Elements(queue) /\ \A c \in Conns : Carried(c)' = Carried(c)
    BY <2>1 DEF Elements, Carried
  <2> QED
    BY <2>1, <2>2 DEF InFlight
<1>4. ASSUME NEW c \in Conns, Send(c) \/ SendDropping(c)
      PROVE  curJob' = curJob /\ InFlight' \subseteq InFlight \cup {curJob, NoJob}
  <2>1. UNCHANGED <<curJob, queue, worker, hand, own, last>>
    BY <1>4 DEF Send, SendDropping, managerVars
  <2>2. sending'.job = sending.job
    BY <1>4 DEF Send, SendDropping, TypeInv, RealJobs, Broadcasts
  <2>3. /\ sending.job \in Jobs /\ Len(chan[c]) <= ChanCap
        /\ chan \in [Conns -> Seq(Jobs)] /\ c \in sending.left
    BY <1>4 DEF TypeInv, TypeOK, RealJobs, Send, SendDropping
  <2>4. \E s : /\ chan' = [chan EXCEPT ![c] = s]
               /\ Elements(s) \subseteq Elements(chan[c]) \cup {sending.job}
    <3>1. CASE chan' = [chan EXCEPT ![c] = Append(@, sending.job)]
      <4>1. Elements(Append(chan[c], sending.job)) \subseteq Elements(chan[c]) \cup {sending.job}
        BY <1>0, <2>3, Added
      <4> QED
        BY <3>1, <4>1
    <3>2. CASE chan' = [chan EXCEPT ![c] = Append(DropHead(@), sending.job)]
      <4>1. Elements(Append(DropHead(chan[c]), sending.job))
              \subseteq Elements(chan[c]) \cup {sending.job}
        BY <1>0, <2>3, Replaced, CapsAssumption
      <4> QED
        BY <3>2, <4>1
    <3>3. CASE chan' = chan
      <4>1. chan' = [chan EXCEPT ![c] = chan[c]]
        BY <2>3, <3>3
      <4> QED
        BY <4>1
    <3> QED
      BY <1>4, <3>1, <3>2, <3>3 DEF Send, SendDropping
  <2>5. \A d \in Conns : Elements(chan'[d]) \subseteq Elements(chan[d]) \cup {sending.job}
    BY <2>3, <2>4
  <2>6. /\ Elements(queue)' = Elements(queue)
        /\ \A d \in Conns : Carried(d)' \subseteq Carried(d) \cup {sending.job}
    BY <2>1, <2>5 DEF Elements, Carried
  <2> QED
    BY <2>1, <2>2, <2>6 DEF InFlight
<1>5. ASSUME NEW c \in Conns, Serve(c) \/ Miner(c)
      PROVE  curJob' = curJob /\ InFlight' \subseteq InFlight \cup {curJob, NoJob}
  <2>1. UNCHANGED <<curJob, queue, worker, sending>>
    BY <1>5 DEF Serve, Miner, ReadInitial, Receive, NotifyOwn, NotifyReceived, Connect, Authorize,
         ReadAgain, Disconnect, Become, managerVars, workerVars
  <2>2. /\ chan \in [Conns -> Seq(Jobs)] /\ hand \in [Conns -> Jobs \cup {NoJob}]
        /\ own \in [Conns -> Jobs \cup {NoJob}] /\ last \in [Conns -> Jobs \cup {NoJob}]
    BY DEF TypeInv, TypeOK
  <2> DEFINE Brought(d) == /\ Elements(chan'[d]) \subseteq Elements(chan[d])
                           /\ {hand'[d], own'[d], last'[d]} \subseteq Carried(d) \cup {curJob, NoJob}
  <2>3. \A d \in Conns : Brought(d)
    <3>1. CASE Connect(c) \/ ReadInitial(c) \/ ReadAgain(c)
      BY <2>2, <3>1 DEF Connect, ReadInitial, ReadAgain, Become, Carried
    <3>2. CASE Authorize(c) \/ Disconnect(c)
      BY <2>2, <3>2, Empty DEF Authorize, Disconnect, Become, Carried
    <3>3. CASE Receive(c)
      <4>1. /\ Elements(chan[c]) = {Head(chan[c])} \cup Elements(Tail(chan[c]))
            /\ chan' = [chan EXCEPT ![c] = Tail(chan[c])]
            /\ hand' = [hand EXCEPT ![c] = Head(chan[c])]
            /\ UNCHANGED <<own, last>>
        BY <1>0, <3>3, Taken DEF Receive
      <4> QED
        BY <2>2, <4>1 DEF Carried
    <3>4. CASE NotifyOwn(c)
      <4>1. /\ last' = last \/ last' = [last EXCEPT ![c] = own[c]]
            /\ own' = [own EXCEPT ![c] = NoJob] /\ UNCHANGED <<chan, hand>>
        BY <3>4 DEF NotifyOwn, Give
      <4> QED
        BY <2>2, <4>1 DEF Carried
    <3>5. CASE NotifyReceived(c)
      <4>1. /\ last' = last \/ last' = [last EXCEPT ![c] = hand[c]]
            /\ hand' = [hand EXCEPT ![c] = NoJob] /\ UNCHANGED <<chan, own>>
        BY <3>5 DEF NotifyReceived, Give
      <4> QED
        BY <2>2, <4>1 DEF Carried
    <3> QED
      BY <1>5, <3>1, <3>2, <3>3, <3>4, <3>5 DEF Serve, Miner
  <2>4. /\ Elements(queue)' = Elements(queue)
        /\ \A d \in Conns : Carried(d)' \subseteq Carried(d) \cup {curJob, NoJob}
    BY <2>1, <2>3 DEF Elements, Carried
  <2> QED
    BY <2>1, <2>4 DEF InFlight
<1> QED
  BY <1>1, <1>2, <1>3, <1>4, <1>5 DEF Dispatch

\* What is in flight is a job or nothing.
LEMMA FlightTypes == ASSUME TypeInv PROVE InFlight \subseteq Jobs \cup {NoJob}
<1>1. \A s \in Seq(Jobs) : Elements(s) \subseteq Jobs
  BY ElementOfSeq, LenProperties DEF Elements
<1>2. \A c \in Conns : Carried(c) \subseteq Jobs \cup {NoJob}
  BY <1>1 DEF TypeInv, TypeOK, Carried
<1> QED
  BY <1>1, <1>2 DEF TypeInv, TypeOK, InFlight

LEMMA AgePublish ==
    ASSUME AgeInv, NEW tip \in Nat, NEW payload \in Nat, NEW sync \in BOOLEAN,
           Publish(tip, payload, sync)
    PROVE  OlderOrCurrent'
<1>1. curJob'.gen = curJob.gen + 1 /\ curJob.gen \in Nat
  <2>1. curJob'.gen = curJob.gen + 1
    BY PublishTypes DEF AgeInv
  <2>2. curJob.gen \in Nat
    BY NoJobIsNone DEF AgeInv, TypeInv, TypeOK, Jobs
  <2> QED
    BY <2>1, <2>2
<1>2. InFlight' = InFlight
  BY DEF Publish, workerVars, connVars, InFlight, Carried, Elements
<1>3. \A job \in InFlight : job.gen \in Nat
  BY FlightTypes, NoJobIsNone DEF AgeInv, Jobs
<1>4. \A job \in InFlight : job.gen < curJob'.gen
  BY <1>1, <1>3 DEF AgeInv, OlderOrCurrent
<1> QED
  BY <1>2, <1>4 DEF OlderOrCurrent

LEMMA AgeStep == AgeInv /\ [Next]_dispatchVars => AgeInv'
<1> SUFFICES ASSUME AgeInv, [Next]_dispatchVars PROVE OlderOrCurrent'
  BY TypeStep DEF AgeInv
<1>1. ASSUME NEW tip \in {curJob.tip, curJob.tip + 1}, NEW sync \in BOOLEAN, Publish(tip, 0, sync)
      PROVE  OlderOrCurrent'
  <2>1. tip \in Nat /\ 0 \in Nat
    BY NextTemplate DEF AgeInv
  <2> QED
    BY <1>1, <2>1, AgePublish
<1>2. CASE Dispatch \/ \E c \in Conns : Serve(c) \/ Miner(c)
  <2>1. curJob' = curJob /\ InFlight' \subseteq InFlight \cup {curJob, NoJob}
    BY <1>2, FromManager DEF AgeInv
  <2>2. NoJob.gen < curJob.gen \/ NoJob = curJob
    BY NoJobIsNone DEF AgeInv, TypeInv, TypeOK, Jobs
  <2> QED
    BY <2>1, <2>2 DEF AgeInv, OlderOrCurrent
<1>3. CASE UNCHANGED dispatchVars
  BY <1>3 DEF dispatchVars, managerVars, workerVars, connVars, AgeInv, OlderOrCurrent, InFlight,
              Carried, Elements
<1> QED
  BY <1>1, <1>2, <1>3 DEF Next

LEMMA Aged == Spec => []AgeInv
<1>1. Init => AgeInv
  BY TypeInit, AgeInit DEF AgeInv
<1> QED
  BY <1>1, AgeStep, PTL DEF Spec

-----------------------------------------------------------------------------
(***************************************************************************)
(* The two ways in which a job reaches a miner, seen by one V1 connection. *)
(***************************************************************************)
LEMMA GiveJob ==
    ASSUME AgeInv, NEW c \in Conns, NEW job \in InFlight, job # NoJob, NEW force \in BOOLEAN,
           Give(c, job, force)
    PROVE  \/ UNCHANGED <<last, cleaned>> /\ c \in V1Conns /\ job.gen < last[c].gen
           \/ /\ last' = [last EXCEPT ![c] = job]
              /\ c \in V1Conns => last[c].gen <= job.gen
              /\ job.gen <= curJob.gen
              /\ last[c] # NoJob /\ last[c].tip # job.tip => cleaned'[c]
<1>1. /\ job \in Jobs /\ job.gen \in Nat /\ last \in [Conns -> Jobs \cup {NoJob}]
      /\ last[c].gen \in Nat /\ curJob.gen \in Nat
  <2>1. /\ job \in Jobs /\ last \in [Conns -> Jobs \cup {NoJob}]
        /\ curJob \in Jobs \cup {NoJob}
    BY FlightTypes DEF AgeInv, TypeInv, TypeOK
  <2>2. \A any \in Jobs \cup {NoJob} : any.gen \in Nat
    BY NoJobIsNone DEF Jobs
  <2> QED
    BY <2>1, <2>2
<1>2. job.gen <= curJob.gen
  BY <1>1 DEF AgeInv, OlderOrCurrent
<1>3. cleaned \in [Conns -> BOOLEAN]
  BY DEF AgeInv, TypeInv, TypeOK
<1>4. CASE c \in V1Conns /\ job.gen < last[c].gen
  BY <1>4 DEF Give
<1>5. CASE ~(c \in V1Conns /\ job.gen < last[c].gen)
  <2>1. /\ last' = [last EXCEPT ![c] = job]
        /\ cleaned' = [cleaned EXCEPT ![c] = \/ force \/ job.clean \/ NeedsClean(c, job)
                                             \/ c \in V2Conns]
    BY <1>5 DEF Give
  <2>2. last[c].tip # job.tip => cleaned'[c]
    BY <1>3, <2>1 DEF NeedsClean
  <2>3. c \in V1Conns => last[c].gen <= job.gen
    BY <1>1, <1>5
  <2> QED
    BY <1>2, <2>1, <2>2, <2>3
<1> QED
  BY <1>4, <1>5

\* What any step does to the work of a connection.
LEMMA WorkStep ==
    ASSUME AgeInv, [Next]_dispatchVars
    PROVE  \/ UNCHANGED <<last, cleaned>> /\ curJob'.gen \in {curJob.gen, curJob.gen + 1}
           \/ /\ curJob' = curJob
              /\ \E c \in Conns, job \in Jobs :
                    /\ last' = [last EXCEPT ![c] = job]
                    /\ c \in V1Conns => last[c].gen <= job.gen
                    /\ job.gen <= curJob.gen
                    /\ last[c] # NoJob /\ last[c].tip # job.tip => cleaned'[c]
<1>1. ASSUME NEW tip \in {curJob.tip, curJob.tip + 1}, NEW sync \in BOOLEAN, Publish(tip, 0, sync)
      PROVE  UNCHANGED <<last, cleaned>> /\ curJob'.gen = curJob.gen + 1
  BY <1>1 DEF Publish, connVars
<1>2. CASE Dispatch
  BY <1>2 DEF Dispatch, Enqueue, Replace, WorkerTake, WorkerBroadcast, SyncBroadcast, EndBroadcast,
              Broadcast, Send, SendDropping, managerVars, connVars
<1>3. ASSUME NEW c \in Conns, Miner(c) \/ ReadInitial(c) \/ Receive(c)
      PROVE  UNCHANGED <<last, cleaned, curJob>>
  BY <1>3 DEF Miner, ReadInitial, Receive, Connect, Authorize, ReadAgain, Disconnect, Become,
              managerVars
<1>4. ASSUME NEW c \in Conns, NotifyOwn(c) \/ NotifyReceived(c)
      PROVE  /\ curJob' = curJob
             /\ \/ UNCHANGED <<last, cleaned>>
                \/ \E job \in Jobs :
                    /\ last' = [last EXCEPT ![c] = job]
                    /\ c \in V1Conns => last[c].gen <= job.gen
                    /\ job.gen <= curJob.gen
                    /\ last[c] # NoJob /\ last[c].tip # job.tip => cleaned'[c]
  <2>1. PICK job \in {own[c], hand[c]}, force \in BOOLEAN : job # NoJob /\ Give(c, job, force)
    BY <1>4 DEF NotifyOwn, NotifyReceived
  <2>2. job \in InFlight /\ job \in Jobs
    BY <2>1, FlightTypes DEF AgeInv, InFlight, Carried
  <2>3. curJob' = curJob
    BY <1>4 DEF NotifyOwn, NotifyReceived, managerVars
  <2> QED
    BY <2>1, <2>2, <2>3, GiveJob
<1>5. CASE UNCHANGED dispatchVars
  BY <1>5 DEF dispatchVars, managerVars, connVars
<1> QED
  BY <1>1, <1>2, <1>3, <1>4, <1>5 DEF Next, Serve

LEMMA WorkStarts == Init => Work!Init
<1> SUFFICES ASSUME Init PROVE Work!Init
  OBVIOUS
<1>1. \A c \in V1Conns : c \in Conns
  BY DEF Conns
<1>2. curJob.gen = 0 /\ \A c \in V1Conns : last[c].gen = 0
  BY <1>1, NoJobIsNone DEF Init
<1> QED
  BY <1>2 DEF Work!Init

LEMMA WorkRefines ==
    ASSUME AgeInv, [Next]_dispatchVars
    PROVE  [Work!Next]_(Work!vars)
<1> DEFINE seen == [c \in V1Conns |-> last[c].gen]
<1>0. /\ curJob.gen \in Nat /\ last \in [Conns -> Jobs \cup {NoJob}]
      /\ \A c \in Conns : last[c].gen \in Nat
      /\ V1Conns \subseteq Conns
  BY NoJobIsNone DEF AgeInv, TypeInv, TypeOK, Jobs, Conns
<1>1. CASE UNCHANGED <<last, cleaned>> /\ curJob'.gen = curJob.gen + 1
  BY <1>1 DEF Work!Next, Work!NewWork
<1>2. CASE UNCHANGED <<last, cleaned>> /\ curJob'.gen = curJob.gen
  BY <1>2 DEF Work!vars
<1>3. ASSUME NEW c \in Conns, NEW job \in Jobs, curJob' = curJob,
             last' = [last EXCEPT ![c] = job],
             c \in V1Conns => last[c].gen <= job.gen,
             job.gen <= curJob.gen
      PROVE  [Work!Next]_(Work!vars)
  <2>1. job.gen \in Nat
    BY DEF Jobs
  <2>2. CASE c \in V1Conns
    <3>1. seen' = [seen EXCEPT ![c] = job.gen]
      BY <1>0, <1>3, <2>2
    <3>2. CASE job.gen = last[c].gen
      <4>1. seen' = seen
        BY <3>1, <3>2
      <4> QED
        BY <1>3, <4>1 DEF Work!vars
    <3>3. CASE job.gen # last[c].gen
      <4>1. job.gen \in seen[c] + 1 .. curJob.gen
        BY <1>0, <1>3, <2>1, <2>2, <3>3
      <4> QED
        BY <1>3, <2>2, <3>1, <4>1 DEF Work!Next, Work!Give
    <3> QED
      BY <3>2, <3>3
  <2>3. CASE c \notin V1Conns
    <3>1. seen' = seen
      BY <1>0, <1>3, <2>3
    <3> QED
      BY <1>3, <3>1 DEF Work!vars
  <2> QED
    BY <2>2, <2>3
<1> QED
  BY <1>1, <1>2, <1>3, WorkStep

\* A V1 miner is given the pool's jobs in order: whatever was queued, dropped or
\* overtaken by a synchronous broadcast, no step hands it a job older than the
\* one it has, nor one the manager has not published (miner_auth.go:1306-1324).
THEOREM GivesInOrder == Spec => ImplementsWorkFeed
<1>1. Init => Work!Init
  BY WorkStarts
<1>2. AgeInv /\ [Next]_dispatchVars => [Work!Next]_(Work!vars)
  BY WorkRefines
<1> QED
  BY <1>1, <1>2, Aged, PTL DEF Spec, ImplementsWorkFeed, Work!Spec

\* A V1 miner is told to drop its work whenever the header of its next job is
\* another, also when the job that made the change never reached it.
THEOREM HeaderChangesAreClean == Spec => HeaderChangeIsClean
<1>1. AgeInv /\ [Next]_dispatchVars =>
        [\A c \in V1Conns :
            last'[c] # last[c] /\ last[c] # NoJob /\ last'[c].tip # last[c].tip => cleaned'[c]]_dispatchVars
  <2> SUFFICES ASSUME AgeInv, [Next]_dispatchVars, NEW c \in V1Conns, last'[c] # last[c],
                      last[c] # NoJob, last'[c].tip # last[c].tip
               PROVE  cleaned'[c]
    OBVIOUS
  <2>1. PICK d \in Conns, job \in Jobs :
          /\ last' = [last EXCEPT ![d] = job]
          /\ last[d] # NoJob /\ last[d].tip # job.tip => cleaned'[d]
    BY WorkStep
  <2>2. c \in Conns /\ last \in [Conns -> Jobs \cup {NoJob}]
    BY DEF Conns, AgeInv, TypeInv, TypeOK
  <2>3. c = d /\ last'[c] = job
    BY <2>1, <2>2
  <2> QED
    BY <2>1, <2>3
<1> QED
  BY <1>1, Aged, PTL DEF Spec, HeaderChangeIsClean

-----------------------------------------------------------------------------
(***************************************************************************)
(* The newest job.  Without synchronous broadcasts the jobs keep their     *)
(* order from the manager to a connection: what is dropped to make room is *)
(* never the newest, and the last job on the way is the current one.       *)
(***************************************************************************)
\* The broadcast under way is the worker's, and serves subscribed connections.
OneSender ==
    /\ pub # "sync" /\ sending.by # "sync"
    /\ sending = Idle \/ (sending.by = "worker" /\ sending.job = worker /\ worker # NoJob)
    /\ \A c \in sending.left : conn[c] \in {"open", "initial", "listening"}

\* The queue ends with the current job, and so does what has left the queue.
QueueInOrder ==
    pub = "idle" => IF queue # <<>> THEN Final(queue) = curJob ELSE worker \in {NoJob, curJob}

\* A newer job may still come to c.
Upstream(c) ==
    \/ pub # "idle" \/ queue # <<>>
    \/ worker # NoJob /\ (sending = Idle \/ c \in sending.left)

\* The channel of a connection ends with the current job once nothing else comes.
ChannelInOrder(c) ==
    ~Upstream(c) => IF chan[c] # <<>> THEN Final(chan[c]) = curJob ELSE hand[c] \in {NoJob, curJob}

\* What a connection has before it listens; the V2 connection sends its first
\* job before it reads another.
Beginning(c) ==
    /\ conn[c] \in {"new", "open", "closed"} =>
          hand[c] = NoJob /\ own[c] = NoJob
    /\ conn[c] \in {"new", "closed"} => chan[c] = <<>>
    /\ conn[c] = "initial" => own[c] = NoJob /\ (c \in V2Conns => hand[c] = NoJob /\ last[c] = NoJob)
    /\ conn[c] = "new" => last[c] = NoJob
    /\ c \in V2Conns /\ own[c] # NoJob => hand[c] = NoJob /\ last[c] = NoJob

Reached(c) == curJob \in Carried(c)

NewestComes(c) == conn[c] = "listening" /\ curJob # NoJob => Upstream(c) \/ Reached(c)

OrderInv ==
    /\ AgeInv /\ OneSender /\ QueueInOrder
    /\ \A c \in Conns : ChannelInOrder(c) /\ Beginning(c) /\ NewestComes(c)

LEMMA OrderInit == Init => OrderInv
<1> SUFFICES ASSUME Init PROVE OrderInv
  OBVIOUS
<1>1. AgeInv
  BY TypeInit, AgeInit DEF AgeInv
<1>2. OneSender /\ QueueInOrder
  BY DEF Init, OneSender, QueueInOrder, Idle
<1>3. \A c \in Conns : ChannelInOrder(c) /\ Beginning(c) /\ NewestComes(c)
  BY DEF Init, ChannelInOrder, Beginning, NewestComes
<1> QED
  BY <1>1, <1>2, <1>3 DEF OrderInv

\* A connection that a step leaves alone.
LEMMA LeftAlone ==
    ASSUME NEW c \in Conns, ChannelInOrder(c), Beginning(c), NewestComes(c),
           curJob' = curJob, conn'[c] = conn[c], chan'[c] = chan[c], hand'[c] = hand[c],
           own'[c] = own[c], last'[c] = last[c],
           Upstream(c) => Upstream(c)' \/ conn[c] \in {"new", "closed"}
    PROVE  ChannelInOrder(c)' /\ Beginning(c)' /\ NewestComes(c)'
<1>1. Reached(c)' = Reached(c)
  BY DEF Reached, Carried, Elements
<1>2. Beginning(c)'
  BY DEF Beginning
<1>3. NewestComes(c)'
  BY <1>1 DEF NewestComes
<1>4. ChannelInOrder(c)'
  <2>1. CASE conn[c] \in {"new", "closed"}
    BY <2>1 DEF Beginning, ChannelInOrder
  <2>2. CASE conn[c] \notin {"new", "closed"}
    BY <2>2 DEF ChannelInOrder, Final
  <2> QED
    BY <2>1, <2>2
<1> QED
  BY <1>2, <1>3, <1>4

LEMMA PublishOrder ==
    ASSUME OrderInv, NEW tip \in Nat, NEW payload \in Nat, Publish(tip, payload, FALSE)
    PROVE  /\ OneSender' /\ QueueInOrder'
           /\ \A c \in Conns : ChannelInOrder(c)' /\ Beginning(c)' /\ NewestComes(c)'
<1>1. /\ pub' = "queue"
      /\ UNCHANGED <<queue, worker, sending, conn, chan, hand, own, last>>
  BY DEF Publish, workerVars, connVars
<1>2. OneSender' /\ QueueInOrder'
  BY <1>1 DEF OrderInv, OneSender, QueueInOrder
<1>3. \A c \in Conns : Upstream(c)' /\ Beginning(c)'
  BY <1>1 DEF Upstream, OrderInv, Beginning
<1> QED
  BY <1>2, <1>3 DEF ChannelInOrder, NewestComes

LEMMA EnqueueOrder ==
    ASSUME OrderInv, Enqueue \/ Replace
    PROVE  /\ OneSender' /\ QueueInOrder'
           /\ \A c \in Conns : ChannelInOrder(c)' /\ Beginning(c)' /\ NewestComes(c)'
<1>1. /\ UNCHANGED <<curJob, worker, sending, conn, chan, hand, own, last>>
  BY DEF Enqueue, Replace, connVars
<1>2. \/ pub' = "idle" /\ queue' # <<>> /\ Final(queue') = curJob
      \/ pub' = "drop"
  <2>1. curJob \in Jobs /\ queue \in Seq(Jobs) /\ Len(queue) <= QueueCap
    BY DEF OrderInv, AgeInv, TypeInv, TypeOK, RealJobs, Enqueue, Replace
  <2>2. CASE Enqueue
    <3>1. Append(queue, curJob) # <<>> /\ Final(Append(queue, curJob)) = curJob
      BY <2>1, Added
    <3> QED
      BY <2>2, <3>1 DEF Enqueue
  <2>3. CASE Replace
    <3>1. /\ Append(DropHead(queue), curJob) # <<>>
          /\ Final(Append(DropHead(queue), curJob)) = curJob
      BY <2>1, Replaced, CapsAssumption
    <3> QED
      BY <2>3, <3>1 DEF Replace
  <2> QED
    BY <2>2, <2>3
<1>3. OneSender'
  BY <1>1, <1>2 DEF OrderInv, OneSender
<1>4. QueueInOrder'
  BY <1>1, <1>2 DEF QueueInOrder, Final
<1>5. \A c \in Conns : Upstream(c)' /\ Beginning(c)'
  BY <1>1, <1>2 DEF Upstream, OrderInv, Beginning
<1> QED
  BY <1>3, <1>4, <1>5 DEF ChannelInOrder, NewestComes

LEMMA TakeOrder ==
    ASSUME OrderInv, WorkerTake
    PROVE  /\ OneSender' /\ QueueInOrder'
           /\ \A c \in Conns : ChannelInOrder(c)' /\ Beginning(c)' /\ NewestComes(c)'
<1>1. /\ UNCHANGED <<curJob, pub, sending, conn, chan, hand, own, last>>
      /\ queue # <<>> /\ queue' = Tail(queue) /\ worker' = Head(queue)
      /\ worker = NoJob /\ queue \in Seq(Jobs)
  BY DEF WorkerTake, managerVars, connVars, OrderInv, AgeInv, TypeInv, TypeOK
<1>2. /\ Final(queue) = IF queue' = <<>> THEN worker' ELSE Final(queue')
      /\ worker' \in Jobs
  BY <1>1, Taken
<1>3. sending = Idle /\ worker' # NoJob
  BY <1>1, <1>2, NoJobIsNone DEF OrderInv, OneSender
<1>4. OneSender'
  BY <1>1, <1>3 DEF OrderInv, OneSender
<1>5. QueueInOrder'
  BY <1>1, <1>2 DEF OrderInv, QueueInOrder, Final
<1>6. \A c \in Conns : Upstream(c)' /\ Beginning(c)'
  BY <1>1, <1>3 DEF Upstream, OrderInv, Beginning
<1> QED
  BY <1>4, <1>5, <1>6 DEF ChannelInOrder, NewestComes

LEMMA BroadcastOrder ==
    ASSUME OrderInv, WorkerBroadcast \/ SyncBroadcast \/ EndBroadcast
    PROVE  /\ OneSender' /\ QueueInOrder'
           /\ \A c \in Conns : ChannelInOrder(c)' /\ Beginning(c)' /\ NewestComes(c)'
<1>1. /\ UNCHANGED <<curJob, queue, conn, chan, hand, own, last>>
  BY DEF WorkerBroadcast, SyncBroadcast, EndBroadcast, Broadcast, managerVars, connVars
<1>2. pub # "sync"
  BY DEF OrderInv, OneSender
<1>3. CASE WorkerBroadcast
  <2>1. /\ pub' = pub /\ worker' = worker /\ worker # NoJob /\ sending = Idle
        /\ sending' = [job |-> worker, left |-> Subscribed, full |-> {}, by |-> "worker"]
    BY <1>3 DEF WorkerBroadcast, Broadcast, managerVars
  <2>2. OneSender'
    BY <1>1, <1>2, <2>1 DEF OneSender, Subscribed
  <2>3. QueueInOrder'
    BY <1>1, <2>1 DEF OrderInv, QueueInOrder, Final
  <2>4. ASSUME NEW c \in Conns PROVE Upstream(c) => Upstream(c)' \/ conn[c] \in {"new", "closed"}
    <3>1. conn[c] \in ConnStates
      BY DEF OrderInv, AgeInv, TypeInv, TypeOK
    <3>2. c \in Subscribed \/ conn[c] \in {"new", "closed"}
      BY <3>1 DEF Subscribed, ConnStates
    <3> QED
      BY <1>1, <2>1, <3>2 DEF Upstream
  <2> QED
    BY <1>1, <2>2, <2>3, <2>4, LeftAlone DEF OrderInv
<1>4. CASE EndBroadcast
  <2>1. /\ sending # Idle /\ sending.left = {} /\ sending' = Idle
        /\ worker' = NoJob /\ pub' = pub
    BY <1>4 DEF EndBroadcast, OrderInv, OneSender
  <2>2. OneSender'
    BY <1>2, <2>1 DEF OneSender, Idle
  <2>3. QueueInOrder'
    BY <1>1, <2>1 DEF OrderInv, QueueInOrder, Final
  <2>4. ASSUME NEW c \in Conns PROVE Upstream(c) => Upstream(c)'
    BY <1>1, <2>1 DEF Upstream
  <2> QED
    BY <1>1, <2>2, <2>3, <2>4, LeftAlone DEF OrderInv
<1> QED
  BY <1>2, <1>3, <1>4 DEF SyncBroadcast

LEMMA SendOrder ==
    ASSUME OrderInv, NEW c \in Conns, Send(c) \/ SendDropping(c)
    PROVE  /\ OneSender' /\ QueueInOrder'
           /\ \A d \in Conns : ChannelInOrder(d)' /\ Beginning(d)' /\ NewestComes(d)'
<1>1. /\ UNCHANGED <<curJob, pub, queue, worker, conn, hand, own, last>>
      /\ c \in sending.left /\ sending.job \in Jobs /\ chan \in [Conns -> Seq(Jobs)]
      /\ sending \in Broadcasts /\ Len(chan[c]) <= ChanCap
  BY DEF Send, SendDropping, managerVars, OrderInv, AgeInv, TypeInv, TypeOK, RealJobs
<1>2. /\ sending # Idle /\ sending.by = "worker" /\ sending.job = worker /\ worker # NoJob
      /\ conn[c] \in {"open", "initial", "listening"}
  BY <1>1 DEF OrderInv, OneSender, Idle
<1>3. /\ sending' \in Broadcasts /\ sending'.job = sending.job /\ sending'.by = sending.by
      /\ \/ sending'.left = sending.left /\ chan' = chan
         \/ /\ sending'.left = sending.left \ {c}
            /\ \/ chan' = [chan EXCEPT ![c] = Append(@, sending.job)]
               \/ chan' = [chan EXCEPT ![c] = Append(DropHead(@), sending.job)]
  <2>1. CASE sending' = [sending EXCEPT !.left = @ \ {c}]
    BY <1>1, <2>1 DEF Broadcasts, Send, SendDropping
  <2>2. CASE sending' = [sending EXCEPT !.full = {c}]
    BY <1>1, <2>2 DEF Broadcasts, Send, SendDropping
  <2>3. CASE sending' = [sending EXCEPT !.left = @ \ {c}, !.full = {}]
    BY <1>1, <2>3 DEF Broadcasts, Send, SendDropping
  <2> QED
    BY <2>1, <2>2, <2>3 DEF Send, SendDropping
<1>4. sending' # Idle
  BY <1>2, <1>3 DEF Idle
<1>5. OneSender'
  BY <1>1, <1>2, <1>3, <1>4 DEF OrderInv, OneSender
<1>6. QueueInOrder'
  BY <1>1 DEF OrderInv, QueueInOrder, Final
<1>7. CASE sending'.left = sending.left /\ chan' = chan
  <2>1. \A d \in Conns : Upstream(d) => Upstream(d)'
    BY <1>1, <1>2, <1>7 DEF Upstream
  <2> QED
    BY <1>1, <1>5, <1>6, <1>7, <2>1, LeftAlone DEF OrderInv
<1>8. CASE /\ sending'.left = sending.left \ {c}
           /\ \/ chan' = [chan EXCEPT ![c] = Append(@, sending.job)]
              \/ chan' = [chan EXCEPT ![c] = Append(DropHead(@), sending.job)]
  <2>1. /\ chan'[c] # <<>> /\ Final(chan'[c]) = worker /\ worker \in Elements(chan'[c])
        /\ \A d \in Conns \ {c} : chan'[d] = chan[d]
    <3>1. CASE chan' = [chan EXCEPT ![c] = Append(@, sending.job)]
      <4>1. /\ Append(chan[c], worker) # <<>> /\ Final(Append(chan[c], worker)) = worker
            /\ worker \in Elements(Append(chan[c], worker))
        BY <1>1, <1>2, Added
      <4> QED
        BY <1>1, <1>2, <3>1, <4>1
    <3>2. CASE chan' = [chan EXCEPT ![c] = Append(DropHead(@), sending.job)]
      <4>1. /\ Append(DropHead(chan[c]), worker) # <<>>
            /\ Final(Append(DropHead(chan[c]), worker)) = worker
            /\ worker \in Elements(Append(DropHead(chan[c]), worker))
        BY <1>1, <1>2, Replaced, CapsAssumption
      <4> QED
        BY <1>1, <1>2, <3>2, <4>1
    <3> QED
      BY <1>8, <3>1, <3>2
  <2>2. ASSUME NEW d \in Conns, d # c
        PROVE  ChannelInOrder(d)' /\ Beginning(d)' /\ NewestComes(d)'
    <3>1. Upstream(d) => Upstream(d)'
      BY <1>1, <1>2, <1>8, <2>2 DEF Upstream
    <3> QED
      BY <1>1, <2>1, <2>2, <3>1, LeftAlone DEF OrderInv
  <2>3. pub # "idle" \/ queue # <<>> \/ worker = curJob
    BY <1>2 DEF OrderInv, QueueInOrder
  <2>4. Upstream(c)' \/ worker = curJob
    BY <1>1, <2>3 DEF Upstream
  <2>5. ChannelInOrder(c)'
    BY <1>1, <2>1, <2>4 DEF ChannelInOrder, Final
  <2>6. NewestComes(c)'
    BY <1>1, <2>1, <2>4 DEF NewestComes, Reached, Carried, Elements
  <2>7. Beginning(c)'
    BY <1>1, <1>2 DEF OrderInv, Beginning
  <2> QED
    BY <1>5, <1>6, <2>2, <2>5, <2>6, <2>7
<1> QED
  BY <1>3, <1>7, <1>8

\* A step of a connection does not change what may still come to any.
LEMMA ConnOrder ==
    ASSUME OrderInv, NEW c \in Conns, Serve(c) \/ Miner(c)
    PROVE  /\ OneSender' /\ QueueInOrder'
           /\ \A d \in Conns : ChannelInOrder(d)' /\ Beginning(d)' /\ NewestComes(d)'
<1>1. UNCHANGED <<curJob, pub, queue, worker, sending>>
  BY DEF Serve, Miner, ReadInitial, Receive, NotifyOwn, NotifyReceived, Connect, Authorize,
         ReadAgain, Disconnect, Become, managerVars, workerVars
<1>2. /\ conn \in [Conns -> ConnStates] /\ chan \in [Conns -> Seq(Jobs)]
      /\ hand \in [Conns -> Jobs \cup {NoJob}] /\ own \in [Conns -> Jobs \cup {NoJob}]
      /\ last \in [Conns -> Jobs \cup {NoJob}] /\ curJob \in Jobs \cup {NoJob}
  BY DEF OrderInv, AgeInv, TypeInv, TypeOK
<1>3. \A d \in Conns \ {c} : /\ conn'[d] = conn[d] /\ chan'[d] = chan[d] /\ hand'[d] = hand[d]
                             /\ own'[d] = own[d] /\ last'[d] = last[d]
  <2>1. CASE Miner(c) \/ ReadInitial(c) \/ Receive(c)
    BY <1>2, <2>1 DEF Miner, ReadInitial, Receive, Connect, Authorize, ReadAgain, Disconnect, Become
  <2>2. CASE NotifyOwn(c) \/ NotifyReceived(c)
    BY <1>2, <2>2 DEF NotifyOwn, NotifyReceived, Give
  <2> QED
    BY <2>1, <2>2 DEF Serve
<1>4. \A d \in Conns : Upstream(d)' <=> Upstream(d)
  BY <1>1 DEF Upstream
<1>5. \A d \in Conns \ {c} : ChannelInOrder(d)' /\ Beginning(d)' /\ NewestComes(d)'
  BY <1>1, <1>3, <1>4, LeftAlone DEF OrderInv
<1>6. OneSender'
  <2>1. c \in sending.left =>
          /\ conn[c] \in {"open", "initial", "listening"}
          /\ sending # Idle /\ conn'[c] \in {"open", "initial", "listening"}
    <3>1. c \in sending.left => sending # Idle /\ conn[c] \in {"open", "initial", "listening"}
      BY DEF OrderInv, OneSender, Idle
    <3>2. CASE Miner(c) \/ ReadInitial(c) \/ Receive(c)
      BY <1>2, <3>1, <3>2
      DEF Miner, ReadInitial, Receive, Connect, Authorize, ReadAgain, Disconnect, Become
    <3>3. CASE NotifyOwn(c) \/ NotifyReceived(c)
      BY <3>1, <3>3 DEF NotifyOwn, NotifyReceived
    <3> QED
      BY <3>2, <3>3 DEF Serve
  <2>2. \A d \in sending.left : d \in Conns
    BY DEF OrderInv, AgeInv, TypeInv, TypeOK
  <2>3. \A d \in sending.left : conn'[d] \in {"open", "initial", "listening"}
    BY <1>3, <2>1, <2>2 DEF OrderInv, OneSender
  <2> QED
    BY <1>1, <2>3 DEF OrderInv, OneSender
<1>7. QueueInOrder'
  BY <1>1 DEF OrderInv, QueueInOrder, Final
<1>8. ChannelInOrder(c) /\ Beginning(c) /\ NewestComes(c)
  BY DEF OrderInv
<1>9. ChannelInOrder(c)' /\ Beginning(c)' /\ NewestComes(c)'
  <2>1. CASE Connect(c)
    <3>1. /\ conn[c] = "new" /\ conn'[c] = IF c \in V1Conns THEN "open" ELSE "initial"
          /\ UNCHANGED <<chan, hand, own, last>>
      BY <1>2, <2>1 DEF Connect, Become
    <3> QED
      BY <1>8, <3>1 DEF ChannelInOrder, Beginning, NewestComes
  <2>2. CASE Authorize(c)
    <3>1. /\ c \in V1Conns /\ c \notin V2Conns /\ conn[c] = "open" /\ conn'[c] = "initial"
          /\ chan'[c] = <<>> /\ UNCHANGED <<hand, own, last>>
      BY <1>2, <2>2, ConnsAssumption DEF Authorize, Become
    <3> QED
      BY <1>8, <3>1 DEF ChannelInOrder, Beginning, NewestComes
  <2>3. CASE Disconnect(c)
    <3>1. /\ conn'[c] = "closed" /\ chan'[c] = <<>> /\ hand'[c] = NoJob /\ own'[c] = NoJob
          /\ last' = last
      BY <1>2, <2>3 DEF Disconnect
    <3> QED
      BY <3>1 DEF ChannelInOrder, Beginning, NewestComes
  <2>4. CASE ReadInitial(c)
    <3>1. /\ conn[c] = "initial" /\ conn'[c] = "listening" /\ own'[c] = curJob
          /\ UNCHANGED <<chan, hand, last>>
      BY <1>2, <2>4 DEF ReadInitial, Become
    <3>2. ChannelInOrder(c)'
      BY <1>1, <1>4, <1>8, <3>1 DEF ChannelInOrder, Final
    <3> QED
      BY <1>1, <1>8, <3>1, <3>2 DEF Beginning, NewestComes, Reached, Carried
  <2>5. CASE ReadAgain(c)
    <3>1. /\ c \in V1Conns /\ c \notin V2Conns
          /\ conn[c] = "listening" /\ conn'[c] = "listening" /\ own'[c] = curJob
          /\ UNCHANGED <<chan, hand, last>>
      BY <1>2, <2>5, ConnsAssumption DEF ReadAgain, Become
    <3>2. ChannelInOrder(c)'
      BY <1>1, <1>4, <1>8, <3>1 DEF ChannelInOrder, Final
    <3> QED
      BY <1>1, <1>8, <3>1, <3>2 DEF Beginning, NewestComes, Reached, Carried
  <2>6. CASE Receive(c)
    <3>1. /\ conn[c] \in {"initial", "listening"} /\ (c \in V1Conns \/ conn[c] = "listening")
          /\ chan[c] # <<>> /\ hand[c] = NoJob /\ (c \in V2Conns => own[c] = NoJob)
          /\ hand'[c] = Head(chan[c]) /\ chan'[c] = Tail(chan[c])
          /\ UNCHANGED <<conn, own, last>>
      BY <1>2, <2>6 DEF Receive
    <3>2. /\ Elements(chan[c]) = {hand'[c]} \cup Elements(chan'[c])
          /\ Final(chan[c]) = IF chan'[c] = <<>> THEN hand'[c] ELSE Final(chan'[c])
      BY <1>2, <3>1, Taken
    <3>3. ChannelInOrder(c)'
      BY <1>1, <1>4, <1>8, <3>1, <3>2 DEF ChannelInOrder, Final
    <3>4. curJob # NoJob /\ Reached(c) => Reached(c)'
      <4>1. hand[c] # curJob \/ curJob = NoJob
        BY <3>1
      <4>2. Elements(chan[c])' = Elements(chan'[c])
        BY DEF Elements
      <4>3. curJob \in Elements(chan[c]) \cup {own[c], last[c]} => Reached(c)'
        BY <1>1, <3>1, <3>2, <4>2 DEF Reached, Carried
      <4>4. curJob # NoJob /\ Reached(c) => Reached(c)'
        BY <4>1, <4>3 DEF Reached, Carried
      <4> QED
        BY <4>4
    <3>5. NewestComes(c)'
      BY <1>1, <1>4, <1>8, <3>1, <3>4 DEF NewestComes
    <3>6. Beginning(c)'
      BY <1>8, <3>1, ConnsAssumption DEF Beginning
    <3> QED
      BY <3>3, <3>5, <3>6
  <2>7. CASE NotifyOwn(c)
    <3>0. AgeInv /\ own[c] \in InFlight
      BY DEF OrderInv, InFlight, Carried
    <3>1. /\ own[c] # NoJob /\ own'[c] = NoJob /\ UNCHANGED <<conn, chan, hand>>
          /\ Give(c, own[c], TRUE)
      BY <1>2, <2>7 DEF NotifyOwn
    <3>2. \/ /\ c \in V1Conns /\ last' = last
             /\ own[c].gen < last[c].gen
          \/ /\ last'[c] = own[c]
             /\ c \in V1Conns => last[c].gen <= own[c].gen
             /\ own[c].gen <= curJob.gen
      <4>1. \/ UNCHANGED <<last, cleaned>> /\ c \in V1Conns /\ own[c].gen < last[c].gen
            \/ /\ last' = [last EXCEPT ![c] = own[c]]
               /\ c \in V1Conns => last[c].gen <= own[c].gen
               /\ own[c].gen <= curJob.gen
        BY <3>0, <3>1, GiveJob
      <4> QED
        BY <1>2, <4>1
    <3>3. ChannelInOrder(c)'
      BY <1>1, <1>4, <1>8, <3>1 DEF ChannelInOrder, Final
    <3>4. Beginning(c)'
      BY <1>8, <3>1, <3>2, ConnsAssumption DEF Beginning
    <3>5. NewestComes(c)'
      <4>1. SUFFICES ASSUME curJob # NoJob, conn[c] = "listening", ~Upstream(c)
                     PROVE  Reached(c)'
        BY <1>1, <1>4, <3>1 DEF NewestComes
      <4>2. curJob \in Elements(chan[c]) \cup {hand[c], own[c], last[c]}
        BY <1>8, <4>1 DEF NewestComes, Reached, Carried
      <4>3. CASE curJob \in Elements(chan[c]) \cup {hand[c]}
        BY <1>1, <3>1, <4>3 DEF Reached, Carried, Elements
      <4>4. own[c] = curJob \/ last[c] = curJob => last'[c] = curJob
        <5>1. \A job \in {own[c], last[c]} :
                /\ job.gen \in Nat
                /\ job.gen < curJob.gen \/ job = curJob
          <6>1. {own[c], last[c]} \subseteq InFlight
            BY DEF InFlight, Carried
          <6>2. \A job \in Jobs \cup {NoJob} : job.gen \in Nat
            BY NoJobIsNone DEF Jobs
          <6> QED
            BY <1>2, <6>1, <6>2 DEF OrderInv, AgeInv, OlderOrCurrent
        <5>2. CASE c \in V1Conns
          BY <3>2, <5>1, <5>2
        <5>3. CASE c \in V2Conns
          <6>1. last[c] = NoJob
            BY <1>8, <3>1, <5>3 DEF Beginning
          <6> QED
            BY <3>2, <4>1, <5>3, <6>1, ConnsAssumption
        <5> QED
          BY <5>2, <5>3 DEF Conns
      <4> QED
        BY <1>1, <4>2, <4>3, <4>4 DEF Reached, Carried
    <3> QED
      BY <3>3, <3>4, <3>5
  <2>8. CASE NotifyReceived(c)
    <3>0. AgeInv /\ hand[c] \in InFlight
      BY DEF OrderInv, InFlight, Carried
    <3>1. /\ hand[c] # NoJob /\ hand'[c] = NoJob /\ UNCHANGED <<conn, chan, own>>
          /\ Give(c, hand[c], FALSE)
      BY <1>2, <2>8 DEF NotifyReceived
    <3>2. \/ /\ c \in V1Conns /\ last' = last
             /\ hand[c].gen < last[c].gen
          \/ /\ last'[c] = hand[c]
             /\ c \in V1Conns => last[c].gen <= hand[c].gen
             /\ hand[c].gen <= curJob.gen
      <4>1. \/ UNCHANGED <<last, cleaned>> /\ c \in V1Conns /\ hand[c].gen < last[c].gen
            \/ /\ last' = [last EXCEPT ![c] = hand[c]]
               /\ c \in V1Conns => last[c].gen <= hand[c].gen
               /\ hand[c].gen <= curJob.gen
        BY <3>0, <3>1, GiveJob
      <4> QED
        BY <1>2, <4>1
    <3>3. ChannelInOrder(c)'
      BY <1>1, <1>4, <1>8, <3>1 DEF ChannelInOrder, Final
    <3>4. Beginning(c)'
      BY <1>8, <3>1, <3>2, ConnsAssumption DEF Beginning
    <3>5. NewestComes(c)'
      <4>1. SUFFICES ASSUME curJob # NoJob, conn[c] = "listening", ~Upstream(c)
                     PROVE  Reached(c)'
        BY <1>1, <1>4, <3>1 DEF NewestComes
      <4>2. curJob \in Elements(chan[c]) \cup {hand[c], own[c], last[c]}
        BY <1>8, <4>1 DEF NewestComes, Reached, Carried
      <4>3. CASE chan[c] # <<>>
        <5>1. Final(chan[c]) = curJob
          BY <1>8, <4>1, <4>3 DEF ChannelInOrder
        <5>2. Final(chan[c]) \in Elements(chan[c])
          BY <1>2, <4>3, EmptySeq, LenProperties DEF Final, Elements
        <5> QED
          BY <1>1, <3>1, <5>1, <5>2 DEF Reached, Carried, Elements
      <4>4. CASE chan[c] = <<>>
        <5>1. hand[c] = curJob
          BY <1>8, <3>1, <4>1, <4>4 DEF ChannelInOrder
        <5>2. last[c].gen \in Nat /\ (last[c].gen < curJob.gen \/ last[c] = curJob) /\ curJob.gen \in Nat
          BY <1>2, NoJobIsNone DEF Jobs, OrderInv, AgeInv, OlderOrCurrent, InFlight, Carried
        <5>3. last'[c] = curJob
          BY <3>2, <5>1, <5>2
        <5> QED
          BY <1>1, <5>3 DEF Reached, Carried
      <4> QED
        BY <4>3, <4>4
    <3> QED
      BY <3>3, <3>4, <3>5
  <2> QED
    BY <2>1, <2>2, <2>3, <2>4, <2>5, <2>6, <2>7, <2>8 DEF Serve, Miner
<1> QED
  BY <1>5, <1>6, <1>7, <1>9

LEMMA OrderStep == ASSUME ~SyncAllowed PROVE OrderInv /\ [Next]_dispatchVars => OrderInv'
<1> SUFFICES ASSUME OrderInv, [Next]_dispatchVars PROVE OrderInv'
  OBVIOUS
<1>0. AgeInv /\ AgeInv'
  BY AgeStep DEF OrderInv
<1>1. ASSUME NEW tip \in {curJob.tip, curJob.tip + 1}, NEW sync \in BOOLEAN,
             sync => SyncAllowed, Publish(tip, 0, sync)
      PROVE  OrderInv'
  <2>1. tip \in Nat /\ 0 \in Nat /\ sync = FALSE
    BY <1>0, <1>1, NextTemplate DEF AgeInv
  <2> QED
    BY <1>0, <1>1, <2>1, PublishOrder DEF OrderInv
<1>2. CASE Dispatch
  BY <1>0, <1>2, EnqueueOrder, TakeOrder, BroadcastOrder, SendOrder DEF Dispatch, OrderInv
<1>3. ASSUME NEW c \in Conns, Serve(c) \/ Miner(c) PROVE OrderInv'
  BY <1>0, <1>3, ConnOrder DEF OrderInv
<1>4. CASE UNCHANGED dispatchVars
  BY <1>0, <1>4 DEF dispatchVars, managerVars, workerVars, connVars, OrderInv, OneSender, QueueInOrder,
                    Final, Idle, ChannelInOrder, Beginning, NewestComes, Upstream, Reached, Carried, Elements
<1> QED
  BY <1>1, <1>2, <1>3, <1>4 DEF Next

LEMMA InOrder == ASSUME ~SyncAllowed PROVE Spec => []OrderInv
<1>1. OrderInv /\ [Next]_dispatchVars => OrderInv'
  BY OrderStep
<1> QED
  BY <1>1, OrderInit, PTL DEF Spec

\* Without synchronous broadcasts the newest job is always on its way to every
\* connection that listens, or already there: neither an overflowing queue or
\* channel, nor subscribing or draining during a broadcast, loses it.
THEOREM NewestIsKept == ASSUME ~SyncAllowed PROVE Spec => []NewestNotLost
<1>1. OrderInv => NewestNotLost
  <2> SUFFICES ASSUME OrderInv, NEW c \in Conns, conn[c] = "listening", curJob # NoJob
               PROVE  curJob \in OnTheWay(c) \cup {last[c]}
    BY DEF NewestNotLost
  <2>1. Upstream(c) \/ Reached(c)
    BY DEF OrderInv, NewestComes
  <2>2. CASE Reached(c)
    BY <2>2 DEF Reached, Carried, OnTheWay
  <2>3. CASE Upstream(c) /\ ~Reached(c)
    <3>1. CASE pub # "idle"
      BY <3>1 DEF OnTheWay
    <3>2. CASE pub = "idle" /\ queue # <<>>
      <4>1. Final(queue) = curJob
        BY <3>2 DEF OrderInv, QueueInOrder
      <4>2. Final(queue) \in Elements(queue)
        BY <3>2, EmptySeq, LenProperties DEF Final, Elements, OrderInv, AgeInv, TypeInv, TypeOK
      <4> QED
        BY <4>1, <4>2 DEF OnTheWay
    <3>3. CASE pub = "idle" /\ queue = <<>>
      BY <2>3, <3>3 DEF Upstream, OrderInv, QueueInOrder, OnTheWay
    <3> QED
      BY <3>1, <3>2, <3>3
  <2> QED
    BY <2>1, <2>2, <2>3
<1> QED
  BY <1>1, InOrder, PTL

\* Without them a connection that has received everything works on the newest
\* job, as sendJobNonBlocking says (job_subscribe.go:85-87).
THEOREM SettlesOnNewest == ASSUME ~SyncAllowed PROVE Spec => []SettledOnNewest
<1>1. OrderInv => SettledOnNewest
  <2> SUFFICES ASSUME OrderInv, NEW c \in Conns, Settled(c) PROVE last[c] = curJob
    BY DEF SettledOnNewest
  <2>1. /\ conn[c] = "listening" /\ ~Upstream(c) /\ chan[c] = <<>> /\ hand[c] = NoJob
        /\ own[c] = NoJob
    BY DEF Settled, Upstream
  <2>2. CASE curJob # NoJob
    BY <2>1, <2>2, Empty DEF OrderInv, NewestComes, Reached, Carried
  <2>3. CASE curJob = NoJob
    <3>1. last[c] \in Jobs \cup {NoJob} /\ (last[c].gen < 0 \/ last[c] = NoJob)
      BY <2>3, NoJobIsNone DEF OrderInv, AgeInv, OlderOrCurrent, InFlight, Carried, TypeInv, TypeOK
    <3> QED
      BY <2>3, <3>1 DEF Jobs
  <2> QED
    BY <2>2, <2>3
<1> QED
  BY <1>1, InOrder, PTL

-----------------------------------------------------------------------------
(***************************************************************************)
(* From bitcoind to the miners: the composition with JobFeed.              *)
(***************************************************************************)
FeedProofs == INSTANCE JobFeed_proofs WITH
                 job <- [tip |-> curJob.tip, payload |-> curJob.payload],
                 pub <- IF pub = "drop" THEN "queue" ELSE pub

\* What the dispatch does between two jobs: it broadcasts the current one.
LEMMA CarrySteps ==
    ASSUME Dispatch \/ \E c \in Conns : Serve(c) \/ Miner(c)
    PROVE  pub' \in {pub, "idle"} \/ (pub = "queue" /\ pub' = "drop")
<1>1. CASE Enqueue \/ Replace
  BY <1>1 DEF Enqueue, Replace
<1>2. CASE WorkerTake
  BY <1>2 DEF WorkerTake, managerVars
<1>3. CASE WorkerBroadcast \/ SyncBroadcast \/ EndBroadcast
  BY <1>3 DEF WorkerBroadcast, SyncBroadcast, EndBroadcast, Broadcast, managerVars
<1>4. ASSUME NEW c \in Conns, Send(c) \/ SendDropping(c) PROVE pub' = pub
  BY <1>4 DEF Send, SendDropping, managerVars
<1>5. ASSUME NEW c \in Conns, Serve(c) \/ Miner(c) PROVE pub' = pub
  BY <1>5 DEF Serve, Miner, ReadInitial, Receive, NotifyOwn, NotifyReceived, Connect, Authorize,
              ReadAgain, Disconnect, Become, managerVars
<1> QED
  BY <1>1, <1>2, <1>3, <1>4, <1>5 DEF Dispatch

\* The composition is a feed: carrying a job to the connections is its broadcast.
LEMMA FeedInit == WorkInit => FeedProofs!Init
  BY DEF WorkInit, Init, NoJob, Feed!Init, Feed!NoTemplate, Feed!NoJob, Feed!Fetchers, Feed!NoOne,
         FeedProofs!Init, FeedProofs!NoTemplate, FeedProofs!NoJob, FeedProofs!Fetchers,
         FeedProofs!NoOne

LEMMA FeedStep ==
    ASSUME TypeInv, [WorkNext]_vars
    PROVE  [FeedProofs!Next]_(FeedProofs!vars)
<1>1. CASE Follow
  <2>1. UNCHANGED <<curJob, pub>>
    BY <1>1 DEF Follow, dispatchVars, managerVars
  <2>2. CASE Feed!NewBlock
    <3>1. FeedProofs!NewBlock
      BY <2>2 DEF Feed!NewBlock, FeedProofs!NewBlock
    <3> QED
      BY <3>1 DEF FeedProofs!Next
  <2>3. CASE Feed!NewTransactions
    <3>1. FeedProofs!NewTransactions
      BY <2>3 DEF Feed!NewTransactions, FeedProofs!NewTransactions
    <3> QED
      BY <3>1 DEF FeedProofs!Next
  <2>4. CASE Feed!Fetching
    <3>1. FeedProofs!Fetching
      BY <2>4 DEF Feed!Fetching, Feed!LongPoll, Feed!LongPollReturns, Feed!Refresh,
                  Feed!AcceptedRefresh, Feed!AcceptedGivesUp, Feed!Fetch, Feed!NoJob,
                  Feed!NoTemplate, FeedProofs!Fetching, FeedProofs!LongPoll,
                  FeedProofs!LongPollReturns, FeedProofs!Refresh, FeedProofs!AcceptedRefresh,
                  FeedProofs!AcceptedGivesUp, FeedProofs!Fetch, FeedProofs!NoJob,
                  FeedProofs!NoTemplate
    <3> QED
      BY <3>1 DEF FeedProofs!Next
  <2>5. ASSUME NEW f \in Feed!Fetchers, Feed!Lock(f) \/ Feed!Verify(f) \/ Feed!Published(f)
        PROVE  FeedProofs!Next
    <3>1. FeedProofs!Lock(f) \/ FeedProofs!Verify(f) \/ FeedProofs!Published(f)
      BY <2>5 DEF Feed!Lock, Feed!Verify, Feed!Published, Feed!Unlock, Feed!Goto, Feed!NoOne,
                  Feed!NoTemplate, FeedProofs!Lock, FeedProofs!Verify, FeedProofs!Published,
                  FeedProofs!Unlock, FeedProofs!Goto, FeedProofs!NoOne, FeedProofs!NoTemplate
    <3>2. f \in FeedProofs!Fetchers
      BY DEF Feed!Fetchers, FeedProofs!Fetchers
    <3> QED
      BY <3>1, <3>2 DEF FeedProofs!Next, FeedProofs!Attempt
  <2> QED
    BY <1>1, <2>2, <2>3, <2>4, <2>5 DEF Follow
<1>2. ASSUME NEW f \in Feed!Fetchers, pc[f] = "apply", Apply(f) PROVE FeedProofs!Next
  <2>1. FeedProofs!Apply(f)
    BY <1>2 DEF Apply, Feed!Apply, Feed!Changed, Feed!Unlock, Feed!Goto, Feed!NoOne, Feed!NoJob,
                Feed!NoTemplate, FeedProofs!Apply, FeedProofs!Changed, FeedProofs!Unlock,
                FeedProofs!Goto, FeedProofs!NoOne, FeedProofs!NoJob, FeedProofs!NoTemplate
  <2>2. f \in FeedProofs!Fetchers
    BY DEF Feed!Fetchers, FeedProofs!Fetchers
  <2> QED
    BY <2>1, <2>2 DEF FeedProofs!Next, FeedProofs!Attempt
<1>3. CASE Carry
  <2>1. UNCHANGED feedVars /\ (Dispatch \/ \E c \in Conns : Serve(c) \/ Miner(c))
    BY <1>3 DEF Carry
  <2>2. curJob' = curJob
    BY <2>1, FromManager
  <2>3. pub' \in {pub, "idle"} \/ (pub = "queue" /\ pub' = "drop")
    BY <2>1, CarrySteps
  <2>4. FeedProofs!Broadcast \/ UNCHANGED FeedProofs!vars
    BY <2>1, <2>2, <2>3 DEF feedVars, FeedProofs!Broadcast, FeedProofs!vars, FeedProofs!feedVars
  <2> QED
    BY <2>4 DEF FeedProofs!Next
<1>4. CASE UNCHANGED vars
  BY <1>4 DEF vars, dispatchVars, managerVars, feedVars, FeedProofs!vars, FeedProofs!feedVars
<1> QED
  BY <1>1, <1>2, <1>3, <1>4 DEF WorkNext

-----------------------------------------------------------------------------
\* A later job has no earlier best block: the feed publishes them in that order,
\* and all that is in flight was published.
Known == InFlight \cup {curJob, NoJob}
TipsInOrder == \A one, two \in Known : one.gen <= two.gen => one.tip <= two.tip

WorkInv == AgeInv /\ FeedProofs!TypeOK /\ FeedProofs!TipInv /\ TipsInOrder

LEMMA WorkInvInit == WorkInit => WorkInv
<1> SUFFICES ASSUME WorkInit PROVE WorkInv
  OBVIOUS
<1>1. AgeInv
  BY TypeInit, AgeInit DEF WorkInit, AgeInv
<1>2. FeedProofs!TypeOK
  BY FeedInit, FeedProofs!TypeInit, WorkAssumption
<1>3. FeedProofs!TipInv
  BY FeedInit, WorkAssumption DEF FeedProofs!Init, FeedProofs!TipInv, FeedProofs!NoJob,
     FeedProofs!NoTemplate
<1>4. Known \subseteq {NoJob}
  <2>1. curJob = NoJob /\ InFlight \subseteq {NoJob}
    BY Empty DEF WorkInit, Init, InFlight, Carried, Idle
  <2> QED
    BY <2>1 DEF Known
<1>5. TipsInOrder
  BY <1>4, NoJobIsNone DEF TipsInOrder
<1> QED
  BY <1>1, <1>2, <1>3, <1>5 DEF WorkInv

\* Generations and tips of what is known are numbers, the current job's the highest.
LEMMA KnownJobs ==
    ASSUME WorkInv
    PROVE  \A job \in Known : /\ job.gen \in Nat /\ job.tip \in Nat
                              /\ job.gen <= curJob.gen /\ job.tip <= curJob.tip
<1>1. Known \subseteq Jobs \cup {NoJob}
  BY FlightTypes DEF WorkInv, AgeInv, TypeInv, TypeOK, Known
<1>2. \A job \in Jobs \cup {NoJob} : job.gen \in Nat /\ job.tip \in Nat
  BY NoJobIsNone DEF Jobs
<1>3. curJob \in Known /\ NoJob.gen = 0
  BY NoJobIsNone DEF Known
<1>4. ASSUME NEW job \in Known PROVE job.gen <= curJob.gen
  <2>1. job.gen \in Nat /\ curJob.gen \in Nat
    BY <1>1, <1>2, <1>3
  <2>2. job = NoJob \/ job.gen < curJob.gen \/ job = curJob
    BY DEF WorkInv, AgeInv, OlderOrCurrent, Known
  <2> QED
    BY <1>3, <2>1, <2>2
<1>5. \A job \in Known : job.tip <= curJob.tip
  BY <1>3, <1>4 DEF WorkInv, TipsInOrder
<1> QED
  BY <1>1, <1>2, <1>4, <1>5

\* A step of the feed that publishes nothing.
LEMMA StillKeeps ==
    ASSUME WorkInv, UNCHANGED dispatchVars
    PROVE  AgeInv' /\ TipsInOrder' /\ UNCHANGED last
<1>1. AgeInv'
  BY AgeStep DEF WorkInv
<1>2. UNCHANGED <<curJob, queue, worker, sending, chan, hand, own, last>>
  BY DEF dispatchVars, managerVars, workerVars, connVars
<1>3. Elements(queue)' = Elements(queue) /\ \A c \in Conns : Carried(c)' = Carried(c)
  BY <1>2 DEF Elements, Carried
<1>4. Known' = Known
  BY <1>2, <1>3 DEF Known, InFlight
<1>5. TipsInOrder'
  BY <1>4 DEF WorkInv, TipsInOrder
<1> QED
  BY <1>1, <1>2, <1>5

\* Whatever the feed publishes is above all that is known.
LEMMA ApplyKeeps ==
    ASSUME WorkInv, NEW f \in Feed!Fetchers, pc[f] = "apply", Apply(f)
    PROVE  AgeInv' /\ TipsInOrder' /\ UNCHANGED last
<1>1. CASE UNCHANGED dispatchVars
  BY <1>1, StillKeeps
<1>2. CASE Publish(fetched[f].tip, fetched[f].payload, f = "accepted")
  <2>1. f \in FeedProofs!Fetchers
    BY DEF Feed!Fetchers, FeedProofs!Fetchers
  <2>2. fetched[f].tip \in Nat /\ curJob.tip <= fetched[f].tip
    BY <2>1, FeedProofs!TipsAreNumbers, WorkAssumption DEF WorkInv, FeedProofs!TipInv
  <2>3. fetched[f].payload \in Nat
    <3>1. fetched[f] \in FeedProofs!Templates \cup {FeedProofs!NoTemplate}
      BY <2>1 DEF WorkInv, FeedProofs!TypeOK
    <3> QED
      BY <3>1, WorkAssumption DEF FeedProofs!Templates, FeedProofs!NoTemplate
  <2>4. TypeInv' /\ curJob'.gen = curJob.gen + 1
    BY <1>2, <2>2, <2>3, PublishTypes DEF WorkInv, AgeInv
  <2>5. OlderOrCurrent'
    BY <1>2, <2>2, <2>3, AgePublish DEF WorkInv
  <2>6. /\ curJob'.tip = fetched[f].tip /\ InFlight' = InFlight /\ last' = last
    BY <1>2 DEF Publish, workerVars, connVars, InFlight, Carried, Elements
  <2>7. \A job \in Known : /\ job.gen \in Nat /\ job.tip \in Nat
                           /\ job.gen <= curJob.gen /\ job.tip <= curJob.tip
    BY KnownJobs
  <2>8. Known' \subseteq Known \cup {curJob'}
    BY <2>6 DEF Known
  <2>9. curJob \in Known
    BY DEF Known
  <2>10. \A job \in Known : job.gen < curJob'.gen /\ job.tip <= curJob'.tip
    BY <2>2, <2>4, <2>6, <2>7, <2>9
  <2>11. curJob'.gen \in Nat /\ curJob'.tip \in Nat
    BY <2>2, <2>4, <2>6, <2>7, <2>9
  <2>12. ASSUME NEW one \in Known \cup {curJob'}, NEW two \in Known \cup {curJob'},
                one.gen <= two.gen
         PROVE  one.tip <= two.tip
    <3>1. CASE one \in Known /\ two \in Known
      BY <2>12, <3>1 DEF WorkInv, TipsInOrder
    <3>2. CASE two = curJob'
      BY <2>10, <2>11, <3>2
    <3>3. CASE one = curJob' /\ two \in Known
      <4>1. two.gen < one.gen /\ two.gen \in Nat /\ one.gen \in Nat
        BY <2>7, <2>10, <2>11, <3>3
      <4> QED
        BY <2>12, <4>1
    <3> QED
      BY <3>1, <3>2, <3>3
  <2>13. TipsInOrder'
    BY <2>8, <2>12 DEF TipsInOrder
  <2> QED
    BY <2>4, <2>5, <2>6, <2>13 DEF AgeInv
<1> QED
  BY <1>1, <1>2 DEF Apply

\* The dispatch brings nothing new into flight, and a V1 miner gets what it gets in
\* the order of publication.
LEMMA CarryKeeps ==
    ASSUME WorkInv, Carry
    PROVE  AgeInv' /\ TipsInOrder' /\ \A c \in V1Conns : last'[c].tip >= last[c].tip
<1>1. Dispatch \/ \E c \in Conns : Serve(c) \/ Miner(c)
  BY DEF Carry
<1>2. AgeInv'
  BY <1>1, AgeStep DEF WorkInv, Next
<1>3. curJob' = curJob /\ InFlight' \subseteq InFlight \cup {curJob, NoJob}
  BY <1>1, FromManager DEF WorkInv, AgeInv
<1>4. Known' \subseteq Known
  BY <1>3 DEF Known
<1>5. TipsInOrder'
  BY <1>4 DEF WorkInv, TipsInOrder
<1>6. ASSUME NEW c \in V1Conns PROVE last'[c].tip >= last[c].tip
  <2>1. c \in Conns /\ last \in [Conns -> Jobs \cup {NoJob}]
    BY DEF Conns, WorkInv, AgeInv, TypeInv, TypeOK
  <2>2. last[c] \in Known
    BY <2>1 DEF Known, InFlight, Carried
  <2>3. last'[c] \in Known'
    BY <2>1 DEF Known, InFlight, Carried
  <2>4. last'[c] \in Known
    BY <1>4, <2>3
  <2>5. last[c].gen \in Nat /\ last[c].tip \in Nat /\ last'[c].tip \in Nat
    BY <2>2, <2>4, KnownJobs
  <2>6. last[c].gen <= last'[c].gen
    <3>1. CASE UNCHANGED last
      BY <2>5, <3>1
    <3>2. CASE \E d \in Conns, job \in Jobs : /\ last' = [last EXCEPT ![d] = job]
                                              /\ d \in V1Conns => last[d].gen <= job.gen
      <4>1. PICK d \in Conns, job \in Jobs : /\ last' = [last EXCEPT ![d] = job]
                                             /\ d \in V1Conns => last[d].gen <= job.gen
        BY <3>2
      <4>2. CASE c = d
        BY <2>1, <4>1, <4>2
      <4>3. CASE c # d
        BY <2>1, <2>5, <4>1, <4>3
      <4> QED
        BY <4>2, <4>3
    <3>3. UNCHANGED last \/ \E d \in Conns, job \in Jobs :
             /\ last' = [last EXCEPT ![d] = job]
             /\ d \in V1Conns => last[d].gen <= job.gen
      BY <1>1, WorkStep DEF WorkInv, Next
    <3> QED
      BY <3>1, <3>2, <3>3
  <2>7. last[c].tip <= last'[c].tip
    BY <2>2, <2>4, <2>6 DEF WorkInv, TipsInOrder
  <2> QED
    BY <2>5, <2>7
<1> QED
  BY <1>2, <1>5, <1>6

LEMMA WorkInvStep ==
    ASSUME WorkInv, [WorkNext]_vars
    PROVE  WorkInv' /\ \A c \in V1Conns : last'[c].tip >= last[c].tip
<1>1. [FeedProofs!Next]_(FeedProofs!vars)
  BY FeedStep DEF WorkInv, AgeInv
<1>2. FeedProofs!TypeOK'
  BY <1>1, FeedProofs!TypeStep, WorkAssumption DEF WorkInv
<1>3. FeedProofs!TipInv'
  BY <1>1, FeedProofs!TipStep, WorkAssumption DEF WorkInv
<1>4. \A c \in V1Conns : last[c].tip \in Nat
  BY KnownJobs DEF Known, InFlight, Carried, Conns
<1>5. CASE UNCHANGED dispatchVars
  <2>1. AgeInv' /\ TipsInOrder' /\ UNCHANGED last
    BY <1>5, StillKeeps
  <2> QED
    BY <1>2, <1>3, <1>4, <2>1 DEF WorkInv
<1>6. ASSUME NEW f \in Feed!Fetchers, pc[f] = "apply", Apply(f)
      PROVE  WorkInv' /\ \A c \in V1Conns : last'[c].tip >= last[c].tip
  BY <1>2, <1>3, <1>4, <1>6, ApplyKeeps DEF WorkInv
<1>7. CASE Carry
  BY <1>2, <1>3, <1>7, CarryKeeps DEF WorkInv
<1>8. \/ UNCHANGED dispatchVars \/ Carry
      \/ \E f \in Feed!Fetchers : pc[f] = "apply" /\ Apply(f)
  BY DEF WorkNext, Follow, vars
<1> QED
  BY <1>5, <1>6, <1>7, <1>8

LEMMA WorkInvariance == WorkSpec => []WorkInv
  BY WorkInvInit, WorkInvStep, PTL DEF WorkSpec

\* Queue, channels and connections together broadcast what the feed publishes: the
\* composition is a behaviour of JobFeed, whose theorems therefore hold of it.
THEOREM WorkIsFeed == WorkSpec => FeedProofs!Spec
<1>1. WorkInv /\ [WorkNext]_vars => [FeedProofs!Next]_(FeedProofs!vars)
  BY FeedStep DEF WorkInv, AgeInv
<1> QED
  BY <1>1, FeedInit, WorkInvariance, PTL DEF WorkSpec, FeedProofs!Spec

\* From bitcoind to the miner: no V1 miner is sent back to an earlier best block, for
\* any interleaving of the three ways to fetch a template, any queue, channels and
\* synchronous broadcasts, and any number of best blocks, jobs and connections.
THEOREM MinersNeverSentBack == WorkSpec => MinerTipNeverRegresses
<1>1. WorkInv /\ [WorkNext]_vars => [\A c \in V1Conns : last'[c].tip >= last[c].tip]_vars
  BY WorkInvStep
<1> QED
  BY <1>1, WorkInvariance, PTL DEF WorkSpec, MinerTipNeverRegresses
=============================================================================
