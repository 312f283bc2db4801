------------------------- MODULE ShareTracking_proofs -------------------------
(***************************************************************************)
(* Proofs about ShareTracking, for every set of solutions, every history   *)
(* and queue size, every freshness mode and every number of workers, jobs  *)
(* and submissions.                                                        *)
(***************************************************************************)
EXTENDS ShareTracking, SequenceTheorems, TLAPS

\* A sequence that gains a last element.
LEMMA AppendLast ==
    ASSUME NEW S, NEW s \in Seq(S), NEW e \in S
    PROVE  /\ Append(s, e) \in Seq(S)
           /\ Len(Append(s, e)) = Len(s) + 1
           /\ \A i \in 1..Len(s)+1 : Append(s, e)[i] = IF i = Len(s) + 1 THEN e ELSE s[i]
  BY LenProperties, SMTT(40)

\* A sequence that loses its first element and gains a last one.
LEMMA AppendTail ==
    ASSUME NEW S, NEW s \in Seq(S), s # <<>>, NEW e \in S
    PROVE  /\ Append(Tail(s), e) \in Seq(S)
           /\ Len(Append(Tail(s), e)) = Len(s)
           /\ \A i \in 1..Len(s) :
                 Append(Tail(s), e)[i] = IF i = Len(s) THEN e ELSE s[i+1]
<1> DEFINE t == Tail(s)
<1>1. /\ t \in Seq(S) /\ Len(t) = Len(s) - 1 /\ Len(s) \in Nat
      /\ \A i \in 1..Len(t) : t[i] = s[i+1]
  BY HeadTailProperties, LenProperties
<1> HIDE DEF t
<1>2. /\ Append(t, e) \in Seq(S) /\ Len(Append(t, e)) = Len(t) + 1
      /\ \A i \in 1..Len(t)+1 : Append(t, e)[i] = IF i = Len(t) + 1 THEN e ELSE t[i]
  BY <1>1, AppendLast
<1>3. Len(t) + 1 = Len(s)
  BY <1>1
<1>4. \A i \in 1..Len(s) : i # Len(s) => i \in 1..Len(t)
  BY <1>1
<1> QED
  BY <1>1, <1>2, <1>3, <1>4 DEF t

\* Retire keeps retiredJobOrder a sequence of jobs within its bound.
LEMMA RetireType ==
    ASSUME retired \in Seq(Jobs), Len(retired) <= MaxRecent, NEW j \in Jobs, Retire(j)
    PROVE  retired' \in Seq(Jobs) /\ Len(retired') <= MaxRecent
<1> DEFINE order == Append(retired, j)
<1>1. /\ order \in Seq(Jobs) /\ Len(order) = Len(retired) + 1 /\ Len(retired) \in Nat
      /\ order # <<>>
  BY AppendLast, LenProperties
<1>2. Tail(order) \in Seq(Jobs) /\ Len(Tail(order)) = Len(order) - 1
  BY <1>1, HeadTailProperties
<1> QED
  BY <1>1, <1>2, SizesAssumption DEF Retire

\* Adding to a duplicate set keeps it within its bound.
LEMMA AddType ==
    ASSUME NEW order \in Seq(Solutions), Len(order) <= DupHistory, NEW s \in Solutions
    PROVE  Add(order, s) \in Seq(Solutions) /\ Len(Add(order, s)) <= DupHistory
<1>0. DupHistory \in Nat /\ Len(order) <= DupHistory
  BY SizesAssumption
<1>1. DupEvict \in Nat /\ 1 <= DupEvict /\ DupEvict <= DupHistory
  BY SizesAssumption DEF DupEvict
<1>2. Len(order) \in Nat /\ order \in [1..Len(order) -> Solutions]
  BY LenProperties
<1> DEFINE kept == SubSeq(order, DupEvict + 1, Len(order))
<1>3. CASE Len(order) >= DupHistory
  <2>1. Len(order) = DupHistory
    <3>1. Len(order) \in Nat
      BY <1>2
    <3>2. \A m, n \in Nat : m <= n /\ m >= n => m = n
      OBVIOUS
    <3> QED
      BY ONLY <1>0, <1>3, <3>1, <3>2
  <2>2. \A i \in DupEvict + 1 .. Len(order) : order[i] \in Solutions
    BY <1>1, <1>2
  <2>3. /\ kept \in Seq(Solutions)
        /\ Len(kept) = IF DupEvict + 1 <= Len(order) THEN Len(order) - (DupEvict + 1) + 1 ELSE 0
    <3>1. DupEvict + 1 \in Int /\ Len(order) \in Int
      BY <1>1, <1>2
    <3> HIDE DEF kept
    <3> QED
      BY <2>2, <3>1, SubSeqProperties DEF kept
  <2>4. Len(kept) < DupHistory
    BY <2>1, <2>3, <1>1, SizesAssumption
  <2>5. Append(kept, s) \in Seq(Solutions) /\ Len(Append(kept, s)) = Len(kept) + 1
    BY <2>3, AppendLast
  <2> QED
    BY <1>3, <2>3, <2>4, <2>5, SizesAssumption DEF Add
<1>4. CASE ~(Len(order) >= DupHistory)
  BY <1>2, <1>4, SizesAssumption DEF Add
<1> QED
  BY <1>3, <1>4

StageType == stage' \in [Requests -> Stages] /\ outcome' \in [Requests -> Outcomes]
HandlerType == handler' \in 0..MaxSubmits

\* The session is at no submission or at one of them.
LEMMA Handlers == 0 \in 0..MaxSubmits /\ \A r \in Requests : r \in 0..MaxSubmits
  BY SizesAssumption DEF Requests

\* A verdict keeps stages, outcomes and the session in their ranges.
LEMMA DecideType ==
    ASSUME TypeOK, NEW r \in Requests, NEW v \in Outcomes, Decide(r, v)
    PROVE  StageType /\ HandlerType
<1>1. StageType
  BY DEF Decide, TypeOK, StageType, Stages
<1>2. handler' = 0 \/ handler' = handler
  BY DEF Decide
<1> QED
  BY <1>1, <1>2, Handlers DEF TypeOK, HandlerType

\* A submission that goes on keeps stages and outcomes in their ranges.
LEMMA GotoType ==
    ASSUME TypeOK, NEW r \in Requests, NEW to \in Stages, Goto(r, to)
    PROVE  StageType
  BY DEF Goto, TypeOK, StageType

\* A submission that has arrived names a job and a solution; what is queued has arrived.
Arrived ==
    /\ \A r \in Requests : stage[r] # "unsent" => task[r].job \in Jobs /\ task[r].sol \in Solutions
    /\ \A i \in 1..Len(queue) : stage[queue[i]] # "unsent"

TypeInv == TypeOK /\ Arrived

\* Initially everything is in its range.
LEMMA TypeInit == Init => TypeInv
<1> SUFFICES ASSUME Init PROVE TypeInv
  OBVIOUS
<1>1. newest \in 0..MaxJobs /\ handler \in 0..MaxSubmits
  BY SizesAssumption, Handlers DEF Init
<1>2. \A S : <<>> \in Seq(S) /\ Len(<<>>) = 0
  BY EmptySeq
<1>3. NoTask \in Tasks
  <2>1. 0 \in 0..MaxJobs
    BY SizesAssumption
  <2> QED
    BY <2>1 DEF NoTask, Tasks
<1>4. /\ active \in Seq(Jobs) /\ Len(active) <= MaxRecent
      /\ retired \in Seq(Jobs) /\ Len(retired) <= MaxRecent
      /\ queue \in Seq(Requests) /\ Len(queue) = 0
  BY <1>2, SizesAssumption DEF Init
<1>5. /\ seen \in [Jobs -> Seq(Solutions)] /\ \A j \in Jobs : Len(seen[j]) <= DupHistory
      /\ entered \in [Jobs -> Seq(Solutions)]
  BY <1>2, SizesAssumption DEF Init
<1>6. task \in [Requests -> Tasks]
  BY <1>3 DEF Init
<1>7. /\ stage \in [Requests -> Stages] /\ outcome \in [Requests -> Outcomes]
      /\ cache \in [Jobs -> CacheStates] /\ counted \subseteq Requests /\ acked \subseteq Requests
      /\ banned \in BOOLEAN /\ closed \in BOOLEAN /\ stats \in BOOLEAN /\ pool \in BOOLEAN
  BY DEF Init, Stages, Outcomes, CacheStates
<1>8. Arrived
  BY <1>4 DEF Init, Arrived
<1> QED
  BY <1>1, <1>4, <1>5, <1>6, <1>7, <1>8 DEF TypeInv, TypeOK

\* Every step keeps everything in its range.
LEMMA TypeStep ==
    ASSUME TypeOK, Arrived, [Next]_vars
    PROVE  TypeOK'
<1> USE SizesAssumption DEF TypeOK, CacheStates, Stages, Outcomes
<1>1. CASE Notify
  <2>1. newest' \in Jobs /\ newest' \in 0..MaxJobs
    BY <1>1 DEF Notify, Jobs
  <2>2. active' \in Seq(Jobs) /\ Len(active') <= MaxRecent /\ retired' \in Seq(Jobs)
        /\ Len(retired') <= MaxRecent /\ cache' \in [Jobs -> CacheStates]
    <3>1. CASE Len(active) < MaxRecent
      <4>1. active' = Append(active, newest') /\ retired' = retired
            /\ cache' \in [Jobs -> CacheStates]
        BY <1>1, <3>1 DEF Notify, KeepCache
      <4> QED
        BY <2>1, <3>1, <4>1, AppendLast, LenProperties
    <3>2. CASE ~(Len(active) < MaxRecent)
      <4>1. active' = Append(Tail(active), newest') /\ Retire(Head(active))
            /\ cache' \in [Jobs -> CacheStates]
        BY <1>1, <3>2 DEF Notify, KeepCache
      <4>2. active # <<>> /\ Len(active) \in Nat
        BY <3>2, EmptySeq, LenProperties
      <4>3. Head(active) \in Jobs
        BY <4>2, HeadTailProperties
      <4>4. active' \in Seq(Jobs) /\ Len(active') = Len(active)
        BY <2>1, <4>1, <4>2, AppendTail
      <4> QED
        BY <4>1, <4>3, <4>4, RetireType
    <3> QED
      BY <3>1, <3>2
  <2> QED
    BY <1>1, <2>1, <2>2 DEF Notify, connVars, taskVars
<1>2. CASE BanChanges
  BY <1>2 DEF BanChanges, jobVars, taskVars
<1>3. CASE Take
  <2>1. Head(queue) \in Requests /\ queue' \in Seq(Requests)
    BY <1>3, HeadTailProperties DEF Take
  <2> QED
    BY <1>3, <2>1 DEF Take, Goto, jobVars, connVars
<1>4. ASSUME NEW r \in Requests, Submit(r) PROVE TypeOK'
  <2>1. PICK j \in 1..newest, s \in Solutions : Prepare(r, j, s)
    BY <1>4 DEF Submit
  <2>2. [job |-> j, sol |-> s, age |-> newest - j, known |-> Known(j), stale |-> Stale(j),
         banned |-> banned] \in Tasks
    <3>1. j \in 0..MaxJobs /\ newest - j \in Nat
      BY <2>1
    <3>2. Known(j) \in BOOLEAN /\ Stale(j) \in BOOLEAN
      BY DEF Known, Stale
    <3> QED
      BY <3>1, <3>2 DEF Tasks
  <2>3. task' \in [Requests -> Tasks]
    BY <2>1, <2>2 DEF Prepare
  <2>4. StageType /\ HandlerType
    <3>1. CASE ~Known(j) /\ FreshnessMode > 0
      BY <2>1, <3>1, DecideType DEF Prepare
    <3>2. CASE ~(~Known(j) /\ FreshnessMode > 0)
      <4>1. handler' = r /\ stage' = [stage EXCEPT ![r] = "prepared"] /\ outcome' = outcome
        BY <2>1, <3>2 DEF Prepare
      <4> QED
        BY <4>1, Handlers DEF StageType, HandlerType
    <3> QED
      BY <3>1, <3>2
  <2> QED
    BY <1>4, <2>3, <2>4 DEF Submit, jobVars, connVars, StageType, HandlerType
<1>5. ASSUME NEW r \in Requests, Admit(r) PROVE TypeOK'
  <2>1. \/ (Goto(r, "good") \/ Goto(r, "taken")) /\ UNCHANGED <<handler, queue>>
        \/ Goto(r, "queued") /\ handler' = 0 /\ queue' = Append(queue, r)
        \/ Decide(r, "busy") /\ UNCHANGED queue
    BY <1>5 DEF Admit
  <2>2. StageType
    BY <2>1, DecideType, GotoType
  <2>3. HandlerType
    BY <2>1, DecideType, Handlers DEF HandlerType
  <2>4. queue' \in Seq(Requests)
    <3>1. queue \in Seq(Requests) /\ Append(queue, r) \in Seq(Requests)
      BY AppendLast
    <3>2. queue' = queue \/ queue' = Append(queue, r)
      BY <2>1
    <3> QED
      BY <3>1, <3>2
  <2> QED
    BY <1>5, <2>2, <2>3, <2>4 DEF Admit, jobVars, connVars, StageType, HandlerType
<1>6. ASSUME NEW r \in Requests, Judge(r) PROVE TypeOK'
  <2>1. StageType /\ HandlerType
    <3>1. \/ Decide(r, "banned") \/ Decide(r, "stale")
          \/ Goto(r, "found") /\ UNCHANGED handler
      BY <1>6 DEF Judge
    <3> QED
      BY <3>1, DecideType, GotoType DEF HandlerType
  <2>3. cache' \in [Jobs -> CacheStates]
    BY <1>6 DEF Judge
  <2>2. seen' \in [Jobs -> Seq(Solutions)] /\ \A j \in Jobs : Len(seen'[j]) <= DupHistory
    <3>1. <<>> \in Seq(Solutions) /\ Len(<<>>) <= DupHistory
      BY EmptySeq
    <3> QED
      BY <1>6, <3>1, ZenonT(60) DEF Judge
  <2> QED
    BY <1>6, <2>1, <2>2, <2>3 DEF Judge, connVars, StageType, HandlerType
<1>7. ASSUME NEW r \in Requests, Enter(r) PROVE TypeOK'
  <2>1. StageType /\ HandlerType
    <3>1. \/ Decide(r, "duplicate") \/ Decide(r, "low")
          \/ Goto(r, "good") /\ UNCHANGED handler
      BY <1>7 DEF Enter
    <3> QED
      BY <3>1, DecideType, GotoType DEF HandlerType
  <2> DEFINE j == task[r].job
             s == task[r].sol
             order == Add(seen[j], s)
  <2>2. /\ seen' = [seen EXCEPT ![j] = order]
        /\ entered' = entered \/ entered' = [entered EXCEPT ![j] = Append(@, s)]
    BY <1>7 DEF Enter
  <2>3. CASE j \in Jobs /\ s \in Solutions
    <3>1. order \in Seq(Solutions) /\ Len(order) <= DupHistory
      BY <2>3, AddType
    <3>2. Append(entered[j], s) \in Seq(Solutions)
      BY <2>3, AppendLast
    <3>3. seen' \in [Jobs -> Seq(Solutions)] /\ \A k \in Jobs : Len(seen'[k]) <= DupHistory
      <4> HIDE DEF order
      <4> QED
        BY <2>2, <3>1
    <3>4. entered' \in [Jobs -> Seq(Solutions)]
      BY <2>2, <3>2
    <3> QED
      BY <1>7, <2>1, <3>3, <3>4 DEF Enter, connVars, StageType, HandlerType
  <2>4. j \in Jobs /\ s \in Solutions
    BY <1>7 DEF Enter, Arrived
  <2> QED
    BY <2>3, <2>4
<1>8. ASSUME NEW r \in Requests, Count(r) PROVE TypeOK'
  BY <1>8 DEF Count, Goto, jobVars, connVars
<1>9. ASSUME NEW r \in Requests, Acknowledge(r) PROVE TypeOK'
  BY <1>9 DEF Acknowledge, Decide, jobVars, connVars
<1>10. CASE Close
  BY <1>10 DEF Close, jobVars, taskVars
<1>11. CASE CloseStats
  BY <1>11 DEF CloseStats, jobVars, taskVars
<1>12. CASE ClosePool
  BY <1>12 DEF ClosePool, jobVars, connVars
<1>13. CASE UNCHANGED vars
  BY <1>13 DEF vars, jobVars, connVars, taskVars
<1> QED
  BY <1>1, <1>2, <1>3, <1>4, <1>5, <1>6, <1>7, <1>8, <1>9, <1>10, <1>11, <1>12, <1>13
     DEF Next, Process

\* Every step keeps what has arrived.
LEMMA ArrivedStep ==
    ASSUME TypeOK, Arrived, [Next]_vars
    PROVE  Arrived'
<1> USE SizesAssumption DEF Arrived
<1>1. CASE UNCHANGED <<task, stage, queue>>
  BY <1>1
<1>2. CASE Take
  <2>1. queue # <<>> /\ queue \in Seq(Requests) /\ queue' = Tail(queue)
    BY <1>2 DEF Take, TypeOK
  <2>2. Len(queue) \in Nat /\ 1 \in 1..Len(queue) /\ Head(queue) = queue[1] /\ queue[1] \in Requests
    BY <2>1, EmptySeq, LenProperties, ElementOfSeq
  <2>3. stage[queue[1]] # "unsent" /\ stage' = [stage EXCEPT ![queue[1]] = "taken"] /\ task' = task
    BY <1>2, <2>2 DEF Take, Goto
  <2>4. \A r \in Requests : stage[r] # "unsent" <=> stage'[r] # "unsent"
    BY <2>2, <2>3 DEF TypeOK
  <2>5. \A i \in 1..Len(queue') : queue'[i] = queue[i+1] /\ i+1 \in 1..Len(queue) /\ queue[i+1] \in Requests
    <3>1. Len(Tail(queue)) = Len(queue) - 1 /\ \A i \in 1..Len(Tail(queue)) : Tail(queue)[i] = queue[i+1]
      BY <2>1, HeadTailProperties
    <3>2. \A i \in 1..Len(queue') : i+1 \in 1..Len(queue)
      BY <2>1, <2>2, <3>1
    <3> QED
      BY <2>1, <3>1, <3>2, ElementOfSeq
  <2> QED
    BY <2>3, <2>4, <2>5
<1>3. ASSUME NEW r \in Requests, Submit(r) PROVE Arrived'
  <2>1. PICK j \in 1..newest, s \in Solutions : Prepare(r, j, s)
    BY <1>3 DEF Submit
  <2>2. /\ j \in Jobs /\ task'[r].job = j /\ task'[r].sol = s
        /\ \A q \in Requests \ {r} : task'[q] = task[q] /\ stage'[q] = stage[q]
    BY <2>1, SMTT(30) DEF Prepare, Decide, TypeOK, Jobs
  <2>3. stage'[r] # "unsent" /\ queue' = queue
    BY <1>3, <2>1 DEF Submit, Prepare, Decide, TypeOK
  <2>4. \A i \in 1..Len(queue) : queue[i] \in Requests
    BY ElementOfSeq DEF TypeOK
  <2> QED
    BY <2>2, <2>3, <2>4
<1>4. ASSUME NEW r \in Requests, Process(r) PROVE Arrived'
  <2>1. /\ stage[r] # "unsent" /\ stage'[r] # "unsent" /\ task' = task
        /\ \A q \in Requests \ {r} : stage'[q] = stage[q]
    BY <1>4 DEF Process, Admit, Judge, Enter, Count, Acknowledge, Decide, Goto, TypeOK
  <2>2. queue' = queue \/ queue' = Append(queue, r)
    BY <1>4 DEF Process, Admit, Judge, Enter, Count, Acknowledge
  <2>3. \A i \in 1..Len(queue) : queue[i] \in Requests
    BY ElementOfSeq DEF TypeOK
  <2>4. \A i \in 1..Len(queue') : queue'[i] = r \/ (i \in 1..Len(queue) /\ queue'[i] = queue[i])
    <3>1. CASE queue' = queue
      BY <3>1
    <3>2. CASE queue' = Append(queue, r)
      <4>1. /\ Len(queue') = Len(queue) + 1 /\ Len(queue) \in Nat
            /\ \A i \in 1..Len(queue)+1 : queue'[i] = IF i = Len(queue) + 1 THEN r ELSE queue[i]
        BY <3>2, AppendLast, LenProperties DEF TypeOK
      <4> QED
        BY <4>1
    <3> QED
      BY <2>2, <3>1, <3>2
  <2> QED
    BY <2>1, <2>3, <2>4
<1> QED
  BY <1>1, <1>2, <1>3, <1>4 DEF Next, Notify, BanChanges, Close, CloseStats, ClosePool, taskVars, vars

\* Every variable stays in its range: the job lists and the duplicate sets within
\* their bounds (miner_rejects.go:661, 734, miner_duplicates.go:130).
THEOREM TypeCorrect == Spec => []TypeOK
<1>1. TypeInv /\ [Next]_vars => TypeInv'
  BY TypeStep, ArrivedStep DEF TypeInv
<1>2. TypeInv => TypeOK
  BY DEF TypeInv
<1> QED
  BY TypeInit, <1>1, <1>2, PTL DEF Spec

-----------------------------------------------------------------------------
(***************************************************************************)
(* A success on the socket is in the statistics.  The session's socket is  *)
(* open only while its statistics are, so what has been counted and is     *)
(* still to be answered on an open socket was really counted.              *)
(***************************************************************************)
CountInv ==
    /\ acked \subseteq counted
    /\ ~closed => stats
    /\ \A r \in Requests : stage[r] = "counted" /\ ~closed => r \in counted

\* Every step keeps the statistics ahead of the answers.
LEMMA CountStep ==
    ASSUME TypeOK, Arrived, CountInv, [Next]_vars
    PROVE  CountInv'
<1> USE DEF CountInv
<1>1. CASE UNCHANGED <<acked, counted, closed, stats, stage>>
  BY <1>1
<1>2. CASE Take
  <2>1. /\ UNCHANGED <<acked, counted, closed, stats>>
        /\ stage' = [stage EXCEPT ![Head(queue)] = "taken"]
    BY <1>2 DEF Take, Goto, connVars, jobVars
  <2> QED
    BY <2>1 DEF TypeOK
<1>3. ASSUME NEW r \in Requests, Submit(r) \/ Admit(r) \/ Judge(r) \/ Enter(r) PROVE CountInv'
  <2>1. UNCHANGED <<acked, counted, closed, stats>>
    BY <1>3 DEF Submit, Admit, Judge, Enter, connVars, jobVars
  <2>2. \A q \in Requests : stage'[q] = "counted" => stage[q] = "counted"
    BY <1>3 DEF Submit, Prepare, Admit, Judge, Enter, Decide, Goto, TypeOK
  <2> QED
    BY <2>1, <2>2
<1>4. ASSUME NEW r \in Requests, Count(r) PROVE CountInv'
  <2>1. /\ UNCHANGED <<acked, closed, stats>>
        /\ counted' = IF stats THEN counted \cup {r} ELSE counted
        /\ stage' = [stage EXCEPT ![r] = "counted"]
    BY <1>4 DEF Count, Goto, connVars, jobVars
  <2>2. \A q \in Requests : q # r => stage'[q] = stage[q]
    BY <2>1 DEF TypeOK
  <2> QED
    BY <2>1, <2>2
<1>5. ASSUME NEW r \in Requests, Acknowledge(r) PROVE CountInv'
  <2>1. /\ UNCHANGED <<counted, closed, stats>> /\ stage[r] = "counted"
        /\ stage' = [stage EXCEPT ![r] = "done"]
        /\ acked' = IF closed THEN acked ELSE acked \cup {r}
    BY <1>5 DEF Acknowledge, Decide, connVars, jobVars
  <2>2. \A q \in Requests : stage'[q] = "counted" => stage[q] = "counted"
    BY <2>1 DEF TypeOK
  <2> QED
    BY <2>1, <2>2
<1>6. CASE Close
  BY <1>6 DEF Close, taskVars
<1>7. CASE CloseStats
  BY <1>7 DEF CloseStats, taskVars
<1>8. CASE ClosePool
  BY <1>8 DEF ClosePool, connVars
<1> QED
  BY <1>1, <1>2, <1>3, <1>4, <1>5, <1>6, <1>7, <1>8
     DEF Next, Process, Notify, BanChanges, vars, connVars, taskVars

\* What the miner was told was accepted on an open socket is in the connection's
\* statistics (miner_conn.go:23-41, miner_stats.go:218-258).
THEOREM AckedCounted == Spec => []AckedIsCounted
<1>1. Init => CountInv
  BY DEF Init, CountInv
<1>2. TypeInv /\ CountInv /\ [Next]_vars => TypeInv' /\ CountInv'
  BY TypeStep, ArrivedStep, CountStep DEF TypeInv
<1>3. CountInv => AckedIsCounted
  BY DEF CountInv, AckedIsCounted
<1> QED
  BY TypeInit, <1>1, <1>2, <1>3, PTL DEF Spec

-----------------------------------------------------------------------------
(***************************************************************************)
(* A winning share on a job of the window is handled.  The window: the     *)
(* active jobs are the newest ones in order, the retired ones precede      *)
(* them, and neither list has a gap or is cut before it is full.           *)
(***************************************************************************)
Window ==
    /\ \A i \in 1..Len(active) : active[i] = newest - Len(active) + i
    /\ \A i \in 1..Len(retired) : retired[i] = newest - Len(active) - Len(retired) + i
    /\ Len(active) = MaxRecent \/ (Len(active) = newest /\ Len(retired) = 0)
    /\ Len(retired) = MaxRecent \/ newest = Len(active) + Len(retired)
    /\ Len(active) + Len(retired) <= newest

\* Retiring a job appends it and drops the oldest of a full list.
LEMMA RetireEffect ==
    ASSUME retired \in Seq(Jobs), Len(retired) <= MaxRecent, NEW j \in Jobs, Retire(j)
    PROVE  \/ /\ Len(retired) < MaxRecent /\ Len(retired') = Len(retired) + 1
              /\ \A i \in 1..Len(retired)+1 :
                    retired'[i] = IF i = Len(retired) + 1 THEN j ELSE retired[i]
           \/ /\ Len(retired) = MaxRecent /\ Len(retired') = Len(retired)
              /\ \A i \in 1..Len(retired) :
                    retired'[i] = IF i = Len(retired) THEN j ELSE retired[i+1]
<1> DEFINE order == Append(retired, j)
<1>1. /\ order \in Seq(Jobs) /\ Len(order) = Len(retired) + 1 /\ Len(retired) \in Nat
      /\ \A i \in 1..Len(retired)+1 : order[i] = IF i = Len(retired) + 1 THEN j ELSE retired[i]
  BY AppendLast, LenProperties
<1>2. order # <<>>
  BY <1>1, EmptySeq
<1>3. Len(Tail(order)) = Len(retired) /\ \A i \in 1..Len(retired) : Tail(order)[i] = order[i+1]
  BY <1>1, <1>2, HeadTailProperties
<1>4. retired' = IF Len(order) > MaxRecent THEN Tail(order) ELSE order
  BY DEF Retire
<1> HIDE DEF order
<1>5. MaxRecent \in Nat /\ Len(retired) <= MaxRecent
  BY SizesAssumption
<1>6. CASE Len(retired) < MaxRecent
  <2>1. retired' = order
    BY <1>1, <1>4, <1>5, <1>6
  <2> QED
    BY <1>1, <1>6, <2>1
<1>7. CASE ~(Len(retired) < MaxRecent)
  <2>1. Len(retired) = MaxRecent /\ retired' = Tail(order)
    BY <1>1, <1>4, <1>5, <1>7
  <2>2. \A i \in 1..Len(retired) : i+1 \in 1..Len(retired)+1 /\ (i + 1 = Len(retired) + 1 <=> i = Len(retired))
    BY <1>1
  <2>3. \A i \in 1..Len(retired) : retired'[i] = IF i = Len(retired) THEN j ELSE retired[i+1]
    BY <1>1, <1>3, <2>1, <2>2
  <2> QED
    BY <1>3, <2>1, <2>3
<1> QED
  BY <1>6, <1>7

\* Every notification slides the window.
LEMMA WindowNotify ==
    ASSUME TypeOK, Window, Notify
    PROVE  Window'
<1> DEFINE L == Len(active)
           R == Len(retired)
<1>1. /\ L \in Nat /\ R \in Nat /\ newest \in Nat /\ MaxRecent \in Nat \ {0}
      /\ L <= MaxRecent /\ R <= MaxRecent
  BY LenProperties, SizesAssumption DEF TypeOK
<1>2. newest' = newest + 1 /\ newest' \in Jobs
  BY SizesAssumption DEF Notify, Jobs, TypeOK
<1>3. CASE L < MaxRecent
  <2>1. active' = Append(active, newest') /\ retired' = retired
    BY <1>3 DEF Notify
  <2>2. /\ Len(active') = L + 1
        /\ \A i \in 1..L+1 : active'[i] = IF i = L + 1 THEN newest' ELSE active[i]
    BY <1>2, <2>1, AppendLast DEF TypeOK
  <2>3. L = newest /\ R = 0
    BY <1>1, <1>3 DEF Window
  <2>4. \A i \in 1..L+1 : i # L + 1 => i \in 1..L
    BY <1>1
  <2>5. \A i \in 1..L+1 : active'[i] = i
    BY <1>1, <1>2, <2>2, <2>3, <2>4 DEF Window
  <2> QED
    BY <1>1, <1>2, <2>1, <2>2, <2>3, <2>5 DEF Window
<1>4. CASE ~(L < MaxRecent)
  <2>1. L = MaxRecent /\ active # <<>>
    BY <1>1, <1>4, EmptySeq
  <2>2. active' = Append(Tail(active), newest') /\ Retire(Head(active))
    BY <1>4 DEF Notify
  <2>3. /\ Len(active') = L
        /\ \A i \in 1..L : active'[i] = IF i = L THEN newest' ELSE active[i+1]
    BY <1>2, <2>1, <2>2, AppendTail DEF TypeOK
  <2>4. Head(active) \in Jobs /\ Head(active) = newest - L + 1
    <3>1. Head(active) \in Jobs /\ Head(active) = active[1]
      BY <2>1, HeadTailProperties DEF TypeOK
    <3>2. 1 \in 1..L
      BY <1>1, <2>1
    <3> QED
      BY <3>1, <3>2 DEF Window
  <2>5. \A i \in 1..L : active'[i] = newest' - L + i
    <3>1. \A i \in 1..L : i # L => i+1 \in 1..L
      BY <1>1
    <3>2. \A i \in 1..L : i # L => active'[i] = newest - L + (i + 1)
      BY <2>3, <3>1 DEF Window
    <3> QED
      BY <1>1, <1>2, <2>3, <3>2
  <2>6. \/ /\ R < MaxRecent /\ Len(retired') = R + 1
           /\ \A i \in 1..R+1 : retired'[i] = IF i = R + 1 THEN Head(active) ELSE retired[i]
        \/ /\ R = MaxRecent /\ Len(retired') = R
           /\ \A i \in 1..R : retired'[i] = IF i = R THEN Head(active) ELSE retired[i+1]
    BY <2>2, <2>4, RetireEffect DEF TypeOK
  <2>7. CASE R < MaxRecent
    <3>1. newest = L + R /\ Len(retired') = R + 1
      BY <1>1, <2>6, <2>7 DEF Window
    <3>2. \A i \in 1..R+1 : i # R + 1 => i \in 1..R
      BY <1>1
    <3>3. \A i \in 1..R+1 : i # R + 1 => retired'[i] = newest - L - R + i
      BY <1>1, <2>6, <2>7, <3>2 DEF Window
    <3>4. retired'[R + 1] = newest - L + 1
      BY <1>1, <2>4, <2>6, <2>7
    <3>5. \A i \in 1..R+1 : retired'[i] = newest' - L - (R + 1) + i
      BY <1>1, <1>2, <3>3, <3>4
    <3> HIDE DEF L, R
    <3>6. Len(active') = MaxRecent /\ newest' = L + (R + 1)
      BY <1>1, <1>2, <2>1, <2>3, <3>1
    <3> QED
      BY <1>1, <1>2, <2>1, <2>3, <2>5, <3>1, <3>5, <3>6 DEF Window
  <2>8. CASE R = MaxRecent
    <3>1. Len(retired') = R
      BY <1>1, <2>6, <2>8
    <3>2. \A i \in 1..R : i # R => i+1 \in 1..R
      BY <1>1
    <3>3. \A i \in 1..R : i # R => retired'[i] = newest - L - R + (i + 1)
      BY <1>1, <2>6, <2>8, <3>2 DEF Window
    <3>4. R \in 1..R /\ retired'[R] = newest - L + 1
      BY <1>1, <2>4, <2>6, <2>8
    <3>5. \A i \in 1..R : retired'[i] = newest' - L - R + i
      BY <1>1, <1>2, <3>3, <3>4
    <3>6. L + R <= newest
      BY DEF Window
    <3> HIDE DEF L, R
    <3> QED
      BY <1>1, <1>2, <2>1, <2>3, <2>5, <2>8, <3>1, <3>5, <3>6 DEF Window
  <2> QED
    BY <1>1, <2>7, <2>8
<1> QED
  BY <1>3, <1>4

\* Only notifications move the window.
LEMMA WindowStep ==
    ASSUME TypeOK, Window, [Next]_vars
    PROVE  Window'
<1>1. CASE Notify
  BY <1>1, WindowNotify
<1>2. CASE UNCHANGED <<newest, active, retired>>
  BY <1>2 DEF Window
<1> QED
  BY <1>1, <1>2 DEF Next, Process, BanChanges, Take, Submit, Admit, Judge, Enter, Count,
     Acknowledge, Close, CloseStats, ClosePool, vars, jobVars

\* The last 2 * MaxRecent jobs are known.
LEMMA RecentIsKnown ==
    ASSUME TypeOK, Window, NEW j \in 1..newest, newest - j < 2 * MaxRecent
    PROVE  Known(j)
<1> DEFINE L == Len(active)
           R == Len(retired)
<1>1. /\ L \in Nat /\ R \in Nat /\ newest \in Nat /\ MaxRecent \in Nat \ {0} /\ j \in Nat
      /\ 1 <= j /\ j <= newest
      /\ DOMAIN active = 1..L /\ DOMAIN retired = 1..R
  BY LenProperties, SizesAssumption DEF TypeOK
<1>2. CASE j > newest - L
  <2>1. j - (newest - L) \in 1..L
    BY <1>1, <1>2
  <2>2. active[j - (newest - L)] = newest - L + (j - (newest - L))
    BY <2>1 DEF Window
  <2>3. active[j - (newest - L)] = j
    BY <1>1, <2>2
  <2> QED
    BY <1>1, <2>1, <2>3 DEF Known, Elements
<1>3. CASE j <= newest - L
  <2> DEFINE i == j - (newest - L - R)
  <2>1. L = MaxRecent /\ (R = MaxRecent \/ newest = L + R)
    <3>1. L # newest
      <4> HIDE DEF L, R
      <4>1. L \in Nat /\ newest \in Nat /\ j \in Nat /\ 1 <= j
        BY <1>1
      <4> QED
        BY ONLY <1>3, <4>1
    <3>2. (L = MaxRecent \/ L = newest) /\ (R = MaxRecent \/ newest = L + R)
      BY DEF Window
    <3> QED
      BY <3>1, <3>2
  <2>2. newest - j < 2 * MaxRecent
    OBVIOUS
  <2>3. i \in 1..R
    <3> HIDE DEF L, R
    <3>1. CASE R = MaxRecent
      BY <1>1, <1>3, <2>1, <2>2, <3>1
    <3>2. CASE newest = L + R
      BY <1>1, <1>3, <3>2
    <3> QED
      BY <2>1, <3>1, <3>2
  <2>4. retired[i] = newest - L - R + i
    <3> HIDE DEF i
    <3> QED
      BY <2>3 DEF Window
  <2>5. retired[i] = j
    BY <1>1, <2>4
  <2> QED
    BY <1>1, <2>3, <2>5 DEF Known, Elements
<1> QED
  BY <1>1, <1>2, <1>3

Wide(r) == task[r].sol \in Winning /\ task[r].age < 2 * MaxRecent

WinInv ==
    /\ \A r \in Requests : stage[r] = "unsent" => outcome[r] = "none"
    /\ \A r \in Requests : Wide(r) /\ stage[r] # "unsent" =>
          /\ task[r].known
          /\ outcome[r] \in {"none", "block"}
          /\ stage[r] \notin {"queued", "taken", "found"}
    /\ \A i \in 1..Len(queue) : ~Wins(queue[i])

\* What arrives on a job of the window is known; the other submissions stay as they are.
LEMMA WinSubmit ==
    ASSUME TypeOK, Arrived, Window, WinInv, NEW r \in Requests, Submit(r)
    PROVE  WinInv'
<1>1. PICK j \in 1..newest, s \in Solutions : Prepare(r, j, s)
  BY DEF Submit
<1>2. /\ stage[r] = "unsent" /\ queue' = queue
      /\ task' = [task EXCEPT ![r] = [job |-> j, sol |-> s, age |-> newest - j, known |-> Known(j),
                                      stale |-> Stale(j), banned |-> banned]]
  BY <1>1 DEF Submit, Prepare
<1>3. /\ task'[r].known = Known(j) /\ task'[r].age = newest - j
      /\ \A q \in Requests \ {r} : task'[q] = task[q]
  BY <1>2 DEF TypeOK
<1>4. \A q \in Requests \ {r} : stage'[q] = stage[q] /\ outcome'[q] = outcome[q]
  BY <1>1 DEF Prepare, Decide, TypeOK
<1>5. stage'[r] # "unsent"
  BY <1>1 DEF Prepare, Decide, TypeOK
<1>6. Wide(r)' => Known(j)
  BY <1>3, RecentIsKnown DEF Wide
<1>7. Known(j) => stage'[r] = "prepared" /\ outcome'[r] = "none"
  BY <1>1, <1>2 DEF Prepare, WinInv, TypeOK
<1>8. \A i \in 1..Len(queue) : queue[i] \in Requests \ {r}
  BY <1>2, ElementOfSeq DEF TypeOK, Arrived
<1> QED
  BY <1>2, <1>3, <1>4, <1>5, <1>6, <1>7, <1>8 DEF WinInv, Wide, Wins

\* Only what does not win leaves the session, and only that is judged.
LEMMA WinStep ==
    ASSUME TypeOK, Arrived, Window, WinInv, [Next]_vars
    PROVE  WinInv'
<1>1. CASE UNCHANGED <<task, stage, outcome, queue>>
  BY <1>1 DEF WinInv, Wide, Wins
<1>2. CASE Take
  <2>1. /\ queue # <<>> /\ queue' = Tail(queue) /\ stage' = [stage EXCEPT ![Head(queue)] = "taken"]
        /\ UNCHANGED <<task, outcome>>
    BY <1>2 DEF Take, Goto
  <2>2. /\ Head(queue) = queue[1] /\ queue[1] \in Requests /\ Len(queue) \in Nat /\ 1 \in 1..Len(queue)
        /\ Len(queue') = Len(queue) - 1 /\ \A i \in 1..Len(queue') : queue'[i] = queue[i+1]
    <3>1. Len(queue) \in Nat /\ Len(queue) # 0
      BY <2>1, EmptySeq, LenProperties DEF TypeOK
    <3> QED
      BY <2>1, <3>1, HeadTailProperties, ElementOfSeq DEF TypeOK
  <2>3. ~Wins(queue[1]) /\ stage[queue[1]] # "unsent"
    BY <2>2 DEF WinInv, Arrived
  <2>4. ~Wide(queue[1])
    BY <2>2, <2>3 DEF WinInv, Wide, Wins
  <2>5. \A i \in 1..Len(queue') : i+1 \in 1..Len(queue)
    BY <2>2
  <2>6. \A q \in Requests : stage'[q] = IF q = queue[1] THEN "taken" ELSE stage[q]
    BY <2>1, <2>2 DEF TypeOK
  <2> QED
    BY <2>1, <2>2, <2>4, <2>5, <2>6 DEF WinInv, Wide, Wins
<1>3. ASSUME NEW r \in Requests, Submit(r) PROVE WinInv'
  BY <1>3, WinSubmit
<1>4. ASSUME NEW r \in Requests, Admit(r) PROVE WinInv'
  <2>1. /\ task' = task /\ stage[r] = "prepared"
        /\ \A q \in Requests \ {r} : stage'[q] = stage[q] /\ outcome'[q] = outcome[q]
    BY <1>4 DEF Admit, Decide, Goto, TypeOK
  <2>2. stage'[r] # "unsent"
    BY <1>4 DEF Admit, Decide, Goto, TypeOK
  <2>3. CASE Wins(r)
    <3>1. queue' = queue /\ stage'[r] = "good" /\ outcome' = outcome
      BY <1>4, <2>3 DEF Admit, Goto, TypeOK
    <3> QED
      BY <2>1, <3>1 DEF WinInv, Wide, Wins
  <2>4. CASE ~Wins(r)
    <3>1. ~Wide(r)
      BY <2>1, <2>4 DEF WinInv, Wide, Wins
    <3>2. \A i \in 1..Len(queue') : ~Wins(queue'[i])
      <4>1. queue' = queue \/ queue' = Append(queue, r)
        BY <1>4 DEF Admit
      <4>2. CASE queue' = queue
        BY <4>2 DEF WinInv
      <4>3. CASE queue' = Append(queue, r)
        <5>1. /\ Len(queue') = Len(queue) + 1 /\ Len(queue) \in Nat
              /\ \A i \in 1..Len(queue)+1 : queue'[i] = IF i = Len(queue) + 1 THEN r ELSE queue[i]
          <6>1. queue \in Seq(Requests)
            BY DEF TypeOK
          <6> QED
            BY <4>3, <6>1, AppendLast, LenProperties
        <5>2. \A i \in 1..Len(queue)+1 : i # Len(queue) + 1 => i \in 1..Len(queue)
          BY <5>1
        <5> QED
          BY <2>4, <5>1, <5>2 DEF WinInv
      <4> QED
        BY <4>1, <4>2, <4>3
    <3> QED
      BY <2>1, <2>2, <3>1, <3>2 DEF WinInv, Wide, Wins
  <2> QED
    BY <2>3, <2>4
<1>5. ASSUME NEW r \in Requests, Judge(r) \/ Enter(r) PROVE WinInv'
  <2>1. /\ UNCHANGED <<task, queue>> /\ stage[r] \in {"taken", "found"}
    BY <1>5 DEF Judge, Enter
  <2>2. \A q \in Requests \ {r} : stage'[q] = stage[q] /\ outcome'[q] = outcome[q]
    BY <1>5 DEF Judge, Enter, Decide, Goto, TypeOK
  <2>3. stage'[r] # "unsent"
    BY <1>5 DEF Judge, Enter, Decide, Goto, TypeOK
  <2>4. ~Wide(r)
    BY <2>1 DEF WinInv
  <2> QED
    BY <2>1, <2>2, <2>3, <2>4 DEF WinInv, Wide, Wins
<1>6. ASSUME NEW r \in Requests, Count(r) PROVE WinInv'
  <2>1. /\ UNCHANGED <<task, queue, outcome>> /\ stage[r] = "good"
        /\ stage' = [stage EXCEPT ![r] = "counted"]
    BY <1>6 DEF Count, Goto
  <2> QED
    BY <2>1 DEF WinInv, Wide, Wins, TypeOK
<1>7. ASSUME NEW r \in Requests, Acknowledge(r) PROVE WinInv'
  <2>1. /\ UNCHANGED <<task, queue>> /\ stage[r] = "counted"
        /\ stage' = [stage EXCEPT ![r] = "done"]
        /\ outcome' = [outcome EXCEPT ![r] = IF Wins(r) THEN "block" ELSE "ok"]
    BY <1>7 DEF Acknowledge, Decide
  <2>2. Wide(r) => Wins(r)
    BY <2>1 DEF WinInv, Wide, Wins
  <2> QED
    BY <2>1, <2>2 DEF WinInv, Wide, Wins, TypeOK
<1> QED
  BY <1>1, <1>2, <1>3, <1>4, <1>5, <1>6, <1>7
     DEF Next, Process, Notify, BanChanges, Close, CloseStats, ClosePool, vars, taskVars

\* Initially the window and the queue are empty.
LEMMA WinInit == Init => Window /\ WinInv
<1> SUFFICES ASSUME Init PROVE Window /\ WinInv
  OBVIOUS
<1>1. Len(active) = 0 /\ Len(retired) = 0 /\ Len(queue) = 0
  BY EmptySeq DEF Init
<1> QED
  BY <1>1 DEF Init, Window, WinInv

\* A winning share on a job of the window reaches handleBlockShare and never
\* waits in the queue (miner_rejects.go:706-739, miner_submit_process.go:165-217,
\* miner_submit_handlers.go:29-35).
THEOREM WinningHandled == Spec => []WinningShareIsHandled
<1>1. TypeInv /\ Window /\ WinInv /\ [Next]_vars => TypeInv' /\ Window' /\ WinInv'
  BY TypeStep, ArrivedStep, WindowStep, WinStep DEF TypeInv
<1>2. WinInv => WinningShareIsHandled
  BY DEF WinInv, Wide, WinningShareIsHandled
<1> QED
  BY TypeInit, WinInit, <1>1, <1>2, PTL DEF Spec

-----------------------------------------------------------------------------
(***************************************************************************)
(* The same work passes the duplicate check of its job only far apart.     *)
(* While a job's duplicate set is in one of the two maps it is the end of  *)
(* what has passed its check, and it is cut only when it is full.  The set *)
(* leaves the maps only when nothing that could still pass the check       *)
(* refers to the job.                                                      *)
(***************************************************************************)
Kept == {"active", "evicted"}

\* order is the end of log: all of it, or what an eviction left and more.
IsEnd(order, log) ==
    /\ Len(order) <= Len(log)
    /\ \A i \in 1..Len(order) : order[i] = log[Len(log) - Len(order) + i]
    /\ Len(order) = Len(log) \/ Len(order) >= DupHistory - DupEvict + 1

FarApart(log) ==
    \A p, q \in 1..Len(log) : p < q /\ log[p] = log[q] => q - p > DupHistory - DupEvict + 1

Fresh(j) == cache[j] = "none" => entered[j] = <<>>
Gone(j) == cache[j] \in {"evicted", "expired"} => j \in 1..newest /\ j \notin Elements(active)
Refused(r) ==
    /\ stage[r] \in {"prepared", "queued", "taken"} /\ cache[task[r].job] = "expired" => task[r].stale
    /\ stage[r] = "found" => cache[task[r].job] \in Kept
Recorded(j) == cache[j] \in Kept => IsEnd(seen[j], entered[j])

DupInv ==
    /\ \A j \in Jobs : Fresh(j) /\ Gone(j) /\ Recorded(j) /\ FarApart(entered[j])
    /\ \A r \in Requests : Refused(r)

\* A tenth of the history, and at least one entry, is evicted.
LEMMA EvictSize ==
    /\ DupHistory \in Nat /\ DupEvict \in Nat
    /\ 1 <= DupEvict /\ DupEvict <= DupHistory
  BY SizesAssumption DEF DupEvict

\* What is added to the end of a log is the end of the longer log.
LEMMA AddEnd ==
    ASSUME NEW order \in Seq(Solutions), NEW log \in Seq(Solutions), NEW s \in Solutions,
           Len(order) <= DupHistory, IsEnd(order, log), s \notin Elements(order)
    PROVE  IsEnd(Add(order, s), Append(log, s))
<1> DEFINE l == Len(order)
           L == Len(log)
           H == DupHistory
           E == DupEvict
           longer == Append(log, s)
<1>1. l \in Nat /\ L \in Nat /\ H \in Nat /\ E \in Nat /\ 1 <= E /\ E <= H /\ l <= H
  BY EvictSize, LenProperties
<1>2. /\ longer \in Seq(Solutions) /\ Len(longer) = L + 1
      /\ \A i \in 1..L+1 : longer[i] = IF i = L + 1 THEN s ELSE log[i]
  BY AppendLast
<1>3. /\ l <= L
      /\ \A i \in 1..l : order[i] = log[L - l + i]
      /\ l = L \/ l >= H - E + 1
  BY DEF IsEnd
<1>4. CASE l < H
  <2> DEFINE new == Append(order, s)
  <2>1. Add(order, s) = new
    BY <1>1, <1>4 DEF Add
  <2>2. Len(new) = l + 1 /\ \A i \in 1..l+1 : new[i] = IF i = l + 1 THEN s ELSE order[i]
    BY AppendLast
  <2> HIDE DEF new, longer, l, L, H, E
  <2>3. ASSUME NEW i \in 1..l+1 PROVE new[i] = longer[(L + 1) - (l + 1) + i]
    <3>1. (L + 1) - (l + 1) + i \in 1..L+1 /\ (L + 1) - (l + 1) + i = L - l + i
      BY <1>1, <1>3
    <3>2. CASE i = l + 1
      <4>1. L - l + i = L + 1
        BY <1>1, <3>2
      <4> QED
        BY <1>2, <2>2, <3>1, <3>2, <4>1
    <3>3. CASE i # l + 1
      <4>1. i \in 1..l /\ L - l + i # L + 1
        BY <1>1, <3>3
      <4>2. new[i] = log[L - l + i]
        BY <1>3, <2>2, <3>3, <4>1
      <4>3. longer[L - l + i] = log[L - l + i]
        BY <1>2, <3>1, <4>1
      <4> QED
        BY <3>1, <4>2, <4>3
    <3> QED
      BY <3>2, <3>3
  <2>4. l + 1 <= L + 1 /\ (l + 1 = L + 1 \/ l + 1 >= H - E + 1)
    BY <1>1, <1>3
  <2> QED
    BY <1>2, <2>1, <2>2, <2>3, <2>4 DEF IsEnd, longer, H, E
<1>5. CASE ~(l < H)
  <2> DEFINE kept == SubSeq(order, E + 1, l)
             new == Append(kept, s)
  <2>1. l = H
    BY <1>1, <1>5
  <2>2. Add(order, s) = new
    BY <2>1, <1>1 DEF Add
  <2>3. /\ kept \in Seq(Solutions) /\ Len(kept) = H - E
        /\ \A i \in 1..H-E : kept[i] = order[E + i]
    <3>1. \A i \in E + 1 .. l : order[i] \in Solutions
      BY <1>1, LenProperties
    <3>2. E + 1 \in Int /\ l \in Int
      BY <1>1
    <3> HIDE DEF E, l
    <3>3. /\ kept \in Seq(Solutions)
          /\ Len(kept) = IF E + 1 <= l THEN l - (E + 1) + 1 ELSE 0
          /\ \A i \in 1 .. l - (E + 1) + 1 : kept[i] = order[E + 1 + i - 1]
      BY <3>1, <3>2, SubSeqProperties
    <3> HIDE DEF kept, H
    <3>4. Len(kept) = H - E /\ l - (E + 1) + 1 = H - E
      BY <1>1, <2>1, <3>3
    <3>5. \A i \in 1..H-E : E + 1 + i - 1 = E + i
      BY <1>1
    <3> QED
      BY <3>3, <3>4, <3>5
  <2>4. /\ Len(new) = H - E + 1
        /\ \A i \in 1..H-E+1 : new[i] = IF i = H - E + 1 THEN s ELSE kept[i]
    <3> HIDE DEF kept
    <3> QED
      BY <2>3, AppendLast
  <2> HIDE DEF new, kept, longer, l, L, H, E
  <2>5. ASSUME NEW i \in 1..H-E+1 PROVE new[i] = longer[(L + 1) - (H - E + 1) + i]
    <3>0. (L + 1) - (H - E + 1) + i = L - l + (E + i) /\ L - l + (E + i) \in 1..L+1
      BY <1>1, <1>3, <2>1
    <3>1. CASE i = H - E + 1
      <4>1. L - l + (E + i) = L + 1
        BY <1>1, <2>1, <3>1
      <4> QED
        BY <1>2, <2>4, <3>0, <3>1, <4>1
    <3>2. CASE i # H - E + 1
      <4>1. i \in 1..H-E /\ E + i \in 1..l /\ L - l + (E + i) # L + 1
        BY <1>1, <2>1, <3>2
      <4>2. new[i] = log[L - l + (E + i)]
        BY <1>3, <2>3, <2>4, <3>2, <4>1
      <4>3. longer[L - l + (E + i)] = log[L - l + (E + i)]
        BY <1>2, <3>0, <4>1
      <4> QED
        BY <3>0, <4>2, <4>3
    <3> QED
      BY <3>1, <3>2
  <2>6. H - E + 1 <= L + 1
    BY <1>1, <1>3, <2>1
  <2> QED
    BY <1>2, <2>2, <2>4, <2>5, <2>6 DEF IsEnd, longer, H, E
<1> QED
  BY <1>4, <1>5

\* What a set that is the end of a log does not have was logged long ago.
LEMMA AppendFar ==
    ASSUME NEW order \in Seq(Solutions), NEW log \in Seq(Solutions), NEW s \in Solutions,
           IsEnd(order, log), s \notin Elements(order), FarApart(log)
    PROVE  FarApart(Append(log, s))
<1> DEFINE l == Len(order)
           L == Len(log)
           longer == Append(log, s)
<1>1. /\ l \in Nat /\ L \in Nat /\ DupHistory \in Nat /\ DupEvict \in Nat
      /\ DOMAIN order = 1..l
  BY EvictSize, LenProperties
<1>2. /\ Len(longer) = L + 1
      /\ \A i \in 1..L+1 : longer[i] = IF i = L + 1 THEN s ELSE log[i]
  BY AppendLast
<1>3. /\ l <= L
      /\ \A i \in 1..l : order[i] = log[L - l + i]
      /\ l = L \/ l >= DupHistory - DupEvict + 1
  BY DEF IsEnd
<1> HIDE DEF longer, l, L
<1>4. ASSUME NEW p \in 1..L+1, NEW q \in 1..L+1, p < q, longer[p] = longer[q]
      PROVE  q - p > DupHistory - DupEvict + 1
  <2>1. p \in 1..L /\ longer[p] = log[p]
    BY <1>1, <1>2, <1>4
  <2>2. CASE q # L + 1
    <3>1. q \in 1..L /\ longer[q] = log[q]
      BY <1>1, <1>2, <2>2
    <3> QED
      BY <1>4, <2>1, <3>1 DEF FarApart, L
  <2>3. CASE q = L + 1
    <3>1. log[p] = s
      BY <1>1, <1>2, <1>4, <2>1, <2>3
    <3>2. p <= L - l
      <4> SUFFICES ASSUME ~(p <= L - l) PROVE FALSE
        OBVIOUS
      <4>1. p - (L - l) \in 1..l /\ L - l + (p - (L - l)) = p
        BY <1>1, <1>3, <2>1
      <4>2. order[p - (L - l)] = s
        BY <1>3, <3>1, <4>1
      <4> QED
        BY <1>1, <4>1, <4>2 DEF Elements
    <3> QED
      BY <1>1, <1>3, <2>1, <2>3, <3>2
  <2> QED
    BY <2>2, <2>3
<1> QED
  BY <1>2, <1>4 DEF FarApart, longer

\* The duplicate sets, the jobs and what is in flight as they are at first.
LEMMA DupInit == Init => DupInv
<1> SUFFICES ASSUME Init PROVE DupInv
  OBVIOUS
<1>1. \A j \in Jobs : entered[j] = <<>> /\ cache[j] = "none"
  BY DEF Init
<1>2. FarApart(<<>>)
  BY EmptySeq DEF FarApart
<1>3. \A r \in Requests : stage[r] = "unsent"
  BY DEF Init
<1> QED
  BY <1>1, <1>2, <1>3 DEF DupInv, Fresh, Gone, Recorded, Refused, Kept

\* A notification evicts the set of the job it retires, and only sets nothing
\* in flight refers to expire.
LEMMA DupNotify ==
    ASSUME TypeOK, Arrived, Window, DupInv, Notify
    PROVE  DupInv'
<1>1. newest \in Nat /\ newest' = newest + 1 /\ newest' \in Jobs
  BY SizesAssumption DEF Notify, Jobs, TypeOK
<1>2. UNCHANGED <<seen, entered, task, stage>>
  BY DEF Notify, taskVars
<1>3. PICK old \in SUBSET Outdated :
          IF Len(active) < MaxRecent
          THEN active' = Append(active, newest') /\ KeepCache(0, old)
          ELSE active' = Append(Tail(active), newest') /\ KeepCache(Head(active), old)
  BY DEF Notify
<1>L. Len(active) \in Nat
  BY LenProperties DEF TypeOK
<1>4. /\ active \in Seq(Jobs) /\ Len(active) \in Nat /\ DOMAIN active = 1..Len(active)
      /\ Elements(active) = {active[i] : i \in 1..Len(active)}
      /\ Len(active) <= newest
      /\ \A i \in 1..Len(active) : active[i] = newest - Len(active) + i
      /\ MaxRecent \in Nat \ {0}
  <2>1. active \in Seq(Jobs)
    BY DEF TypeOK
  <2>2. Len(active) \in Nat /\ DOMAIN active = 1..Len(active)
    BY <2>1, LenProperties
  <2>3. Len(retired) \in Nat /\ Len(active) + Len(retired) <= newest
    BY LenProperties DEF TypeOK, Window
  <2>4. Len(active) <= newest
    BY <1>1, <2>2, <2>3
  <2>5. Elements(active) = {active[i] : i \in 1..Len(active)}
    BY <2>2 DEF Elements
  <2>6. \A i \in 1..Len(active) : active[i] = newest - Len(active) + i
    BY DEF Window
  <2> QED
    BY <2>1, <2>2, <2>4, <2>5, <2>6, SizesAssumption
\* The retired job is the oldest active one; the newer ones stay.
<1>5. PICK gone \in 0..newest :
        /\ KeepCache(gone, old)
        /\ gone # 0 => gone \in Elements(active)
        /\ \A k \in Jobs : k \in Elements(active') => k # gone /\ (k \in Elements(active) \/ k = newest')
  <2>1. CASE Len(active) < MaxRecent
    <3>1. /\ active' \in Seq(Jobs) /\ Len(active') = Len(active) + 1
          /\ \A i \in 1..Len(active)+1 : active'[i] = IF i = Len(active) + 1 THEN newest' ELSE active[i]
      <4>1. active' = Append(active, newest') /\ newest' \in Jobs /\ active \in Seq(Jobs)
        BY <1>1, <1>3, <1>4, <2>1
      <4> QED
        BY ONLY <4>1, AppendLast
    <3>2. DOMAIN active' = 1..Len(active)+1
      BY <3>1, LenProperties
    <3>3. \A i \in 1..Len(active)+1 : i # Len(active) + 1 => i \in 1..Len(active)
      BY <1>4
    <3>4. \A k \in Elements(active') : k \in Elements(active) \/ k = newest'
      BY <1>4, <3>1, <3>2, <3>3 DEF Elements
    <3>5. 0 \in 0..newest /\ \A k \in Jobs : k # 0
      BY <1>1 DEF Jobs
    <3> QED
      BY <1>3, <2>1, <3>4, <3>5
  <2>2. CASE ~(Len(active) < MaxRecent)
    <3>1. active # <<>> /\ 1 \in 1..Len(active)
      BY <1>4, <2>2, EmptySeq
    <3>2. /\ active' \in Seq(Jobs) /\ Len(active') = Len(active)
          /\ \A i \in 1..Len(active) : active'[i] = IF i = Len(active) THEN newest' ELSE active[i+1]
      <4>1. /\ active' = Append(Tail(active), newest') /\ newest' \in Jobs
            /\ active \in Seq(Jobs) /\ active # <<>>
        BY <1>1, <1>3, <1>4, <2>2, <3>1
      <4> QED
        BY ONLY <4>1, AppendTail
    <3>3. Head(active) = active[1] /\ Head(active) = newest - Len(active) + 1
      BY <1>4, <3>1
    <3>4. Head(active) \in Elements(active) /\ Head(active) \in 0..newest
      BY <1>1, <1>4, <3>1, <3>3 DEF Elements
    <3>5. DOMAIN active' = 1..Len(active)
      BY <3>2, LenProperties
    <3>6. ASSUME NEW i \in 1..Len(active)
          PROVE  /\ active'[i] # Head(active)
                 /\ active'[i] \in Elements(active) \/ active'[i] = newest'
      <4>1. CASE i = Len(active)
        <5>1. active'[i] = newest'
          BY <3>2, <4>1
        <5>2. newest' # Head(active)
          BY <1>1, <3>4
        <5> QED
          BY <5>1, <5>2
      <4>2. CASE i # Len(active)
        <5>1. i + 1 \in 1..Len(active) /\ active'[i] = active[i+1]
          <6>1. Len(active) \in Nat /\ i \in 1..Len(active) /\ i # Len(active)
            BY ONLY <1>L, <4>2, i \in 1..Len(active)
          <6>2. i + 1 \in 1..Len(active)
            BY ONLY <6>1
          <6> QED
            BY <3>2, <6>1, <6>2
        <5>2. active[i+1] = newest - Len(active) + (i + 1)
          BY <1>4, <5>1
        <5>3. active[i+1] # newest - Len(active) + 1
          BY <1>1, <1>4, <5>2
        <5>4. active[i+1] \in Elements(active)
          BY <1>4, <5>1
        <5> QED
          BY <3>3, <5>1, <5>3, <5>4
      <4> QED
        BY <4>1, <4>2
    <3>7. \A k \in Elements(active') : k # Head(active) /\ (k \in Elements(active) \/ k = newest')
      BY <3>5, <3>6 DEF Elements
    <3> QED
      BY <1>3, <2>2, <3>4, <3>7
  <2> QED
    BY <2>1, <2>2
<1>6. \A k \in Jobs : cache'[k] = IF k = gone /\ cache[k] = "active" THEN "evicted"
                                  ELSE IF k \in old THEN "expired" ELSE cache[k]
  BY <1>5 DEF KeepCache
<1>7. \A k \in old : k \in Jobs /\ cache[k] = "evicted" /\ InFlight(k) = {}
  BY DEF Outdated
<1>8. ASSUME NEW j \in Jobs
      PROVE  Fresh(j)' /\ Gone(j)' /\ Recorded(j)' /\ FarApart(entered'[j])
  <2>1. Fresh(j) /\ Gone(j) /\ Recorded(j) /\ FarApart(entered[j])
    BY DEF DupInv
  <2>2. Fresh(j)' /\ Recorded(j)' /\ FarApart(entered'[j])
    BY <1>2, <1>6, <1>7, <2>1 DEF Fresh, Recorded, Kept
  <2>3. Gone(j)'
    <3> SUFFICES ASSUME cache'[j] \in {"evicted", "expired"}
                 PROVE  j \in 1..newest' /\ j \notin Elements(active')
      BY DEF Gone
    <3>1. j = gone \/ cache[j] \in {"evicted", "expired"}
      BY <1>6, <1>7
    <3>2. CASE j = gone
      <4>1. j \in 1..newest'
        BY <1>1, <3>2 DEF Jobs
      <4> QED
        BY <1>5, <3>2, <4>1
    <3>3. CASE cache[j] \in {"evicted", "expired"}
      <4>1. j \in 1..newest /\ j \notin Elements(active)
        BY <2>1, <3>3 DEF Gone
      <4>2. j \in 1..newest' /\ j # newest'
        BY <1>1, <4>1
      <4> QED
        BY <1>5, <4>1, <4>2
    <3> QED
      BY <3>1, <3>2, <3>3
  <2> QED
    BY <2>2, <2>3
<1>9. ASSUME NEW r \in Requests PROVE Refused(r)'
  <2>1. Refused(r) /\ (stage[r] # "unsent" => task[r].job \in Jobs)
    BY DEF DupInv, Arrived
  <2>2. CASE stage[r] \in {"prepared", "queued", "taken", "found"}
    <3>1. r \in InFlight(task[r].job) /\ task[r].job \in Jobs
      BY <2>1, <2>2 DEF InFlight
    <3>2. task[r].job \notin old
      BY <1>7, <3>1
    <3> QED
      BY <1>2, <1>6, <2>1, <3>1, <3>2 DEF Refused, Kept
  <2>3. CASE stage[r] \notin {"prepared", "queued", "taken", "found"}
    BY <1>2, <2>3 DEF Refused
  <2> QED
    BY <2>2, <2>3
<1> QED
  BY <1>8, <1>9 DEF DupInv

\* The queue holds each submission that waits once.
Waiting ==
    /\ \A i \in 1..Len(queue) : stage[queue[i]] = "queued"
    /\ \A i, k \in 1..Len(queue) : queue[i] = queue[k] => i = k

LEMMA WaitingStep ==
    ASSUME TypeOK, Waiting, [Next]_vars
    PROVE  Waiting'
<1>0. /\ queue \in Seq(Requests) /\ Len(queue) \in Nat
      /\ \A i \in 1..Len(queue) : queue[i] \in Requests
  BY LenProperties, ElementOfSeq DEF TypeOK
<1>1. CASE UNCHANGED <<stage, queue>>
  BY <1>1 DEF Waiting
<1>2. CASE Take
  <2>1. queue # <<>> /\ queue' = Tail(queue) /\ stage' = [stage EXCEPT ![Head(queue)] = "taken"]
    BY <1>2 DEF Take, Goto
  <2>2. /\ Head(queue) = queue[1] /\ 1 \in 1..Len(queue)
        /\ Len(queue') = Len(queue) - 1 /\ \A i \in 1..Len(queue') : queue'[i] = queue[i+1]
    <3>1. Len(queue) # 0
      BY <1>0, <2>1, EmptySeq
    <3> QED
      BY <1>0, <2>1, <3>1, HeadTailProperties
  <2>3. \A i \in 1..Len(queue') : i+1 \in 1..Len(queue) /\ i + 1 # 1
    BY <1>0, <2>2
  <2>4. \A q \in Requests : q # queue[1] => stage'[q] = stage[q]
    BY <2>1, <2>2 DEF TypeOK
  <2>5. \A i \in 1..Len(queue') : queue'[i] # queue[1]
    BY <2>2, <2>3 DEF Waiting
  <2>6. \A i \in 1..Len(queue') : stage'[queue'[i]] = "queued"
    BY <1>0, <2>2, <2>3, <2>4, <2>5 DEF Waiting
  <2>7. ASSUME NEW i \in 1..Len(queue'), NEW k \in 1..Len(queue'), queue'[i] = queue'[k]
        PROVE  i = k
    <3>1. i + 1 = k + 1
      BY <2>2, <2>3, <2>7, SMTT(40) DEF Waiting
    <3> QED
      BY <1>0, <2>2, <3>1
  <2> QED
    BY <2>6, <2>7 DEF Waiting
<1>3. ASSUME NEW r \in Requests, Submit(r) \/ Process(r)
      PROVE  Waiting'
  <2>1. /\ stage[r] # "queued"
        /\ \A q \in Requests \ {r} : stage'[q] = stage[q]
    BY <1>3 DEF Submit, Prepare, Process, Admit, Judge, Enter, Count, Acknowledge, Decide, Goto, TypeOK
  <2>2. \A i \in 1..Len(queue) : queue[i] # r
    BY <2>1 DEF Waiting
  <2>3. CASE queue' = queue
    BY <1>0, <2>1, <2>2, <2>3 DEF Waiting
  <2>4. CASE queue' = Append(queue, r) /\ stage'[r] = "queued"
    <3>1. /\ Len(queue') = Len(queue) + 1
          /\ \A i \in 1..Len(queue)+1 : queue'[i] = IF i = Len(queue) + 1 THEN r ELSE queue[i]
      BY <1>0, <2>4, AppendLast
    <3>2. \A i \in 1..Len(queue)+1 : i # Len(queue) + 1 => i \in 1..Len(queue)
      BY <1>0
    <3> QED
      BY <1>0, <2>1, <2>2, <2>4, <3>1, <3>2 DEF Waiting
  <2> QED
    BY <1>3, <2>3, <2>4
       DEF Submit, Process, Admit, Judge, Enter, Count, Acknowledge, Goto, TypeOK
<1> QED
  BY <1>1, <1>2, <1>3 DEF Next, Notify, BanChanges, Close, CloseStats, ClosePool, taskVars, vars

\* A submission that arrives for a job that is no longer active is stale.
LEMMA DupSubmit ==
    ASSUME TypeOK, Arrived, DupInv, NEW r \in Requests, Submit(r)
    PROVE  DupInv'
<1>1. PICK j \in 1..newest, s \in Solutions : Prepare(r, j, s)
  BY DEF Submit
<1>2. UNCHANGED jobVars /\ j \in Jobs
  BY SizesAssumption DEF Submit, Jobs, TypeOK
<1>3. /\ task'[r].job = j /\ task'[r].stale = Stale(j)
      /\ \A q \in Requests \ {r} : task'[q] = task[q] /\ stage'[q] = stage[q]
  BY <1>1 DEF Prepare, Decide, TypeOK
<1>4. stage'[r] # "found"
  BY <1>1 DEF Prepare, Decide, TypeOK
<1>5. cache[j] = "expired" => Stale(j)
  BY <1>2 DEF DupInv, Gone, Stale
<1>6. \A q \in Requests : Refused(q)'
  BY <1>2, <1>3, <1>4, <1>5 DEF DupInv, Refused, jobVars
<1> QED
  BY <1>2, <1>6 DEF jobVars, DupInv, Fresh, Gone, Recorded, FarApart

\* A judgement creates a set only for a job nothing has been checked for.
LEMMA DupJudge ==
    ASSUME TypeOK, Arrived, DupInv, NEW r \in Requests, Judge(r)
    PROVE  DupInv'
<1> DEFINE j == task[r].job
<1>1. /\ j \in Jobs /\ stage[r] = "taken" /\ UNCHANGED <<newest, active, entered, task>>
  BY DEF Judge, Arrived
<1>2. CASE task[r].banned \/ task[r].stale
  <2>1. UNCHANGED <<cache, seen>> /\ stage' = [stage EXCEPT ![r] = "done"]
    BY <1>2 DEF Judge, Decide
  <2>2. \A q \in Requests : Refused(q)'
    BY <1>1, <2>1 DEF DupInv, Refused, TypeOK
  <2> QED
    BY <1>1, <2>1, <2>2 DEF DupInv, Fresh, Gone, Recorded, FarApart
<1>3. CASE ~(task[r].banned \/ task[r].stale)
  <2>1. /\ cache' = [cache EXCEPT ![j] = IF cache[j] \in Kept THEN @ ELSE "active"]
        /\ seen' = [seen EXCEPT ![j] = IF cache[j] \in Kept THEN @ ELSE <<>>]
        /\ stage' = [stage EXCEPT ![r] = "found"]
    BY <1>3 DEF Judge, Goto, Kept
  <2>2. cache[j] # "expired"
    BY <1>1, <1>3 DEF DupInv, Refused
  <2>3. cache[j] \in Kept \/ cache[j] = "none"
    BY <1>1, <2>2 DEF TypeOK, CacheStates, Kept
  <2>4. /\ \A k \in Jobs : k # j => cache'[k] = cache[k] /\ seen'[k] = seen[k]
        /\ cache'[j] \in Kept /\ (cache[j] \in Kept => cache'[j] = cache[j] /\ seen'[j] = seen[j])
        /\ (cache[j] = "none" => cache'[j] = "active" /\ seen'[j] = <<>>)
    BY <1>1, <2>1, <2>3 DEF TypeOK, Kept
  <2>5. ASSUME NEW k \in Jobs
        PROVE  Fresh(k)' /\ Gone(k)' /\ Recorded(k)' /\ FarApart(entered[k])'
    <3>1. Fresh(k) /\ Gone(k) /\ Recorded(k) /\ FarApart(entered[k])
      BY DEF DupInv
    <3>2. CASE cache'[k] = cache[k] /\ seen'[k] = seen[k]
      BY <1>1, <3>1, <3>2 DEF Fresh, Gone, Recorded, FarApart
    <3>3. CASE k = j /\ cache[j] = "none"
      <4>1. entered'[k] = <<>> /\ seen'[k] = <<>> /\ cache'[k] = "active"
        BY <1>1, <2>4, <3>1, <3>3 DEF Fresh
      <4>2. IsEnd(<<>>, <<>>)
        BY EmptySeq DEF IsEnd
      <4> QED
        BY <1>1, <3>1, <4>1, <4>2 DEF Fresh, Gone, Recorded, FarApart
    <3> QED
      BY <2>3, <2>4, <3>2, <3>3
  <2>6. ASSUME NEW q \in Requests PROVE Refused(q)'
    <3>1. Refused(q) /\ (stage[q] # "unsent" => task[q].job \in Jobs)
      BY DEF DupInv, Arrived
    <3>2. stage'[q] = IF q = r THEN "found" ELSE stage[q]
      BY <2>1 DEF TypeOK
    <3>3. CASE q = r
      BY <1>1, <2>4, <3>2, <3>3 DEF Refused
    <3>4. CASE q # r
      <4>1. CASE stage[q] = "unsent"
        BY <3>2, <3>4, <4>1 DEF Refused
      <4>2. CASE stage[q] # "unsent"
        <5>1. /\ cache'[task[q].job] = "expired" => cache[task[q].job] = "expired"
              /\ cache[task[q].job] \in Kept => cache'[task[q].job] \in Kept
          BY <2>3, <2>4, <3>1, <4>2 DEF Kept
        <5> QED
          BY <1>1, <3>1, <3>2, <3>4, <5>1 DEF Refused
      <4> QED
        BY <4>1, <4>2
    <3> QED
      BY <3>3, <3>4
  <2> QED
    BY <2>5, <2>6 DEF DupInv
<1> QED
  BY <1>2, <1>3

\* The duplicate check adds to the set of a job and, when it passes, to what has
\* passed.
LEMMA DupEnter ==
    ASSUME TypeOK, Arrived, DupInv, NEW r \in Requests, Enter(r)
    PROVE  DupInv'
<1> DEFINE j == task[r].job
           s == task[r].sol
           order == Add(seen[j], s)
<1>1. /\ j \in Jobs /\ s \in Solutions /\ stage[r] = "found"
      /\ UNCHANGED <<newest, active, cache, task>>
      /\ seen' = [seen EXCEPT ![j] = order]
  BY DEF Enter, Arrived
<1>2. /\ seen[j] \in Seq(Solutions) /\ Len(seen[j]) <= DupHistory
      /\ entered[j] \in Seq(Solutions)
  BY <1>1 DEF TypeOK
<1>3. cache[j] \in Kept
  BY <1>1 DEF DupInv, Refused
<1>4. IsEnd(seen[j], entered[j]) /\ FarApart(entered[j])
  BY <1>1, <1>3 DEF DupInv, Recorded
<1>5. \A q \in Requests : Refused(q)'
  <2>1. \A q \in Requests : stage'[q] = stage[q] \/ (stage'[q] \in {"done", "good"})
    BY DEF Enter, Decide, Goto, TypeOK
  <2> QED
    BY <1>1, <2>1 DEF DupInv, Refused
<1>6. \A k \in Jobs : k # j => seen'[k] = seen[k] /\ entered'[k] = entered[k]
  BY <1>1 DEF Enter, TypeOK
<1>7. IsEnd(seen'[j], entered'[j]) /\ FarApart(entered'[j])
  <2>1. CASE order = seen[j]
    <3>1. seen'[j] = seen[j] /\ entered' = entered
      BY <1>1, <2>1 DEF Enter, TypeOK
    <3> QED
      BY <1>4, <3>1
  <2>2. CASE order # seen[j]
    <3>1. s \notin Elements(seen[j])
      BY <2>2 DEF Add
    <3>2. seen'[j] = order /\ entered'[j] = Append(entered[j], s)
      BY <1>1, <2>2 DEF Enter, TypeOK
    <3> HIDE DEF j, s
    <3>3. IsEnd(Add(seen[j], s), Append(entered[j], s))
      BY <1>1, <1>2, <1>4, <3>1, AddEnd
    <3>4. FarApart(Append(entered[j], s))
      BY <1>1, <1>2, <1>4, <3>1, AppendFar
    <3> QED
      BY <3>2, <3>3, <3>4
  <2> QED
    BY <2>1, <2>2
<1>8. ASSUME NEW k \in Jobs
      PROVE  Fresh(k)' /\ Gone(k)' /\ Recorded(k)' /\ FarApart(entered[k])'
  <2>1. Fresh(k) /\ Gone(k) /\ Recorded(k) /\ FarApart(entered[k])
    BY DEF DupInv
  <2>2. CASE k = j
    BY <1>1, <1>3, <1>7, <2>1, <2>2 DEF Fresh, Gone, Recorded, Kept, FarApart
  <2>3. CASE k # j
    BY <1>1, <1>6, <2>1, <2>3 DEF Fresh, Gone, Recorded, FarApart
  <2> QED
    BY <2>2, <2>3
<1> QED
  BY <1>5, <1>8 DEF DupInv

\* Nothing else touches the sets; only what is neither stale nor banned gets to
\* the check.
LEMMA DupStep ==
    ASSUME TypeOK, Arrived, Window, Waiting, DupInv, [Next]_vars
    PROVE  DupInv'
<1>1. ASSUME UNCHANGED jobVars, \A r \in Requests : Refused(r)'
      PROVE  DupInv'
  BY <1>1 DEF jobVars, DupInv, Fresh, Gone, Recorded, FarApart
<1>2. CASE UNCHANGED <<jobVars, task, stage>>
  BY <1>1, <1>2 DEF jobVars, DupInv, Refused
<1>3. CASE Take
  <2>1. /\ UNCHANGED <<jobVars, task>> /\ queue # <<>>
        /\ stage' = [stage EXCEPT ![Head(queue)] = "taken"]
    BY <1>3 DEF Take, Goto
  <2>2. Head(queue) \in Requests /\ stage[Head(queue)] = "queued"
    <3>1. Len(queue) \in Nat \ {0} /\ Head(queue) = queue[1] /\ queue \in Seq(Requests)
      BY <2>1, EmptySeq, HeadTailProperties DEF TypeOK
    <3>2. 1 \in 1..Len(queue)
      BY <3>1
    <3> QED
      BY <3>1, <3>2, ElementOfSeq DEF Waiting
  <2>3. \A r \in Requests : stage'[r] = IF r = Head(queue) THEN "taken" ELSE stage[r]
    BY <2>1, <2>2 DEF TypeOK
  <2>4. \A r \in Requests : Refused(r)'
    BY <2>1, <2>2, <2>3 DEF jobVars, DupInv, Refused
  <2> QED
    BY <1>1, <2>1, <2>4
<1>4. ASSUME NEW r \in Requests, Admit(r) \/ Count(r) \/ Acknowledge(r)
      PROVE  DupInv'
  <2>1. /\ UNCHANGED <<jobVars, task>> /\ stage[r] \in {"prepared", "good", "counted"}
        /\ \A q \in Requests \ {r} : stage'[q] = stage[q]
        /\ stage'[r] \in {"taken", "queued", "good", "counted", "done"}
        /\ stage[r] # "prepared" => stage'[r] \notin {"taken", "queued"}
    BY <1>4 DEF Admit, Count, Acknowledge, Decide, Goto, TypeOK
  <2>2. \A q \in Requests : Refused(q)'
    BY <2>1 DEF jobVars, DupInv, Refused
  <2> QED
    BY <1>1, <2>1, <2>2
<1> QED
  BY <1>2, <1>3, <1>4, DupNotify, DupSubmit, DupJudge, DupEnter
     DEF Next, Process, BanChanges, Close, CloseStats, ClosePool, vars, taskVars

\* The same work passes the duplicate check of its job twice only when most of a
\* full history of other work lies between, also when two workers check at once
\* or the job is retired meanwhile (miner_rejects.go:675-704, 924-966,
\* miner_duplicates.go:116-143).
THEOREM DuplicatesApart == Spec => []DuplicatesFarApart
<1>1. Init => Waiting
  BY EmptySeq DEF Init, Waiting
<1>2. TypeInv /\ Window /\ Waiting /\ DupInv /\ [Next]_vars
      => TypeInv' /\ Window' /\ Waiting' /\ DupInv'
  BY TypeStep, ArrivedStep, WindowStep, WaitingStep, DupStep DEF TypeInv
<1>3. TypeInv /\ DupInv => DuplicatesFarApart
  <2> SUFFICES ASSUME TypeInv, DupInv, NEW j \in Jobs
               PROVE  \A p, q \in DOMAIN entered[j] :
                         p < q /\ entered[j][p] = entered[j][q] => q - p > DupHistory - DupEvict + 1
    BY DEF DuplicatesFarApart
  <2>1. DOMAIN entered[j] = 1..Len(entered[j])
    BY LenProperties DEF TypeInv, TypeOK
  <2> QED
    BY <2>1 DEF DupInv, FarApart
<1> QED
  BY TypeInit, WinInit, DupInit, <1>1, <1>2, <1>3, PTL DEF Spec
=============================================================================
