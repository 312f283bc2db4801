--------------------------- MODULE JobFeed_proofs ---------------------------
(***************************************************************************)
(* Proofs about JobFeed, for every number of best blocks, of mempool       *)
(* changes and of blocks of this pool.                                     *)
(***************************************************************************)
EXTENDS JobFeed, TLAPS

\* Initially everything is in its range.
LEMMA TypeInit == Init => TypeOK
<1> SUFFICES ASSUME Init PROVE TypeOK
  OBVIOUS
<1>1. node \in Templates
  BY FeedAssumption DEF Init, Templates
<1>2. job \in [tip : 0..MaxTips, payload : 0..MaxMempool]
  <2>1. 0 \in 0..MaxTips /\ 0 \in 0..MaxMempool
    BY FeedAssumption
  <2> QED
    BY <2>1 DEF Init, NoJob
<1>3. NoOne \notin Fetchers
  BY DEF NoOne, Fetchers
<1> QED
  BY <1>1, <1>2, <1>3 DEF Init, TypeOK

\* Every step keeps everything in its range, and keeps applyMu with the one
\* attempt that is past it.
LEMMA TypeStep ==
    ASSUME TypeOK, [Next]_vars
    PROVE  TypeOK'
<1> USE FeedAssumption DEF TypeOK
<1>1. CASE NewBlock
  <2>1. /\ node.tip \in Nat /\ node.tip + 1 \in 1..MaxTips /\ MaxMempool \in Nat
        /\ 0 \in 0..MaxMempool
    BY <1>1 DEF NewBlock, Templates
  <2>2. node' \in Templates
    BY <1>1, <2>1 DEF NewBlock, Templates
  <2>3. accepted' \subseteq 1..MaxTips
    BY <1>1, <2>1 DEF NewBlock
  <2> QED
    BY <2>2, <2>3, <1>1 DEF NewBlock
<1>2. CASE NewTransactions
  <2>1. PICK p \in {node.payload, node.payload + 1} :
            node' = [node EXCEPT !.mempool = @ + 1, !.payload = p]
    BY <1>2 DEF NewTransactions
  <2>2. /\ node.mempool + 1 \in 0..MaxMempool /\ p \in 0..MaxMempool
        /\ p <= node.mempool + 1 /\ node.tip \in 1..MaxTips
    BY <1>2, <2>1 DEF NewTransactions, Templates
  <2>3. node' = [tip |-> node.tip, mempool |-> node.mempool + 1, payload |-> p]
    BY <2>1 DEF Templates
  <2>4. node' \in Templates
    BY <2>2, <2>3 DEF Templates
  <2> QED
    BY <2>4, <1>2 DEF NewTransactions
<1>3. CASE Fetching
  <2>1. CASE LongPoll
    BY <2>1 DEF LongPoll
  <2>2. CASE LongPollReturns
    BY <2>2 DEF LongPollReturns, Fetch
  <2>3. CASE Refresh
    BY <2>3 DEF Refresh, Fetch
  <2>4. CASE AcceptedRefresh
    BY <2>4 DEF AcceptedRefresh, Fetch
  <2>5. CASE AcceptedGivesUp
    BY <2>5 DEF AcceptedGivesUp
  <2> QED
    BY <1>3, <2>1, <2>2, <2>3, <2>4, <2>5 DEF Fetching
<1>4. ASSUME NEW f \in Fetchers, Lock(f) PROVE TypeOK'
  <2>1. f # NoOne /\ NoOne \notin Fetchers
    BY DEF Fetchers, NoOne
  <2> QED
    BY <1>4, <2>1 DEF Lock, Goto
<1>5. ASSUME NEW f \in Fetchers, Verify(f) PROVE TypeOK'
  <2>1. f # NoOne /\ NoOne \notin Fetchers
    BY DEF Fetchers, NoOne
  <2> QED
    BY <1>5, <2>1 DEF Verify, Unlock, Goto
<1>6. ASSUME NEW f \in Fetchers, Apply(f) PROVE TypeOK'
  <2>1. f # NoOne /\ NoOne \notin Fetchers
    BY DEF Fetchers, NoOne
  <2>2. fetched[f].tip \in 0..MaxTips /\ fetched[f].payload \in 0..MaxMempool
    BY DEF Templates, NoTemplate
  <2> QED
    BY <1>6, <2>1, <2>2 DEF Apply, Unlock, Goto, Changed
<1>7. ASSUME NEW f \in Fetchers, Published(f) PROVE TypeOK'
  <2>1. f # NoOne /\ NoOne \notin Fetchers
    BY DEF Fetchers, NoOne
  <2> QED
    BY <1>7, <2>1 DEF Published, Unlock, Goto
<1>8. CASE Broadcast
  BY <1>8 DEF Broadcast, feedVars
<1>9. CASE UNCHANGED vars
  BY <1>9 DEF vars, feedVars
<1> QED
  BY <1>1, <1>2, <1>3, <1>4, <1>5, <1>6, <1>7, <1>8, <1>9 DEF Next, Attempt

\* Every variable keeps its range, and the one attempt between Lock and Unlock of
\* refreshFromTemplateWithReason is the holder of applyMu.
THEOREM TypeCorrect == Spec => []TypeOK
  BY TypeInit, TypeStep, PTL DEF Spec

-----------------------------------------------------------------------------
(***************************************************************************)
(* The tip of the job.  A template may be old when it is applied, but it   *)
(* was fresh when it was checked with applyMu held, and only the holder of *)
(* applyMu changes the job.                                                *)
(***************************************************************************)
TipInv ==
    /\ job.tip <= node.tip
    /\ \A f \in Fetchers : fetched[f].tip <= node.tip
    /\ \A f \in Fetchers : pc[f] = "apply" => job.tip <= fetched[f].tip

\* The tips that are compared are numbers.
LEMMA TipsAreNumbers ==
    ASSUME TypeOK
    PROVE  /\ node.tip \in Nat /\ job.tip \in Nat
           /\ \A f \in Fetchers : fetched[f].tip \in Nat
  BY FeedAssumption DEF TypeOK, Templates, NoTemplate

\* Every step keeps the order between the tips of the node, of the templates that
\* are under way and of the job, and moves the tip of the job forward only.
LEMMA TipStep ==
    ASSUME TypeOK, TipInv, [Next]_vars
    PROVE  TipInv' /\ job'.tip >= job.tip
<1> USE TipsAreNumbers DEF TipInv
<1>0. /\ NoTemplate.tip = 0
      /\ pc \in [Fetchers -> {"idle", "wait", "lock", "verify", "apply", "publish"}]
      /\ DOMAIN fetched = Fetchers
      /\ \A f, g \in Fetchers : pc[f] \in {"verify", "apply"} /\ pc[g] \in {"verify", "apply"} => f = g
  BY DEF TypeOK, NoTemplate
<1>1. CASE NewBlock
  BY <1>0, <1>1 DEF NewBlock
<1>2. CASE NewTransactions
  <2>1. node'.tip = node.tip
    BY <1>2 DEF NewTransactions, TypeOK, Templates
  <2> QED
    BY <2>1, <1>2 DEF NewTransactions
<1>3. CASE Fetching
  <2>1. CASE LongPoll
    BY <1>0, <2>1 DEF LongPoll
  <2>2. CASE AcceptedGivesUp
    BY <2>2 DEF AcceptedGivesUp
  <2>3. ASSUME NEW f \in Fetchers, NEW from, Fetch(f, from)
        PROVE  TipInv' /\ job'.tip >= job.tip
    BY <1>0, <2>3 DEF Fetch
  <2> QED
    BY <1>3, <2>1, <2>2, <2>3 DEF Fetching, LongPollReturns, Refresh, AcceptedRefresh, Fetchers
<1>4. ASSUME NEW f \in Fetchers, Lock(f) PROVE TipInv' /\ job'.tip >= job.tip
  BY <1>0, <1>4 DEF Lock, Goto
<1>5. ASSUME NEW f \in Fetchers, Verify(f) PROVE TipInv' /\ job'.tip >= job.tip
  BY <1>0, <1>5 DEF Verify, Unlock, Goto
<1>6. ASSUME NEW f \in Fetchers, Apply(f) PROVE TipInv' /\ job'.tip >= job.tip
  <2>1. \A g \in Fetchers : pc'[g] # "apply"
    BY <1>0, <1>6 DEF Apply, Unlock, Goto
  <2>2. job'.tip \in {job.tip, fetched[f].tip}
    BY <1>6 DEF Apply
  <2>3. \A g \in Fetchers : fetched'[g].tip <= node.tip
    BY <1>0, <1>6 DEF Apply, Unlock
  <2> QED
    BY <1>6, <2>1, <2>2, <2>3 DEF Apply
<1>7. ASSUME NEW f \in Fetchers, Published(f) PROVE TipInv' /\ job'.tip >= job.tip
  BY <1>0, <1>7 DEF Published, Unlock, Goto
<1>8. CASE Broadcast
  BY <1>8 DEF Broadcast, feedVars
<1>9. CASE UNCHANGED vars
  BY <1>9 DEF vars, feedVars
<1> QED
  BY <1>1, <1>2, <1>3, <1>4, <1>5, <1>6, <1>7, <1>8, <1>9 DEF Next, Attempt

\* The pool's work never goes back to an earlier best block (ensureTemplateFresh
\* under applyMu), for every number of blocks and every interleaving of fetches.
THEOREM TipMonotone == Spec => TipNeverRegresses
<1>1. Init => TipInv
  BY FeedAssumption DEF Init, TipInv, NoJob, NoTemplate
<1>2. TypeOK /\ TipInv /\ [Next]_vars => TipInv' /\ [job'.tip >= job.tip]_vars
  BY TipStep
<1> QED
  BY <1>1, <1>2, TypeCorrect, PTL DEF Spec, TipNeverRegresses

-----------------------------------------------------------------------------
\* A job still to be broadcast belongs to the attempt that is in its last phase,
\* and that attempt holds applyMu.
PubInv == pub # "idle" => \E f \in Fetchers : pc[f] = "publish"

\* The mutual exclusion that PubInv turns into PublisherAlone.
LEMMA PublisherHolds ==
    ASSUME TypeOK, PubInv
    PROVE  PublisherAlone
  BY DEF TypeOK, PubInv, PublisherAlone

\* applyMu covers the broadcast: no template is applied while a job is broadcast.
THEOREM PublisherIsAlone == Spec => []PublisherAlone
<1>1. Init => PubInv
  BY DEF Init, PubInv
<1>2. ASSUME TypeOK, PubInv, [Next]_vars PROVE PubInv'
  <2> USE DEF PubInv
  <2>0. pc \in [Fetchers -> {"idle", "wait", "lock", "verify", "apply", "publish"}]
    BY <1>2 DEF TypeOK
  <2>1. CASE NewBlock \/ NewTransactions
    BY <1>2, <2>1 DEF NewBlock, NewTransactions
  <2>2. CASE Fetching
    BY <1>2, <2>0, <2>2
       DEF Fetching, LongPoll, LongPollReturns, Refresh, AcceptedRefresh, AcceptedGivesUp, Fetch
  <2>3. ASSUME NEW f \in Fetchers, Attempt(f) PROVE PubInv'
    <3>1. CASE Lock(f) \/ Verify(f)
      BY <1>2, <2>0, <3>1 DEF Lock, Verify, Unlock, Goto
    <3>2. CASE Apply(f)
      BY <1>2, <2>0, <3>2, PublisherHolds DEF Apply, Unlock, Goto, PublisherAlone
    <3>3. CASE Published(f)
      BY <1>2, <2>0, <3>3 DEF Published
    <3> QED
      BY <2>3, <3>1, <3>2, <3>3 DEF Attempt
  <2>4. CASE Broadcast \/ UNCHANGED vars
    BY <1>2, <2>4 DEF Broadcast, vars, feedVars
  <2> QED
    BY <1>2, <2>1, <2>2, <2>3, <2>4 DEF Next
<1> QED
  BY <1>1, <1>2, TypeCorrect, PublisherHolds, PTL DEF Spec

-----------------------------------------------------------------------------
\* The cursor of the long poll and the job always come from the same template:
\* a refused template moves neither.
THEOREM CursorCorrect == Spec => []CursorMatchesJob
<1> USE DEF CursorMatchesJob
<1>1. Init => CursorMatchesJob
  BY DEF Init, NoJob, NoTemplate
<1>2. ASSUME CursorMatchesJob, [Next]_vars PROVE CursorMatchesJob'
  <2>1. CASE NewBlock \/ NewTransactions
    BY <1>2, <2>1 DEF NewBlock, NewTransactions
  <2>2. CASE Fetching
    BY <1>2, <2>2
       DEF Fetching, LongPoll, LongPollReturns, Refresh, AcceptedRefresh, AcceptedGivesUp, Fetch
  <2>3. ASSUME NEW f \in Fetchers, Attempt(f) PROVE CursorMatchesJob'
    <3>1. CASE Apply(f)
      BY <1>2, <3>1 DEF Apply, Changed
    <3>2. CASE Lock(f) \/ Verify(f) \/ Published(f)
      BY <1>2, <3>2 DEF Lock, Verify, Published
    <3> QED
      BY <2>3, <3>1, <3>2 DEF Attempt
  <2>4. CASE Broadcast \/ UNCHANGED vars
    BY <1>2, <2>4 DEF Broadcast, vars, feedVars
  <2> QED
    BY <1>2, <2>1, <2>2, <2>3, <2>4 DEF Next
<1> QED
  BY <1>1, <1>2, PTL DEF Spec
=============================================================================
