----------------------------- MODULE MiningWork -----------------------------
(***************************************************************************)
(* From bitcoind to the miners: JobFeed, which decides what the current    *)
(* job is, and JobDispatch, which carries it to the connections.  They     *)
(* share JobManager.curJob, and the broadcast of JobFeed is the enqueueing *)
(* or the synchronous broadcast of JobDispatch.                            *)
(***************************************************************************)
EXTENDS JobDispatch

CONSTANTS MaxTips, MaxMempool, OurBlocks

ASSUME WorkAssumption ==
    MaxTips \in Nat \ {0} /\ MaxMempool \in Nat /\ OurBlocks \subseteq Nat

VARIABLES node, accepted, polled, longPollID, fetched, pc, applyMu

Feed == INSTANCE JobFeed WITH
            job <- [tip |-> curJob.tip, payload |-> curJob.payload],
            pub <- IF pub = "drop" THEN "queue" ELSE pub

feedVars == <<node, accepted, polled, longPollID, fetched, pc, applyMu>>
vars == <<dispatchVars, feedVars>>

WorkInit == Init /\ Feed!Init

\* A template that changes the job publishes it.
Apply(f) ==
    /\ IF Feed!Changed(fetched[f])
       THEN Publish(fetched[f].tip, fetched[f].payload, f = "accepted")
       ELSE UNCHANGED dispatchVars
    /\ Feed!Apply(f)

Follow ==
    /\ UNCHANGED dispatchVars
    /\ \/ Feed!NewBlock \/ Feed!NewTransactions \/ Feed!Fetching
       \/ \E f \in Feed!Fetchers : Feed!Lock(f) \/ Feed!Verify(f) \/ Feed!Published(f)

Carry ==
    /\ Dispatch \/ \E c \in Conns : Serve(c) \/ Miner(c)
    /\ UNCHANGED feedVars

WorkNext == Follow \/ (\E f \in Feed!Fetchers : pc[f] = "apply" /\ Apply(f)) \/ Carry

WorkSpec == WorkInit /\ [][WorkNext]_vars

\* The fairness of JobFeed and of JobDispatch.
WorkFairness ==
    /\ WF_vars(UNCHANGED dispatchVars /\ Feed!Refresh)
    /\ \A f \in Feed!Fetchers :
          /\ WF_vars(UNCHANGED dispatchVars /\ (Feed!Lock(f) \/ Feed!Verify(f) \/ Feed!Published(f)))
          /\ WF_vars(pc[f] = "apply" /\ Apply(f))
          /\ SF_vars(UNCHANGED dispatchVars /\ Feed!Lock(f) /\ applyMu' = f)
          /\ SF_vars(UNCHANGED dispatchVars /\ Feed!Verify(f) /\ applyMu' = f)
    /\ WF_vars(Dispatch /\ UNCHANGED feedVars)
    /\ \A c \in Conns :
          /\ WF_vars(ReadInitial(c) /\ UNCHANGED feedVars)
          /\ WF_vars(NotifyOwn(c) /\ UNCHANGED feedVars)
          /\ WF_vars(Receive(c) /\ UNCHANGED feedVars)
          /\ WF_vars(NotifyReceived(c) /\ UNCHANGED feedVars)

FairWorkSpec == WorkSpec /\ WorkFairness

-----------------------------------------------------------------------------
\* A miner is never sent back to work on an earlier best block, whichever way the
\* templates were fetched and the jobs broadcast
\* (job_refresh.go:72-158, miner_auth.go:1306-1324).
MinerTipNeverRegresses ==
    [][\A c \in V1Conns : last'[c].tip >= last[c].tip]_vars

\* When the node keeps still, every connection that listens ends up mining on the
\* node's best block.
MinersFollowNode ==
    \A c \in Conns : <>[](conn[c] \in {"new", "open", "closed"} \/ last[c].tip = node.tip)
=============================================================================
