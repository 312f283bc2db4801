---------------------------- MODULE WorkerNotify ----------------------------
(***************************************************************************)
(* When the Discord notifier decides to ping a user about a saved worker   *)
(* (discord_notifier_poll.go).                                             *)
(*                                                                         *)
(* A single loop refreshes the list of linked users, looks up which of a   *)
(* user's saved workers are connected, and then, under stateMu, advances a *)
(* small state machine per worker.  Another goroutine may reset all state  *)
(* between any two of these steps.                                         *)
(***************************************************************************)
EXTENDS Integers, Sequences

CONSTANTS
    Saved,         \* the saved workers of a user
    Sustained,     \* workerNotifyThreshold, in polls
    WarmUp,        \* the pause after a reset, in polls
    MaxClock, MaxResets

ASSUME WorkerNotifyAssumption ==
    Sustained \in Nat \ {0} /\ WarmUp \in Nat /\ MaxClock \in Nat /\ MaxResets \in Nat

VARIABLES
    notifyClock,
    cachedLink,            \* n.links holds the user, whose link is enabled
    refreshedAt, sweptAt,  \* lastLinksRefresh, lastSweepAt; Never after a reset
    checksFrom,            \* startChecksAt
    networkUp,             \* n.networkOK
    statusOf,              \* statusByUser[user]: a record per worker, or none
    poll,                  \* the poll in progress: its step, what it saw, when
    resets,
    observed,              \* what was observed of a worker since it was first seen
    pinged                 \* the observations after which its user was pinged

notifyVars == <<notifyClock, cachedLink, refreshedAt, sweptAt, checksFrom,
                networkUp, statusOf, poll, resets, observed, pinged>>

Never == -9
Unseen == [known |-> FALSE]
NoPoll == [step |-> "idle", saw |-> <<>>, at |-> Never]
Ended == [NoPoll EXCEPT !.at = notifyClock]   \* one poll of the user in each unit of time

WorkerNotifyTypeOK ==
    /\ notifyClock \in 0..MaxClock /\ resets \in 0..MaxResets
    /\ {cachedLink, networkUp} \subseteq BOOLEAN
    /\ poll.step \in {"idle", "refresh", "look", "update"}
    /\ \A w \in Saved : statusOf[w].known = (observed[w] # <<>>)

WorkerNotifyInit ==
    /\ notifyClock = 0 /\ cachedLink = FALSE
    /\ refreshedAt = Never /\ sweptAt = Never /\ checksFrom = 0 /\ networkUp = TRUE
    /\ statusOf = [w \in Saved |-> Unseen] /\ poll = NoPoll /\ resets = 0
    /\ observed = [w \in Saved |-> <<>>] /\ pinged = [w \in Saved |-> {}]

Forget(W) ==
    /\ statusOf' = [w \in Saved |-> IF w \in W THEN Unseen ELSE statusOf[w]]
    /\ observed' = [w \in Saved |-> IF w \in W THEN <<>> ELSE observed[w]]
    /\ pinged' = [w \in Saved |-> IF w \in W THEN {} ELSE pinged[w]]

-----------------------------------------------------------------------------
PollTick ==
    /\ notifyClock < MaxClock /\ notifyClock' = notifyClock + 1
    /\ UNCHANGED <<cachedLink, refreshedAt, sweptAt, checksFrom, networkUp, statusOf, poll,
                   resets, observed, pinged>>

\* resetAllNotificationState, on a network transition (setNetworkOK), when the
\* Discord session disconnects or resumes, or by the outage guard
ResetAll ==
    /\ resets < MaxResets /\ resets' = resets + 1
    /\ networkUp' \in BOOLEAN
    /\ Forget(Saved)
    /\ cachedLink' = FALSE /\ refreshedAt' = Never /\ sweptAt' = Never
    /\ checksFrom' = notifyClock + WarmUp
    /\ UNCHANGED <<notifyClock, poll>>

-----------------------------------------------------------------------------
\* pollBatch: the gates
BeginPoll ==
    /\ poll.step = "idle" /\ poll.at # notifyClock
    /\ networkUp /\ notifyClock >= checksFrom
    /\ poll' = [NoPoll EXCEPT !.step = "refresh", !.at = notifyClock]
    /\ UNCHANGED <<notifyClock, cachedLink, refreshedAt, sweptAt, checksFrom,
                   networkUp, statusOf, resets, observed, pinged>>

\* sweep, at most once in two polls: without an enabled link all is forgotten.
Sweep(enabled) ==
    IF sweptAt # Never /\ notifyClock - sweptAt < 2
    THEN UNCHANGED <<sweptAt, statusOf, observed, pinged>>
    ELSE /\ sweptAt' = notifyClock
         /\ IF enabled THEN UNCHANGED <<statusOf, observed, pinged>> ELSE Forget(Saved)

\* ListEnabledDiscordLinks: /notify, /notify-stop and the web page may have
\* switched the link of the user at any time before.
RefreshLinks(enabled) ==
    /\ poll.step = "refresh"
    /\ IF refreshedAt = Never \/ poll.at - refreshedAt >= 1
       THEN /\ cachedLink' = enabled /\ refreshedAt' = poll.at /\ Sweep(enabled)
            /\ poll' = IF enabled THEN [poll EXCEPT !.step = "look"] ELSE Ended
       ELSE /\ poll' = [poll EXCEPT !.step = "look"]
            /\ UNCHANGED <<cachedLink, refreshedAt, sweptAt, statusOf, observed, pinged>>
    /\ UNCHANGED <<notifyClock, checksFrom, networkUp, resets>>

\* checkUser: the workers whose notifications are on, and which are connected;
\* either may have changed at any time before.
LookUpWorkers(saw) ==
    /\ poll.step = "look"
    /\ poll' = IF cachedLink THEN [poll EXCEPT !.step = "update", !.saw = saw] ELSE Ended
    /\ UNCHANGED <<notifyClock, cachedLink, refreshedAt, sweptAt, checksFrom, networkUp, statusOf,
                   resets, observed, pinged>>

-----------------------------------------------------------------------------
FirstSeen(online) ==
    [known |-> TRUE, online |-> online, since |-> poll.at, seenOnline |-> online,
     seenOffline |-> ~online, offlineEligible |-> FALSE, offlineNotified |-> FALSE,
     recoveryEligible |-> FALSE, recoveryNotified |-> FALSE]

\* Mutant: the time of the last transition is kept.
TransitionKeepsSince(st, online) ==
    LET lasted == poll.at - st.since >= Sustained IN
    [st EXCEPT !.online = online,
               !.seenOnline = @ \/ online, !.seenOffline = @ \/ ~online,
               !.offlineNotified = FALSE, !.recoveryNotified = FALSE,
               !.offlineEligible = ~online /\ lasted, !.recoveryEligible = online /\ lasted]

\* A transition resets the timers and the flags; a period that lasted makes the
\* next one eligible for a notification.
Transition(st, online) ==
    LET lasted == poll.at - st.since >= Sustained IN
    [st EXCEPT !.online = online, !.since = poll.at,
               !.seenOnline = @ \/ online, !.seenOffline = @ \/ ~online,
               !.offlineNotified = FALSE, !.recoveryNotified = FALSE,
               !.offlineEligible = ~online /\ lasted, !.recoveryEligible = online /\ lasted]

OfflineOverdue(st, online) ==
    /\ ~online /\ st.seenOnline /\ st.offlineEligible /\ ~st.offlineNotified
    /\ poll.at - st.since >= Sustained
RecoveryOverdue(st, online) ==
    /\ online /\ st.seenOffline /\ st.recoveryEligible /\ ~st.recoveryNotified
    /\ poll.at - st.since >= Sustained

\* The first observation of a user only seeds the state.
First == \A w \in Saved : ~statusOf[w].known
Overdue(w) ==
    /\ statusOf[w].known /\ statusOf[w].online = poll.saw[w] /\ ~First
    /\ OfflineOverdue(statusOf[w], poll.saw[w]) \/ RecoveryOverdue(statusOf[w], poll.saw[w])

Advanced(w) ==
    LET st == statusOf[w]  online == poll.saw[w] IN
    CASE ~st.known -> FirstSeen(online)
      [] st.known /\ st.online # online -> Transition(st, online)
      [] Overdue(w) /\ ~online -> [st EXCEPT !.offlineNotified = TRUE]
      [] Overdue(w) /\ online ->
            [st EXCEPT !.recoveryNotified = TRUE, !.recoveryEligible = FALSE]
      [] OTHER -> st

\* updateWorkerStates, and the ping that checkUser enqueues for what is overdue;
\* a worker that is no longer saved with notifications on is forgotten.  A user
\* without saved workers is forgotten altogether (clearUserOfflineState).
UpdateStates ==
    /\ poll.step = "update"
    /\ LET seen == DOMAIN poll.saw IN
       /\ statusOf' = [w \in Saved |-> IF w \in seen THEN Advanced(w) ELSE Unseen]
       /\ observed' = [w \in Saved |->
              IF w \in seen THEN Append(observed[w], [at |-> poll.at, online |-> poll.saw[w]])
              ELSE <<>>]
       /\ pinged' = [w \in Saved |->
              IF w \notin seen THEN {}
              ELSE IF Overdue(w) THEN pinged[w] \cup {Len(observed[w]) + 1} ELSE pinged[w]]
    /\ poll' = Ended
    /\ UNCHANGED <<notifyClock, cachedLink, refreshedAt, sweptAt, checksFrom,
                   networkUp, resets>>

WorkerNotifyNext ==
    \/ PollTick \/ ResetAll \/ BeginPoll \/ UpdateStates
    \/ \E enabled \in BOOLEAN : RefreshLinks(enabled)
    \/ \E notified \in SUBSET Saved : \E saw \in [notified -> BOOLEAN] : LookUpWorkers(saw)

WorkerNotifySpec == WorkerNotifyInit /\ [][WorkerNotifyNext]_notifyVars

-----------------------------------------------------------------------------
\* Observation j is the first of the run of equal observations that contains i.
StartsRun(obs, j, i) ==
    /\ j <= i /\ \A k \in j..i : obs[k].online = obs[i].online
    /\ j > 1 => obs[j - 1].online # obs[i].online

\* From observation i on, the worker has been in its state for the threshold, and
\* before that it was in the other one for the threshold.
Noteworthy(obs, i) ==
    \E j, h \in 1..i :
        /\ StartsRun(obs, j, i) /\ j > 1 /\ StartsRun(obs, h, j - 1)
        /\ obs[i].at - obs[j].at >= Sustained
        /\ obs[j].at - obs[h].at >= Sustained
        /\ \A k \in j..i-1 : obs[k].at - obs[j].at < Sustained

(* A user is pinged about a worker exactly once for each change that was    *)
(* sustained: observed for the threshold, after the opposite was observed   *)
(* for the threshold.  Flapping, resets between the steps of a poll, links  *)
(* and workers switched off and on again make no further ping and lose none *)
(* (updateWorkerStates).                                                    *)
PingsOnSustainedChange ==
    \A w \in Saved :
        pinged[w] = {i \in 1..Len(observed[w]) : Noteworthy(observed[w], i)}
=============================================================================
