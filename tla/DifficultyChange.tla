-------------------------- MODULE DifficultyChange --------------------------
(***************************************************************************)
(* What a V1 miner was told its difficulty is, against what its shares are *)
(* judged by.                                                              *)
(*                                                                         *)
(* setDifficulty stores the previous difficulty, the new one and the time  *)
(* of the change one after the other and then writes                       *)
(* mining.set_difficulty, under no lock of its own.  The session goroutine *)
(* (a suggestion or a minimum asked for by the miner) and a worker (after  *)
(* a share) change the difficulty and then announce work;                  *)
(* sendNotifyForWithReason may change it once more, under notifyMu.  Each  *)
(* announcement records the difficulty its shares are judged by.           *)
(***************************************************************************)
EXTENDS Integers, Sequences

CONSTANTS
    Tellers,       \* goroutines that announce work: session, worker, listener
    Listener,      \* the one among them that runs listenJobs
    TopDiff,       \* difficulties are 1..TopDiff
    MaxChanges,    \* bound on difficulty changes
    MaxWork        \* bound on announcements

ASSUME DifficultyAssumption ==
    /\ Listener \in Tellers /\ "nobody" \notin Tellers
    /\ TopDiff \in Nat \ {0} /\ MaxChanges \in Nat /\ MaxWork \in Nat

VARIABLES
    stage,        \* where each goroutine is
    wanted,       \* the difficulty a goroutine is changing to
    difficulty, previous,  \* mc.difficulty, mc.previousDifficulty
    grace,        \* mc.lastDiffChange is within previousDiffGracePeriod
    notifyHolder, \* who holds mc.notifyMu
    assigned,     \* mc.jobDifficulty, by announcement
    template,     \* the job manager's generation, and that of mc.lastJob
    lastTemplate,
    socket,       \* messages the miner has not read
    told,         \* the difficulty the miner was told
    work,         \* the newest work it has, and what it was told before it
    changes,      \* changes so far
    overlapped,   \* two changes were in progress at once
    unannounced   \* changes whose announcement was dropped since the newest work

difficultyVars == <<stage, wanted, difficulty, previous, grace, notifyHolder, assigned,
    template, lastTemplate, socket, told, work, changes, overlapped, unannounced>>

Diffs == 1..TopDiff
Nothing == [job |-> 0, diff |-> 0]
Changing == {"stored", "sending", "lockedStored", "lockedSending"}

DifficultyTypeOK ==
    /\ stage \in [Tellers -> Changing \cup {"idle", "announce", "locked", "tracked", "write"}]
    /\ wanted \in [Tellers -> 0..TopDiff]
    /\ difficulty \in Diffs /\ previous \in 0..TopDiff /\ grace \in BOOLEAN
    /\ notifyHolder \in Tellers \cup {"nobody"}
    /\ assigned \in Seq(Diffs) /\ template \in Nat /\ lastTemplate \in 0..template
    /\ told \in Diffs
    /\ work \in [job : 0..MaxWork, diff : 0..TopDiff]
    /\ changes \in 0..MaxChanges /\ overlapped \in BOOLEAN /\ unannounced \in Nat

DifficultyInit ==
    /\ stage = [t \in Tellers |-> "idle"] /\ wanted = [t \in Tellers |-> 0]
    /\ difficulty = 1 /\ previous = 0 /\ grace = FALSE /\ notifyHolder = "nobody"
    /\ assigned = <<>> /\ template = 1 /\ lastTemplate = 0
    /\ socket = <<>> /\ told = 1 /\ work = Nothing
    /\ changes = 0 /\ overlapped = FALSE /\ unannounced = 0

-----------------------------------------------------------------------------
(* setDifficulty.  The first step reads the old difficulty and stores it as *)
(* the previous one.                                                        *)
Store(t, d, next) ==
    /\ changes < MaxChanges /\ changes' = changes + 1
    /\ previous' = difficulty
    /\ wanted' = [wanted EXCEPT ![t] = d]
    /\ stage' = [stage EXCEPT ![t] = next]
    /\ overlapped' = (overlapped \/ \E u \in Tellers : stage[u] \in Changing)
    /\ UNCHANGED <<difficulty, grace, notifyHolder, assigned, template, lastTemplate,
                   socket, told, work, unannounced>>

\* The session applies a suggestion or a floor; a worker applies vardiff.
ChangeDifficulty(t) ==
    /\ stage[t] = "idle" /\ t # Listener
    /\ \E d \in Diffs \ {difficulty} : Store(t, d, "stored")

\* The difficulty, its target and the time of the change
ApplyDifficulty(t) ==
    /\ stage[t] \in {"stored", "lockedStored"}
    /\ difficulty' = wanted[t] /\ grace' = TRUE
    /\ stage' = [stage EXCEPT ![t] = IF @ = "stored" THEN "sending" ELSE "lockedSending"]
    /\ UNCHANGED <<wanted, previous, notifyHolder, assigned, template, lastTemplate,
                   socket, told, work, changes, overlapped, unannounced>>

\* sendDifficultyNotification
TellDifficulty(t) ==
    /\ stage[t] \in {"sending", "lockedSending"}
    /\ socket' = Append(socket, [kind |-> "difficulty", value |-> wanted[t]])
    /\ stage' = [stage EXCEPT ![t] = IF @ = "sending" THEN "announce" ELSE "tracked"]
    /\ UNCHANGED <<wanted, difficulty, previous, grace, notifyHolder, assigned, template,
                   lastTemplate, told, work, changes, overlapped, unannounced>>

-----------------------------------------------------------------------------
(* sendNotifyForWithReason                                                  *)
\* Mutant: notifyMu is not taken.
BeginNotifyUnlocked(t) ==
    /\ stage[t] = "announce" \/ (t = Listener /\ stage[t] = "idle")
    /\ stage' = [stage EXCEPT ![t] = "locked"]
    /\ UNCHANGED <<wanted, difficulty, previous, grace, notifyHolder, assigned, template,
                   lastTemplate, socket, told, work, changes, overlapped, unannounced>>

\* A job was published, or a change of difficulty asks for clean work.
BeginNotify(t) ==
    /\ stage[t] = "announce" \/ (t = Listener /\ stage[t] = "idle")
    /\ notifyHolder = "nobody"
    /\ notifyHolder' = t
    /\ stage' = [stage EXCEPT ![t] = "locked"]
    /\ UNCHANGED <<wanted, difficulty, previous, grace, assigned, template, lastTemplate,
                   socket, told, work, changes, overlapped, unannounced>>

\* A worker announces the job of its share again; when the connection has newer
\* work by now nothing is sent.
DropOlder(t) ==
    /\ stage[t] = "locked" /\ t # Listener /\ lastTemplate > 1
    /\ stage' = [stage EXCEPT ![t] = "idle"] /\ notifyHolder' = "nobody"
    /\ unannounced' = unannounced + 1
    /\ UNCHANGED <<wanted, difficulty, previous, grace, assigned, template, lastTemplate,
                   socket, told, work, changes, overlapped>>

\* maybeAdjustDifficulty under notifyMu
AdjustLocked(t) ==
    /\ stage[t] = "locked"
    /\ \E d \in Diffs \ {difficulty} : Store(t, d, "lockedStored")

KeepDifficulty(t) ==
    /\ stage[t] = "locked"
    /\ stage' = [stage EXCEPT ![t] = "tracked"]
    /\ UNCHANGED <<wanted, difficulty, previous, grace, notifyHolder, assigned, template,
                   lastTemplate, socket, told, work, changes, overlapped, unannounced>>

\* trackJob and setJobDifficulty
Track(t) ==
    /\ stage[t] = "tracked" /\ Len(assigned) < MaxWork
    /\ assigned' = Append(assigned, difficulty)
    /\ lastTemplate' = template
    /\ stage' = [stage EXCEPT ![t] = "write"]
    /\ UNCHANGED <<wanted, difficulty, previous, grace, notifyHolder, template, socket,
                   told, work, changes, overlapped, unannounced>>

WriteNotify(t) ==
    /\ stage[t] = "write"
    /\ socket' = Append(socket, [kind |-> "job", value |-> Len(assigned)])
    /\ notifyHolder' = "nobody" /\ unannounced' = 0
    /\ stage' = [stage EXCEPT ![t] = "idle"]
    /\ UNCHANGED <<wanted, difficulty, previous, grace, assigned, template, lastTemplate,
                   told, work, changes, overlapped>>

-----------------------------------------------------------------------------
(* The miner applies a difficulty to the work it receives afterwards.       *)
MinerReads ==
    /\ socket # <<>> /\ socket' = Tail(socket)
    /\ LET m == Head(socket) IN
         IF m.kind = "difficulty"
         THEN told' = m.value /\ UNCHANGED work
         ELSE work' = [job |-> m.value, diff |-> told] /\ UNCHANGED told
    /\ UNCHANGED <<stage, wanted, difficulty, previous, grace, notifyHolder, assigned,
                   template, lastTemplate, changes, overlapped, unannounced>>

NewTemplate ==
    /\ template < 2 /\ template' = template + 1
    /\ UNCHANGED <<stage, wanted, difficulty, previous, grace, notifyHolder, assigned,
                   lastTemplate, socket, told, work, changes, overlapped, unannounced>>

GraceEnds ==
    /\ grace /\ grace' = FALSE
    /\ UNCHANGED <<stage, wanted, difficulty, previous, notifyHolder, assigned,
                   template, lastTemplate, socket, told, work, changes, overlapped, unannounced>>

DifficultyNext ==
    \/ \E t \in Tellers :
        \/ ChangeDifficulty(t) \/ ApplyDifficulty(t) \/ TellDifficulty(t)
        \/ BeginNotify(t) \/ DropOlder(t) \/ AdjustLocked(t) \/ KeepDifficulty(t)
        \/ Track(t) \/ WriteNotify(t)
    \/ MinerReads \/ NewTemplate \/ GraceEnds

DifficultySpec == DifficultyInit /\ [][DifficultyNext]_difficultyVars

-----------------------------------------------------------------------------
\* submissionMeetsAssignedDifficulty, with the grace of meetsPrevDiffGrace
MeetsAssigned(d, job) ==
    \/ d >= assigned[job]
    \/ grace /\ previous > 0 /\ d >= previous

AtRest == socket = <<>> /\ \A t \in Tellers : stage[t] = "idle"

(* A miner that follows what it is told is not rejected for a low           *)
(* difficulty.  While no two changes overlapped (nothing orders their       *)
(* messages), when everything sent has arrived and nobody is announcing:    *)
(*   - the miner was last told the difficulty the next job is judged by;    *)
(*   - its newest work is judged by exactly what it was told before that    *)
(*     work, with the grace for the previous difficulty or without it,      *)
(*     unless the announcement of a change was dropped because newer work   *)
(*     was just being sent;                                                 *)
(*   - one dropped announcement of a raised difficulty costs no share while *)
(*     the grace lasts.  A lowered difficulty, a second dropped change or   *)
(*     the end of the grace may cost the shares of that work.               *)
(* (setDifficulty, sendNotifyForWithReason, setJobDifficulty,               *)
(* meetsPrevDiffGrace.)                                                     *)
HonestShareAccepted ==
    AtRest /\ ~overlapped =>
        /\ told = difficulty
        /\ work.job > 0 /\ unannounced = 0 => work.diff = assigned[work.job]
        /\ work.job > 0 /\ unannounced = 1 /\ previous <= difficulty /\ grace =>
              MeetsAssigned(work.diff, work.job)
=============================================================================
