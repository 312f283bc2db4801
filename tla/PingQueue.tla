----------------------------- MODULE PingQueue -----------------------------
(***************************************************************************)
(* The queue of Discord messages (discord_notifier_queue.go).              *)
(*                                                                         *)
(* Lines are merged into the last queued message while there is room, and  *)
(* a sender takes the head.  A message is a struct that is copied, but the *)
(* copies share its map from users to lines: an entry of the map is        *)
(* visible in every copy, while the list of users and the notices belong   *)
(* to the copy.  The sender works on a copy, outside the lock.  How long   *)
(* lines are is left open: a line may or may not fit.                      *)
(***************************************************************************)
EXTENDS Integers, Sequences

CONSTANTS
    Users,         \* linked users
    QueueLimit,    \* maxMessagesQueued
    MaxQueued,     \* bound on the lines enqueued
    MaxWipes       \* bound on resets

ASSUME PingQueueAssumption ==
    /\ "none" \notin Users /\ QueueLimit \in Nat \ {0}
    /\ MaxQueued \in Nat /\ MaxWipes \in Nat

VARIABLES
    pingQueue,     \* the messages: their map, notices, users, everyone
    linesByUser,   \* the maps, by the number of the message they were made for
    droppedLines,  \* droppedQueuedLines
    noticeDue,     \* no drop notice in the last minute
    sender,        \* the sender: its step, its copy of the head, what it rendered
    lines,         \* lines enqueued so far
    wipes,
    posted         \* the lines posted to the channel for each user, and the notices

pingVars == <<pingQueue, linesByUser, droppedLines, noticeDue, sender, lines, wipes, posted>>

NoUser == "none"
Readers == Users \cup {NoUser}
Message(k, notices, users, everyone) ==
    [map |-> k, notices |-> notices, userOrder |-> users, everyone |-> everyone]
NoMap == 0
Blank == [u \in Readers |-> <<>>]
NotSending == [step |-> "idle", next |-> Message(NoMap, <<>>, {}, FALSE), content |-> Blank]
DropNotice == 0

PingTypeOK ==
    /\ Len(pingQueue) <= QueueLimit /\ Len(linesByUser) <= MaxQueued
    /\ droppedLines \in 0..MaxQueued /\ noticeDue \in BOOLEAN
    /\ sender.step \in {"idle", "peeked", "rendered", "pop"}
    /\ lines \in 0..MaxQueued /\ wipes \in 0..MaxWipes

PingInit ==
    /\ pingQueue = <<>> /\ linesByUser = <<>> /\ droppedLines = 0 /\ noticeDue = TRUE
    /\ sender = NotSending /\ lines = 0 /\ wipes = 0 /\ posted = Blank

-----------------------------------------------------------------------------
\* renderQueuedMessage: the notices, and the lines of the users of this copy
LinesOf(m) ==
    [u \in Readers |-> IF u = NoUser THEN m.notices
                       ELSE IF u \in m.userOrder THEN linesByUser[m.map][u] ELSE <<>>]

\* The last message with a line for user (or a notice) appended to it: the copy,
\* and the maps after the append.  A message of notices gets its map when it needs
\* one; a user with lines in the map is taken to be in the list.
Listed(m, user) == m.map # NoMap /\ linesByUser[m.map][user] # <<>>
NewMap(maps, user, line) ==
    Append(maps, [u \in Users |-> IF u = user THEN <<line>> ELSE <<>>])
Grown(m, user, line) ==
    IF user = NoUser THEN [m EXCEPT !.notices = Append(@, line)]
    ELSE [m EXCEPT !.map = IF @ = NoMap THEN Len(linesByUser) + 1 ELSE @,
                   !.userOrder = IF Listed(m, user) THEN @ ELSE @ \cup {user}]
GrownMaps(m, user, line) ==
    IF user = NoUser THEN linesByUser
    ELSE IF m.map = NoMap THEN NewMap(linesByUser, user, line)
    ELSE [linesByUser EXCEPT ![m.map][user] = Append(@, line)]

\* A new message, unless the queue is full
StartNew(user, line, everyone, maps) ==
    IF Len(pingQueue) >= QueueLimit
    THEN /\ droppedLines' = droppedLines + 1 /\ linesByUser' = maps /\ UNCHANGED pingQueue
    ELSE /\ pingQueue' = Append(pingQueue,
               IF user = NoUser THEN Message(NoMap, <<line>>, {}, everyone)
               ELSE Message(Len(maps) + 1, <<>>, {user}, everyone))
         /\ linesByUser' = IF user = NoUser THEN maps ELSE NewMap(maps, user, line)
         /\ UNCHANGED droppedLines

\* The line fits into the last message, or stays in the map of that message, if it
\* has one, all the same.  A line of a user who is not in the list is not rendered,
\* so that it fits.
Merge(last, user, line, everyone, fits) ==
    LET grown == Grown(last, user, line)  maps == GrownMaps(last, user, line) IN
    /\ user \notin grown.userOrder \cup {NoUser} => fits
    /\ IF fits
       THEN /\ pingQueue' = [pingQueue EXCEPT ![Len(pingQueue)] = grown]
            /\ linesByUser' = maps /\ UNCHANGED droppedLines
       ELSE StartNew(user, line, everyone, IF last.map = NoMap THEN linesByUser ELSE maps)

\* enqueueQueuedLine
Enqueue(user, everyone, fits) ==
    /\ lines < MaxQueued /\ lines' = lines + 1
    /\ everyone => user = NoUser
    /\ LET last == pingQueue[Len(pingQueue)] IN
       IF pingQueue = <<>> \/ last.everyone # everyone
       THEN StartNew(user, lines + 1, everyone, linesByUser)
       ELSE Merge(last, user, lines + 1, everyone, fits)
    /\ UNCHANGED <<noticeDue, sender, wipes, posted>>

\* resetAllNotificationState, followed by a notice of the network (setNetworkOK)
Wipe ==
    /\ wipes < MaxWipes /\ wipes' = wipes + 1
    /\ pingQueue' = <<>> /\ droppedLines' = 0 /\ noticeDue' = TRUE
    /\ UNCHANGED <<linesByUser, sender, lines, posted>>

-----------------------------------------------------------------------------
\* sendNextQueuedMessage, every ten seconds
Peek ==
    /\ sender.step = "idle" /\ pingQueue # <<>>
    /\ sender' = [NotSending EXCEPT !.step = "peeked", !.next = Head(pingQueue)]
    /\ UNCHANGED <<pingQueue, linesByUser, droppedLines, noticeDue, lines, wipes, posted>>

\* The outage guard: too many users at once, and everything is dropped.
Suppress ==
    /\ sender.step = "idle" /\ pingQueue # <<>> /\ wipes < MaxWipes
    /\ wipes' = wipes + 1 /\ pingQueue' = <<>> /\ droppedLines' = 0 /\ noticeDue' = TRUE
    /\ UNCHANGED <<linesByUser, sender, lines, posted>>

Render ==
    /\ sender.step = "peeked"
    /\ sender' = [sender EXCEPT !.step = "rendered", !.content = LinesOf(sender.next)]
    /\ UNCHANGED <<pingQueue, linesByUser, droppedLines, noticeDue, lines, wipes, posted>>

\* ChannelMessageSendComplex: posted, refused for good, or to be tried again
SendPing(result) ==
    /\ sender.step = "rendered"
    /\ posted' = IF result = "ok" THEN [u \in Readers |-> posted[u] \o sender.content[u]]
                 ELSE posted
    /\ sender' = CASE result = "ok" -> [sender EXCEPT !.step = "pop"]
                   [] result = "refused" -> [sender EXCEPT !.step = "pop", !.content = Blank]
                   [] result = "failed" -> NotSending
    /\ UNCHANGED <<pingQueue, linesByUser, droppedLines, noticeDue, lines, wipes>>

\* Whatever is the head by now is popped; after a post, dropped lines are mentioned.
Popped == IF pingQueue = <<>> THEN <<>> ELSE Tail(pingQueue)
Mentions == sender.content # Blank /\ droppedLines > 0 /\ noticeDue
Pop ==
    /\ sender.step = "pop" /\ sender' = NotSending
    /\ droppedLines' = IF Mentions THEN 0 ELSE droppedLines
    /\ noticeDue' = (noticeDue /\ ~Mentions)
    /\ IF Mentions /\ Len(Popped) < QueueLimit
       THEN pingQueue' = Append(Popped, Message(NoMap, <<DropNotice>>, {}, FALSE))
       ELSE pingQueue' = Popped
    /\ UNCHANGED <<linesByUser, lines, wipes, posted>>

MinutePasses ==
    /\ ~noticeDue /\ noticeDue' = TRUE
    /\ UNCHANGED <<pingQueue, linesByUser, droppedLines, sender, lines, wipes, posted>>

PingNext ==
    \/ \E user \in Readers, everyone, fits \in BOOLEAN : Enqueue(user, everyone, fits)
    \/ \E result \in {"ok", "refused", "failed"} : SendPing(result)
    \/ Wipe \/ Suppress \/ Peek \/ Render \/ Pop \/ MinutePasses

PingSpec == PingInit /\ [][PingNext]_pingVars

-----------------------------------------------------------------------------
(* The lines of a user, and the notices, are posted in the order in which   *)
(* they were enqueued (when one is posted twice, in a row), whatever is     *)
(* merged into a message while it is being sent (enqueueQueuedLine).        *)
PostsInOrder ==
    \A u \in Readers : \A i, k \in 1..Len(posted[u]) :
        i < k /\ posted[u][k] # DropNotice => posted[u][i] <= posted[u][k]
=============================================================================
