----------------------------- MODULE BestShares -----------------------------
(***************************************************************************)
(* The pool's best shares (metrics.go): a short list sorted by difficulty. *)
(* A share that ranks goes to the list's worker through a bounded queue,   *)
(* or to a goroutine of its own when the queue is full.  Copies of the     *)
(* list are written to the table outside the lock, a failed one once more  *)
(* after five seconds.                                                     *)
(***************************************************************************)
EXTENDS SequencesExt, Integers

CONSTANTS
    Ranks,                 \* the difficulties of the shares, each found once
    BestLimit, BestRoom,   \* defaultBestShareLimit, capacity of bestShareChan
    MaxTableFaults, MaxProcessStops

ASSUME BestSharesAssumption ==
    /\ Ranks \subseteq Nat \ {0} /\ BestLimit \in Nat \ {0} /\ BestRoom \in Nat \ {0}
    /\ MaxTableFaults \in Nat /\ MaxProcessStops \in Nat

VARIABLES
    ranking,        \* how far a share is on its way into the list
    bestQueue, bestShares,
    writers,        \* copies on their way to the table: of whom, and what
    bestTable,      \* best_shares
    retries,        \* failed writes that wait for their second attempt
    writersCrossed,     \* two writers were at work at once, or a second attempt failed
    listed,         \* the difficulties the list was given since the start
    tableFaults, processStops

bestVars == <<ranking, bestQueue, bestShares, writers, bestTable, retries, writersCrossed, listed,
              tableFaults, processStops>>

Lists == {l \in BoundedSeq(Ranks, BestLimit) : IsInjective(l)}

BestTypeOK ==
    /\ ranking \in [Ranks -> {"new", "fits", "spawned", "done"}]
    /\ Len(bestQueue) <= BestRoom /\ bestShares \in Lists /\ bestTable \in Lists
    /\ writers \subseteq [by : {"worker", "spawned", "retry"}, list : Lists]
    /\ retries \in 0..MaxTableFaults /\ writersCrossed \in BOOLEAN /\ listed \subseteq Ranks
    /\ tableFaults \in 0..MaxTableFaults /\ processStops \in 0..MaxProcessStops

BestInit ==
    /\ ranking = [d \in Ranks |-> "new"] /\ bestQueue = <<>> /\ bestShares = <<>>
    /\ writers = {} /\ bestTable = <<>> /\ retries = 0 /\ writersCrossed = FALSE /\ listed = {}
    /\ tableFaults = 0 /\ processStops = 0

\* The list is full, and d is not better than its last.
Outranked(d) == Len(bestShares) = BestLimit /\ d <= Last(bestShares)

\* TrackBestShare
TrackBest(d) ==
    /\ ranking[d] = "new"
    /\ ranking' = [ranking EXCEPT ![d] = IF Outranked(d) THEN "done" ELSE "fits"]
    /\ UNCHANGED <<bestQueue, bestShares, writers, bestTable, retries, writersCrossed, listed,
                   tableFaults, processStops>>
QueueBest(d) ==
    /\ ranking[d] = "fits"
    /\ LET room == Len(bestQueue) < BestRoom IN
       /\ bestQueue' = IF room THEN Append(bestQueue, d) ELSE bestQueue
       /\ ranking' = [ranking EXCEPT ![d] = IF room THEN "done" ELSE "spawned"]
    /\ UNCHANGED <<bestShares, writers, bestTable, retries, writersCrossed, listed, tableFaults,
                   processStops>>

\* recordBestShare: d goes behind the shares that are better and moves the others down;
\* the last one of a full list falls off.
Better(i, d) == i \in DOMAIN bestShares /\ bestShares[i] > d
Ranked(d) == LET places == 1..(IF Len(bestShares) < BestLimit THEN Len(bestShares) + 1 ELSE BestLimit)
             IN  [i \in places |-> IF Better(i, d) THEN bestShares[i]
                                  ELSE IF i = 1 \/ Better(i - 1, d) THEN d
                                  ELSE bestShares[i - 1]]
WriteStarts(by, list) ==
    /\ writers' = writers \cup {[by |-> by, list |-> list]}
    /\ writersCrossed' = (writersCrossed \/ writers # {})
Insert(by, d) ==
    /\ listed' = listed \cup {d}
    /\ IF Outranked(d) THEN UNCHANGED <<bestShares, writers, writersCrossed>>
       ELSE bestShares' = Ranked(d) /\ WriteStarts(by, bestShares')

\* bestShareWorker takes the next share after its own write; a spawned goroutine waits
\* for nobody.
InsertQueued ==
    /\ bestQueue # <<>> /\ \A w \in writers : w.by # "worker"
    /\ bestQueue' = Tail(bestQueue) /\ Insert("worker", Head(bestQueue))
    /\ UNCHANGED <<ranking, bestTable, retries, tableFaults, processStops>>
InsertSpawned(d) ==
    /\ ranking[d] = "spawned" /\ ranking' = [ranking EXCEPT ![d] = "done"] /\ Insert("spawned", d)
    /\ UNCHANGED <<bestQueue, bestTable, retries, tableFaults, processStops>>

\* persistBestShares: one transaction.  The second attempt writes the list of its time.
WriteTable(w, ok) ==
    /\ w \in writers /\ writers' = writers \ {w}
    /\ IF ok THEN bestTable' = w.list /\ UNCHANGED <<retries, writersCrossed, tableFaults>>
       ELSE /\ tableFaults < MaxTableFaults /\ tableFaults' = tableFaults + 1
            /\ retries' = (IF w.by = "retry" THEN retries ELSE retries + 1)
            /\ writersCrossed' = (writersCrossed \/ w.by = "retry")
            /\ UNCHANGED bestTable
    /\ UNCHANGED <<ranking, bestQueue, bestShares, listed, processStops>>
WriteAgain ==
    /\ retries > 0 /\ retries' = retries - 1 /\ WriteStarts("retry", bestShares)
    /\ UNCHANGED <<ranking, bestQueue, bestShares, bestTable, listed, tableFaults, processStops>>

\* The process stops, whatever is under way; the next one loads the table.
NewProcess ==
    /\ processStops < MaxProcessStops /\ processStops' = processStops + 1
    /\ bestShares' = bestTable /\ listed' = ToSet(bestTable)
    /\ bestQueue' = <<>> /\ writers' = {} /\ retries' = 0 /\ writersCrossed' = FALSE
    /\ ranking' = [d \in Ranks |-> IF ranking[d] = "new" THEN "new" ELSE "done"]
    /\ UNCHANGED <<bestTable, tableFaults>>

BestNext ==
    \/ \E d \in Ranks : TrackBest(d) \/ QueueBest(d) \/ InsertSpawned(d)
    \/ InsertQueued \/ WriteAgain \/ NewProcess
    \/ \E w \in writers, ok \in BOOLEAN : WriteTable(w, ok)

BestSpec == BestInit /\ [][BestNext]_bestVars

-----------------------------------------------------------------------------
(* The list holds the best of the shares it was given and of the table it   *)
(* was loaded from, in order; and the table follows it whenever nothing is  *)
(* being written and no two writers were at work at once, of which the one  *)
(* with the older copy may be the last (recordBestShare,                    *)
(* persistBestShares).                                                      *)
BestSharesKept ==
    /\ \A i, j \in DOMAIN bestShares : i < j => bestShares[i] > bestShares[j]
    /\ ToSet(bestShares) \subseteq listed
    /\ \A d \in listed \ ToSet(bestShares) :
          Len(bestShares) = BestLimit /\ \A e \in ToSet(bestShares) : e > d
    /\ writers = {} /\ retries = 0 /\ ~writersCrossed => bestTable = bestShares
=============================================================================
