---------------------------- MODULE AcceptLimiter ----------------------------
(***************************************************************************)
(* The token bucket in front of the accept loops (accept_rate_limiter.go). *)
(*                                                                         *)
(* wait takes a token or reserves one that is not there yet, unlocks and   *)
(* sleeps until it is due; a shutdown undoes the reservation, and after    *)
(* the reconnection window updateRate lowers the burst under the sleepers. *)
(* Time passes in ticks of one token.                                      *)
(***************************************************************************)
EXTENDS Integers, FiniteSets

CONSTANTS
    Waiters,        \* the accept loops
    Burst,          \* cfg.MaxAcceptBurst
    SteadyBurst,    \* the burst after the reconnection window
    MaxTicks        \* bound on the tokens that time adds

ASSUME AcceptLimiterAssumption ==
    /\ IsFiniteSet(Waiters) /\ MaxTicks \in Nat
    /\ Burst \in Nat \ {0} /\ SteadyBurst \in 1..Burst

VARIABLES
    tokens, unclaimed, burst,   \* the bucket; time since l.last, not yet credited
    asleep,                     \* ticks until a waiter's reservation is due
    ticks, passes, undone       \* tokens added by time; waits that passed, were undone

limiterVars == <<tokens, unclaimed, burst, asleep, ticks, passes, undone>>

Awake == -1
Smaller(a, b) == IF a < b THEN a ELSE b

LimiterTypeOK ==
    /\ tokens \in -Cardinality(Waiters)..Burst /\ unclaimed \in 0..MaxTicks
    /\ burst \in {Burst, SteadyBurst}
    /\ asleep \in [Waiters -> Awake..Cardinality(Waiters)]
    /\ ticks \in 0..MaxTicks /\ passes \in Nat /\ undone \subseteq Waiters

LimiterInit ==
    /\ tokens = Burst /\ unclaimed = 0 /\ burst = Burst
    /\ asleep = [w \in Waiters |-> Awake] /\ ticks = 0 /\ passes = 0 /\ undone = {}

\* Mutant: the bucket overflows.
RefilledUnbounded == tokens + unclaimed

\* refill: what time has added, up to the burst
Refilled == Smaller(burst, tokens + unclaimed)

\* wait takes a token, or reserves one and sleeps until it is due.
TakeToken(w) ==
    /\ asleep[w] = Awake /\ w \notin undone
    /\ tokens' = Refilled - 1 /\ unclaimed' = 0
    /\ IF Refilled >= 1
       THEN passes' = passes + 1 /\ UNCHANGED asleep
       ELSE asleep' = [asleep EXCEPT ![w] = 1 - Refilled] /\ UNCHANGED passes
    /\ UNCHANGED <<burst, ticks, undone>>

TokenDue(w) ==
    /\ asleep[w] = 0
    /\ asleep' = [asleep EXCEPT ![w] = Awake] /\ passes' = passes + 1
    /\ UNCHANGED <<tokens, unclaimed, burst, ticks, undone>>

\* ctx is done while a loop sleeps: the reservation is undone and the loop ends.
CancelWait(w) ==
    /\ asleep[w] >= 0
    /\ tokens' = Smaller(burst, Refilled + 1) /\ unclaimed' = 0
    /\ asleep' = [asleep EXCEPT ![w] = Awake] /\ undone' = undone \cup {w}
    /\ UNCHANGED <<burst, ticks, passes>>

TokenTick ==
    /\ ticks < MaxTicks /\ ticks' = ticks + 1 /\ unclaimed' = unclaimed + 1
    /\ asleep' = [w \in Waiters |-> IF asleep[w] > 0 THEN asleep[w] - 1 ELSE asleep[w]]
    /\ UNCHANGED <<tokens, burst, passes, undone>>

\* updateRate after the reconnection window
SteadyState ==
    /\ burst # SteadyBurst /\ burst' = SteadyBurst /\ tokens' = Smaller(tokens, SteadyBurst)
    /\ UNCHANGED <<unclaimed, asleep, ticks, passes, undone>>

LimiterNext ==
    \/ \E w \in Waiters : TakeToken(w) \/ TokenDue(w) \/ CancelWait(w)
    \/ TokenTick \/ SteadyState

LimiterSpec == LimiterInit /\ [][LimiterNext]_limiterVars

(* However the loops wait, sleep and are cancelled, and whenever the rate   *)
(* changes, no more connections are accepted than the burst and the time    *)
(* allow (acceptRateLimiter.wait).                                          *)
AcceptsBounded == passes <= Burst + ticks
=============================================================================
