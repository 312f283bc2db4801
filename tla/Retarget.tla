------------------------------ MODULE Retarget ------------------------------
(***************************************************************************)
(* The difficulty a miner with a steady hashrate ends up with.             *)
(*                                                                         *)
(* suggestedVardiff (miner_rejects.go) turns the hashrate estimate and the *)
(* shares of the retarget window into the next difficulty: a dead band, a  *)
(* cool-down after large jumps, a hold for slow miners, a debounce, a      *)
(* damped and capped step, rails on the share rate, a clamp and a rounding *)
(* to whole difficulties.  Here the estimate is exact and the hashrate     *)
(* constant for a while, which leaves the control loop: does it settle,    *)
(* where, and how soon?                                                    *)
(*                                                                         *)
(* Time passes in ticks of half a minute; in each tick every share, and at *)
(* least one notification, runs maybeAdjustDifficulty.  Difficulties are   *)
(* whole numbers, as roundAssignedDifficulty makes them above 1, and       *)
(* intermediate values are counted in units of 1/Unit.                     *)
(***************************************************************************)
EXTENDS Integers

CONSTANTS
    MinDiff, MaxDiff,  \* the bounds clampDifficulty uses
    Nominals,          \* hashrates, as shares per minute at difficulty 1
    MaxDisturbances,   \* how often the hashrate may change or shares pause
    SettleTicks        \* ticks in which a difficulty has to settle

ASSUME RetargetAssumption ==
    /\ MinDiff \in Nat \ {0} /\ MaxDiff \in Nat /\ MinDiff <= MaxDiff
    /\ Nominals \subseteq Nat \ {0} /\ MaxDisturbances \in Nat /\ SettleTicks \in Nat

VARIABLES
    nominal,       \* the miner's hashrate; 0 before it connects
    diff,          \* mc.difficulty
    before,        \* mc.previousDifficulty
    adjustments,   \* mc.vardiffAdjustments, as far as it matters (up to 4)
    pending,       \* vardiffPendingDirection and vardiffPendingCount
    cooldown,      \* ticks left of vardiffUpwardCooldownUntil
    warm,          \* mc.initialEMAWindowDone
    age,           \* ticks since mc.lastDiffChange
    windowAge,     \* ticks since mc.vardiffWindowStart
    due,           \* evaluations to come in this tick, up to MostRequired
    disturbances,  \* hashrate changes and pauses so far
    quiet          \* ticks since the last of them, up to SettleTicks

retargetVars == <<nominal, diff, before, adjustments, pending, cooldown, warm,
                  age, windowAge, due, disturbances, quiet>>

Unit == 6000
MostRequired == 8
TickSeconds == 30
Window == 60            \* defaultVarDiffAdjustmentWindow
TargetShares == 15      \* defaultVarDiffTargetSharesPerMin
MaxShares == 30         \* vardiffSafetyMaxSharesPerMin
MinShares == 2          \* vardiffSafetyMinSharesPerMin
Step == 2               \* defaultVarDiffStep
CooldownTicks == 4      \* vardiffLargeUpCooldown
WindowTicks == 4        \* ensureVardiffWindowLocked: twice the window
MaxAge == 8             \* vardiffAdaptiveMaxWindow

Least(a, b) == IF a < b THEN a ELSE b
Most(a, b) == IF a > b THEN a ELSE b

NotPending == [dir |-> 0, count |-> 0]

RetargetTypeOK ==
    /\ nominal \in Nominals \cup {0} /\ diff \in 0..MaxDiff /\ before \in 0..MaxDiff
    /\ adjustments \in 0..4 /\ cooldown \in 0..CooldownTicks
    /\ pending \in [dir : {-1, 0, 1}, count : 0..MostRequired]
    /\ age \in 0..MaxAge /\ windowAge \in 0..WindowTicks
    /\ warm \in BOOLEAN /\ due \in 0..MostRequired /\ disturbances \in 0..MaxDisturbances
    /\ quiet \in 0..SettleTicks

RetargetInit ==
    /\ nominal = 0 /\ diff = 0 /\ before = 0 /\ adjustments = 0
    /\ pending = NotPending /\ cooldown = 0 /\ warm = FALSE
    /\ age = 0 /\ windowAge = 0 /\ due = 0 /\ disturbances = 0 /\ quiet = 0

-----------------------------------------------------------------------------
\* The miner is expected to find at least `shares` shares in `seconds` seconds.
Expects(shares, seconds) == nominal * seconds >= shares * 60 * diff

\* adaptiveVardiffWindow, vardiffRetargetInterval
Adaptive ==
    CASE Expects(48, Window) -> Window \div 2
      [] ~Expects(48, Window) /\ Expects(24, Window) -> (Window * 3) \div 4
      [] nominal <= 3 * diff -> Window * 2
      [] nominal > 3 * diff /\ nominal <= 6 * diff -> (Window * 3) \div 2
      [] OTHER -> Window
Interval == IF warm THEN Adaptive ELSE Most(Adaptive, 45)

\* mc.vardiffWindowAccepted: one share opened the window, the others follow.
Accepted == 1 + (nominal * windowAge * TickSeconds) \div (60 * diff)

\* The difficulty at which the miner finds TargetShares a minute, within the
\* bounds of the configuration; in units.
Aim == Least(MaxDiff * Unit, Most(MinDiff * Unit, (nominal * Unit) \div TargetShares))

Direction == IF Aim < diff * Unit THEN -1 ELSE 1

\* shouldApplyWarmupDownwardBias when the miner is slow to start on new work
Aimed(slow) ==
    IF slow /\ Direction = -1 THEN Most(MinDiff * Unit, (Aim * 93) \div 100) ELSE Aim

\* The target is far by a factor of at least f, up or down.
Far(aim, f) == aim >= f * diff * Unit \/ aim * f <= diff * Unit

\* vardiffNoiseBand: 2/sqrt(accepted) between 0.2 and 0.6, in tenths rounded up
Band ==
    CASE Accepted >= 100 -> 2
      [] Accepted < 100 /\ Accepted >= 45 -> 3
      [] Accepted < 45 /\ Accepted >= 25 -> 4
      [] Accepted < 25 /\ Accepted >= 16 -> 5
      [] OTHER -> 6
InBand ==
    /\ 10 * Aim >= (10 - Band) * diff * Unit
    /\ 10 * Aim <= (10 + Band) * diff * Unit

\* shouldHoldLowHashrateDownshift
HoldsLow == ~Expects(8, Interval) /\ Accepted < 3

\* shouldDelayVardiffAdjustment: how many evaluations in a row must agree.  The
\* ratio is not inverted for a downward move, so it is below 1 there.
Required(aim) ==
    LET below(n, m) == m * aim < n * diff * Unit    \* ratio < n/m
    IN  CASE adjustments >= 4 /\ below(5, 4) -> 8
          [] adjustments >= 4 /\ ~below(5, 4) /\ below(27, 20) -> 6
          [] below(3, 2) /\ ~(adjustments >= 4 /\ below(27, 20)) -> 4
          [] below(2, 1) /\ ~below(3, 2) -> 3
          [] OTHER -> 2
Debounced(aim) == adjustments >= 2 /\ warm /\ aim < 8 * diff * Unit
\* Mutant: every evaluation starts to count again.
AgreeingRestarts == [dir |-> Direction, count |-> 1]

\* The evaluations in a row that agree on the direction, with this one
Agreeing == [dir |-> Direction,
             count |-> IF pending.dir = Direction THEN Least(pending.count + 1, MostRequired) ELSE 1]
Delays(aim) ==
    /\ Debounced(aim)
    /\ \/ pending.dir # Direction
       \/ Agreeing.count < Required(aim)

\* vardiffAdjustmentCap and vardiffUncertaintyCap
Cap(aim) ==
    LET base == IF adjustments < 2
                THEN IF Far(aim, Step^4) THEN Step * Step * Step ELSE Step * Step
                ELSE IF Far(aim, Step^6) THEN Step * Step * Step
                     ELSE IF Far(aim, Step^4) THEN Step * Step ELSE Step
    IN  IF (Accepted >= 4 /\ Expects(4, Interval)) \/ ~Far(aim, 4) THEN base ELSE Step

\* clampDifficulty and roundAssignedDifficulty
Clamp(units) ==
    (Least(MaxDiff * Unit, Most(MinDiff * Unit, units)) + Unit \div 2) \div Unit

\* The damped, capped step within applyVardiffShareRateSafety's rails
Stepped(aim) ==
    LET cur == diff * Unit
        damped == cur + (7 * (aim - cur)) \div 10
        capped == Least(cur * Cap(aim), Most(cur \div Cap(aim), damped))
    IN  Clamp(Least((nominal * Unit) \div MinShares,
                    Most((nominal * Unit) \div MaxShares, capped)))

-----------------------------------------------------------------------------
\* resetShareWindow, setDifficulty, noteVardiffUpwardMove, resetVardiffPending
Moved(new) ==
    /\ before' = diff /\ diff' = new
    /\ cooldown' = IF new >= 4 * diff THEN CooldownTicks ELSE cooldown
    /\ adjustments' = Least(adjustments + 1, 4)
    /\ pending' = NotPending
    /\ age' = 0 /\ windowAge' = 0 /\ due' = 0

Unmoved(agreement) ==
    /\ pending' = agreement /\ due' = due - 1
    /\ UNCHANGED <<diff, before, adjustments, cooldown, age, windowAge>>

\* sendInitialWork picks the first difficulty.
MinerConnects ==
    /\ nominal = 0
    /\ nominal' \in Nominals /\ diff' \in MinDiff..MaxDiff
    /\ UNCHANGED <<before, adjustments, pending, cooldown, warm, age, windowAge,
                   due, disturbances, quiet>>

\* maybeAdjustDifficulty after a share or before a notification, once the
\* retarget interval has passed
Evaluate ==
    /\ due > 0
    /\ warm' = TRUE
    /\ UNCHANGED <<nominal, disturbances, quiet>>
    /\ \/ InBand /\ Unmoved(NotPending)
       \/ /\ ~InBand
          /\ \/ Direction = 1 /\ cooldown > 0
             \/ Direction = -1 /\ HoldsLow
          /\ Unmoved(pending)
       \/ /\ ~InBand
          /\ Direction = 1 => cooldown = 0
          /\ Direction = -1 => ~HoldsLow
          /\ \E slow \in BOOLEAN : LET aim == Aimed(slow) IN
               IF ~Delays(aim) /\ Stepped(aim) # diff
               THEN Moved(Stepped(aim))
               ELSE Unmoved(IF Debounced(aim) THEN Agreeing ELSE pending)

\* Time passes; an old window is restarted.
TimePasses ==
    /\ nominal > 0 /\ due = 0
    /\ quiet' = Least(quiet + 1, SettleTicks)
    /\ age' = Least(age + 1, MaxAge)
    /\ windowAge' = IF windowAge = WindowTicks THEN 0 ELSE windowAge + 1
    /\ cooldown' = Most(0, cooldown - 1)
    /\ due' = IF age' * TickSeconds < Interval THEN 0
              ELSE Least(MostRequired, Most(1, (nominal * TickSeconds) \div (60 * diff)))
    /\ UNCHANGED <<nominal, diff, before, adjustments, pending, warm, disturbances>>

\* timeoutRiskDownshift: silence after an upward move.  The factor depends on
\* how close the connection's timeout is.
StepBack ==
    /\ before > 0 /\ before < diff
    /\ disturbances < MaxDisturbances /\ disturbances' = disturbances + 1 /\ quiet' = 0
    /\ \E percent \in {50, 65, 75} :
          LET new == Clamp(Least(before * Unit, (diff * Unit * percent) \div 100))
          IN  new < diff /\ Moved(new)
    /\ UNCHANGED <<nominal, warm>>

\* The operator of the miner changes its hashrate.
HashrateChanges ==
    /\ nominal > 0
    /\ disturbances < MaxDisturbances /\ disturbances' = disturbances + 1 /\ quiet' = 0
    /\ nominal' \in Nominals \ {nominal}
    /\ due' = 0
    /\ UNCHANGED <<diff, before, adjustments, pending, cooldown, warm, age, windowAge>>

RetargetNext ==
    MinerConnects \/ Evaluate \/ TimePasses \/ StepBack \/ HashrateChanges

RetargetSpec == RetargetInit /\ [][RetargetNext]_retargetVars

-----------------------------------------------------------------------------
\* The difficulties at which a miner of hashrate n may stay: its share rate is
\* within the rails, or a bound is in the way, or it is so slow that fewer than
\* three shares fall into a window and the code holds its difficulty.
RestsAt(n) ==
    {d \in MinDiff..MaxDiff :
        \/ n <= MaxShares * d /\ n >= MinShares * d
        \/ n > MaxShares * d /\ d = MaxDiff
        \/ n < MinShares * d /\ d = MinDiff
        \/ n * 2 * Window < 3 * 60 * d}

(* A miner whose hashrate no longer changes is soon, and for good, at a     *)
(* share rate within the safety rails, unless the configured bounds forbid  *)
(* it or it is so slow that its difficulty is held.  The debounce, the      *)
(* cool-down, the rails, the damping and the rounding to whole numbers must *)
(* not work against each other (suggestedVardiff).                          *)
RateSettles == quiet = SettleTicks => diff \in RestsAt(nominal)
=============================================================================
