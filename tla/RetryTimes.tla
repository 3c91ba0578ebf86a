------------------------------ MODULE RetryTimes ------------------------------
(***************************************************************************)
(* The arithmetic of durations, which are integers of a fixed width: when  *)
(* a failed message is delivered again (model/repeat_strategy*.go,         *)
(* model/repeat.go), how long the bus waits for the result of a batch      *)
(* (model/consume_limits.go, config.go) and how far back an administrator  *)
(* may restart (controlapi.go).                                            *)
(*                                                                         *)
(* Durations are small multiples of a unit, and the width is small as well.*)
(* So is the number of floats: what they are like is the next one to a     *)
(* result, and that the first whole numbers are floats.                    *)
(***************************************************************************)
EXTENDS Integers

CONSTANTS
  TimeHalf,   \* 2^63 in the code: time.Duration and int64 run from -TimeHalf to TimeHalf - 1
  TimeSecond, \* time.Second
  TimeCounts, \* attempts, numbers of messages
  TimeUnit,   \* units in 1: 2^23 in the code, so that every float32 from 1 on is a number of units
  TimeFloats, \* those floats, in units
  TimeWhole,  \* 2^24 in the code: every whole number up to it is a float
  TimeMultipliers \* in units as well

ASSUME TimeAssumption ==
  /\ TimeHalf \in Nat /\ TimeSecond \in 1 .. TimeHalf - 1 /\ TimeCounts \subseteq Nat
  /\ TimeUnit \in Nat \ {0} /\ TimeWhole \in Nat
  /\ TimeFloats \subseteq Nat /\ {k * TimeUnit : k \in 1 .. TimeWhole} \subseteq TimeFloats
  /\ TimeMultipliers \subseteq Nat

VARIABLES
  timeAsk,   \* what is computed
  timeAnswer \* {its result}, or {} before that

timeVars == <<timeAsk, timeAnswer>>

TimeMax == TimeHalf - 1
TimeMin == - TimeHalf
TimeInts == TimeMin .. TimeMax
TimeWrap(x) == ((x - TimeMin) % (2 * TimeHalf)) + TimeMin

\* Durations as people configure them, whole seconds, and the largest one.
TimeDurations == {d \in TimeInts : d > 0 /\ (d % TimeSecond = 0 \/ d = TimeMax)}

TimeAsks ==
  [kind : {"repeat"}, interval : TimeDurations, multiplier : TimeMultipliers, attempt : TimeCounts,
   progressive : BOOLEAN, after : {0, TimeSecond}]
  \union [kind : {"wait"}, perMessage : TimeDurations \union {0}, declared : TimeDurations \union {0},
          slack : {1, TimeSecond}, max : TimeDurations, count : TimeCounts]
  \union [kind : {"lookback"}, seconds : TimeInts]

TimeInit == timeAsk \in TimeAsks /\ timeAnswer = {}

-----------------------------------------------------------------------------

TimeDistance(a, b) == IF a < b THEN b - a ELSE a - b

\* The floats next to a / TimeUnit; a result halfway between two is rounded to either here.
TimeNearest(a) ==
  {x \in TimeFloats : \A y \in TimeFloats : TimeDistance(a, x * TimeUnit) <= TimeDistance(a, y * TimeUnit)}

\* n * m + 1, rounded once where the processor has such an instruction, and twice elsewhere.
TimeGrow(n, m) ==
  TimeNearest(n * m + TimeUnit * TimeUnit)
    \union UNION {TimeNearest((p + TimeUnit) * TimeUnit) : p \in TimeNearest(n * m)}

\* RepeatCalculatorProgressive: n = n * m + 1 for every attempt but the first, and never m < 1.
TimeFactors(multiplier, attempt) ==
  LET m == IF multiplier > TimeUnit THEN multiplier ELSE TimeUnit
      n[i \in Nat] == IF i <= 1 THEN {TimeUnit} ELSE UNION {TimeGrow(v, m) : v \in n[i - 1]}
  IN  n[attempt]

\* time.Duration(n) cuts the fraction off.  What becomes of a factor that does not fit depends on
\* the processor: the least integer or the greatest.
TimeConvert(n) == IF n \div TimeUnit <= TimeMax THEN {n \div TimeUnit} ELSE {TimeMin, TimeMax}

TimeIntervals(a) ==
  IF a.progressive
  THEN {TimeWrap(a.interval * f) : f \in UNION {TimeConvert(n) : n \in TimeFactors(a.multiplier, a.attempt)}}
  ELSE {a.interval}

\* ApplyFailure: a delay the consumer asks for replaces that of the strategy.
TimeRepeat ==
  /\ timeAsk.kind = "repeat"
  /\ \E interval \in TimeIntervals(timeAsk) :
       timeAnswer' = {IF timeAsk.after > 0 THEN timeAsk.after ELSE interval}
  /\ UNCHANGED timeAsk

\* ConsumeLimits: a duration below a second is not configured; the fallback is a second here.
TimeOr(d) == IF d < TimeSecond THEN TimeSecond ELSE d

\* WithPerMessage, BatchTimeout.
TimeWait ==
  /\ timeAsk.kind = "wait"
  /\ LET perMessage == IF timeAsk.declared > 0 THEN timeAsk.declared ELSE TimeOr(timeAsk.perMessage)
         count == IF timeAsk.count < 1 THEN 1 ELSE timeAsk.count
         timeout == TimeWrap(TimeWrap(perMessage * count) + TimeOr(timeAsk.slack))
         max == TimeOr(timeAsk.max)
     IN  timeAnswer' = {IF timeout > max THEN max ELSE timeout}
  /\ UNCHANGED timeAsk

\* time.Duration divides towards zero.
TimeDivide(a, b) == IF a >= 0 THEN a \div b ELSE - ((-a) \div b)

\* Mutant: only the sign of the product is checked.
TimeTooLargeSign(seconds) == TimeWrap(seconds * TimeSecond) <= 0

TimeTooLarge(seconds) ==
  LET lookback == TimeWrap(seconds * TimeSecond)
  IN  lookback <= 0 \/ TimeDivide(lookback, TimeSecond) # seconds

TimeRefused == 0

\* lookbackStart.
TimeLookback ==
  /\ timeAsk.kind = "lookback"
  /\ timeAnswer' = {IF timeAsk.seconds <= 0 \/ TimeTooLarge(timeAsk.seconds)
                    THEN TimeRefused ELSE TimeWrap(timeAsk.seconds * TimeSecond)}
  /\ UNCHANGED timeAsk

TimeSteps == timeAnswer = {} /\ (TimeRepeat \/ TimeWait \/ TimeLookback)

TimeSpec == TimeInit /\ [][TimeSteps]_timeVars

-----------------------------------------------------------------------------

\* lookbackStart accepts a period exactly if it can be represented, and then takes it as it
\* is: no overflow gets past its two checks.
TimeLookbackExact ==
  timeAsk.kind = "lookback" =>
    LET exact == timeAsk.seconds * TimeSecond
    IN  timeAnswer \subseteq {IF exact \in 1 .. TimeMax THEN exact ELSE TimeRefused}

\* BatchTimeout has no such check: as long as nothing overflows, the wait for a batch is
\* positive, so that there is a watchdog, and no longer than Max.
TimeWaitBounded ==
  timeAsk.kind = "wait" =>
    LET perMessage == IF timeAsk.declared > 0 THEN timeAsk.declared ELSE TimeOr(timeAsk.perMessage)
    IN  perMessage * (timeAsk.count + 1) + TimeOr(timeAsk.slack) <= TimeMax
          => timeAnswer \subseteq 1 .. TimeOr(timeAsk.max)

\* m^n, and 1 + m + ... + m^(n-1) in closed form.
TimePower(m, n) ==
  LET power[i \in Nat] == IF i = 0 THEN 1 ELSE m * power[i - 1]
  IN  power[n]

TimeGeometric(m, n) ==
  CASE n <= 1 -> 1
    [] n > 1 /\ m <= 1 -> n
    [] OTHER -> (TimePower(m, n) - 1) \div (m - 1)

\* GetNextStartedAt has none either: as long as nothing overflows and the sums are small enough
\* for a float, a repeat is due after a whole number of intervals, which lies between the sums
\* 1 + k + ... + k^(attempt-1) for the multiplier k rounded down and up: with a whole multiplier
\* it is that sum, with 1.5 the second attempt waits 2 intervals and not 2.5.
TimeRepeatDue ==
  timeAsk.kind = "repeat" =>
    LET least == TimeGeometric(timeAsk.multiplier \div TimeUnit, timeAsk.attempt)
        most == TimeGeometric((timeAsk.multiplier + TimeUnit - 1) \div TimeUnit, timeAsk.attempt)
    IN  IF timeAsk.after > 0 \/ ~ timeAsk.progressive THEN timeAnswer \subseteq 1 .. TimeMax
        ELSE most <= TimeWhole /\ timeAsk.interval * most <= TimeMax
               => timeAnswer \subseteq {timeAsk.interval * k : k \in least .. most}

\* The three, as one property of a run.
TimesHold == TimeLookbackExact /\ TimeWaitBounded /\ TimeRepeatDue

=============================================================================
