----------------------------- MODULE TimerProofs -----------------------------
(***************************************************************************)
(* Proofs about Timer: for every width of the counter, unit and set of     *)
(* frequencies, a sleep does not end early, a stopwatch around it reports  *)
(* no less, the mainline halts only with interrupts enabled and the sleep  *)
(* leaves the interrupt flag as it was.                                    *)
(***************************************************************************)
EXTENDS Timer, TLAPS

-----------------------------------------------------------------------------
(* Arithmetic. *)

LEMMA ConstantsTyped ==
  /\ Wrap \in Nat /\ Wrap > 1 /\ MsPerSecond \in Nat /\ MsPerSecond > 0
  /\ \A f \in Frequencies :
       f \in Nat /\ f <= MsPerSecond /\ (f + 1) * MsPerSecond < Wrap
  BY WrapAssumption, MsPerSecondAssumption, FrequenciesAssumption

(* Division with remainder. *)
LEMMA DivBounds ==
  ASSUME NEW a \in Nat, NEW b \in Nat, b > 0
  PROVE  /\ a \div b \in Nat
         /\ (a \div b) * b <= a /\ a < (a \div b) * b + b
  OBVIOUS

LEMMA ModWord ==
  ASSUME NEW a \in Int
  PROVE  a % Wrap \in Word
  BY ConstantsTyped DEF Word

LEMMA ModSmall ==
  ASSUME NEW a \in Word
  PROVE  a % Wrap = a
  BY ConstantsTyped DEF Word

LEMMA ProductMonotone ==
  ASSUME NEW a \in Nat, NEW b \in Nat, NEW c \in Nat, a <= b
  PROVE  a * c <= b * c /\ a * c \in Nat /\ c * a = a * c
  OBVIOUS

LEMMA ProductNat ==
  ASSUME NEW a \in Nat, NEW b \in Nat
  PROVE  a * b \in Nat /\ 0 * b = 0
<1>1. a * b \in Nat
  OBVIOUS
<1>2. 0 * b = 0
  OBVIOUS
<1>. QED BY <1>1, <1>2

(* A factor that is at most a quotient gives a product in range. *)
LEMMA ProductInRange ==
  ASSUME NEW a \in Nat, NEW b \in Nat, NEW c \in Nat, c > 0, a <= b \div c
  PROVE  a * c <= b
<1>1. b \div c \in Nat /\ (b \div c) * c <= b
  BY DivBounds
<1>2. a * c <= (b \div c) * c
  BY <1>1, ProductMonotone
<1>. QED BY <1>1, <1>2, ProductMonotone

(* sleep_ms rounds up: the ticks it asks for are worth the milliseconds,   *)
(* also when it saturates.                                                 *)
LEMMA SleepTicksSuffice ==
  ASSUME NEW f \in Frequencies, f # 0, NEW m \in Word
  PROVE  /\ SleepTicks(f, m) \in Word
         /\ SleepTicks(f, m) * MsPerSecond >= m * f
<1>. DEFINE M == MsPerSecond
            q == m \div M
            r == m - q * M
            x == r * f + M - 1
            t == x \div M
<1>1. /\ f \in Nat /\ f > 0 /\ f <= M /\ (f + 1) * M < Wrap
      /\ M \in Nat /\ M > 0 /\ m \in Nat /\ m <= MaxWord
      /\ MaxWord \in Nat /\ MaxWord = Wrap - 1 /\ Wrap \in Nat
  BY ConstantsTyped DEF Word, MaxWord
<1>. HIDE DEF M
<1>2. q \in Nat /\ q * M <= m /\ m < q * M + M
  BY <1>1, DivBounds
<1>3. r \in Nat /\ r < M /\ m = q * M + r /\ q * M \in Nat
  BY <1>1, <1>2
<1>. HIDE DEF q, r
<1>4. r * f \in Nat /\ r * f <= f * M /\ f * M + M < Wrap
  <2>1. r * f <= M * f /\ r * f \in Nat
    BY <1>1, <1>3, ProductMonotone
  <2>2. M * f = f * M /\ (f + 1) * M = f * M + M /\ f * M \in Nat
    BY <1>1
  <2>. QED BY <1>1, <2>1, <2>2
<1>5. x \in Word /\ x % Wrap = x /\ x \in Nat
  <2>1. x \in Word
    BY <1>1, <1>4 DEF Word
  <2>. QED BY <2>1, ModSmall DEF Word
<1>6. t \in Nat /\ t * M >= r * f
  <2>1. t \in Nat /\ x < t * M + M /\ t * M \in Nat
    BY <1>1, <1>5, DivBounds
  <2>2. x = r * f + M - 1
    OBVIOUS
  <2>. HIDE DEF x, t
  <2>. QED BY <1>1, <1>4, <2>1, <2>2
<1>7. SleepTicks(f, m) =
        IF q > MaxWord \div f \/ (q * f) % Wrap > MaxWord - t
          THEN MaxWord ELSE ((q * f) % Wrap) + t
  BY <1>5 DEF SleepTicks, q, r, M
<1>. HIDE DEF x, t
<1>8. CASE q > MaxWord \div f \/ (q * f) % Wrap > MaxWord - t
  <2>1. SleepTicks(f, m) = MaxWord
    BY <1>7, <1>8
  <2>2. m * f <= MaxWord * f /\ MaxWord * f <= MaxWord * M
    BY <1>1, ProductMonotone
  <2>3. m * f \in Nat /\ MaxWord * f \in Nat /\ MaxWord * M \in Nat
    BY <1>1
  <2>. QED BY <1>1, <2>1, <2>2, <2>3 DEF Word, M
<1>9. CASE q <= MaxWord \div f /\ (q * f) % Wrap <= MaxWord - t
  <2>1. q * f \in Nat /\ q * f <= MaxWord
    BY <1>1, <1>2, <1>9, ProductInRange
  <2>2. (q * f) % Wrap = q * f
    BY <1>1, <2>1, ModSmall DEF Word
  <2>3. SleepTicks(f, m) = q * f + t /\ q * f + t <= MaxWord
    <3>1. MaxWord \div f \in Nat
      BY <1>1, DivBounds
    <3>. QED BY <1>1, <1>2, <1>6, <1>7, <1>9, <2>1, <2>2, <3>1
  <2>4. (q * f + t) * M = (q * f) * M + t * M
    BY <1>1, <1>6, <2>1
  <2>5. m * f = (q * M) * f + r * f
    BY <1>1, <1>3
  <2>6. (q * M) * f = (q * f) * M
    BY <1>1, <1>2
  <2>7. (q * f) * M \in Nat /\ t * M \in Nat
    BY <1>1, <1>6, <2>1
  <2>8. SleepTicks(f, m) * M >= m * f
    BY <1>4, <1>6, <2>3, <2>4, <2>5, <2>6, <2>7
  <2>9. SleepTicks(f, m) \in Word
    BY <1>1, <1>6, <2>1, <2>3 DEF Word
  <2>. QED BY <2>8, <2>9 DEF M
<1>10. MaxWord \div f \in Nat /\ (q * f) % Wrap \in Nat
  <2>1. q * f \in Int
    BY <1>1, <1>2
  <2>. QED BY <1>1, <2>1, DivBounds, ModWord DEF Word
<1>. QED BY <1>1, <1>2, <1>6, <1>8, <1>9, <1>10

(* The stopwatch rounds down, but what is worth m milliseconds is not      *)
(* reported as less.                                                       *)
LEMMA ElapsedMsSuffices ==
  ASSUME NEW f \in Frequencies, f # 0, NEW d \in Word
  PROVE  /\ ElapsedMs(f, d) \in Word
         /\ \A m \in Word : d * MsPerSecond >= m * f => ElapsedMs(f, d) >= m
<1>. DEFINE M == MsPerSecond
            q == d \div f
            r == d - q * f
            t == (r * M) \div f
<1>1. /\ f \in Nat /\ f > 0 /\ f <= M /\ (f + 1) * M < Wrap
      /\ M \in Nat /\ M > 0 /\ d \in Nat /\ d <= MaxWord
      /\ MaxWord \in Nat /\ MaxWord = Wrap - 1 /\ Wrap \in Nat
  BY ConstantsTyped DEF Word, MaxWord
<1>. HIDE DEF M
<1>2. q \in Nat /\ q * f <= d /\ d < q * f + f
  BY <1>1, DivBounds
<1>3. r \in Nat /\ r < f /\ d = q * f + r /\ q * f \in Nat
  BY <1>1, <1>2
<1>. HIDE DEF q, r
<1>4. r * M \in Word /\ (r * M) % Wrap = r * M /\ r * M \in Nat
  <2>1. r * M <= f * M /\ r * M \in Nat
    BY <1>1, <1>3, ProductMonotone
  <2>2. (f + 1) * M = f * M + M /\ f * M \in Nat
    BY <1>1
  <2>3. r * M \in Word
    BY <1>1, <2>1, <2>2 DEF Word
  <2>. QED BY <2>1, <2>3, ModSmall
<1>5. t \in Nat /\ r * M < t * f + f /\ t * f \in Nat
  BY <1>1, <1>4, DivBounds
<1>6. ElapsedMs(f, d) =
        IF q > MaxWord \div M \/ (q * M) % Wrap > MaxWord - t
          THEN MaxWord ELSE ((q * M) % Wrap) + t
  BY <1>4 DEF ElapsedMs, q, r, M
<1>. HIDE DEF t
<1>7. CASE q > MaxWord \div M \/ (q * M) % Wrap > MaxWord - t
  BY <1>1, <1>6, <1>7 DEF Word
<1>8. CASE q <= MaxWord \div M /\ (q * M) % Wrap <= MaxWord - t
  <2>1. q * M \in Nat /\ q * M <= MaxWord
    BY <1>1, <1>2, <1>8, ProductInRange
  <2>2. (q * M) % Wrap = q * M
    BY <1>1, <2>1, ModSmall DEF Word
  <2>3. ElapsedMs(f, d) = q * M + t /\ q * M + t <= MaxWord
    <3>1. MaxWord \div M \in Nat
      BY <1>1, DivBounds
    <3>. QED BY <1>1, <1>2, <1>5, <1>6, <1>8, <2>1, <2>2, <3>1
  <2>4. ASSUME NEW m \in Word, d * M >= m * f, q * M + t < m
        PROVE  FALSE
    <3>1. m \in Nat /\ q * M + t + 1 <= m /\ q * M + t + 1 \in Nat
      BY <1>1, <1>5, <2>1, <2>4 DEF Word
    <3>2. (q * M + t + 1) * f <= m * f
      BY <1>1, <3>1, ProductMonotone
    <3>3. (q * M + t + 1) * f = (q * M) * f + t * f + f
      BY <1>1, <1>5, <2>1
    <3>4. d * M = (q * f) * M + r * M
      BY <1>1, <1>3
    <3>5. (q * f) * M = (q * M) * f
      BY <1>1, <1>2
    <3>6. (q * M) * f \in Nat /\ m * f \in Nat /\ d * M \in Nat
      BY <1>1, <2>1, <3>1
    <3>. QED BY <1>1, <1>4, <1>5, <2>4, <3>2, <3>3, <3>4, <3>5, <3>6
  <2>5. ElapsedMs(f, d) \in Word
    BY <1>1, <1>5, <2>1, <2>3 DEF Word
  <2>6. \A m \in Word : d * M >= m * f => ~(q * M + t < m)
    BY <2>4
  <2>. QED BY <1>1, <1>5, <2>1, <2>3, <2>5, <2>6 DEF Word, M
<1>9. MaxWord \div M \in Nat /\ (q * M) % Wrap \in Nat
  <2>1. q * M \in Int
    BY <1>1, <1>2
  <2>. QED BY <1>1, <2>1, DivBounds, ModWord DEF Word
<1>. QED BY <1>1, <1>2, <1>5, <1>7, <1>8, <1>9

(* The distance grows by one with a tick, except where it wraps to zero.   *)
LEMMA DistanceAfterTick ==
  ASSUME NEW later \in Word, NEW earlier \in Word
  PROVE  /\ Difference(later, earlier) \in Word
         /\ (later + 1) % Wrap \in Word
         /\ Difference((later + 1) % Wrap, earlier) =
              (Difference(later, earlier) + 1) % Wrap
         /\ Difference((later + 1) % Wrap, earlier)
              <= Difference(later, earlier) + 1
  BY ConstantsTyped DEF Difference, Word

LEMMA DistanceZero ==
  ASSUME NEW now \in Word
  PROVE  Difference(now, now) = 0
  BY ConstantsTyped DEF Difference, Word

-----------------------------------------------------------------------------
(* The inductive invariant.                                                *)

Loop == {"test", "sti", "hlt", "halted", "restore"}

(* Outside the loop IF is what it was; inside, the saved flag is, and IF   *)
(* has at most been set.                                                   *)
Flags ==
  /\ HaltsInterruptible
  /\ pc \notin Loop => interrupt_flag = entry_flag
  /\ pc \in Loop => was_enabled = entry_flag /\ (entry_flag => interrupt_flag)

(* What the counter says about the ticks that have come: never more than   *)
(* there were, and exactly as many while it has not gone round.            *)
Distances ==
  /\ pc \in Loop \cup {"read_flag"} =>
       Difference(timer_ticks, start) <= waited /\ waited <= watched
  /\ pc # "idle" /\ watched < Wrap =>
       Difference(timer_ticks, watch_start) = watched

(* What was asked for is in the ticks, then in the ticks that were waited  *)
(* for, and then in those the stopwatch has seen.                          *)
Asked ==
  /\ pc \in Loop \cup {"read_start", "read_flag"} =>
       ticks * MsPerSecond >= ms * frequency
  /\ pc = "restore" => waited >= ticks
  /\ pc = "watch" => watched * MsPerSecond >= ms * frequency
  /\ MeasuresSleep

TInv == TypeOK /\ Flags /\ Distances /\ Asked

LEMMA TypesUsable ==
  TypeOK =>
    /\ timer_ticks \in Nat /\ timer_ticks < Wrap /\ frequency \in Nat
    /\ start \in Nat /\ ticks \in Nat /\ ticks < Wrap /\ watch_start \in Nat
    /\ ms \in Nat /\ elapsed_ms \in Nat
    /\ waited \in Nat /\ watched \in Nat /\ Horizon = Wrap + 2
    /\ waited <= Horizon /\ watched <= Horizon
  BY ConstantsTyped DEF TypeOK, Word, Horizon

LEMMA TInvInit == Init => TInv
<1>. SUFFICES ASSUME Init PROVE TInv
  OBVIOUS
<1>1. TypeOK
  <2>1. 0 \in Word /\ 0 \in 0 .. Horizon
    BY ConstantsTyped DEF Word, Horizon
  <2>. QED BY <2>1 DEF Init, TypeOK, Label
<1>2. Flags
  BY DEF Init, Flags, HaltsInterruptible, Loop
<1>3. Distances
  BY DEF Init, Distances, Loop
<1>4. Asked
  BY DEF Init, Asked, MeasuresSleep, Loop
<1>. QED BY <1>1, <1>2, <1>3, <1>4 DEF TInv

LEMMA TypesKept == TypeOK /\ [Next]_vars => TypeOK'
<1>. SUFFICES ASSUME TypeOK, [Next]_vars PROVE TypeOK'
  OBVIOUS
<1>z. 0 \in Word /\ 0 \in 0 .. Horizon /\ Horizon \in Nat /\ Word' = Word
      /\ \A n \in 0 .. Horizon : CountUp(n) \in 0 .. Horizon
  BY ConstantsTyped DEF Word, Horizon, CountUp
<1>1. CASE Tick
  BY <1>1 DEF TypeOK, Tick, sleepVars, historyVars
<1>2. CASE TimerInterrupt
  <2>1. timer_ticks' \in Word
    BY <1>2, DistanceAfterTick DEF TypeOK, TimerInterrupt
  <2>2. pc' \in Label
    BY <1>2 DEF TypeOK, TimerInterrupt, Label
  <2>3. waited' \in 0 .. Horizon /\ watched' \in 0 .. Horizon
    BY <1>2, <1>z DEF TypeOK, TimerInterrupt
  <2>. QED BY <1>2, <2>1, <2>2, <2>3 DEF TypeOK, TimerInterrupt, sleepVars
<1>3. CASE OtherInterrupt
  BY <1>3 DEF TypeOK, OtherInterrupt, Label, sleepVars, historyVars
<1>4. CASE Begin
  BY <1>4, <1>z DEF TypeOK, Begin, Go, UnchangedTimer, Label, sleepVars
<1>5. CASE NothingToWait
  BY <1>5 DEF TypeOK, NothingToWait, Go, UnchangedTimer, Label, sleepVars, historyVars
<1>6. CASE SleepMs
  <2>1. ticks' \in Word
    BY <1>6, SleepTicksSuffice DEF TypeOK, SleepMs
  <2>. QED BY <1>6, <2>1 DEF TypeOK, SleepMs, Go, UnchangedTimer, Label, historyVars
<1>7. CASE SleepTicksCall
  BY <1>7, <1>z DEF TypeOK, SleepTicksCall, Go, UnchangedTimer, Label, historyVars
<1>8. CASE ReadStart
  BY <1>8, <1>z DEF TypeOK, ReadStart, Go, UnchangedTimer, Label
<1>9. CASE ReadFlag
  BY <1>9 DEF TypeOK, ReadFlag, Go, UnchangedTimer, Label, historyVars
<1>10. CASE Test
  BY <1>10 DEF TypeOK, Test, UnchangedTimer, Label, sleepVars, historyVars
<1>11. CASE Sti
  BY <1>11 DEF TypeOK, Sti, Go, UnchangedTimer, Label, sleepVars, historyVars
<1>12. CASE Halt
  BY <1>12 DEF TypeOK, Halt, Go, UnchangedTimer, Label, sleepVars, historyVars
<1>13. CASE Restore
  <2>1. interrupt_flag' \in BOOLEAN
    BY <1>13 DEF TypeOK, Restore
  <2>. QED BY <1>13, <1>z, <2>1
           DEF TypeOK, Restore, SleepOver, Go, UnchangedTimer, Label
<1>14. CASE Watch
  <2>1. Difference(timer_ticks, watch_start) \in Word
    BY DistanceAfterTick DEF TypeOK
  <2>2. elapsed_ms' \in Word
    BY <1>14, <1>z, <2>1, ElapsedMsSuffices DEF TypeOK, Watch
  <2>. QED BY <1>14, <2>2
           DEF TypeOK, Watch, Go, UnchangedTimer, Label, sleepVars, historyVars
<1>15. CASE UNCHANGED vars
  BY <1>15 DEF TypeOK, vars
<1>. QED BY <1>1, <1>2, <1>3, <1>4, <1>5, <1>6, <1>7, <1>8, <1>9, <1>10, <1>11,
            <1>12, <1>13, <1>14, <1>15 DEF Next, Mainline

LEMMA FlagsKept == TypeOK /\ Flags /\ [Next]_vars => Flags'
<1>. SUFFICES ASSUME TypeOK, Flags, [Next]_vars PROVE Flags'
  OBVIOUS
<1>. USE DEF Flags, HaltsInterruptible, Loop
<1>t. interrupt_flag \in BOOLEAN /\ was_enabled \in BOOLEAN /\ entry_flag \in BOOLEAN
  BY DEF TypeOK
<1>1. CASE Tick
  BY <1>1 DEF Tick, sleepVars, historyVars
<1>2. CASE TimerInterrupt
  BY <1>2 DEF TimerInterrupt, sleepVars
<1>3. CASE OtherInterrupt
  BY <1>3 DEF OtherInterrupt, sleepVars, historyVars
<1>4. CASE Begin
  BY <1>4 DEF Begin, Go, sleepVars
<1>5. CASE NothingToWait \/ SleepMs \/ SleepTicksCall
  BY <1>5 DEF NothingToWait, SleepMs, SleepTicksCall, Go, sleepVars, historyVars
<1>6. CASE ReadStart
  BY <1>6 DEF ReadStart, Go
<1>7. CASE ReadFlag
  BY <1>7 DEF ReadFlag, Go, historyVars
<1>8. CASE Test
  BY <1>8 DEF Test, sleepVars, historyVars
<1>9. CASE Sti
  BY <1>9 DEF Sti, Go, sleepVars, historyVars
<1>10. CASE Halt
  BY <1>10 DEF Halt, Go, sleepVars, historyVars
<1>11. CASE Restore
  <2>1. pc' = "watch" /\ entry_flag' = entry_flag
    BY <1>11 DEF Restore, Go
  <2>2. interrupt_flag' = entry_flag
    BY <1>11, <1>t DEF Restore, Go
  <2>. QED BY <2>1, <2>2
<1>12. CASE Watch
  BY <1>12 DEF Watch, Go, sleepVars, historyVars
<1>13. CASE UNCHANGED vars
  BY <1>13 DEF vars
<1>. QED BY <1>1, <1>2, <1>3, <1>4, <1>5, <1>6, <1>7, <1>8, <1>9, <1>10, <1>11,
            <1>12, <1>13 DEF Next, Mainline

LEMMA DistancesKept == TypeOK /\ Distances /\ [Next]_vars => Distances'
<1>. SUFFICES ASSUME TypeOK, Distances, [Next]_vars PROVE Distances'
  OBVIOUS
<1>. USE DEF Distances, Loop
<1>1. CASE Tick
  BY <1>1 DEF Tick, sleepVars, historyVars, Difference
<1>2. CASE TimerInterrupt
  <2>1. /\ timer_ticks' = (timer_ticks + 1) % Wrap
        /\ start' = start /\ watch_start' = watch_start
        /\ waited' = CountUp(waited) /\ watched' = CountUp(watched)
    BY <1>2 DEF TimerInterrupt, sleepVars
  <2>2. pc' = IF pc = "halted" THEN "test" ELSE pc
    BY <1>2 DEF TimerInterrupt
  <2>3. ASSUME pc \in Loop \cup {"read_flag"}
        PROVE  Difference(timer_ticks, start)' <= waited' /\ waited' <= watched'
    <3>1. /\ Difference(timer_ticks, start)' <= Difference(timer_ticks, start) + 1
          /\ Difference(timer_ticks, start) \in Word
          /\ Difference(timer_ticks, start)' \in Word
      BY <2>1, DistanceAfterTick DEF TypeOK, Difference
    <3>2. Difference(timer_ticks, start) <= waited /\ waited <= watched
      BY <2>3
    <3>. HIDE DEF Distances
    <3>. QED BY <2>1, <3>1, <3>2, TypesUsable, ConstantsTyped DEF Word, CountUp
  <2>4. ASSUME pc # "idle", watched' < Wrap
        PROVE  Difference(timer_ticks, watch_start)' = watched'
    <3>1. watched' = watched + 1 /\ watched < Wrap
      BY <2>1, <2>4, TypesUsable, ConstantsTyped DEF CountUp
    <3>2. Difference(timer_ticks, watch_start) = watched
      BY <2>4, <3>1
    <3>3. Difference(timer_ticks, watch_start)' = (watched + 1) % Wrap
      BY <2>1, <3>2, DistanceAfterTick DEF TypeOK, Difference
    <3>4. watched + 1 \in Word
      BY <2>4, <3>1, TypesUsable, ConstantsTyped DEF Word
    <3>5. (watched + 1) % Wrap = watched + 1
      BY <3>4, ModSmall
    <3>. QED BY <3>1, <3>3, <3>5
  <2>. QED BY <2>2, <2>3, <2>4
<1>3. CASE OtherInterrupt
  BY <1>3 DEF OtherInterrupt, sleepVars, historyVars, Difference
<1>4. CASE Begin
  <2>1. Difference(timer_ticks, watch_start)' = 0 /\ watched' = 0 /\ pc' = "asked"
    BY <1>4, DistanceZero DEF Begin, Go, UnchangedTimer, TypeOK, Difference
  <2>. QED BY <2>1
<1>5. CASE NothingToWait \/ SleepMs \/ SleepTicksCall
  BY <1>5 DEF NothingToWait, SleepMs, SleepTicksCall, Go, UnchangedTimer,
              sleepVars, historyVars, Difference
<1>6. CASE ReadStart
  <2>1. Difference(timer_ticks, start)' = 0 /\ waited' = 0
    BY <1>6, DistanceZero DEF ReadStart, Go, UnchangedTimer, TypeOK, Difference
  <2>2. 0 <= watched
    BY TypesUsable
  <2>. QED BY <1>6, <2>1, <2>2 DEF ReadStart, Go, UnchangedTimer, Difference
<1>7. CASE ReadFlag
  BY <1>7 DEF ReadFlag, Go, UnchangedTimer, historyVars, Difference
<1>8. CASE Test
  BY <1>8 DEF Test, UnchangedTimer, sleepVars, historyVars, Difference
<1>9. CASE Sti
  BY <1>9 DEF Sti, Go, UnchangedTimer, sleepVars, historyVars, Difference
<1>10. CASE Halt
  BY <1>10 DEF Halt, Go, UnchangedTimer, sleepVars, historyVars, Difference
<1>11. CASE Restore
  BY <1>11 DEF Restore, Go, UnchangedTimer, Difference
<1>12. CASE Watch
  BY <1>12 DEF Watch, Go
<1>13. CASE UNCHANGED vars
  BY <1>13 DEF vars, Difference
<1>. QED BY <1>1, <1>2, <1>3, <1>4, <1>5, <1>6, <1>7, <1>8, <1>9, <1>10, <1>11,
            <1>12, <1>13 DEF Next, Mainline

LEMMA AskedKept == TInv /\ [Next]_vars => Asked'
<1>. SUFFICES ASSUME TInv, [Next]_vars PROVE Asked'
  OBVIOUS
<1>. USE DEF Asked, MeasuresSleep, Loop
<1>t. TypeOK /\ Asked
  BY DEF TInv
<1>1. CASE Tick
  BY <1>1, <1>t DEF Tick, sleepVars, historyVars
<1>2. CASE TimerInterrupt
  <2>1. /\ waited' >= waited /\ watched' >= watched
        /\ waited' \in Nat /\ watched' \in Nat
    BY <1>2, <1>t, TypesUsable, ConstantsTyped DEF TimerInterrupt, CountUp
  <2>2. watched' * MsPerSecond >= watched * MsPerSecond
    BY <1>t, <2>1, TypesUsable, ConstantsTyped, ProductMonotone
  <2>3. /\ watched' * MsPerSecond \in Nat /\ watched * MsPerSecond \in Nat
        /\ ms * frequency \in Nat
    BY <1>t, <2>1, TypesUsable, ConstantsTyped, ProductNat
  <2>4. /\ pc' = IF pc = "halted" THEN "test" ELSE pc
        /\ ticks' = ticks /\ ms' = ms /\ frequency' = frequency
        /\ elapsed_ms' = elapsed_ms
    BY <1>2 DEF TimerInterrupt, sleepVars
  <2>5. pc' = "restore" => waited' >= ticks'
    BY <1>t, <2>1, <2>4, TypesUsable
  <2>6. pc' = "watch" => watched' * MsPerSecond >= ms' * frequency'
    BY <1>t, <2>2, <2>3, <2>4
  <2>7. MeasuresSleep'
    BY <1>t, <2>1, <2>4, TypesUsable, ConstantsTyped
  <2>. QED BY <1>t, <2>4, <2>5, <2>6, <2>7
<1>3. CASE OtherInterrupt
  BY <1>3, <1>t DEF OtherInterrupt, sleepVars, historyVars
<1>4. CASE Begin
  BY <1>4 DEF Begin, Go
<1>5. CASE NothingToWait
  <2>1. ms * frequency = 0 /\ watched * MsPerSecond >= 0
    BY <1>5, <1>t, TypesUsable, ConstantsTyped DEF NothingToWait
  <2>. QED BY <1>5, <2>1 DEF NothingToWait, Go, UnchangedTimer, historyVars
<1>6. CASE SleepMs
  <2>1. ticks' * MsPerSecond >= ms * frequency
    BY <1>6, <1>t, SleepTicksSuffice DEF SleepMs, TypeOK
  <2>. QED BY <1>6, <2>1 DEF SleepMs, Go, UnchangedTimer
<1>7. CASE SleepTicksCall
  <2>1. ms' * frequency = 0 /\ ticks' * MsPerSecond >= 0
    <3>1. ms' = 0 /\ ticks' \in Nat
      BY <1>7, ConstantsTyped DEF SleepTicksCall, Word
    <3>2. frequency \in Nat /\ MsPerSecond \in Nat
      BY <1>t, TypesUsable, ConstantsTyped
    <3>3. ticks' * MsPerSecond \in Nat /\ 0 * frequency = 0
      BY <3>1, <3>2, ProductNat
    <3>4. ms' * frequency = 0
      BY <3>1, <3>3
    <3>. QED BY <3>3, <3>4
  <2>. QED BY <1>7, <2>1 DEF SleepTicksCall, Go, UnchangedTimer
<1>8. CASE ReadStart
  BY <1>8, <1>t DEF ReadStart, Go, UnchangedTimer
<1>9. CASE ReadFlag
  BY <1>9, <1>t DEF ReadFlag, Go, UnchangedTimer
<1>10. CASE Test
  <2>1. pc = "test" /\ pc' \in {"sti", "restore"}
    BY <1>10 DEF Test
  <2>2. pc' = "restore" => waited' >= ticks'
    <3>1. Difference(timer_ticks, start) <= waited
      BY <2>1 DEF TInv, Distances
    <3>2. Difference(timer_ticks, start) \in Nat
      BY <1>t, DistanceAfterTick DEF TypeOK, Word
    <3>. QED BY <1>10, <1>t, <3>1, <3>2, TypesUsable
             DEF Test, sleepVars, historyVars
  <2>. QED BY <1>10, <1>t, <2>1, <2>2 DEF Test, UnchangedTimer, sleepVars
<1>11. CASE Sti
  BY <1>11, <1>t DEF Sti, Go, UnchangedTimer, sleepVars
<1>12. CASE Halt
  BY <1>12, <1>t DEF Halt, Go, UnchangedTimer, sleepVars
<1>13. CASE Restore
  <2>1. waited >= ticks /\ watched >= waited /\ ticks * MsPerSecond >= ms * frequency
    BY <1>13, <1>t DEF Restore, Go, TInv, Distances
  <2>2. watched * MsPerSecond >= ticks * MsPerSecond
    BY <1>t, <2>1, TypesUsable, ConstantsTyped, ProductMonotone
  <2>3. watched * MsPerSecond >= ms * frequency
    <3>1. /\ watched * MsPerSecond \in Nat /\ ticks * MsPerSecond \in Nat
          /\ ms * frequency \in Nat
      BY <1>t, TypesUsable, ConstantsTyped
    <3>. QED BY <2>1, <2>2, <3>1
  <2>. QED BY <1>13, <2>3 DEF Restore, Go, UnchangedTimer
<1>14. CASE Watch
  <2>1. /\ pc = "watch" /\ pc' = "idle" /\ watched' = watched /\ ms' = ms
        /\ frequency' = frequency
    BY <1>14 DEF Watch, Go, UnchangedTimer, historyVars
  <2>2. ASSUME frequency # 0, watched < Wrap
        PROVE  elapsed_ms' >= ms
    <3>1. Difference(timer_ticks, watch_start) = watched /\ watched \in Word
      <4>1. Difference(timer_ticks, watch_start) = watched
        BY <2>1, <2>2 DEF TInv, Distances
      <4>2. watched \in Word
        BY <1>t, <2>2, TypesUsable, ConstantsTyped DEF Word
      <4>. QED BY <4>1, <4>2
    <3>2. ElapsedMs(frequency, watched) >= ms
      BY <1>t, <2>1, <2>2, <3>1, ElapsedMsSuffices DEF TypeOK
    <3>. QED BY <1>14, <2>2, <3>1, <3>2 DEF Watch
  <2>. QED BY <2>1, <2>2
<1>15. CASE UNCHANGED vars
  BY <1>15, <1>t DEF vars
<1>. QED BY <1>1, <1>2, <1>3, <1>4, <1>5, <1>6, <1>7, <1>8, <1>9, <1>10, <1>11,
            <1>12, <1>13, <1>14, <1>15 DEF Next, Mainline

LEMMA TInvAlways == Spec => []TInv
<1>1. TInv /\ [Next]_vars => TInv'
  BY TypesKept, FlagsKept, DistancesKept, AskedKept DEF TInv
<1>. QED BY <1>1, TInvInit, PTL DEF Spec

-----------------------------------------------------------------------------
(* Every variable keeps its width: no sum or product leaves the counter's  *)
(* range where the code does not expect it to wrap.                        *)
THEOREM TimerTypeCorrect == Spec => []TypeOK
  BY TInvAlways, PTL DEF TInv

(* The mainline halts only with interrupts enabled. *)
THEOREM TimerHaltsInterruptible == Spec => []HaltsInterruptible
  BY TInvAlways, PTL DEF TInv, Flags

(* A sleep leaves IF as it found it. *)
THEOREM FlagAlwaysRestored == Spec => []FlagRestored
<1>1. TInv => FlagRestored
  BY DEF TInv, Flags, FlagRestored, Loop
<1>. QED BY <1>1, TInvAlways, PTL

(* No sleep ends early, wherever in its range the counter stands, and also *)
(* when sleep_ms saturates.                                                *)
THEOREM SleepsNeverEarly == Spec => []NeverEarly
<1>1. TInv => NeverEarly
  <2>. SUFFICES ASSUME TInv, pc = "restore"
                PROVE  waited >= ticks /\ waited * MsPerSecond >= ms * frequency
    BY DEF NeverEarly
  <2>1. waited >= ticks /\ ticks * MsPerSecond >= ms * frequency
    BY DEF TInv, Asked, Loop
  <2>2. waited \in Nat /\ ticks \in Nat /\ ms \in Nat /\ frequency \in Nat
    BY TypesUsable DEF TInv
  <2>3. waited * MsPerSecond >= ticks * MsPerSecond
    BY <2>1, <2>2, ConstantsTyped, ProductMonotone
  <2>4. /\ waited * MsPerSecond \in Nat /\ ticks * MsPerSecond \in Nat
        /\ ms * frequency \in Nat
    BY <2>2, ConstantsTyped
  <2>. QED BY <2>1, <2>3, <2>4
<1>. QED BY <1>1, TInvAlways, PTL

(* A stopwatch around a sleep does not report less than was asked for.     *)
THEOREM StopwatchMeasuresSleep == Spec => []MeasuresSleep
  BY TInvAlways, PTL DEF TInv, Asked
-----------------------------------------------------------------------------
(* How late a sleep may become.  Behind the ticks counted so far, a sleep  *)
(* has at most the pending tick and, as no tick was noticed late before,   *)
(* one more; the distance is exact as long as it has not wrapped.          *)
Latched ==
  /\ shadow => pc = "hlt"
  /\ irq0 /\ ~late => ~interrupt_flag \/ shadow \/ pc \in {"halted", "test"}

Pending == IF irq0 THEN 1 ELSE 0
Coming == IF late THEN 0 ELSE 1

Latest ==
  ticks < MaxWord =>
    /\ pc \in {"read_flag", "test"} =>
         waited + (IF interrupt_flag THEN Pending + Coming ELSE 0) <= ticks + 1
    /\ pc \in {"sti", "hlt"} =>
         waited + (IF late /\ ~irq0 THEN 1 ELSE 2) <= ticks + 1
    /\ pc = "halted" =>
         waited + (IF irq0 /\ ~late THEN 2 ELSE 1) <= ticks + 1
    /\ pc = "restore" /\ ~late => waited <= ticks + 1

Exact ==
  pc \in Loop \cup {"read_flag"} /\ waited < Wrap =>
    Difference(timer_ticks, start) = waited

LInv == TypeOK /\ Latched /\ Latest /\ Exact

LEMMA LatchedKept == TypeOK /\ Latched /\ [Next]_vars => Latched'
<1>. SUFFICES ASSUME TypeOK, Latched, [Next]_vars PROVE Latched'
  OBVIOUS
<1>. USE DEF Latched, Taken
<1>t. /\ irq0 \in BOOLEAN /\ late \in BOOLEAN /\ shadow \in BOOLEAN
      /\ interrupt_flag \in BOOLEAN /\ was_enabled \in BOOLEAN
  BY DEF TypeOK
<1>1. CASE Tick
  BY <1>1 DEF Tick
<1>2. CASE TimerInterrupt
  BY <1>2 DEF TimerInterrupt
<1>3. CASE OtherInterrupt
  BY <1>3 DEF OtherInterrupt
<1>4. CASE Begin
  BY <1>4, <1>t DEF Begin, Go, UnchangedTimer
<1>5. CASE NothingToWait \/ SleepMs \/ SleepTicksCall \/ ReadStart \/ ReadFlag
  BY <1>5, <1>t DEF NothingToWait, SleepMs, SleepTicksCall, ReadStart, ReadFlag,
                    Go, UnchangedTimer
<1>6. CASE Test
  BY <1>6, <1>t DEF Test, UnchangedTimer
<1>7. CASE Sti
  BY <1>7, <1>t DEF Sti, Go, UnchangedTimer
<1>8. CASE Halt
  BY <1>8, <1>t DEF Halt, Go, UnchangedTimer
<1>9. CASE Restore
  BY <1>9, <1>t DEF Restore, Go, UnchangedTimer
<1>10. CASE Watch
  BY <1>10, <1>t DEF Watch, Go, UnchangedTimer
<1>11. CASE UNCHANGED vars
  BY <1>11 DEF vars
<1>. QED BY <1>1, <1>2, <1>3, <1>4, <1>5, <1>6, <1>7, <1>8, <1>9, <1>10, <1>11
         DEF Next, Mainline

LEMMA ExactKept == TypeOK /\ Exact /\ [Next]_vars => Exact'
<1>. SUFFICES ASSUME TypeOK, Exact, [Next]_vars PROVE Exact'
  OBVIOUS
<1>. USE DEF Exact, Loop
<1>1. CASE Tick \/ OtherInterrupt
  BY <1>1 DEF Tick, OtherInterrupt, sleepVars, historyVars, Difference
<1>2. CASE TimerInterrupt
  <2>1. /\ timer_ticks' = (timer_ticks + 1) % Wrap /\ start' = start
        /\ waited' = CountUp(waited)
        /\ pc' = IF pc = "halted" THEN "test" ELSE pc
    BY <1>2 DEF TimerInterrupt, sleepVars
  <2>. SUFFICES ASSUME pc \in Loop \cup {"read_flag"}, waited' < Wrap
                PROVE  Difference(timer_ticks, start)' = waited'
    BY <2>1
  <2>2. waited' = waited + 1 /\ waited < Wrap
    BY <2>1, TypesUsable, ConstantsTyped DEF CountUp
  <2>3. Difference(timer_ticks, start) = waited
    BY <2>2
  <2>4. Difference(timer_ticks, start)' = (waited + 1) % Wrap
    BY <2>1, <2>3, DistanceAfterTick DEF TypeOK, Difference
  <2>5. waited + 1 \in Word
    BY <2>2, TypesUsable, ConstantsTyped DEF Word
  <2>6. (waited + 1) % Wrap = waited + 1
    BY <2>5, ModSmall
  <2>. QED BY <2>2, <2>4, <2>6
<1>3. CASE Begin \/ NothingToWait \/ SleepMs \/ SleepTicksCall
  BY <1>3 DEF Begin, NothingToWait, SleepMs, SleepTicksCall, Go
<1>4. CASE ReadStart
  BY <1>4, DistanceZero DEF ReadStart, Go, UnchangedTimer, TypeOK, Difference
<1>5. CASE ReadFlag \/ Test \/ Sti \/ Halt
  BY <1>5 DEF ReadFlag, Test, Sti, Halt, Go, UnchangedTimer, sleepVars,
              historyVars, Difference
<1>6. CASE Restore \/ Watch
  BY <1>6 DEF Restore, Watch, Go
<1>7. CASE UNCHANGED vars
  BY <1>7 DEF vars, Difference
<1>. QED BY <1>1, <1>2, <1>3, <1>4, <1>5, <1>6, <1>7 DEF Next, Mainline

(* A tick that was still to come is counted. *)
LEMMA TickCounted ==
  ASSUME NEW a \in Nat, NEW b \in Nat, NEW t \in Nat, NEW c \in {0, 1},
         b <= a + 1, a + (1 + c) <= t + 1
  PROVE  b + (0 + c) <= t + 1
  OBVIOUS

LEMMA LatestKept == LInv /\ [Next]_vars => Latest'
<1>. SUFFICES ASSUME LInv, [Next]_vars, ticks' < MaxWord PROVE Latest'
  BY DEF Latest, MaxWord
<1>t. /\ waited \in Nat /\ ticks \in Nat /\ MaxWord \in Nat /\ MaxWord = Wrap - 1
      /\ irq0 \in BOOLEAN /\ late \in BOOLEAN /\ shadow \in BOOLEAN
      /\ interrupt_flag \in BOOLEAN /\ was_enabled \in BOOLEAN /\ Latched
  BY TypesUsable, ConstantsTyped DEF LInv, TypeOK, MaxWord
<1>. USE DEF Latest, Pending, Coming
<1>1. CASE Tick
  BY <1>1, <1>t DEF LInv, Tick, sleepVars, historyVars
<1>2. CASE TimerInterrupt
  <2>1. waited' \in Nat /\ waited' <= waited + 1
    BY <1>2, <1>t, ConstantsTyped DEF TimerInterrupt, CountUp, Horizon
  <2>2. /\ irq0 /\ interrupt_flag /\ ~shadow /\ ~irq0'
        /\ UNCHANGED <<interrupt_flag, ticks, late>>
        /\ pc' = IF pc = "halted" THEN "test" ELSE pc
    BY <1>2 DEF TimerInterrupt, Taken, sleepVars
  <2>3. Latest /\ ticks < MaxWord
    BY <2>2 DEF LInv
  <2>4. pc # "halted" /\ pc # "test" => late
    BY <1>t, <2>2 DEF Latched
  <2>a. /\ interrupt_flag' = interrupt_flag /\ ticks' = ticks /\ late' = late
        /\ Pending = 1 /\ Pending' = 0 /\ Coming' = Coming /\ Coming \in {0, 1}
        /\ late => Coming = 0
    BY <2>2
  <2>. HIDE DEF Pending, Coming
  <2>5. CASE pc \in {"read_flag", "test"}
    <3>1. waited + (1 + Coming) <= ticks + 1
      BY <2>2, <2>3, <2>5, <2>a
    <3>2. waited' + (0 + Coming) <= ticks + 1
      BY <1>t, <2>1, <2>a, <3>1, TickCounted
    <3>3. pc' \in {"read_flag", "test"}
      BY <2>2, <2>5
    <3>. QED BY <2>2, <2>a, <3>2, <3>3
  <2>6. CASE pc \in {"sti", "hlt"}
    <3>1. waited + 2 <= ticks + 1 /\ late
      BY <2>2, <2>3, <2>4, <2>6
    <3>2. waited' + (0 + 1) <= ticks + 1
      <4>1. waited + (1 + 1) <= ticks + 1
        BY <3>1
      <4>. QED BY <1>t, <2>1, <4>1, TickCounted
    <3>3. pc' \in {"sti", "hlt"}
      BY <2>2, <2>6
    <3>. QED BY <2>2, <2>a, <3>1, <3>2, <3>3
  <2>7. CASE pc = "halted"
    <3>1. waited + (1 + Coming) <= ticks + 1
      BY <1>t, <2>2, <2>3, <2>7 DEF Coming
    <3>2. waited' + (0 + Coming) <= ticks + 1
      BY <1>t, <2>1, <2>a, <3>1, TickCounted
    <3>3. pc' = "test"
      BY <2>2, <2>7
    <3>. QED BY <2>2, <2>a, <3>2, <3>3
  <2>8. CASE pc \notin {"read_flag", "test", "sti", "hlt", "halted"}
    BY <2>2, <2>4, <2>8
  <2>. QED BY <2>5, <2>6, <2>7, <2>8
<1>3. CASE OtherInterrupt
  BY <1>3, <1>t DEF LInv, OtherInterrupt, sleepVars, historyVars
<1>4. CASE Begin \/ NothingToWait \/ SleepMs \/ SleepTicksCall
  BY <1>4 DEF Begin, NothingToWait, SleepMs, SleepTicksCall, Go
<1>5. CASE ReadStart
  BY <1>5, <1>t DEF Latched, Taken, ReadStart, Go, UnchangedTimer
<1>6. CASE ReadFlag
  BY <1>6, <1>t DEF LInv, ReadFlag, Go, UnchangedTimer, historyVars
<1>7. CASE Test
  <2>1. /\ pc = "test" /\ waited' = waited /\ ticks' = ticks /\ late' = FALSE
        /\ pc' = IF Difference(timer_ticks, start) < ticks
                   THEN "sti" ELSE "restore"
    BY <1>7 DEF Test, sleepVars, historyVars
  <2>2. waited <= ticks + 1
    BY <1>t, <2>1 DEF LInv
  <2>3. Difference(timer_ticks, start) = waited
    BY <1>t, <2>1, <2>2, ConstantsTyped DEF LInv, Exact, Loop
  <2>. QED BY <1>t, <2>1, <2>2, <2>3
<1>8. CASE Sti
  BY <1>8, <1>t DEF LInv, Sti, Go, UnchangedTimer, sleepVars, historyVars
<1>9. CASE Halt
  BY <1>9, <1>t DEF LInv, Halt, Go, UnchangedTimer, sleepVars, historyVars
<1>10. CASE Restore \/ Watch
  BY <1>10 DEF Restore, Watch, Go
<1>11. CASE UNCHANGED vars
  BY <1>11 DEF LInv, vars
<1>. QED BY <1>1, <1>2, <1>3, <1>4, <1>5, <1>6, <1>7, <1>8, <1>9, <1>10, <1>11
         DEF Next, Mainline

(* A sleep that is shorter than the longest one ends at most one tick late,*)
(* whenever the ticks fall between the test, sti and hlt.                  *)
THEOREM SleepsAtMostOneLate == Spec => []AtMostOneLate
<1>1. Init => LInv
  <2>1. Init => Latched /\ Latest /\ Exact
    BY DEF Init, Latched, Latest, Exact, Loop
  <2>. QED BY <2>1, TInvInit DEF TInv, LInv
<1>2. LInv /\ [Next]_vars => LInv'
  BY TypesKept, LatchedKept, LatestKept, ExactKept DEF LInv
<1>3. LInv => AtMostOneLate
  BY DEF LInv, Latest, AtMostOneLate
<1>. QED BY <1>1, <1>2, <1>3, PTL DEF Spec
=============================================================================
