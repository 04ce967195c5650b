------------------------------- MODULE Timer -------------------------------
(***************************************************************************)
(* Tick counting, sleeping and the stopwatch: src/kernel/timer.cpp and     *)
(* src/tools/stopwatch.h.  The mainline times a sleep with a stopwatch,    *)
(* again and again; the timer interrupt advances the counter between any   *)
(* two of its steps while interrupts are enabled.  The counter and every   *)
(* sum and product of the code wrap at Wrap.                               *)
(***************************************************************************)
EXTENDS Integers

CONSTANTS
  Wrap,           \* 2^32 in the source
  MsPerSecond,    \* milliseconds_per_second, ms_per_sec: 1000 in the source
  Frequencies     \* values of g_timer_frequency: 0 until the PIT is set,
                  \* then 20 .. 100 (initialize_pit refuses any other)

ASSUME WrapAssumption == Wrap \in Nat /\ Wrap > 1
ASSUME MsPerSecondAssumption == MsPerSecond \in Nat /\ MsPerSecond > 0
ASSUME FrequenciesAssumption ==
  /\ Frequencies \subseteq Nat
  /\ \A f \in Frequencies : f <= MsPerSecond /\ (f + 1) * MsPerSecond < Wrap

VARIABLES
  timer_ticks, frequency,
  irq0,                       \* request latched in the PIC
  pc, interrupt_flag,
  shadow,                     \* sti has just set IF: one more instruction runs
  start, ticks, was_enabled,  \* locals and argument of sleep_ticks
  watch_start, ms,            \* the stopwatch's member, the argument asked for
  elapsed_ms,                 \* what the destructor printed last
  waited, watched,            \* history: ticks since start and watch_start
                              \* were read, counted up to Horizon
  entry_flag,                 \* history: IF when the sleep began
  late                        \* history: a tick came since the last look at
                              \* the counter, or since the sleep began

vars == <<timer_ticks, frequency, irq0, pc, interrupt_flag, shadow, start,
          ticks, was_enabled, watch_start, ms, elapsed_ms, waited, watched,
          entry_flag, late>>

sleepVars == <<start, ticks, was_enabled>>
historyVars == <<waited, watched, entry_flag>>

-----------------------------------------------------------------------------
Word == 0 .. Wrap - 1
MaxWord == Wrap - 1                                           \* UINT32_MAX
Horizon == Wrap + 2
Difference(later, earlier) == (later - earlier) % Wrap
CountUp(n) == IF n < Horizon THEN n + 1 ELSE n

Label == {"idle", "asked", "read_start", "read_flag", "test", "sti", "hlt",
          "halted", "restore", "watch"}

(* sleep_ms: the argument of sleep_ticks. *)
SleepTicks(f, m) ==
  LET whole_seconds == m \div MsPerSecond
      remaining_ms == m - whole_seconds * MsPerSecond
      whole_second_ticks == (whole_seconds * f) % Wrap
      remaining_ticks ==
        ((remaining_ms * f + MsPerSecond - 1) % Wrap) \div MsPerSecond
  IN IF \/ whole_seconds > MaxWord \div f
        \/ whole_second_ticks > MaxWord - remaining_ticks
       THEN MaxWord
       ELSE whole_second_ticks + remaining_ticks

(* Faulty variant: the sum is not tested, and wraps. *)
ElapsedMsUnclamped(f, diff) ==
  LET whole_seconds == diff \div f
      remaining_ticks == diff - whole_seconds * f
  IN (whole_seconds * MsPerSecond
        + ((remaining_ticks * MsPerSecond) % Wrap) \div f) % Wrap

(* stopwatch::~stopwatch *)
ElapsedMs(f, diff) ==
  LET whole_seconds == diff \div f
      remaining_ticks == diff - whole_seconds * f
      whole_seconds_ms == (whole_seconds * MsPerSecond) % Wrap
      remaining_ms == ((remaining_ticks * MsPerSecond) % Wrap) \div f
  IN IF \/ whole_seconds > MaxWord \div MsPerSecond
        \/ whole_seconds_ms > MaxWord - remaining_ms
       THEN MaxWord
       ELSE whole_seconds_ms + remaining_ms

Init ==
  /\ timer_ticks \in Word /\ frequency \in Frequencies
  /\ irq0 = FALSE /\ pc = "idle" /\ interrupt_flag \in BOOLEAN /\ shadow = FALSE
  /\ start = 0 /\ ticks = 0 /\ was_enabled = FALSE
  /\ watch_start = 0 /\ ms = 0 /\ elapsed_ms = 0
  /\ waited = 0 /\ watched = 0 /\ entry_flag = interrupt_flag /\ late = FALSE

-----------------------------------------------------------------------------
(* The PIT and the timer interrupt, which an interrupt gate makes one step.*)
(* A tick period is longer than one pass of the loop in sleep_ticks: no    *)
(* second tick comes before the mainline has looked at the counter again   *)
(* or waits in hlt.  A tick that finds one pending is lost.                *)
Tick ==
  /\ ~irq0 /\ (late => pc \in {"halted", "idle"})
  /\ irq0' = TRUE /\ late' = TRUE
  /\ UNCHANGED <<timer_ticks, frequency, pc, interrupt_flag, shadow, sleepVars,
                 watch_start, ms, elapsed_ms, historyVars>>

(* A request that can be taken is taken before the next instruction. *)
Taken == irq0 /\ interrupt_flag /\ ~shadow

TimerInterrupt ==
  /\ Taken
  /\ irq0' = FALSE
  /\ timer_ticks' = (timer_ticks + 1) % Wrap
  /\ waited' = CountUp(waited) /\ watched' = CountUp(watched)
  /\ pc' = IF pc = "halted" THEN "test" ELSE pc
  /\ UNCHANGED <<frequency, interrupt_flag, shadow, sleepVars, watch_start, ms,
                 elapsed_ms, entry_flag, late>>

(* Any other interrupt also ends a hlt. *)
OtherInterrupt ==
  /\ pc = "halted" /\ interrupt_flag /\ pc' = "test"
  /\ UNCHANGED <<timer_ticks, frequency, irq0, interrupt_flag, shadow,
                 sleepVars, watch_start, ms, elapsed_ms, historyVars, late>>

-----------------------------------------------------------------------------
Go(from, to) == ~Taken /\ pc = from /\ pc' = to

UnchangedTimer == UNCHANGED <<timer_ticks, frequency, irq0>>

(* stopwatch::stopwatch, then the call of sleep_ms *)
Begin ==
  /\ Go("idle", "asked")
  /\ ms' \in Word
  /\ watch_start' = timer_ticks /\ watched' = 0 /\ waited' = 0
  /\ entry_flag' = interrupt_flag /\ late' = FALSE
  /\ elapsed_ms' = 0
  /\ UnchangedTimer
  /\ UNCHANGED <<interrupt_flag, shadow, sleepVars>>

NothingToWait ==
  /\ Go("asked", "watch") /\ (frequency = 0 \/ ms = 0)
  /\ UnchangedTimer
  /\ UNCHANGED <<interrupt_flag, shadow, sleepVars, watch_start, ms, elapsed_ms,
                 historyVars, late>>

SleepMs ==
  /\ Go("asked", "read_start") /\ frequency # 0 /\ ms # 0
  /\ ticks' = SleepTicks(frequency, ms)
  /\ UnchangedTimer
  /\ UNCHANGED <<interrupt_flag, shadow, start, was_enabled, watch_start, ms,
                 elapsed_ms, historyVars, late>>

(* sleep_ticks called by itself, with any argument. *)
SleepTicksCall ==
  /\ Go("asked", "read_start")
  /\ ticks' \in Word /\ ms' = 0
  /\ UnchangedTimer
  /\ UNCHANGED <<interrupt_flag, shadow, start, was_enabled, watch_start,
                 elapsed_ms, historyVars, late>>

ReadStart ==
  /\ Go("read_start", "read_flag")
  /\ start' = timer_ticks /\ waited' = 0
  /\ UnchangedTimer
  /\ UNCHANGED <<interrupt_flag, shadow, ticks, was_enabled, watch_start, ms,
                 elapsed_ms, watched, entry_flag, late>>

ReadFlag ==
  /\ Go("read_flag", "test")
  /\ was_enabled' = interrupt_flag
  /\ UnchangedTimer
  /\ UNCHANGED <<interrupt_flag, shadow, start, ticks, watch_start, ms,
                 elapsed_ms, historyVars, late>>

(* Faulty variant: the end of the sleep is computed, not the distance. *)
TestEnd ==
  /\ ~Taken /\ pc = "test"
  /\ pc' = IF timer_ticks < (start + ticks) % Wrap THEN "sti" ELSE "restore"
  /\ late' = FALSE
  /\ UnchangedTimer
  /\ UNCHANGED <<interrupt_flag, shadow, sleepVars, watch_start, ms, elapsed_ms,
                 historyVars>>

(* Faulty variant: the loop waits for the exact distance. *)
TestExact ==
  /\ ~Taken /\ pc = "test"
  /\ pc' = IF Difference(timer_ticks, start) # ticks THEN "sti" ELSE "restore"
  /\ late' = FALSE
  /\ UnchangedTimer
  /\ UNCHANGED <<interrupt_flag, shadow, sleepVars, watch_start, ms, elapsed_ms,
                 historyVars>>

Test ==
  /\ ~Taken /\ pc = "test"
  /\ pc' = IF Difference(timer_ticks, start) < ticks THEN "sti" ELSE "restore"
  /\ late' = FALSE
  /\ UnchangedTimer
  /\ UNCHANGED <<interrupt_flag, shadow, sleepVars, watch_start, ms, elapsed_ms,
                 historyVars>>

(* When sti sets IF, the next instruction, hlt, still runs before an       *)
(* interrupt; when IF was set already, an interrupt may come in between.   *)
Sti ==
  /\ Go("sti", "hlt")
  /\ interrupt_flag' = TRUE /\ shadow' = ~interrupt_flag
  /\ UnchangedTimer
  /\ UNCHANGED <<sleepVars, watch_start, ms, elapsed_ms, historyVars, late>>

Halt ==
  /\ Go("hlt", "halted")
  /\ shadow' = FALSE
  /\ UnchangedTimer
  /\ UNCHANGED <<interrupt_flag, sleepVars, watch_start, ms, elapsed_ms,
                 historyVars, late>>

(* The locals of sleep_ticks are gone. *)
SleepOver == start' = 0 /\ ticks' = 0 /\ was_enabled' = FALSE /\ waited' = 0

(* Faulty variant: interrupts stay enabled after the sleep. *)
RestoreOmitted ==
  /\ Go("restore", "watch")
  /\ SleepOver
  /\ UnchangedTimer
  /\ UNCHANGED <<interrupt_flag, shadow, watch_start, ms, elapsed_ms, watched,
                 entry_flag, late>>

Restore ==
  /\ Go("restore", "watch")
  /\ interrupt_flag' = (interrupt_flag /\ was_enabled)
  /\ SleepOver
  /\ UnchangedTimer
  /\ UNCHANGED <<shadow, watch_start, ms, elapsed_ms, watched, entry_flag, late>>

(* stopwatch::~stopwatch; it prints nothing when the frequency is 0. *)
Watch ==
  /\ Go("watch", "idle")
  /\ elapsed_ms' = IF frequency = 0 THEN 0
                   ELSE ElapsedMs(frequency, Difference(timer_ticks, watch_start))
  /\ UnchangedTimer
  /\ UNCHANGED <<interrupt_flag, shadow, sleepVars, watch_start, ms, historyVars,
                 late>>

Mainline ==
  \/ NothingToWait \/ SleepMs \/ SleepTicksCall \/ ReadStart \/ ReadFlag
  \/ Test \/ Sti \/ Halt \/ Restore \/ Watch

Next == Tick \/ TimerInterrupt \/ OtherInterrupt \/ Begin \/ Mainline

Spec == Init /\ [][Next]_vars

(* The processor executes, the PIT is periodic, a pending request is taken *)
(* while IF is set.                                                        *)
FairSpec ==
  Spec /\ WF_vars(Mainline) /\ WF_vars(Tick) /\ WF_vars(TimerInterrupt)

-----------------------------------------------------------------------------
(* Types, and that interrupts are enabled wherever the loop waits. *)
TypeOK ==
  /\ timer_ticks \in Word /\ frequency \in Frequencies /\ irq0 \in BOOLEAN
  /\ pc \in Label /\ interrupt_flag \in BOOLEAN /\ shadow \in BOOLEAN
  /\ start \in Word /\ ticks \in Word /\ was_enabled \in BOOLEAN
  /\ watch_start \in Word /\ ms \in Word /\ elapsed_ms \in Word
  /\ waited \in 0 .. Horizon /\ watched \in 0 .. Horizon
  /\ entry_flag \in BOOLEAN /\ late \in BOOLEAN

(* A sleep does not end before as many ticks were counted as asked for, or *)
(* as the milliseconds asked for last, wherever the counter stands when    *)
(* the sleep begins.                                                       *)
NeverEarly ==
  pc = "restore" =>
    waited >= ticks /\ waited * MsPerSecond >= ms * frequency

(* A sleep that is shorter than the longest one ends at most one tick      *)
(* late: a tick between the test and hlt is noticed at the next one.       *)
AtMostOneLate ==
  pc = "restore" /\ ~late /\ ticks < MaxWord => waited <= ticks + 1

(* A stopwatch around a sleep does not report less than was asked for.     *)
MeasuresSleep ==
  pc = "idle" /\ frequency # 0 /\ watched < Wrap => elapsed_ms >= ms

(* The mainline never halts for ever: it halts only with IF set. *)
HaltsInterruptible == pc \in {"hlt", "halted"} => interrupt_flag

(* A sleep leaves IF as it found it. *)
FlagRestored == pc \in {"idle", "watch"} => interrupt_flag = entry_flag

(* Every sleep ends, except the longest, which ends at one value of the    *)
(* counter only.                                                           *)
SleepEnds == pc = "test" /\ ticks < MaxWord ~> pc = "idle"

(* What the documentation claims of the subtraction (kernel_timer.md): it  *)
(* is the distance since start, whether or not the counter has wrapped.    *)
DistanceCorrect ==
  pc \in {"test", "sti", "hlt", "halted", "restore"} =>
    Difference(timer_ticks, start) = waited
=============================================================================
