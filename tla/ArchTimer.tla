----------------------------- MODULE ArchTimer -----------------------------
(***************************************************************************)
(* src/src/drivers/timer/arch_timer.rs: the non-secure physical timer,     *)
(* used by kmain and rearmed by arm 30 of do_irq.                          *)
(*                                                                         *)
(* The counter only matters relative to the compare value, so the state is *)
(* their distance.  TVAL is a signed register of 32 bits: 2^32 and 1000    *)
(* are parameters, so that small numbers overflow and round alike.         *)
(***************************************************************************)
EXTENDS Integers

CONSTANTS Half,       \* 2^31: half the range of TVAL
          MsPerSec,   \* the literal 1000 of arm_ms
          Freq,       \* CNTFRQ_EL0
          Ms,         \* arguments of arm_ms
          Ticks,      \* arguments of arm and set_timer_value
          MaxCalls    \* bound on the calls main code makes

Width == 2 * Half

\* The frequency in ticks fits TVAL: 2^31 Hz is far above any implementation.
ASSUME FreqAssumption == Half \in Nat /\ Freq \in 1 .. Half - 1
ASSUME MsAssumption == MsPerSec \in Nat \ {0} /\ Ms \subseteq Nat
ASSUME TicksAssumption == Ticks \subseteq 0 .. Width - 1 /\ MaxCalls \in Nat

VARIABLES ctl,       \* CNTP_CTL_EL0: the set of its writable bits that are 1
          left,      \* CNTP_CVAL_EL0 - CNTPCT_EL0
          main,      \* "idle", or "arm": between the two writes of arm
          isr,       \* "idle", or "do_irq": arm 30 is running
          calls,     \* history: the number of calls of main code
          earliest,  \* history: the ticks that must still pass before the timer
          latest,    \*   may fire, and after which it must have fired
          fits       \* history: TVAL can hold the interval last asked for

vars == <<ctl, left, main, isr, calls, earliest, latest, fits>>

Positive(n) == IF n > 0 THEN n ELSE 0

Init ==
  /\ ctl \in SUBSET {"ENABLE", "IMASK"}
  /\ left \in -1 .. 1
  /\ main = "idle" /\ isr = "idle" /\ calls = 0
  /\ earliest = Positive(left) /\ latest = Positive(left) /\ fits = TRUE

-----------------------------------------------------------------------------
(* The registers.                                                          *)

get_frequency == Freq

\* "as u32".
Truncate(n) == n % Width

\* TVAL is a signed offset from the counter.
SignExtend(tval) == IF tval < Half THEN tval ELSE tval - Width

\* CTL_ISTATUS.
is_pending == "ENABLE" \in ctl /\ left <= 0

\* The interrupt line.
Line == is_pending /\ "IMASK" \notin ctl

\* set_timer_value.
WriteTval(tval) == left' = SignExtend(tval)

\* A call asks for an interval of n ticks, and may be up to slack ticks early.  The
\* comments of the driver promise this of every argument; fits remembers whether the
\* signed register can hold what was asked for.
Asked(n, slack) ==
  /\ latest' = n
  /\ earliest' = Positive(n - slack)
  /\ fits' = (n < Half)

-----------------------------------------------------------------------------
(* The driver, called by main code, at most MaxCalls times.                *)

Call ==
  /\ main = "idle" /\ isr = "idle"
  /\ calls < MaxCalls /\ calls' = calls + 1
  /\ isr' = isr

set_timer_value(tval) ==
  /\ Call
  /\ WriteTval(tval)
  /\ Asked(tval, 0)
  /\ UNCHANGED <<ctl, main>>

\* set_compare_value, with a value that is d ticks away.
set_compare_value(d) ==
  /\ Call
  /\ left' = d
  /\ earliest' = Positive(d) /\ latest' = Positive(d) /\ fits' = TRUE
  /\ UNCHANGED <<ctl, main>>

\* enable, disable, mask_interrupt and unmask_interrupt: read, change one bit, write.
set_ctl(bits) ==
  /\ Call
  /\ ctl' = bits
  /\ UNCHANGED <<left, main, earliest, latest, fits>>

enable == set_ctl(ctl \cup {"ENABLE"})
disable == set_ctl(ctl \ {"ENABLE"})
mask_interrupt == set_ctl(ctl \cup {"IMASK"})
unmask_interrupt == set_ctl(ctl \ {"IMASK"})

\* Mutated form: the control register is written first, with the old compare value.
ArmValue_ControlFirst(ticks) ==
  /\ Call
  /\ main' = "arm"
  /\ ctl' = {"ENABLE"}
  /\ UNCHANGED left

\* The first write of arm, in set_timer_value.
ArmValue(ticks) ==
  /\ Call
  /\ main' = "arm"
  /\ WriteTval(ticks)
  /\ UNCHANGED ctl

arm(ticks) == ArmValue(ticks) /\ Asked(ticks, 0)

\* Rounds the ticks of a millisecond down, and truncates the product.
arm_ms(ms) ==
  /\ ArmValue(Truncate((get_frequency \div MsPerSec) * ms))
  /\ Asked((Freq * ms) \div MsPerSec, ms)

\* Mutated form: the enable bit is or-ed in, a mask stays.
ArmControl_Or ==
  /\ main = "arm" /\ isr = "idle"
  /\ ctl' = ctl \cup {"ENABLE"}
  /\ main' = "idle"
  /\ UNCHANGED <<left, isr, calls, earliest, latest, fits>>

\* The second write of arm: enabled, not masked.
ArmControl ==
  /\ main = "arm" /\ isr = "idle"
  /\ ctl' = {"ENABLE"}
  /\ main' = "idle"
  /\ UNCHANGED <<left, isr, calls, earliest, latest, fits>>

Main ==
  \/ \E t \in Ticks : set_timer_value(t) \/ set_compare_value(t) \/ arm(t)
  \/ \E ms \in Ms : arm_ms(ms)
  \/ enable \/ disable \/ mask_interrupt \/ unmask_interrupt

-----------------------------------------------------------------------------
(* The interrupt, and time.                                                *)

\* The core takes the timer's interrupt, between any two steps of main code.
TakeIrq ==
  /\ Line /\ isr = "idle"
  /\ isr' = "do_irq"
  /\ UNCHANGED <<ctl, left, main, calls, earliest, latest, fits>>

\* Mutated form: arm 30 prints and does not rearm.
Rearm_Forgotten ==
  /\ isr = "do_irq"
  /\ isr' = "idle"
  /\ UNCHANGED <<ctl, left, main, calls, earliest, latest, fits>>

\* Arm 30, after it has printed: rearm(get_frequency() as u32).
Rearm ==
  /\ isr = "do_irq"
  /\ isr' = "idle"
  /\ WriteTval(Truncate(get_frequency))
  /\ Asked(Freq, 0)
  /\ UNCHANGED <<ctl, main, calls>>

\* The counter advances.  How long ago a timer expired makes no difference.
Tick ==
  /\ left > 0 \/ latest > 0
  /\ left' = IF left > 0 THEN left - 1 ELSE left
  /\ earliest' = Positive(earliest - 1)
  /\ latest' = Positive(latest - 1)
  /\ UNCHANGED <<ctl, main, isr, calls, fits>>

-----------------------------------------------------------------------------
Next == Main \/ ArmControl \/ TakeIrq \/ Rearm \/ Tick

Spec == Init /\ [][Next]_vars

\* The core executes, time passes, and a pending interrupt is taken.  Nothing makes
\* main code call the driver.
Fairness == /\ WF_vars(ArmControl) /\ WF_vars(TakeIrq)
            /\ WF_vars(Rearm) /\ WF_vars(Tick)

FairSpec == Spec /\ Fairness

-----------------------------------------------------------------------------
\* The ticks until the timer fires are what the last call asked for, less the ticks
\* that have passed, whatever the handler did meanwhile.  The timer never fires late,
\* whatever the argument; where TVAL can hold the interval it does not fire early
\* either, the rounding of arm_ms aside.  (The other arguments: FiresOnTime.)
InWindow == Positive(left) <= latest /\ (fits => earliest <= Positive(left))

\* "The timer will fire when the counter increments by tval ticks", "arms the timer to
\* fire after ticks counter increments", "after ms milliseconds": neither late nor
\* early, for every argument of set_timer_value, arm and arm_ms.  The run timer_overflow
\* refutes it: TVAL is signed, and arm_ms truncates its product to 32 bits.
FiresOnTime == earliest <= Positive(left) /\ Positive(left) <= latest

\* "This enables the timer and unmasks the interrupt": once arm has begun the timer
\* fires, unless main code calls the driver again, however the timer was left.
ArmRings ==
  \A n \in 1 .. MaxCalls : (main = "arm" /\ calls = n) ~> (Line \/ calls > n)

\* An enabled and unmasked timer ticks for ever: it expires again and again, and the
\* handler's rearm drops the line every time.
TicksForever ==
  <>[](ctl = {"ENABLE"}) => []<>Line /\ []<>~Line
=============================================================================
