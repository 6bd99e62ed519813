--------------------------- MODULE ArchTimerProofs ---------------------------
(***************************************************************************)
(* The timer is never late, and never early where TVAL can hold the        *)
(* interval, for every width of TVAL, every frequency and every argument.  *)
(***************************************************************************)
EXTENDS ArchTimer, TLAPS

\* The distances the window compares are numbers.
Distances == left \in Int /\ earliest \in Nat /\ latest \in Nat

-----------------------------------------------------------------------------
(* Arithmetic of arm_ms.                                                   *)

\* A product with a positive factor is ordered like its other factor.
LEMMA Cancel ==
  ASSUME NEW m \in Nat \ {0}, NEW x \in Int, NEW y \in Int, m * x < m * (y + 1)
  PROVE  x <= y
<1>1. CASE x <= y
  BY <1>1
<1>2. CASE x >= y + 1
  <2>1. PICK k \in Nat : x = (y + 1) + k
    <3>1. x - (y + 1) \in Nat /\ x = (y + 1) + (x - (y + 1))
      BY <1>2
    <3> QED  BY <3>1
  <2>2. m * x = m * (y + 1) + m * k
    BY <2>1
  <2>3. m * k \in Nat
    OBVIOUS
  <2> QED  BY <2>2, <2>3
<1> QED  BY <1>1, <1>2

\* Rounding the ticks of a millisecond down before multiplying loses less than one tick
\* a millisecond, and never adds one.
LEMMA RoundedDown ==
  ASSUME NEW f \in Nat, NEW m \in Nat \ {0}, NEW n \in Nat
  PROVE  /\ (f \div m) * n \in Nat
         /\ (f * n) \div m \in Nat
         /\ (f \div m) * n <= (f * n) \div m
         /\ (f * n) \div m <= (f \div m) * n + n
<1> DEFINE q == f \div m
           r == f % m
           t == (f * n) \div m
           s == (f * n) % m
<1>1. q \in Nat /\ r \in 0 .. m - 1 /\ f = m * q + r
  OBVIOUS
<1>2. f * n \in Nat
  OBVIOUS
<1>3. t \in Nat /\ s \in 0 .. m - 1 /\ f * n = m * t + s
  BY <1>2
<1> HIDE DEF q, r, t, s
<1>4. q * n \in Nat /\ r * n \in Nat
  BY <1>1
<1>5. f * n = m * (q * n) + r * n
  BY <1>1
<1>6. r * n <= m * n
  BY <1>1
<1>7. m * (q * n) < m * (t + 1)
  <2>1. m * (t + 1) = m * t + m
    BY <1>3
  <2> QED  BY <1>1, <1>3, <1>4, <1>5, <2>1
<1>8. q * n <= t
  BY <1>3, <1>4, <1>7, Cancel
<1>9. m * t < m * ((q * n + n) + 1)
  <2>1. m * ((q * n + n) + 1) = m * (q * n) + m * n + m
    BY <1>1, <1>4
  <2> QED  BY <1>1, <1>3, <1>4, <1>5, <1>6, <2>1
<1>10. t <= q * n + n
  BY <1>3, <1>4, <1>9, Cancel
<1> QED  BY <1>3, <1>4, <1>8, <1>10 DEF q, t

\* What TVAL makes of an interval: an interval of less than half its range is kept, and
\* no interval becomes longer.
LEMMA Tval ==
  ASSUME NEW n \in Nat
  PROVE  LET d == SignExtend(Truncate(n))
         IN  d \in Int /\ d <= n /\ (n < Half => d = n)
<1>1. Half \in Nat /\ Half > 0 /\ Width = 2 * Half
  BY FreqAssumption DEF Width
<1>2. n % Width \in 0 .. Width - 1 /\ n % Width <= n
  BY <1>1
<1>3. n < Width => n % Width = n
  BY <1>1
<1> QED  BY <1>1, <1>2, <1>3 DEF SignExtend, Truncate

-----------------------------------------------------------------------------
\* Every call, the handler's rearm and the passing of time keep the window.
LEMMA Step ==
  ASSUME Distances, InWindow, [Next]_vars
  PROVE  Distances' /\ InWindow'
<1> USE DEF Positive
<1>1. /\ Half \in Nat /\ Width = 2 * Half /\ Freq \in 1 .. Half - 1
      /\ \A n \in 0 .. Width - 1 : Truncate(n) = n
  BY FreqAssumption DEF Width, Truncate
<1>2. CASE UNCHANGED <<left, earliest, latest, fits>>
  BY <1>2 DEF Distances, InWindow
<1>3. ASSUME NEW t \in Ticks, WriteTval(t), Asked(t, 0)
      PROVE  Distances' /\ InWindow'
  <2>1. t \in 0 .. Width - 1
    BY TicksAssumption
  <2>2. left' = (IF t < Half THEN t ELSE t - Width) /\ latest' = t
    BY <1>3 DEF WriteTval, SignExtend, Asked
  <2>3. earliest' = t
    BY <1>1, <1>3, <2>1 DEF Asked
  <2>4. fits' => t < Half
    BY <1>3, Zenon DEF Asked
  <2> QED  BY <1>1, <2>1, <2>2, <2>3, <2>4 DEF Distances, InWindow
<1>4. ASSUME NEW t \in Ticks, set_compare_value(t)
      PROVE  Distances' /\ InWindow'
  <2>1. t \in Nat
    BY <1>1, TicksAssumption
  <2> QED  BY <1>4, <2>1 DEF set_compare_value, Distances, InWindow
<1>5. ASSUME NEW ms \in Ms, arm_ms(ms)
      PROVE  Distances' /\ InWindow'
  <2> DEFINE p == (Freq \div MsPerSec) * ms
             n == (Freq * ms) \div MsPerSec
  <2>1. ms \in Nat /\ Freq \in Nat
    BY <1>1, MsAssumption
  <2>2. p \in Nat /\ n \in Nat /\ p <= n /\ n <= p + ms
    BY <2>1, MsAssumption, RoundedDown
  <2>3. left' = SignExtend(Truncate(p)) /\ Asked(n, ms)
    BY <1>5 DEF arm_ms, ArmValue, WriteTval, get_frequency
  <2> HIDE DEF p, n
  <2>4. left' \in Int /\ left' <= p /\ (p < Half => left' = p)
    BY <2>2, <2>3, Tval
  <2>5. latest' = n /\ earliest' = Positive(n - ms)
    BY <2>3 DEF Asked
  <2>6. fits' => n < Half
    BY <2>3, Zenon DEF Asked
  <2> QED  BY <1>1, <2>1, <2>2, <2>4, <2>5, <2>6 DEF Distances, InWindow
<1>6. CASE Rearm
  <2>1. Truncate(Freq) = Freq
    BY <1>1
  <2>2. left' = Freq /\ latest' = Freq /\ earliest' = Freq
    BY <1>1, <1>6, <2>1 DEF Rearm, WriteTval, SignExtend, Asked, get_frequency
  <2> QED  BY <1>1, <2>2 DEF Distances, InWindow
<1>7. CASE Tick
  BY <1>7 DEF Tick, Distances, InWindow
<1>8. CASE ArmControl \/ TakeIrq \/ UNCHANGED vars
  BY <1>2, <1>8 DEF ArmControl, TakeIrq, vars
<1>9. CASE enable \/ disable \/ mask_interrupt \/ unmask_interrupt
  BY <1>2, <1>9 DEF enable, disable, mask_interrupt, unmask_interrupt, set_ctl
<1>10. CASE \E t \in Ticks : set_timer_value(t) \/ arm(t)
  BY <1>3, <1>10 DEF set_timer_value, arm, ArmValue
<1> QED  BY <1>4, <1>5, <1>6, <1>7, <1>8, <1>9, <1>10 DEF Next, Main

\* The timer never fires later than the last call asked, whatever the argument; where
\* TVAL can hold the interval asked for it does not fire earlier either, the rounding of
\* arm_ms aside.  Nothing is claimed of an early expiry of the other intervals, which
\* the code does not prevent (FiresOnTime).
THEOREM TimerInWindow == Spec => []InWindow
<1>1. Init => Distances /\ InWindow
  BY DEF Init, Distances, InWindow, Positive
<1>2. Distances /\ InWindow /\ [Next]_vars => Distances' /\ InWindow'
  BY Step
<1> QED  BY <1>1, <1>2, PTL DEF Spec
=============================================================================
