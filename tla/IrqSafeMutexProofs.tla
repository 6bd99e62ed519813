------------------------- MODULE IrqSafeMutexProofs -------------------------
(***************************************************************************)
(* For every set of CPUs and every bound on nesting: the mutex excludes,   *)
(* never deadlocks main code against its own interrupt handler, keeps the  *)
(* handler from nesting and leaves the interrupt mask as it found it.      *)
(***************************************************************************)
EXTENDS IrqSafeMutex, TLAPS

\* Types of the state of irq_safe_mutex.rs: the flag, the saved DAIF of every
\* context, PSTATE.I and the exception stack of every CPU.
THEOREM TypeCorrect == Spec => []TypeOK
<1>1. Init => TypeOK
  <2> SUFFICES ASSUME Init PROVE TypeOK
    OBVIOUS
  <2>1. 0 \in Level /\ 0 \in Bit /\ "out" \in Label
    BY NestAssumption DEF Level, Label, Bit
  <2>2. lock \in BOOLEAN
    BY DEF Init
  <2>3. QED
    BY <2>1, <2>2 DEF Init, TypeOK
<1>2. TypeOK /\ [Next]_vars => TypeOK'
  <2> SUFFICES ASSUME TypeOK, [Next]_vars PROVE TypeOK'
    OBVIOUS
  <2>1. ASSUME NEW c \in CPU, ReadDaif(c) PROVE TypeOK'
    BY <2>1 DEF ReadDaif, Step, TypeOK, Label, Bit
  <2>2. ASSUME NEW c \in CPU, MaskIrq(c) PROVE TypeOK'
    BY <2>2 DEF MaskIrq, Step, TypeOK, Label, Bit
  <2>3. ASSUME NEW c \in CPU, Acquire(c) PROVE TypeOK'
    BY <2>3 DEF Acquire, Step, TypeOK, Label, Bit
  <2>4. ASSUME NEW c \in CPU, Release(c) PROVE TypeOK'
    BY <2>4 DEF Release, Step, TypeOK, Label, Bit
  <2>5. ASSUME NEW c \in CPU, RestoreDaif(c) PROVE TypeOK'
    BY <2>5 DEF RestoreDaif, Step, TypeOK, Label, Bit
  <2>6. ASSUME NEW c \in CPU, TakeIrq(c) PROVE TypeOK'
    BY <2>6, NestAssumption DEF TakeIrq, TypeOK, Level, Label, Bit
  <2>7. ASSUME NEW c \in CPU, Eret(c) PROVE TypeOK'
    BY <2>7, NestAssumption DEF Eret, TypeOK, Level, Bit
  <2>8. CASE UNCHANGED vars
    BY <2>8 DEF vars, TypeOK
  <2>9. QED
    BY <2>1, <2>2, <2>3, <2>4, <2>5, <2>6, <2>7, <2>8
       DEF Next, CpuStep, InCall
<1>3. QED
  BY <1>1, <1>2, PTL DEF Spec

\* The inductive invariant behind the safety of lock_irqsafe.
THEOREM MutexInvariant == Spec => []MutexInv
<1>1. Init => MutexInv
  BY NestAssumption DEF Init, MutexInv, Masking, MutualExclusion, Level
<1>2. TypeOK /\ MutexInv /\ [Next]_vars => MutexInv'
  <2> SUFFICES ASSUME TypeOK, MutexInv, [Next]_vars PROVE MutexInv'
    OBVIOUS
  <2> USE NestAssumption DEF TypeOK, Level, Label, Bit, Masking
  <2>1. ASSUME NEW c \in CPU, ReadDaif(c) PROVE MutexInv'
    BY <2>1 DEF ReadDaif, Step, MutexInv, MutualExclusion
  <2>2. ASSUME NEW c \in CPU, MaskIrq(c) PROVE MutexInv'
    BY <2>2 DEF MaskIrq, Step, MutexInv, MutualExclusion
  <2>3. ASSUME NEW c \in CPU, Acquire(c) PROVE MutexInv'
    BY <2>3 DEF Acquire, Step, MutexInv, MutualExclusion
  <2>4. ASSUME NEW c \in CPU, Release(c) PROVE MutexInv'
    BY <2>4 DEF Release, Step, MutexInv, MutualExclusion
  <2>5. ASSUME NEW c \in CPU, RestoreDaif(c) PROVE MutexInv'
    BY <2>5 DEF RestoreDaif, Step, MutexInv, MutualExclusion
  <2>6. ASSUME NEW c \in CPU, TakeIrq(c) PROVE MutexInv'
    BY <2>6 DEF TakeIrq, MutexInv, MutualExclusion
  <2>7. ASSUME NEW c \in CPU, Eret(c) PROVE MutexInv'
    BY <2>7 DEF Eret, MutexInv, MutualExclusion
  <2>8. CASE UNCHANGED vars
    BY <2>8 DEF vars, MutexInv, MutualExclusion
  <2>9. QED
    BY <2>1, <2>2, <2>3, <2>4, <2>5, <2>6, <2>7, <2>8
       DEF Next, CpuStep, InCall
<1>3. QED
  BY <1>1, <1>2, TypeCorrect, PTL DEF Spec

\* Mutex<T> hands out at most one &mut T at a time, on any number of CPUs.
THEOREM MutexExcludes == Spec => []MutualExclusion
<1>1. MutexInv => MutualExclusion
  BY DEF MutexInv
<1>2. QED
  BY <1>1, MutexInvariant, PTL

\* A handler never spins on a flag set by the code it interrupted.
THEOREM MutexNoSelfDeadlock == Spec => []NoSelfDeadlock
<1>1. TypeOK /\ MutexInv => NoSelfDeadlock
  BY DEF TypeOK, MutexInv, NoSelfDeadlock, Masking, Level, Bit
<1>2. QED
  BY <1>1, TypeCorrect, MutexInvariant, PTL

\* lock_irqsafe called from a handler never lets a second IRQ in.
THEOREM MutexIsrNotNested == Spec => []IsrNotNested
<1>1. MutexInv => IsrNotNested
  <2> SUFFICES ASSUME MutexInv, NEW c \in CPU PROVE depth[c] <= 1
    BY DEF IsrNotNested
  <2>1. depth[c] \in {0, 1}
    BY DEF MutexInv
  <2>2. QED
    BY <2>1
<1>2. QED
  BY <1>1, MutexInvariant, PTL

\* Outside lock_irqsafe the interrupt mask is what it would be without the call.
THEOREM MutexMaskTransparent == Spec => []MaskTransparent
<1>1. TypeOK /\ MutexInv => MaskTransparent
  BY NestAssumption DEF TypeOK, MutexInv, MaskTransparent, Masking, Level, Bit
<1>2. QED
  BY <1>1, TypeCorrect, MutexInvariant, PTL
=============================================================================
