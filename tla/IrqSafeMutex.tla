---------------------------- MODULE IrqSafeMutex ----------------------------
(***************************************************************************)
(* The interrupt-safe spinlock of src/src/ipc/irq_safe_mutex.rs, used by   *)
(* the contexts of a set of CPUs.  On each CPU the contexts form a stack:  *)
(* level 0 is the kernel's main code, level l > 0 the l-th nested          *)
(* activation of the IRQ handler.  Only the top of the stack runs.         *)
(*                                                                         *)
(* Every context uses the mutex the way the kernel does, through           *)
(* lock_irqsafe, as often as it likes.  The five labels of pc are the next *)
(* instruction of that call:                                               *)
(*   "out"      outside the call                                           *)
(*   "daifset"  DAIF has been read, IRQs are not masked yet                *)
(*   "cas"      spinning on compare_exchange(false, true)                  *)
(*   "crit"     the flag is set, the closure f runs                        *)
(*   "msr"      the flag is clear again, DAIF is not restored yet          *)
(*                                                                         *)
(* An IRQ may arrive at every instruction boundary at which PSTATE.I is    *)
(* clear.  The hardware then masks IRQs and saves PSTATE in SPSR_EL1,      *)
(* which the entry code stacks; eret restores it.                          *)
(***************************************************************************)
EXTENDS Naturals

CONSTANTS CPU,      \* the processing elements
          MaxNest   \* bound on nested IRQ handler activations

ASSUME NestAssumption == MaxNest \in Nat \ {0}

VARIABLES lock,       \* Mutex.lock, TRUE when taken
          pc,         \* pc[c][l]: next instruction of lock_irqsafe in context l
          daif_state, \* daif_state[c][l]: the local of lock_irqsafe (its I bit)
          daif,       \* daif[c]: the I bit of PSTATE, 1 when IRQs are masked
          depth,      \* depth[c]: the level that runs
          spsr        \* spsr[c][l]: the I bit stacked when level l was entered

vars == <<lock, pc, daif_state, daif, depth, spsr>>

Level == 0 .. MaxNest
Bit == {0, 1}
Label == {"out", "daifset", "cas", "crit", "msr"}

Init ==
  /\ lock = FALSE
  /\ pc = [c \in CPU |-> [l \in Level |-> "out"]]
  /\ daif_state = [c \in CPU |-> [l \in Level |-> 0]]
  /\ daif = [c \in CPU |-> 0]
  /\ depth = [c \in CPU |-> 0]
  /\ spsr = [c \in CPU |-> [l \in Level |-> 0]]

\* The running context of c moves from one label of lock_irqsafe to the next.
Step(c, from, to) ==
  /\ pc[c][depth[c]] = from
  /\ pc' = [pc EXCEPT ![c][depth[c]] = to]

-----------------------------------------------------------------------------
(* lock_irqsafe, instruction by instruction.                               *)

\* Mutated form: DAIF is read after IRQs have been masked.
ReadDaif_AfterMask(c) ==
  /\ Step(c, "out", "daifset")
  /\ daif_state' = [daif_state EXCEPT ![c][depth[c]] = 1]
  /\ UNCHANGED <<lock, daif, depth, spsr>>

\* disable_irq: mrs daif.
ReadDaif(c) ==
  /\ Step(c, "out", "daifset")
  /\ daif_state' = [daif_state EXCEPT ![c][depth[c]] = daif[c]]
  /\ UNCHANGED <<lock, daif, depth, spsr>>

\* Mutated form: IRQs stay enabled, as with plain lock.
MaskIrq_Noop(c) ==
  /\ Step(c, "daifset", "cas")
  /\ UNCHANGED <<lock, daif_state, daif, depth, spsr>>

\* disable_irq: msr daifset, #2.
MaskIrq(c) ==
  /\ Step(c, "daifset", "cas")
  /\ daif' = [daif EXCEPT ![c] = 1]
  /\ UNCHANGED <<lock, daif_state, depth, spsr>>

\* Mutated form: a store instead of a compare-and-exchange.
Acquire_Store(c) ==
  /\ Step(c, "cas", "crit")
  /\ lock' = TRUE
  /\ UNCHANGED <<daif_state, daif, depth, spsr>>

\* The compare_exchange that succeeds.  A failing one changes nothing and is
\* followed by spin_loop: the context stays at "cas".
Acquire(c) ==
  /\ ~lock
  /\ Step(c, "cas", "crit")
  /\ lock' = TRUE
  /\ UNCHANGED <<daif_state, daif, depth, spsr>>

\* Mutated form: the flag is not cleared.
Release_Forgotten(c) ==
  /\ Step(c, "crit", "msr")
  /\ UNCHANGED <<lock, daif_state, daif, depth, spsr>>

\* The closure has returned: store(false, Release).
Release(c) ==
  /\ Step(c, "crit", "msr")
  /\ lock' = FALSE
  /\ UNCHANGED <<daif_state, daif, depth, spsr>>

\* Mutated form: IRQs are enabled whatever they were before.
RestoreDaif_Enable(c) ==
  /\ Step(c, "msr", "out")
  /\ daif' = [daif EXCEPT ![c] = 0]
  /\ UNCHANGED <<lock, daif_state, depth, spsr>>

\* restore_interrupts: msr daif.
RestoreDaif(c) ==
  /\ Step(c, "msr", "out")
  /\ daif' = [daif EXCEPT ![c] = daif_state[c][depth[c]]]
  /\ UNCHANGED <<lock, daif_state, depth, spsr>>

-----------------------------------------------------------------------------
(* Exception entry and return, as far as PSTATE.I is concerned.            *)

\* An IRQ is taken: save_regs stacks SPSR_EL1, and IRQs are masked.
TakeIrq(c) ==
  /\ daif[c] = 0
  /\ depth[c] < MaxNest
  /\ depth' = [depth EXCEPT ![c] = @ + 1]
  /\ spsr' = [spsr EXCEPT ![c][depth[c] + 1] = daif[c]]
  /\ daif' = [daif EXCEPT ![c] = 1]
  /\ pc' = [pc EXCEPT ![c][depth[c] + 1] = "out"]
  /\ UNCHANGED <<lock, daif_state>>

\* Mutated form: an eret that no exception entry precedes.
Eret_Unmatched(c) ==
  /\ pc[c][depth[c]] = "out"
  /\ depth' = [depth EXCEPT ![c] = @ - 1]
  /\ daif' = [daif EXCEPT ![c] = spsr[c][depth[c]]]
  /\ UNCHANGED <<lock, pc, daif_state, spsr>>

\* exception_exit: SPSR_EL1 is popped and eret returns to the level below.
Eret(c) ==
  /\ depth[c] > 0
  /\ pc[c][depth[c]] = "out"
  /\ depth' = [depth EXCEPT ![c] = @ - 1]
  /\ daif' = [daif EXCEPT ![c] = spsr[c][depth[c]]]
  /\ UNCHANGED <<lock, pc, daif_state, spsr>>

-----------------------------------------------------------------------------
\* What the running context of c does inside lock_irqsafe.
InCall(c) ==
  MaskIrq(c) \/ Acquire(c) \/ Release(c) \/ RestoreDaif(c)

CpuStep(c) == ReadDaif(c) \/ InCall(c) \/ TakeIrq(c) \/ Eret(c)

Next == \E c \in CPU : CpuStep(c)

\* Every CPU keeps executing instructions.  Nothing obliges code to call
\* lock_irqsafe, nor an IRQ to arrive.
Fairness == \A c \in CPU : WF_vars(InCall(c))

Spec == Init /\ [][Next]_vars

FairSpec == Spec /\ Fairness

-----------------------------------------------------------------------------
TypeOK ==
  /\ lock \in BOOLEAN
  /\ pc \in [CPU -> [Level -> Label]]
  /\ daif_state \in [CPU -> [Level -> Bit]]
  /\ daif \in [CPU -> Bit]
  /\ depth \in [CPU -> Level]
  /\ spsr \in [CPU -> [Level -> Bit]]

\* At most one context of all CPUs is inside the closure: Mutex<T> may hand out
\* &mut T although it is Sync.
MutualExclusion ==
  \A c, d \in CPU : \A k, l \in Level :
    (pc[c][k] = "crit" /\ pc[d][l] = "crit") => (c = d /\ k = l)

\* No context spins on a flag that a context it interrupted on the same CPU has
\* set: lock_irqsafe prevents the deadlock between main code and ISR.
NoSelfDeadlock ==
  \A c \in CPU : \A k, l \in Level :
    (k < l /\ pc[c][k] = "crit") => pc[c][l] # "cas"

\* restore_interrupts in a handler does not open the handler to further IRQs:
\* at most one activation is on the stack of a CPU.
IsrNotNested == \A c \in CPU : depth[c] <= 1

\* A completed lock_irqsafe leaves PSTATE.I as it found it: outside the call, IRQs
\* are masked in the handler and only there.
MaskTransparent ==
  \A c \in CPU : pc[c][depth[c]] = "out" => (daif[c] = 1 <=> depth[c] > 0)

\* The labels between masking IRQs and restoring them.
Masking == {"cas", "crit", "msr"}

\* What makes the above inductive.  A context between masking and restoring is
\* the running one and has IRQs masked, so it is never interrupted; levels above
\* the running one are idle; main code runs masked only inside the call, a handler
\* always does and was entered unmasked; a context in the call has remembered
\* "unmasked" if it is main code and "masked" if it is a handler; the flag is set
\* exactly when some context is inside the closure.
MutexInv ==
  /\ \A c \in CPU : \A l \in Level :
       /\ pc[c][l] \in Masking => (l = depth[c] /\ daif[c] = 1)
       /\ l > depth[c] => pc[c][l] = "out"
       /\ pc[c][l] # "out" => (daif_state[c][l] = 1 <=> l > 0)
  /\ \A c \in CPU :
       /\ depth[c] \in {0, 1}
       /\ depth[c] = 0 => (daif[c] = 1 <=> pc[c][0] \in Masking)
       /\ depth[c] = 1 => (daif[c] = 1 /\ spsr[c][1] = 0)
  /\ lock <=> \E c \in CPU : \E l \in Level : pc[c][l] = "crit"
  /\ MutualExclusion

\* Whenever some context spins, some context gets in: the spinlock is free of
\* deadlock (it is not free of starvation, compare_exchange is unfair).
SomeoneEnters ==
  (\E c \in CPU : pc[c][depth[c]] = "cas")
    ~> (\E c \in CPU : pc[c][depth[c]] = "crit")
=============================================================================
