--------------------------- MODULE ExceptionFrame ---------------------------
(***************************************************************************)
(* Exception entry and exit of src/src/asm/vectors.S and the macros of     *)
(* include/asm/macro.h, instruction by instruction: what is pushed on the  *)
(* stack, what the handlers are given, and what the interrupted code gets  *)
(* back.                                                                   *)
(*                                                                         *)
(* Registers are numbered: 0 .. 30 are x0 .. x30, then come the zero       *)
(* register and the three exception registers.  The stack is word          *)
(* addressed (a word is 8 bytes) and grows downwards.  Handlers written in *)
(* Rust keep to the procedure call standard: they may change x0 .. x18 and *)
(* x30, and nothing else.                                                  *)
(***************************************************************************)
EXTENDS Naturals, Sequences

CONSTANTS EC,         \* exception classes of the synchronous exceptions taken
          MaxDepth,   \* bound on nested exceptions
          StackWords  \* size of the stack

\* The stack has room for the frames, of 36 words each, of the exceptions nested.
ASSUME FrameAssumption ==
  /\ EC \subseteq 0 .. 63 /\ MaxDepth \in Nat \ {0}
  /\ StackWords \in Nat /\ StackWords >= 36 * MaxDepth

XZR == 31
ELR == 32
SPSR == 33
ESR == 34
Reg == 0 .. 34
GPR == 0 .. 30

VARIABLES x,       \* the registers
          sp,      \* the stack pointer
          mem,     \* the stack
          active   \* the exceptions being handled, the innermost one last

vars == <<x, sp, mem, active>>

\* Which code an exception goes through, where in it the core is, what it
\* interrupted, and the call the handler was given.
Top == active[Len(active)]
Depth == Len(active)

-----------------------------------------------------------------------------
(* The code.                                                               *)

Instruction(op, a, b) == [op |-> op, a |-> a, b |-> b]
Stp(a, b) == Instruction("stp", a, b)   \* stp a, b, [sp, #-16]!
Ldp(a, b) == Instruction("ldp", a, b)   \* ldp a, b, [sp], #16
Mov(d, s) == Instruction("mov", d, s)   \* mrs and msr
Op(op) == Instruction(op, 0, 0)

\* save_gpr_regs_on_exc up to x1, x2: pairs from x27, x28 downwards.
SavePairs == [k \in 1 .. 14 |-> Stp(29 - 2 * k, 30 - 2 * k)]

\* The load of pairs x1, x2 up to x27, x28 in both restore macros.
LoadPairs == [k \in 1 .. 14 |-> Ldp(2 * k - 1, 2 * k)]

\* An entry of evt, and save_regs.
SaveRegs(last) ==
  <<Stp(29, 30), Op("bl")>> \o SavePairs
  \o <<Stp(0, XZR), Mov(1, ESR), Mov(2, ELR), Mov(3, SPSR), Stp(1, XZR), last,
       Op("mov x0, sp")>>

\* Mutated form: ELR and SPSR are pushed in the order of struct Regs.
save_regs_Swapped == SaveRegs(Stp(3, 2))

save_regs == SaveRegs(Stp(2, 3))

\* Mutated form: ELR and SPSR are popped in the order of struct Regs.
popSystem_Swapped == <<Ldp(2, 3), Ldp(XZR, XZR), Mov(SPSR, 2), Mov(ELR, 3)>>

\* The start of exception_exit and of exit.
popSystem == <<Ldp(3, 2), Ldp(XZR, XZR), Mov(SPSR, 2), Mov(ELR, 3)>>

\* irq_handler, up to and including exception_exit.
irq_handler ==
  save_regs \o <<Op("do_irq")>> \o popSystem \o <<Ldp(0, XZR)>> \o LoadPairs
  \o <<Ldp(29, 30), Op("eret")>>

sync_handler ==
  save_regs \o <<Op("dispatch"), Op("rust")>> \o popSystem \o <<Ldp(XZR, XZR)>>
  \o LoadPairs \o <<Ldp(29, 30), Op("eret")>>

\* FIQ, SError, and every exception taken with SP_EL0: report and loop for ever.
panic_handler == save_regs \o <<Op("panic"), Op("loop")>>

Code(kind) ==
  CASE kind = "irq" -> irq_handler
    [] kind = "sync" -> sync_handler
    [] kind = "fatal" -> panic_handler

-----------------------------------------------------------------------------
Init ==
  /\ x = [r \in Reg |-> IF r \in GPR THEN r + 1 ELSE 0]
  /\ sp = StackWords
  /\ mem = [w \in 0 .. StackWords - 1 |-> 0]
  /\ active = <<>>

NoCall == [fn |-> "none", arg |-> 0]

\* The core takes an exception: an IRQ only when none is being handled, for its
\* entry masks IRQs; a fault or an svc also in a handler.  The addresses and
\* states of the code at the different depths are told apart.
TakeException(kind, ec) ==
  /\ Depth < MaxDepth
  /\ kind = "irq" => Depth = 0
  /\ Depth > 0 => Code(Top.kind)[Top.at].op \in {"do_irq", "rust"}
  /\ x' = [x EXCEPT ![ELR] = 200 + Depth, ![SPSR] = 300 + Depth, ![ESR] = 400 + ec]
  /\ active' = Append(active, [kind |-> kind, at |-> 1, ec |-> ec, call |-> NoCall, report |-> <<>>,
                               from |-> [x |-> x, sp |-> sp]])
  /\ UNCHANGED <<sp, mem>>

Read(r) == IF r = XZR THEN 0 ELSE x[r]

\* x with v written to r.  The zero register drops what is written to it.
Write(f, r, v) == IF r = XZR THEN f ELSE [f EXCEPT ![r] = v]

\* The innermost handler's next instruction, and the step that goes on behind it.
Ins == Code(Top.kind)[Top.at]
Execute(op) ==
  /\ Depth > 0
  /\ Ins.op = op
  /\ active' = [active EXCEPT ![Depth].at = @ + 1]

Push ==
  /\ Execute("stp")
  /\ sp' = sp - 2
  /\ mem' = [mem EXCEPT ![sp - 2] = Read(Ins.a), ![sp - 1] = Read(Ins.b)]
  /\ UNCHANGED x

Pop ==
  /\ Execute("ldp")
  /\ x' = Write(Write(x, Ins.a, mem[sp]), Ins.b, mem[sp + 1])
  /\ sp' = sp + 2
  /\ UNCHANGED mem

Move ==
  /\ Execute("mov")
  /\ x' = [x EXCEPT ![Ins.a] = x[Ins.b]]
  /\ UNCHANGED <<sp, mem>>

\* bl save_regs: the return address goes to x30.
BranchLink ==
  /\ Execute("bl")
  /\ x' = [x EXCEPT ![30] = 500]
  /\ UNCHANGED <<sp, mem>>

\* The handlers' first argument: a pointer to the registers on the stack.
PassFrame ==
  /\ Execute("mov x0, sp")
  /\ x' = [x EXCEPT ![0] = sp]
  /\ UNCHANGED <<sp, mem>>

\* IS_SVC_MASK: bits 0, 2 and 4 of the exception class.
MaskEC(ec) == (ec % 2) + 4 * ((ec \div 4) % 2) + 16 * ((ec \div 16) % 2)

\* sync_handler up to its bl: do_sync gets a word of the frame x0 points to,
\* unimplemented_sync the masked exception class.
DispatchWith(word) ==
  LET w1 == MaskEC(x[1] - 400)
      call == IF w1 # 0 THEN [fn |-> "do_sync", arg |-> mem[x[0] + word]]
              ELSE [fn |-> "unimplemented_sync", arg |-> w1] IN
  /\ Depth > 0
  /\ Ins.op = "dispatch"
  /\ active' = [active EXCEPT ![Depth].at = @ + 1, ![Depth].call = call]
  /\ x' = [x EXCEPT ![0] = call.arg, ![1] = w1, ![2] = 21]
  /\ UNCHANGED <<sp, mem>>

\* Mutated form: the offset of x8 in struct Regs.
Dispatch_StructOffset == DispatchWith(12)

\* ldr x0, [x0, #104].
Dispatch == DispatchWith(13)

\* A Rust handler runs to its end: do_irq, do_sync or unimplemented_sync.
RustHandler ==
  /\ Execute("do_irq") \/ Execute("rust")
  /\ x' = [r \in Reg |-> IF r \in 0 .. 18 \cup {30} THEN 600 + 40 * Depth + r ELSE x[r]]
  /\ UNCHANGED <<sp, mem>>

\* The fields of struct Regs, in their order.
Regs == <<SPSR, ELR, ESR, XZR>> \o [k \in 1 .. 31 |-> k - 1]

\* What the fields of the struct at address frame hold, by register.
as_array(frame) ==
  [r \in Reg \ {XZR} |-> mem[frame - 1 + CHOOSE k \in DOMAIN Regs : Regs[k] = r]]

\* The address of the instruction shown as faulting, and the registers.
FatalReport(frame) == [instr |-> as_array(frame)[ELR], regs |-> as_array(frame)]

\* do_bad_sync, do_bad_irq, do_bad_fiq, do_bad_serror, do_fiq and do_serror.
PanicHandler ==
  /\ Depth > 0
  /\ Ins.op = "panic"
  /\ active' = [active EXCEPT ![Depth].at = @ + 1, ![Depth].report = FatalReport(x[0])]
  /\ UNCHANGED <<x, sp, mem>>

\* eret goes on with the code that was interrupted.
Eret ==
  /\ Depth > 0
  /\ Ins.op = "eret"
  /\ active' = SubSeq(active, 1, Depth - 1)
  /\ UNCHANGED <<x, sp, mem>>

Next ==
  \/ Push \/ Pop \/ Move \/ BranchLink \/ PassFrame
  \/ Dispatch \/ RustHandler \/ PanicHandler \/ Eret
  \/ TakeException("irq", 0)
  \/ TakeException("fatal", 0)
  \/ \E ec \in EC : TakeException("sync", ec)

Spec == Init /\ [][Next]_vars

-----------------------------------------------------------------------------
\* The code an exception interrupted gets its registers, its stack pointer, its
\* address and its state back, also when the handler itself was interrupted.  Only
\* x0, the result of a system call, differs after a synchronous exception.
RoundTrip ==
  [][Eret => /\ \A r \in GPR : (r # 0 \/ Top.kind = "irq") => x[r] = Top.from.x[r]
             /\ sp = Top.from.sp
             /\ x[ELR] = 199 + Depth
             /\ x[SPSR] = 299 + Depth]_vars

\* do_sync gets the syscall number: the x8 of the code that executed the svc.
SyscallNumber ==
  \A d \in 1 .. Depth :
    active[d].call.fn = "do_sync" => active[d].call.arg = active[d].from.x[8]

\* Everything an interrupted handler has on the stack stays where it is: the frame
\* it was given still holds the registers of the code it interrupted.  A fatal handler,
\* which reads it as a struct Regs, shows the syndrome and x0 of that code; the other
\* fields of the struct are not where save_regs puts the registers.
FramesSurvive ==
  \A d \in 1 .. Depth :
    Code(active[d].kind)[active[d].at].op \in {"do_irq", "rust", "panic", "loop"} =>
      LET frame == active[d].from.sp - 36 IN
      /\ mem[frame] = 199 + d /\ mem[frame + 1] = 299 + d
      /\ mem[frame + 4] = active[d].from.x[0]
      /\ \A r \in 1 .. 30 : mem[frame + 5 + r] = active[d].from.x[r]
      /\ active[d].report # <<>> => /\ active[d].report.regs[ESR] = 400 + active[d].ec
                                    /\ active[d].report.regs[0] = active[d].from.x[0]
=============================================================================
