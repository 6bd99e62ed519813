------------------------------- MODULE Kernel -------------------------------
(***************************************************************************)
(* The running kernel, after boot: kmain's polling loop, interrupted by    *)
(* irq_handler/do_irq for the timer and for the UART receiver, on one      *)
(* core.  It composes the interrupt-safe mutex and the receive ring with   *)
(* what the code uses of the hardware: the PL011 receive FIFO and its      *)
(* interrupt, the generic timer's level-sensitive output, and the GIC's    *)
(* acknowledge and end-of-interrupt registers.                             *)
(*                                                                         *)
(* Received bytes are numbered 1, 2, ... in the order of their arrival.    *)
(*                                                                         *)
(* A closure given to lock_irqsafe runs in the step that releases the      *)
(* flag: only closures touch the ring, so nothing can tell the difference. *)
(***************************************************************************)
EXTENDS Integers, Sequences, FiniteSets

CONSTANTS UART_BUFFER_SIZE,  \* slots of the receive ring
          FifoDepth,         \* PL011 receive FIFO, 16 in hardware
          Trigger,           \* FIFO level that raises the receive interrupt
          TimerId,           \* INTID of the timer
          UartIds,           \* INTIDs the device tree may give the UART
          MaxBytes,          \* bound on the bytes that arrive
          MaxTicks,          \* bound on the expirations of the timer
          Pacing             \* the values that paced may have

ASSUME KernelAssumption ==
  /\ UART_BUFFER_SIZE \in Nat \ {0}
  /\ FifoDepth \in Nat \ {0}
  /\ Trigger \in 1 .. FifoDepth
  /\ TimerId \in 16 .. 31
  /\ UartIds \subseteq 32 .. 1019
  /\ MaxBytes \in Nat
  /\ MaxTicks \in Nat
  /\ Pacing \subseteq BOOLEAN

VARIABLES lock, pc, daif_state, daif, depth, spsr,   \* RX_BUFFER's mutex, the CPU
          buffer, head, tail, ret,                   \* the UartBuffer inside it
          main,     \* what kmain's loop does: "getchar" or "println"
          ch,       \* kmain's local: the result of getchar
          isr,      \* where irq_handler is, "idle" when it does not run
          intid,    \* x0 of irq_handler: the INTID read from ICC_IAR1_EL1
          rxfifo,   \* the PL011's receive FIFO
          rxris,    \* the receive bit of its raw interrupt status
          istatus,  \* the timer's ISTATUS, its interrupt line
          active,   \* the INTIDs the GIC has handed out and not got back
          sent,     \* the number of bytes that have arrived at the UART
          ticks,    \* the number of expirations of the timer
          uart_id,  \* the INTID setup() found in the device tree and enabled
          paced,    \* TRUE: the sender waits until do_irq and the ring can follow
          typed,    \* the bytes kmain has printed
          lost      \* bytes dropped: by a full FIFO, or by a full ring

mutexVars == <<lock, pc, daif_state, daif, depth, spsr>>
ringVars == <<buffer, head, tail, ret>>
cpuVars == <<main, ch, isr, intid>>
deviceVars == <<rxfifo, rxris, istatus, active>>
inputVars == <<sent, ticks, uart_id, paced>>
historyVars == <<typed, lost>>
vars == <<mutexVars, ringVars, cpuVars, deviceVars, inputVars, historyVars>>

Core == 0
Mutex == INSTANCE IrqSafeMutex WITH CPU <- {Core}, MaxNest <- 1
Ring == INSTANCE UartBuffer WITH Byte <- 0 .. MaxBytes

None == [ok |-> FALSE, byte |-> 0]
InMain == depth[Core] = 0
InIsr == depth[Core] > 0

Init ==
  /\ Mutex!Init
  /\ Ring!Init
  /\ main = "getchar" /\ ch = None
  /\ isr = "idle" /\ intid = 0
  /\ rxfifo = <<>> /\ rxris = 0 /\ istatus = 0 /\ active = {}
  /\ sent = 0 /\ ticks = 0 /\ uart_id \in UartIds /\ paced \in Pacing
  /\ typed = <<>> /\ lost = {}

-----------------------------------------------------------------------------
(* kmain's loop.                                                           *)

\* lock_irqsafe between its first and its last instruction, in either context.
LockStep ==
  /\ Mutex!MaskIrq(Core) \/ Mutex!Acquire(Core)
  /\ UNCHANGED <<ringVars, cpuVars, deviceVars, inputVars, historyVars>>

\* getchar is called.
GetcharCall ==
  /\ InMain /\ main = "getchar"
  /\ Mutex!ReadDaif(Core)
  /\ UNCHANGED <<ringVars, cpuVars, deviceVars, inputVars, historyVars>>

\* Mutated form: the closure only peeks at the oldest byte.
GetcharPop_Peek ==
  /\ InMain
  /\ Mutex!Release(Core)
  /\ ch' = IF head = tail THEN None ELSE [ok |-> TRUE, byte |-> buffer[tail]]
  /\ UNCHANGED <<ringVars, main, isr, intid, deviceVars, inputVars, historyVars>>

\* The closure of getchar: rx.pop().
GetcharPop ==
  /\ InMain
  /\ Mutex!Release(Core)
  /\ Ring!pop
  /\ ch' = ret'
  /\ UNCHANGED <<main, isr, intid, deviceVars, inputVars, historyVars>>

\* getchar returns.
GetcharReturn ==
  /\ InMain
  /\ Mutex!RestoreDaif(Core)
  /\ main' = IF ch.ok THEN "println" ELSE "getchar"
  /\ UNCHANGED <<ringVars, ch, isr, intid, deviceVars, inputVars, historyVars>>

\* "You typed: {}".
Println ==
  /\ InMain /\ main = "println"
  /\ typed' = Append(typed, ch.byte)
  /\ ch' = None
  /\ main' = "getchar"
  /\ UNCHANGED <<mutexVars, ringVars, isr, intid, deviceVars, inputVars, lost>>

-----------------------------------------------------------------------------
(* irq_handler and do_irq.                                                 *)

\* The interrupts whose line is high.  Both are level-sensitive.
Asserted == {i \in {TimerId, uart_id} : \/ i = TimerId /\ istatus = 1
                                        \/ i = uart_id /\ rxris = 1}

\* setup() gives both the highest priority, so while one is active the GIC
\* signals no other.
Signalled == Asserted # {} /\ active = {}

\* The core takes the interrupt, at any instruction it executes unmasked.
TakeIrq ==
  /\ Signalled
  /\ Mutex!TakeIrq(Core)
  /\ isr' = "iar"
  /\ UNCHANGED <<ringVars, main, ch, intid, deviceVars, inputVars, historyVars>>

\* mrs x0, ICC_IAR1_EL1: the GIC hands out one of the asserted interrupts.
ReadIar ==
  /\ isr = "iar"
  /\ \E i \in Asserted :
       /\ intid' = i
       /\ active' = active \cup {i}
  /\ isr' = "do_irq"
  /\ UNCHANGED <<mutexVars, ringVars, main, ch, rxfifo, rxris, istatus,
                 inputVars, historyVars>>

\* Arm 30 leaves the timer's line at level.
TimerArm(level) ==
  /\ isr = "do_irq" /\ intid = 30
  /\ istatus' = level
  /\ isr' = "eoir"
  /\ UNCHANGED <<mutexVars, ringVars, main, ch, intid, rxfifo, rxris, active,
                 inputVars, historyVars>>

\* Mutated form: the timer is not rearmed.
DoIrqTimer_NoRearm == TimerArm(istatus)

\* Arm 30 of do_irq: print, and rearm the timer, which drops its line.
DoIrqTimer == TimerArm(0)

\* Arm 33 calls lock_irqsafe.
DoIrqUartLock ==
  /\ isr = "do_irq" /\ intid = 33
  /\ Mutex!ReadDaif(Core)
  /\ UNCHANGED <<ringVars, cpuVars, deviceVars, inputVars, historyVars>>

\* Reading DR takes the oldest byte out of the FIFO, and drops the receive
\* interrupt when the level falls below the trigger.
ReadDR ==
  /\ rxfifo' = IF rxfifo = <<>> THEN <<>> ELSE Tail(rxfifo)
  /\ rxris' = IF Len(rxfifo') < Trigger THEN 0 ELSE rxris

DataByte == IF rxfifo = <<>> THEN 0 ELSE Head(rxfifo)

PushArm ==
  /\ InIsr
  /\ Mutex!Release(Core)
  /\ Ring!push(DataByte)
  /\ lost' = IF ret'.ok THEN lost ELSE lost \cup {DataByte}
  /\ UNCHANGED <<cpuVars, istatus, active, inputVars, typed>>

\* Mutated form: the handler flushes the FIFO after the first byte.
DoIrqUartPush_Flush == PushArm /\ rxfifo' = <<>> /\ rxris' = 0

\* The closure of arm 33: read DR, and push the byte; its result is ignored.
DoIrqUartPush == PushArm /\ ReadDR

\* lock_irqsafe returns to arm 33.
DoIrqUartUnlock ==
  /\ InIsr
  /\ Mutex!RestoreDaif(Core)
  /\ isr' = "icr"
  /\ UNCHANGED <<ringVars, main, ch, intid, deviceVars, inputVars, historyVars>>

ClearAndGoto(label) ==
  /\ isr = "icr"
  /\ rxris' = 0
  /\ isr' = label
  /\ UNCHANGED <<mutexVars, ringVars, main, ch, intid, rxfifo, istatus, active,
                 inputVars, historyVars>>

\* Mutated form: arm 33 starts over, to drain the FIFO, without asking FR whether
\* there is anything left to read.
DoIrqUartClear_Again == ClearAndGoto("do_irq")

\* Arm 33 writes ICR_RXIC.
DoIrqUartClear == ClearAndGoto("eoir")

\* The default arm of do_irq only prints.
DoIrqUnhandled ==
  /\ isr = "do_irq" /\ intid \notin {30, 33}
  /\ isr' = "eoir"
  /\ UNCHANGED <<mutexVars, ringVars, main, ch, intid, deviceVars, inputVars,
                 historyVars>>

EndIrq(rest) ==
  /\ isr = "eoir"
  /\ active' = rest
  /\ isr' = "exit"
  /\ UNCHANGED <<mutexVars, ringVars, main, ch, intid, rxfifo, rxris, istatus,
                 inputVars, historyVars>>

\* Mutated form: the interrupt is not acknowledged.
WriteEoir_Forgotten == EndIrq(active)

\* msr ICC_EOIR1_EL1, x0: priority drop and deactivation in one.
WriteEoir == EndIrq(active \ {intid})

\* exception_exit.
ExceptionExit ==
  /\ isr = "exit"
  /\ Mutex!Eret(Core)
  /\ isr' = "idle"
  /\ UNCHANGED <<ringVars, main, ch, intid, deviceVars, inputVars, historyVars>>

-----------------------------------------------------------------------------
(* The environment.                                                        *)

\* A byte arrives at the UART.  A full FIFO overruns.
Receive ==
  /\ sent < MaxBytes
  /\ paced => rxfifo = <<>> /\ isr = "idle" /\ Ring!Count < UART_BUFFER_SIZE - 1
  /\ sent' = sent + 1
  /\ \/ /\ Len(rxfifo) < FifoDepth
        /\ rxfifo' = Append(rxfifo, sent')
        /\ rxris' = IF Len(rxfifo') >= Trigger THEN 1 ELSE rxris
        /\ UNCHANGED lost
     \/ /\ Len(rxfifo) = FifoDepth
        /\ lost' = lost \cup {sent'}
        /\ UNCHANGED <<rxfifo, rxris>>
  /\ UNCHANGED <<mutexVars, ringVars, cpuVars, istatus, active, ticks, uart_id,
                 paced, typed>>

\* The timer's counter reaches its compare value.
TimerFires ==
  /\ ticks < MaxTicks /\ istatus = 0
  /\ istatus' = 1
  /\ ticks' = ticks + 1
  /\ UNCHANGED <<mutexVars, ringVars, cpuVars, rxfifo, rxris, active, sent,
                 uart_id, paced, historyVars>>

-----------------------------------------------------------------------------
MainStep == GetcharCall \/ GetcharPop \/ GetcharReturn \/ Println
IsrStep ==
  \/ ReadIar \/ DoIrqTimer \/ DoIrqUartLock \/ DoIrqUartPush
  \/ DoIrqUartUnlock \/ DoIrqUartClear \/ DoIrqUnhandled
  \/ WriteEoir \/ ExceptionExit

Instruction == MainStep \/ IsrStep \/ LockStep

Next == Instruction \/ TakeIrq \/ Receive \/ TimerFires

Spec == Init /\ [][Next]_vars

\* The core keeps executing instructions.  A signalled interrupt is taken at an
\* instruction executed unmasked; the polling loop masks and unmasks for ever, so
\* the interrupt is possible again and again but not continuously.
Fairness == WF_vars(Instruction) /\ SF_vars(TakeIrq)

FairSpec == Spec /\ Fairness

-----------------------------------------------------------------------------
IsrLabel == {"idle", "iar", "do_irq", "icr", "eoir", "exit"}

TypeOK ==
  /\ Mutex!TypeOK
  /\ Ring!TypeOK
  /\ main \in {"getchar", "println"}
  /\ ch \in [ok : BOOLEAN, byte : 0 .. MaxBytes]
  /\ isr \in IsrLabel
  /\ uart_id \in UartIds /\ paced \in Pacing
  /\ intid \in {0, TimerId, uart_id}
  /\ rxfifo \in Seq(1 .. MaxBytes) /\ Len(rxfifo) <= FifoDepth
  /\ rxris \in {0, 1} /\ istatus \in {0, 1}
  /\ active \subseteq {TimerId, uart_id}
  /\ sent \in 0 .. MaxBytes /\ ticks \in 0 .. MaxTicks
  /\ typed \in Seq(1 .. MaxBytes)
  /\ lost \subseteq 0 .. MaxBytes

\* The byte kmain has taken out of the ring and not printed yet.
InHand == IF ch.ok THEN <<ch.byte>> ELSE <<>>

\* All bytes on their way from the wire to the console, the oldest first.
Pipeline == typed \o InHand \o Ring!Contents \o rxfifo

\* Bytes are printed in the order of their arrival and none is printed twice,
\* wherever the interrupts of do_irq hit the polling loop of kmain.
BytesInOrder ==
  \A i, j \in 1 .. Len(Pipeline) : i < j => Pipeline[i] < Pipeline[j]

\* Every byte that has arrived is printed, on its way, or was dropped because the
\* FIFO or the ring was full, and exactly one of these: no interleaving of handler
\* and getchar makes one disappear.
EveryByteAccounted ==
  LET onTheWay == {Pipeline[i] : i \in 1 .. Len(Pipeline)} IN
  /\ onTheWay \cup lost = 1 .. sent
  /\ onTheWay \cap lost = {}

\* The ring between do_irq's push and getchar's pop is a FIFO queue of one byte less than
\* its size: nothing is reordered, duplicated, overwritten or invented at any offset of
\* head and tail, across the wrap-around too, and only a push onto a full ring returns
\* false.
ImplementsQueue == Ring!ImplementsQueue

\* Whenever the handler reads DR, there is a byte in the FIFO: arm 33 pushes no
\* stale data although it never looks at FR.
HandlerSeesData ==
  (InIsr /\ pc[Core][depth[Core]] = "crit") => rxfifo # <<>>

\* The GIC and the core agree on what is in service: an interrupt is active exactly
\* while irq_handler is between reading IAR and writing EOIR, and IRQs are masked
\* all that time, the lock_irqsafe of arm 33 included.
ActiveWhileHandled ==
  /\ active = IF isr \in {"do_irq", "icr", "eoir"} THEN {intid} ELSE {}
  /\ isr # "idle" => daif[Core] = 1

Printed(b) == \E i \in 1 .. Len(typed) : typed[i] = b

\* Byte b is printed, or was dropped by a full FIFO or ring.
Settled(b) == Printed(b) \/ b \in lost

\* "Receiving characters is interrupt-driven": every byte that arrives is printed,
\* unless it was dropped.
Delivered == \A b \in 1 .. MaxBytes : sent >= b ~> Settled(b)

\* do_irq has an arm for the UART.
Known == uart_id = 33

\* If a byte only arrives once do_irq is done with the one before and the ring has a
\* free slot, every byte is printed, whatever the timer interrupts meanwhile: none is
\* stranded, and none is dropped.
DeliveredOneByOne ==
  \A b \in 1 .. MaxBytes : (sent >= b /\ paced /\ Known) ~> Printed(b)

\* Every expiration of the timer is handled, although bytes arrive at the same time and
\* the GIC may hand out the UART's interrupt first as long as they do.
TimerServed == (istatus = 1 /\ Known) ~> istatus = 0

\* The polling loop always gets to look at the ring again: no interrupt leaves it
\* waiting for the flag, or without time to run.
PollsForever == []<>(Known => InMain /\ pc[Core][0] = "crit")
=============================================================================
