-------------------------------- MODULE Boot --------------------------------
(***************************************************************************)
(* From head.S to kmain's loop, with interrupts.  head.S unmasks IRQs      *)
(* before it calls kmain, so do_irq may run between any two steps of       *)
(* init_devices, of the drivers' setup functions and of the switch to      *)
(* virtual memory.  Composes the GIC driver and the identity map with the  *)
(* parts of the UART and of the timer that raise interrupts.               *)
(*                                                                         *)
(* do_irq is one step: Kernel takes it apart.                              *)
(***************************************************************************)
EXTENDS Naturals, Sequences

CONSTANTS ResetWord,   \* what firmware may have left in the GIC's registers
          Garbage      \* what memory may hold

TimerId == 30
UartId == 33
Irqs == {TimerId, UartId}

\* Firmware hands the two interrupts over disabled, as they are after a reset: the
\* bit of neither is set in the word it left in the registers.
ASSUME FirmwareAssumption ==
  \A w \in ResetWord : TimerId \notin w /\ UartId % 32 \notin w

VARIABLES gicd, gicr, irouter, ctlr, waker, pmr, igrpen1, phase,   \* Gicv3
          mair, ttbr0, tcr, mmu, l0, l1, walk, mm, gib,            \* IdentityMap
          dt,      \* what the device tree says of the devices
          todo,    \* devices whose setup function is still to be called
          pc,      \* next step of the boot core
          call,    \* which of its GIC calls a setup function is at
          base,    \* UART.base_addr: "null" or "dtb"
          cr, imsc,   \* PL011 control register and interrupt mask
          rxris,   \* the receive bit of its raw interrupt status
          ten, texpired,   \* CNTP_CTL.ENABLE; the counter has reached CVAL
          latched  \* edge-triggered interrupts the GIC holds pending

gicVars == <<gicd, gicr, irouter, ctlr, waker, pmr, igrpen1, phase>>
mapVars == <<mair, ttbr0, tcr, mmu, l0, l1, walk, mm, gib>>
uartVars == <<base, cr, imsc, rxris>>
timerVars == <<ten, texpired>>
vars == <<gicVars, mapVars, dt, todo, pc, call, uartVars, timerVars, latched>>

Gic == INSTANCE Gicv3 WITH PpiId <- {TimerId}, SpiId <- {UartId}, Prio <- {{}},
                           Affinity <- {0}, ResetRoute <- {0}
Map == INSTANCE IdentityMap WITH Pages <- 0, L1Entry <- 0 .. 2,
                                 L0Addr <- {12, 28, 30}, L1Addr <- {13, 28, 30}

\* parse_dtb is done.  Firmware has used the UART by polling, so that its interrupts
\* are masked; it may have left the timer running.  A node may lack its interrupts
\* or the UART's its reg (find_property loses properties, see DeviceTree), the devices
\* may come in either order, and the UART may be missing.
Init ==
  /\ Gic!Init
  /\ Map!MapInit
  /\ dt \in [devices : {<<"uart", "timer">>, <<"timer", "uart">>, <<"timer">>},
             irqs : SUBSET Irqs, reg : BOOLEAN, edge : BOOLEAN]
  /\ todo = dt.devices
  /\ pc = "gic" /\ call = 1
  /\ base = "null" /\ cr = {"UARTEN", "TXEN", "RXEN"} /\ imsc = {} /\ rxris = FALSE
  /\ ten \in BOOLEAN /\ texpired \in BOOLEAN
  /\ latched = {}

-----------------------------------------------------------------------------
(* Interrupts.                                                             *)

Line(i) == IF i = TimerId THEN ten /\ texpired ELSE rxris /\ "RXIM" \in imsc

EdgeTriggered(i) == Gic!Decoded[i].trigger = "edge"

Pending(i) == IF EdgeTriggered(i) THEN i \in latched ELSE Line(i)

\* The GIC signals i to the core, which takes it before its next instruction.
Signalled(i) ==
  /\ Pending(i)
  /\ Gic!Decoded[i].enabled /\ Gic!Decoded[i].group1
  /\ Gic!GICD_CTLR_GRP1NS \in ctlr
  /\ i = TimerId => waker = {}
  /\ pmr = 255 /\ igrpen1 = 1

Quiet == \A i \in Irqs : ~Signalled(i)

\* The GIC latches a line that rises while its interrupt is edge-triggered.
Latch ==
  latched' = latched \cup {i \in Irqs : ~Line(i) /\ Line(i)' /\ EdgeTriggered(i)'}

\* Arm 30 of do_irq: rearm.
DoIrqTimer ==
  /\ Signalled(TimerId)
  /\ texpired' = FALSE
  /\ latched' = latched \ {TimerId}
  /\ UNCHANGED <<gicVars, mapVars, dt, todo, pc, call, uartVars, ten>>

\* Accesses at UART.base_addr reach the UART, not whatever is at address 0.
ReachesUart == base = "dtb"

\* Arm 33: read DR and clear the interrupt, at the base address known so far.
DoIrqUart ==
  /\ Signalled(UartId)
  /\ rxris' = (rxris /\ ~ReachesUart)
  /\ latched' = latched \ {UartId}
  /\ UNCHANGED <<gicVars, mapVars, dt, todo, pc, call, base, cr, imsc, timerVars>>

\* A byte arrives.
Receive ==
  /\ {"UARTEN", "RXEN"} \subseteq cr /\ ~rxris
  /\ rxris' = TRUE
  /\ UNCHANGED <<gicVars, mapVars, dt, todo, pc, call, base, cr, imsc, timerVars>>

\* The timer's interval is a second, so it does not expire over and over while the
\* core is busy with the UART's interrupts.
Expire ==
  /\ ~texpired /\ Quiet
  /\ texpired' = TRUE
  /\ UNCHANGED <<gicVars, mapVars, dt, todo, pc, call, uartVars, ten>>

ChildrenWake ==
  /\ Gic!ChildrenWake
  /\ UNCHANGED <<mapVars, dt, todo, pc, call, uartVars, timerVars>>

-----------------------------------------------------------------------------
(* init_devices: the GIC first, then the other devices in their order.     *)

Goto(from, to) == pc = from /\ pc' = to /\ UNCHANGED dt

SetupGic ==
  /\ pc = "gic"
  /\ Gic!Setup
  /\ pc' = IF phase' = "ready" THEN "next" ELSE "gic"
  /\ UNCHANGED <<mapVars, dt, todo, call, uartVars, timerVars>>

\* The loop of the second pass goes on with the next device.  A setup function
\* leaves the GIC alone if it finds no interrupt for its device.
NextDevice ==
  /\ IF todo = <<>> THEN Goto("next", "mm")
     ELSE IF Head(todo) = "uart"
     THEN Goto("next", IF UartId \in dt.irqs THEN "uart_irq" ELSE "init_uart")
     ELSE Goto("next", IF TimerId \in dt.irqs THEN "timer_irq" ELSE "next")
  /\ todo' = IF todo = <<>> THEN todo ELSE Tail(todo)
  /\ call' = 1
  /\ UNCHANGED <<gicVars, mapVars, uartVars, timerVars>>

\* One call after the other, in the order of calls; then go to after.
CallInTurn(calls, from, after) ==
  /\ pc = from
  /\ call' = call + 1
  /\ pc' = IF call = Len(calls) THEN after ELSE from
  /\ UNCHANGED <<mapVars, dt, todo, uartVars, timerVars>>

SpiCall(c) ==
  \/ c = "trigger" /\ Gic!set_spi_trigger(UartId, IF dt.edge THEN Gic!Edge ELSE Gic!Level)
  \/ c = "priority" /\ Gic!set_spi_priority(UartId, {})
  \/ c = "group" /\ Gic!set_spi_group(UartId)
  \/ c = "routing" /\ Gic!set_spi_routing(UartId, 0)
  \/ c = "enable" /\ Gic!enable_spi(UartId)

\* Mutated form: the interrupt is enabled first.
UartIrqSetup_EnableFirst ==
  LET calls == <<"enable", "trigger", "priority", "group", "routing">> IN
  /\ CallInTurn(calls, "uart_irq", "init_uart")
  /\ SpiCall(calls[call])

\* pl011::setup, the interrupts property.
UartIrqSetup ==
  LET calls == <<"trigger", "priority", "group", "routing", "enable">> IN
  /\ CallInTurn(calls, "uart_irq", "init_uart")
  /\ SpiCall(calls[call])

PpiCall(c) ==
  \/ c = "trigger" /\ Gic!set_ppi_trigger(TimerId, IF dt.edge THEN Gic!Edge ELSE Gic!Level)
  \/ c = "priority" /\ Gic!set_ppi_priority(TimerId, {})
  \/ c = "group" /\ Gic!set_ppi_group(TimerId)
  \/ c = "enable" /\ Gic!enable_ppi(TimerId)

\* arch_timer::setup.
TimerIrqSetup ==
  LET calls == <<"trigger", "priority", "group", "enable">> IN
  /\ CallInTurn(calls, "timer_irq", "next")
  /\ PpiCall(calls[call])

-----------------------------------------------------------------------------
(* The rest of pl011::setup: init_uart, and what configure does to the     *)
(* receiver and its interrupt.                                             *)

\* A step of it: its effect is on the UART alone.
UartStep(from, to) == Goto(from, to) /\ UNCHANGED <<gicVars, mapVars, todo, call, timerVars>>

\* Without a reg the address is 0.
init_uart ==
  /\ UartStep("init_uart", "disable")
  /\ base' = IF dt.reg THEN "dtb" ELSE "null"
  /\ UNCHANGED <<cr, imsc, rxris>>

ConfigureDisable ==
  /\ UartStep("disable", "flush")
  /\ cr' = IF ReachesUart THEN {} ELSE cr
  /\ UNCHANGED <<base, imsc, rxris>>

\* Whether the flush takes the receive interrupt along depends on the hardware.
ConfigureFlush ==
  /\ UartStep("flush", "imsc")
  /\ rxris' \in {rxris, rxris /\ ~ReachesUart}
  /\ UNCHANGED <<base, cr, imsc>>

\* Mutated form: the mask is written as it was.
ConfigureImsc_Masked == UartStep("imsc", "enable") /\ UNCHANGED uartVars

\* Mutated form: the early console's address stands in for a null one, as in putchar.
ConfigureImsc_EarlyBase ==
  /\ UartStep("imsc", "enable")
  /\ imsc' = imsc \cup {"RXIM"}
  /\ UNCHANGED <<base, cr, rxris>>

ConfigureImsc ==
  /\ UartStep("imsc", "enable")
  /\ imsc' = IF ReachesUart THEN imsc \cup {"RXIM"} ELSE imsc
  /\ UNCHANGED <<base, cr, rxris>>

ConfigureEnable ==
  /\ UartStep("enable", "next")
  /\ cr' = IF ReachesUart THEN cr \cup {"UARTEN", "RXEN"} ELSE cr
  /\ UNCHANGED <<base, imsc, rxris>>

UartSetup ==
  \/ UartIrqSetup \/ init_uart \/ ConfigureDisable \/ ConfigureFlush
  \/ ConfigureImsc \/ ConfigureEnable

-----------------------------------------------------------------------------
(* kmain after parse_dtb.                                                  *)

SetupMemory ==
  /\ pc = "mm"
  /\ Map!setup_mair_ranges \/ Map!setup_identity_mapping
  /\ pc' = IF mm' = "on" THEN "tval" ELSE "mm"
  /\ UNCHANGED <<gicVars, dt, todo, call, uartVars, timerVars>>

\* arm_ms(1000), after the greetings: the timer value, then the control register.
ArmValue ==
  /\ Goto("tval", "ctl")
  /\ texpired' = FALSE
  /\ UNCHANGED <<gicVars, mapVars, todo, call, uartVars, ten>>

ArmControl ==
  /\ Goto("ctl", "loop")
  /\ ten' = TRUE
  /\ UNCHANGED <<gicVars, mapVars, todo, call, uartVars, texpired>>

\* The polling loop, which Kernel is about.
Loop ==
  /\ Goto("loop", "loop")
  /\ UNCHANGED <<gicVars, mapVars, todo, call, uartVars, timerVars>>

-----------------------------------------------------------------------------
Kmain ==
  /\ Quiet
  /\ \/ SetupGic \/ NextDevice \/ UartSetup \/ TimerIrqSetup
     \/ SetupMemory \/ ArmValue \/ ArmControl \/ Loop

Next ==
  \/ (Kmain \/ Receive \/ Expire \/ ChildrenWake) /\ Latch
  \/ DoIrqTimer \/ DoIrqUart

Spec == Init /\ [][Next]_vars

\* An interrupt that stays signalled is taken.  The time between two bytes and between
\* two expirations leaves the core time for main code.
Fairness ==
  /\ SF_vars(Kmain /\ Latch)
  /\ WF_vars(DoIrqTimer) /\ WF_vars(DoIrqUart)
  /\ WF_vars(ChildrenWake /\ Latch)

FairSpec == Spec /\ Fairness

-----------------------------------------------------------------------------
\* No UART interrupt reaches do_irq while the base address that arm 33 uses is null,
\* although the GIC forwards it, and IRQs are unmasked, long before init_uart, and
\* although init_uart stores a null address for a node without reg.
UartBaseKnown == Signalled(UartId) => base = "dtb"

\* The trigger mode and the group of an interrupt do not change while it is enabled,
\* which the GIC leaves unpredictable: a setup function enables it last.
ConfiguredBeforeEnabled ==
  [][\A i \in Irqs : Gic!Decoded[i].enabled =>
       /\ Gic!Decoded'[i].trigger = Gic!Decoded[i].trigger
       /\ Gic!Decoded'[i].group1 = Gic!Decoded[i].group1]_vars

\* From the moment the MMU is on, the kernel keeps running and do_irq reaches its
\* devices: the GiB of UART and GIC is device memory at its own address, that of image,
\* stack and device tree normal memory that EL1 may execute, whatever memory held.
EveryAccessMapped ==
  mmu => /\ Map!MappedAs(0, Map!MAIR_DEVICE_NGNRNE)
         /\ Map!MappedAs(1, Map!MAIR_NORMAL_WB) /\ Map!Executable(1)

\* Boot gets to kmain's loop through all interrupts, and a receive interrupt that is
\* pending there, left standing by configure's flush or raised by a later byte, is
\* handled if the device tree names it: in the loop nothing but do_irq lowers it.  What
\* becomes of the bytes themselves is Kernel's subject.
\* (Without a reg, configure's wait reads whatever address 0 holds, and may not end.)
BootServes ==
  dt.reg => /\ <>(pc = "loop")
            /\ (rxris /\ pc = "loop" /\ dt.devices # <<"timer">> /\ UartId \in dt.irqs)
                 ~> ~rxris
=============================================================================
