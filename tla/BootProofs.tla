----------------------------- MODULE BootProofs -----------------------------
(***************************************************************************)
(* The order of boot, with interrupts between any two steps, for every     *)
(* content of memory and of the GIC's registers that firmware may leave.   *)
(***************************************************************************)
EXTENDS Boot, TLAPS

\* The steps of main code that leave the interrupt configuration of the GIC, the
\* devices to do and the page tables alone.
Elsewhere ==
  \/ init_uart \/ ConfigureDisable \/ ConfigureFlush \/ ConfigureImsc \/ ConfigureEnable
  \/ ArmValue \/ ArmControl \/ Loop

\* The steps of the devices and of the interrupt handlers.
Beside == Receive \/ Expire \/ ChildrenWake \/ DoIrqTimer \/ DoIrqUart

\* The steps of the specification.
LEMMA Steps ==
  ASSUME [Next]_vars
  PROVE  \/ SetupGic \/ NextDevice \/ UartIrqSetup \/ TimerIrqSetup \/ SetupMemory
         \/ Elsewhere \/ Beside \/ UNCHANGED vars
BY DEF Next, Kmain, UartSetup, Elsewhere, Beside

-----------------------------------------------------------------------------
(* The UART's base address.                                                *)

\* The receive interrupt is unmasked, or was latched, only with the base address known,
\* and it is known only from a node that has a reg.
UartKnown ==
  /\ "RXIM" \in imsc => base = "dtb"
  /\ UartId \in latched => base = "dtb"
  /\ base = "dtb" => dt.reg

\* How a step changes what that depends on.
LEMMA UartEffect ==
  ASSUME [Next]_vars
  PROVE  /\ dt' = dt
         /\ base' = base \/ base' = IF dt.reg THEN "dtb" ELSE "null"
         /\ imsc' = imsc \/ (base = "dtb" /\ base' = base)
         /\ UartId \in latched' => UartId \in latched \/ "RXIM" \in imsc'
<1>1. /\ dt' = dt
      /\ base' = base \/ base' = IF dt.reg THEN "dtb" ELSE "null"
      /\ imsc' = imsc \/ (base = "dtb" /\ base' = base)
  <2>1. CASE SetupGic \/ NextDevice \/ UartIrqSetup \/ TimerIrqSetup \/ SetupMemory
    BY <2>1 DEF SetupGic, NextDevice, UartIrqSetup, TimerIrqSetup, SetupMemory, Goto,
                CallInTurn, uartVars
  <2>2. CASE Elsewhere
    BY <2>2 DEF Elsewhere, init_uart, ConfigureDisable, ConfigureFlush, ConfigureImsc,
                ConfigureEnable, ArmValue, ArmControl, Loop, UartStep, Goto, ReachesUart,
                uartVars
  <2>3. CASE Beside
    BY <2>3 DEF Beside, Receive, Expire, ChildrenWake, DoIrqTimer, DoIrqUart, uartVars
  <2>4. CASE UNCHANGED vars
    BY <2>4 DEF vars, uartVars
  <2> QED  BY <2>1, <2>2, <2>3, <2>4, Steps
<1>2. UartId \in latched' => UartId \in latched \/ "RXIM" \in imsc'
  <2>1. CASE Latch
    <3>1. Line(UartId)' => "RXIM" \in imsc'
      BY DEF Line, UartId, TimerId
    <3>2. UartId \in latched' => UartId \in latched \/ Line(UartId)'
      BY <2>1 DEF Latch
    <3> QED  BY <3>1, <3>2
  <2>2. CASE DoIrqTimer \/ DoIrqUart \/ UNCHANGED vars
    BY <2>2 DEF DoIrqTimer, DoIrqUart, vars
  <2> QED  BY <2>1, <2>2 DEF Next
<1> QED  BY <1>1, <1>2

\* No UART interrupt reaches do_irq while the base address is null, for any device
\* tree and whatever the interrupt configuration that firmware left.
THEOREM BootUartBaseKnown == Spec => []UartBaseKnown
<1>1. Init => UartKnown
  BY DEF Init, UartKnown
<1>2. UartKnown /\ [Next]_vars => UartKnown'
  <2> SUFFICES ASSUME UartKnown, [Next]_vars PROVE UartKnown'
    OBVIOUS
  <2>1. /\ dt' = dt
        /\ base' = base \/ base' = IF dt.reg THEN "dtb" ELSE "null"
        /\ imsc' = imsc \/ (base = "dtb" /\ base' = base)
        /\ UartId \in latched' => UartId \in latched \/ "RXIM" \in imsc'
    BY UartEffect
  <2>2. base = "dtb" => base' = "dtb"
    BY <2>1 DEF UartKnown
  <2>3. base' = "dtb" => dt'.reg
    BY <2>1 DEF UartKnown
  <2>4. "RXIM" \in imsc' => base' = "dtb"
    BY <2>1, <2>2 DEF UartKnown
  <2>5. UartId \in latched' => base' = "dtb"
    BY <2>1, <2>2, <2>4 DEF UartKnown
  <2> QED  BY <2>3, <2>4, <2>5 DEF UartKnown
<1>3. UartKnown => UartBaseKnown
  <2> SUFFICES ASSUME UartKnown, Signalled(UartId) PROVE base = "dtb"
    BY DEF UartBaseKnown
  <2>1. UartId \in latched \/ Line(UartId)
    BY DEF Signalled, Pending
  <2>2. Line(UartId) => "RXIM" \in imsc
    BY DEF Line, UartId, TimerId
  <2> QED  BY <2>1, <2>2 DEF UartKnown
<1> QED  BY <1>1, <1>2, <1>3, PTL DEF Spec

-----------------------------------------------------------------------------
(* The identity map.                                                       *)

\* What the code writes: MAIR_EL1, the table descriptor, TCR_EL1.
Mair == UNION {{}, Map!configure_mair_range(Map!MAIR_DEVICE_NGNRNE, Map!MAIR_IDX_DEVICE),
               Map!configure_mair_range(Map!MAIR_NORMAL_WB, Map!MAIR_IDX_NORMAL_WB),
               Map!configure_mair_range(Map!MAIR_NORMAL_NC, Map!MAIR_IDX_NORMAL_NC)}
TableDesc == UNION {{}, Map!mark_table_desc, Map!TABLE_UXNTABLE, Map!TABLE_APTABLE0,
                    {13, 28, 30}}
Tcr == {4, 8, 10, 12, 13, 20, 23, 31, 34}

\* What each step of the set-up may rely on.  The walker sees the tables only from
\* load_ttbr0 on, and they do not change after it.
Described ==
  /\ mm = "mair" => mair = {}
  /\ mm # "mair" => mair = Mair
  /\ mm \in {"mair", "l0"} => l0 = {} /\ gib = 0
  /\ mm \notin {"mair", "l0"} => l0 = TableDesc
  /\ mm = "l1" => gib \in {0, 1} /\ (gib = 1 => l1[0] = Map!BlockDesc(0))
  /\ DOMAIN l1 = 0 .. 2

Published ==
  /\ mm \in {"ttbr0", "tcr", "sctlr", "on"} =>
       l1[0] = Map!BlockDesc(0) /\ l1[1] = Map!BlockDesc(1)
  /\ mm \in {"tcr", "sctlr", "on"} =>
       ttbr0 = {12, 28, 30} /\ walk = [l0 |-> l0, l1 |-> l1]
  /\ mm \in {"sctlr", "on"} => tcr = Tcr
  /\ mmu => mm = "on"

Mapping == Described /\ Published

\* Only the set-up of memory changes any of this.
LEMMA MapEffect ==
  ASSUME [Next]_vars
  PROVE  \/ Map!setup_mair_ranges \/ Map!setup_identity_mapping
         \/ UNCHANGED mapVars
<1>1. CASE SetupMemory
  BY <1>1 DEF SetupMemory
<1>2. CASE SetupGic \/ NextDevice \/ UartIrqSetup \/ TimerIrqSetup
  BY <1>2 DEF SetupGic, NextDevice, UartIrqSetup, TimerIrqSetup, CallInTurn
<1>3. CASE Elsewhere
  BY <1>3 DEF Elsewhere, init_uart, ConfigureDisable, ConfigureFlush, ConfigureImsc,
              ConfigureEnable, ArmValue, ArmControl, Loop, UartStep
<1>4. CASE Beside
  BY <1>4 DEF Beside, Receive, Expire, ChildrenWake, DoIrqTimer, DoIrqUart
<1>5. CASE UNCHANGED vars
  BY <1>5 DEF vars
<1> QED  BY <1>1, <1>2, <1>3, <1>4, <1>5, Steps

LEMMA MappingInvariant == Spec => []Mapping
<1>1. Init => Mapping
  BY DEF Init, Map!MapInit, Mapping, Described, Published
<1>2. Mapping /\ [Next]_vars => Mapping'
  <2> SUFFICES ASSUME Mapping, [Next]_vars PROVE Mapping'
    OBVIOUS
  <2>1. Described /\ Published
    BY DEF Mapping
  <2>2. CASE UNCHANGED mapVars
    BY <2>1, <2>2 DEF mapVars, Mapping, Described, Published
  <2>3. CASE Map!setup_mair_ranges
    <3>1. /\ mm = "mair" /\ mm' = "l0" /\ UNCHANGED <<ttbr0, tcr, mmu, l0, l1, walk, gib>>
      BY <2>3 DEF Map!setup_mair_ranges, Map!MapStep
    <3>2. mair' = Mair
      BY <2>1, <2>3, <3>1 DEF Map!setup_mair_ranges, Described, Mair
    <3>3. Described'
      BY <2>1, <3>1, <3>2 DEF Described
    <3>4. Published'
      BY <2>1, <3>1 DEF Published
    <3> QED  BY <3>3, <3>4 DEF Mapping
  <2>4. CASE Map!MapTable
    <3>1. /\ mm = "l0" /\ mm' = "l1" /\ UNCHANGED <<mair, ttbr0, tcr, mmu, l1, walk, gib>>
      BY <2>4 DEF Map!MapTable, Map!MapStep
    <3>2. l0' = TableDesc
      BY <2>1, <2>4, <3>1 DEF Map!MapTable, Described, TableDesc
    <3>3. Described'
      BY <2>1, <3>1, <3>2 DEF Described
    <3>4. Published'
      BY <2>1, <3>1 DEF Published
    <3> QED  BY <3>3, <3>4 DEF Mapping
  <2>5. CASE Map!MapBlock
    <3>1. /\ mm = "l1" /\ mm' = IF gib = 1 THEN "ttbr0" ELSE "l1"
          /\ UNCHANGED <<mair, ttbr0, tcr, mmu, l0, walk>> /\ gib' = gib + 1
          /\ l1' = [l1 EXCEPT ![gib] = Map!BlockDesc(gib)]
      BY <2>5 DEF Map!MapBlock, Map!Iteration, Map!LastBlock
    <3>2. gib \in {0, 1} /\ (gib = 1 => l1[0] = Map!BlockDesc(0)) /\ DOMAIN l1 = 0 .. 2
      BY <2>1, <3>1 DEF Described
    <3>3. /\ DOMAIN l1' = 0 .. 2
          /\ gib = 0 => l1'[0] = Map!BlockDesc(0)
          /\ gib = 1 => l1'[0] = Map!BlockDesc(0) /\ l1'[1] = Map!BlockDesc(1)
      BY <3>1, <3>2
    <3>4. Described'
      BY <2>1, <3>1, <3>2, <3>3 DEF Described
    <3>5. Published'
      BY <2>1, <3>1, <3>2, <3>3 DEF Published
    <3> QED  BY <3>4, <3>5 DEF Mapping
  <2>6. CASE Map!load_ttbr0
    <3>1. /\ mm = "ttbr0" /\ mm' = "tcr" /\ UNCHANGED <<mair, tcr, mmu, l0, l1, gib>>
          /\ ttbr0' = {12, 28, 30} /\ walk' = [l0 |-> l0, l1 |-> l1]
      BY <2>6 DEF Map!load_ttbr0, Map!MapStep
    <3>2. Described'
      BY <2>1, <3>1 DEF Described
    <3>3. Published'
      BY <2>1, <3>1 DEF Published
    <3> QED  BY <3>2, <3>3 DEF Mapping
  <2>7. CASE Map!configure_tcr
    <3>1. /\ mm = "tcr" /\ mm' = "sctlr" /\ UNCHANGED <<mair, ttbr0, mmu, l0, l1, walk, gib>>
          /\ tcr' = Tcr
      BY <2>7 DEF Map!configure_tcr, Map!MapStep, Tcr
    <3>2. Described'
      BY <2>1, <3>1 DEF Described
    <3>3. Published'
      BY <2>1, <3>1 DEF Published
    <3> QED  BY <3>2, <3>3 DEF Mapping
  <2>8. CASE Map!enable_mmu
    <3>1. mm = "sctlr" /\ mm' = "on" /\ UNCHANGED <<mair, ttbr0, tcr, l0, l1, walk, gib>>
      BY <2>8 DEF Map!enable_mmu, Map!MapStep
    <3>2. Described'
      BY <2>1, <3>1 DEF Described
    <3>3. Published'
      BY <2>1, <3>1 DEF Published
    <3> QED  BY <3>2, <3>3 DEF Mapping
  <2> QED  BY <2>2, <2>3, <2>4, <2>5, <2>6, <2>7, <2>8, MapEffect DEF Map!setup_identity_mapping
<1> QED  BY <1>1, <1>2, PTL DEF Spec

\* The bits that the helpers set: the attribute indices 0 and 2, and an address above
\* the other fields of a descriptor.
LEMMA DescriptorBits ==
  /\ Map!set_mair_range(0) = {} /\ Map!set_mair_range(2) = {3}
  /\ \A e : Map!GibAddr(e) \subseteq 30 .. 38
<1>1. 2^0 = 1 /\ 2^1 = 2 /\ 2^2 = 4
  OBVIOUS
<1>2. ASSUME NEW c \in 0 .. 2 PROVE ((0 \div 2^c) % 2 = 1) = FALSE
  <2>1. c = 0 \/ c = 1 \/ c = 2
    OBVIOUS
  <2>2. CASE c = 0
    BY <1>1, <2>2
  <2>3. CASE c = 1
    BY <1>1, <2>3
  <2>4. CASE c = 2
    BY <1>1, <2>4
  <2> QED  BY <2>1, <2>2, <2>3, <2>4
<1>3. ASSUME NEW c \in 0 .. 2 PROVE (2 \div 2^c) % 2 = 1 <=> c = 1
  <2>1. c = 0 \/ c = 1 \/ c = 2
    OBVIOUS
  <2>2. CASE c = 0
    BY <1>1, <2>2
  <2>3. CASE c = 1
    BY <1>1, <2>3
  <2>4. CASE c = 2
    BY <1>1, <2>4
  <2> QED  BY <2>1, <2>2, <2>3, <2>4
<1>4. 1 \in 0 .. 2 /\ 2 + 1 = 3
  OBVIOUS
<1>5. Map!set_mair_range(0) = {}
  BY <1>2, Zenon DEF Map!set_mair_range
<1>6. Map!set_mair_range(2) = {3}
  <2>1. {c \in 0 .. 2 : (2 \div 2^c) % 2 = 1} = {1}
    BY <1>3, <1>4, Zenon
  <2>2. {2 + b : b \in {1}} = {3}
    OBVIOUS
  <2> QED  BY <2>1, <2>2, Zenon DEF Map!set_mair_range
<1>7. ASSUME NEW e PROVE Map!GibAddr(e) \subseteq 30 .. 38
  BY DEF Map!GibAddr
<1> QED  BY <1>5, <1>6, <1>7

\* The bits of the two block descriptors.
LEMMA Blocks ==
  /\ \A b : b \in Map!BlockDesc(0) <=> b \in {0, 54, 53, 10} \/ b \in Map!GibAddr(0)
  /\ \A b : b \in Map!BlockDesc(1) <=> b \in {0, 3, 54, 10, 8, 9} \/ b \in Map!GibAddr(1)
BY DescriptorBits DEF Map!BlockDesc, Map!mark_block_desc, Map!MAIR_IDX_DEVICE,
   Map!MAIR_IDX_NORMAL_WB, Map!DESC_UXN, Map!DESC_PXN, Map!DESC_AF, Map!DESC_SH_INNER

\* The bytes of MAIR_EL1 that the two indices select.
LEMMA MairBytes == Map!Bits(Mair, 0, 7) = {} /\ Map!Bits(Mair, 16, 23) = 0 .. 7
<1>1. \A b : b \in Mair <=> b \in 16 .. 23 \/ b \in {10, 14}
  <2>1. Map!configure_mair_range({}, 0) = {}
    BY DEF Map!configure_mair_range
  <2>2. Map!configure_mair_range({2, 6}, 1) = {10, 14}
    BY DEF Map!configure_mair_range
  <2>3. Map!configure_mair_range(0 .. 7, 2) = 16 .. 23
    <3>1. \A x \in 16 .. 23 : x - 16 \in 0 .. 7 /\ 8 * 2 + (x - 16) = x
      OBVIOUS
    <3>2. \A b \in 0 .. 7 : 8 * 2 + b \in 16 .. 23
      OBVIOUS
    <3> QED  BY <3>1, <3>2, Zenon DEF Map!configure_mair_range
  <2> QED  BY <2>1, <2>2, <2>3 DEF Mair, Map!MAIR_DEVICE_NGNRNE, Map!MAIR_IDX_DEVICE,
             Map!MAIR_NORMAL_WB, Map!MAIR_IDX_NORMAL_WB, Map!MAIR_NORMAL_NC,
             Map!MAIR_IDX_NORMAL_NC
<1>2. Map!Bits(Mair, 0, 7) = {}
  <2>1. Mair \cap (0 .. 7) = {}
    BY <1>1
  <2> QED  BY <2>1 DEF Map!Bits
<1>3. Map!Bits(Mair, 16, 23) = 0 .. 7
  <2>1. Mair \cap (16 .. 23) = 16 .. 23
    BY <1>1
  <2>2. \A x \in 0 .. 7 : x + 16 \in 16 .. 23 /\ (x + 16) - 16 = x
    OBVIOUS
  <2>3. \A b \in 16 .. 23 : b - 16 \in 0 .. 7
    OBVIOUS
  <2> QED  BY <2>1, <2>2, <2>3, Zenon DEF Map!Bits
<1> QED  BY <1>2, <1>3

\* From the moment the MMU is on, the GiB of the devices is device memory at its own
\* address, and that of the image executable normal memory, whatever memory held.
THEOREM BootEveryAccessMapped == Spec => []EveryAccessMapped
<1>1. ASSUME Mapping, mmu
      PROVE  /\ Map!MappedAs(0, Map!MAIR_DEVICE_NGNRNE)
             /\ Map!MappedAs(1, Map!MAIR_NORMAL_WB) /\ Map!Executable(1)
  <2>1. /\ mair = Mair /\ l0 = TableDesc /\ l1[0] = Map!BlockDesc(0) /\ l1[1] = Map!BlockDesc(1)
        /\ ttbr0 = {12, 28, 30} /\ walk = [l0 |-> l0, l1 |-> l1] /\ tcr = Tcr
    BY <1>1 DEF Mapping, Described, Published
  <2>2. walk.l0 = TableDesc /\ walk.l1[0] = Map!BlockDesc(0) /\ walk.l1[1] = Map!BlockDesc(1)
    BY <2>1
  <2>3. \A b : b \in TableDesc <=> b \in {0, 1, 60, 61, 13, 28, 30}
    BY DEF TableDesc, Map!mark_table_desc, Map!TABLE_UXNTABLE, Map!TABLE_APTABLE0
  <2>4. Map!WalkFromL0
    <3>1. Map!Bits(Tcr, 0, 5) = {4}
      BY DEF Map!Bits, Tcr
    <3>2. Map!Bits(Tcr, 14, 15) = {} /\ 7 \notin Tcr
      BY DEF Map!Bits, Tcr
    <3>3. {0, 1} \subseteq TableDesc /\ TableDesc \cap (12 .. 47) = {13, 28, 30}
      BY <2>3
    <3> QED  BY <2>1, <2>2, <3>1, <3>2, <3>3 DEF Map!WalkFromL0
  <2>5. \A b \in Map!GibAddr(0) \cup Map!GibAddr(1) : b \in 30 .. 38
    BY DescriptorBits
  <2>6. 7 \notin walk.l1[0] /\ 7 \notin walk.l1[1] /\ 62 \notin walk.l0
    BY <2>2, <2>3, <2>5, Blocks
  <2>7. 10 \in walk.l1[0] /\ 10 \in walk.l1[1]
    BY <2>2, Blocks
  <2>8. Map!Bits(walk.l1[0], 0, 1) = {0} /\ Map!Bits(walk.l1[1], 0, 1) = {0}
    BY <2>2, <2>5, Blocks DEF Map!Bits
  <2>9. walk.l1[0] \cap (12 .. 47) = Map!GibAddr(0)
    BY <2>2, <2>5, Blocks
  <2>10. walk.l1[1] \cap (12 .. 47) = Map!GibAddr(1)
    BY <2>2, <2>5, Blocks
  <2>11. Map!AttrOf(walk.l1[0]) = Map!MAIR_DEVICE_NGNRNE
    <3>1. Map!Bits(walk.l1[0], 2, 4) = {}
      BY <2>2, <2>5, Blocks DEF Map!Bits
    <3>2. Map!AttrOf(walk.l1[0]) = Map!Bits(mair, 0, 7)
      BY <3>1 DEF Map!AttrOf
    <3> QED  BY <2>1, <3>2, MairBytes DEF Map!MAIR_DEVICE_NGNRNE
  <2>12. Map!AttrOf(walk.l1[1]) = Map!MAIR_NORMAL_WB
    <3>1. Map!Bits(walk.l1[1], 2, 4) = {1}
      BY <2>2, <2>5, Blocks DEF Map!Bits
    <3>2. Map!AttrOf(walk.l1[1]) = Map!Bits(mair, 16, 23)
      BY <3>1 DEF Map!AttrOf
    <3> QED  BY <2>1, <3>2, MairBytes DEF Map!MAIR_NORMAL_WB
  <2>13. Map!Executable(1)
    BY <2>2, <2>3, <2>5, Blocks DEF Map!Executable
  <2> QED  BY <2>4, <2>6, <2>7, <2>8, <2>9, <2>10, <2>11, <2>12, <2>13 DEF Map!MappedAs
<1>2. Mapping => EveryAccessMapped
  BY <1>1 DEF EveryAccessMapped
<1> QED  BY <1>2, MappingInvariant, PTL

-----------------------------------------------------------------------------
(* The interrupt configuration.                                            *)

\* The enable bits of the two interrupts, where the GIC has them.
UartEnabled == 1 \in gicd[260]
TimerEnabled == 30 \in gicr[256]

\* The devices that a list of them may hold, each at most once.
WithUart == {<<"uart">>, <<"uart", "timer">>, <<"timer", "uart">>}
WithTimer == {<<"timer">>, <<"uart", "timer">>, <<"timer", "uart">>}

\* A device whose setup is still to come, or has not made its last GIC call, has its
\* interrupt disabled; a device is set up once.
SetupOnce ==
  /\ 260 \in DOMAIN gicd /\ 256 \in DOMAIN gicr
  /\ todo \in {<<>>} \cup WithUart \cup WithTimer
  /\ pc = "uart_irq" => todo \notin WithUart /\ call \in 1 .. 5
  /\ pc = "timer_irq" => todo \notin WithTimer /\ call \in 1 .. 4
  /\ todo \in WithUart \/ pc = "uart_irq" => ~UartEnabled
  /\ todo \in WithTimer \/ pc = "timer_irq" => ~TimerEnabled

\* Steps that neither go on to a device nor configure an interrupt.
LEMMA OtherEffect ==
  ASSUME SetupGic \/ SetupMemory \/ Elsewhere \/ Beside \/ UNCHANGED vars
  PROVE  /\ gicd' = gicd /\ gicr' = gicr /\ todo' = todo
         /\ \/ pc' \notin {"uart_irq", "timer_irq"}
            \/ pc' = pc /\ call' = call
<1>1. CASE SetupGic
  BY <1>1 DEF SetupGic, Gic!Setup, Gic!init_gic_distributor, Gic!init_gic_redistributor,
              Gic!redistributor_awake, Gic!SpinUntilNot, Gic!set_priority_mask,
              Gic!enable_grp1_ints
<1>2. CASE SetupMemory
  BY <1>2 DEF SetupMemory, gicVars
<1>3. CASE Elsewhere
  BY <1>3 DEF Elsewhere, init_uart, ConfigureDisable, ConfigureFlush, ConfigureImsc,
              ConfigureEnable, ArmValue, ArmControl, Loop, UartStep, Goto, gicVars
<1>4. CASE Beside
  BY <1>4 DEF Beside, Receive, Expire, ChildrenWake, Gic!ChildrenWake, DoIrqTimer, DoIrqUart,
              gicVars
<1>5. CASE UNCHANGED vars
  BY <1>5 DEF vars, gicVars
<1> QED  BY <1>1, <1>2, <1>3, <1>4, <1>5

\* One GIC call of pl011::setup: only the last one writes the enable register.
LEMMA UartIrqEffect ==
  ASSUME UartIrqSetup, 260 \in DOMAIN gicd, call \in 1 .. 5
  PROVE  /\ gicr' = gicr /\ todo' = todo /\ pc = "uart_irq" /\ call' = call + 1
         /\ DOMAIN gicd' = DOMAIN gicd
         /\ call = 5 => pc' = "init_uart"
         /\ call # 5 => pc' = pc /\ gicd'[260] = gicd[260]
<1> DEFINE c == <<"trigger", "priority", "group", "routing", "enable">>[call]
<1>1. /\ pc = "uart_irq" /\ call' = call + 1 /\ todo' = todo
      /\ pc' = IF call = 5 THEN "init_uart" ELSE "uart_irq"
      /\ SpiCall(c)
  BY DEF UartIrqSetup, CallInTurn
<1>2. call # 5 => c # "enable"
  <2>1. call = 1 \/ call = 2 \/ call = 3 \/ call = 4 \/ call = 5
    OBVIOUS
  <2> QED  BY <2>1
<1> HIDE DEF c
<1>3. /\ 3072 + 4 * (33 \div 16) # 260 /\ 1024 + 4 * (33 \div 4) # 260
      /\ 128 + 4 * (33 \div 32) # 260
  OBVIOUS
<1>4. gicr' = gicr
  BY <1>1 DEF SpiCall, Gic!set_spi_trigger, Gic!set_spi_priority, Gic!set_spi_group,
              Gic!set_spi_routing, Gic!enable_spi, Gic!Distributor
<1>5. DOMAIN gicd' = DOMAIN gicd
  BY <1>1 DEF SpiCall, Gic!set_spi_trigger, Gic!set_spi_priority, Gic!set_spi_group,
              Gic!set_spi_routing, Gic!enable_spi, Gic!Distributor
<1>6. c # "enable" => gicd'[260] = gicd[260]
  BY <1>1, <1>3 DEF SpiCall, Gic!set_spi_trigger, Gic!set_spi_priority, Gic!set_spi_group,
              Gic!set_spi_routing, Gic!RegOf, Gic!PrioRegOf, Gic!GICD_ICFGR,
              Gic!GICD_IPRIORITYR, Gic!GICD_IGROUPR, UartId
<1> QED  BY <1>1, <1>2, <1>4, <1>5, <1>6

\* One GIC call of arch_timer::setup.
LEMMA TimerIrqEffect ==
  ASSUME TimerIrqSetup, 256 \in DOMAIN gicr, call \in 1 .. 4
  PROVE  /\ gicd' = gicd /\ todo' = todo /\ pc = "timer_irq" /\ call' = call + 1
         /\ DOMAIN gicr' = DOMAIN gicr
         /\ call = 4 => pc' = "next"
         /\ call # 4 => pc' = pc /\ gicr'[256] = gicr[256]
<1> DEFINE c == <<"trigger", "priority", "group", "enable">>[call]
<1>1. /\ pc = "timer_irq" /\ call' = call + 1 /\ todo' = todo
      /\ pc' = IF call = 4 THEN "next" ELSE "timer_irq"
      /\ PpiCall(c)
  BY DEF TimerIrqSetup, CallInTurn
<1>2. call # 4 => c # "enable"
  <2>1. call = 1 \/ call = 2 \/ call = 3 \/ call = 4
    OBVIOUS
  <2> QED  BY <2>1
<1> HIDE DEF c
<1>3. 3072 + 4 * (30 \div 16) # 256 /\ 1024 + 4 * (30 \div 4) # 256
  OBVIOUS
<1>4. gicd' = gicd
  BY <1>1 DEF PpiCall, Gic!set_ppi_trigger, Gic!set_ppi_priority, Gic!set_ppi_group,
              Gic!enable_ppi, Gic!Redistributor
<1>5. DOMAIN gicr' = DOMAIN gicr
  BY <1>1 DEF PpiCall, Gic!set_ppi_trigger, Gic!set_ppi_priority, Gic!set_ppi_group,
              Gic!enable_ppi, Gic!Redistributor
<1>6. c # "enable" => gicr'[256] = gicr[256]
  BY <1>1, <1>3 DEF PpiCall, Gic!set_ppi_trigger, Gic!set_ppi_priority, Gic!set_ppi_group,
              Gic!RegOf, Gic!GICR_ICFGR, Gic!GICR_IPRIORITYR, Gic!GICR_IGROUPR0, TimerId
<1> QED  BY <1>1, <1>2, <1>4, <1>5, <1>6

\* The loop takes a device from the list.
LEMMA NextEffect ==
  ASSUME NextDevice, todo \in {<<>>} \cup WithUart \cup WithTimer
  PROVE  /\ gicd' = gicd /\ gicr' = gicr /\ call' = 1
         /\ todo' \in {<<>>} \cup WithUart \cup WithTimer
         /\ todo' \in WithUart => todo \in WithUart
         /\ todo' \in WithTimer => todo \in WithTimer
         /\ pc' = "uart_irq" => todo \in WithUart /\ todo' \notin WithUart
         /\ pc' = "timer_irq" => todo \in WithTimer /\ todo' \notin WithTimer
<1>1. gicd' = gicd /\ gicr' = gicr /\ call' = 1
  BY DEF NextDevice, gicVars
<1>2. CASE todo = <<>>
  BY <1>1, <1>2 DEF NextDevice, Goto
<1>3. CASE todo = <<"uart">>
  <2>1. todo # <<>> /\ Head(todo) = "uart" /\ Tail(todo) = <<>>
    BY <1>3
  <2>2. todo' = <<>> /\ pc' \in {"uart_irq", "init_uart"}
    BY <2>1 DEF NextDevice, Goto
  <2> QED  BY <1>1, <1>3, <2>2 DEF WithUart, WithTimer
<1>4. CASE todo = <<"timer">>
  <2>1. todo # <<>> /\ Head(todo) = "timer" /\ Tail(todo) = <<>>
    BY <1>4
  <2>2. todo' = <<>> /\ pc' \in {"timer_irq", "next"}
    BY <2>1 DEF NextDevice, Goto
  <2> QED  BY <1>1, <1>4, <2>2 DEF WithUart, WithTimer
<1>5. CASE todo = <<"uart", "timer">>
  <2>1. todo # <<>> /\ Head(todo) = "uart" /\ Tail(todo) = <<"timer">>
    BY <1>5
  <2>2. todo' = <<"timer">> /\ pc' \in {"uart_irq", "init_uart"}
    BY <2>1 DEF NextDevice, Goto
  <2> QED  BY <1>1, <1>5, <2>2 DEF WithUart, WithTimer
<1>6. CASE todo = <<"timer", "uart">>
  <2>1. todo # <<>> /\ Head(todo) = "timer" /\ Tail(todo) = <<"uart">>
    BY <1>6
  <2>2. todo' = <<"uart">> /\ pc' \in {"timer_irq", "next"}
    BY <2>1 DEF NextDevice, Goto
  <2> QED  BY <1>1, <1>6, <2>2 DEF WithUart, WithTimer
<1> QED  BY <1>2, <1>3, <1>4, <1>5, <1>6 DEF WithUart, WithTimer

LEMMA SetupOnceInvariant == Spec => []SetupOnce
<1>1. Init => SetupOnce
  <2> SUFFICES ASSUME Init PROVE SetupOnce
    OBVIOUS
  <2>1. PICK w \in ResetWord : /\ gicd = [o \in Gic!GicdOffset |-> w]
                               /\ gicr = [o \in Gic!GicrOffset |-> w]
    BY DEF Init, Gic!Init
  <2>2. 260 \in Gic!GicdOffset
    <3>1. Gic!RegOf(Gic!GICD_ISENABLER, UartId, 32) = 260
      BY DEF Gic!RegOf, Gic!GICD_ISENABLER, UartId
    <3> QED  BY <3>1 DEF Gic!GicdOffset
  <2>3. 256 \in Gic!GicrOffset
    BY DEF Gic!GicrOffset, Gic!GICR_ISENABLER0
  <2>4. 30 \notin w /\ 1 \notin w
    <3>1. UartId % 32 = 1 /\ TimerId = 30
      BY DEF UartId, TimerId
    <3> QED  BY <3>1, FirmwareAssumption
  <2>5. ~UartEnabled /\ ~TimerEnabled
    BY <2>1, <2>2, <2>3, <2>4 DEF UartEnabled, TimerEnabled
  <2>6. todo \in WithUart \cup WithTimer /\ pc = "gic"
    BY DEF Init, WithUart, WithTimer
  <2> QED  BY <2>1, <2>2, <2>3, <2>5, <2>6 DEF SetupOnce
<1>2. SetupOnce /\ [Next]_vars => SetupOnce'
  <2> SUFFICES ASSUME SetupOnce, [Next]_vars PROVE SetupOnce'
    OBVIOUS
  <2>1. CASE SetupGic \/ SetupMemory \/ Elsewhere \/ Beside \/ UNCHANGED vars
    BY <2>1, OtherEffect DEF SetupOnce, UartEnabled, TimerEnabled
  <2>2. CASE NextDevice
    <3>1. /\ gicd' = gicd /\ gicr' = gicr /\ call' = 1
          /\ todo' \in {<<>>} \cup WithUart \cup WithTimer
          /\ todo' \in WithUart => todo \in WithUart
          /\ todo' \in WithTimer => todo \in WithTimer
          /\ pc' = "uart_irq" => todo \in WithUart /\ todo' \notin WithUart
          /\ pc' = "timer_irq" => todo \in WithTimer /\ todo' \notin WithTimer
      BY <2>2, NextEffect DEF SetupOnce
    <3>2. 1 \in 1 .. 5 /\ 1 \in 1 .. 4
      OBVIOUS
    <3> QED  BY <3>1, <3>2 DEF SetupOnce, UartEnabled, TimerEnabled
  <2>3. CASE UartIrqSetup
    <3>1. pc = "uart_irq"
      BY <2>3 DEF UartIrqSetup, CallInTurn
    <3>2. /\ call \in 1 .. 5 /\ 260 \in DOMAIN gicd /\ todo \notin WithUart /\ ~UartEnabled
      BY <3>1 DEF SetupOnce
    <3>3. /\ gicr' = gicr /\ todo' = todo /\ call' = call + 1
          /\ DOMAIN gicd' = DOMAIN gicd
          /\ call = 5 => pc' = "init_uart"
          /\ call # 5 => pc' = pc /\ gicd'[260] = gicd[260]
      BY <2>3, <3>2, UartIrqEffect
    <3>4. call # 5 => call' \in 1 .. 5
      BY <3>2, <3>3
    <3> QED  BY <3>1, <3>2, <3>3, <3>4 DEF SetupOnce, UartEnabled, TimerEnabled
  <2>4. CASE TimerIrqSetup
    <3>1. pc = "timer_irq"
      BY <2>4 DEF TimerIrqSetup, CallInTurn
    <3>2. /\ call \in 1 .. 4 /\ 256 \in DOMAIN gicr /\ todo \notin WithTimer /\ ~TimerEnabled
      BY <3>1 DEF SetupOnce
    <3>3. /\ gicd' = gicd /\ todo' = todo /\ call' = call + 1
          /\ DOMAIN gicr' = DOMAIN gicr
          /\ call = 4 => pc' = "next"
          /\ call # 4 => pc' = pc /\ gicr'[256] = gicr[256]
      BY <2>4, <3>2, TimerIrqEffect
    <3>4. call # 4 => call' \in 1 .. 4
      BY <3>2, <3>3
    <3> QED  BY <3>1, <3>2, <3>3, <3>4 DEF SetupOnce, UartEnabled, TimerEnabled
  <2> QED  BY <2>1, <2>2, <2>3, <2>4, Steps
<1> QED  BY <1>1, <1>2, PTL DEF Spec

\* How the GIC reads the enable bits.
LEMMA EnableBits ==
  /\ Gic!Decoded[UartId].enabled <=> UartEnabled
  /\ Gic!Decoded[TimerId].enabled <=> TimerEnabled
<1>1. 33 % 32 = 1 /\ 256 + 4 * (33 \div 32) = 260
  OBVIOUS
<1>2. Gic!Decoded[UartId] = Gic!SpiConfig(UartId) /\ Gic!Decoded[TimerId] = Gic!PpiConfig(TimerId)
  BY DEF Gic!Decoded, UartId, TimerId
<1>3. Gic!SpiConfig(UartId).enabled <=> UartEnabled
  <2>1. Gic!SpiConfig(UartId).enabled = (1 \in gicd[260])
    BY <1>1 DEF Gic!SpiConfig, UartId
  <2> QED  BY <2>1, Zenon DEF UartEnabled
<1>4. Gic!PpiConfig(TimerId).enabled <=> TimerEnabled
  <2>1. Gic!PpiConfig(TimerId).enabled = (30 \in gicr[256])
    BY DEF Gic!PpiConfig, TimerId
  <2> QED  BY <2>1, Zenon DEF TimerEnabled
<1>5. Gic!Decoded[UartId].enabled <=> UartEnabled
  BY <1>2, <1>3, Zenon
<1>6. Gic!Decoded[TimerId].enabled <=> TimerEnabled
  BY <1>2, <1>4, Zenon
<1> QED  BY <1>5, <1>6

\* An interrupt's configuration depends on the registers of its side of the GIC.
LEMMA ConfigReads ==
  /\ gicd' = gicd => Gic!Decoded'[UartId] = Gic!Decoded[UartId]
  /\ gicr' = gicr => Gic!Decoded'[TimerId] = Gic!Decoded[TimerId]
BY DEF Gic!Decoded, Gic!SpiConfig, Gic!PpiConfig, UartId, TimerId

\* The trigger mode and the group of an interrupt do not change while it is enabled.
THEOREM BootConfiguredBeforeEnabled == Spec => ConfiguredBeforeEnabled
<1>1. SetupOnce /\ [Next]_vars =>
        [\A i \in Irqs : Gic!Decoded[i].enabled =>
           /\ Gic!Decoded'[i].trigger = Gic!Decoded[i].trigger
           /\ Gic!Decoded'[i].group1 = Gic!Decoded[i].group1]_vars
  <2> SUFFICES ASSUME SetupOnce, [Next]_vars,
                      NEW i \in Irqs, Gic!Decoded[i].enabled
               PROVE  Gic!Decoded'[i] = Gic!Decoded[i]
    OBVIOUS
  <2>1. UartEnabled => gicd' = gicd
    <3>1. CASE SetupGic \/ SetupMemory \/ Elsewhere \/ Beside \/ UNCHANGED vars
      BY <3>1, OtherEffect
    <3>2. CASE NextDevice
      BY <3>2 DEF NextDevice, gicVars
    <3>3. CASE UartIrqSetup
      BY <3>3 DEF UartIrqSetup, CallInTurn, SetupOnce
    <3>4. CASE TimerIrqSetup
      BY <3>4 DEF TimerIrqSetup, PpiCall, Gic!set_ppi_trigger, Gic!set_ppi_priority,
                  Gic!set_ppi_group, Gic!enable_ppi, Gic!Redistributor
    <3> QED  BY <3>1, <3>2, <3>3, <3>4, Steps
  <2>2. TimerEnabled => gicr' = gicr
    <3>1. CASE SetupGic \/ SetupMemory \/ Elsewhere \/ Beside \/ UNCHANGED vars
      BY <3>1, OtherEffect
    <3>2. CASE NextDevice
      BY <3>2 DEF NextDevice, gicVars
    <3>3. CASE UartIrqSetup
      BY <3>3 DEF UartIrqSetup, SpiCall, Gic!set_spi_trigger, Gic!set_spi_priority,
                  Gic!set_spi_group, Gic!set_spi_routing, Gic!enable_spi, Gic!Distributor
    <3>4. CASE TimerIrqSetup
      BY <3>4 DEF TimerIrqSetup, CallInTurn, SetupOnce
    <3> QED  BY <3>1, <3>2, <3>3, <3>4, Steps
  <2>3. CASE i = UartId
    BY <2>1, <2>3, EnableBits, ConfigReads
  <2>4. CASE i = TimerId
    BY <2>2, <2>4, EnableBits, ConfigReads
  <2> QED  BY <2>3, <2>4 DEF Irqs
<1> QED  BY <1>1, SetupOnceInvariant, PTL DEF Spec, ConfiguredBeforeEnabled

=============================================================================
