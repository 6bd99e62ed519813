---------------------------- MODULE Gicv3Proofs ----------------------------
(***************************************************************************)
(* The shifts, masks and offsets of the GIC driver, for every set of PPIs  *)
(* and SPIs, every set of priorities and every contents of the registers   *)
(* at reset: a call changes one field of one interrupt.                    *)
(***************************************************************************)
EXTENDS Gicv3, Integers, TLAPS

Word == SUBSET (0 .. 31)

-----------------------------------------------------------------------------
(* Setup waits for the redistributor.                                      *)

\* ProcessorSleep is only set before the redistributor was told to wake up.
Waking ==
  /\ phase \in {"wait", "pmr", "igrpen1", "ready"} => GICR_WAKER_PSLEEP \notin waker
  /\ phase \in {"pmr", "igrpen1", "ready"} => GICR_WAKER_CASLEEP \notin waker

\* No interrupt is configured, and none signalled, before ChildrenAsleep is clear.
THEOREM GicAwakeWhenReady == Spec => []AwakeWhenReady
<1> USE DEF GICR_WAKER_PSLEEP, GICR_WAKER_CASLEEP
<1>1. Init => Waking
  BY DEF Init, Waking
<1>2. Waking /\ [Next]_vars => Waking'
  <2> SUFFICES ASSUME Waking, [Next]_vars PROVE Waking'
    OBVIOUS
  <2>1. CASE init_gic_distributor
    BY <2>1 DEF init_gic_distributor, Phase, Waking
  <2>2. CASE init_gic_redistributor
    BY <2>2 DEF init_gic_redistributor, Phase, clear_mmio_bits32, Waking
  <2>3. CASE ChildrenWake
    BY <2>3 DEF ChildrenWake, Waking
  <2>4. CASE redistributor_awake
    BY <2>4 DEF redistributor_awake, SpinUntilNot, Phase, Waking
  <2>5. CASE set_priority_mask(255) \/ enable_grp1_ints
    BY <2>5 DEF set_priority_mask, enable_grp1_ints, Phase, Waking
  <2>6. CASE UNCHANGED <<phase, waker>>
    BY <2>6 DEF Waking
  <2>7. ASSUME NEW id \in PpiId, ConfigurePpi(id) PROVE UNCHANGED <<phase, waker>>
    BY <2>7 DEF ConfigurePpi, set_ppi_priority, set_ppi_trigger, set_ppi_group,
                enable_ppi, Redistributor, controlVars
  <2>8. ASSUME NEW id \in SpiId, ConfigureSpi(id) PROVE UNCHANGED <<phase, waker>>
    BY <2>8 DEF ConfigureSpi, set_spi_priority, set_spi_trigger, set_spi_group,
                enable_spi, set_spi_routing, Distributor, controlVars
  <2>9. CASE UNCHANGED vars
    BY <2>6, <2>9 DEF vars
  <2> QED  BY <2>1, <2>2, <2>3, <2>4, <2>5, <2>6, <2>7, <2>8, <2>9 DEF Next, Setup
<1>3. Waking => AwakeWhenReady
  BY DEF Waking, AwakeWhenReady
<1> QED  BY <1>1, <1>2, <1>3, PTL DEF Spec

-----------------------------------------------------------------------------
(* Fields of a register.                                                   *)

\* Replacing a field sets its bits to those of the value and leaves the others alone.
LEMMA ReplaceBit ==
  ASSUME NEW reg, NEW s \in Nat, NEW w \in Nat, NEW val \in SUBSET (0 .. w - 1),
         NEW k \in Int
  PROVE  k \in Replace(reg, s, w, val) <=>
           IF s <= k /\ k < s + w THEN k - s \in val ELSE k \in reg
<1>1. k \in Field(s, w) <=> s <= k /\ k < s + w
  BY DEF Field
<1>2. k \in {s + b : b \in val} <=> k - s \in val
  <2>1. ASSUME NEW b \in val, k = s + b PROVE k - s \in val
    <3>1. b \in Int /\ k - s = b
      BY <2>1
    <3> QED  BY <3>1
  <2>2. ASSUME k - s \in val PROVE \E b \in val : k = s + b
    <3>1. k = s + (k - s)
      OBVIOUS
    <3> QED  BY <2>2, <3>1
  <2> QED  BY <2>1, <2>2
<1>3. k - s \in val => s <= k /\ k < s + w
  OBVIOUS
<1> QED  BY <1>1, <1>2, <1>3 DEF Replace

\* A field reads as the value it was given.
LEMMA FieldOfReplace ==
  ASSUME NEW reg, NEW s \in Nat, NEW w \in Nat, NEW val \in SUBSET (0 .. w - 1)
  PROVE  FieldAt(Replace(reg, s, w, val), s, w) = val
<1>1. ASSUME NEW b \in 0 .. w - 1
      PROVE  s + b \in Replace(reg, s, w, val) <=> b \in val
  <2>1. s + b \in Int /\ s <= s + b /\ s + b < s + w /\ (s + b) - s = b
    OBVIOUS
  <2> QED  BY <2>1, ReplaceBit
<1> QED  BY <1>1 DEF FieldAt

\* A field next to a replaced one reads as before.
LEMMA FieldBesideReplace ==
  ASSUME NEW reg, NEW s \in Nat, NEW w \in Nat, NEW val \in SUBSET (0 .. w - 1),
         NEW t \in Nat, t + w <= s \/ s + w <= t
  PROVE  FieldAt(Replace(reg, s, w, val), t, w) = FieldAt(reg, t, w)
<1>1. ASSUME NEW b \in 0 .. w - 1
      PROVE  t + b \in Replace(reg, s, w, val) <=> t + b \in reg
  <2>1. t + b \in Int /\ ~(s <= t + b /\ t + b < s + w)
    OBVIOUS
  <2> QED  BY <2>1, ReplaceBit
<1> QED  BY <1>1 DEF FieldAt

-----------------------------------------------------------------------------
(* Offsets.                                                                *)

\* The positions of an interrupt's fields.
LEMMA Ranges ==
  ASSUME NEW i \in 0 .. 1019
  PROVE  /\ i % 4 \in 0 .. 3 /\ i % 16 \in 0 .. 15 /\ i % 32 \in 0 .. 31
         /\ i \div 4 \in 0 .. 254 /\ i \div 16 \in 0 .. 63 /\ i \div 32 \in 0 .. 31
OBVIOUS

-----------------------------------------------------------------------------
(* The registers stay registers.                                           *)

Registers == gicd \in [GicdOffset -> Word] /\ gicr \in [GicrOffset -> Word]

\* The registers of an interrupt are among those the drivers use.
LEMMA SpiOffsets ==
  ASSUME NEW id \in SpiId
  PROVE  /\ id \in 0 .. 1019
         /\ RegOf(GICD_IGROUPR, id, 32) \in GicdOffset
         /\ RegOf(GICD_ISENABLER, id, 32) \in GicdOffset
         /\ RegOf(GICD_IPRIORITYR, id, 4) \in GicdOffset
         /\ RegOf(GICD_ICFGR, id, 16) \in GicdOffset
BY IdAssumption DEF GicdOffset

\* A PPI's bit in the one register of groups and in that of enables is its INTID.
LEMMA PpiOffsets ==
  ASSUME NEW id \in PpiId
  PROVE  /\ id \in 0 .. 31
         /\ GICR_IGROUPR0 \in GicrOffset
         /\ GICR_ISENABLER0 \in GicrOffset
         /\ RegOf(GICR_IPRIORITYR, id, 4) \in GicrOffset
         /\ RegOf(GICR_ICFGR, id, 16) \in GicrOffset
BY IdAssumption DEF GicrOffset

\* A field that fits the register leaves a register.
LEMMA ReplaceType ==
  ASSUME NEW reg \in Word, NEW s \in Nat, NEW w \in Nat, s + w <= 32,
         NEW val \in SUBSET (0 .. w - 1)
  PROVE  Replace(reg, s, w, val) \in Word
<1>1. ASSUME NEW b \in val PROVE s + b \in 0 .. 31
  <2>1. b \in 0 .. w - 1
    OBVIOUS
  <2> QED  BY <2>1
<1> QED  BY <1>1 DEF Replace, Word

\* A priority is a byte of its register and a trigger mode a pair of bits.
LEMMA FieldsFit ==
  ASSUME NEW id \in 0 .. 1019, NEW reg \in Word
  PROVE  /\ \A p \in Prio : Replace(reg, (id % 4) * 8, 8, p) \in Word
         /\ \A t \in {Level, Edge} : Replace(reg, (id % 16) * 2, 2, t) \in Word
         /\ reg \cup {id % 32} \in Word
<1>1. /\ (id % 4) * 8 \in Nat /\ (id % 4) * 8 + 8 <= 32
      /\ (id % 16) * 2 \in Nat /\ (id % 16) * 2 + 2 <= 32
      /\ id % 32 \in 0 .. 31
  BY Ranges
<1>2. \A p \in Prio : p \in SUBSET (0 .. 8 - 1)
  BY ValueAssumption
<1>3. \A t \in {Level, Edge} : t \in SUBSET (0 .. 2 - 1)
  BY DEF Level, Edge
<1>4. \A p \in Prio : Replace(reg, (id % 4) * 8, 8, p) \in Word
  BY <1>1, <1>2, ReplaceType
<1>5. \A t \in {Level, Edge} : Replace(reg, (id % 16) * 2, 2, t) \in Word
  BY <1>1, <1>3, ReplaceType
<1> QED  BY <1>1, <1>4, <1>5 DEF Word

\* No call sets a bit outside the 32 of a register.
LEMMA RegistersInvariant == Spec => []Registers
<1>1. Init => Registers
  BY ValueAssumption DEF Init, Registers, Word
<1>2. Registers /\ [Next]_vars => Registers'
  <2> SUFFICES ASSUME Registers, [Next]_vars PROVE Registers'
    OBVIOUS
  <2>1. CASE UNCHANGED <<gicd, gicr>>
    BY <2>1 DEF Registers
  <2>2. ASSUME NEW id \in PpiId, ConfigurePpi(id) PROVE Registers'
    <3>1. id \in 0 .. 1019 /\ id \in 0 .. 31 /\ gicd' = gicd
      BY <2>2, PpiOffsets DEF ConfigurePpi, set_ppi_priority, set_ppi_trigger,
         set_ppi_group, enable_ppi, Redistributor
    <3>2. ASSUME NEW p \in Prio, set_ppi_priority(id, p) PROVE Registers'
      BY <3>1, <3>2, FieldsFit, PpiOffsets DEF set_ppi_priority, Registers
    <3>3. ASSUME NEW t \in {Level, Edge}, set_ppi_trigger(id, t) PROVE Registers'
      BY <3>1, <3>3, FieldsFit, PpiOffsets DEF set_ppi_trigger, Registers
    <3>4. \A reg \in Word : reg \cup {id} \in Word
      BY <3>1 DEF Word
    <3>5. CASE set_ppi_group(id)
      BY <3>1, <3>4, <3>5, PpiOffsets DEF set_ppi_group, set_mmio_bits32, Registers
    <3>6. CASE enable_ppi(id)
      BY <3>1, <3>4, <3>6, PpiOffsets DEF enable_ppi, set_mmio_bits32, Registers
    <3> QED  BY <2>2, <3>2, <3>3, <3>5, <3>6 DEF ConfigurePpi
  <2>3. ASSUME NEW id \in SpiId, ConfigureSpi(id) PROVE Registers'
    <3>1. id \in 0 .. 1019 /\ gicr' = gicr
      BY <2>3, SpiOffsets DEF ConfigureSpi, set_spi_priority, set_spi_trigger,
         set_spi_group, enable_spi, set_spi_routing, Distributor
    <3>2. ASSUME NEW p \in Prio, set_spi_priority(id, p) PROVE Registers'
      BY <3>1, <3>2, FieldsFit, SpiOffsets DEF set_spi_priority, PrioRegOf, Registers
    <3>3. ASSUME NEW t \in {Level, Edge}, set_spi_trigger(id, t) PROVE Registers'
      BY <3>1, <3>3, FieldsFit, SpiOffsets DEF set_spi_trigger, Registers
    <3>4. CASE set_spi_group(id)
      BY <3>1, <3>4, FieldsFit, SpiOffsets DEF set_spi_group, set_mmio_bits32, Registers
    <3>5. CASE enable_spi(id)
      BY <3>1, <3>5, FieldsFit, SpiOffsets DEF enable_spi, Registers
    <3>6. ASSUME NEW a \in Affinity, set_spi_routing(id, a) PROVE Registers'
      BY <3>6 DEF set_spi_routing, Registers
    <3> QED  BY <2>3, <3>2, <3>3, <3>4, <3>5, <3>6 DEF ConfigureSpi
  <2>4. CASE Setup \/ ChildrenWake \/ UNCHANGED vars
    BY <2>1, <2>4 DEF Setup, init_gic_distributor, init_gic_redistributor,
       redistributor_awake, SpinUntilNot, set_priority_mask, enable_grp1_ints,
       ChildrenWake, vars
  <2> QED  BY <2>2, <2>3, <2>4 DEF Next
<1> QED  BY <1>1, <1>2, PTL DEF Spec

-----------------------------------------------------------------------------
(* A write and the fields of the other interrupts of the register.         *)

\* A trigger mode, at position b, after that at position a was written.
LEMMA TriggerWritten ==
  ASSUME NEW a \in 0 .. 15, NEW b \in 0 .. 15, NEW reg, NEW t \in {Level, Edge},
         NEW s, NEW k, s = a * 2, k = 2 * b + 1
  PROVE  /\ a = b => (k \in Replace(reg, s, 2, t) <=> t = Edge)
         /\ a # b => (k \in Replace(reg, s, 2, t) <=> k \in reg)
<1>1. t \in SUBSET (0 .. 2 - 1) /\ (1 \in t <=> t = Edge)
  BY DEF Level, Edge
<1>2. /\ s \in Nat /\ k \in Int
      /\ (s <= k /\ k < s + 2) <=> a = b
      /\ a = b => k - s = 1
  OBVIOUS
<1>3. k \in Replace(reg, s, 2, t) <=>
        IF s <= k /\ k < s + 2 THEN k - s \in t ELSE k \in reg
  BY <1>1, <1>2, ReplaceBit
<1> QED  BY <1>1, <1>2, <1>3

\* A priority, in byte b, after that in byte a was written.
LEMMA PriorityWritten ==
  ASSUME NEW a \in 0 .. 3, NEW b \in 0 .. 3, NEW reg, NEW p \in Prio,
         NEW s, NEW r, s = a * 8, r = 8 * b
  PROVE  /\ a = b => FieldAt(Replace(reg, s, 8, p), r, 8) = p
         /\ a # b => FieldAt(Replace(reg, s, 8, p), r, 8) = FieldAt(reg, r, 8)
<1>1. p \in SUBSET (0 .. 8 - 1)
  BY ValueAssumption
<1>2. /\ s \in Nat /\ r \in Nat
      /\ a = b => s = r
      /\ a # b => r + 8 <= s \/ s + 8 <= r
  OBVIOUS
<1>3. CASE a = b
  BY <1>1, <1>2, <1>3, FieldOfReplace
<1>4. CASE a # b
  BY <1>1, <1>2, <1>4, FieldBesideReplace
<1> QED  BY <1>3, <1>4

-----------------------------------------------------------------------------
(* One call, one field of one interrupt.                                   *)

\* The configuration that four registers hold: the trigger mode at bit edge, the
\* priority at bit shift, group and enable at bit.
Read(icfgr, ipriorityr, igroupr, isenabler, edge, shift, bit) ==
  [trigger  |-> IF edge \in icfgr THEN "edge" ELSE "level",
   priority |-> FieldAt(ipriorityr, shift, 8),
   group1   |-> bit \in igroupr,
   enabled  |-> bit \in isenabler]

\* A configuration with one field changed.
WithTrigger(c, t) == [c EXCEPT !.trigger = IF t = Edge THEN "edge" ELSE "level"]
WithPriority(c, p) == [c EXCEPT !.priority = p]
WithGroup(c) == [c EXCEPT !.group1 = TRUE]
WithEnable(c) == [c EXCEPT !.enabled = TRUE]

\* A bit that is set reads as TRUE.
LEMMA ReadSetBit ==
  ASSUME NEW c, NEW p, NEW g, NEW e, NEW edge, NEW shift, NEW bit, NEW reg, bit \in reg
  PROVE  /\ Read(c, p, reg, e, edge, shift, bit) =
              WithGroup(Read(c, p, g, e, edge, shift, bit))
         /\ Read(c, p, g, reg, edge, shift, bit) =
              WithEnable(Read(c, p, g, e, edge, shift, bit))
<1> DEFINE t == IF edge \in c THEN "edge" ELSE "level"
           prio == FieldAt(p, shift, 8)
<1>1. (bit \in reg) = TRUE
  OBVIOUS
<1>2. \A x : [trigger |-> t, priority |-> prio, group1 |-> x, enabled |-> bit \in e] =
            [Read(c, p, g, e, edge, shift, bit) EXCEPT !.group1 = x]
  BY DEF Read
<1>3. \A x : [trigger |-> t, priority |-> prio, group1 |-> bit \in g, enabled |-> x] =
            [Read(c, p, g, e, edge, shift, bit) EXCEPT !.enabled = x]
  BY DEF Read
<1>4. Read(c, p, reg, e, edge, shift, bit) =
        WithGroup(Read(c, p, g, e, edge, shift, bit))
  BY <1>1, <1>2 DEF Read, WithGroup
<1>5. Read(c, p, g, reg, edge, shift, bit) =
        WithEnable(Read(c, p, g, e, edge, shift, bit))
  BY <1>1, <1>3 DEF Read, WithEnable
<1> QED  BY <1>4, <1>5

\* A trigger mode that was written reads as what was written.
LEMMA ReadTrigger ==
  ASSUME NEW c, NEW p, NEW g, NEW e, NEW edge, NEW shift, NEW bit, NEW reg, NEW t,
         edge \in reg <=> t = Edge
  PROVE  Read(reg, p, g, e, edge, shift, bit) =
           WithTrigger(Read(c, p, g, e, edge, shift, bit), t)
BY DEF Read, WithTrigger

\* So does a priority.
LEMMA ReadPriority ==
  ASSUME NEW c, NEW p, NEW g, NEW e, NEW edge, NEW shift, NEW bit, NEW reg
  PROVE  Read(c, reg, g, e, edge, shift, bit) =
           WithPriority(Read(c, p, g, e, edge, shift, bit), FieldAt(reg, shift, 8))
BY DEF Read, WithPriority

-----------------------------------------------------------------------------
(* Two interrupts that share a register.                                   *)

\* Where the fields of an interrupt are: the offsets of its four registers, the bits of
\* its trigger mode, the byte of its priority, the bit of its group and its enable.
Place == [c : Int, p : Int, g : Int, e : Int, pair : 0 .. 15, byte : 0 .. 3, bit : 0 .. 31]

\* The fields at x and those at y do not overlap, unless x is y.
Apart(x, y) ==
  /\ x \in Place /\ y \in Place
  /\ y.c \notin {x.p, x.g, x.e} /\ y.p \notin {x.c, x.g, x.e}
  /\ y.g \notin {x.c, x.p, x.e} /\ y.e \notin {x.c, x.p, x.g}
  /\ x # y => /\ y.c = x.c => y.pair # x.pair
              /\ y.p = x.p => y.byte # x.byte
              /\ y.g = x.g => y.bit # x.bit
              /\ y.e = x.e => y.bit # x.bit

\* The registers at y are among the offsets.
Within(y, offsets) == {y.c, y.p, y.g, y.e} \subseteq offsets

ReadAt(regs, y) ==
  Read(regs[y.c], regs[y.p], regs[y.g], regs[y.e], 2 * y.pair + 1, 8 * y.byte, y.bit)

\* Writing a field at x leaves the configuration at y alone, or changes that field.
LEMMA Written ==
  ASSUME NEW regs, NEW offsets, regs \in [offsets -> Word], NEW after, NEW x, NEW y,
         Apart(x, y), Within(y, offsets)
  PROVE  /\ \A p \in Prio :
              after = [regs EXCEPT ![x.p] = Replace(@, x.byte * 8, 8, p)] =>
                ReadAt(after, y) = IF y = x THEN WithPriority(ReadAt(regs, y), p)
                                   ELSE ReadAt(regs, y)
         /\ \A t \in {Level, Edge} :
              after = [regs EXCEPT ![x.c] = Replace(@, x.pair * 2, 2, t)] =>
                ReadAt(after, y) = IF y = x THEN WithTrigger(ReadAt(regs, y), t)
                                   ELSE ReadAt(regs, y)
         /\ after = [regs EXCEPT ![x.g] = @ \cup {x.bit}] =>
              ReadAt(after, y) = IF y = x THEN WithGroup(ReadAt(regs, y))
                                 ELSE ReadAt(regs, y)
         /\ after = [regs EXCEPT ![x.e] = @ \cup {x.bit}] =>
              ReadAt(after, y) = IF y = x THEN WithEnable(ReadAt(regs, y))
                                 ELSE ReadAt(regs, y)
<1> DEFINE edge == 2 * y.pair + 1
           shift == 8 * y.byte
<1>1. /\ x.pair \in 0 .. 15 /\ y.pair \in 0 .. 15 /\ x.byte \in 0 .. 3 /\ y.byte \in 0 .. 3
      /\ x \in Place /\ y \in Place
  BY DEF Apart, Place
<1>2. y.c \in offsets /\ y.p \in offsets /\ y.g \in offsets /\ y.e \in offsets
  BY DEF Within
<1>3. /\ y.c \notin {x.p, x.g, x.e} /\ y.p \notin {x.c, x.g, x.e}
      /\ y.g \notin {x.c, x.p, x.e} /\ y.e \notin {x.c, x.p, x.g}
  BY DEF Apart
<1>4. y # x => /\ y.c = x.c => y.pair # x.pair
               /\ y.p = x.p => y.byte # x.byte
               /\ y.g = x.g => y.bit # x.bit
               /\ y.e = x.e => y.bit # x.bit
  BY DEF Apart
<1>5. /\ ReadAt(regs, y) =
           Read(regs[y.c], regs[y.p], regs[y.g], regs[y.e], edge, shift, y.bit)
      /\ ReadAt(after, y) =
           Read(after[y.c], after[y.p], after[y.g], after[y.e], edge, shift, y.bit)
  BY DEF ReadAt
<1>6. edge = 2 * y.pair + 1 /\ shift = 8 * y.byte
  OBVIOUS
<1> HIDE DEF edge, shift
<1>7. ASSUME NEW p \in Prio, after = [regs EXCEPT ![x.p] = Replace(@, x.byte * 8, 8, p)]
      PROVE  ReadAt(after, y) = IF y = x THEN WithPriority(ReadAt(regs, y), p)
                                ELSE ReadAt(regs, y)
  <2>1. after[y.c] = regs[y.c] /\ after[y.g] = regs[y.g] /\ after[y.e] = regs[y.e]
    BY <1>2, <1>3, <1>7
  <2>2. CASE y = x
    <3>1. after[y.p] = Replace(regs[y.p], x.byte * 8, 8, p)
      BY <1>2, <1>7, <2>2
    <3>2. FieldAt(after[y.p], shift, 8) = p
      BY <1>1, <1>6, <2>2, <3>1, PriorityWritten
    <3>3. Read(regs[y.c], after[y.p], regs[y.g], regs[y.e], edge, shift, y.bit) =
            WithPriority(ReadAt(regs, y), p)
      BY <1>5, <3>2, ReadPriority
    <3> QED  BY <1>5, <2>1, <2>2, <3>3
  <2>3. CASE y # x
    <3>1. CASE y.p # x.p
      BY <1>2, <1>5, <1>7, <2>1, <2>3, <3>1
    <3>2. CASE y.p = x.p
      <4>1. after[y.p] = Replace(regs[y.p], x.byte * 8, 8, p)
        BY <1>2, <1>7, <3>2
      <4>2. FieldAt(after[y.p], shift, 8) = FieldAt(regs[y.p], shift, 8)
        BY <1>1, <1>4, <1>6, <2>3, <3>2, <4>1, PriorityWritten
      <4> QED  BY <1>5, <2>1, <2>3, <4>2 DEF Read
    <3> QED  BY <3>1, <3>2
  <2> QED  BY <2>2, <2>3
<1>8. ASSUME NEW t \in {Level, Edge},
             after = [regs EXCEPT ![x.c] = Replace(@, x.pair * 2, 2, t)]
      PROVE  ReadAt(after, y) = IF y = x THEN WithTrigger(ReadAt(regs, y), t)
                                ELSE ReadAt(regs, y)
  <2>1. after[y.p] = regs[y.p] /\ after[y.g] = regs[y.g] /\ after[y.e] = regs[y.e]
    BY <1>2, <1>3, <1>8
  <2>2. CASE y = x
    <3>1. after[y.c] = Replace(regs[y.c], x.pair * 2, 2, t)
      BY <1>2, <1>8, <2>2
    <3>2. edge \in after[y.c] <=> t = Edge
      BY <1>1, <1>6, <2>2, <3>1, TriggerWritten
    <3>3. Read(after[y.c], regs[y.p], regs[y.g], regs[y.e], edge, shift, y.bit) =
            WithTrigger(ReadAt(regs, y), t)
      BY <1>5, <3>2, ReadTrigger
    <3> QED  BY <1>5, <2>1, <2>2, <3>3
  <2>3. CASE y # x
    <3>1. CASE y.c # x.c
      BY <1>2, <1>5, <1>8, <2>1, <2>3, <3>1
    <3>2. CASE y.c = x.c
      <4>1. after[y.c] = Replace(regs[y.c], x.pair * 2, 2, t)
        BY <1>2, <1>8, <3>2
      <4>2. edge \in after[y.c] <=> edge \in regs[y.c]
        BY <1>1, <1>4, <1>6, <2>3, <3>2, <4>1, TriggerWritten
      <4> QED  BY <1>5, <2>1, <2>3, <4>2 DEF Read
    <3> QED  BY <3>1, <3>2
  <2> QED  BY <2>2, <2>3
<1>9. ASSUME after = [regs EXCEPT ![x.g] = @ \cup {x.bit}]
      PROVE  ReadAt(after, y) = IF y = x THEN WithGroup(ReadAt(regs, y))
                                ELSE ReadAt(regs, y)
  <2>1. after[y.c] = regs[y.c] /\ after[y.p] = regs[y.p] /\ after[y.e] = regs[y.e]
    BY <1>2, <1>3, <1>9
  <2>2. CASE y = x
    <3>1. y.bit \in after[y.g]
      BY <1>2, <1>9, <2>2
    <3>2. Read(regs[y.c], regs[y.p], after[y.g], regs[y.e], edge, shift, y.bit) =
            WithGroup(ReadAt(regs, y))
      BY <1>5, <3>1, ReadSetBit
    <3> QED  BY <1>5, <2>1, <2>2, <3>2
  <2>3. CASE y # x
    <3>1. y.bit \in after[y.g] <=> y.bit \in regs[y.g]
      BY <1>2, <1>4, <1>9, <2>3
    <3> QED  BY <1>5, <2>1, <2>3, <3>1 DEF Read
  <2> QED  BY <2>2, <2>3
<1>10. ASSUME after = [regs EXCEPT ![x.e] = @ \cup {x.bit}]
       PROVE  ReadAt(after, y) = IF y = x THEN WithEnable(ReadAt(regs, y))
                                 ELSE ReadAt(regs, y)
  <2>1. after[y.c] = regs[y.c] /\ after[y.p] = regs[y.p] /\ after[y.g] = regs[y.g]
    BY <1>2, <1>3, <1>10
  <2>2. CASE y = x
    <3>1. y.bit \in after[y.e]
      BY <1>2, <1>10, <2>2
    <3>2. Read(regs[y.c], regs[y.p], regs[y.g], after[y.e], edge, shift, y.bit) =
            WithEnable(ReadAt(regs, y))
      BY <1>5, <3>1, ReadSetBit
    <3> QED  BY <1>5, <2>1, <2>2, <3>2
  <2>3. CASE y # x
    <3>1. y.bit \in after[y.e] <=> y.bit \in regs[y.e]
      BY <1>2, <1>4, <1>10, <2>3
    <3> QED  BY <1>5, <2>1, <2>3, <3>1 DEF Read
  <2> QED  BY <2>2, <2>3
<1> QED  BY <1>7, <1>8, <1>9, <1>10

-----------------------------------------------------------------------------
(* The places of the PPIs in the redistributor, of the SPIs in the         *)
(* distributor.                                                            *)

SpiPlace(id) ==
  [c |-> RegOf(GICD_ICFGR, id, 16), p |-> RegOf(GICD_IPRIORITYR, id, 4),
   g |-> RegOf(GICD_IGROUPR, id, 32), e |-> RegOf(GICD_ISENABLER, id, 32),
   pair |-> id % 16, byte |-> id % 4, bit |-> id % 32]

PpiPlace(id) ==
  [c |-> RegOf(GICR_ICFGR, id, 16), p |-> RegOf(GICR_IPRIORITYR, id, 4),
   g |-> GICR_IGROUPR0, e |-> GICR_ISENABLER0,
   pair |-> id % 16, byte |-> id % 4, bit |-> id]

\* No two SPIs share a bit: the offsets and the positions the driver computes.
LEMMA SpiPlaces ==
  ASSUME NEW i \in SpiId, NEW j \in SpiId
  PROVE  Apart(SpiPlace(i), SpiPlace(j)) /\ (SpiPlace(j) = SpiPlace(i) <=> j = i)
<1>0. i \in 0 .. 1019 /\ j \in 0 .. 1019
  BY SpiOffsets
<1>1. SpiPlace(i) \in Place /\ SpiPlace(j) \in Place
  BY <1>0, Ranges DEF SpiPlace, Place, RegOf, GICD_IGROUPR, GICD_ISENABLER, GICD_IPRIORITYR,
                GICD_ICFGR
<1>2. ASSUME SpiPlace(j) = SpiPlace(i) PROVE j = i
  <2>1. /\ SpiPlace(j).p = SpiPlace(i).p
        /\ SpiPlace(j).byte = SpiPlace(i).byte
    BY <1>2
  <2>2. j % 4 = i % 4 /\ RegOf(GICD_IPRIORITYR, j, 4) = RegOf(GICD_IPRIORITYR, i, 4)
    BY <2>1 DEF SpiPlace
  <2>3. j \div 4 = i \div 4
    BY <1>0, <2>2, Ranges DEF RegOf, GICD_IPRIORITYR
  <2> QED  BY <1>0, <2>2, <2>3
<1>3. LET x == SpiPlace(i)
          y == SpiPlace(j)
      IN  /\ y.c \notin {x.p, x.g, x.e} /\ y.p \notin {x.c, x.g, x.e}
          /\ y.g \notin {x.c, x.p, x.e} /\ y.e \notin {x.c, x.p, x.g}
  BY <1>0, Ranges DEF SpiPlace, RegOf, GICD_IGROUPR, GICD_ISENABLER, GICD_IPRIORITYR, GICD_ICFGR
<1>4. ASSUME i # j
      PROVE  LET x == SpiPlace(i)
                 y == SpiPlace(j)
             IN  /\ y.c = x.c => y.pair # x.pair
                 /\ y.p = x.p => y.byte # x.byte
                 /\ y.g = x.g => y.bit # x.bit
                 /\ y.e = x.e => y.bit # x.bit
  <2>1. /\ RegOf(GICD_ICFGR, j, 16) = RegOf(GICD_ICFGR, i, 16) => j \div 16 = i \div 16
        /\ RegOf(GICD_IPRIORITYR, j, 4) = RegOf(GICD_IPRIORITYR, i, 4) => j \div 4 = i \div 4
        /\ RegOf(GICD_IGROUPR, j, 32) = RegOf(GICD_IGROUPR, i, 32) => j \div 32 = i \div 32
        /\ RegOf(GICD_ISENABLER, j, 32) = RegOf(GICD_ISENABLER, i, 32) =>
             j \div 32 = i \div 32
    BY <1>0, Ranges DEF RegOf, GICD_IGROUPR, GICD_ISENABLER, GICD_IPRIORITYR, GICD_ICFGR
  <2>2. /\ j \div 16 = i \div 16 => j % 16 # i % 16
        /\ j \div 4 = i \div 4 => j % 4 # i % 4
        /\ j \div 32 = i \div 32 => j % 32 # i % 32
    BY <1>0, <1>4
  <2> QED  BY <2>1, <2>2 DEF SpiPlace
<1> QED  BY <1>1, <1>2, <1>3, <1>4 DEF Apart

\* No two PPIs share a bit.
LEMMA PpiPlaces ==
  ASSUME NEW i \in 0 .. 31, NEW j \in 0 .. 31
  PROVE  Apart(PpiPlace(i), PpiPlace(j)) /\ (PpiPlace(j) = PpiPlace(i) <=> j = i)
<1>1. PpiPlace(i) \in Place /\ PpiPlace(j) \in Place
  BY Ranges DEF PpiPlace, Place, RegOf, GICR_IGROUPR0, GICR_ISENABLER0, GICR_IPRIORITYR,
                GICR_ICFGR
<1>2. PpiPlace(j) = PpiPlace(i) => j = i
  BY DEF PpiPlace
<1>3. LET x == PpiPlace(i)
          y == PpiPlace(j)
      IN  /\ y.c \notin {x.p, x.g, x.e} /\ y.p \notin {x.c, x.g, x.e}
          /\ y.g \notin {x.c, x.p, x.e} /\ y.e \notin {x.c, x.p, x.g}
  BY Ranges DEF PpiPlace, RegOf, GICR_IGROUPR0, GICR_ISENABLER0, GICR_IPRIORITYR,
                GICR_ICFGR
<1>4. ASSUME i # j
      PROVE  LET x == PpiPlace(i)
                 y == PpiPlace(j)
             IN  /\ y.c = x.c => y.pair # x.pair
                 /\ y.p = x.p => y.byte # x.byte
                 /\ y.bit # x.bit
  <2>1. /\ RegOf(GICR_ICFGR, j, 16) = RegOf(GICR_ICFGR, i, 16) => j \div 16 = i \div 16
        /\ RegOf(GICR_IPRIORITYR, j, 4) = RegOf(GICR_IPRIORITYR, i, 4) => j \div 4 = i \div 4
    BY Ranges DEF RegOf, GICR_IPRIORITYR, GICR_ICFGR
  <2>2. /\ j \div 16 = i \div 16 => j % 16 # i % 16
        /\ j \div 4 = i \div 4 => j % 4 # i % 4
    BY <1>4
  <2> QED  BY <1>4, <2>1, <2>2 DEF PpiPlace
<1> QED  BY <1>1, <1>2, <1>3, <1>4 DEF Apart

\* The GIC finds the fields where the driver's offsets put them.
LEMMA PlacesRead ==
  /\ \A id : SpiConfig(id) = ReadAt(gicd, SpiPlace(id))
  /\ \A id : SpiConfig(id)' = ReadAt(gicd', SpiPlace(id))
  /\ \A id : PpiConfig(id) = ReadAt(gicr, PpiPlace(id))
  /\ \A id : PpiConfig(id)' = ReadAt(gicr', PpiPlace(id))
BY DEF SpiConfig, PpiConfig, ReadAt, Read, SpiPlace, PpiPlace, RegOf, GICD_ICFGR,
       GICD_IPRIORITYR, GICD_IGROUPR, GICD_ISENABLER, GICR_ICFGR, GICR_IPRIORITYR,
       GICR_IGROUPR0, GICR_ISENABLER0

-----------------------------------------------------------------------------
(* The driver implements one configuration per interrupt.                  *)

\* A call that changes the configuration of one SPI is a step of the abstraction.
LEMMA SpiStep ==
  ASSUME NEW id \in SpiId, NEW c, gicr' = gicr,
         \A j \in SpiId : SpiConfig(j)' = IF j = id THEN c ELSE SpiConfig(j)
  PROVE  Decoded' = [Decoded EXCEPT ![id] = c] /\ Decoded[id] = SpiConfig(id)
<1>1. id \notin PpiId
  BY IdAssumption
<1>2. \A j \in PpiId : PpiConfig(j)' = PpiConfig(j)
  BY PlacesRead
<1> QED  BY <1>1, <1>2 DEF Decoded

\* The same for a PPI.
LEMMA PpiStep ==
  ASSUME NEW id \in PpiId, NEW c, gicd' = gicd,
         \A j \in PpiId : PpiConfig(j)' = IF j = id THEN c ELSE PpiConfig(j)
  PROVE  Decoded' = [Decoded EXCEPT ![id] = c] /\ Decoded[id] = PpiConfig(id)
<1>2. \A j \in SpiId : SpiConfig(j)' = SpiConfig(j)
  BY PlacesRead
<1> QED  BY <1>2 DEF Decoded

\* The places of the interrupts the drivers configure are among the offsets.
LEMMA PlacesWithin ==
  /\ \A id \in SpiId : id \in 0 .. 1019 /\ Within(SpiPlace(id), GicdOffset)
  /\ \A id \in PpiId : id \in 0 .. 31 /\ Within(PpiPlace(id), GicrOffset)
BY SpiOffsets, PpiOffsets DEF Within, SpiPlace, PpiPlace

\* A call for an SPI changes one field of its configuration, and no other SPI's.
LEMMA SpiCall ==
  ASSUME Registers, NEW id \in SpiId
  PROVE  /\ \A p \in Prio : set_spi_priority(id, p) =>
              \A j \in SpiId : SpiConfig(j)' = IF j = id THEN WithPriority(SpiConfig(j), p)
                                               ELSE SpiConfig(j)
         /\ \A t \in {Level, Edge} : set_spi_trigger(id, t) =>
              \A j \in SpiId : SpiConfig(j)' = IF j = id THEN WithTrigger(SpiConfig(j), t)
                                               ELSE SpiConfig(j)
         /\ set_spi_group(id) =>
              \A j \in SpiId : SpiConfig(j)' = IF j = id THEN WithGroup(SpiConfig(j))
                                               ELSE SpiConfig(j)
         /\ enable_spi(id) =>
              \A j \in SpiId : SpiConfig(j)' = IF j = id THEN WithEnable(SpiConfig(j))
                                               ELSE SpiConfig(j)
<1> SUFFICES ASSUME NEW j \in SpiId
             PROVE  /\ \A p \in Prio : set_spi_priority(id, p) =>
                         SpiConfig(j)' = IF j = id THEN WithPriority(SpiConfig(j), p)
                                         ELSE SpiConfig(j)
                    /\ \A t \in {Level, Edge} : set_spi_trigger(id, t) =>
                         SpiConfig(j)' = IF j = id THEN WithTrigger(SpiConfig(j), t)
                                         ELSE SpiConfig(j)
                    /\ set_spi_group(id) =>
                         SpiConfig(j)' = IF j = id THEN WithGroup(SpiConfig(j))
                                         ELSE SpiConfig(j)
                    /\ enable_spi(id) =>
                         SpiConfig(j)' = IF j = id THEN WithEnable(SpiConfig(j))
                                         ELSE SpiConfig(j)
  OBVIOUS
<1> DEFINE x == SpiPlace(id)
           y == SpiPlace(j)
<1>1. /\ Apart(x, y) /\ (y = x <=> j = id) /\ Within(y, GicdOffset)
      /\ gicd \in [GicdOffset -> Word]
  <2>1. id \in 0 .. 1019 /\ j \in 0 .. 1019 /\ Within(y, GicdOffset)
    BY PlacesWithin
  <2>2. Apart(x, y) /\ (y = x <=> j = id)
    BY SpiPlaces
  <2> QED  BY <2>1, <2>2 DEF Registers
<1>2. SpiConfig(j) = ReadAt(gicd, y) /\ SpiConfig(j)' = ReadAt(gicd', y)
  BY PlacesRead
<1>3. /\ x.p = RegOf(GICD_IPRIORITYR, id, 4) /\ x.c = RegOf(GICD_ICFGR, id, 16)
      /\ x.g = RegOf(GICD_IGROUPR, id, 32) /\ x.e = RegOf(GICD_ISENABLER, id, 32)
      /\ x.byte = id % 4 /\ x.pair = id % 16 /\ x.bit = id % 32
  BY DEF SpiPlace
<1> HIDE DEF x, y
<1>4. ASSUME NEW p \in Prio, set_spi_priority(id, p)
      PROVE  gicd' = [gicd EXCEPT ![x.p] = Replace(@, x.byte * 8, 8, p)]
  BY <1>3, <1>4 DEF set_spi_priority, PrioRegOf
<1>5. ASSUME NEW t \in {Level, Edge}, set_spi_trigger(id, t)
      PROVE  gicd' = [gicd EXCEPT ![x.c] = Replace(@, x.pair * 2, 2, t)]
  BY <1>3, <1>5 DEF set_spi_trigger
<1>6. ASSUME set_spi_group(id)
      PROVE  gicd' = [gicd EXCEPT ![x.g] = @ \cup {x.bit}]
  BY <1>3, <1>6 DEF set_spi_group, set_mmio_bits32
<1>7. ASSUME enable_spi(id)
      PROVE  gicd' = [gicd EXCEPT ![x.e] = @ \cup {x.bit}]
  BY <1>3, <1>7 DEF enable_spi
<1> QED  BY <1>1, <1>2, <1>4, <1>5, <1>6, <1>7, Written

\* A call for a PPI changes one field of its configuration, and no other PPI's.
LEMMA PpiCall ==
  ASSUME Registers, NEW id \in PpiId
  PROVE  /\ \A p \in Prio : set_ppi_priority(id, p) =>
              \A j \in PpiId : PpiConfig(j)' = IF j = id THEN WithPriority(PpiConfig(j), p)
                                               ELSE PpiConfig(j)
         /\ \A t \in {Level, Edge} : set_ppi_trigger(id, t) =>
              \A j \in PpiId : PpiConfig(j)' = IF j = id THEN WithTrigger(PpiConfig(j), t)
                                               ELSE PpiConfig(j)
         /\ set_ppi_group(id) =>
              \A j \in PpiId : PpiConfig(j)' = IF j = id THEN WithGroup(PpiConfig(j))
                                               ELSE PpiConfig(j)
         /\ enable_ppi(id) =>
              \A j \in PpiId : PpiConfig(j)' = IF j = id THEN WithEnable(PpiConfig(j))
                                               ELSE PpiConfig(j)
<1> SUFFICES ASSUME NEW j \in PpiId
             PROVE  /\ \A p \in Prio : set_ppi_priority(id, p) =>
                         PpiConfig(j)' = IF j = id THEN WithPriority(PpiConfig(j), p)
                                         ELSE PpiConfig(j)
                    /\ \A t \in {Level, Edge} : set_ppi_trigger(id, t) =>
                         PpiConfig(j)' = IF j = id THEN WithTrigger(PpiConfig(j), t)
                                         ELSE PpiConfig(j)
                    /\ set_ppi_group(id) =>
                         PpiConfig(j)' = IF j = id THEN WithGroup(PpiConfig(j))
                                         ELSE PpiConfig(j)
                    /\ enable_ppi(id) =>
                         PpiConfig(j)' = IF j = id THEN WithEnable(PpiConfig(j))
                                         ELSE PpiConfig(j)
  OBVIOUS
<1> DEFINE x == PpiPlace(id)
           y == PpiPlace(j)
<1>1. /\ Apart(x, y) /\ (y = x <=> j = id) /\ Within(y, GicrOffset)
      /\ gicr \in [GicrOffset -> Word]
  <2>1. id \in 0 .. 31 /\ j \in 0 .. 31 /\ Within(y, GicrOffset)
    BY PlacesWithin
  <2>2. Apart(x, y) /\ (y = x <=> j = id)
    BY <2>1, PpiPlaces
  <2> QED  BY <2>1, <2>2 DEF Registers
<1>2. PpiConfig(j) = ReadAt(gicr, y) /\ PpiConfig(j)' = ReadAt(gicr', y)
  BY PlacesRead
<1>3. /\ x.p = RegOf(GICR_IPRIORITYR, id, 4) /\ x.c = RegOf(GICR_ICFGR, id, 16)
      /\ x.g = GICR_IGROUPR0 /\ x.e = GICR_ISENABLER0
      /\ x.byte = id % 4 /\ x.pair = id % 16 /\ x.bit = id
  BY DEF PpiPlace
<1> HIDE DEF x, y
<1>4. ASSUME NEW p \in Prio, set_ppi_priority(id, p)
      PROVE  gicr' = [gicr EXCEPT ![x.p] = Replace(@, x.byte * 8, 8, p)]
  BY <1>3, <1>4 DEF set_ppi_priority
<1>5. ASSUME NEW t \in {Level, Edge}, set_ppi_trigger(id, t)
      PROVE  gicr' = [gicr EXCEPT ![x.c] = Replace(@, x.pair * 2, 2, t)]
  BY <1>3, <1>5 DEF set_ppi_trigger
<1>6. ASSUME set_ppi_group(id)
      PROVE  gicr' = [gicr EXCEPT ![x.g] = @ \cup {x.bit}]
  BY <1>3, <1>6 DEF set_ppi_group, set_mmio_bits32
<1>7. ASSUME enable_ppi(id)
      PROVE  gicr' = [gicr EXCEPT ![x.e] = @ \cup {x.bit}]
  BY <1>3, <1>7 DEF enable_ppi, set_mmio_bits32
<1> QED  BY <1>1, <1>2, <1>4, <1>5, <1>6, <1>7, Written

\* A priority at reset, and the field it is read from.
LEMMA InitialConfig == Init => Decoded \in [PpiId \cup SpiId -> Abstract!Config]
<1> SUFFICES ASSUME Init, NEW id \in PpiId \cup SpiId
             PROVE  (IF id \in PpiId THEN PpiConfig(id) ELSE SpiConfig(id)) \in Abstract!Config
  BY DEF Decoded
<1>1. PICK w \in ResetWord : gicd = [o \in GicdOffset |-> w] /\ gicr = [o \in GicrOffset |-> w]
  BY DEF Init
<1>2. id % 4 \in 0 .. 3
  BY PlacesWithin, Ranges
<1>3. PrioOf(w, id % 4) \in SeenPrio
  BY <1>2 DEF SeenPrio
<1>4. ASSUME NEW c, NEW p, NEW g, NEW e, NEW edge, NEW shift, NEW bit,
             FieldAt(p, shift, 8) \in SeenPrio
      PROVE  Read(c, p, g, e, edge, shift, bit) \in Abstract!Config
  <2>1. (bit \in g) \in BOOLEAN /\ (bit \in e) \in BOOLEAN
    OBVIOUS
  <2> QED  BY <1>4, <2>1 DEF Read, Abstract!Config, Abstract!Trigger
<1>5. CASE id \in PpiId
  <2>1. gicr[PpiPlace(id).p] = w /\ PpiPlace(id).byte = id % 4
    BY <1>1, <1>5, PlacesWithin DEF Within, PpiPlace
  <2>2. FieldAt(gicr[PpiPlace(id).p], 8 * PpiPlace(id).byte, 8) \in SeenPrio
    BY <1>3, <2>1 DEF PrioOf
  <2> QED  BY <1>4, <1>5, <2>2, PlacesRead DEF ReadAt
<1>6. CASE id \notin PpiId
  <2>1. gicd[SpiPlace(id).p] = w /\ SpiPlace(id).byte = id % 4
    BY <1>1, <1>6, PlacesWithin DEF Within, SpiPlace
  <2>2. FieldAt(gicd[SpiPlace(id).p], 8 * SpiPlace(id).byte, 8) \in SeenPrio
    BY <1>3, <2>1 DEF PrioOf
  <2> QED  BY <1>4, <1>6, <2>2, PlacesRead DEF ReadAt
<1> QED  BY <1>5, <1>6

\* Every call of the driver, and nothing else, changes the configuration the GIC reads,
\* and it changes the one field of the one interrupt that the call names: the driver
\* implements InterruptConfig for every set of interrupts and priorities.
THEOREM GicImplementsConfig == Spec => ImplementsConfig
<1>1. Init => Abstract!Init
  BY InitialConfig DEF Abstract!Init
<1>2. Registers /\ [Next]_vars => [Abstract!Next]_Decoded
  <2> SUFFICES ASSUME Registers, Next PROVE Abstract!Next \/ Decoded' = Decoded
    <3>1. UNCHANGED vars => UNCHANGED Decoded
      BY DEF vars, Decoded, PpiConfig, SpiConfig
    <3> QED  BY <3>1
  <2>1. CASE UNCHANGED <<gicd, gicr>>
    BY <2>1 DEF Decoded, PpiConfig, SpiConfig
  <2>2. ASSUME NEW id \in PpiId \cup SpiId, NEW c, c = Decoded[id],
               Decoded' = [Decoded EXCEPT ![id] = WithGroup(c)] \/
               Decoded' = [Decoded EXCEPT ![id] = WithEnable(c)]
        PROVE  Abstract!Next
    BY <2>2 DEF Abstract!Next, Abstract!SetGroup, Abstract!Enable, WithGroup, WithEnable
  <2>3. ASSUME NEW id \in PpiId \cup SpiId, NEW c, c = Decoded[id], NEW p \in Prio,
               Decoded' = [Decoded EXCEPT ![id] = WithPriority(c, p)]
        PROVE  Abstract!Next
    <3>1. p \in SeenPrio
      BY DEF SeenPrio
    <3> QED  BY <2>3, <3>1 DEF Abstract!Next, Abstract!SetPriority, WithPriority
  <2>4. ASSUME NEW id \in PpiId \cup SpiId, NEW c, c = Decoded[id], NEW t,
               Decoded' = [Decoded EXCEPT ![id] = WithTrigger(c, t)]
        PROVE  Abstract!Next
    BY <2>4 DEF Abstract!Next, Abstract!SetTrigger, Abstract!Trigger, WithTrigger
  <2>5. ASSUME NEW id \in PpiId, ConfigurePpi(id) PROVE Abstract!Next
    <3>1. gicd' = gicd
      BY <2>5 DEF ConfigurePpi, set_ppi_priority, set_ppi_trigger, set_ppi_group,
                  enable_ppi, Redistributor
    <3>2. ASSUME NEW p \in Prio, set_ppi_priority(id, p) PROVE Abstract!Next
      BY <2>3, <3>1, <3>2, PpiCall, PpiStep
    <3>3. ASSUME NEW t \in {Level, Edge}, set_ppi_trigger(id, t) PROVE Abstract!Next
      BY <2>4, <3>1, <3>3, PpiCall, PpiStep
    <3>4. ASSUME set_ppi_group(id) PROVE Abstract!Next
      BY <2>2, <3>1, <3>4, PpiCall, PpiStep
    <3>5. ASSUME enable_ppi(id) PROVE Abstract!Next
      BY <2>2, <3>1, <3>5, PpiCall, PpiStep
    <3> QED  BY <2>5, <3>2, <3>3, <3>4, <3>5 DEF ConfigurePpi
  <2>6. ASSUME NEW id \in SpiId, ConfigureSpi(id)
        PROVE  Abstract!Next \/ Decoded' = Decoded
    <3>1. gicr' = gicr
      BY <2>6 DEF ConfigureSpi, set_spi_priority, set_spi_trigger, set_spi_group,
                  enable_spi, set_spi_routing, Distributor
    <3>2. ASSUME NEW p \in Prio, set_spi_priority(id, p) PROVE Abstract!Next
      BY <2>3, <3>1, <3>2, SpiCall, SpiStep
    <3>3. ASSUME NEW t \in {Level, Edge}, set_spi_trigger(id, t) PROVE Abstract!Next
      BY <2>4, <3>1, <3>3, SpiCall, SpiStep
    <3>4. ASSUME set_spi_group(id) PROVE Abstract!Next
      BY <2>2, <3>1, <3>4, SpiCall, SpiStep
    <3>5. ASSUME enable_spi(id) PROVE Abstract!Next
      BY <2>2, <3>1, <3>5, SpiCall, SpiStep
    <3>6. ASSUME NEW a \in Affinity, set_spi_routing(id, a) PROVE Decoded' = Decoded
      BY <2>1, <3>6 DEF set_spi_routing, Decoded, PpiConfig, SpiConfig
    <3> QED  BY <2>6, <3>2, <3>3, <3>4, <3>5, <3>6 DEF ConfigureSpi
  <2>7. CASE Setup \/ ChildrenWake
    BY <2>1, <2>7 DEF Setup, init_gic_distributor, init_gic_redistributor,
       redistributor_awake, SpinUntilNot, set_priority_mask, enable_grp1_ints,
       ChildrenWake
  <2> QED  BY <2>5, <2>6, <2>7 DEF Next
<1> QED  BY <1>1, <1>2, RegistersInvariant, PTL DEF Spec, ImplementsConfig, Abstract!Spec
=============================================================================
