------------------------------- MODULE Gicv3 -------------------------------
(***************************************************************************)
(* The register writes of src/src/drivers/gic/gicv3.rs: initialisation of  *)
(* the distributor, the redistributor and the CPU interface, and the       *)
(* configuration calls for PPIs (redistributor) and SPIs (distributor).    *)
(*                                                                         *)
(* A 32-bit register is the set of its bits that are 1.  gicd and gicr map *)
(* register offsets to registers, at the offsets the code computes; what   *)
(* the GIC makes of the registers is decoded independently, per interrupt, *)
(* the way the architecture lays the fields out.  The GIC's node has a reg *)
(* property, as its binding requires, so setup() calls init_gic.           *)
(***************************************************************************)
EXTENDS Naturals, FiniteSets

CONSTANTS PpiId, SpiId,   \* interrupts the drivers configure
          Prio,           \* priorities they pass, each the set of its bits
          Affinity,       \* core affinities they pass
          ResetWord,      \* what firmware may have left in every register
          ResetRoute      \* what it may have left in the routing registers

ASSUME IdAssumption == PpiId \subseteq 16 .. 31 /\ SpiId \subseteq 32 .. 1019
ASSUME ValueAssumption ==
  /\ \A p \in Prio : p \subseteq 0 .. 7
  /\ \A w \in ResetWord : w \subseteq 0 .. 31

\* Register offsets, as in the source; the SGI frame's relative to GICR_SGI_BASE.
GICD_IGROUPR == 128
GICD_ISENABLER == 256
GICD_IPRIORITYR == 1024
GICD_ICFGR == 3072
GICD_IROUTER == 24832
GICR_IGROUPR0 == 128
GICR_ISENABLER0 == 256
GICR_IPRIORITYR == 1024
GICR_ICFGR == 3072

\* Bits of the control registers.
GICD_CTLR_GRP1NS == 1
GICD_CTLR_GRP1S == 2
GICR_WAKER_PSLEEP == 1
GICR_WAKER_CASLEEP == 2

VARIABLES gicd,      \* distributor registers, by offset
          gicr,      \* redistributor SGI frame, by offset
          irouter,   \* 64-bit routing registers, by offset
          ctlr,      \* GICD_CTLR
          waker,     \* GICR_WAKER
          pmr,       \* ICC_PMR_EL1
          igrpen1,   \* ICC_IGRPEN1_EL1
          phase      \* where setup() is, "ready" once it has returned

vars == <<gicd, gicr, irouter, ctlr, waker, pmr, igrpen1, phase>>

controlVars == <<ctlr, waker, pmr, igrpen1, phase>>

\* The offset of the 32-bit register holding id's field, n fields to a register.
RegOf(base, id, n) == base + 4 * (id \div n)

GicdOffset == UNION {{RegOf(GICD_IGROUPR, i, 32), RegOf(GICD_ISENABLER, i, 32),
                      RegOf(GICD_IPRIORITYR, i, 4), RegOf(GICD_ICFGR, i, 16)}
                       : i \in SpiId}
GicrOffset == UNION {{GICR_IGROUPR0, GICR_ISENABLER0,
                      RegOf(GICR_IPRIORITYR, i, 4), RegOf(GICR_ICFGR, i, 16)}
                       : i \in PpiId}

RouterOffset == {GICD_IROUTER + 8 * i : i \in SpiId}

Init ==
  /\ \E w \in ResetWord : /\ gicd = [o \in GicdOffset |-> w]
                          /\ gicr = [o \in GicrOffset |-> w]
  /\ \E r \in ResetRoute : irouter = [o \in RouterOffset |-> r]
  /\ ctlr = {}
  /\ waker = {GICR_WAKER_PSLEEP, GICR_WAKER_CASLEEP}
  /\ pmr = 0
  /\ igrpen1 = 0
  /\ phase = "dist"

\* mmio.rs: read a register, change some of its bits, write it back.
set_mmio_bits32(reg, bits) == reg \cup bits
clear_mmio_bits32(reg, bits) == reg \ bits

-----------------------------------------------------------------------------
(* setup(): init_gic, set_priority_mask, enable_grp1_ints.                 *)

Phase(from, to) == phase = from /\ phase' = to

init_gic_distributor ==
  /\ Phase("dist", "redist")
  /\ ctlr' = set_mmio_bits32(ctlr, {GICD_CTLR_GRP1S, GICD_CTLR_GRP1NS})
  /\ UNCHANGED <<gicd, gicr, irouter, waker, pmr, igrpen1>>

\* init_gic_redistributor clears ProcessorSleep, then spins on ChildrenAsleep.
init_gic_redistributor ==
  /\ Phase("redist", "wait")
  /\ waker' = clear_mmio_bits32(waker, {GICR_WAKER_PSLEEP})
  /\ UNCHANGED <<gicd, gicr, irouter, ctlr, pmr, igrpen1>>

\* The redistributor clears ChildrenAsleep some time after ProcessorSleep.
ChildrenWake ==
  /\ GICR_WAKER_PSLEEP \notin waker
  /\ GICR_WAKER_CASLEEP \in waker
  /\ waker' = waker \ {GICR_WAKER_CASLEEP}
  /\ UNCHANGED <<gicd, gicr, irouter, ctlr, pmr, igrpen1, phase>>

\* The spin ends when asleep has become false.
SpinUntilNot(asleep) ==
  /\ Phase("wait", "pmr")
  /\ ~asleep
  /\ UNCHANGED <<gicd, gicr, irouter, ctlr, waker, pmr, igrpen1>>

\* Mutated form: setup waits for the bit it has cleared itself.
redistributor_awake_WrongBit == SpinUntilNot(GICR_WAKER_PSLEEP \in waker)

redistributor_awake == SpinUntilNot(GICR_WAKER_CASLEEP \in waker)

set_priority_mask(priority) ==
  /\ Phase("pmr", "igrpen1")
  /\ pmr' = priority
  /\ UNCHANGED <<gicd, gicr, irouter, ctlr, waker, igrpen1>>

enable_grp1_ints ==
  /\ Phase("igrpen1", "ready")
  /\ igrpen1' = 1
  /\ UNCHANGED <<gicd, gicr, irouter, ctlr, waker, pmr>>

Setup ==
  \/ init_gic_distributor
  \/ init_gic_redistributor
  \/ redistributor_awake
  \/ set_priority_mask(255)
  \/ enable_grp1_ints

-----------------------------------------------------------------------------
(* The configuration calls.  init_devices makes them after setup().        *)

\* Replace width bits at shift by val, the others stay: read, mask, or, write.
Field(shift, width) == shift .. shift + width - 1
Replace(reg, shift, width, val) ==
  (reg \ Field(shift, width)) \cup {shift + b : b \in val}

\* Frame of a call that writes distributor registers, or redistributor registers.
Distributor == phase = "ready" /\ UNCHANGED <<gicr, irouter, controlVars>>
Redistributor == phase = "ready" /\ UNCHANGED <<gicd, irouter, controlVars>>

set_ppi_priority(id, prio) ==
  /\ Redistributor
  /\ gicr' = [gicr EXCEPT ![RegOf(GICR_IPRIORITYR, id, 4)] =
                Replace(@, (id % 4) * 8, 8, prio)]

set_ppi_group(id) ==
  /\ Redistributor
  /\ gicr' = [gicr EXCEPT ![GICR_IGROUPR0] = set_mmio_bits32(@, {id})]

\* The enable registers are write-one-to-set: the OR in the code is harmless.
enable_ppi(id) ==
  /\ Redistributor
  /\ gicr' = [gicr EXCEPT ![GICR_ISENABLER0] = set_mmio_bits32(@, {id})]

\* set_ppi_trigger_level and set_ppi_trigger_edge.
set_ppi_trigger(id, bits) ==
  /\ Redistributor
  /\ gicr' = [gicr EXCEPT ![RegOf(GICR_ICFGR, id, 16)] =
                Replace(@, (id % 16) * 2, 2, bits)]

PrioRegOf(id) == RegOf(GICD_IPRIORITYR, id, 4)

\* Mutated form: the other three priorities of the register are cleared.
set_spi_priority_Clobber(id, prio) ==
  Distributor /\ gicd' = [gicd EXCEPT ![PrioRegOf(id)] = Replace({}, (id % 4) * 8, 8, prio)]

set_spi_priority(id, prio) ==
  Distributor /\ gicd' = [gicd EXCEPT ![PrioRegOf(id)] = Replace(@, (id % 4) * 8, 8, prio)]

\* set_spi_trigger_level, set_spi_trigger_edge.
set_spi_trigger(id, bits) ==
  /\ Distributor
  /\ gicd' = [gicd EXCEPT ![RegOf(GICD_ICFGR, id, 16)] =
                Replace(@, (id % 16) * 2, 2, bits)]

\* Writes the bit alone: zeros have no effect on a write-one-to-set register.
enable_spi(id) ==
  /\ Distributor
  /\ gicd' = [gicd EXCEPT ![RegOf(GICD_ISENABLER, id, 32)] = @ \cup {id % 32}]

set_spi_group(id) ==
  /\ Distributor
  /\ gicd' = [gicd EXCEPT ![RegOf(GICD_IGROUPR, id, 32)] = set_mmio_bits32(@, {id % 32})]

set_spi_routing(id, core_affinity) ==
  /\ phase = "ready"
  /\ irouter' = [irouter EXCEPT ![GICD_IROUTER + 8 * id] = core_affinity]
  /\ UNCHANGED <<gicd, gicr, controlVars>>

Level == {}
Edge == {1}

ConfigurePpi(id) ==
  \/ \E p \in Prio : set_ppi_priority(id, p)
  \/ \E t \in {Level, Edge} : set_ppi_trigger(id, t)
  \/ set_ppi_group(id)
  \/ enable_ppi(id)

ConfigureSpi(id) ==
  \/ \E p \in Prio : set_spi_priority(id, p)
  \/ \E t \in {Level, Edge} : set_spi_trigger(id, t)
  \/ set_spi_group(id)
  \/ enable_spi(id)
  \/ \E a \in Affinity : set_spi_routing(id, a)

Next ==
  \/ Setup \/ ChildrenWake
  \/ \E id \in PpiId : ConfigurePpi(id)
  \/ \E id \in SpiId : ConfigureSpi(id)

Spec == Init /\ [][Next]_vars

-----------------------------------------------------------------------------
(* How the GIC reads the registers.                                        *)

FieldAt(reg, shift, width) == {b \in 0 .. width - 1 : shift + b \in reg}

PpiConfig(id) ==
  [trigger  |-> IF 2 * (id % 16) + 1 \in gicr[3072 + 4 * (id \div 16)]
                THEN "edge" ELSE "level",
   priority |-> FieldAt(gicr[1024 + 4 * (id \div 4)], 8 * (id % 4), 8),
   group1   |-> id \in gicr[128],
   enabled  |-> id \in gicr[256]]

SpiConfig(id) ==
  [trigger  |-> IF 2 * (id % 16) + 1 \in gicd[3072 + 4 * (id \div 16)]
                THEN "edge" ELSE "level",
   priority |-> FieldAt(gicd[1024 + 4 * (id \div 4)], 8 * (id % 4), 8),
   group1   |-> id % 32 \in gicd[128 + 4 * (id \div 32)],
   enabled  |-> id % 32 \in gicd[256 + 4 * (id \div 32)]]

Decoded == [id \in PpiId \cup SpiId |->
              IF id \in PpiId THEN PpiConfig(id) ELSE SpiConfig(id)]

\* The priorities an interrupt can have: written by the drivers, or left over.
PrioOf(w, lane) == FieldAt(w, 8 * lane, 8)
SeenPrio == Prio \cup {PrioOf(w, l) : w \in ResetWord, l \in 0 .. 3}

Abstract == INSTANCE InterruptConfig
              WITH Id <- PpiId \cup SpiId, Priority <- SeenPrio, cfg <- Decoded

-----------------------------------------------------------------------------
\* The shifts, masks and offsets of gicv3.rs implement one field per interrupt:
\* configuring an interrupt never touches another one that shares its registers.
ImplementsConfig == Abstract!Spec

\* An interrupt is only configured, and group 1 only signalled, once the
\* redistributor is awake: setup waits for ChildrenAsleep to clear.
AwakeWhenReady ==
  phase \in {"pmr", "igrpen1", "ready"} =>
    waker \cap {GICR_WAKER_PSLEEP, GICR_WAKER_CASLEEP} = {}
=============================================================================
