---------------------------- MODULE IdentityMap ----------------------------
(***************************************************************************)
(* src/src/kernel/mm: kmain's last steps of set-up, which describe memory  *)
(* to the MMU and switch it on.                                            *)
(*                                                                         *)
(* A register or a descriptor is the set of its bits that are 1, and "|="  *)
(* is a union.  The code fills one entry of the L0 table and one entry per *)
(* GiB of the L1 table.  The table walker sees what was written before the *)
(* last data synchronisation barrier.                                      *)
(***************************************************************************)
EXTENDS Naturals

CONSTANTS Pages,           \* GiB that the kernel and its devices span
          L1Entry,         \* entries of the L1 table that are looked at
          L0Addr, L1Addr,  \* addresses of the tables, whole pages
          Garbage          \* what memory may hold at boot

VARIABLES mair, ttbr0, tcr, mmu,   \* system registers, and SCTLR_EL1.M
          l0, l1,    \* the first L0 entry, and the L1 table
          walk,      \* [l0, l1] as the table walker sees them
          mm,        \* next step of the set-up
          gib        \* the loop variable i

mapVars == <<mair, ttbr0, tcr, mmu, l0, l1, walk, mm, gib>>

\* The L0 entry is part of .bss, which the loader clears; the L1 table is not.
MapInit ==
  /\ mair = {} /\ ttbr0 = {} /\ tcr = {} /\ mmu = FALSE
  /\ l0 = {}
  /\ \E g \in Garbage : l1 = [e \in L1Entry |-> g]
  /\ walk = [l0 |-> l0, l1 |-> l1]
  /\ mm = "mair" /\ gib = 0

MapStep(from, to) == mm = from /\ mm' = to

-----------------------------------------------------------------------------
(* mair.rs                                                                 *)

MAIR_DEVICE_NGNRNE == {}
MAIR_NORMAL_NC == {2, 6}
MAIR_NORMAL_WB == 0 .. 7
MAIR_IDX_DEVICE == 0
MAIR_IDX_NORMAL_NC == 1
MAIR_IDX_NORMAL_WB == 2

\* The byte of a range, to be or-ed into MAIR_EL1.
configure_mair_range(conf, range) == {8 * range + b : b \in conf}

setup_mair_ranges ==
  /\ MapStep("mair", "l0")
  /\ mair' = UNION {mair,
                    configure_mair_range(MAIR_DEVICE_NGNRNE, MAIR_IDX_DEVICE),
                    configure_mair_range(MAIR_NORMAL_WB, MAIR_IDX_NORMAL_WB),
                    configure_mair_range(MAIR_NORMAL_NC, MAIR_IDX_NORMAL_NC)}
  /\ UNCHANGED <<ttbr0, tcr, mmu, l0, l1, walk, gib>>

-----------------------------------------------------------------------------
(* pgtable.rs and identity.rs                                              *)

\* The bits that the helpers of pgtable.rs or into a descriptor.
mark_table_desc == {0, 1}
mark_block_desc == {0}
set_mair_range(idx) == {2 + b : b \in {c \in 0 .. 2 : (idx \div 2^c) % 2 = 1}}

\* The address i * SZ_1G, of GiB i.
GibAddr(i) == {30 + b : b \in {c \in 0 .. 8 : (i \div 2^c) % 2 = 1}}

DESC_UXN == {54}
DESC_PXN == {53}
DESC_AF == {10}
DESC_SH_INNER == {8, 9}
TABLE_APTABLE0 == {61}
TABLE_UXNTABLE == {60}

\* Mark, attributes, next level: into the entry as it is.
MapTable ==
  /\ MapStep("l0", "l1")
  /\ l0' = UNION {l0, mark_table_desc, TABLE_UXNTABLE, TABLE_APTABLE0, L1Addr}
  /\ UNCHANGED <<mair, ttbr0, tcr, mmu, l1, walk, gib>>

\* The first block is MMIO, the others are normal memory.
BlockDesc(i) ==
  IF i = 0
  THEN UNION {mark_block_desc, set_mair_range(MAIR_IDX_DEVICE),
              DESC_UXN, DESC_PXN, DESC_AF, GibAddr(i)}
  ELSE UNION {mark_block_desc, set_mair_range(MAIR_IDX_NORMAL_WB),
              DESC_UXN, DESC_AF, DESC_SH_INNER, GibAddr(i)}

LastBlock == IF Pages > 2 THEN Pages - 1 ELSE 1

\* One iteration of the loop, with desc as the new contents of the entry.
Iteration(desc) ==
  /\ mm = "l1"
  /\ l1' = [l1 EXCEPT ![gib] = desc]
  /\ gib' = gib + 1
  /\ mm' = IF gib = LastBlock THEN "ttbr0" ELSE "l1"
  /\ UNCHANGED <<mair, ttbr0, tcr, mmu, l0, walk>>

\* Mutated form: the descriptor is not cleared first.
MapBlock_NotCleared == Iteration(l1[gib] \cup BlockDesc(gib))

MapBlock == Iteration(BlockDesc(gib))

\* The barriers after the write publish the tables.
load_ttbr0 ==
  /\ MapStep("ttbr0", "tcr")
  /\ ttbr0' = L0Addr
  /\ walk' = [l0 |-> l0, l1 |-> l1]
  /\ UNCHANGED <<mair, tcr, mmu, l0, l1, gib>>

\* T0SZ = 16, write-back inner shareable walks, T1SZ = 16, EPD1, TG1, IPS = 4.
configure_tcr ==
  /\ MapStep("tcr", "sctlr")
  /\ tcr' = {4, 8, 10, 12, 13, 20, 23, 31, 34}
  /\ UNCHANGED <<mair, ttbr0, mmu, l0, l1, walk, gib>>

enable_mmu ==
  /\ MapStep("sctlr", "on")
  /\ mmu' = TRUE
  /\ UNCHANGED <<mair, ttbr0, tcr, l0, l1, walk, gib>>

setup_identity_mapping ==
  MapTable \/ MapBlock \/ load_ttbr0 \/ configure_tcr \/ enable_mmu

-----------------------------------------------------------------------------
(* How the MMU reads all this.                                             *)

Bits(reg, low, high) == {b - low : b \in reg \cap (low .. high)}

\* Walks start at level 0 of a table of 4 KiB pages and are not disabled.
WalkFromL0 ==
  /\ Bits(tcr, 0, 5) = {4} /\ Bits(tcr, 14, 15) = {} /\ 7 \notin tcr
  /\ ttbr0 = L0Addr
  /\ {0, 1} \subseteq walk.l0 /\ walk.l0 \cap (12 .. 47) = L1Addr

\* The MAIR byte that AttrIndx selects.
AttrOf(desc) ==
  LET idx == Bits(desc, 2, 4)
      n == (IF 0 \in idx THEN 1 ELSE 0) + (IF 1 \in idx THEN 2 ELSE 0)
             + (IF 2 \in idx THEN 4 ELSE 0)
  IN Bits(mair, 8 * n, 8 * n + 7)

\* EL1 can read and write GiB e at its own address, with the attributes of attr.
MappedAs(e, attr) ==
  LET desc == walk.l1[e] IN
  /\ WalkFromL0
  /\ Bits(desc, 0, 1) = {0} /\ 10 \in desc
  /\ desc \cap (12 .. 47) = GibAddr(e)
  /\ AttrOf(desc) = attr
  /\ 7 \notin desc /\ 62 \notin walk.l0

\* EL1 may execute from GiB e.
Executable(e) == 53 \notin walk.l1[e] /\ 59 \notin walk.l0
=============================================================================
