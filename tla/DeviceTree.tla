----------------------------- MODULE DeviceTree -----------------------------
(***************************************************************************)
(* parse_dtb and init_devices of src/src/kernel/dtb.rs: the walk over the  *)
(* tokens of a flattened device tree that fills DEVICE_TABLE, and the two  *)
(* passes that call the drivers' setup functions.                          *)
(*                                                                         *)
(* The device tree is not a constant: each step reads a token, any token   *)
(* that continues a well-formed structure block (one root; in a node, the  *)
(* properties come before the child nodes and have different names; no two *)
(* nodes have the same phandle).                                           *)
(* Offsets, names and strings of the blob are abstracted away.  A property *)
(* has a name and a value: for "compatible" the set of its strings, for    *)
(* "phandle" and "interrupt-parent" a phandle, for the cells a number.     *)
(* Device indices count from 1, and 0 is the null pointer.                 *)
(***************************************************************************)
EXTENDS Naturals, Sequences, FiniteSets, FiniteSetsExt

CONSTANTS MAX_DEVICES, MAX_PROPS, MAX_HANDLES,
          STACK_SIZE,     \* entries of parse_dtb's stack, 10 in the source
          Prop,           \* the properties a node may have
          MaxNodes,       \* bound on the nodes of the tree
          MaxNodeProps    \* bound on the properties of a node

ASSUME LimitAssumption ==
  {MAX_DEVICES, MAX_PROPS, MAX_HANDLES, STACK_SIZE} \subseteq Nat \ {0}

\* A property has a name and a value, and nothing else.
ASSUME PropAssumption == \A p \in Prop : p = [name |-> p.name, value |-> p.value]

VARIABLES DEVICE_TABLE, PHANDLE_TABLE,  \* the statics, as sequences
          stack, prop_id,               \* parse_dtb's locals
          phase,       \* "header", "parse", "first", "second", "done", "panic"
          next_dev,    \* the loop variable of init_devices
          calls,       \* the setup functions called, and on which device
          tree,        \* the tree the tokens describe: parent and properties
          path,        \* its open nodes, the innermost last
          fresh        \* the innermost one may still get properties

parserVars == <<DEVICE_TABLE, PHANDLE_TABLE, stack, prop_id>>
treeVars == <<tree, path, fresh>>
vars == <<parserVars, phase, next_dev, calls, treeVars>>

DEVICE_COUNT == Len(DEVICE_TABLE)

NoProp == [name |-> "", value |-> 0]
PropIndex == 0 .. MAX_PROPS - 1

\* PlatformDevice::default, with the parent parse_dtb fills in.
NewDevice(parent) ==
  [parent     |-> parent,
   properties |-> [i \in PropIndex |-> NoProp],
   prop_count |-> 0]

Top == stack[Len(stack)]

Init ==
  /\ DEVICE_TABLE = <<>> /\ PHANDLE_TABLE = <<>>
  /\ stack = <<>> /\ prop_id = 0
  /\ phase = "header" /\ next_dev = 1 /\ calls = <<>>
  /\ tree = <<>> /\ path = <<>> /\ fresh = FALSE

-----------------------------------------------------------------------------
(* parse_dtb                                                               *)

Panic == phase' = "panic" /\ UNCHANGED <<parserVars, next_dev, calls>>

\* The magic number is right, or the kernel panics.
ParseHeader ==
  /\ phase = "header"
  /\ \/ phase' = "parse" /\ UNCHANGED <<parserVars, next_dev, calls>>
     \/ Panic
  /\ UNCHANGED treeVars

\* The tree goes on with a node: any number of them, below one root.
TreeBegin ==
  /\ phase = "parse"
  /\ Len(tree) < MaxNodes
  /\ path = <<>> => tree = <<>>
  /\ tree' = Append(tree, [parent |-> IF path = <<>> THEN 0 ELSE path[Len(path)],
                           props |-> {}])
  /\ path' = Append(path, Len(tree) + 1)
  /\ fresh' = TRUE

\* Mutated form: the arrays are indexed without a bounds check.
FdtBeginNode_Unchecked ==
  /\ TreeBegin
  /\ DEVICE_TABLE' = Append(DEVICE_TABLE, NewDevice(IF stack = <<>> THEN 0 ELSE Top))
  /\ stack' = Append(stack, DEVICE_COUNT + 1)
  /\ prop_id' = 0
  /\ UNCHANGED <<PHANDLE_TABLE, phase, next_dev, calls>>

FdtBeginNode ==
  /\ TreeBegin
  /\ \/ /\ DEVICE_COUNT < MAX_DEVICES /\ Len(stack) < STACK_SIZE
        /\ DEVICE_TABLE' = Append(DEVICE_TABLE, NewDevice(IF stack = <<>> THEN 0 ELSE Top))
        /\ stack' = Append(stack, DEVICE_COUNT + 1)
        /\ prop_id' = 0
        /\ UNCHANGED <<PHANDLE_TABLE, phase, next_dev, calls>>
     \/ /\ DEVICE_COUNT >= MAX_DEVICES \/ Len(stack) >= STACK_SIZE
        /\ Panic

\* The tree's innermost node ends.
TreeEnd ==
  /\ phase = "parse" /\ path # <<>>
  /\ path' = SubSeq(path, 1, Len(path) - 1)
  /\ fresh' = FALSE
  /\ UNCHANGED tree

\* Mutated form: the stack is not popped.
FdtEndNode_NoPop ==
  /\ TreeEnd
  /\ DEVICE_TABLE' = [DEVICE_TABLE EXCEPT ![Top].prop_count = prop_id]
  /\ UNCHANGED <<PHANDLE_TABLE, stack, prop_id, phase, next_dev, calls>>

\* Mutated form: the index of the last property is taken for their number.
FdtEndNode_LastIndex ==
  /\ TreeEnd
  /\ DEVICE_TABLE' = [DEVICE_TABLE EXCEPT
       ![Top].prop_count = IF prop_id = 0 THEN 0 ELSE prop_id - 1]
  /\ stack' = SubSeq(stack, 1, Len(stack) - 1)
  /\ UNCHANGED <<PHANDLE_TABLE, prop_id, phase, next_dev, calls>>

FdtEndNode ==
  /\ TreeEnd
  /\ DEVICE_TABLE' = [DEVICE_TABLE EXCEPT ![Top].prop_count = prop_id]
  /\ stack' = SubSeq(stack, 1, Len(stack) - 1)
  /\ UNCHANGED <<PHANDLE_TABLE, prop_id, phase, next_dev, calls>>

\* The tree's innermost node has property p.
TreeProp(p) ==
  /\ phase = "parse" /\ fresh
  /\ LET node == path[Len(path)] IN
     /\ Cardinality(tree[node].props) < MaxNodeProps
     /\ \A q \in tree[node].props : q.name # p.name
     /\ p.name = "phandle" => \A d \in DOMAIN tree : p \notin tree[d].props
     /\ tree' = [tree EXCEPT ![node].props = @ \cup {p}]
  /\ UNCHANGED <<path, fresh>>

\* Store p in the table entry of device d.
StoreProp(d, p) ==
  /\ DEVICE_TABLE' = [DEVICE_TABLE EXCEPT ![d].properties[prop_id] = p]
  /\ prop_id' = prop_id + 1
  /\ UNCHANGED <<stack, phase, next_dev, calls>>

\* Mutated form: the property is stored in the outermost open node.
FdtProp_Outermost(p) ==
  /\ TreeProp(p)
  /\ prop_id < MAX_PROPS
  /\ StoreProp(stack[1], p)
  /\ UNCHANGED PHANDLE_TABLE

\* Mutated form: the phandle is registered for the node parsed first.
FdtProp_HandleOfRoot(p) ==
  /\ TreeProp(p)
  /\ prop_id < MAX_PROPS
  /\ PHANDLE_TABLE' = IF p.name = "phandle" THEN Append(PHANDLE_TABLE, <<p.value, 1>>)
                      ELSE PHANDLE_TABLE
  /\ StoreProp(Top, p)

FdtProp(p) ==
  /\ TreeProp(p)
  /\ LET isHandle == p.name = "phandle"
         overrun == \/ isHandle /\ Len(PHANDLE_TABLE) >= MAX_HANDLES
                    \/ prop_id >= MAX_PROPS IN
     \/ /\ ~overrun
        /\ PHANDLE_TABLE' = IF isHandle THEN Append(PHANDLE_TABLE, <<p.value, Top>>)
                            ELSE PHANDLE_TABLE
        /\ StoreProp(Top, p)
     \/ overrun /\ Panic

\* FDT_NOP is skipped, so it needs no step.  Any other token panics.
UnknownToken == phase = "parse" /\ Panic /\ UNCHANGED treeVars

FdtEnd ==
  /\ phase = "parse" /\ path = <<>> /\ tree # <<>>
  /\ phase' = "first"
  /\ UNCHANGED <<parserVars, next_dev, calls, treeVars>>

-----------------------------------------------------------------------------
(* Lookups.                                                                *)

\* The counted properties of d that have that name.
Hits(d, name) ==
  {i \in PropIndex : i < DEVICE_TABLE[d].prop_count /\ DEVICE_TABLE[d].properties[i].name = name}

find_property(d, name) ==
  IF Hits(d, name) = {} THEN NoProp ELSE DEVICE_TABLE[d].properties[Min(Hits(d, name))]

\* The last property of that name sets the number of cells.
Cells(d, name, default) ==
  IF Hits(d, name) = {} THEN default ELSE DEVICE_TABLE[d].properties[Max(Hits(d, name))].value

\* Mutated form: the cells of the device itself, which are those of its children.
get_parent_cells_Own(d) == <<Cells(d, "#address-cells", 2), Cells(d, "#size-cells", 1)>>

\* How many words an address and a size take in the device's reg.
get_parent_cells(d) ==
  LET parent == DEVICE_TABLE[d].parent IN
  IF parent = 0 THEN <<2, 1>>
  ELSE <<Cells(parent, "#address-cells", 2), Cells(parent, "#size-cells", 1)>>

\* The first device registered for the phandle, 0 if there is none.
find_device_by_phandle(phandle) ==
  LET hits == {i \in 1 .. Len(PHANDLE_TABLE) : PHANDLE_TABLE[i][1] = phandle} IN
  IF hits = {} THEN 0 ELSE PHANDLE_TABLE[Min(hits)][2]

\* The nodes above d, by following the parent pointers.
Ancestors[d \in 0 .. MaxNodes] ==
  IF d = 0 \/ DEVICE_TABLE[d].parent = 0 THEN {}
  ELSE {DEVICE_TABLE[d].parent} \cup Ancestors[DEVICE_TABLE[d].parent]

\* The walk starts at the parent and stops at the first node that has the
\* property.  A parent is always nearer the front of the table than its children.
find_interrupt_parent(d) ==
  LET hits == {a \in 1 .. DEVICE_COUNT :
                 a \in Ancestors[d] /\ find_property(a, "interrupt-parent") # NoProp} IN
  IF hits = {} THEN 0
  ELSE find_device_by_phandle(find_property(Max(hits), "interrupt-parent").value)

-----------------------------------------------------------------------------
(* init_devices                                                            *)

CONFIGURED_DEVICES == <<"arm,gic-v3", "arm,pl011", "arm,armv7-timer">>

\* The strings of d's compatible property, empty if none is found.
Compatible(d) ==
  LET p == find_property(d, "compatible") IN IF p = NoProp THEN {} ELSE p.value

\* The call init_devices makes for device d, that of the first match entry, and
\* what the driver gets from find_interrupt_parent and get_parent_cells.
SetupCalls(d) ==
  LET hits == {k \in DOMAIN CONFIGURED_DEVICES : CONFIGURED_DEVICES[k] \in Compatible(d)} IN
  IF hits = {} THEN <<>>
  ELSE <<[driver |-> CONFIGURED_DEVICES[Min(hits)], dev |-> d,
          intc |-> find_interrupt_parent(d), cells |-> get_parent_cells(d)]>>

IsGic(d) == "arm,gic-v3" \in Compatible(d)

FirstPass ==
  /\ phase = "first" /\ next_dev <= DEVICE_COUNT
  /\ calls' = IF IsGic(next_dev) THEN calls \o SetupCalls(next_dev) ELSE calls
  /\ next_dev' = next_dev + 1
  /\ UNCHANGED <<parserVars, phase, treeVars>>

FirstPassEnds ==
  /\ phase = "first" /\ next_dev > DEVICE_COUNT
  /\ phase' = "second"
  /\ next_dev' = 1
  /\ UNCHANGED <<parserVars, calls, treeVars>>

\* One device of the second pass: the calls it leads to, and the next device.
SecondPassWith(made, next) ==
  /\ phase = "second" /\ next_dev <= DEVICE_COUNT
  /\ calls' = calls \o made
  /\ next_dev' = next
  /\ UNCHANGED <<parserVars, phase, treeVars>>

OtherCalls(d) == IF IsGic(d) THEN <<>> ELSE SetupCalls(d)

\* Mutated form: the second pass does not leave the GIC out.
SecondPass_All == SecondPassWith(SetupCalls(next_dev), next_dev + 1)

\* Mutated form: the second pass stops at the first device that matches.
SecondPass_Break ==
  SecondPassWith(OtherCalls(next_dev),
                 IF OtherCalls(next_dev) # <<>> THEN DEVICE_COUNT + 1 ELSE next_dev + 1)

SecondPass == SecondPassWith(OtherCalls(next_dev), next_dev + 1)

SecondPassEnds ==
  /\ phase = "second" /\ next_dev > DEVICE_COUNT
  /\ phase' = "done"
  /\ UNCHANGED <<parserVars, next_dev, calls, treeVars>>

-----------------------------------------------------------------------------
Next ==
  \/ ParseHeader \/ FdtBeginNode \/ FdtEndNode \/ UnknownToken \/ FdtEnd
  \/ \E p \in Prop : FdtProp(p)
  \/ FirstPass \/ FirstPassEnds \/ SecondPass \/ SecondPassEnds

Spec == Init /\ [][Next]_vars

-----------------------------------------------------------------------------
Device == 1 .. DEVICE_COUNT
Leaf(d) == d \in Device /\ \A e \in Device : tree[e].parent # d
Closed(d) == d \in Device /\ \A i \in DOMAIN path : path[i] # d

TypeOK ==
  /\ DEVICE_COUNT <= MAX_DEVICES
  /\ \A d \in Device :
       /\ DEVICE_TABLE[d].parent \in 0 .. DEVICE_COUNT
       /\ DEVICE_TABLE[d].properties \in [PropIndex -> Prop \cup {NoProp}]
       /\ DEVICE_TABLE[d].prop_count \in 0 .. MAX_PROPS
  /\ Len(PHANDLE_TABLE) <= MAX_HANDLES
  /\ Len(stack) <= STACK_SIZE /\ \A i \in DOMAIN stack : stack[i] \in Device
  /\ prop_id \in 0 .. MAX_PROPS
  /\ phase \in {"header", "parse", "first", "second", "done", "panic"}
  /\ next_dev \in 1 .. DEVICE_COUNT + 1

\* Every device points to the table entry of its parent in the tree: the depth
\* stack of parse_dtb follows every nesting.
ParentsRight ==
  \A d \in Device : DEVICE_TABLE[d].parent = tree[d].parent

\* What find_property returns for a device is a property of that device in the
\* tree, even where prop_count is not the number of its properties.
FoundIsReal ==
  \A d \in Device : \A p \in Prop :
    LET f == find_property(d, p.name) IN f # NoProp => f \in tree[d].props

\* A device without children, once parsed, shows all its properties.
LeavesComplete ==
  \A d \in Device : (Leaf(d) /\ Closed(d)) =>
    \A p \in tree[d].props : find_property(d, p.name) = p

\* No device is set up twice, and none other than a GIC before a GIC: the two
\* passes of init_devices divide the devices between them.
SetupOrder ==
  \A i, j \in DOMAIN calls : i < j =>
    /\ calls[i].dev # calls[j].dev
    /\ calls[j].driver = "arm,gic-v3" => calls[i].driver = "arm,gic-v3"

\* v is what the tree says of the cells of that name for dev: the value its parent
\* gives, and the default if the parent gives none.
CellsInTree(dev, name, default, v) ==
  LET above == IF tree[dev].parent = 0 THEN {} ELSE tree[tree[dev].parent].props IN
  IF \E p \in above : p.name = name THEN [name |-> name, value |-> v] \in above
  ELSE v = default

\* Device d has more properties than its prop_count says: a child's count has
\* overwritten its own.
CountLost(d) == d # 0 /\ DEVICE_TABLE[d].prop_count < Cardinality(tree[d].props)

\* What a driver learns from other nodes is in the tree.  Its interrupt controller
\* is the node whose phandle an ancestor of its device names as interrupt parent, and
\* the cells that it decodes its reg with are those of its parent, and the defaults "if
\* not found".  The code breaks this promise of get_parent_cells where the parent's count
\* is lost, the fault that GicReadyFirst is about; the property says that it breaks it
\* nowhere else, and that a driver gets the defaults then, never other cells.
DriverSeesTree ==
  \A i \in DOMAIN calls :
    LET dev == calls[i].dev
        cells == calls[i].cells IN
    /\ calls[i].intc # 0 =>
         \E a \in Ancestors[dev] : \E p \in tree[a].props : \E q \in tree[calls[i].intc].props :
           p.name = "interrupt-parent" /\ q.name = "phandle" /\ p.value = q.value
    /\ \/ CellsInTree(dev, "#address-cells", 2, cells[1])
       \/ cells[1] = 2 /\ CountLost(tree[dev].parent)
    /\ \/ CellsInTree(dev, "#size-cells", 1, cells[2])
       \/ cells[2] = 1 /\ CountLost(tree[dev].parent)

\* Every device without children that a driver supports has been set up when
\* init_devices returns.
LeavesSetUp ==
  phase = "done" =>
    \A d \in Device : \A p \in tree[d].props :
      (/\ Leaf(d)
       /\ p.name = "compatible"
       /\ \E k \in DOMAIN CONFIGURED_DEVICES : CONFIGURED_DEVICES[k] \in p.value)
      => \E i \in DOMAIN calls : calls[i].dev = d

\* If the tree has a GIC, it is set up before every other device.
GicReadyFirst ==
  (\E d \in Device : \E p \in tree[d].props :
     p.name = "compatible" /\ "arm,gic-v3" \in p.value)
  => (calls # <<>> => calls[1].driver = "arm,gic-v3")
=============================================================================
