-------------------------- MODULE DeviceTreeProofs --------------------------
(***************************************************************************)
(* parse_dtb and init_devices, for every device tree, every set of         *)
(* properties and every size of the tables.                                *)
(***************************************************************************)
EXTENDS DeviceTree, SequenceTheorems, FiniteSetTheorems, WellFoundedInduction, TLAPS

\* A set of naturals that is not empty has a minimum.
LEMMA MinIn ==
  ASSUME NEW S \in SUBSET Nat, S # {}
  PROVE  Min(S) \in S /\ \A y \in S : Min(S) <= y
<1>1. \E x \in S : \A y \in S : ~(<<y, x>> \in OpToRel(<, Nat))
  BY NatLessThanWellFounded, WFMin, Zenon
<1>2. ASSUME NEW x \in S, NEW y \in S, y < x PROVE <<y, x>> \in OpToRel(<, Nat)
  <2>1. <<y, x>> \in Nat \X Nat
     OBVIOUS
  <2>2. <<y, x>>[1] = y /\ <<y, x>>[2] = x
     OBVIOUS
  <2>3. <<y, x>>[1] < <<y, x>>[2]
     BY <1>2
  <2> QED
    BY <1>2, <2>1, <2>2, <2>3, Zenon DEF OpToRel
<1>3. \E x \in S : \A y \in S : ~(y < x)
  BY <1>1, <1>2, Zenon
<1>4. \E x \in S : \A y \in S : x <= y
  BY <1>3
<1> QED  BY <1>4 DEF Min

-----------------------------------------------------------------------------
(* The tables, the stack and the tree keep their shape.                    *)

Phases == {"header", "parse", "first", "second", "done", "panic"}
Entry == [parent : Nat, properties : [PropIndex -> Prop \cup {NoProp}],
          prop_count : 0 .. MAX_PROPS]
Node == [parent : Nat, props : SUBSET Prop]
Handle == {<<p.value, d>> : p \in Prop, d \in Nat}

Tables ==
  /\ DEVICE_TABLE \in Seq(Entry) /\ DEVICE_COUNT <= MAX_DEVICES
  /\ PHANDLE_TABLE \in Seq(Handle) /\ Len(PHANDLE_TABLE) <= MAX_HANDLES
  /\ prop_id \in 0 .. MAX_PROPS
  /\ next_dev \in 1 .. DEVICE_COUNT + 1

Walk ==
  /\ phase \in Phases /\ fresh \in BOOLEAN
  /\ tree \in Seq(Node) /\ DEVICE_COUNT <= Len(tree)
  /\ stack \in Seq(Nat) /\ path \in Seq(Nat) /\ Len(stack) <= STACK_SIZE
  /\ \A k \in 1 .. Len(stack) : stack[k] \in 1 .. DEVICE_COUNT

\* Until parse_dtb panics the table has an entry for every node and the stack holds
\* the open ones.
InStep ==
  phase # "panic" => DEVICE_COUNT = Len(tree) /\ stack = path

\* Properties only come for an open node.
FreshOpen == fresh => path # <<>>

Shape == Tables /\ Walk /\ InStep /\ FreshOpen

\* The sizes of the source's arrays.
LEMMA Limits ==
  /\ MAX_DEVICES \in Nat \ {0} /\ MAX_PROPS \in Nat \ {0}
  /\ MAX_HANDLES \in Nat \ {0} /\ STACK_SIZE \in Nat \ {0}
BY LimitAssumption

\* The last element of a sequence, and the sequence without it.
LEMMA LastAndFront ==
  ASSUME NEW S, NEW s \in Seq(S), s # <<>>
  PROVE  /\ Len(s) \in Nat \ {0} /\ s[Len(s)] \in S
         /\ SubSeq(s, 1, Len(s) - 1) \in Seq(S)
         /\ Len(SubSeq(s, 1, Len(s) - 1)) = Len(s) - 1
         /\ \A k \in 1 .. Len(s) - 1 : SubSeq(s, 1, Len(s) - 1)[k] = s[k]
<1>1. Len(s) \in Nat \ {0} /\ Len(s) - 1 \in Int /\ 1 \in Int
  BY EmptySeq, LenProperties
<1>2. \A k \in 1 .. Len(s) : s[k] \in S
  BY ElementOfSeq
<1>3. \A k \in 1 .. Len(s) - 1 : s[k] \in S
  BY <1>1, <1>2
<1>4. /\ SubSeq(s, 1, Len(s) - 1) \in Seq(S)
      /\ Len(SubSeq(s, 1, Len(s) - 1)) = IF 1 <= Len(s) - 1 THEN Len(s) - 1 - 1 + 1 ELSE 0
      /\ \A k \in 1 .. Len(s) - 1 - 1 + 1 : SubSeq(s, 1, Len(s) - 1)[k] = s[1 + k - 1]
  BY <1>1, <1>3, SubSeqProperties
<1>5. /\ (IF 1 <= Len(s) - 1 THEN Len(s) - 1 - 1 + 1 ELSE 0) = Len(s) - 1
      /\ Len(s) \in 1 .. Len(s)
  <2>1. \A n \in Nat \ {0} : /\ (IF 1 <= n - 1 THEN n - 1 - 1 + 1 ELSE 0) = n - 1
                            /\ n \in 1 .. n
    OBVIOUS
  <2> QED  BY <1>1, <2>1
<1>6. ASSUME NEW k \in 1 .. Len(s) - 1
      PROVE  SubSeq(s, 1, Len(s) - 1)[k] = s[k]
  <2>1. k \in 1 .. Len(s) - 1 - 1 + 1 /\ 1 + k - 1 = k
    BY <1>1
  <2> QED  BY <1>4, <2>1
<1> QED  BY <1>1, <1>2, <1>4, <1>5, <1>6

\* What FDT_BEGIN_NODE does when the arrays have room.
Begin ==
  /\ TreeBegin
  /\ DEVICE_COUNT < MAX_DEVICES /\ Len(stack) < STACK_SIZE
  /\ DEVICE_TABLE' = Append(DEVICE_TABLE, NewDevice(IF stack = <<>> THEN 0 ELSE Top))
  /\ stack' = Append(stack, DEVICE_COUNT + 1)
  /\ prop_id' = 0
  /\ UNCHANGED <<PHANDLE_TABLE, phase, next_dev, calls>>

\* What FDT_PROP does when they have.
Store(p) ==
  /\ TreeProp(p)
  /\ prop_id < MAX_PROPS
  /\ p.name = "phandle" => Len(PHANDLE_TABLE) < MAX_HANDLES
  /\ PHANDLE_TABLE' = IF p.name = "phandle" THEN Append(PHANDLE_TABLE, <<p.value, Top>>)
                      ELSE PHANDLE_TABLE
  /\ StoreProp(Top, p)

\* A panic, at any token: the tree may have gone on, the kernel's state has not.
Stop ==
  /\ Panic
  /\ phase \in {"header", "parse"}
  /\ UNCHANGED treeVars \/ TreeBegin \/ \E p \in Prop : TreeProp(p)

\* A step of init_devices, or none.
Pass ==
  /\ UNCHANGED <<parserVars, treeVars>>
  /\ phase # "panic" /\ phase' \in Phases \ {"panic"}
  /\ next_dev' \in 1 .. DEVICE_COUNT + 1

\* The steps of the specification.
LEMMA Steps ==
  ASSUME Shape, [Next]_vars
  PROVE  \/ Begin \/ FdtEndNode \/ \E p \in Prop : Store(p)
         \/ Stop
         \/ Pass \/ UNCHANGED vars
<1>1. prop_id \in Nat /\ Len(PHANDLE_TABLE) \in Nat
  BY LenProperties DEF Shape, Tables
<1>2. CASE FdtBeginNode
  BY <1>2 DEF FdtBeginNode, Begin, Stop, TreeBegin
<1>3. ASSUME NEW p \in Prop, FdtProp(p) PROVE Store(p) \/ Stop
  <2>1. CASE Panic
    BY <1>3, <2>1 DEF FdtProp, Stop, TreeProp
  <2>2. CASE ~Panic
    <3>1. /\ TreeProp(p) /\ StoreProp(Top, p)
          /\ PHANDLE_TABLE' = IF p.name = "phandle" THEN Append(PHANDLE_TABLE, <<p.value, Top>>)
                              ELSE PHANDLE_TABLE
          /\ ~(prop_id >= MAX_PROPS)
          /\ ~(p.name = "phandle" /\ Len(PHANDLE_TABLE) >= MAX_HANDLES)
      BY <1>3, <2>2 DEF FdtProp
    <3>2. prop_id < MAX_PROPS /\ (p.name = "phandle" => Len(PHANDLE_TABLE) < MAX_HANDLES)
      BY <1>1, <3>1, Limits
    <3> QED  BY <3>1, <3>2 DEF Store
  <2> QED  BY <2>1, <2>2
<1>4. CASE UnknownToken
  BY <1>4 DEF UnknownToken, Stop
<1>5. /\ next_dev \in 1 .. DEVICE_COUNT + 1 /\ DEVICE_COUNT \in Nat
      /\ 1 \in 1 .. DEVICE_COUNT + 1
      /\ next_dev <= DEVICE_COUNT => next_dev + 1 \in 1 .. DEVICE_COUNT + 1
      /\ phase \in Phases
  BY LenProperties DEF Shape, Tables, Walk, DEVICE_COUNT
<1>6. CASE ParseHeader
  BY <1>5, <1>6 DEF ParseHeader, Stop, Pass, Phases
<1>7. CASE FdtEnd \/ FirstPass \/ FirstPassEnds \/ SecondPass \/ SecondPassEnds
  BY <1>5, <1>7 DEF FdtEnd, FirstPass, FirstPassEnds, SecondPass, SecondPassWith,
                    SecondPassEnds, Pass, Phases
<1> QED  BY <1>2, <1>3, <1>4, <1>6, <1>7 DEF Next

\* A node begins: the table, the stack, the tree and its path grow by one.
LEMMA BeginEffect ==
  ASSUME Shape, Begin
  PROVE  /\ Shape'
         /\ Len(tree') = Len(tree) + 1 /\ DEVICE_COUNT' = DEVICE_COUNT + 1
         /\ \A d \in 1 .. Len(tree) : tree'[d] = tree[d]
         /\ \A d \in Device : DEVICE_TABLE'[d] = DEVICE_TABLE[d]
         /\ tree'[Len(tree) + 1] =
              [parent |-> IF path = <<>> THEN 0 ELSE path[Len(path)], props |-> {}]
         /\ DEVICE_TABLE'[Len(tree) + 1] =
              NewDevice(IF path = <<>> THEN 0 ELSE path[Len(path)])
         /\ Len(path') = Len(path) + 1 /\ path'[Len(path) + 1] = Len(tree) + 1
         /\ \A k \in 1 .. Len(path) : path'[k] = path[k]
         /\ phase' = "parse" /\ phase = "parse" /\ prop_id' = 0 /\ fresh'
<1> DEFINE parent == IF path = <<>> THEN 0 ELSE path[Len(path)]
           node == [parent |-> parent, props |-> {}]
           n == Len(tree) + 1
<1>1. /\ phase = "parse" /\ phase' = "parse" /\ fresh' = TRUE /\ prop_id' = 0
      /\ next_dev' = next_dev /\ PHANDLE_TABLE' = PHANDLE_TABLE
  BY DEF Begin, TreeBegin
<1>2. DEVICE_COUNT = Len(tree) /\ stack = path
  BY <1>1 DEF Shape, InStep
<1>3. /\ tree \in Seq(Node) /\ path \in Seq(Nat) /\ stack \in Seq(Nat)
      /\ DEVICE_TABLE \in Seq(Entry)
      /\ Len(tree) \in Nat /\ Len(path) \in Nat /\ Len(DEVICE_TABLE) \in Nat
  BY LenProperties DEF Shape, Walk, Tables
<1>4. parent \in Nat
  BY <1>3, LastAndFront
<1>5. node \in Node /\ NewDevice(parent) \in Entry /\ n \in Nat
  BY <1>3, <1>4, Limits DEF Node, Entry, NewDevice, PropIndex
<1>6. /\ tree' = Append(tree, node) /\ path' = Append(path, n)
      /\ stack' = Append(path, n) /\ DEVICE_TABLE' = Append(DEVICE_TABLE, NewDevice(parent))
  BY <1>2 DEF Begin, TreeBegin, Top, DEVICE_COUNT
<1> HIDE DEF parent, node, n
<1>7. /\ tree' \in Seq(Node) /\ Len(tree') = Len(tree) + 1
      /\ \A d \in 1 .. Len(tree) : tree'[d] = tree[d]
      /\ tree'[Len(tree) + 1] = node
  BY <1>3, <1>5, <1>6, AppendProperties
<1>8. /\ path' \in Seq(Nat) /\ Len(path') = Len(path) + 1 /\ path' # <<>>
      /\ \A k \in 1 .. Len(path) : path'[k] = path[k]
      /\ path'[Len(path) + 1] = n
  <2>1. Append(path, n) \in Seq(Nat)
    BY <1>3, <1>5, AppendProperties
  <2>2. \A k \in 1 .. Len(path) : Append(path, n)[k] = path[k]
    BY <1>3, <1>5, AppendProperties
  <2>3. Append(path, n)[Len(path) + 1] = n
    BY <1>3, <1>5, AppendProperties
  <2>4. Len(Append(path, n)) = Len(path) + 1
    BY <1>3, <1>5, AppendProperties
  <2>5. Len(Append(path, n)) # 0 /\ Len(<<>>) = 0
    BY <1>3, <2>4, EmptySeq
  <2>6. Append(path, n) # <<>>
    BY <2>5
  <2> QED  BY <1>6, <2>1, <2>2, <2>3, <2>4, <2>6
<1>9. /\ DEVICE_TABLE' \in Seq(Entry) /\ Len(DEVICE_TABLE') = Len(DEVICE_TABLE) + 1
      /\ \A d \in 1 .. Len(DEVICE_TABLE) : DEVICE_TABLE'[d] = DEVICE_TABLE[d]
      /\ DEVICE_TABLE'[Len(DEVICE_TABLE) + 1] = NewDevice(parent)
  BY <1>3, <1>5, <1>6, AppendProperties
<1>10. DEVICE_COUNT' = Len(DEVICE_TABLE') /\ DEVICE_COUNT = Len(DEVICE_TABLE)
  BY DEF DEVICE_COUNT
<1>11. Tables'
  BY <1>1, <1>2, <1>3, <1>9, <1>10, Limits DEF Shape, Tables, Begin
<1>12. stack' = path'
  BY <1>6
<1>13. Walk'
  <2>1. Len(stack') <= STACK_SIZE
    BY <1>2, <1>3, <1>8, <1>12, Limits DEF Begin
  <2>2. ASSUME NEW k \in 1 .. Len(stack') PROVE stack'[k] \in 1 .. DEVICE_COUNT'
    <3>1. CASE k = Len(path) + 1
      BY <1>2, <1>3, <1>8, <1>9, <1>10, <1>12, <3>1 DEF n
    <3>2. CASE k \in 1 .. Len(path)
      <4>1. path[k] \in 1 .. DEVICE_COUNT
        BY <1>2, <3>2 DEF Shape, Walk
      <4>2. stack'[k] = path[k]
        BY <1>8, <1>12, <3>2
      <4>3. DEVICE_COUNT' = DEVICE_COUNT + 1 /\ DEVICE_COUNT \in Nat
        BY <1>3, <1>9, <1>10
      <4> QED  BY <4>1, <4>2, <4>3
    <3>3. Len(stack') = Len(path) + 1
      BY <1>8, <1>12
    <3>4. k = Len(path) + 1 \/ k \in 1 .. Len(path)
      BY <1>3, <3>3
    <3> QED  BY <3>1, <3>2, <3>4
  <2> QED  BY <1>1, <1>2, <1>3, <1>7, <1>8, <1>9, <1>10, <1>12, <2>1, <2>2 DEF Walk, Phases
<1>14. Shape'
  BY <1>1, <1>2, <1>7, <1>8, <1>9, <1>10, <1>11, <1>12, <1>13 DEF Shape, InStep, FreshOpen
<1> QED
  BY <1>1, <1>2, <1>7, <1>8, <1>9, <1>10, <1>14 DEF parent, node, n, Device

\* The innermost node ends: it leaves the stack, and gets its property count.
LEMMA EndEffect ==
  ASSUME Shape, FdtEndNode
  PROVE  /\ Shape'
         /\ tree' = tree /\ DEVICE_COUNT' = DEVICE_COUNT
         /\ path # <<>> /\ Len(path) \in Nat \ {0} /\ path[Len(path)] \in Device
         /\ DEVICE_TABLE' = [DEVICE_TABLE EXCEPT ![path[Len(path)]].prop_count = prop_id]
         /\ Len(path') = Len(path) - 1
         /\ \A k \in 1 .. Len(path) - 1 : path'[k] = path[k]
         /\ phase = "parse" /\ phase' = "parse" /\ ~fresh'
<1> DEFINE top == path[Len(path)]
<1>1. /\ phase = "parse" /\ phase' = "parse" /\ fresh' = FALSE /\ prop_id' = prop_id
      /\ next_dev' = next_dev /\ PHANDLE_TABLE' = PHANDLE_TABLE /\ tree' = tree
      /\ path # <<>>
  BY DEF FdtEndNode, TreeEnd
<1>2. DEVICE_COUNT = Len(tree) /\ stack = path
  BY <1>1 DEF Shape, InStep
<1>3. /\ path \in Seq(Nat) /\ DEVICE_TABLE \in Seq(Entry) /\ tree \in Seq(Node)
      /\ Len(DEVICE_TABLE) \in Nat
  BY LenProperties DEF Shape, Walk, Tables
<1>4. Len(path) \in Nat \ {0}
  BY <1>1, <1>3, LastAndFront
<1>5. top \in 1 .. Len(DEVICE_TABLE)
  <2>1. Len(path) \in 1 .. Len(path)
    BY <1>4
  <2> QED  BY <1>2, <2>1 DEF Shape, Walk, DEVICE_COUNT
<1>6. /\ path' = SubSeq(path, 1, Len(path) - 1) /\ stack' = path'
      /\ DEVICE_TABLE' = [DEVICE_TABLE EXCEPT ![top].prop_count = prop_id]
  BY <1>2 DEF FdtEndNode, TreeEnd, Top
<1> HIDE DEF top
<1>7. /\ path' \in Seq(Nat) /\ Len(path') = Len(path) - 1
      /\ \A k \in 1 .. Len(path) - 1 : path'[k] = path[k]
  BY <1>1, <1>3, <1>6, LastAndFront
<1>8. DEVICE_TABLE[top] \in Entry /\ prop_id \in 0 .. MAX_PROPS
  BY <1>3, <1>5, ElementOfSeq DEF Shape, Tables
<1>9. [DEVICE_TABLE[top] EXCEPT !.prop_count = prop_id] \in Entry
  BY <1>8 DEF Entry
<1>10. DEVICE_TABLE' \in Seq(Entry) /\ Len(DEVICE_TABLE') = Len(DEVICE_TABLE)
  BY <1>3, <1>5, <1>6, <1>9, ExceptSeq
<1>11. DEVICE_COUNT' = DEVICE_COUNT
  BY <1>10 DEF DEVICE_COUNT
<1>12. Tables'
  BY <1>1, <1>10, <1>11 DEF Shape, Tables
<1>13. Walk'
  <2>1. ASSUME NEW k \in 1 .. Len(stack') PROVE stack'[k] \in 1 .. DEVICE_COUNT'
    <3>1. k \in 1 .. Len(path) - 1 /\ k \in 1 .. Len(stack)
      BY <1>2, <1>4, <1>6, <1>7
    <3> QED  BY <1>2, <1>6, <1>7, <1>11, <3>1 DEF Shape, Walk
  <2>2. Len(stack') <= STACK_SIZE
    BY <1>2, <1>4, <1>6, <1>7, Limits DEF Shape, Walk
  <2> QED  BY <1>1, <1>6, <1>7, <1>11, <2>1, <2>2 DEF Shape, Walk, Phases
<1>14. Shape'
  BY <1>1, <1>2, <1>6, <1>11, <1>12, <1>13 DEF Shape, InStep, FreshOpen
<1> QED  BY <1>1, <1>4, <1>5, <1>6, <1>7, <1>11, <1>14 DEF top, Device, DEVICE_COUNT

\* A property of the innermost node: stored in its entry, at index prop_id.
LEMMA StoreEffect ==
  ASSUME Shape, NEW p \in Prop, Store(p)
  PROVE  /\ Shape'
         /\ path' = path /\ path # <<>> /\ path[Len(path)] \in Device
         /\ DEVICE_COUNT' = DEVICE_COUNT /\ Len(tree') = Len(tree)
         /\ prop_id \in PropIndex /\ prop_id' = prop_id + 1
         /\ \A q \in tree[path[Len(path)]].props : q.name # p.name
         /\ tree' = [tree EXCEPT ![path[Len(path)]].props = @ \cup {p}]
         /\ DEVICE_TABLE' = [DEVICE_TABLE EXCEPT ![path[Len(path)]].properties[prop_id] = p]
         /\ phase = "parse" /\ phase' = "parse" /\ fresh /\ fresh'
<1> DEFINE top == path[Len(path)]
<1>1. /\ phase = "parse" /\ phase' = "parse" /\ fresh /\ fresh' = fresh /\ path' = path
      /\ next_dev' = next_dev /\ prop_id' = prop_id + 1 /\ stack' = stack
      /\ prop_id < MAX_PROPS
      /\ \A q \in tree[top].props : q.name # p.name
      /\ tree' = [tree EXCEPT ![top].props = @ \cup {p}]
  BY DEF Store, TreeProp, StoreProp
<1>2. DEVICE_COUNT = Len(tree) /\ stack = path /\ path # <<>>
  BY <1>1 DEF Shape, InStep, FreshOpen
<1>3. /\ path \in Seq(Nat) /\ DEVICE_TABLE \in Seq(Entry) /\ tree \in Seq(Node)
      /\ Len(DEVICE_TABLE) \in Nat /\ Len(tree) \in Nat /\ PHANDLE_TABLE \in Seq(Handle)
      /\ Len(PHANDLE_TABLE) \in Nat
  BY LenProperties DEF Shape, Walk, Tables
<1>4. Len(path) \in Nat \ {0}
  BY <1>2, <1>3, LastAndFront
<1>5. top \in 1 .. Len(DEVICE_TABLE) /\ top \in 1 .. Len(tree)
  <2>1. Len(path) \in 1 .. Len(path)
    BY <1>4
  <2> QED  BY <1>2, <2>1 DEF Shape, Walk, DEVICE_COUNT
<1>6. DEVICE_TABLE' = [DEVICE_TABLE EXCEPT ![top].properties[prop_id] = p]
  BY <1>2 DEF Store, StoreProp, Top
<1>7. prop_id \in PropIndex
  BY <1>1, Limits DEF Shape, Tables, PropIndex
<1> HIDE DEF top
<1>8. DEVICE_TABLE[top] \in Entry /\ tree[top] \in Node
  BY <1>3, <1>5, ElementOfSeq
<1>9. [DEVICE_TABLE[top] EXCEPT !.properties[prop_id] = p] \in Entry
  BY <1>7, <1>8 DEF Entry
<1>10. [tree[top] EXCEPT !.props = @ \cup {p}] \in Node
  BY <1>8 DEF Node
<1>11. DEVICE_TABLE' \in Seq(Entry) /\ Len(DEVICE_TABLE') = Len(DEVICE_TABLE)
  BY <1>3, <1>5, <1>6, <1>9, ExceptSeq
<1>12. tree' \in Seq(Node) /\ Len(tree') = Len(tree)
  BY <1>1, <1>3, <1>5, <1>10, ExceptSeq
<1>13. DEVICE_COUNT' = DEVICE_COUNT
  BY <1>11 DEF DEVICE_COUNT
<1>14. PHANDLE_TABLE' \in Seq(Handle) /\ Len(PHANDLE_TABLE') <= MAX_HANDLES
  <2>1. CASE p.name = "phandle"
    <3>1. PHANDLE_TABLE' = Append(PHANDLE_TABLE, <<p.value, top>>)
      BY <1>2, <2>1 DEF Store, Top, top
    <3>2. <<p.value, top>> \in Handle
      BY <1>3, <1>5 DEF Handle
    <3>3. Len(PHANDLE_TABLE) < MAX_HANDLES
      BY <2>1 DEF Store
    <3> QED  BY <1>3, <3>1, <3>2, <3>3, AppendProperties, Limits
  <2>2. CASE p.name # "phandle"
    BY <2>2 DEF Store, Shape, Tables
  <2> QED  BY <2>1, <2>2
<1>15. Tables'
  BY <1>1, <1>7, <1>11, <1>13, <1>14, Limits DEF Shape, Tables, PropIndex
<1>16. Walk'
  BY <1>1, <1>12, <1>13 DEF Shape, Walk, Phases
<1>17. Shape'
  BY <1>1, <1>2, <1>12, <1>13, <1>15, <1>16 DEF Shape, InStep, FreshOpen
<1> QED
  BY <1>1, <1>2, <1>5, <1>6, <1>7, <1>12, <1>13, <1>17 DEF top, Device, DEVICE_COUNT

\* A panic leaves the kernel's state; the tree keeps what it had.
LEMMA StopEffect ==
  ASSUME Shape, Stop
  PROVE  /\ Shape' /\ phase' = "panic"
         /\ DEVICE_TABLE' = DEVICE_TABLE /\ calls' = calls /\ DEVICE_COUNT' = DEVICE_COUNT
         /\ Len(path) <= Len(path') /\ \A k \in 1 .. Len(path) : path'[k] = path[k]
         /\ \A d \in Device : /\ tree'[d].parent = tree[d].parent
                              /\ tree[d].props \subseteq tree'[d].props
         /\ \A d \in Device : (\A k \in 1 .. Len(path) : path[k] # d) => tree'[d] = tree[d]
<1>1. /\ phase' = "panic" /\ UNCHANGED <<parserVars, next_dev, calls>>
      /\ phase \in {"header", "parse"}
  BY DEF Stop, Panic
<1>2. DEVICE_COUNT = Len(tree) /\ stack = path
  BY <1>1 DEF Shape, InStep
<1>3. /\ path \in Seq(Nat) /\ tree \in Seq(Node)
      /\ Len(tree) \in Nat /\ Len(path) \in Nat
  BY LenProperties DEF Shape, Walk
<1>4. Tables' /\ DEVICE_COUNT' = DEVICE_COUNT
  BY <1>1 DEF Shape, Tables, parserVars, DEVICE_COUNT
<1>5. CASE UNCHANGED treeVars
  <2>1. tree' = tree /\ path' = path /\ fresh' = fresh
    BY <1>5 DEF treeVars
  <2> QED  BY <1>1, <1>3, <1>4, <2>1 DEF Shape, Walk, Phases, InStep, FreshOpen, parserVars
<1>6. CASE TreeBegin
  <2> DEFINE parent == IF path = <<>> THEN 0 ELSE path[Len(path)]
             node == [parent |-> parent, props |-> {}]
             n == Len(tree) + 1
  <2>1. node \in Node /\ n \in Nat
    <3>1. parent \in Nat
      BY <1>3, LastAndFront
    <3> QED  BY <1>3, <3>1 DEF Node
  <2>2. tree' = Append(tree, node) /\ path' = Append(path, n) /\ fresh' = TRUE
    BY <1>6 DEF TreeBegin
  <2> HIDE DEF node, n
  <2>3. /\ tree' \in Seq(Node) /\ Len(tree') = Len(tree) + 1
        /\ \A d \in 1 .. Len(tree) : tree'[d] = tree[d]
    BY <1>3, <2>1, <2>2, AppendProperties
  <2>4. path' \in Seq(Nat) /\ Len(path') = Len(path) + 1
    BY <1>3, <2>1, <2>2, AppendProperties
  <2>5. \A k \in 1 .. Len(path) : path'[k] = path[k]
    BY <1>3, <2>1, <2>2, AppendProperties
  <2>6. path' # <<>>
    BY <1>3, <2>4, EmptySeq
  <2>7. Walk'
    BY <1>1, <1>2, <1>3, <1>4, <2>2, <2>3, <2>4 DEF Shape, Walk, Phases, parserVars
  <2>8. Shape'
    BY <1>1, <1>4, <2>6, <2>7 DEF Shape, InStep, FreshOpen
  <2> QED  BY <1>1, <1>2, <1>3, <1>4, <2>3, <2>4, <2>5, <2>8 DEF Device, parserVars
<1>7. ASSUME NEW p \in Prop, TreeProp(p)
      PROVE  /\ Shape' /\ path' = path
             /\ \A d \in Device : /\ tree'[d].parent = tree[d].parent
                                  /\ tree[d].props \subseteq tree'[d].props
             /\ \A d \in Device : d # path[Len(path)] => tree'[d] = tree[d]
             /\ Len(path) \in 1 .. Len(path)
  <2> DEFINE top == path[Len(path)]
  <2>1. /\ path' = path /\ fresh' = fresh /\ fresh
        /\ tree' = [tree EXCEPT ![top].props = @ \cup {p}]
    BY <1>7 DEF TreeProp
  <2>2. path # <<>>
    BY <2>1 DEF Shape, FreshOpen
  <2>3. Len(path) \in 1 .. Len(path)
    BY <1>3, <2>2, LastAndFront
  <2>4. top \in 1 .. Len(tree)
    BY <1>2, <2>3 DEF Shape, Walk
  <2> HIDE DEF top
  <2>5. \A d \in 1 .. Len(tree) : tree[d] \in Node
    BY <1>3, ElementOfSeq
  <2>6. [tree[top] EXCEPT !.props = @ \cup {p}] \in Node
    BY <2>4, <2>5 DEF Node
  <2>7. /\ tree' \in Seq(Node) /\ Len(tree') = Len(tree)
        /\ \A d \in 1 .. Len(tree) :
             tree'[d] = IF d = top THEN [tree[top] EXCEPT !.props = @ \cup {p}] ELSE tree[d]
    BY <1>3, <2>1, <2>4, <2>6, ExceptSeq
  <2>8. \A d \in Device : /\ tree'[d].parent = tree[d].parent
                          /\ tree[d].props \subseteq tree'[d].props
    BY <1>2, <2>4, <2>5, <2>7 DEF Device, Node
  <2>9. Shape'
    BY <1>1, <1>4, <2>1, <2>7 DEF Shape, Walk, Phases, InStep, FreshOpen, parserVars
  <2> QED  BY <1>2, <2>1, <2>3, <2>7, <2>8, <2>9 DEF top, Device
<1>8. ASSUME NEW p \in Prop, TreeProp(p)
      PROVE  \A d \in Device : (\A k \in 1 .. Len(path) : path[k] # d) => tree'[d] = tree[d]
  BY <1>7, <1>8
<1> QED  BY <1>1, <1>3, <1>4, <1>5, <1>6, <1>7, <1>8 DEF Stop, parserVars

\* init_devices changes neither the tables nor the tree.
LEMMA PassEffect ==
  ASSUME Shape, Pass \/ UNCHANGED vars
  PROVE  /\ Shape'
         /\ UNCHANGED <<DEVICE_TABLE, tree, path, fresh, prop_id>> /\ DEVICE_COUNT' = DEVICE_COUNT
         /\ phase' = "panic" <=> phase = "panic"
<1>1. CASE Pass
  BY <1>1 DEF Pass, Shape, Tables, Walk, InStep, FreshOpen, parserVars, treeVars, DEVICE_COUNT
<1>2. CASE UNCHANGED vars
  BY <1>2 DEF vars, Shape, Tables, Walk, InStep, FreshOpen, parserVars, treeVars, DEVICE_COUNT
<1> QED  BY <1>1, <1>2

-----------------------------------------------------------------------------
(* The parent pointers and the stored properties.                          *)

\* Every entry has the parent of its node, which is an entry before it or none.
Parents ==
  \A d \in Device : /\ DEVICE_TABLE[d].parent = tree[d].parent
                    /\ DEVICE_TABLE[d].parent \in 0 .. DEVICE_COUNT

\* What an entry stores, at whatever index, is a property of its node.
StoredIsReal ==
  \A d \in Device : \A i \in PropIndex :
    DEVICE_TABLE[d].properties[i] \in tree[d].props \cup {NoProp}

\* A new node is the child of the innermost open one, which the stack holds.
LEMMA BeginKeeps ==
  ASSUME Shape, Parents, StoredIsReal, Begin
  PROVE  Parents' /\ StoredIsReal'
<1> DEFINE n == Len(tree) + 1
           parent == IF path = <<>> THEN 0 ELSE path[Len(path)]
<1>1. /\ DEVICE_COUNT' = DEVICE_COUNT + 1
      /\ \A d \in 1 .. Len(tree) : tree'[d] = tree[d]
      /\ \A d \in Device : DEVICE_TABLE'[d] = DEVICE_TABLE[d]
      /\ tree'[n] = [parent |-> parent, props |-> {}]
      /\ DEVICE_TABLE'[n] = NewDevice(parent)
      /\ phase = "parse"
  BY BeginEffect
<1>2. DEVICE_COUNT = Len(tree) /\ DEVICE_COUNT \in Nat /\ stack = path
  BY <1>1, LenProperties DEF Shape, InStep, Tables, DEVICE_COUNT
<1>3. parent \in 0 .. DEVICE_COUNT
  <2>1. CASE path # <<>>
    <3>1. Len(path) \in 1 .. Len(path)
      BY <2>1, LastAndFront DEF Shape, Walk
    <3> QED  BY <1>2, <2>1, <3>1 DEF Shape, Walk
  <2> QED  BY <1>2, <2>1
<1> HIDE DEF n, parent
<1>4. ASSUME NEW d \in 1 .. DEVICE_COUNT'
      PROVE  d \in Device \/ d = n
  BY <1>1, <1>2 DEF Device, n
<1>5. ASSUME NEW d \in Device
      PROVE  DEVICE_TABLE'[d] = DEVICE_TABLE[d] /\ tree'[d] = tree[d]
  BY <1>1, <1>2 DEF Device
<1>6. Parents'
  <2>1. ASSUME NEW d \in 1 .. DEVICE_COUNT'
        PROVE  /\ DEVICE_TABLE'[d].parent = tree'[d].parent
               /\ DEVICE_TABLE'[d].parent \in 0 .. DEVICE_COUNT'
    <3>1. CASE d = n
      BY <1>1, <1>2, <1>3, <3>1 DEF NewDevice
    <3>2. CASE d \in Device
      BY <1>1, <1>2, <1>5, <3>2 DEF Parents
    <3> QED  BY <1>4, <3>1, <3>2
  <2> QED  BY <2>1 DEF Parents, Device
<1>7. StoredIsReal'
  <2>1. ASSUME NEW d \in 1 .. DEVICE_COUNT', NEW i \in PropIndex
        PROVE  DEVICE_TABLE'[d].properties[i] \in tree'[d].props \cup {NoProp}
    <3>1. CASE d = n
      BY <1>1, <3>1 DEF NewDevice
    <3>2. CASE d \in Device
      BY <1>5, <3>2 DEF StoredIsReal
    <3> QED  BY <1>4, <3>1, <3>2
  <2> QED  BY <2>1 DEF StoredIsReal, Device
<1> QED  BY <1>6, <1>7

\* A property goes to the entry of the node it belongs to.
LEMMA StoreKeeps ==
  ASSUME Shape, Parents, StoredIsReal, NEW p \in Prop, Store(p)
  PROVE  Parents' /\ StoredIsReal'
<1> DEFINE top == path[Len(path)]
<1>1. /\ top \in Device /\ DEVICE_COUNT' = DEVICE_COUNT /\ prop_id \in PropIndex
      /\ tree' = [tree EXCEPT ![top].props = @ \cup {p}]
      /\ DEVICE_TABLE' = [DEVICE_TABLE EXCEPT ![top].properties[prop_id] = p]
      /\ phase = "parse"
  BY StoreEffect
<1>2. /\ tree \in Seq(Node) /\ DEVICE_TABLE \in Seq(Entry) /\ DEVICE_COUNT = Len(tree)
  BY <1>1 DEF Shape, Walk, Tables, InStep
<1> HIDE DEF top
<1>3. /\ DOMAIN tree = Device /\ DOMAIN DEVICE_TABLE = Device /\ Device' = Device
      /\ \A d \in Device : tree[d] \in Node /\ DEVICE_TABLE[d] \in Entry
  BY <1>1, <1>2, LenProperties, ElementOfSeq DEF Device, DEVICE_COUNT
<1>4. ASSUME NEW d \in Device
      PROVE  /\ tree'[d].parent = tree[d].parent
             /\ DEVICE_TABLE'[d].parent = DEVICE_TABLE[d].parent
             /\ tree[d].props \subseteq tree'[d].props
             /\ d = top => p \in tree'[d].props
             /\ \A i \in PropIndex :
                  \/ DEVICE_TABLE'[d].properties[i] = DEVICE_TABLE[d].properties[i]
                  \/ d = top /\ DEVICE_TABLE'[d].properties[i] = p
  BY <1>1, <1>3 DEF Node, Entry
<1>5. Parents'
  BY <1>1, <1>3, <1>4 DEF Parents
<1>6. StoredIsReal'
  <2>1. ASSUME NEW d \in Device, NEW i \in PropIndex
        PROVE  DEVICE_TABLE'[d].properties[i] \in tree'[d].props \cup {NoProp}
    BY <1>4 DEF StoredIsReal
  <2> QED  BY <1>3, <2>1 DEF StoredIsReal
<1> QED  BY <1>5, <1>6

\* Ending a node changes its property count only.
LEMMA EndKeeps ==
  ASSUME Shape, Parents, StoredIsReal, FdtEndNode
  PROVE  Parents' /\ StoredIsReal'
<1> DEFINE top == path[Len(path)]
<1>1. /\ top \in Device /\ DEVICE_COUNT' = DEVICE_COUNT /\ tree' = tree
      /\ DEVICE_TABLE' = [DEVICE_TABLE EXCEPT ![top].prop_count = prop_id]
  BY EndEffect
<1>2. DEVICE_TABLE \in Seq(Entry)
  BY DEF Shape, Tables
<1> HIDE DEF top
<1>3. /\ DOMAIN DEVICE_TABLE = Device /\ Device' = Device
      /\ \A d \in Device : DEVICE_TABLE[d] \in Entry
  BY <1>1, <1>2, LenProperties, ElementOfSeq DEF Device, DEVICE_COUNT
<1>4. ASSUME NEW d \in Device
      PROVE  /\ DEVICE_TABLE'[d].parent = DEVICE_TABLE[d].parent
             /\ DEVICE_TABLE'[d].properties = DEVICE_TABLE[d].properties
  BY <1>1, <1>3 DEF Entry
<1> QED  BY <1>1, <1>3, <1>4 DEF Parents, StoredIsReal

\* The inductive invariant of the parser's tables.
TablesRight == Shape /\ Parents /\ StoredIsReal

LEMMA TablesInvariant == Spec => []TablesRight
<1>1. Init => TablesRight
  <2> SUFFICES ASSUME Init PROVE TablesRight
    OBVIOUS
  <2>1. \A S : <<>> \in Seq(S) /\ Len(<<>>) = 0
    BY EmptySeq
  <2>2. Shape
    <3>1. DEVICE_COUNT = 0 /\ Len(tree) = 0 /\ Len(stack) = 0 /\ Len(PHANDLE_TABLE) = 0
      BY <2>1 DEF Init, DEVICE_COUNT
    <3>2. Tables
      BY <2>1, <3>1, Limits DEF Init, Tables
    <3>3. Walk
      <4>1. phase \in Phases /\ fresh \in BOOLEAN
        BY DEF Init, Phases
      <4>2. tree \in Seq(Node) /\ stack \in Seq(Nat) /\ path \in Seq(Nat)
        BY <2>1 DEF Init
      <4> QED  BY <3>1, <4>1, <4>2, Limits DEF Walk
    <3> QED  BY <3>1, <3>2, <3>3 DEF Init, Shape, InStep, FreshOpen
  <2>3. Device = {}
    BY <2>1 DEF Init, Device, DEVICE_COUNT
  <2> QED  BY <2>2, <2>3 DEF TablesRight, Parents, StoredIsReal
<1>2. TablesRight /\ [Next]_vars => TablesRight'
  <2> SUFFICES ASSUME TablesRight, [Next]_vars PROVE TablesRight'
    OBVIOUS
  <2> USE DEF TablesRight
  <2>1. CASE Begin
    BY <2>1, BeginEffect, BeginKeeps
  <2>2. CASE FdtEndNode
    BY <2>2, EndEffect, EndKeeps
  <2>3. ASSUME NEW p \in Prop, Store(p) PROVE TablesRight'
    BY <2>3, StoreEffect, StoreKeeps
  <2>4. CASE Stop
    <3>1. Shape' /\ DEVICE_TABLE' = DEVICE_TABLE /\ DEVICE_COUNT' = DEVICE_COUNT
      BY <2>4, StopEffect
    <3>2. \A d \in Device : /\ tree'[d].parent = tree[d].parent
                            /\ tree[d].props \subseteq tree'[d].props
      BY <2>4, StopEffect
    <3> QED  BY <3>1, <3>2 DEF Parents, StoredIsReal, Device
  <2>5. CASE Pass \/ UNCHANGED vars
    <3>1. Shape' /\ DEVICE_TABLE' = DEVICE_TABLE /\ DEVICE_COUNT' = DEVICE_COUNT /\ tree' = tree
      BY <2>5, PassEffect
    <3> QED  BY <3>1 DEF Parents, StoredIsReal, Device
  <2> QED  BY <2>1, <2>2, <2>3, <2>4, <2>5, Steps
<1> QED  BY <1>1, <1>2, PTL DEF Spec

\* No array of parse_dtb is indexed outside its bounds, however deep or wide the tree
\* is: the checks panic first.
THEOREM DeviceTreeTypeCorrect == Spec => []TypeOK
<1>1. TablesRight => TypeOK
  <2> SUFFICES ASSUME TablesRight PROVE TypeOK
    OBVIOUS
  <2>1. /\ DOMAIN DEVICE_TABLE = Device /\ DOMAIN stack = 1 .. Len(stack)
        /\ \A d \in Device : DEVICE_TABLE[d] \in Entry
    BY LenProperties, ElementOfSeq DEF TablesRight, Shape, Tables, Walk, Device, DEVICE_COUNT
  <2>2. \A d \in Device :
          /\ DEVICE_TABLE[d].parent \in 0 .. DEVICE_COUNT
          /\ DEVICE_TABLE[d].properties \in [PropIndex -> Prop \cup {NoProp}]
          /\ DEVICE_TABLE[d].prop_count \in 0 .. MAX_PROPS
    BY <2>1 DEF TablesRight, Parents, Entry
  <2> QED  BY <2>1, <2>2 DEF TablesRight, Shape, Tables, Walk, Device, Phases, TypeOK
<1> QED  BY <1>1, TablesInvariant, PTL

\* The depth stack follows every nesting: parent pointers are those of the tree.
THEOREM DeviceTreeParentsRight == Spec => []ParentsRight
<1>1. TablesRight => ParentsRight
  BY DEF TablesRight, Parents, ParentsRight
<1> QED  BY <1>1, TablesInvariant, PTL

\* The first of the counted properties of that name, if there is one.
LEMMA FirstHit ==
  ASSUME NEW d, NEW name, Hits(d, name) # {}
  PROVE  \E i \in Hits(d, name) :
           find_property(d, name) = DEVICE_TABLE[d].properties[i]
<1>1. Hits(d, name) \in SUBSET Nat
  BY Limits DEF Hits, PropIndex
<1>2. Min(Hits(d, name)) \in Hits(d, name)
  BY <1>1, MinIn
<1> QED  BY <1>2 DEF find_property

\* A lookup never returns a property of another node, or a stale one, although the
\* count of a node with children is that of its last child.
THEOREM DeviceTreeFoundIsReal == Spec => []FoundIsReal
<1>1. TablesRight => FoundIsReal
  <2> SUFFICES ASSUME TablesRight, NEW d \in Device, NEW p \in Prop,
                      find_property(d, p.name) # NoProp
               PROVE  find_property(d, p.name) \in tree[d].props
    BY DEF FoundIsReal
  <2>1. Hits(d, p.name) # {}
    BY DEF find_property
  <2>2. PICK i \in Hits(d, p.name) : find_property(d, p.name) = DEVICE_TABLE[d].properties[i]
    BY <2>1, FirstHit
  <2>3. i \in PropIndex
    BY DEF Hits
  <2> QED  BY <2>2, <2>3 DEF TablesRight, StoredIsReal
<1> QED  BY <1>1, TablesInvariant, PTL

-----------------------------------------------------------------------------
(* A device without children shows all its properties.                     *)

\* The first n of the stored properties are exactly the given ones, whose names differ.
Filled(stored, props, n) ==
  /\ \A i \in PropIndex : i < n => stored[i] \in props
  /\ \A q \in props : \E i \in PropIndex : i < n /\ stored[i] = q
  /\ \A q, r \in props : q.name = r.name => q = r

\* The open nodes are nested; the innermost one has a child, or all its properties so
\* far are stored, below prop_id.
Nested ==
  /\ \A k \in 1 .. Len(path) - 1 : tree[path[k + 1]].parent = path[k]
  /\ path # <<>> /\ ~fresh => \E e \in Device : tree[e].parent = path[Len(path)]
  /\ fresh => Filled(DEVICE_TABLE[path[Len(path)]].properties,
                     tree[path[Len(path)]].props, prop_id)

\* The count of a node that ended without children is that of its own properties.
LeavesFilled ==
  \A d \in Device : Leaf(d) /\ Closed(d) =>
    Filled(DEVICE_TABLE[d].properties, tree[d].props, DEVICE_TABLE[d].prop_count)

Leaves == (phase # "panic" => Nested) /\ LeavesFilled

\* What a closed node is, in terms of the length of the path.
LEMMA ClosedPath ==
  ASSUME Shape, NEW d
  PROVE  Closed(d) <=> d \in Device /\ \A k \in 1 .. Len(path) : path[k] # d
BY LenProperties DEF Shape, Walk, Closed

\* A new node is open, and has no properties yet.
LEMMA BeginLeaves ==
  ASSUME Shape, Leaves, Begin
  PROVE  Leaves'
<1> DEFINE n == Len(tree) + 1
           parent == IF path = <<>> THEN 0 ELSE path[Len(path)]
<1>1. /\ DEVICE_COUNT' = DEVICE_COUNT + 1 /\ Shape'
      /\ \A d \in 1 .. Len(tree) : tree'[d] = tree[d]
      /\ \A d \in Device : DEVICE_TABLE'[d] = DEVICE_TABLE[d]
      /\ tree'[n] = [parent |-> parent, props |-> {}]
      /\ phase = "parse" /\ prop_id' = 0 /\ fresh'
      /\ Len(path') = Len(path) + 1 /\ path'[Len(path) + 1] = n
      /\ \A k \in 1 .. Len(path) : path'[k] = path[k]
  BY BeginEffect
<1>2. /\ DEVICE_COUNT = Len(tree) /\ DEVICE_COUNT \in Nat /\ stack = path /\ path \in Seq(Nat)
      /\ Len(path) \in Nat
  BY <1>1, LenProperties DEF Shape, InStep, Tables, Walk, DEVICE_COUNT
<1>3. Nested
  BY <1>1 DEF Leaves
<1>4. Device' = Device \cup {n} /\ Device = 1 .. Len(tree)
  BY <1>1, <1>2 DEF Device
<1> HIDE DEF n
<1>5. ASSUME NEW k \in 1 .. Len(path') - 1
      PROVE  tree'[path'[k + 1]].parent = path'[k]
  <2>1. k \in 1 .. Len(path)
    BY <1>1, <1>2
  <2>2. CASE k = Len(path)
    <3>1. path # <<>>
      BY <2>1, <2>2, EmptySeq
    <3> QED  BY <1>1, <2>1, <2>2, <3>1
  <2>3. CASE k < Len(path)
    <3>1. k + 1 \in 1 .. Len(path) /\ k \in 1 .. Len(path) - 1
      BY <1>2, <2>1, <2>3
    <3>2. path[k + 1] \in 1 .. Len(tree)
      BY <1>2, <3>1 DEF Shape, Walk
    <3>3. tree[path[k + 1]].parent = path[k]
      BY <1>3, <3>1 DEF Nested
    <3> QED  BY <1>1, <2>1, <3>1, <3>2, <3>3
  <2> QED  BY <1>2, <2>1, <2>2, <2>3
<1>6. Filled(DEVICE_TABLE'[path'[Len(path')]].properties, tree'[path'[Len(path')]].props, prop_id')
  <2>1. path'[Len(path')] = n /\ tree'[n].props = {} /\ prop_id' = 0
    BY <1>1
  <2>2. \A i \in PropIndex : ~(i < 0)
    BY DEF PropIndex
  <2> QED  BY <2>1, <2>2 DEF Filled
<1>7. Nested'
  BY <1>1, <1>5, <1>6 DEF Nested
<1>8. LeavesFilled'
  <2> SUFFICES ASSUME NEW d \in Device', Leaf(d)', Closed(d)'
               PROVE  Filled(DEVICE_TABLE'[d].properties, tree'[d].props,
                             DEVICE_TABLE'[d].prop_count)
    BY DEF LeavesFilled
  <2>1. \A k \in 1 .. Len(path') : path'[k] # d
    BY <1>1, LenProperties DEF Closed, Shape, Walk
  <2>2. d # n
    <3>1. Len(path) + 1 \in 1 .. Len(path')
      BY <1>1, <1>2
    <3> QED  BY <1>1, <2>1, <3>1
  <2>3. d \in Device
    BY <1>4, <2>2
  <2>4. Closed(d)
    <3>1. \A k \in 1 .. Len(path) : k \in 1 .. Len(path')
      BY <1>1, <1>2
    <3> QED  BY <1>1, <2>1, <2>3, <3>1, ClosedPath
  <2>5. Leaf(d)
    BY <1>1, <1>4, <2>3 DEF Leaf
  <2>6. DEVICE_TABLE'[d] = DEVICE_TABLE[d] /\ tree'[d] = tree[d]
    BY <1>1, <1>4, <2>3
  <2> QED  BY <2>3, <2>4, <2>5, <2>6 DEF Leaves, LeavesFilled
<1> QED  BY <1>7, <1>8 DEF Leaves

\* A node that ends without children has just stored its own properties.
LEMMA EndLeaves ==
  ASSUME Shape, Leaves, FdtEndNode
  PROVE  Leaves'
<1> DEFINE top == path[Len(path)]
<1>1. /\ top \in Device /\ DEVICE_COUNT' = DEVICE_COUNT /\ tree' = tree
      /\ DEVICE_TABLE' = [DEVICE_TABLE EXCEPT ![top].prop_count = prop_id]
      /\ path # <<>> /\ Len(path) \in Nat \ {0}
      /\ Len(path') = Len(path) - 1 /\ \A k \in 1 .. Len(path) - 1 : path'[k] = path[k]
      /\ phase = "parse" /\ phase' = "parse" /\ ~fresh' /\ Shape'
  BY EndEffect
<1>2. DEVICE_TABLE \in Seq(Entry) /\ path' \in Seq(Nat)
  BY <1>1 DEF Shape, Tables, Walk
<1>3. /\ DOMAIN DEVICE_TABLE = Device /\ Device' = Device
      /\ \A d \in Device : DEVICE_TABLE[d] \in Entry
  BY <1>1, <1>2, LenProperties, ElementOfSeq DEF Device, DEVICE_COUNT
<1>4. Nested
  BY <1>1 DEF Leaves
<1>5. Nested'
  <2>1. ASSUME NEW k \in 1 .. Len(path') - 1
        PROVE  tree'[path'[k + 1]].parent = path'[k]
    <3>1. k \in 1 .. Len(path) - 1 /\ k + 1 \in 1 .. Len(path) - 1
      BY <1>1
    <3> QED  BY <1>1, <1>4, <3>1 DEF Nested
  <2>2. ASSUME path' # <<>> PROVE \E e \in Device' : tree'[e].parent = path'[Len(path')]
    <3>1. Len(path') \in 1 .. Len(path) - 1 /\ Len(path') + 1 = Len(path)
      BY <1>1, <1>2, <2>2, EmptySeq
    <3>2. tree[top].parent = path[Len(path')]
      BY <1>4, <3>1 DEF Nested
    <3>3. path'[Len(path')] = path[Len(path')]
      BY <1>1, <3>1
    <3> QED  BY <1>1, <1>3, <3>2, <3>3
  <2> QED  BY <1>1, <2>1, <2>2 DEF Nested
<1> HIDE DEF top
<1>6. ASSUME NEW d \in Device
      PROVE  /\ DEVICE_TABLE'[d].properties = DEVICE_TABLE[d].properties
             /\ DEVICE_TABLE'[d].prop_count =
                  IF d = top THEN prop_id ELSE DEVICE_TABLE[d].prop_count
  BY <1>1, <1>3 DEF Entry
<1>7. LeavesFilled'
  <2> SUFFICES ASSUME NEW d \in Device', Leaf(d)', Closed(d)'
               PROVE  Filled(DEVICE_TABLE'[d].properties, tree'[d].props,
                             DEVICE_TABLE'[d].prop_count)
    BY DEF LeavesFilled
  <2>1. d \in Device /\ Leaf(d)
    BY <1>1, <1>3 DEF Leaf
  <2>2. CASE d = top
    <3>1. fresh
      BY <1>1, <1>4, <2>1, <2>2 DEF Nested, Leaf, top
    <3>2. Filled(DEVICE_TABLE[d].properties, tree[d].props, prop_id)
      BY <1>4, <2>2, <3>1 DEF Nested, top
    <3> QED  BY <1>1, <1>6, <2>1, <2>2, <3>2
  <2>3. CASE d # top
    <3>1. \A k \in 1 .. Len(path') : path'[k] # d
      BY <1>2, LenProperties DEF Closed
    <3>2. ASSUME NEW k \in 1 .. Len(path) PROVE path[k] # d
      <4>1. CASE k = Len(path)
        BY <2>3, <4>1 DEF top
      <4>2. CASE k # Len(path)
        <5>1. k \in 1 .. Len(path) - 1 /\ k \in 1 .. Len(path')
          BY <1>1, <4>2
        <5> QED  BY <1>1, <3>1, <5>1
      <4> QED  BY <4>1, <4>2
    <3>3. Closed(d)
      BY <2>1, <3>2, ClosedPath
    <3> QED  BY <1>1, <1>6, <2>1, <2>3, <3>3 DEF Leaves, LeavesFilled
  <2> QED  BY <2>2, <2>3
<1> QED  BY <1>5, <1>7 DEF Leaves

\* One more property, of a new name, at the next index.
LEMMA FilledGrows ==
  ASSUME NEW T, NEW stored \in [PropIndex -> T], NEW props, NEW n \in PropIndex, NEW p,
         Filled(stored, props, n), \A q \in props : q.name # p.name
  PROVE  Filled([stored EXCEPT ![n] = p], props \cup {p}, n + 1)
<1> DEFINE after == [stored EXCEPT ![n] = p]
<1>1. PropIndex \subseteq Nat /\ n \in Nat
  BY Limits DEF PropIndex
<1>2. \A i \in PropIndex : i < n + 1 <=> i < n \/ i = n
  BY <1>1
<1>3. after[n] = p /\ \A i \in PropIndex : i < n => after[i] = stored[i]
  BY <1>1
<1>4. \A i \in PropIndex : i < n + 1 => after[i] \in props \cup {p}
  BY <1>2, <1>3 DEF Filled
<1>5. \A q \in props \cup {p} : \E i \in PropIndex : i < n + 1 /\ after[i] = q
  BY <1>2, <1>3 DEF Filled
<1>6. \A q, r \in props \cup {p} : q.name = r.name => q = r
  BY DEF Filled
<1> HIDE DEF after
<1>7. Filled(after, props \cup {p}, n + 1)
  BY <1>4, <1>5, <1>6 DEF Filled
<1> QED  BY <1>7 DEF after

\* A property of the innermost node leaves the closed ones alone.
LEMMA StoreLeaves ==
  ASSUME Shape, Leaves, NEW p \in Prop, Store(p)
  PROVE  Leaves'
<1> DEFINE top == path[Len(path)]
<1>1. /\ top \in Device /\ DEVICE_COUNT' = DEVICE_COUNT /\ path' = path /\ path # <<>>
      /\ prop_id \in PropIndex /\ prop_id' = prop_id + 1
      /\ \A q \in tree[top].props : q.name # p.name
      /\ tree' = [tree EXCEPT ![top].props = @ \cup {p}]
      /\ DEVICE_TABLE' = [DEVICE_TABLE EXCEPT ![top].properties[prop_id] = p]
      /\ phase = "parse" /\ fresh /\ fresh'
  BY StoreEffect
<1>2. /\ tree \in Seq(Node) /\ DEVICE_TABLE \in Seq(Entry) /\ DEVICE_COUNT = Len(tree)
      /\ stack = path /\ path \in Seq(Nat) /\ Len(path) \in Nat
  BY <1>1, LenProperties DEF Shape, Walk, Tables, InStep
<1>3. /\ DOMAIN tree = Device /\ DOMAIN DEVICE_TABLE = Device /\ Device' = Device
      /\ \A d \in Device : tree[d] \in Node /\ DEVICE_TABLE[d] \in Entry
  BY <1>1, <1>2, LenProperties, ElementOfSeq DEF Device, DEVICE_COUNT
<1>4. Nested
  BY <1>1 DEF Leaves
<1>5. Len(path) \in 1 .. Len(path)
  BY <1>1, <1>2, LastAndFront
<1>6. \A k \in 1 .. Len(path) : path[k] \in Device
  BY <1>2 DEF Shape, Walk, Device
<1>7. Filled(DEVICE_TABLE[top].properties, tree[top].props, prop_id)
  BY <1>1, <1>4 DEF Nested
<1>8. \A k \in 1 .. Len(path) - 1 : tree[path[k + 1]].parent = path[k]
  BY <1>4 DEF Nested
<1>9. path'[Len(path')] = top
  BY <1>1
<1> HIDE DEF top
<1>10. ASSUME NEW d \in Device
       PROVE  /\ tree'[d].parent = tree[d].parent
              /\ d # top => tree'[d] = tree[d] /\ DEVICE_TABLE'[d] = DEVICE_TABLE[d]
  BY <1>1, <1>3 DEF Node
<1>11. /\ tree'[top].props = tree[top].props \cup {p}
       /\ DEVICE_TABLE'[top].properties = [DEVICE_TABLE[top].properties EXCEPT ![prop_id] = p]
  BY <1>1, <1>3 DEF Node, Entry
<1>12. Filled(DEVICE_TABLE'[top].properties, tree'[top].props, prop_id')
  <2>1. DEVICE_TABLE[top].properties \in [PropIndex -> Prop \cup {NoProp}]
    BY <1>1, <1>3 DEF Entry
  <2>2. Filled([DEVICE_TABLE[top].properties EXCEPT ![prop_id] = p],
               tree[top].props \cup {p}, prop_id + 1)
    BY <1>1, <1>7, <2>1, FilledGrows
  <2> QED  BY <1>1, <1>11, <2>2
<1>13. Nested'
  <2>1. ASSUME NEW k \in 1 .. Len(path') - 1
        PROVE  tree'[path'[k + 1]].parent = path'[k]
    <3>1. k + 1 \in 1 .. Len(path) /\ k \in 1 .. Len(path) - 1
      BY <1>1, <1>2
    <3> QED  BY <1>1, <1>6, <1>8, <1>10, <3>1
  <2> QED  BY <1>1, <1>9, <1>12, <2>1 DEF Nested
<1>14. LeavesFilled'
  <2> SUFFICES ASSUME NEW d \in Device', Leaf(d)', Closed(d)'
               PROVE  Filled(DEVICE_TABLE'[d].properties, tree'[d].props,
                             DEVICE_TABLE'[d].prop_count)
    BY DEF LeavesFilled
  <2>1. d \in Device /\ Leaf(d)
    BY <1>3, <1>10 DEF Leaf
  <2>2. Closed(d)
    BY <1>1, <1>3 DEF Closed
  <2>3. d # top
    BY <1>5, <2>2, ClosedPath DEF top
  <2> QED  BY <1>10, <2>1, <2>2, <2>3 DEF Leaves, LeavesFilled
<1> QED  BY <1>13, <1>14 DEF Leaves

\* The inductive invariant of the property counts.
LEMMA LeavesInvariant == Spec => []Leaves
<1>1. Init => Leaves
  <2> SUFFICES ASSUME Init PROVE Leaves
    OBVIOUS
  <2>1. Len(<<>>) = 0
    BY EmptySeq
  <2>2. Device = {} /\ Len(path) = 0 /\ path = <<>> /\ ~fresh
    BY <2>1 DEF Init, Device, DEVICE_COUNT
  <2> QED  BY <2>2 DEF Leaves, Nested, LeavesFilled
<1>2. Leaves /\ TablesRight /\ [Next]_vars => Leaves'
  <2> SUFFICES ASSUME Leaves, TablesRight, [Next]_vars PROVE Leaves'
    OBVIOUS
  <2>0. Shape
    BY DEF TablesRight
  <2>1. CASE Begin
    BY <2>0, <2>1, BeginLeaves
  <2>2. CASE FdtEndNode
    BY <2>0, <2>2, EndLeaves
  <2>3. ASSUME NEW p \in Prop, Store(p) PROVE Leaves'
    BY <2>0, <2>3, StoreLeaves
  <2>4. CASE Stop
    <3>1. /\ Shape' /\ phase' = "panic" /\ DEVICE_TABLE' = DEVICE_TABLE
          /\ DEVICE_COUNT' = DEVICE_COUNT /\ Len(path) <= Len(path')
      BY <2>0, <2>4, StopEffect
    <3>2. \A k \in 1 .. Len(path) : path'[k] = path[k]
      BY <2>0, <2>4, StopEffect
    <3>3. \A d \in Device : tree'[d].parent = tree[d].parent
      BY <2>0, <2>4, StopEffect
    <3>4. \A d \in Device : (\A k \in 1 .. Len(path) : path[k] # d) => tree'[d] = tree[d]
      BY <2>0, <2>4, StopEffect
    <3>5. Device' = Device
      BY <3>1 DEF Device
    <3>6. path \in Seq(Nat) /\ path' \in Seq(Nat) /\ Len(path) \in Nat /\ Len(path') \in Nat
      BY <2>0, <3>1, LenProperties DEF Shape, Walk
    <3>7. ASSUME NEW d \in Device', Leaf(d)', Closed(d)'
          PROVE  Filled(DEVICE_TABLE'[d].properties, tree'[d].props,
                        DEVICE_TABLE'[d].prop_count)
      <4>1. \A k \in 1 .. Len(path') : path'[k] # d
        BY <3>6, <3>7, LenProperties DEF Closed
      <4>2. \A k \in 1 .. Len(path) : k \in 1 .. Len(path')
        BY <3>1, <3>6
      <4>3. \A k \in 1 .. Len(path) : path[k] # d
        BY <3>2, <4>1, <4>2
      <4>4. Closed(d) /\ Leaf(d) /\ d \in Device
        BY <2>0, <3>3, <3>5, <3>7, <4>3, ClosedPath DEF Leaf
      <4> QED  BY <3>1, <3>4, <4>3, <4>4 DEF Leaves, LeavesFilled
    <3> QED  BY <3>1, <3>7 DEF Leaves, LeavesFilled
  <2>5. CASE Pass \/ UNCHANGED vars
    <3>1. /\ UNCHANGED <<DEVICE_TABLE, tree, path, fresh, prop_id>>
          /\ phase' = "panic" <=> phase = "panic"
      BY <2>0, <2>5, PassEffect
    <3>2. Device' = Device
      BY <3>1 DEF Device, DEVICE_COUNT
    <3>3. Nested => Nested'
      BY <3>1, <3>2 DEF Nested
    <3>4. LeavesFilled'
      BY <3>1, <3>2 DEF Leaves, LeavesFilled, Leaf, Closed
    <3> QED  BY <3>1, <3>3, <3>4 DEF Leaves
  <2> QED  BY <2>0, <2>1, <2>2, <2>3, <2>4, <2>5, Steps
<1> QED  BY <1>1, <1>2, TablesInvariant, PTL DEF Spec

\* Once parsed, a device without children shows every one of its properties to
\* find_property, in whatever order and however deep its node came.
THEOREM DeviceTreeLeavesComplete == Spec => []LeavesComplete
<1>1. Leaves => LeavesComplete
  <2> SUFFICES ASSUME Leaves, NEW d \in Device, Leaf(d), Closed(d), NEW p \in tree[d].props
               PROVE  find_property(d, p.name) = p
    BY DEF LeavesComplete
  <2> DEFINE stored == DEVICE_TABLE[d].properties
             n == DEVICE_TABLE[d].prop_count
  <2>1. Filled(stored, tree[d].props, n)
    BY DEF Leaves, LeavesFilled
  <2>2. PICK i \in PropIndex : i < n /\ stored[i] = p
    BY <2>1 DEF Filled
  <2>3. i \in Hits(d, p.name)
    BY <2>2 DEF Hits
  <2>4. PICK j \in Hits(d, p.name) : find_property(d, p.name) = stored[j]
    BY <2>3, FirstHit
  <2>5. j \in PropIndex /\ j < n /\ stored[j].name = p.name
    BY DEF Hits
  <2>6. stored[j] \in tree[d].props
    BY <2>1, <2>5 DEF Filled
  <2> QED  BY <2>1, <2>4, <2>5, <2>6 DEF Filled
<1> QED  BY <1>1, LeavesInvariant, PTL

-----------------------------------------------------------------------------
(* The two passes of init_devices.                                         *)

\* A driver supports device d.
Supported(d) == \E k \in 1 .. 3 : CONFIGURED_DEVICES[k] \in Compatible(d)

\* The match entries of device d.
Matches(d) == {k \in DOMAIN CONFIGURED_DEVICES : CONFIGURED_DEVICES[k] \in Compatible(d)}

\* The first of the match table's entries is the GIC's.
LEMMA GicFirst ==
  ASSUME NEW d
  PROVE  /\ Matches(d) # {} <=> Supported(d)
         /\ IsGic(d) => Supported(d)
         /\ Matches(d) # {} => /\ Min(Matches(d)) \in Matches(d)
                               /\ CONFIGURED_DEVICES[Min(Matches(d))] = "arm,gic-v3" <=> IsGic(d)
<1>1. /\ DOMAIN CONFIGURED_DEVICES = 1 .. 3
      /\ CONFIGURED_DEVICES[1] = "arm,gic-v3"
      /\ CONFIGURED_DEVICES[2] = "arm,pl011" /\ CONFIGURED_DEVICES[3] = "arm,armv7-timer"
  BY DEF CONFIGURED_DEVICES
<1>2. \A k : k \in Matches(d) <=> k \in 1 .. 3 /\ CONFIGURED_DEVICES[k] \in Compatible(d)
  BY <1>1, Zenon DEF Matches
<1>3. Matches(d) # {} <=> Supported(d)
  BY <1>2, Zenon DEF Supported
<1>4. 1 \in 1 .. 3
  OBVIOUS
<1>5. IsGic(d) <=> 1 \in Matches(d)
  BY <1>1, <1>2, <1>4, Zenon DEF IsGic
<1>6. Matches(d) \in SUBSET Nat
  <2>1. \A k \in 1 .. 3 : k \in Nat
    OBVIOUS
  <2> QED  BY <1>2, <2>1, Zenon
<1>7. ASSUME Matches(d) # {}
      PROVE  /\ Min(Matches(d)) \in Matches(d)
             /\ CONFIGURED_DEVICES[Min(Matches(d))] = "arm,gic-v3" <=> IsGic(d)
  <2>1. Min(Matches(d)) \in Matches(d) /\ \A y \in Matches(d) : Min(Matches(d)) <= y
    BY <1>6, <1>7, MinIn
  <2>2. PICK m : m = Min(Matches(d))
    OBVIOUS
  <2>3. m \in 1 .. 3
    BY <1>2, <2>1, <2>2, Zenon
  <2>4. m = 1 \/ m = 2 \/ m = 3
    BY <2>3
  <2>5. 1 \in Matches(d) => m <= 1
    BY <2>1, <2>2, Zenon
  <2>6. 1 \in Matches(d) => m = 1
    BY <2>3, <2>5
  <2>7. m = 1 => 1 \in Matches(d)
    BY <2>1, <2>2, Zenon
  <2>8. CONFIGURED_DEVICES[m] = "arm,gic-v3" <=> m = 1
    BY <1>1, <2>4
  <2> QED  BY <1>5, <2>1, <2>2, <2>6, <2>7, <2>8, Zenon
<1> QED  BY <1>3, <1>5, <1>7, Zenon

\* A supported device leads to one call, of the GIC driver when it is a GIC.
LEMMA OneCall ==
  ASSUME NEW d
  PROVE  /\ IsGic(d) => Supported(d)
         /\ ~Supported(d) => SetupCalls(d) = <<>>
         /\ Supported(d) => \E c : /\ SetupCalls(d) = <<c>> /\ c.dev = d
                                   /\ c.driver = "arm,gic-v3" <=> IsGic(d)
<1> DEFINE c == [driver |-> CONFIGURED_DEVICES[Min(Matches(d))], dev |-> d,
                 intc |-> find_interrupt_parent(d), cells |-> get_parent_cells(d)]
<1>1. SetupCalls(d) = IF Matches(d) = {} THEN <<>> ELSE <<c>>
  BY Zenon DEF SetupCalls, Matches
<1>2. c.dev = d /\ c.driver = CONFIGURED_DEVICES[Min(Matches(d))]
  OBVIOUS
<1> HIDE DEF c
<1>3. Matches(d) # {} => SetupCalls(d) = <<c>>
  BY <1>1, Zenon
<1>4. Matches(d) = {} => SetupCalls(d) = <<>>
  BY <1>1, Zenon
<1> QED  BY <1>2, <1>3, <1>4, GicFirst, Zenon

\* A sequence with one element more.
LEMMA OneMore ==
  ASSUME NEW S, NEW s \in Seq(S), NEW c
  PROVE  /\ s \o <<c>> \in Seq(S \cup {c})
         /\ Len(s) \in Nat /\ Len(s \o <<c>>) = Len(s) + 1
         /\ \A i \in 1 .. Len(s) : (s \o <<c>>)[i] = s[i]
         /\ (s \o <<c>>)[Len(s) + 1] = c
<1>1. s \in Seq(S \cup {c}) /\ <<c>> \in Seq(S \cup {c}) /\ Len(<<c>>) = 1 /\ <<c>>[1] = c
  BY SeqMonotonic
<1>2. Len(s) \in Nat
  BY LenProperties
<1>3. /\ s \o <<c>> \in Seq(S \cup {c}) /\ Len(s \o <<c>>) = Len(s) + 1
      /\ \A i \in 1 .. Len(s) + 1 :
           (s \o <<c>>)[i] = IF i <= Len(s) THEN s[i] ELSE <<c>>[i - Len(s)]
  BY <1>1, ConcatProperties
<1> QED  BY <1>1, <1>2, <1>3

\* The devices of the first pass, and those a driver supports.
Gics == {d \in Device : IsGic(d)}
Drivable == {d \in Device : Supported(d)}

\* The calls made so far: of devices a driver supports, the GIC driver's for GICs.
CallsRight ==
  /\ \E S : calls \in Seq(S)
  /\ \A i \in 1 .. Len(calls) : /\ calls[i].dev \in Drivable
                                /\ calls[i].driver = "arm,gic-v3" <=> calls[i].dev \in Gics

\* No device twice, and no GIC after another device.
CallsOrdered ==
  \A i, j \in 1 .. Len(calls) : i < j =>
    /\ calls[i].dev # calls[j].dev
    /\ calls[j].dev \in Gics => calls[i].dev \in Gics

Called(d) == \E i \in 1 .. Len(calls) : calls[i].dev = d

\* Where the passes are: the first has called the GICs before next_dev, the second
\* all GICs and the other devices before next_dev.
Progress ==
  /\ phase \in {"header", "parse", "panic"} => calls = <<>> /\ next_dev = 1
  /\ phase \in {"first", "second", "done"} => path = <<>>
  /\ phase = "first" =>
       /\ \A i \in 1 .. Len(calls) : calls[i].dev \in Gics /\ calls[i].dev < next_dev
       /\ \A d \in Gics : d < next_dev => Called(d)
  /\ phase = "second" =>
       /\ \A i \in 1 .. Len(calls) : calls[i].dev \in Gics \/ calls[i].dev < next_dev
       /\ \A d \in Gics : Called(d)
       /\ \A d \in Drivable : d < next_dev => Called(d)
  /\ phase = "done" => \A d \in Drivable : Called(d)

Passes == CallsRight /\ CallsOrdered /\ Progress

\* The lookups depend on the device table only.
LEMMA SameTable ==
  ASSUME DEVICE_TABLE' = DEVICE_TABLE
  PROVE  Device' = Device /\ Gics' = Gics /\ Drivable' = Drivable
<1>1. Device' = Device
  BY DEF Device, DEVICE_COUNT
<1>2. ASSUME NEW d PROVE Compatible(d)' = Compatible(d)
  BY DEF Compatible, find_property, Hits
<1>3. ASSUME NEW d PROVE IsGic(d)' <=> IsGic(d)
  BY <1>2 DEF IsGic
<1>4. ASSUME NEW d PROVE Supported(d)' <=> Supported(d)
  BY <1>2 DEF Supported, CONFIGURED_DEVICES
<1>5. Gics' = Gics
  BY <1>1, <1>3 DEF Gics
<1>6. Drivable' = Drivable
  BY <1>1, <1>4 DEF Drivable
<1> QED  BY <1>1, <1>5, <1>6

\* A step of init_devices that calls no driver.
LEMMA NoCall ==
  ASSUME CallsRight, CallsOrdered, DEVICE_TABLE' = DEVICE_TABLE, calls' = calls
  PROVE  /\ CallsRight' /\ CallsOrdered'
         /\ \A d : Called(d)' <=> Called(d)
<1>1. Gics' = Gics /\ Drivable' = Drivable
  BY SameTable
<1>2. CallsRight'
  BY <1>1 DEF CallsRight
<1>3. CallsOrdered'
  BY <1>1 DEF CallsOrdered
<1>4. ASSUME NEW d PROVE Called(d)' <=> Called(d)
  BY DEF Called
<1> QED  BY <1>2, <1>3, <1>4

\* A step that calls a driver for d, which has had no call, and is a GIC only while
\* all the calls before were for GICs.
LEMMA NewCall ==
  ASSUME CallsRight, CallsOrdered, DEVICE_TABLE' = DEVICE_TABLE,
         NEW d \in Drivable, calls' = calls \o SetupCalls(d), ~Called(d),
         d \in Gics => \A i \in 1 .. Len(calls) : calls[i].dev \in Gics
  PROVE  /\ CallsRight' /\ CallsOrdered'
         /\ Called(d)' /\ \A e : Called(e) => Called(e)'
         /\ \A i \in 1 .. Len(calls') :
              calls'[i].dev = d \/ \E k \in 1 .. Len(calls) : calls'[i].dev = calls[k].dev
<1>1. Gics' = Gics /\ Drivable' = Drivable
  BY SameTable
<1>2. PICK S : calls \in Seq(S)
  BY DEF CallsRight
<1>3. d \in Device /\ Supported(d)
  BY DEF Drivable
<1>4. PICK c : /\ SetupCalls(d) = <<c>> /\ c.dev = d
               /\ c.driver = "arm,gic-v3" <=> d \in Gics
  BY <1>3, OneCall DEF Gics
<1>5. calls' = calls \o <<c>>
  BY <1>4
<1>6. /\ calls' \in Seq(S \cup {c}) /\ Len(calls) \in Nat /\ Len(calls') = Len(calls) + 1
      /\ \A i \in 1 .. Len(calls) : calls'[i] = calls[i]
      /\ calls'[Len(calls) + 1] = c
  BY <1>2, <1>5, OneMore
<1>7. \A i \in 1 .. Len(calls') : i \in 1 .. Len(calls) \/ i = Len(calls) + 1
  BY <1>6
<1>8. /\ \A i \in 1 .. Len(calls) : i \in 1 .. Len(calls')
      /\ Len(calls) + 1 \in 1 .. Len(calls')
  BY <1>6
<1>9. CallsRight'
  <2>1. \A i \in 1 .. Len(calls') : /\ calls'[i].dev \in Drivable
                                    /\ calls'[i].driver = "arm,gic-v3" <=> calls'[i].dev \in Gics
    BY <1>4, <1>6, <1>7 DEF CallsRight
  <2> QED  BY <1>1, <1>6, <2>1 DEF CallsRight
<1>10. CallsOrdered'
  <2>1. ASSUME NEW i \in 1 .. Len(calls'), NEW j \in 1 .. Len(calls'), i < j
        PROVE  /\ calls'[i].dev # calls'[j].dev
               /\ calls'[j].dev \in Gics => calls'[i].dev \in Gics
    <3>1. i \in 1 .. Len(calls)
      BY <1>6, <2>1
    <3>2. calls'[i] = calls[i]
      BY <1>6, <3>1
    <3>3. CASE j \in 1 .. Len(calls)
      BY <1>6, <2>1, <3>1, <3>2, <3>3 DEF CallsOrdered
    <3>4. CASE j = Len(calls) + 1
      <4>1. calls'[j].dev = d
        BY <1>4, <1>6, <3>4
      <4>2. calls[i].dev # d
        BY <3>1 DEF Called
      <4> QED  BY <3>1, <3>2, <4>1, <4>2
    <3> QED  BY <1>7, <3>3, <3>4
  <2> QED  BY <1>1, <2>1 DEF CallsOrdered
<1>11. Called(d)'
  BY <1>4, <1>6, <1>8 DEF Called
<1>12. ASSUME NEW e, Called(e) PROVE Called(e)'
  BY <1>6, <1>8, <1>12 DEF Called
<1>13. ASSUME NEW i \in 1 .. Len(calls')
       PROVE  calls'[i].dev = d \/ \E k \in 1 .. Len(calls) : calls'[i].dev = calls[k].dev
  BY <1>4, <1>6, <1>7
<1> QED  BY <1>9, <1>10, <1>11, <1>12, <1>13

\* The state of init_devices between two steps.
LEMMA PassesInvariant == Spec => []Passes
<1>1. Init => Passes
  <2> SUFFICES ASSUME Init PROVE Passes
    OBVIOUS
  <2>1. /\ calls = <<>> /\ next_dev = 1 /\ phase = "header"
        /\ calls \in Seq({}) /\ Len(calls) = 0
    BY DEF Init
  <2> QED  BY <2>1 DEF Passes, CallsRight, CallsOrdered, Progress
<1>2. TablesRight /\ Passes /\ [Next]_vars => Passes'
  <2> SUFFICES ASSUME TablesRight, Passes, [Next]_vars PROVE Passes'
    OBVIOUS
  <2>1. /\ DEVICE_COUNT \in Nat /\ next_dev \in 1 .. DEVICE_COUNT + 1
        /\ Device = 1 .. DEVICE_COUNT /\ phase \in Phases
    BY LenProperties DEF TablesRight, Shape, Tables, Walk, DEVICE_COUNT, Device
  <2>2. Gics \subseteq Drivable /\ Drivable \subseteq Device
    BY OneCall DEF Gics, Drivable
  <2>3. CallsRight /\ CallsOrdered /\ Progress
    BY DEF Passes
  <2>4. CASE /\ phase \in {"header", "parse"} /\ phase' \in {"header", "parse", "panic"}
             /\ calls' = calls /\ next_dev' = next_dev
    <3>1. calls' = <<>> /\ next_dev' = 1
      BY <2>3, <2>4 DEF Progress
    <3>2. calls' \in Seq({}) /\ Len(calls') = 0
      BY <3>1
    <3> QED  BY <2>4, <3>1, <3>2 DEF Passes, CallsRight, CallsOrdered, Progress
  <2>5. CASE UNCHANGED vars
    <3>1. /\ DEVICE_TABLE' = DEVICE_TABLE /\ calls' = calls /\ phase' = phase
          /\ path' = path /\ next_dev' = next_dev
      BY <2>5 DEF vars, parserVars, treeVars
    <3>2. /\ Gics' = Gics /\ Drivable' = Drivable /\ CallsRight' /\ CallsOrdered'
          /\ \A d : Called(d)' <=> Called(d)
      BY <2>3, <3>1, NoCall, SameTable
    <3>3. Progress'
      BY <2>3, <3>1, <3>2 DEF Progress
    <3> QED  BY <3>2, <3>3 DEF Passes
  <2>6. CASE FdtEnd
    <3>1. /\ DEVICE_TABLE' = DEVICE_TABLE /\ calls' = calls /\ phase' = "first"
          /\ path' = <<>> /\ next_dev' = next_dev /\ calls = <<>> /\ next_dev = 1
      BY <2>3, <2>6 DEF FdtEnd, parserVars, treeVars, Progress
    <3>2. /\ Gics' = Gics /\ CallsRight' /\ CallsOrdered'
      BY <2>3, <3>1, NoCall, SameTable
    <3>3. Len(calls') = 0 /\ \A d \in Gics : ~(d < next_dev)
      BY <2>1, <2>2, <3>1
    <3>4. Progress'
      BY <3>1, <3>2, <3>3 DEF Progress
    <3> QED  BY <3>2, <3>4 DEF Passes
  <2>7. CASE FirstPass
    <3>0. PICK cur : cur = next_dev
      OBVIOUS
    <3>1. /\ DEVICE_TABLE' = DEVICE_TABLE /\ phase = "first" /\ phase' = "first"
          /\ path' = path /\ next_dev' = next_dev + 1 /\ next_dev \in Device
          /\ path = <<>>
      BY <2>1, <2>3, <2>7 DEF FirstPass, parserVars, treeVars, Progress
    <3>2. Gics' = Gics /\ Drivable' = Drivable
      BY <3>1, SameTable
    <3>3. /\ \A i \in 1 .. Len(calls) : calls[i].dev \in Gics /\ calls[i].dev < next_dev
          /\ \A d \in Gics : d < next_dev => Called(d)
      BY <2>3, <3>1 DEF Progress
    <3>4. \A d \in Gics : d < next_dev + 1 => d < next_dev \/ d = next_dev
      BY <2>1, <2>2
    <3>5. \A d \in Gics : d < next_dev => d < next_dev + 1
      BY <2>1, <2>2
    <3>6. CASE next_dev \in Gics
      <4>1. calls' = calls \o SetupCalls(next_dev) /\ next_dev \in Drivable
        BY <2>2, <2>7, <3>6 DEF FirstPass, Gics
      <4>2. ~Called(next_dev)
        BY <2>1, <3>3 DEF Called
      <4>3. /\ CallsRight' /\ CallsOrdered'
            /\ Called(cur)' /\ \A e : Called(e) => Called(e)'
            /\ \A i \in 1 .. Len(calls') :
                 calls'[i].dev = cur \/ \E k \in 1 .. Len(calls) : calls'[i].dev = calls[k].dev
        BY <2>3, <3>1, <3>3, <4>1, <4>2, <3>0, NewCall
      <4>4. \A i \in 1 .. Len(calls') : calls'[i].dev \in Gics /\ calls'[i].dev < next_dev + 1
        <5>1. cur \in Gics /\ cur < next_dev + 1
          BY <2>1, <3>0, <3>6
        <5> QED  BY <3>3, <3>5, <4>3, <5>1
      <4>5. \A e \in Gics : e < next_dev + 1 => Called(e)'
        BY <3>0, <3>3, <3>4, <4>3
      <4>6. Progress'
        BY <3>1, <3>2, <4>4, <4>5 DEF Progress
      <4> QED  BY <4>3, <4>6 DEF Passes
    <3>7. CASE next_dev \notin Gics
      <4>1. calls' = calls
        BY <2>7, <3>1, <3>7 DEF FirstPass, Gics
      <4>2. CallsRight' /\ CallsOrdered' /\ \A d : Called(d)' <=> Called(d)
        BY <2>3, <3>1, <4>1, NoCall
      <4>3. \A i \in 1 .. Len(calls') : calls'[i].dev \in Gics /\ calls'[i].dev < next_dev + 1
        BY <3>3, <3>5, <4>1
      <4>4. \A e \in Gics : e < next_dev + 1 => Called(e)'
        BY <3>3, <3>4, <3>7, <4>2
      <4>5. Progress'
        BY <3>1, <3>2, <4>3, <4>4 DEF Progress
      <4> QED  BY <4>2, <4>5 DEF Passes
    <3> QED  BY <3>6, <3>7
  <2>8. CASE FirstPassEnds
    <3>1. /\ DEVICE_TABLE' = DEVICE_TABLE /\ phase = "first" /\ phase' = "second"
          /\ path' = path /\ next_dev' = 1 /\ calls' = calls /\ path = <<>>
          /\ next_dev > DEVICE_COUNT
      BY <2>3, <2>8 DEF FirstPassEnds, parserVars, treeVars, Progress
    <3>2. /\ Gics' = Gics /\ Drivable' = Drivable /\ CallsRight' /\ CallsOrdered'
          /\ \A d : Called(d)' <=> Called(d)
      BY <2>3, <3>1, NoCall, SameTable
    <3>3. \A d \in Drivable : d < next_dev /\ ~(d < 1)
      BY <2>1, <2>2, <3>1
    <3>4. /\ \A i \in 1 .. Len(calls) : calls[i].dev \in Gics
          /\ \A d \in Gics : Called(d)
      BY <2>2, <2>3, <3>1, <3>3 DEF Progress
    <3>5. Progress'
      BY <3>1, <3>2, <3>3, <3>4 DEF Progress
    <3> QED  BY <3>2, <3>5 DEF Passes
  <2>9. CASE SecondPass
    <3>0. PICK cur : cur = next_dev
      OBVIOUS
    <3>1. /\ DEVICE_TABLE' = DEVICE_TABLE /\ phase = "second" /\ phase' = "second"
          /\ path' = path /\ next_dev' = next_dev + 1 /\ next_dev \in Device
          /\ path = <<>> /\ calls' = calls \o OtherCalls(next_dev)
      BY <2>1, <2>3, <2>9 DEF SecondPass, SecondPassWith, parserVars, treeVars, Progress
    <3>2. Gics' = Gics /\ Drivable' = Drivable
      BY <3>1, SameTable
    <3>3. /\ \A i \in 1 .. Len(calls) : calls[i].dev \in Gics \/ calls[i].dev < next_dev
          /\ \A d \in Gics : Called(d)
          /\ \A d \in Drivable : d < next_dev => Called(d)
      BY <2>3, <3>1 DEF Progress
    <3>4. \A d \in Drivable : d < next_dev + 1 => d < next_dev \/ d = next_dev
      BY <2>1, <2>2
    <3>5. \A i \in 1 .. Len(calls) : calls[i].dev \in Gics \/ calls[i].dev < next_dev + 1
      <4>1. \A d \in Drivable : d < next_dev => d < next_dev + 1
        BY <2>1, <2>2
      <4> QED  BY <2>3, <3>3, <4>1 DEF CallsRight
    <3>6. CASE next_dev \in Drivable \ Gics
      <4>1. calls' = calls \o SetupCalls(next_dev)
        BY <3>1, <3>6 DEF OtherCalls, Gics
      <4>2. ~Called(next_dev)
        <5>1. ASSUME NEW i \in 1 .. Len(calls), calls[i].dev = next_dev PROVE FALSE
          <6>1. next_dev < next_dev
            BY <3>3, <3>6, <5>1
          <6> QED  BY <2>1, <6>1
        <5> QED  BY <5>1 DEF Called
      <4>3. /\ CallsRight' /\ CallsOrdered'
            /\ Called(cur)' /\ \A e : Called(e) => Called(e)'
            /\ \A i \in 1 .. Len(calls') :
                 calls'[i].dev = cur \/ \E k \in 1 .. Len(calls) : calls'[i].dev = calls[k].dev
        BY <2>3, <3>1, <3>6, <4>1, <4>2, <3>0, NewCall
      <4>4. \A i \in 1 .. Len(calls') : calls'[i].dev \in Gics \/ calls'[i].dev < next_dev + 1
        BY <2>1, <3>0, <3>5, <4>3
      <4>5. \A e \in Drivable : e < next_dev + 1 => Called(e)'
        BY <3>0, <3>3, <3>4, <4>3
      <4>6. \A d \in Gics : Called(d)'
        BY <3>3, <4>3
      <4>7. Progress'
        BY <3>1, <3>2, <4>4, <4>5, <4>6 DEF Progress
      <4> QED  BY <4>3, <4>7 DEF Passes
    <3>7. CASE next_dev \notin Drivable \ Gics
      <4>1. OtherCalls(next_dev) = <<>>
        <5>1. PICK d : d = next_dev
          OBVIOUS
        <5>2. IsGic(d) \/ ~Supported(d)
          BY <3>1, <3>7, <5>1 DEF Gics, Drivable
        <5>3. OtherCalls(d) = <<>>
          BY <5>2, OneCall DEF OtherCalls
        <5> QED  BY <5>1, <5>3
      <4>2. calls' = calls
        <5>1. PICK S : calls \in Seq(S)
          BY <2>3 DEF CallsRight
        <5> QED  BY <3>1, <4>1, <5>1, ConcatEmptySeq
      <4>3. CallsRight' /\ CallsOrdered' /\ \A d : Called(d)' <=> Called(d)
        BY <2>3, <3>1, <4>2, NoCall
      <4>4. \A e \in Drivable : e < next_dev + 1 => Called(e)'
        <5>1. next_dev \in Drivable => next_dev \in Gics
          BY <3>7
        <5> QED  BY <3>3, <3>4, <4>3, <5>1
      <4>5. \A d \in Gics : Called(d)'
        BY <3>3, <4>3
      <4>6. Progress'
        BY <3>1, <3>2, <3>5, <4>2, <4>4, <4>5 DEF Progress
      <4> QED  BY <4>3, <4>6 DEF Passes
    <3> QED  BY <3>6, <3>7
  <2>10. CASE SecondPassEnds
    <3>1. /\ DEVICE_TABLE' = DEVICE_TABLE /\ phase = "second" /\ phase' = "done"
          /\ path' = path /\ calls' = calls /\ path = <<>> /\ next_dev > DEVICE_COUNT
      BY <2>3, <2>10 DEF SecondPassEnds, parserVars, treeVars, Progress
    <3>2. /\ Gics' = Gics /\ Drivable' = Drivable /\ CallsRight' /\ CallsOrdered'
          /\ \A d : Called(d)' <=> Called(d)
      BY <2>3, <3>1, NoCall, SameTable
    <3>3. \A d \in Drivable : d < next_dev
      BY <2>1, <2>2, <3>1
    <3>4. Progress'
      BY <2>3, <3>1, <3>2, <3>3 DEF Progress
    <3> QED  BY <3>2, <3>4 DEF Passes
  <2>11. CASE \/ ParseHeader \/ FdtBeginNode \/ FdtEndNode \/ UnknownToken
              \/ \E p \in Prop : FdtProp(p)
    <3>1. /\ phase \in {"header", "parse"} /\ phase' \in {"header", "parse", "panic"}
          /\ calls' = calls /\ next_dev' = next_dev
      BY <2>11 DEF ParseHeader, FdtBeginNode, FdtEndNode, UnknownToken, FdtProp, Panic,
                   TreeBegin, TreeEnd, TreeProp, StoreProp
    <3> QED  BY <2>4, <3>1
  <2> QED  BY <2>5, <2>6, <2>7, <2>8, <2>9, <2>10, <2>11 DEF Next
<1> QED  BY <1>1, <1>2, TablesInvariant, PTL DEF Spec

\* No device is set up twice, and none other than a GIC before a GIC, whatever the
\* tree: the two passes of init_devices divide the devices between them.
THEOREM DeviceTreeSetupOrder == Spec => []SetupOrder
<1>1. Passes => SetupOrder
  <2> SUFFICES ASSUME Passes PROVE SetupOrder
    OBVIOUS
  <2>1. DOMAIN calls = 1 .. Len(calls)
    BY LenProperties DEF Passes, CallsRight
  <2> QED  BY <2>1 DEF Passes, CallsRight, CallsOrdered, SetupOrder
<1> QED  BY <1>1, PassesInvariant, PTL

\* When init_devices returns, every device without children that a driver supports
\* has been set up: parsing has lost none of its properties, and no pass skips it.
THEOREM DeviceTreeLeavesSetUp == Spec => []LeavesSetUp
<1>1. TablesRight /\ LeavesComplete /\ Passes => LeavesSetUp
  <2> SUFFICES ASSUME TablesRight, LeavesComplete, Passes, phase = "done",
                      NEW d \in Device, NEW p \in tree[d].props, Leaf(d),
                      p.name = "compatible",
                      \E k \in DOMAIN CONFIGURED_DEVICES : CONFIGURED_DEVICES[k] \in p.value
               PROVE  \E i \in DOMAIN calls : calls[i].dev = d
    BY DEF LeavesSetUp
  <2>1. path = <<>> /\ DOMAIN path = {}
    BY DEF Passes, Progress
  <2>2. Closed(d)
    BY <2>1 DEF Closed
  <2>3. find_property(d, "compatible") = p
    BY <2>2 DEF LeavesComplete
  <2>4. p # NoProp
    <3>1. NoProp.name = ""
      BY DEF NoProp
    <3> QED  BY <3>1
  <2>5. Compatible(d) = p.value
    BY <2>3, <2>4 DEF Compatible
  <2>6. Matches(d) # {}
    BY <2>5 DEF Matches
  <2>7. d \in Drivable
    BY <2>6, GicFirst DEF Drivable
  <2>8. Called(d)
    BY <2>7 DEF Passes, Progress
  <2>9. DOMAIN calls = 1 .. Len(calls)
    BY LenProperties DEF Passes, CallsRight
  <2> QED  BY <2>8, <2>9 DEF Called
<1> QED  BY <1>1, TablesInvariant, DeviceTreeLeavesComplete, PassesInvariant, PTL

-----------------------------------------------------------------------------
(* What the drivers learn from other nodes.                                *)

\* A set of naturals that is not empty and has a bound has a maximum.
LEMMA MaxIn ==
  ASSUME NEW n \in Nat, NEW S \in SUBSET (0 .. n), S # {}
  PROVE  Max(S) \in S
<1> DEFINE Bound == {k \in Nat : \A y \in S : y <= k}
<1>1. Bound \in SUBSET Nat /\ n \in Bound
  OBVIOUS
<1>2. PICK m \in Bound : \A k \in Bound : m <= k
  <2> HIDE DEF Bound
  <2> QED  BY <1>1, MinIn
<1>3. m \in Nat /\ \A y \in S : y <= m
  OBVIOUS
<1>4. m \in S
  <2> SUFFICES ASSUME m \notin S PROVE FALSE
    OBVIOUS
  <2>1. ASSUME NEW y \in S PROVE y <= m - 1 /\ m - 1 \in Nat
    <3>1. y \in Nat /\ y <= m /\ y # m
      BY <1>3
    <3> QED  BY <1>3, <3>1
  <2>2. m - 1 \in Bound
    BY <2>1
  <2>3. m <= m - 1
    BY <1>2, <2>2
  <2> QED  BY <1>3, <2>3
<1>5. \A y \in S : m >= y
  BY <1>3
<1> QED  BY <1>4, <1>5 DEF Max

LEMMA SameAncestors ==
  ASSUME DEVICE_TABLE' = DEVICE_TABLE
  PROVE  Ancestors' = Ancestors
BY DEF Ancestors

\* A device of the table is a node of the tree.
LEMMA NodeOf ==
  ASSUME TablesRight, NEW d \in Device
  PROVE  tree[d] \in Node
<1>1. /\ DEVICE_TABLE \in Seq(Entry) /\ tree \in Seq(Node)
      /\ DEVICE_COUNT <= Len(tree)
  BY DEF TablesRight, Shape, Tables, Walk
<1>2. DEVICE_COUNT \in Nat
  BY <1>1, LenProperties DEF DEVICE_COUNT
<1>3. Len(tree) \in Nat
  BY <1>1, LenProperties
<1>4. d \in 1 .. Len(tree)
  BY <1>1, <1>2, <1>3 DEF Device
<1> QED  BY <1>1, <1>4, ElementOfSeq

LEMMA PropIndexBound == MAX_PROPS \in Nat /\ PropIndex \subseteq 0 .. MAX_PROPS
BY Limits DEF PropIndex

\* A stored property of some name is a property of that name in the tree.
LEMMA HitIsReal ==
  ASSUME TablesRight, NEW d \in Device, NEW name, name # "", NEW i \in Hits(d, name)
  PROVE  /\ DEVICE_TABLE[d].properties[i] \in tree[d].props
         /\ DEVICE_TABLE[d].properties[i].name = name
         /\ DEVICE_TABLE[d].properties[i] \in Prop
<1>1. i \in PropIndex /\ DEVICE_TABLE[d].properties[i].name = name
  BY DEF Hits
<1>2. DEVICE_TABLE[d].properties[i] \in tree[d].props \cup {NoProp}
  BY <1>1 DEF TablesRight, StoredIsReal
<1>3. NoProp.name = ""
  BY DEF NoProp
<1>4. DEVICE_TABLE[d].properties[i] \in tree[d].props
  BY <1>1, <1>2, <1>3
<1>5. tree[d] \in Node
  BY NodeOf
<1> QED  BY <1>1, <1>4, <1>5 DEF Node

\* So is the one that a search for the name returns.
LEMMA FoundByName ==
  ASSUME TablesRight, NEW d \in Device, NEW name, name # "",
         find_property(d, name) # NoProp
  PROVE  /\ find_property(d, name) \in tree[d].props
         /\ find_property(d, name).name = name
<1>1. Hits(d, name) # {}
  BY DEF find_property
<1>2. PICK i \in Hits(d, name) : find_property(d, name) = DEVICE_TABLE[d].properties[i]
  BY <1>1, FirstHit
<1>3. /\ DEVICE_TABLE[d].properties[i] \in tree[d].props
      /\ DEVICE_TABLE[d].properties[i].name = name
  BY <1>2, HitIsReal
<1> QED  BY <1>2, <1>3

-----------------------------------------------------------------------------
(* The cells a driver gets.                                                *)

\* Every property is stored at an index below the number of properties.
Kept(stored, props) ==
  /\ IsFiniteSet(props)
  /\ \A q \in props : \E i \in PropIndex : i < Cardinality(props) /\ stored[i] = q

\* Unless parse_dtb panics no property gets lost, whatever becomes of the counts: the
\* properties of a node come before its children, so prop_id counts them.
Counted ==
  phase # "panic" =>
    /\ \A d \in Device : Kept(DEVICE_TABLE[d].properties, tree[d].props)
    /\ fresh => prop_id = Cardinality(tree[path[Len(path)]].props)

\* One more property, stored at the index that is their number.
LEMMA KeptGrows ==
  ASSUME NEW T, NEW stored \in [PropIndex -> T], NEW props, NEW p, p \notin props,
         Kept(stored, props), Cardinality(props) \in PropIndex
  PROVE  /\ Kept([stored EXCEPT ![Cardinality(props)] = p], props \cup {p})
         /\ Cardinality(props \cup {p}) = Cardinality(props) + 1
<1>1. PICK n : n = Cardinality(props)
  OBVIOUS
<1>2. IsFiniteSet(props)
  BY DEF Kept
<1>3. n \in Nat /\ IsFiniteSet(props \cup {p}) /\ Cardinality(props \cup {p}) = n + 1
  BY <1>1, <1>2, FS_CardinalityType, FS_AddElement
<1>4. ASSUME NEW q \in props \cup {p}
      PROVE  \E i \in PropIndex : i < n + 1 /\ [stored EXCEPT ![n] = p][i] = q
  <2>1. CASE q = p
    BY <1>1, <1>3, <2>1
  <2>2. CASE q \in props
    <3>1. PICK i \in PropIndex : i < n /\ stored[i] = q
      BY <1>1, <2>2 DEF Kept
    <3>2. i # n /\ i < n + 1
      BY <1>3, <3>1, PropIndexBound
    <3> QED  BY <3>1, <3>2
  <2> QED  BY <2>1, <2>2
<1> QED  BY <1>1, <1>3, <1>4 DEF Kept

\* A property of the innermost node is counted with it.
LEMMA StoreCounted ==
  ASSUME Shape, Counted, NEW p \in Prop, Store(p)
  PROVE  Counted'
<1> DEFINE top == path[Len(path)]
<1>1. /\ top \in Device /\ DEVICE_COUNT' = DEVICE_COUNT /\ path' = path
      /\ prop_id \in PropIndex /\ prop_id' = prop_id + 1
      /\ \A q \in tree[top].props : q.name # p.name
      /\ tree' = [tree EXCEPT ![top].props = @ \cup {p}]
      /\ DEVICE_TABLE' = [DEVICE_TABLE EXCEPT ![top].properties[prop_id] = p]
      /\ phase = "parse" /\ fresh
  BY StoreEffect
<1>2. /\ tree \in Seq(Node) /\ DEVICE_TABLE \in Seq(Entry) /\ DEVICE_COUNT = Len(tree)
  BY <1>1 DEF Shape, Walk, Tables, InStep
<1>3. /\ DOMAIN tree = Device /\ DOMAIN DEVICE_TABLE = Device /\ Device' = Device
      /\ \A d \in Device : tree[d] \in Node /\ DEVICE_TABLE[d] \in Entry
  BY <1>1, <1>2, LenProperties, ElementOfSeq DEF Device, DEVICE_COUNT
<1>4. /\ \A d \in Device : Kept(DEVICE_TABLE[d].properties, tree[d].props)
      /\ prop_id = Cardinality(tree[top].props)
  BY <1>1 DEF Counted
<1>5. path'[Len(path')] = top
  BY <1>1
<1> HIDE DEF top
<1>6. \A d \in Device : d # top => tree'[d] = tree[d] /\ DEVICE_TABLE'[d] = DEVICE_TABLE[d]
  BY <1>1, <1>3
<1>7. /\ tree'[top].props = tree[top].props \cup {p}
      /\ DEVICE_TABLE'[top].properties = [DEVICE_TABLE[top].properties EXCEPT ![prop_id] = p]
  BY <1>1, <1>3 DEF Node, Entry
<1>8. p \notin tree[top].props
  BY <1>1
<1>9. PICK stored, props : stored = DEVICE_TABLE[top].properties /\ props = tree[top].props
  OBVIOUS
<1>10. stored \in [PropIndex -> Prop \cup {NoProp}]
  BY <1>1, <1>3, <1>9 DEF Entry
<1>11. Kept(stored, props) /\ prop_id = Cardinality(props) /\ p \notin props
  BY <1>1, <1>4, <1>8, <1>9
<1>12. /\ Kept([stored EXCEPT ![prop_id] = p], props \cup {p})
       /\ Cardinality(props \cup {p}) = prop_id + 1
  BY <1>1, <1>10, <1>11, KeptGrows
<1>13. /\ Kept(DEVICE_TABLE'[top].properties, tree'[top].props)
       /\ prop_id' = Cardinality(tree'[top].props)
  BY <1>1, <1>7, <1>9, <1>12
<1>14. \A d \in Device' : Kept(DEVICE_TABLE'[d].properties, tree'[d].props)
  BY <1>3, <1>4, <1>6, <1>13
<1> QED  BY <1>5, <1>13, <1>14 DEF Counted

\* A new node has no property.
LEMMA BeginCounted ==
  ASSUME Shape, Counted, Begin
  PROVE  Counted'
<1> DEFINE n == Len(tree) + 1
<1>1. /\ DEVICE_COUNT' = DEVICE_COUNT + 1
      /\ \A d \in 1 .. Len(tree) : tree'[d] = tree[d]
      /\ \A d \in Device : DEVICE_TABLE'[d] = DEVICE_TABLE[d]
      /\ tree'[n].props = {}
      /\ Len(path') = Len(path) + 1 /\ path'[Len(path) + 1] = n
      /\ phase = "parse" /\ prop_id' = 0
  BY BeginEffect
<1>2. DEVICE_COUNT = Len(tree) /\ DEVICE_COUNT \in Nat
  BY <1>1, LenProperties DEF Shape, InStep, Tables, DEVICE_COUNT
<1>3. \A d \in Device : Kept(DEVICE_TABLE[d].properties, tree[d].props)
  BY <1>1 DEF Counted
<1>4. path'[Len(path')] = n
  BY <1>1
<1>5. \A d \in Device' : d \in Device \/ d = n
  BY <1>1, <1>2 DEF Device
<1> HIDE DEF n
<1>6. \A d \in Device : DEVICE_TABLE'[d] = DEVICE_TABLE[d] /\ tree'[d] = tree[d]
  BY <1>1, <1>2 DEF Device
<1>7. Kept(DEVICE_TABLE'[n].properties, tree'[n].props) /\ Cardinality(tree'[n].props) = 0
  BY <1>1, FS_EmptySet DEF Kept
<1>8. \A d \in Device' : Kept(DEVICE_TABLE'[d].properties, tree'[d].props)
  BY <1>3, <1>5, <1>6, <1>7
<1> QED  BY <1>1, <1>4, <1>7, <1>8 DEF Counted

LEMMA CountedInvariant == Spec => []Counted
<1>1. Init => Counted
  <2> SUFFICES ASSUME Init PROVE Counted
    OBVIOUS
  <2>1. Len(<<>>) = 0
    BY EmptySeq
  <2>2. Device = {} /\ ~fresh
    BY <2>1 DEF Init, Device, DEVICE_COUNT
  <2> QED  BY <2>2 DEF Counted
<1>2. TablesRight /\ Counted /\ [Next]_vars => Counted'
  <2> SUFFICES ASSUME TablesRight, Counted, [Next]_vars PROVE Counted'
    OBVIOUS
  <2>0. Shape
    BY DEF TablesRight
  <2>1. CASE Begin
    BY <2>0, <2>1, BeginCounted
  <2>2. CASE FdtEndNode
    <3> DEFINE top == path[Len(path)]
    <3>1. /\ top \in Device /\ DEVICE_COUNT' = DEVICE_COUNT /\ tree' = tree
          /\ DEVICE_TABLE' = [DEVICE_TABLE EXCEPT ![top].prop_count = prop_id]
          /\ phase = "parse" /\ ~fresh'
      BY <2>0, <2>2, EndEffect
    <3> HIDE DEF top
    <3>2. /\ DOMAIN DEVICE_TABLE = Device /\ Device' = Device
          /\ \A d \in Device : DEVICE_TABLE[d] \in Entry
      BY <2>0, <3>1, LenProperties, ElementOfSeq DEF Shape, Tables, Device, DEVICE_COUNT
    <3>3. \A d \in Device : DEVICE_TABLE'[d].properties = DEVICE_TABLE[d].properties
      BY <3>1, <3>2 DEF Entry
    <3> QED  BY <3>1, <3>2, <3>3 DEF Counted
  <2>3. ASSUME NEW p \in Prop, Store(p) PROVE Counted'
    BY <2>0, <2>3, StoreCounted
  <2>4. CASE Stop
    BY <2>4 DEF Stop, Panic, Counted
  <2>5. CASE Pass \/ UNCHANGED vars
    <3>1. /\ UNCHANGED <<DEVICE_TABLE, tree, path, fresh, prop_id>>
          /\ phase' = "panic" <=> phase = "panic"
      BY <2>0, <2>5, PassEffect
    <3>2. Device' = Device
      BY <3>1 DEF Device, DEVICE_COUNT
    <3> QED  BY <3>1, <3>2 DEF Counted
  <2> QED  BY <2>0, <2>1, <2>2, <2>3, <2>4, <2>5, Steps
<1> QED  BY <1>1, <1>2, TablesInvariant, PTL DEF Spec

\* v is what a node with properties above says of the cells of that name, or the default
\* although the node's count is lost.
CellsSeen(v, name, default, above, lost) ==
  \/ IF \E p \in above : p.name = name THEN [name |-> name, value |-> v] \in above
     ELSE v = default
  \/ v = default /\ lost

\* An index that the count leaves out and the number of properties does not.
LEMMA IndexBetween ==
  ASSUME NEW top \in Nat, NEW m \in 0 .. top, NEW i \in 0 .. top, NEW n \in Nat,
         i < n, ~(i < m)
  PROVE  m < n
OBVIOUS

\* A node that has cells shows them, unless it has more properties than its count says.
LEMMA CellsFromTree ==
  ASSUME TablesRight, Counted, phase # "panic",
         NEW d \in Device, NEW name, name # "", NEW default
  PROVE  CellsSeen(Cells(d, name, default), name, default, tree[d].props,
                   DEVICE_TABLE[d].prop_count < Cardinality(tree[d].props))
<1>1. CASE Hits(d, name) = {}
  <2>1. Cells(d, name, default) = default
    BY <1>1 DEF Cells
  <2>2. ASSUME NEW p \in tree[d].props, p.name = name
        PROVE  DEVICE_TABLE[d].prop_count < Cardinality(tree[d].props)
    <3>1. Kept(DEVICE_TABLE[d].properties, tree[d].props)
      BY DEF Counted
    <3>2. PICK i \in PropIndex : /\ i < Cardinality(tree[d].props)
                                 /\ DEVICE_TABLE[d].properties[i] = p
      BY <3>1 DEF Kept
    <3>3. ~(i < DEVICE_TABLE[d].prop_count)
      BY <1>1, <2>2, <3>2 DEF Hits
    <3>4. Cardinality(tree[d].props) \in Nat
      BY <3>1, FS_CardinalityType DEF Kept
    <3>5. DEVICE_TABLE[d] \in Entry
      BY ElementOfSeq DEF TablesRight, Shape, Tables, Device, DEVICE_COUNT
    <3>6. DEVICE_TABLE[d].prop_count \in 0 .. MAX_PROPS
      BY <3>5 DEF Entry
    <3>7. i \in 0 .. MAX_PROPS /\ MAX_PROPS \in Nat
      BY PropIndexBound
    <3> QED  BY <3>2, <3>3, <3>4, <3>6, <3>7, IndexBetween, Zenon
  <2> QED  BY <2>1, <2>2 DEF CellsSeen
<1>2. CASE Hits(d, name) # {}
  <2>1. Hits(d, name) \in SUBSET (0 .. MAX_PROPS) /\ MAX_PROPS \in Nat
    BY PropIndexBound DEF Hits
  <2>2. Max(Hits(d, name)) \in Hits(d, name)
    BY <1>2, <2>1, MaxIn
  <2>3. PICK i \in Hits(d, name) : Cells(d, name, default) = DEVICE_TABLE[d].properties[i].value
    BY <1>2, <2>2 DEF Cells
  <2>4. PICK p \in Prop : p = DEVICE_TABLE[d].properties[i] /\ p \in tree[d].props /\ p.name = name
    BY HitIsReal
  <2>5. p = [name |-> name, value |-> p.value]
    BY <2>4, PropAssumption
  <2> QED  BY <2>3, <2>4, <2>5 DEF CellsSeen
<1> QED  BY <1>1, <1>2

-----------------------------------------------------------------------------
(* The interrupt controller it gets.                                       *)

\* The phandle table points to devices that have the phandle.
Handles ==
  \A i \in 1 .. Len(PHANDLE_TABLE) :
    /\ PHANDLE_TABLE[i][2] \in Device
    /\ \E q \in tree[PHANDLE_TABLE[i][2]].props :
         q.name = "phandle" /\ q.value = PHANDLE_TABLE[i][1]

\* The tree only grows.
Grows == \A d \in Device : d \in Device' /\ tree[d].props \subseteq tree'[d].props

LEMMA GrowingKeepsHandles ==
  ASSUME Handles, Grows, PHANDLE_TABLE' = PHANDLE_TABLE
  PROVE  Handles'
<1>1. ASSUME NEW i \in 1 .. Len(PHANDLE_TABLE)
      PROVE  /\ PHANDLE_TABLE[i][2] \in Device'
             /\ \E q \in tree'[PHANDLE_TABLE[i][2]].props :
                  q.name = "phandle" /\ q.value = PHANDLE_TABLE[i][1]
  BY DEF Handles, Grows
<1> QED  BY <1>1 DEF Handles

\* FDT_PROP registers a phandle for the node it belongs to.
LEMMA StoreKeepsHandles ==
  ASSUME TablesRight, Handles, NEW p \in Prop, Store(p)
  PROVE  Handles'
<1> DEFINE top == path[Len(path)]
<1>0. Shape
  BY DEF TablesRight
<1>1. /\ top \in Device /\ DEVICE_COUNT' = DEVICE_COUNT /\ phase = "parse"
      /\ tree' = [tree EXCEPT ![top].props = @ \cup {p}]
  BY <1>0, StoreEffect
<1>2. stack = path /\ DEVICE_COUNT = Len(tree)
  BY <1>0, <1>1 DEF Shape, InStep
<1>3. PHANDLE_TABLE' = IF p.name = "phandle" THEN Append(PHANDLE_TABLE, <<p.value, top>>)
                       ELSE PHANDLE_TABLE
  BY <1>2 DEF Store, Top
<1> HIDE DEF top
<1>4. Device' = Device /\ Device = 1 .. Len(tree)
  BY <1>1, <1>2 DEF Device
<1>5. tree \in Seq(Node) /\ DOMAIN tree = 1 .. Len(tree)
  BY <1>0, LenProperties DEF Shape, Walk
<1>6. \A d \in Device : tree[d] \in Node
  BY <1>4, <1>5, ElementOfSeq
<1>7. /\ tree'[top].props = tree[top].props \cup {p}
      /\ \A d \in Device : d # top => tree'[d] = tree[d]
  BY <1>1, <1>4, <1>5, <1>6 DEF Node
<1>8. Grows
  BY <1>4, <1>7 DEF Grows
<1>9. CASE p.name # "phandle"
  BY <1>3, <1>8, <1>9, GrowingKeepsHandles
<1>10. CASE p.name = "phandle"
  <2> DEFINE h == <<p.value, top>>
  <2>1. h[1] = p.value /\ h[2] = top
    OBVIOUS
  <2>2. h \in Handle
    <3>1. top \in Nat
      BY <1>1 DEF Device
    <3> QED  BY <3>1 DEF Handle
  <2>3. PHANDLE_TABLE \in Seq(Handle) /\ Len(PHANDLE_TABLE) \in Nat
    BY <1>0, LenProperties DEF Shape, Tables
  <2> HIDE DEF h
  <2>4. PHANDLE_TABLE' = Append(PHANDLE_TABLE, h)
    BY <1>3, <1>10 DEF h
  <2>5. Len(PHANDLE_TABLE') = Len(PHANDLE_TABLE) + 1
    BY <2>2, <2>3, <2>4, AppendProperties
  <2>6. \A i \in 1 .. Len(PHANDLE_TABLE) : PHANDLE_TABLE'[i] = PHANDLE_TABLE[i]
    BY <2>2, <2>3, <2>4, AppendProperties
  <2>7. PHANDLE_TABLE'[Len(PHANDLE_TABLE) + 1] = h
    BY <2>2, <2>3, <2>4, AppendProperties
  <2>8. ASSUME NEW i \in 1 .. Len(PHANDLE_TABLE')
        PROVE  /\ PHANDLE_TABLE'[i][2] \in Device'
               /\ \E q \in tree'[PHANDLE_TABLE'[i][2]].props :
                    q.name = "phandle" /\ q.value = PHANDLE_TABLE'[i][1]
    <3>1. CASE i = Len(PHANDLE_TABLE) + 1
      <4>1. PHANDLE_TABLE'[i] = h
        BY <2>7, <3>1
      <4>2. p \in tree'[top].props
        BY <1>7
      <4> QED  BY <1>1, <1>4, <1>10, <2>1, <4>1, <4>2
    <3>2. CASE i \in 1 .. Len(PHANDLE_TABLE)
      <4>1. PHANDLE_TABLE'[i] = PHANDLE_TABLE[i]
        BY <2>6, <3>2
      <4> QED  BY <1>8, <3>2, <4>1 DEF Handles, Grows
    <3> QED  BY <2>3, <2>5, <3>1, <3>2
  <2> QED  BY <2>8 DEF Handles
<1> QED  BY <1>9, <1>10

LEMMA HandlesInvariant == Spec => []Handles
<1>1. Init => Handles
  <2> SUFFICES ASSUME Init PROVE Handles
    OBVIOUS
  <2>1. Len(PHANDLE_TABLE) = 0
    BY DEF Init
  <2> QED  BY <2>1 DEF Handles
<1>2. TablesRight /\ Handles /\ [Next]_vars => Handles'
  <2> SUFFICES ASSUME TablesRight, Handles, [Next]_vars PROVE Handles'
    OBVIOUS
  <2>0. Shape
    BY DEF TablesRight
  <2>1. Device = 1 .. DEVICE_COUNT /\ Device' = 1 .. DEVICE_COUNT' /\ DEVICE_COUNT \in Nat
    BY <2>0, LenProperties DEF Device, DEVICE_COUNT, Shape, Tables
  <2>2. CASE Begin
    <3>1. /\ DEVICE_COUNT' = DEVICE_COUNT + 1 /\ phase = "parse"
          /\ \A d \in 1 .. Len(tree) : tree'[d] = tree[d]
      BY <2>0, <2>2, BeginEffect
    <3>2. DEVICE_COUNT = Len(tree)
      BY <2>0, <3>1 DEF Shape, InStep
    <3>3. Grows
      BY <2>1, <3>1, <3>2 DEF Grows
    <3>4. PHANDLE_TABLE' = PHANDLE_TABLE
      BY <2>2 DEF Begin
    <3> QED  BY <3>3, <3>4, GrowingKeepsHandles
  <2>3. CASE FdtEndNode
    <3>1. tree' = tree /\ DEVICE_COUNT' = DEVICE_COUNT
      BY <2>0, <2>3, EndEffect
    <3>2. PHANDLE_TABLE' = PHANDLE_TABLE
      BY <2>3 DEF FdtEndNode
    <3> QED  BY <2>1, <3>1, <3>2, GrowingKeepsHandles DEF Grows
  <2>4. ASSUME NEW p \in Prop, Store(p) PROVE Handles'
    BY <2>4, StoreKeepsHandles
  <2>5. CASE Stop
    <3>1. /\ DEVICE_COUNT' = DEVICE_COUNT
          /\ \A d \in Device : tree[d].props \subseteq tree'[d].props
      BY <2>0, <2>5, StopEffect
    <3>2. PHANDLE_TABLE' = PHANDLE_TABLE
      BY <2>5 DEF Stop, Panic, parserVars
    <3> QED  BY <2>1, <3>1, <3>2, GrowingKeepsHandles DEF Grows
  <2>6. CASE Pass \/ UNCHANGED vars
    <3>1. tree' = tree /\ DEVICE_COUNT' = DEVICE_COUNT
      BY <2>0, <2>6, PassEffect
    <3>2. PHANDLE_TABLE' = PHANDLE_TABLE
      BY <2>6 DEF Pass, vars, parserVars
    <3> QED  BY <2>1, <3>1, <3>2, GrowingKeepsHandles DEF Grows
  <2> QED  BY <2>0, <2>2, <2>3, <2>4, <2>5, <2>6, Steps
<1> QED  BY <1>1, <1>2, TablesInvariant, PTL DEF Spec

\* What DriverSeesTree says of one call c, in tree t, with that table and the ancestors up.
SeesTree(c, t, table, up) ==
  LET parent == t[c.dev].parent
      above == IF parent = 0 THEN {} ELSE t[parent].props
      lost == parent # 0 /\ table[parent].prop_count < Cardinality(t[parent].props) IN
  /\ c.intc # 0 =>
       \E a \in up[c.dev] : \E p \in t[a].props : \E q \in t[c.intc].props :
         p.name = "interrupt-parent" /\ q.name = "phandle" /\ p.value = q.value
  /\ CellsSeen(c.cells[1], "#address-cells", 2, above, lost)
  /\ CellsSeen(c.cells[2], "#size-cells", 1, above, lost)

\* The interrupt controller a driver gets.
LEMMA IntcFromTree ==
  ASSUME TablesRight, Handles, NEW d \in Device, find_interrupt_parent(d) # 0
  PROVE  \E a \in Ancestors[d] : \E p \in tree[a].props :
           \E q \in tree[find_interrupt_parent(d)].props :
             p.name = "interrupt-parent" /\ q.name = "phandle" /\ p.value = q.value
<1> DEFINE hits == {a \in 1 .. DEVICE_COUNT :
                      a \in Ancestors[d] /\ find_property(a, "interrupt-parent") # NoProp}
           a == Max(hits)
           p == find_property(a, "interrupt-parent")
           handles == {i \in 1 .. Len(PHANDLE_TABLE) : PHANDLE_TABLE[i][1] = p.value}
<1>1. DEVICE_COUNT \in Nat /\ Len(PHANDLE_TABLE) \in Nat
  BY LenProperties DEF TablesRight, Shape, Tables, DEVICE_COUNT
<1>2. find_interrupt_parent(d) = IF hits = {} THEN 0 ELSE find_device_by_phandle(p.value)
  BY DEF find_interrupt_parent
<1>3. hits # {} /\ find_interrupt_parent(d) = find_device_by_phandle(p.value)
  BY <1>2
<1>4. hits \in SUBSET (0 .. DEVICE_COUNT)
  BY <1>1
<1>5. a \in hits
  <2> HIDE DEF hits
  <2> QED  BY <1>1, <1>3, <1>4, MaxIn
<1>6. a \in Device /\ a \in Ancestors[d] /\ p # NoProp
  BY <1>5 DEF Device
<1> HIDE DEF a, hits
<1>7. p \in tree[a].props /\ p.name = "interrupt-parent"
  BY <1>6, FoundByName
<1> HIDE DEF p
<1>8. find_device_by_phandle(p.value) = IF handles = {} THEN 0 ELSE PHANDLE_TABLE[Min(handles)][2]
  BY DEF find_device_by_phandle
<1>9. handles # {} /\ find_interrupt_parent(d) = PHANDLE_TABLE[Min(handles)][2]
  BY <1>3, <1>8
<1>10. handles \in SUBSET Nat
  BY <1>1
<1>11. Min(handles) \in handles
  <2> HIDE DEF handles
  <2> QED  BY <1>9, <1>10, MinIn
<1>12. Min(handles) \in 1 .. Len(PHANDLE_TABLE) /\ PHANDLE_TABLE[Min(handles)][1] = p.value
  BY <1>11
<1> HIDE DEF handles
<1>13. \E q \in tree[find_interrupt_parent(d)].props : q.name = "phandle" /\ q.value = p.value
  BY <1>9, <1>12 DEF Handles
<1> QED  BY <1>6, <1>7, <1>13

\* The call made for device d.
CallFor(d) ==
  [driver |-> CONFIGURED_DEVICES[Min(Matches(d))], dev |-> d,
   intc |-> find_interrupt_parent(d), cells |-> get_parent_cells(d)]

LEMMA CallSeesTree ==
  ASSUME TablesRight, Handles, Counted, phase # "panic", NEW d \in Device
  PROVE  SeesTree(CallFor(d), tree, DEVICE_TABLE, Ancestors)
<1>1. /\ CallFor(d).dev = d /\ CallFor(d).intc = find_interrupt_parent(d)
      /\ CallFor(d).cells = get_parent_cells(d)
  BY DEF CallFor
<1> DEFINE parent == tree[d].parent
<1>2. DEVICE_TABLE[d].parent = parent /\ parent \in 0 .. DEVICE_COUNT
  BY DEF TablesRight, Parents
<1> HIDE DEF parent
<1>3. CASE parent = 0
  <2>1. get_parent_cells(d) = <<2, 1>>
    BY <1>2, <1>3 DEF get_parent_cells
  <2>2. CallFor(d).cells[1] = 2 /\ CallFor(d).cells[2] = 1
    BY <1>1, <2>1
  <2>3. /\ CellsSeen(2, "#address-cells", 2, {}, FALSE)
        /\ CellsSeen(1, "#size-cells", 1, {}, FALSE)
    BY DEF CellsSeen
  <2>4. PICK c : c = CallFor(d)
    OBVIOUS
  <2>5. c.dev = d /\ c.cells[1] = 2 /\ c.cells[2] = 1 /\ tree[c.dev].parent = 0
    BY <1>1, <1>3, <2>2, <2>4 DEF parent
  <2>6. c.intc # 0 =>
          \E a \in Ancestors[c.dev] : \E p \in tree[a].props : \E q \in tree[c.intc].props :
            p.name = "interrupt-parent" /\ q.name = "phandle" /\ p.value = q.value
    BY <1>1, <2>4, IntcFromTree
  <2>7. SeesTree(c, tree, DEVICE_TABLE, Ancestors)
    BY <2>3, <2>5, <2>6 DEF SeesTree
  <2> QED  BY <2>4, <2>7
<1>4. CASE parent # 0
  <2>1. get_parent_cells(d) = <<Cells(parent, "#address-cells", 2), Cells(parent, "#size-cells", 1)>>
    BY <1>2, <1>4 DEF get_parent_cells
  <2>2. /\ CallFor(d).cells[1] = Cells(parent, "#address-cells", 2)
        /\ CallFor(d).cells[2] = Cells(parent, "#size-cells", 1)
    BY <1>1, <2>1
  <2>3. parent \in Device
    BY <1>2, <1>4 DEF Device
  <2>4. CellsSeen(Cells(parent, "#address-cells", 2), "#address-cells", 2, tree[parent].props,
                  DEVICE_TABLE[parent].prop_count < Cardinality(tree[parent].props))
    BY <2>3, CellsFromTree
  <2>5. CellsSeen(Cells(parent, "#size-cells", 1), "#size-cells", 1, tree[parent].props,
                  DEVICE_TABLE[parent].prop_count < Cardinality(tree[parent].props))
    BY <2>3, CellsFromTree
  <2> QED  BY <1>1, <1>4, <2>2, <2>4, <2>5, IntcFromTree DEF SeesTree, parent
<1> QED  BY <1>3, <1>4

\* The calls of a device are none, or that one.
LEMMA CallsOf ==
  ASSUME NEW d
  PROVE  SetupCalls(d) = <<>> \/ SetupCalls(d) = <<CallFor(d)>>
BY Zenon DEF SetupCalls, CallFor, Matches

AllSeeTree == \A i \in 1 .. Len(calls) : SeesTree(calls[i], tree, DEVICE_TABLE, Ancestors)

\* A step that adds the calls of device d, or none.
LEMMA AddedCalls ==
  ASSUME TablesRight, Handles, Counted, phase # "panic", CallsRight, AllSeeTree,
         NEW d \in Device,
         tree' = tree, DEVICE_TABLE' = DEVICE_TABLE,
         \/ calls' = calls
         \/ calls' = calls \o <<>>
         \/ calls' = calls \o SetupCalls(d)
  PROVE  AllSeeTree'
<1>1. Ancestors' = Ancestors
  BY SameAncestors
<1>2. PICK S : calls \in Seq(S)
  BY DEF CallsRight
<1>3. calls \o <<>> = calls
  BY <1>2, ConcatEmptySeq
<1>4. CASE calls' = calls
  BY <1>1, <1>4 DEF AllSeeTree
<1>5. CASE calls' = calls \o <<CallFor(d)>>
  <2>1. PICK c : c = CallFor(d)
    OBVIOUS
  <2>2. SeesTree(c, tree, DEVICE_TABLE, Ancestors)
    BY <2>1, CallSeesTree
  <2>3. calls' = calls \o <<c>>
    BY <1>5, <2>1
  <2>4. /\ Len(calls) \in Nat /\ Len(calls') = Len(calls) + 1
        /\ \A i \in 1 .. Len(calls) : calls'[i] = calls[i]
        /\ calls'[Len(calls) + 1] = c
    BY <1>2, <2>3, OneMore
  <2>5. \A i \in 1 .. Len(calls') : i \in 1 .. Len(calls) \/ i = Len(calls) + 1
    BY <2>4
  <2>6. ASSUME NEW i \in 1 .. Len(calls') PROVE SeesTree(calls'[i], tree, DEVICE_TABLE, Ancestors)
    BY <2>2, <2>4, <2>5 DEF AllSeeTree
  <2> QED  BY <1>1, <2>6 DEF AllSeeTree
<1> QED  BY <1>3, <1>4, <1>5, CallsOf

\* For every tree: the interrupt controller a driver gets is one that an ancestor of its
\* device names, and the cells it gets are those of the parent in the tree.  The one
\* exception is a parent with more properties than its count says, of which it may get
\* the defaults; never the cells of another node.
THEOREM DeviceTreeDriverSeesTree == Spec => []DriverSeesTree
<1>1. Init => AllSeeTree
  <2> SUFFICES ASSUME Init PROVE AllSeeTree
    OBVIOUS
  <2>1. Len(calls) = 0
    BY DEF Init
  <2> QED  BY <2>1 DEF AllSeeTree
<1>2. TablesRight /\ Handles /\ Counted /\ Passes /\ AllSeeTree /\ [Next]_vars => AllSeeTree'
  <2> SUFFICES ASSUME TablesRight, Handles, Counted, Passes, AllSeeTree, [Next]_vars
               PROVE  AllSeeTree'
    OBVIOUS
  <2>1. CASE \/ ParseHeader \/ FdtBeginNode \/ FdtEndNode \/ UnknownToken
             \/ \E p \in Prop : FdtProp(p)
    <3>1. phase \in {"header", "parse"} /\ calls' = calls
      BY <2>1 DEF ParseHeader, FdtBeginNode, FdtEndNode, UnknownToken, FdtProp, Panic,
                  TreeBegin, TreeEnd, TreeProp, StoreProp
    <3>2. calls' = <<>>
      BY <3>1 DEF Passes, Progress
    <3>3. Len(calls') = 0
      BY <3>2
    <3> QED  BY <3>3 DEF AllSeeTree
  <2>2. CASE UNCHANGED vars \/ FdtEnd \/ FirstPassEnds \/ SecondPassEnds
    <3>1. tree' = tree /\ DEVICE_TABLE' = DEVICE_TABLE /\ calls' = calls
      BY <2>2 DEF vars, FdtEnd, FirstPassEnds, SecondPassEnds, parserVars, treeVars
    <3>2. Ancestors' = Ancestors
      BY <3>1, SameAncestors
    <3> QED  BY <3>1, <3>2 DEF AllSeeTree
  <2>3. next_dev <= DEVICE_COUNT => next_dev \in Device
    BY LenProperties DEF TablesRight, Shape, Tables, Device, DEVICE_COUNT
  <2>4. PICK d : d = next_dev
    OBVIOUS
  <2>5. CASE FirstPass
    <3>1. /\ tree' = tree /\ DEVICE_TABLE' = DEVICE_TABLE /\ d \in Device /\ phase # "panic"
          /\ calls' = calls \/ calls' = calls \o SetupCalls(d)
      BY <2>3, <2>4, <2>5 DEF FirstPass, parserVars, treeVars
    <3> QED  BY <3>1, AddedCalls DEF Passes
  <2>6. CASE SecondPass
    <3>1. /\ tree' = tree /\ DEVICE_TABLE' = DEVICE_TABLE /\ d \in Device /\ phase # "panic"
          /\ calls' = calls \o <<>> \/ calls' = calls \o SetupCalls(d)
      BY <2>3, <2>4, <2>6 DEF SecondPass, SecondPassWith, OtherCalls, parserVars, treeVars
    <3> QED  BY <3>1, AddedCalls DEF Passes
  <2> QED  BY <2>1, <2>2, <2>5, <2>6 DEF Next
<1>3. Passes /\ AllSeeTree => DriverSeesTree
  <2> SUFFICES ASSUME Passes, AllSeeTree PROVE DriverSeesTree
    OBVIOUS
  <2>1. DOMAIN calls = 1 .. Len(calls)
    BY LenProperties DEF Passes, CallsRight
  <2> QED  BY <2>1 DEF AllSeeTree, SeesTree, CellsSeen, DriverSeesTree, CellsInTree, CountLost
<1> QED  BY <1>1, <1>2, <1>3, TablesInvariant, HandlesInvariant, CountedInvariant,
         PassesInvariant, PTL DEF Spec

=============================================================================
