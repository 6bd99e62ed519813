------------------------ MODULE ExceptionFrameProofs ------------------------
(***************************************************************************)
(* Exception entry and exit give every interrupted code its registers      *)
(* back, for every set of exception classes and every depth of nesting.    *)
(***************************************************************************)
EXTENDS ExceptionFrame, SequenceTheorems, TLAPS

Kind == {"irq", "sync", "fatal"}

\* The instruction of irq_handler that stands where instruction a of the code of kind k
\* stands: sync_handler has one more, behind save_regs.
Place(k, a) == IF k = "sync" /\ a > 24 THEN a - 1 ELSE a

\* The number of words on the stack before the instruction at place p.
Pushed(p) ==
  CASE p = 1 -> 0
    [] p = 2 -> 2
    [] p \in 3 .. 17 -> 2 * p - 4
    [] p \in 18 .. 21 -> 32
    [] p = 22 -> 34
    [] p \in 23 .. 25 -> 36
    [] p = 26 -> 34
    [] p \in 27 .. 29 -> 32
    [] OTHER -> 90 - 2 * p

\* What memory m holds, before instruction a, of the registers g that an exception of
\* class c at depth d found when the stack pointer was s.
Stored(a, s, g, c, d, m) ==
  /\ a >= 2 => m[s - 2] = g[29] /\ m[s - 1] = g[30]
  /\ \A r \in 1 .. 28 : a >= 3 /\ r >= 35 - 2 * a => m[s - 31 + r] = g[r]
  /\ a >= 18 => m[s - 32] = g[0]
  /\ a >= 22 => m[s - 34] = 400 + c
  /\ a >= 23 => m[s - 36] = 199 + d /\ m[s - 35] = 299 + d

\* What the registers f hold before instruction a of an entry, when that exception is
\* the innermost one.
Entering(k, a, s, g, c, d, f) ==
  /\ a <= 17 => \A r \in 0 .. 28 : f[r] = g[r]
  /\ a = 1 => f[29] = g[29] /\ f[30] = g[30]
  /\ a <= 20 => f[ELR] = 199 + d /\ f[SPSR] = 299 + d /\ f[ESR] = 400 + c
  /\ a \in 19 .. 23 => f[1] = 400 + c
  /\ a \in 20 .. 22 => f[2] = 199 + d
  /\ a \in 21 .. 22 => f[3] = 299 + d
  /\ a = 24 /\ k # "irq" => f[0] = s - 36 /\ f[1] = 400 + c

\* The same, at place p of an exit.
Leaving(k, p, g, d, f) ==
  /\ p \in 26 .. 28 => f[3] = 199 + d
  /\ p \in 26 .. 27 => f[2] = 299 + d
  /\ p >= 28 => f[SPSR] = 299 + d
  /\ p >= 29 => f[ELR] = 199 + d
  /\ p >= 30 /\ k = "irq" => f[0] = g[0]
  /\ p >= 30 => \A r \in 1 .. 30 : r <= 2 * (p - 30) => f[r] = g[r]

\* What the handlers of exception e were given.
Told(e) ==
  /\ e.call.fn = "do_sync" => e.call.arg = e.from.x[8]
  /\ e.report # <<>> => e.report.regs[ESR] = 400 + e.ec /\ e.report.regs[0] = e.from.x[0]

Last(kind) == IF kind = "irq" THEN 45 ELSE IF kind = "sync" THEN 46 ELSE 25

Call == [fn : {"none", "do_sync", "unimplemented_sync"}, arg : Nat]
Report == {<<>>} \cup [instr : Nat, regs : [Reg \ {XZR} -> Nat]]
Exception ==
  [kind : Kind, at : Nat, ec : Nat, call : Call, report : Report, from : [x : [Reg -> Nat], sp : Nat]]

Types ==
  /\ x \in [Reg -> Nat] /\ sp \in Nat /\ mem \in [0 .. StackWords - 1 -> Nat]
  /\ active \in Seq(Exception) /\ Len(active) <= MaxDepth

\* The handler that e is in may be interrupted.
Waits(e) == (e.kind = "irq" /\ e.at = 24) \/ (e.kind = "sync" /\ e.at = 25)

\* The frame of e, at depth d, is where it has to be in memory m.
FrameHolds(e, d, m) ==
  /\ e.from.sp = StackWords - 36 * (d - 1)
  /\ Stored(e.at, e.from.sp, e.from.x, e.ec, d, m)
  /\ Told(e)

\* The registers f and the stack pointer s, when e, at depth d, is the innermost exception.
TopHolds(e, d, f, s) ==
  /\ e.at \in 1 .. Last(e.kind)
  /\ s = e.from.sp - Pushed(Place(e.kind, e.at))
  /\ Entering(e.kind, e.at, e.from.sp, e.from.x, e.ec, d, f)
  /\ Leaving(e.kind, Place(e.kind, e.at), e.from.x, d, f)

\* The exceptions in stack s, with registers f, stack pointer t and memory m.
FramesOf(s, f, t, m) ==
  /\ \A d \in 1 .. Len(s) : FrameHolds(s[d], d, m)
  /\ \A d \in 1 .. Len(s) - 1 : Waits(s[d])
  /\ Len(s) = 0 => t = StackWords
  /\ Len(s) > 0 => TopHolds(s[Len(s)], Len(s), f, t)

Frames == FramesOf(active, x, sp, mem)

-----------------------------------------------------------------------------
(* The code, instruction by instruction.                                   *)

OpName == {"stp", "ldp", "mov", "bl", "mov x0, sp", "do_irq", "dispatch", "rust", "panic",
           "loop", "eret"}
Instr == [op : OpName, a : Reg, b : Reg]

LEMMA InstrType ==
  /\ \A a, b \in Reg : Stp(a, b) \in Instr /\ Ldp(a, b) \in Instr /\ Mov(a, b) \in Instr
  /\ \A op \in OpName : Op(op) \in Instr
<1>1. \A op \in OpName, a, b \in Reg : Instruction(op, a, b) \in Instr
  BY DEF Instruction, Instr
<1>2. "stp" \in OpName /\ "ldp" \in OpName /\ "mov" \in OpName /\ 0 \in Reg
  BY DEF Reg, OpName
<1> QED  BY <1>1, <1>2 DEF Stp, Ldp, Mov, Op

\* The registers and operations that the code names.
LEMMA RegNames ==
  /\ 0 \in Reg /\ 1 \in Reg /\ 2 \in Reg /\ 3 \in Reg /\ 29 \in Reg /\ 30 \in Reg
  /\ XZR \in Reg /\ ELR \in Reg /\ SPSR \in Reg /\ ESR \in Reg
  /\ "bl" \in OpName /\ "mov x0, sp" \in OpName /\ "do_irq" \in OpName
  /\ "dispatch" \in OpName /\ "rust" \in OpName /\ "panic" \in OpName
  /\ "loop" \in OpName /\ "eret" \in OpName
<1>1. /\ 0 \in Reg /\ 1 \in Reg /\ 2 \in Reg /\ 3 \in Reg /\ 29 \in Reg /\ 30 \in Reg
      /\ XZR \in Reg /\ ELR \in Reg /\ SPSR \in Reg /\ ESR \in Reg
  BY DEF Reg, XZR, ELR, SPSR, ESR
<1>2. /\ "bl" \in OpName /\ "mov x0, sp" \in OpName /\ "do_irq" \in OpName
      /\ "dispatch" \in OpName /\ "rust" \in OpName /\ "panic" \in OpName
      /\ "loop" \in OpName /\ "eret" \in OpName
  BY DEF OpName
<1> QED  BY <1>1, <1>2

\* c is s with t behind it.
Joined(c, s, t) ==
  /\ c \in Seq(Instr) /\ Len(c) = Len(s) + Len(t)
  /\ \A i \in 1 .. Len(s) : c[i] = s[i]
  /\ \A i \in 1 .. Len(t) : c[Len(s) + i] = t[i]

LEMMA Behind ==
  ASSUME NEW s \in Seq(Instr), NEW t \in Seq(Instr)
  PROVE  Joined(s \o t, s, t)
<1>0. Len(s) \in Nat /\ Len(t) \in Nat
  BY LenProperties
<1>1. /\ s \o t \in Seq(Instr) /\ Len(s \o t) = Len(s) + Len(t)
      /\ \A i \in 1 .. Len(s) + Len(t) :
           (s \o t)[i] = IF i <= Len(s) THEN s[i] ELSE t[i - Len(s)]
  BY ConcatProperties
<1>2. ASSUME NEW i \in 1 .. Len(s) PROVE (s \o t)[i] = s[i]
  BY <1>0, <1>1
<1>3. ASSUME NEW i \in 1 .. Len(t) PROVE (s \o t)[Len(s) + i] = t[i]
  <2>1. Len(s) + i \in 1 .. Len(s) + Len(t) /\ ~(Len(s) + i <= Len(s)) /\ (Len(s) + i) - Len(s) = i
    BY <1>0
  <2> QED  BY <1>1, <2>1
<1> QED  BY <1>1, <1>2, <1>3 DEF Joined

LEMMA Pairs ==
  /\ SavePairs \in Seq(Instr) /\ Len(SavePairs) = 14
  /\ \A k \in 1 .. 14 : SavePairs[k] = Stp(29 - 2 * k, 30 - 2 * k)
  /\ LoadPairs \in Seq(Instr) /\ Len(LoadPairs) = 14
  /\ \A k \in 1 .. 14 : LoadPairs[k] = Ldp(2 * k - 1, 2 * k)
<1>1. ASSUME NEW k \in 1 .. 14
      PROVE  Stp(29 - 2 * k, 30 - 2 * k) \in Instr /\ Ldp(2 * k - 1, 2 * k) \in Instr
  <2>1. {29 - 2 * k, 30 - 2 * k, 2 * k - 1, 2 * k} \subseteq Reg
    BY DEF Reg
  <2> QED  BY <2>1, InstrType
<1>2. SavePairs \in [1 .. 14 -> Instr] /\ LoadPairs \in [1 .. 14 -> Instr]
  BY <1>1 DEF SavePairs, LoadPairs
<1>3. SavePairs \in Seq(Instr) /\ LoadPairs \in Seq(Instr)
  <2>1. \A f \in [1 .. 14 -> Instr] : f \in Seq(Instr)
    <3>1. \A n \in Nat : \A f \in [1 .. n -> Instr] : f \in Seq(Instr)
      BY SeqDef
    <3> QED  BY <3>1
  <2> QED  BY <1>2, <2>1
<1>4. DOMAIN SavePairs = 1 .. 14 /\ DOMAIN LoadPairs = 1 .. 14
  BY DEF SavePairs, LoadPairs
<1>5. Len(SavePairs) = 14 /\ Len(LoadPairs) = 14
  BY <1>3, <1>4, LenProperties
<1> QED  BY <1>3, <1>5 DEF SavePairs, LoadPairs

LEMMA SevenTuple ==
  ASSUME NEW i1 \in Instr, NEW i2 \in Instr, NEW i3 \in Instr, NEW i4 \in Instr,
         NEW i5 \in Instr, NEW i6 \in Instr, NEW i7 \in Instr
  PROVE  <<i1, i2, i3, i4, i5, i6, i7>> \in Seq(Instr) /\ Len(<<i1, i2, i3, i4, i5, i6, i7>>) = 7
OBVIOUS

LEMMA FourTuple ==
  ASSUME NEW i1 \in Instr, NEW i2 \in Instr, NEW i3 \in Instr, NEW i4 \in Instr
  PROVE  <<i1, i2, i3, i4>> \in Seq(Instr) /\ Len(<<i1, i2, i3, i4>>) = 4
OBVIOUS

\* An entry of evt and save_regs.
LEMMA SaveCode ==
  /\ save_regs \in Seq(Instr) /\ Len(save_regs) = 23
  /\ save_regs[1] = Stp(29, 30) /\ save_regs[2] = Op("bl")
  /\ \A a \in 3 .. 16 : save_regs[a] = Stp(33 - 2 * a, 34 - 2 * a)
  /\ save_regs[17] = Stp(0, XZR) /\ save_regs[18] = Mov(1, ESR)
  /\ save_regs[19] = Mov(2, ELR) /\ save_regs[20] = Mov(3, SPSR)
  /\ save_regs[21] = Stp(1, XZR) /\ save_regs[22] = Stp(2, 3)
  /\ save_regs[23] = Op("mov x0, sp")
<1> DEFINE s == <<Stp(29, 30), Op("bl")>>
           t == <<Stp(0, XZR), Mov(1, ESR), Mov(2, ELR), Mov(3, SPSR), Stp(1, XZR),
                  Stp(2, 3), Op("mov x0, sp")>>
<1>1. s \in Seq(Instr) /\ Len(s) = 2 /\ s[1] = Stp(29, 30) /\ s[2] = Op("bl")
  <2>1. Stp(29, 30) \in Instr /\ Op("bl") \in Instr
    BY InstrType, RegNames
  <2> QED  BY <2>1
<1>2. t \in Seq(Instr) /\ Len(t) = 7
  <2>1. /\ Stp(0, XZR) \in Instr /\ Mov(1, ESR) \in Instr /\ Mov(2, ELR) \in Instr
        /\ Mov(3, SPSR) \in Instr /\ Stp(1, XZR) \in Instr /\ Stp(2, 3) \in Instr
        /\ Op("mov x0, sp") \in Instr
    BY InstrType, RegNames
  <2> QED  BY <2>1, SevenTuple
<1>3. /\ t[1] = Stp(0, XZR) /\ t[2] = Mov(1, ESR) /\ t[3] = Mov(2, ELR)
      /\ t[4] = Mov(3, SPSR) /\ t[5] = Stp(1, XZR) /\ t[6] = Stp(2, 3)
      /\ t[7] = Op("mov x0, sp")
  OBVIOUS
<1> DEFINE c == s \o SavePairs
<1>4. save_regs = c \o t
  BY DEF save_regs, SaveRegs
<1> HIDE DEF s, t
<1>5. SavePairs \in Seq(Instr) /\ Len(SavePairs) = 14
  BY Pairs
<1>6. /\ c \in Seq(Instr) /\ Len(c) = 2 + 14
      /\ \A i \in 1 .. 2 : c[i] = s[i]
      /\ \A i \in 1 .. 14 : c[2 + i] = SavePairs[i]
  <2>1. /\ c \in Seq(Instr) /\ Len(c) = Len(s) + Len(SavePairs)
        /\ \A i \in 1 .. Len(s) : c[i] = s[i]
        /\ \A i \in 1 .. Len(SavePairs) : c[Len(s) + i] = SavePairs[i]
    BY <1>1, <1>5, Behind DEF Joined
  <2> QED  BY <1>1, <1>5, <2>1
<1> HIDE DEF c
<1>7. Len(c) = 16
  BY <1>6
<1>8. /\ save_regs \in Seq(Instr) /\ Len(save_regs) = 16 + 7
      /\ \A i \in 1 .. 16 : save_regs[i] = c[i]
      /\ \A i \in 1 .. 7 : save_regs[16 + i] = t[i]
  <2>1. /\ save_regs \in Seq(Instr) /\ Len(save_regs) = Len(c) + Len(t)
        /\ \A i \in 1 .. Len(c) : save_regs[i] = c[i]
        /\ \A i \in 1 .. Len(t) : save_regs[Len(c) + i] = t[i]
    BY <1>2, <1>4, <1>6, Behind DEF Joined
  <2> QED  BY <1>2, <1>7, <2>1
<1>9. ASSUME NEW a \in 3 .. 16 PROVE save_regs[a] = Stp(33 - 2 * a, 34 - 2 * a)
  <2>1. PICK k \in 1 .. 14 : a = 2 + k /\ 29 - 2 * k = 33 - 2 * a /\ 30 - 2 * k = 34 - 2 * a
    <3>1. a - 2 \in 1 .. 14 /\ a = 2 + (a - 2) /\ 29 - 2 * (a - 2) = 33 - 2 * a
          /\ 30 - 2 * (a - 2) = 34 - 2 * a
      OBVIOUS
    <3> QED  BY <3>1
  <2>2. save_regs[a] = SavePairs[k]
    <3>1. a \in 1 .. 16 /\ c[2 + k] = SavePairs[k]
      BY <1>6
    <3> QED  BY <1>8, <2>1, <3>1
  <2>3. SavePairs[k] = Stp(29 - 2 * k, 30 - 2 * k)
    BY Pairs
  <2> QED  BY <2>1, <2>2, <2>3
<1>10. save_regs[1] = s[1] /\ save_regs[2] = s[2]
  BY <1>6, <1>8
<1>11. /\ save_regs[17] = t[1] /\ save_regs[18] = t[2] /\ save_regs[19] = t[3]
       /\ save_regs[20] = t[4] /\ save_regs[21] = t[5] /\ save_regs[22] = t[6]
       /\ save_regs[23] = t[7]
  BY <1>8
<1>12. Len(save_regs) = 23
  BY <1>8
<1> QED  BY <1>1, <1>3, <1>8, <1>9, <1>10, <1>11, <1>12

\* Five pieces behind each other, as in the two handlers that return.
FiveIn(c, m, s, p, t, l, u) ==
  /\ \A i \in 1 .. m : c[i] = s[i]
  /\ \A i \in 1 .. 4 : c[m + i] = p[i]
  /\ c[m + 5] = t[1]
  /\ \A i \in 1 .. 14 : c[m + 5 + i] = l[i]
  /\ c[m + 20] = u[1] /\ c[m + 21] = u[2]

LEMMA FivePieces ==
  ASSUME NEW s \in Seq(Instr), NEW p \in Seq(Instr), NEW t \in Seq(Instr),
         NEW l \in Seq(Instr), NEW u \in Seq(Instr), NEW m \in Nat,
         Len(s) = m, Len(p) = 4, Len(t) = 1, Len(l) = 14, Len(u) = 2,
         NEW c1, NEW c2, NEW c3, NEW c4,
         Joined(c1, s, p), Joined(c2, c1, t), Joined(c3, c2, l), Joined(c4, c3, u)
  PROVE  FiveIn(c4, m, s, p, t, l, u)
<1>2. /\ c1 \in Seq(Instr) /\ Len(c1) = Len(s) + Len(p)
      /\ \A i \in 1 .. Len(s) : c1[i] = s[i]
      /\ \A i \in 1 .. Len(p) : c1[Len(s) + i] = p[i]
  BY DEF Joined
<1>3. /\ c2 \in Seq(Instr) /\ Len(c2) = Len(c1) + Len(t)
      /\ \A i \in 1 .. Len(c1) : c2[i] = c1[i]
      /\ \A i \in 1 .. Len(t) : c2[Len(c1) + i] = t[i]
  BY DEF Joined
<1>4. /\ c3 \in Seq(Instr) /\ Len(c3) = Len(c2) + Len(l)
      /\ \A i \in 1 .. Len(c2) : c3[i] = c2[i]
      /\ \A i \in 1 .. Len(l) : c3[Len(c2) + i] = l[i]
  BY DEF Joined
<1>5. /\ \A i \in 1 .. Len(c3) : c4[i] = c3[i]
      /\ \A i \in 1 .. Len(u) : c4[Len(c3) + i] = u[i]
  BY DEF Joined
<1>1. Len(c1) = m + 4 /\ Len(c2) = m + 5 /\ Len(c3) = m + 19
  BY <1>2, <1>3, <1>4
<1>6. ASSUME NEW i \in 1 .. m PROVE c4[i] = s[i]
  <2>1. i \in 1 .. Len(c1) /\ i \in 1 .. Len(c2) /\ i \in 1 .. Len(c3)
    BY <1>1
  <2>2. c4[i] = c3[i] /\ c3[i] = c2[i] /\ c2[i] = c1[i]
    BY <1>3, <1>4, <1>5, <2>1
  <2> QED  BY <1>2, <2>2
<1>7. ASSUME NEW i \in 1 .. 4 PROVE c4[m + i] = p[i]
  <2>1. m + i \in 1 .. Len(c1) /\ m + i \in 1 .. Len(c2) /\ m + i \in 1 .. Len(c3)
    BY <1>1
  <2>2. c4[m + i] = c3[m + i] /\ c3[m + i] = c2[m + i] /\ c2[m + i] = c1[m + i]
    BY <1>3, <1>4, <1>5, <2>1
  <2> QED  BY <1>2, <2>2
<1>8. c4[m + 5] = t[1]
  <2>1. m + 5 = Len(c1) + 1 /\ m + 5 \in 1 .. Len(c2) /\ m + 5 \in 1 .. Len(c3)
    BY <1>1
  <2>2. c4[m + 5] = c3[m + 5] /\ c3[m + 5] = c2[m + 5]
    BY <1>4, <1>5, <2>1
  <2>3. c2[Len(c1) + 1] = t[1]
    BY <1>3
  <2> QED  BY <2>1, <2>2, <2>3
<1>9. ASSUME NEW i \in 1 .. 14 PROVE c4[m + 5 + i] = l[i]
  <2>1. m + 5 + i = Len(c2) + i /\ m + 5 + i \in 1 .. Len(c3)
    BY <1>1
  <2>2. c4[m + 5 + i] = c3[m + 5 + i]
    BY <1>5, <2>1
  <2>3. c3[Len(c2) + i] = l[i]
    BY <1>4
  <2> QED  BY <2>1, <2>2, <2>3
<1>10. c4[m + 20] = u[1] /\ c4[m + 21] = u[2]
  <2>1. m + 20 = Len(c3) + 1 /\ m + 21 = Len(c3) + 2
    BY <1>1
  <2>2. c4[Len(c3) + 1] = u[1] /\ c4[Len(c3) + 2] = u[2]
    BY <1>5
  <2> QED  BY <2>1, <2>2
<1> QED  BY <1>6, <1>7, <1>8, <1>9, <1>10 DEF FiveIn

\* exception_exit or exit behind s; t is how they load x0.
WithExit(s, t) == s \o popSystem \o t \o LoadPairs \o <<Ldp(29, 30), Op("eret")>>

Exits(code, s, m, t) ==
  /\ \A a \in 1 .. m : code[a] = s[a]
  /\ code[m + 1] = Ldp(3, 2) /\ code[m + 2] = Ldp(XZR, XZR)
  /\ code[m + 3] = Mov(SPSR, 2) /\ code[m + 4] = Mov(ELR, 3)
  /\ code[m + 5] = t[1]
  /\ \A k \in 1 .. 14 : code[m + 5 + k] = Ldp(2 * k - 1, 2 * k)
  /\ code[m + 20] = Ldp(29, 30) /\ code[m + 21] = Op("eret")

LEMMA ExitCode ==
  ASSUME NEW s \in Seq(Instr), NEW m \in Nat, Len(s) = m, NEW t \in Seq(Instr), Len(t) = 1,
         NEW code, code = WithExit(s, t)
  PROVE  Exits(code, s, m, t)
<1>1. popSystem \in Seq(Instr) /\ Len(popSystem) = 4
  <2>1. /\ Ldp(3, 2) \in Instr /\ Ldp(XZR, XZR) \in Instr /\ Mov(SPSR, 2) \in Instr
        /\ Mov(ELR, 3) \in Instr
    BY InstrType, RegNames
  <2> QED  BY <2>1, FourTuple DEF popSystem
<1>2. /\ popSystem[1] = Ldp(3, 2) /\ popSystem[2] = Ldp(XZR, XZR)
      /\ popSystem[3] = Mov(SPSR, 2) /\ popSystem[4] = Mov(ELR, 3)
  BY DEF popSystem
<1>3. LoadPairs \in Seq(Instr) /\ Len(LoadPairs) = 14
  BY Pairs
<1>4. PICK u : u = <<Ldp(29, 30), Op("eret")>>
  OBVIOUS
<1>5. u \in Seq(Instr) /\ Len(u) = 2 /\ u[1] = Ldp(29, 30) /\ u[2] = Op("eret")
  <2>1. Ldp(29, 30) \in Instr /\ Op("eret") \in Instr
    BY InstrType, RegNames
  <2> QED  BY <1>4, <2>1
<1> DEFINE c1 == s \o popSystem
           c2 == c1 \o t
           c3 == c2 \o LoadPairs
           c4 == c3 \o u
<1>6. code = c4
  BY <1>4 DEF WithExit
<1>7. Joined(c1, s, popSystem) /\ Joined(c2, c1, t) /\ Joined(c3, c2, LoadPairs)
      /\ Joined(c4, c3, u)
  <2>1. Joined(c1, s, popSystem) /\ c1 \in Seq(Instr)
    BY <1>1, Behind DEF Joined
  <2> HIDE DEF c1
  <2>2. Joined(c2, c1, t) /\ c2 \in Seq(Instr)
    BY <2>1, Behind DEF Joined
  <2> HIDE DEF c2
  <2>3. Joined(c3, c2, LoadPairs) /\ c3 \in Seq(Instr)
    BY <1>3, <2>2, Behind DEF Joined
  <2> HIDE DEF c3
  <2>4. Joined(c4, c3, u)
    BY <1>5, <2>3, Behind
  <2> QED  BY <2>1, <2>2, <2>3, <2>4
<1> HIDE DEF c1, c2, c3, c4
<1>0. FiveIn(c4, m, s, popSystem, t, LoadPairs, u)
  BY <1>1, <1>3, <1>5, <1>7, FivePieces
<1>8. /\ \A a \in 1 .. m : c4[a] = s[a]
      /\ \A i \in 1 .. 4 : c4[m + i] = popSystem[i]
      /\ c4[m + 5] = t[1]
      /\ \A i \in 1 .. 14 : c4[m + 5 + i] = LoadPairs[i]
      /\ c4[m + 20] = u[1] /\ c4[m + 21] = u[2]
  BY <1>0 DEF FiveIn
<1>9. /\ c4[m + 1] = popSystem[1] /\ c4[m + 2] = popSystem[2] /\ c4[m + 3] = popSystem[3]
      /\ c4[m + 4] = popSystem[4]
  BY <1>8
<1>10. \A k \in 1 .. 14 : LoadPairs[k] = Ldp(2 * k - 1, 2 * k)
  BY Pairs
<1> QED  BY <1>2, <1>5, <1>6, <1>8, <1>9, <1>10 DEF Exits

\* The load of x0, or of nothing.
LEMMA OneLoad ==
  ASSUME NEW r \in Reg
  PROVE  /\ <<Ldp(r, XZR)>> \in Seq(Instr) /\ Len(<<Ldp(r, XZR)>>) = 1
         /\ <<Ldp(r, XZR)>>[1] = Ldp(r, XZR)
<1>1. Ldp(r, XZR) \in Instr
  BY InstrType, RegNames
<1> QED  BY <1>1

\* What follows entry in a handler that returns.
LEMMA IrqCode ==
  /\ \A a \in 1 .. 23 : irq_handler[a] = save_regs[a]
  /\ irq_handler[24] = Op("do_irq")
  /\ irq_handler[25] = Ldp(3, 2) /\ irq_handler[26] = Ldp(XZR, XZR)
  /\ irq_handler[27] = Mov(SPSR, 2) /\ irq_handler[28] = Mov(ELR, 3)
  /\ irq_handler[29] = Ldp(0, XZR)
  /\ \A k \in 1 .. 14 : irq_handler[29 + k] = Ldp(2 * k - 1, 2 * k)
  /\ irq_handler[44] = Ldp(29, 30) /\ irq_handler[45] = Op("eret")
<1> DEFINE b == <<Op("do_irq")>>
           s == save_regs \o b
           t == <<Ldp(0, XZR)>>
<1>1. b \in Seq(Instr) /\ Len(b) = 1 /\ b[1] = Op("do_irq")
  <2>1. Op("do_irq") \in Instr
    BY InstrType, RegNames
  <2> QED  BY <2>1
<1>2. t \in Seq(Instr) /\ Len(t) = 1 /\ t[1] = Ldp(0, XZR)
  BY OneLoad, RegNames
<1>3. irq_handler = WithExit(s, t)
  BY DEF irq_handler, WithExit
<1>4. save_regs \in Seq(Instr) /\ Len(save_regs) = 23
  BY SaveCode
<1> HIDE DEF b, t
<1>5. Joined(s, save_regs, b)
  BY <1>1, <1>4, Behind
<1> HIDE DEF s
<1>6. /\ s \in Seq(Instr) /\ Len(s) = 24 /\ s[24] = Op("do_irq")
      /\ \A i \in 1 .. 23 : s[i] = save_regs[i]
  BY <1>1, <1>4, <1>5 DEF Joined
<1>7. Exits(irq_handler, s, 24, t)
  BY <1>2, <1>3, <1>6, ExitCode
<1>8. /\ \A a \in 1 .. 24 : irq_handler[a] = s[a]
      /\ irq_handler[25] = Ldp(3, 2) /\ irq_handler[26] = Ldp(XZR, XZR)
      /\ irq_handler[27] = Mov(SPSR, 2) /\ irq_handler[28] = Mov(ELR, 3)
      /\ irq_handler[29] = t[1]
      /\ irq_handler[44] = Ldp(29, 30) /\ irq_handler[45] = Op("eret")
  BY <1>7 DEF Exits
<1>9. \A k \in 1 .. 14 : irq_handler[29 + k] = Ldp(2 * k - 1, 2 * k)
  BY <1>7 DEF Exits
<1>10. ASSUME NEW a \in 1 .. 23 PROVE irq_handler[a] = save_regs[a]
  <2>1. \A i \in 1 .. 24 : irq_handler[i] = s[i]
    BY <1>8
  <2>2. \A i \in 1 .. 23 : s[i] = save_regs[i]
    BY <1>6
  <2> QED  BY <2>1, <2>2
<1>11. irq_handler[24] = Op("do_irq")
  <2>1. \A i \in 1 .. 24 : irq_handler[i] = s[i]
    BY <1>8
  <2>2. irq_handler[24] = s[24]
    BY <2>1
  <2> QED  BY <1>6, <2>2
<1>12. irq_handler[29] = t[1]
  BY <1>8
<1>13. /\ irq_handler[25] = Ldp(3, 2) /\ irq_handler[26] = Ldp(XZR, XZR)
       /\ irq_handler[27] = Mov(SPSR, 2) /\ irq_handler[28] = Mov(ELR, 3)
       /\ irq_handler[44] = Ldp(29, 30) /\ irq_handler[45] = Op("eret")
  BY <1>8
<1> QED  BY <1>2, <1>9, <1>10, <1>11, <1>12, <1>13

LEMMA SyncCode ==
  /\ \A a \in 1 .. 23 : sync_handler[a] = save_regs[a]
  /\ sync_handler[24] = Op("dispatch") /\ sync_handler[25] = Op("rust")
  /\ sync_handler[26] = Ldp(3, 2) /\ sync_handler[27] = Ldp(XZR, XZR)
  /\ sync_handler[28] = Mov(SPSR, 2) /\ sync_handler[29] = Mov(ELR, 3)
  /\ sync_handler[30] = Ldp(XZR, XZR)
  /\ \A k \in 1 .. 14 : sync_handler[30 + k] = Ldp(2 * k - 1, 2 * k)
  /\ sync_handler[45] = Ldp(29, 30) /\ sync_handler[46] = Op("eret")
<1> DEFINE b == <<Op("dispatch"), Op("rust")>>
           s == save_regs \o b
           t == <<Ldp(XZR, XZR)>>
<1>1. b \in Seq(Instr) /\ Len(b) = 2 /\ b[1] = Op("dispatch") /\ b[2] = Op("rust")
  <2>1. Op("dispatch") \in Instr /\ Op("rust") \in Instr
    BY InstrType, RegNames
  <2> QED  BY <2>1
<1>2. t \in Seq(Instr) /\ Len(t) = 1 /\ t[1] = Ldp(XZR, XZR)
  BY OneLoad, RegNames
<1>3. sync_handler = WithExit(s, t)
  BY DEF sync_handler, WithExit
<1>4. save_regs \in Seq(Instr) /\ Len(save_regs) = 23
  BY SaveCode
<1> HIDE DEF b, t
<1>5. Joined(s, save_regs, b)
  BY <1>1, <1>4, Behind
<1> HIDE DEF s
<1>6. /\ s \in Seq(Instr) /\ Len(s) = 25 /\ s[24] = Op("dispatch") /\ s[25] = Op("rust")
      /\ \A i \in 1 .. 23 : s[i] = save_regs[i]
  BY <1>1, <1>4, <1>5 DEF Joined
<1>7. Exits(sync_handler, s, 25, t)
  BY <1>2, <1>3, <1>6, ExitCode
<1>8. /\ \A a \in 1 .. 25 : sync_handler[a] = s[a]
      /\ sync_handler[26] = Ldp(3, 2) /\ sync_handler[27] = Ldp(XZR, XZR)
      /\ sync_handler[28] = Mov(SPSR, 2) /\ sync_handler[29] = Mov(ELR, 3)
      /\ sync_handler[30] = t[1]
      /\ sync_handler[45] = Ldp(29, 30) /\ sync_handler[46] = Op("eret")
  BY <1>7 DEF Exits
<1>9. \A k \in 1 .. 14 : sync_handler[30 + k] = Ldp(2 * k - 1, 2 * k)
  BY <1>7 DEF Exits
<1>10. ASSUME NEW a \in 1 .. 23 PROVE sync_handler[a] = save_regs[a]
  <2>1. \A i \in 1 .. 25 : sync_handler[i] = s[i]
    BY <1>8
  <2>2. \A i \in 1 .. 23 : s[i] = save_regs[i]
    BY <1>6
  <2> QED  BY <2>1, <2>2
<1>11. sync_handler[24] = Op("dispatch") /\ sync_handler[25] = Op("rust")
  <2>1. \A i \in 1 .. 25 : sync_handler[i] = s[i]
    BY <1>8
  <2>2. sync_handler[24] = s[24] /\ sync_handler[25] = s[25]
    BY <2>1
  <2> QED  BY <1>6, <2>2
<1>12. sync_handler[30] = t[1]
  BY <1>8
<1>13. /\ sync_handler[26] = Ldp(3, 2) /\ sync_handler[27] = Ldp(XZR, XZR)
       /\ sync_handler[28] = Mov(SPSR, 2) /\ sync_handler[29] = Mov(ELR, 3)
       /\ sync_handler[45] = Ldp(29, 30) /\ sync_handler[46] = Op("eret")
  BY <1>8
<1> QED  BY <1>2, <1>9, <1>10, <1>11, <1>12, <1>13

LEMMA PanicCode ==
  /\ \A a \in 1 .. 23 : panic_handler[a] = save_regs[a]
  /\ panic_handler[24] = Op("panic") /\ panic_handler[25] = Op("loop")
<1> DEFINE b == <<Op("panic"), Op("loop")>>
<1>1. b \in Seq(Instr) /\ Len(b) = 2 /\ b[1] = Op("panic") /\ b[2] = Op("loop")
  <2>1. Op("panic") \in Instr /\ Op("loop") \in Instr
    BY InstrType, RegNames
  <2> QED  BY <2>1
<1>2. save_regs \in Seq(Instr) /\ Len(save_regs) = 23
  BY SaveCode
<1>3. panic_handler = save_regs \o b
  BY DEF panic_handler
<1> HIDE DEF b
<1>4. Joined(panic_handler, save_regs, b)
  BY <1>1, <1>2, <1>3, Behind
<1> QED  BY <1>1, <1>2, <1>4 DEF Joined

\* The fields of the instructions.
LEMMA Fields ==
  /\ \A a, b : Stp(a, b).op = "stp" /\ Stp(a, b).a = a /\ Stp(a, b).b = b
  /\ \A a, b : Ldp(a, b).op = "ldp" /\ Ldp(a, b).a = a /\ Ldp(a, b).b = b
  /\ \A a, b : Mov(a, b).op = "mov" /\ Mov(a, b).a = a /\ Mov(a, b).b = b
  /\ \A op : Op(op).op = op
BY DEF Stp, Ldp, Mov, Op, Instruction

\* Instruction i has operation op and operands a and b.
Is(i, op, a, b) == i.op = op /\ i.a = a /\ i.b = b

\* Which instruction is at position n of the code of kind, in terms of its place p.
Entry(i, n) ==
  \/ n = 1 /\ Is(i, "stp", 29, 30)
  \/ n = 2 /\ i.op = "bl"
  \/ n \in 3 .. 16 /\ Is(i, "stp", 33 - 2 * n, 34 - 2 * n)
  \/ n = 17 /\ Is(i, "stp", 0, XZR)
  \/ n = 18 /\ Is(i, "mov", 1, ESR)
  \/ n = 19 /\ Is(i, "mov", 2, ELR)
  \/ n = 20 /\ Is(i, "mov", 3, SPSR)
  \/ n = 21 /\ Is(i, "stp", 1, XZR)
  \/ n = 22 /\ Is(i, "stp", 2, 3)
  \/ n = 23 /\ i.op = "mov x0, sp"

Exit(i, p, x0) ==
  \/ p = 25 /\ Is(i, "ldp", 3, 2)
  \/ p = 26 /\ Is(i, "ldp", XZR, XZR)
  \/ p = 27 /\ Is(i, "mov", SPSR, 2)
  \/ p = 28 /\ Is(i, "mov", ELR, 3)
  \/ p = 29 /\ Is(i, "ldp", x0, XZR)
  \/ p \in 30 .. 43 /\ Is(i, "ldp", 2 * p - 59, 2 * p - 58)
  \/ p = 44 /\ Is(i, "ldp", 29, 30)
  \/ p = 45 /\ i.op = "eret"

LEMMA EntryAt == \A n \in 1 .. 23 : Entry(save_regs[n], n)
<1>1. ASSUME NEW n \in 3 .. 16 PROVE Is(save_regs[n], "stp", 33 - 2 * n, 34 - 2 * n)
  <2>1. save_regs[n] = Stp(33 - 2 * n, 34 - 2 * n)
    BY SaveCode
  <2> QED  BY <2>1, Fields DEF Is
<1>2. /\ save_regs[1] = Stp(29, 30) /\ save_regs[2] = Op("bl")
      /\ save_regs[17] = Stp(0, XZR) /\ save_regs[18] = Mov(1, ESR)
      /\ save_regs[19] = Mov(2, ELR) /\ save_regs[20] = Mov(3, SPSR)
      /\ save_regs[21] = Stp(1, XZR) /\ save_regs[22] = Stp(2, 3)
      /\ save_regs[23] = Op("mov x0, sp")
  BY SaveCode
<1>4. /\ Is(save_regs[1], "stp", 29, 30) /\ save_regs[2].op = "bl"
      /\ Is(save_regs[17], "stp", 0, XZR) /\ Is(save_regs[18], "mov", 1, ESR)
      /\ Is(save_regs[19], "mov", 2, ELR) /\ Is(save_regs[20], "mov", 3, SPSR)
      /\ Is(save_regs[21], "stp", 1, XZR) /\ Is(save_regs[22], "stp", 2, 3)
      /\ save_regs[23].op = "mov x0, sp"
  <2>1. \A a, b : Is(Stp(a, b), "stp", a, b) /\ Is(Mov(a, b), "mov", a, b)
    BY DEF Is, Stp, Mov, Instruction
  <2>2. Op("bl").op = "bl" /\ Op("mov x0, sp").op = "mov x0, sp"
    BY Fields, Zenon
  <2>3. Is(save_regs[1], "stp", 29, 30) /\ Is(save_regs[22], "stp", 2, 3)
    BY <1>2, <2>1, Zenon
  <2>4. Is(save_regs[17], "stp", 0, XZR) /\ Is(save_regs[18], "mov", 1, ESR)
    BY <1>2, <2>1, Zenon
  <2>5. Is(save_regs[19], "mov", 2, ELR) /\ Is(save_regs[20], "mov", 3, SPSR)
    BY <1>2, <2>1, Zenon
  <2>6. Is(save_regs[21], "stp", 1, XZR)
    BY <1>2, <2>1, Zenon
  <2>7. save_regs[2].op = "bl" /\ save_regs[23].op = "mov x0, sp"
    BY <1>2, <2>2, Zenon
  <2> QED  BY <2>3, <2>4, <2>5, <2>6, <2>7, Zenon
<1> TAKE n \in 1 .. 23
<1>3. \/ n = 1 \/ n = 2 \/ n \in 3 .. 16 \/ n = 17 \/ n = 18 \/ n = 19 \/ n = 20 \/ n = 21
      \/ n = 22 \/ n = 23
  OBVIOUS
<1> QED  BY <1>1, <1>3, <1>4 DEF Entry

LEMMA IrqExitAt == \A p \in 25 .. 45 : Exit(irq_handler[p], p, 0)
<1> TAKE p \in 25 .. 45
<1>1. CASE p \in 30 .. 43
  <2>1. PICK k \in 1 .. 14 : p = 29 + k /\ 2 * k - 1 = 2 * p - 59 /\ 2 * k = 2 * p - 58
    <3>1. /\ p - 29 \in 1 .. 14 /\ p = 29 + (p - 29)
          /\ 2 * (p - 29) - 1 = 2 * p - 59 /\ 2 * (p - 29) = 2 * p - 58
      BY <1>1
    <3> QED  BY <3>1
  <2>2. irq_handler[p] = Ldp(2 * k - 1, 2 * k)
    BY <2>1, IrqCode
  <2> QED  BY <1>1, <2>1, <2>2, Fields DEF Exit, Is
<1>2. CASE p \notin 30 .. 43
  <2>1. \/ p = 25 \/ p = 26 \/ p = 27 \/ p = 28 \/ p = 29 \/ p = 44 \/ p = 45
    BY <1>2
  <2> QED  BY <2>1, IrqCode, Fields DEF Exit, Is
<1> QED  BY <1>1, <1>2

LEMMA SyncExitAt == \A p \in 25 .. 45 : Exit(sync_handler[p + 1], p, XZR)
<1> TAKE p \in 25 .. 45
<1>1. CASE p \in 30 .. 43
  <2>1. PICK k \in 1 .. 14 : p + 1 = 30 + k /\ 2 * k - 1 = 2 * p - 59 /\ 2 * k = 2 * p - 58
    <3>1. /\ p - 29 \in 1 .. 14 /\ p + 1 = 30 + (p - 29)
          /\ 2 * (p - 29) - 1 = 2 * p - 59 /\ 2 * (p - 29) = 2 * p - 58
      BY <1>1
    <3> QED  BY <3>1
  <2>2. sync_handler[p + 1] = Ldp(2 * k - 1, 2 * k)
    BY <2>1, SyncCode
  <2> QED  BY <1>1, <2>1, <2>2, Fields DEF Exit, Is
<1>2. CASE p \notin 30 .. 43
  <2>1. \/ p = 25 \/ p = 26 \/ p = 27 \/ p = 28 \/ p = 29 \/ p = 44 \/ p = 45
    BY <1>2
  <2> QED  BY <2>1, SyncCode, Fields DEF Exit, Is
<1> QED  BY <1>1, <1>2

-----------------------------------------------------------------------------
(* What the instructions do to the registers and the stack.                *)

LEMMA PushedAt ==
  /\ Pushed(1) = 0 /\ Pushed(2) = 2 /\ Pushed(22) = 34 /\ Pushed(26) = 34
  /\ \A p \in 3 .. 17 : Pushed(p) = 2 * p - 4
  /\ \A p \in 18 .. 21 : Pushed(p) = 32
  /\ \A p \in 23 .. 25 : Pushed(p) = 36
  /\ \A p \in 27 .. 29 : Pushed(p) = 32
  /\ \A p \in 30 .. 45 : Pushed(p) = 90 - 2 * p
<1>1. Pushed(1) = 0 /\ Pushed(2) = 2 /\ Pushed(22) = 34 /\ Pushed(26) = 34
  BY DEF Pushed
<1>2. ASSUME NEW p \in 3 .. 17 PROVE Pushed(p) = 2 * p - 4
  BY DEF Pushed
<1>3. ASSUME NEW p \in 18 .. 21 PROVE Pushed(p) = 32
  BY DEF Pushed
<1>4. ASSUME NEW p \in 23 .. 25 PROVE Pushed(p) = 36
  BY DEF Pushed
<1>5. ASSUME NEW p \in 27 .. 29 PROVE Pushed(p) = 32
  BY DEF Pushed
<1>6. ASSUME NEW p \in 30 .. 45 PROVE Pushed(p) = 90 - 2 * p
  BY DEF Pushed
<1> QED  BY <1>1, <1>2, <1>3, <1>4, <1>5, <1>6

\* m with the pair u, v pushed at address w.
Pushes(m2, m, w, u, v) ==
  /\ m2 \in [0 .. StackWords - 1 -> Nat]
  /\ m2[w] = u /\ m2[w + 1] = v
  /\ \A q \in 0 .. StackWords - 1 : q # w /\ q # w + 1 => m2[q] = m[q]

LEMMA PushEffect ==
  ASSUME NEW m \in [0 .. StackWords - 1 -> Nat], NEW w \in Nat, w + 1 < StackWords,
         NEW u \in Nat, NEW v \in Nat
  PROVE  Pushes([m EXCEPT ![w] = u, ![w + 1] = v], m, w, u, v)
<1>1. w \in 0 .. StackWords - 1 /\ w + 1 \in 0 .. StackWords - 1 /\ w # w + 1
  BY FrameAssumption
<1> QED  BY <1>1 DEF Pushes

\* Instruction a of an entry has pushed two registers, or pushes none.
PairAt(m2, a, s, g, c, d) ==
  \/ a \in {2, 18, 19, 20}
  \/ a = 1 /\ m2[s - 2] = g[29] /\ m2[s - 1] = g[30]
  \/ a \in 3 .. 16 /\ m2[s - 31 + (33 - 2 * a)] = g[33 - 2 * a] /\ m2[s - 31 + (34 - 2 * a)] = g[34 - 2 * a]
  \/ a = 17 /\ m2[s - 32] = g[0]
  \/ a = 21 /\ m2[s - 34] = 400 + c
  \/ a = 22 /\ m2[s - 36] = 199 + d /\ m2[s - 35] = 299 + d

\* The words pushed so far stay, and the two new ones belong to the frame.
LEMMA StoredOneMore ==
  ASSUME NEW a \in 1 .. 22, NEW s \in Nat, s >= 36, s <= StackWords, NEW g, NEW c \in Nat, NEW d \in Nat,
         NEW m, NEW m2, Stored(a, s, g, c, d, m), PairAt(m2, a, s, g, c, d),
         \A q \in 0 .. StackWords - 1 : q >= s - Pushed(a) => m2[q] = m[q]
  PROVE  Stored(a + 1, s, g, c, d, m2)
<1>1. CASE a = 1
  <2>1. m2[s - 2] = g[29] /\ m2[s - 1] = g[30]
    BY <1>1 DEF PairAt
  <2> QED  BY <1>1, <2>1 DEF Stored
<1>2. CASE a \in 3 .. 16
  <2>1. m2[s - 31 + (33 - 2 * a)] = g[33 - 2 * a] /\ m2[s - 31 + (34 - 2 * a)] = g[34 - 2 * a]
    BY <1>2 DEF PairAt
  <2>2. Pushed(a) = 2 * a - 4
    BY <1>2, PushedAt
  <2>3. m2[s - 2] = g[29] /\ m2[s - 1] = g[30]
    <3>1. /\ s - 2 \in 0 .. StackWords - 1 /\ s - 1 \in 0 .. StackWords - 1
          /\ s - 2 >= s - Pushed(a) /\ s - 1 >= s - Pushed(a)
      BY <1>2, <2>2, FrameAssumption
    <3>2. m[s - 2] = g[29] /\ m[s - 1] = g[30]
      BY <1>2 DEF Stored
    <3> QED  BY <3>1, <3>2
  <2>4. ASSUME NEW r \in 1 .. 28, r >= 35 - 2 * (a + 1) PROVE m2[s - 31 + r] = g[r]
    <3>1. CASE r >= 35 - 2 * a
      <4>1. s - 31 + r \in 0 .. StackWords - 1 /\ s - 31 + r >= s - Pushed(a)
        BY <1>2, <2>2, <3>1, FrameAssumption
      <4>2. m[s - 31 + r] = g[r]
        BY <1>2, <3>1 DEF Stored
      <4> QED  BY <4>1, <4>2
    <3>2. CASE ~(r >= 35 - 2 * a)
      <4>1. r = 33 - 2 * a \/ r = 34 - 2 * a
        BY <1>2, <2>4, <3>2
      <4> QED  BY <2>1, <4>1
    <3> QED  BY <3>1, <3>2
  <2> QED  BY <1>2, <2>3, <2>4 DEF Stored
<1>3. CASE a \in {2} \cup 17 .. 22
  <2>1. Pushed(a) = IF a = 2 THEN 2 ELSE IF a = 17 THEN 30 ELSE IF a = 22 THEN 34 ELSE 32
    BY <1>3, PushedAt
  <2>2. m2[s - 2] = g[29] /\ m2[s - 1] = g[30]
    <3>1. /\ s - 2 \in 0 .. StackWords - 1 /\ s - 1 \in 0 .. StackWords - 1
          /\ s - 2 >= s - Pushed(a) /\ s - 1 >= s - Pushed(a)
      BY <1>3, <2>1, FrameAssumption
    <3>2. m[s - 2] = g[29] /\ m[s - 1] = g[30]
      BY <1>3 DEF Stored
    <3> QED  BY <3>1, <3>2
  <2>3. ASSUME NEW r \in 1 .. 28, a >= 17 PROVE m2[s - 31 + r] = g[r]
    <3>1. s - 31 + r \in 0 .. StackWords - 1 /\ s - 31 + r >= s - Pushed(a)
      BY <1>3, <2>1, <2>3, FrameAssumption
    <3>2. m[s - 31 + r] = g[r]
      BY <1>3, <2>3 DEF Stored
    <3> QED  BY <3>1, <3>2
  <2>4. m2[s - 32] = g[0] \/ a = 2
    <3>1. CASE a = 17
      BY <3>1 DEF PairAt
    <3>2. CASE a > 17
      <4>1. s - 32 \in 0 .. StackWords - 1 /\ s - 32 >= s - Pushed(a)
        BY <1>3, <2>1, <3>2, FrameAssumption
      <4>2. m[s - 32] = g[0]
        BY <3>2 DEF Stored
      <4> QED  BY <4>1, <4>2
    <3> QED  BY <1>3, <3>1, <3>2
  <2>5. a >= 21 => m2[s - 34] = 400 + c
    <3>1. CASE a = 21
      BY <3>1 DEF PairAt
    <3>2. CASE a = 22
      <4>1. s - 34 \in 0 .. StackWords - 1 /\ s - 34 >= s - Pushed(a)
        BY <2>1, <3>2, FrameAssumption
      <4>2. m[s - 34] = 400 + c
        BY <3>2 DEF Stored
      <4> QED  BY <4>1, <4>2
    <3> QED  BY <1>3, <3>1, <3>2
  <2>6. a = 22 => m2[s - 36] = 199 + d /\ m2[s - 35] = 299 + d
    BY DEF PairAt
  <2> QED  BY <1>3, <2>2, <2>3, <2>4, <2>5, <2>6 DEF Stored
<1> QED  BY <1>1, <1>2, <1>3

\* The places of the instructions that push.
LEMMA StpAt ==
  ASSUME NEW a \in 1 .. 23, NEW i, Entry(i, a), i.op = "stp"
  PROVE  \/ a = 1 /\ i.a = 29 /\ i.b = 30
         \/ a \in 3 .. 16 /\ i.a = 33 - 2 * a /\ i.b = 34 - 2 * a
         \/ a = 17 /\ i.a = 0 /\ i.b = XZR
         \/ a = 21 /\ i.a = 1 /\ i.b = XZR
         \/ a = 22 /\ i.a = 2 /\ i.b = 3
BY DEF Entry, Is

LEMMA PairRegs ==
  \A a \in 3 .. 16 : /\ 33 - 2 * a \in 0 .. 28 /\ 34 - 2 * a \in 0 .. 28
                     /\ 33 - 2 * a \in 0 .. 30 /\ 34 - 2 * a \in 0 .. 30 /\ a <= 17
OBVIOUS

LEMMA GprInReg == \A r \in 0 .. 30 : r \in Reg /\ r # XZR /\ r # ELR /\ r # SPSR /\ r # ESR
BY DEF Reg, XZR, ELR, SPSR, ESR

LEMMA PushedNext ==
  ASSUME NEW a \in {1} \cup 3 .. 17 \cup {21, 22}
  PROVE  /\ Pushed(a) = IF a = 1 THEN 0 ELSE IF a <= 17 THEN 2 * a - 4 ELSE IF a = 21 THEN 32 ELSE 34
         /\ Pushed(a + 1) = Pushed(a) + 2
         /\ Pushed(a) \in 0 .. 34
<1>1. CASE a = 1
  BY <1>1, PushedAt
<1>2. CASE a \in 3 .. 16
  BY <1>2, PushedAt
<1>3. CASE a = 17
  BY <1>3, PushedAt
<1>4. CASE a = 21
  BY <1>4, PushedAt
<1>5. CASE a = 22
  BY <1>5, PushedAt
<1> QED  BY <1>1, <1>2, <1>3, <1>4, <1>5

\* What a register is read as.
ReadOf(f, r) == IF r = XZR THEN 0 ELSE f[r]

\* What instruction a of an entry, which pushes, does to memory m; w is the stack pointer
\* behind it.
PushDone(m2, m, w, k, a, s, g, c, d, f) ==
  /\ m2 \in [0 .. StackWords - 1 -> Nat]
  /\ w \in Nat /\ w = s - Pushed(a + 1)
  /\ \A q \in 0 .. StackWords - 1 : q >= w + 2 => m2[q] = m[q]
  /\ PairAt(m2, a, s, g, c, d)
  /\ Entering(k, a + 1, s, g, c, d, f)

LEMMA PushTop ==
  ASSUME NEW a \in 1 .. 23, NEW s \in Nat, s >= 36, s <= StackWords, NEW g, NEW c \in Nat,
         NEW d \in Nat, NEW f \in [Reg -> Nat], NEW m \in [0 .. StackWords - 1 -> Nat], NEW k,
         Entering(k, a, s, g, c, d, f), NEW i, Entry(i, a), i.op = "stp",
         NEW w, w = s - Pushed(a) - 2, NEW m2,
         m2 = [m EXCEPT ![w] = ReadOf(f, i.a), ![w + 1] = ReadOf(f, i.b)]
  PROVE  PushDone(m2, m, w, k, a, s, g, c, d, f)
<1> DEFINE u == ReadOf(f, i.a)
           v == ReadOf(f, i.b)
<1>1. \/ a = 1 /\ i.a = 29 /\ i.b = 30
      \/ a \in 3 .. 16 /\ i.a = 33 - 2 * a /\ i.b = 34 - 2 * a
      \/ a = 17 /\ i.a = 0 /\ i.b = XZR
      \/ a = 21 /\ i.a = 1 /\ i.b = XZR
      \/ a = 22 /\ i.a = 2 /\ i.b = 3
  BY StpAt
<1>2. /\ Pushed(a) = IF a = 1 THEN 0 ELSE IF a <= 17 THEN 2 * a - 4 ELSE IF a = 21 THEN 32 ELSE 34
      /\ Pushed(a + 1) = Pushed(a) + 2
      /\ Pushed(a) \in 0 .. 34
  <2>1. a \in {1} \cup 3 .. 17 \cup {21, 22}
    BY <1>1
  <2> QED  BY <2>1, PushedNext
<1>3. w \in Nat /\ w + 1 < StackWords /\ w = s - Pushed(a + 1)
  BY <1>2, FrameAssumption
<1>4. i.a \in Reg /\ i.b \in Reg
  <2>1. a \in 3 .. 16 => 33 - 2 * a \in 0 .. 30 /\ 34 - 2 * a \in 0 .. 30
    BY PairRegs, Zenon
  <2>2. a \in 3 .. 16 => 33 - 2 * a \in Reg /\ 34 - 2 * a \in Reg
    BY <2>1, GprInReg
  <2> QED  BY <1>1, <2>2, RegNames
<1>5. u \in Nat /\ v \in Nat
  BY <1>4 DEF ReadOf
<1>6. Pushes(m2, m, w, u, v)
  <2> HIDE DEF u, v
  <2>1. Pushes([m EXCEPT ![w] = u, ![w + 1] = v], m, w, u, v)
    BY <1>3, <1>5, PushEffect
  <2> QED  BY <2>1 DEF u, v
<1>7. /\ m2 \in [0 .. StackWords - 1 -> Nat]
      /\ m2[w] = u /\ m2[w + 1] = v
      /\ \A q \in 0 .. StackWords - 1 : q # w /\ q # w + 1 => m2[q] = m[q]
  BY <1>6 DEF Pushes
<1>8. PairAt(m2, a, s, g, c, d)
  <2>1. CASE a = 1
    <3>1. w = s - 2 /\ w + 1 = s - 1
      BY <1>2, <2>1
    <3>2. u = f[29] /\ v = f[30]
      BY <1>1, <2>1 DEF ReadOf, XZR
    <3>3. f[29] = g[29] /\ f[30] = g[30]
      BY <2>1 DEF Entering
    <3> HIDE DEF u, v
    <3> QED  BY <1>7, <2>1, <3>1, <3>2, <3>3 DEF PairAt
  <2>2. CASE a \in 3 .. 16
    <3>1. w = s - 31 + (33 - 2 * a) /\ w + 1 = s - 31 + (34 - 2 * a)
      BY <1>2, <2>2
    <3>2. u = f[33 - 2 * a] /\ v = f[34 - 2 * a]
      BY <1>1, <2>2 DEF ReadOf, XZR
    <3>3. f[33 - 2 * a] = g[33 - 2 * a] /\ f[34 - 2 * a] = g[34 - 2 * a]
      <4>1. 33 - 2 * a \in 0 .. 28 /\ 34 - 2 * a \in 0 .. 28 /\ a <= 17
        BY <2>2, PairRegs, Zenon
      <4> QED  BY <4>1 DEF Entering
    <3> HIDE DEF u, v
    <3> QED  BY <1>7, <2>2, <3>1, <3>2, <3>3 DEF PairAt
  <2>3. CASE a = 17
    <3>1. w = s - 32
      BY <1>2, <2>3
    <3>2. u = f[0]
      BY <1>1, <2>3 DEF ReadOf, XZR
    <3>3. f[0] = g[0]
      BY <2>3 DEF Entering
    <3> HIDE DEF u, v
    <3> QED  BY <1>7, <2>3, <3>1, <3>2, <3>3 DEF PairAt
  <2>4. CASE a = 21
    <3>1. w = s - 34
      BY <1>2, <2>4
    <3>2. u = f[1]
      BY <1>1, <2>4 DEF ReadOf, XZR
    <3>3. f[1] = 400 + c
      BY <2>4 DEF Entering
    <3> HIDE DEF u, v
    <3> QED  BY <1>7, <2>4, <3>1, <3>2, <3>3 DEF PairAt
  <2>5. CASE a = 22
    <3>1. w = s - 36 /\ w + 1 = s - 35
      BY <1>2, <2>5
    <3>2. u = f[2] /\ v = f[3]
      BY <1>1, <2>5 DEF ReadOf, XZR
    <3>3. f[2] = 199 + d /\ f[3] = 299 + d
      BY <2>5 DEF Entering
    <3> HIDE DEF u, v
    <3> QED  BY <1>7, <2>5, <3>1, <3>2, <3>3 DEF PairAt
  <2> QED  BY <1>1, <2>1, <2>2, <2>3, <2>4, <2>5
<1>9. Entering(k, a + 1, s, g, c, d, f)
  <2>1. a \in {1} \cup 3 .. 17 \cup {21, 22}
    BY <1>1
  <2> QED  BY <2>1 DEF Entering
<1>10. ASSUME NEW q \in 0 .. StackWords - 1, q >= w + 2 PROVE m2[q] = m[q]
  BY <1>3, <1>7, <1>10
<1> QED  BY <1>3, <1>7, <1>8, <1>9, <1>10 DEF PushDone

LEMMA LdpAt ==
  ASSUME NEW p \in 25 .. 45, NEW i, NEW x0, Exit(i, p, x0), i.op = "ldp"
  PROVE  \/ p = 25 /\ i.a = 3 /\ i.b = 2
         \/ p = 26 /\ i.a = XZR /\ i.b = XZR
         \/ p = 29 /\ i.a = x0 /\ i.b = XZR
         \/ p \in 30 .. 43 /\ i.a = 2 * p - 59 /\ i.b = 2 * p - 58
         \/ p = 44 /\ i.a = 29 /\ i.b = 30
BY DEF Exit, Is

\* Two registers loaded from the stack: f2 is f with u in a and v in b.
Loads(f2, f, a, b, u, v) ==
  /\ f2 \in [Reg -> Nat]
  /\ a # XZR /\ a # b => f2[a] = u
  /\ b # XZR => f2[b] = v
  /\ \A r \in Reg : r # a /\ r # b => f2[r] = f[r]

LEMMA WriteEffect ==
  ASSUME NEW f \in [Reg -> Nat], NEW r \in Reg, NEW v \in Nat
  PROVE  /\ Write(f, r, v) \in [Reg -> Nat]
         /\ r # XZR => Write(f, r, v)[r] = v
         /\ \A q \in Reg : q # r => Write(f, r, v)[q] = f[q]
BY DEF Write

LEMMA LoadEffect ==
  ASSUME NEW f \in [Reg -> Nat], NEW a \in Reg, NEW b \in Reg, NEW u \in Nat, NEW v \in Nat
  PROVE  Loads(Write(Write(f, a, u), b, v), f, a, b, u, v)
<1>1. PICK h : h = Write(f, a, u)
  OBVIOUS
<1>2. h \in [Reg -> Nat] /\ (a # XZR => h[a] = u) /\ \A q \in Reg : q # a => h[q] = f[q]
  BY <1>1, WriteEffect
<1>3. PICK h2 : h2 = Write(h, b, v)
  OBVIOUS
<1>4. h2 \in [Reg -> Nat] /\ (b # XZR => h2[b] = v) /\ \A q \in Reg : q # b => h2[q] = h[q]
  BY <1>2, <1>3, WriteEffect
<1>5. Loads(h2, f, a, b, u, v)
  BY <1>2, <1>4 DEF Loads
<1> QED  BY <1>1, <1>3, <1>5

LEMMA LoadRegs == \A p \in 30 .. 43 : 2 * p - 59 \in 1 .. 28 /\ 2 * p - 58 \in 1 .. 28
OBVIOUS

LEMMA PoppedNext ==
  ASSUME NEW p \in {25, 26} \cup 29 .. 44
  PROVE  /\ Pushed(p) = IF p = 25 THEN 36 ELSE IF p = 26 THEN 34 ELSE IF p = 29 THEN 32 ELSE 90 - 2 * p
         /\ Pushed(p + 1) = Pushed(p) - 2
         /\ Pushed(p) \in 2 .. 36
<1>1. CASE p = 25
  BY <1>1, PushedAt
<1>2. CASE p = 26
  BY <1>2, PushedAt
<1>3. CASE p = 29
  BY <1>3, PushedAt
<1>4. CASE p \in 30 .. 44
  BY <1>4, PushedAt
<1> QED  BY <1>1, <1>2, <1>3, <1>4

\* The registers of a frame that is complete.
LEMMA FrameWords ==
  ASSUME NEW a \in Nat, a >= 23, NEW s \in Nat, NEW g, NEW c, NEW d, NEW m, Stored(a, s, g, c, d, m)
  PROVE  /\ m[s - 2] = g[29] /\ m[s - 1] = g[30]
         /\ \A r \in 1 .. 28 : m[s - 31 + r] = g[r]
         /\ m[s - 32] = g[0] /\ m[s - 34] = 400 + c
         /\ m[s - 36] = 199 + d /\ m[s - 35] = 299 + d
<1>1. ASSUME NEW r \in 1 .. 28 PROVE m[s - 31 + r] = g[r]
  BY DEF Stored
<1>2. m[s - 2] = g[29] /\ m[s - 1] = g[30] /\ m[s - 32] = g[0]
  BY DEF Stored
<1>3. m[s - 34] = 400 + c
  BY DEF Stored
<1>4. m[s - 36] = 199 + d /\ m[s - 35] = 299 + d
  BY DEF Stored
<1> QED  BY <1>1, <1>2, <1>3, <1>4

\* What instruction p of an exit has loaded.
Loaded(k, p, f2, g, d) ==
  \/ p = 25 /\ f2[3] = 199 + d /\ f2[2] = 299 + d
  \/ p = 26
  \/ p = 29 /\ (k = "irq" => f2[0] = g[0])
  \/ p \in 30 .. 43 /\ f2[2 * p - 59] = g[2 * p - 59] /\ f2[2 * p - 58] = g[2 * p - 58]
  \/ p = 44 /\ f2[29] = g[29] /\ f2[30] = g[30]

LEMMA LeavingOneMore ==
  ASSUME NEW k, NEW p \in {25, 26} \cup 29 .. 44, NEW g, NEW d \in Nat, NEW f, NEW f2,
         Leaving(k, p, g, d, f), Loaded(k, p, f2, g, d),
         p # 25 => f2[ELR] = f[ELR] /\ f2[SPSR] = f[SPSR],
         p = 26 => f2[2] = f[2] /\ f2[3] = f[3],
         p >= 30 => f2[0] = f[0],
         \A r \in 1 .. 30 : p >= 30 /\ r <= 2 * (p - 30) => f2[r] = f[r]
  PROVE  Leaving(k, p + 1, g, d, f2)
<1>1. CASE p = 25
  BY <1>1 DEF Leaving, Loaded
<1>2. CASE p = 26
  BY <1>2 DEF Leaving, Loaded
<1>3. CASE p = 29
  BY <1>3 DEF Leaving, Loaded
<1>4. CASE p \in 30 .. 44
  <2>1. ASSUME NEW r \in 1 .. 30, r <= 2 * (p + 1 - 30) PROVE f2[r] = g[r]
    <3>1. CASE r <= 2 * (p - 30)
      BY <1>4, <3>1 DEF Leaving
    <3>2. CASE ~(r <= 2 * (p - 30)) /\ p \in 30 .. 43
      <4>1. r = 2 * p - 59 \/ r = 2 * p - 58
        BY <2>1, <3>2
      <4> QED  BY <3>2, <4>1 DEF Loaded
    <3>3. CASE ~(r <= 2 * (p - 30)) /\ p = 44
      <4>1. r = 29 \/ r = 30
        BY <2>1, <3>3
      <4> QED  BY <3>3, <4>1 DEF Loaded
    <3> QED  BY <1>4, <3>1, <3>2, <3>3
  <2>2. f2[SPSR] = 299 + d /\ f2[ELR] = 199 + d
    BY <1>4 DEF Leaving
  <2>3. k = "irq" => f2[0] = g[0]
    BY <1>4 DEF Leaving
  <2> QED  BY <1>4, <2>1, <2>2, <2>3 DEF Leaving
<1> QED  BY <1>1, <1>2, <1>3, <1>4

\* Which register an exit loads from the word of x0.
ResultOf(k) == IF k = "irq" THEN 0 ELSE XZR

\* The two words loaded are those of the registers loaded.
LEMMA PopWords ==
  ASSUME NEW k, NEW p \in 25 .. 45, NEW s \in Nat, s >= 36, NEW g, NEW c, NEW d \in Nat, NEW m,
         NEW a \in Nat, a >= 23, Stored(a, s, g, c, d, m), NEW f2, NEW f, NEW i,
         \/ p = 25 /\ i.a = 3 /\ i.b = 2
         \/ p = 26 /\ i.a = XZR /\ i.b = XZR
         \/ p = 29 /\ i.a = ResultOf(k) /\ i.b = XZR
         \/ p \in 30 .. 43 /\ i.a = 2 * p - 59 /\ i.b = 2 * p - 58
         \/ p = 44 /\ i.a = 29 /\ i.b = 30,
         NEW t, t = s - Pushed(p), Loads(f2, f, i.a, i.b, m[t], m[t + 1])
  PROVE  Loaded(k, p, f2, g, d)
<1>1. /\ i.a # XZR /\ i.a # i.b => f2[i.a] = m[t]
      /\ i.b # XZR => f2[i.b] = m[t + 1]
  BY DEF Loads
<1>2. /\ m[s - 2] = g[29] /\ m[s - 1] = g[30]
      /\ \A r \in 1 .. 28 : m[s - 31 + r] = g[r]
      /\ m[s - 32] = g[0]
      /\ m[s - 36] = 199 + d /\ m[s - 35] = 299 + d
  BY FrameWords
<1>3. CASE p = 25
  <2>1. t = s - 36 /\ t + 1 = s - 35
    BY <1>3, PushedAt
  <2>2. i.a = 3 /\ i.b = 2 /\ i.a # XZR /\ i.b # XZR
    BY <1>3 DEF XZR
  <2> QED  BY <1>1, <1>2, <1>3, <2>1, <2>2 DEF Loaded
<1>4. CASE p = 26
  BY <1>4 DEF Loaded
<1>5. CASE p = 29
  <2>1. t = s - 32
    BY <1>5, PushedAt
  <2>2. k = "irq" => i.a = 0 /\ i.a # XZR /\ i.a # i.b
    BY <1>5 DEF ResultOf, XZR
  <2> QED  BY <1>1, <1>2, <1>5, <2>1, <2>2 DEF Loaded
<1>6. CASE p \in 30 .. 43
  <2>1. Pushed(p) = 90 - 2 * p
    BY <1>6, PushedAt
  <2>2. t = s - 31 + (2 * p - 59) /\ t + 1 = s - 31 + (2 * p - 58)
    BY <1>6, <2>1
  <2>3. 2 * p - 59 \in 1 .. 28 /\ 2 * p - 58 \in 1 .. 28
    BY <1>6, LoadRegs
  <2>4. i.a = 2 * p - 59 /\ i.b = 2 * p - 58
    BY <1>6
  <2>5. i.a # XZR /\ i.b # XZR /\ i.a # i.b
    BY <1>6, <2>3, <2>4 DEF XZR
  <2>6. m[t] = g[2 * p - 59] /\ m[t + 1] = g[2 * p - 58]
    BY <1>2, <2>2, <2>3
  <2>7. f2[i.a] = m[t] /\ f2[i.b] = m[t + 1]
    BY <1>1, <2>5
  <2>8. f2[2 * p - 59] = g[2 * p - 59] /\ f2[2 * p - 58] = g[2 * p - 58]
    BY <2>4, <2>6, <2>7
  <2> QED  BY <1>6, <2>8 DEF Loaded
<1>7. CASE p = 44
  <2>1. t = s - 2 /\ t + 1 = s - 1
    BY <1>7, PushedAt
  <2>2. i.a = 29 /\ i.b = 30 /\ i.a # XZR /\ i.b # XZR
    BY <1>7 DEF XZR
  <2> QED  BY <1>1, <1>2, <1>7, <2>1, <2>2 DEF Loaded
<1> QED  BY <1>3, <1>4, <1>5, <1>6, <1>7

LEMMA StackRoom ==
  ASSUME NEW s \in Nat, s >= 36, s <= StackWords, NEW n \in 2 .. 36
  PROVE  /\ s - n \in 0 .. StackWords - 1 /\ s - n + 1 \in 0 .. StackWords - 1
         /\ s - n + 2 = s - (n - 2) /\ s - n + 2 \in Nat
BY FrameAssumption

LEMMA LowReg == \A r : r \in 0 .. 30 \/ r = XZR => r # ELR /\ r # SPSR
BY DEF XZR, ELR, SPSR

\* What instruction p of an exit, which pops with stack pointer t, makes of the registers.
PopDone(f2, t, k, p, s, g, d) ==
  /\ f2 \in [Reg -> Nat]
  /\ t + 2 \in Nat /\ t + 2 = s - Pushed(p + 1)
  /\ Leaving(k, p + 1, g, d, f2)
  /\ p < 45

LEMMA PopTop ==
  ASSUME NEW k, NEW p \in 25 .. 45, NEW s \in Nat, s >= 36, s <= StackWords, NEW g, NEW c \in Nat,
         NEW d \in Nat, NEW f \in [Reg -> Nat], NEW m \in [0 .. StackWords - 1 -> Nat],
         NEW a \in Nat, a >= 23, Stored(a, s, g, c, d, m), Leaving(k, p, g, d, f),
         NEW i, Exit(i, p, ResultOf(k)), i.op = "ldp",
         NEW t, t = s - Pushed(p), NEW f2, f2 = Write(Write(f, i.a, m[t]), i.b, m[t + 1])
  PROVE  PopDone(f2, t, k, p, s, g, d)
<1>1. \/ p = 25 /\ i.a = 3 /\ i.b = 2
      \/ p = 26 /\ i.a = XZR /\ i.b = XZR
      \/ p = 29 /\ i.a = ResultOf(k) /\ i.b = XZR
      \/ p \in 30 .. 43 /\ i.a = 2 * p - 59 /\ i.b = 2 * p - 58
      \/ p = 44 /\ i.a = 29 /\ i.b = 30
  BY LdpAt
<1>2. p \in {25, 26} \cup 29 .. 44
  BY <1>1
<1>3. t \in 0 .. StackWords - 1 /\ t + 1 \in 0 .. StackWords - 1 /\ t + 2 = s - Pushed(p + 1) /\ t + 2 \in Nat
  <2>1. Pushed(p + 1) = Pushed(p) - 2 /\ Pushed(p) \in 2 .. 36
    BY <1>2, PoppedNext
  <2> QED  BY <2>1, StackRoom
<1>4. i.a \in Reg /\ i.b \in Reg
  <2>1. ResultOf(k) \in Reg
    BY RegNames DEF ResultOf
  <2>2. p \in 30 .. 43 => 2 * p - 59 \in 0 .. 30 /\ 2 * p - 58 \in 0 .. 30
    BY LoadRegs
  <2>3. p \in 30 .. 43 => 2 * p - 59 \in Reg /\ 2 * p - 58 \in Reg
    BY <2>2, GprInReg
  <2> QED  BY <1>1, <2>1, <2>3, RegNames
<1>5. m[t] \in Nat /\ m[t + 1] \in Nat
  BY <1>3
<1>6. Loads(f2, f, i.a, i.b, m[t], m[t + 1])
  BY <1>4, <1>5, LoadEffect
<1>7. Loaded(k, p, f2, g, d)
  BY <1>1, <1>6, PopWords
<1>8. f2 \in [Reg -> Nat] /\ \A r \in Reg : r # i.a /\ r # i.b => f2[r] = f[r]
  BY <1>6 DEF Loads
<1>9. f2[ELR] = f[ELR] /\ f2[SPSR] = f[SPSR]
  <2>1. i.a # ELR /\ i.b # ELR /\ i.a # SPSR /\ i.b # SPSR
    <3>1. p \in 30 .. 43 => 2 * p - 59 \in 0 .. 30 /\ 2 * p - 58 \in 0 .. 30
      BY LoadRegs
    <3>2. ResultOf(k) = 0 \/ ResultOf(k) = XZR
      BY DEF ResultOf
    <3>3. (i.a \in 0 .. 30 \/ i.a = XZR) /\ (i.b \in 0 .. 30 \/ i.b = XZR)
      <4>1. 0 \in 0 .. 30 /\ 2 \in 0 .. 30 /\ 3 \in 0 .. 30 /\ 29 \in 0 .. 30 /\ 30 \in 0 .. 30
        OBVIOUS
      <4> QED  BY <1>1, <3>1, <3>2, <4>1, Zenon
    <3> QED  BY <3>3, LowReg
  <2> QED  BY <1>8, <2>1, RegNames
<1>10. p = 26 => f2[2] = f[2] /\ f2[3] = f[3]
  <2>1. p = 26 => i.a # 2 /\ i.b # 2 /\ i.a # 3 /\ i.b # 3
    BY <1>1 DEF XZR
  <2> QED  BY <1>8, <2>1, RegNames
<1>11. p >= 30 => f2[0] = f[0]
  <2>1. p >= 30 => i.a # 0 /\ i.b # 0
    <3>1. p \in 30 .. 43 => 2 * p - 59 \in 1 .. 28 /\ 2 * p - 58 \in 1 .. 28
      BY LoadRegs
    <3> QED  BY <1>1, <3>1
  <2> QED  BY <1>8, <2>1, RegNames
<1>12. ASSUME NEW r \in 1 .. 30, p >= 30, r <= 2 * (p - 30) PROVE f2[r] = f[r]
  <2>1. i.a # r /\ i.b # r
    BY <1>1, <1>12
  <2>2. r \in 0 .. 30
    OBVIOUS
  <2>3. r \in Reg
    BY <2>2, GprInReg
  <2> QED  BY <1>8, <2>1, <2>3
<1>13. Leaving(k, p + 1, g, d, f2)
  BY <1>2, <1>7, <1>9, <1>10, <1>11, <1>12, LeavingOneMore
<1> QED  BY <1>2, <1>3, <1>8, <1>13 DEF PopDone

\* The instructions that leave the stack alone.
LEMMA PushedSame == \A p \in {2, 18, 19, 20, 23, 24, 27, 28} : Pushed(p + 1) = Pushed(p)
<1> TAKE p \in {2, 18, 19, 20, 23, 24, 27, 28}
<1>1. CASE p = 2
  BY <1>1, PushedAt
<1>2. CASE p \in 18 .. 20
  BY <1>2, PushedAt
<1>3. CASE p \in 23 .. 24
  BY <1>3, PushedAt
<1>4. CASE p \in 27 .. 28
  BY <1>4, PushedAt
<1> QED  BY <1>1, <1>2, <1>3, <1>4

\* f2 is f with v in r.
Sets(f2, f, r, v) ==
  f2 \in [Reg -> Nat] /\ f2[r] = v /\ \A q \in Reg : q # r => f2[q] = f[q]

LEMMA SetEffect ==
  ASSUME NEW f \in [Reg -> Nat], NEW r \in Reg, NEW v \in Nat
  PROVE  Sets([f EXCEPT ![r] = v], f, r, v)
BY DEF Sets

LEMMA MoveEntry ==
  ASSUME NEW a \in 18 .. 20, NEW s, NEW g, NEW c \in Nat, NEW d \in Nat, NEW k,
         NEW f \in [Reg -> Nat], NEW f2, NEW r, NEW q, Sets(f2, f, r, f[q]),
         \/ a = 18 /\ r = 1 /\ q = ESR
         \/ a = 19 /\ r = 2 /\ q = ELR
         \/ a = 20 /\ r = 3 /\ q = SPSR,
         Entering(k, a, s, g, c, d, f)
  PROVE  Entering(k, a + 1, s, g, c, d, f2)
<1>1. f2[r] = f[q] /\ \A n \in Reg : n # r => f2[n] = f[n]
  BY DEF Sets
<1>2. r # ELR /\ r # SPSR /\ r # ESR
  BY DEF ELR, SPSR, ESR
<1>3. f2[ELR] = f[ELR] /\ f2[SPSR] = f[SPSR] /\ f2[ESR] = f[ESR]
  BY <1>1, <1>2, RegNames
<1>4. (a # 18 => f2[1] = f[1]) /\ (a = 20 => f2[2] = f[2])
  <2>1. 1 \in Reg /\ 2 \in Reg
    BY RegNames
  <2>2. (a # 18 => r # 1) /\ (a = 20 => r # 2)
    OBVIOUS
  <2> QED  BY <1>1, <2>1, <2>2
<1>5. f[ELR] = 199 + d /\ f[SPSR] = 299 + d /\ f[ESR] = 400 + c
  BY DEF Entering
<1>6. a >= 19 => f[1] = 400 + c
  BY DEF Entering
<1>7. a = 20 => f[2] = 199 + d
  BY DEF Entering
<1>8. f2[1] = 400 + c
  BY <1>1, <1>4, <1>5, <1>6
<1>9. a >= 19 => f2[2] = 199 + d
  BY <1>1, <1>4, <1>5, <1>7
<1>10. a = 20 => f2[3] = 299 + d
  BY <1>1, <1>5
<1> QED  BY <1>3, <1>5, <1>8, <1>9, <1>10 DEF Entering

LEMMA MoveExit ==
  ASSUME NEW p \in 27 .. 28, NEW g, NEW d \in Nat, NEW k,
         NEW f \in [Reg -> Nat], NEW f2, NEW r, NEW q, Sets(f2, f, r, f[q]),
         (p = 27 /\ r = SPSR /\ q = 2) \/ (p = 28 /\ r = ELR /\ q = 3),
         Leaving(k, p, g, d, f)
  PROVE  Leaving(k, p + 1, g, d, f2)
<1>1. f2[r] = f[q] /\ \A n \in Reg : n # r => f2[n] = f[n]
  BY DEF Sets
<1>2. r # 3 /\ (p = 28 => r # SPSR)
  BY DEF ELR, SPSR
<1>3. f2[3] = f[3] /\ (p = 28 => f2[SPSR] = f[SPSR])
  BY <1>1, <1>2, RegNames
<1>4. f[3] = 199 + d
  BY DEF Leaving
<1>5. f2[SPSR] = 299 + d
  <2>1. p = 27 => f[2] = 299 + d
    BY DEF Leaving
  <2>2. p = 28 => f[SPSR] = 299 + d
    BY DEF Leaving
  <2> QED  BY <1>1, <1>3, <2>1, <2>2
<1>6. p = 28 => f2[ELR] = 199 + d
  BY <1>1, <1>4
<1> QED  BY <1>3, <1>4, <1>5, <1>6 DEF Leaving

LEMMA BranchEntry ==
  ASSUME NEW s, NEW g, NEW c \in Nat, NEW d \in Nat, NEW k, NEW f \in [Reg -> Nat], NEW f2,
         Sets(f2, f, 30, 500), Entering(k, 2, s, g, c, d, f)
  PROVE  Entering(k, 3, s, g, c, d, f2)
<1>1. \A n \in Reg : n # 30 => f2[n] = f[n]
  BY DEF Sets
<1>2. f2[ELR] = f[ELR] /\ f2[SPSR] = f[SPSR] /\ f2[ESR] = f[ESR]
  <2>1. ELR # 30 /\ SPSR # 30 /\ ESR # 30
    BY DEF ELR, SPSR, ESR
  <2> QED  BY <1>1, <2>1, RegNames
<1>3. ASSUME NEW r \in 0 .. 28 PROVE f2[r] = g[r]
  <2>1. f[r] = g[r]
    BY DEF Entering
  <2>2. r \in 0 .. 30 /\ r # 30
    OBVIOUS
  <2>3. r \in Reg
    BY <2>2, GprInReg
  <2> QED  BY <1>1, <2>1, <2>2, <2>3
<1>4. f[ELR] = 199 + d /\ f[SPSR] = 299 + d /\ f[ESR] = 400 + c
  BY DEF Entering
<1> QED  BY <1>2, <1>3, <1>4 DEF Entering

LEMMA PassEntry ==
  ASSUME NEW s \in Nat, NEW g, NEW c \in Nat, NEW d \in Nat, NEW k, NEW f \in [Reg -> Nat], NEW f2,
         Sets(f2, f, 0, s - 36), Entering(k, 23, s, g, c, d, f)
  PROVE  Entering(k, 24, s, g, c, d, f2)
<1>1. f2[0] = s - 36 /\ f2[1] = f[1]
  <2>1. f2[0] = s - 36 /\ \A n \in Reg : n # 0 => f2[n] = f[n]
    BY DEF Sets
  <2>2. 1 \in Reg
    BY RegNames, Zenon
  <2> QED  BY <2>1, <2>2
<1>2. f[1] = 400 + c
  BY DEF Entering
<1> QED  BY <1>1, <1>2 DEF Entering

\* An entry is over once its code is past save_regs and the call; an exit has not begun
\* before that.
LEMMA NotEntering ==
  ASSUME NEW k, NEW a \in Nat, a > 24 \/ (a = 24 /\ k = "irq"), NEW s, NEW g, NEW c, NEW d, NEW f
  PROVE  Entering(k, a, s, g, c, d, f)
BY DEF Entering

LEMMA NotLeaving ==
  ASSUME NEW k, NEW p \in Nat, p <= 25, NEW g, NEW d, NEW f
  PROVE  Leaving(k, p, g, d, f)
BY DEF Leaving

\* A complete frame stays complete.
LEMMA StoredStill ==
  ASSUME NEW a \in Nat, a >= 23, NEW b \in Nat, b >= 23, NEW s, NEW g, NEW c, NEW d, NEW m,
         Stored(a, s, g, c, d, m)
  PROVE  Stored(b, s, g, c, d, m)
<1>1. ASSUME NEW r \in 1 .. 28 PROVE m[s - 31 + r] = g[r]
  BY DEF Stored
<1>2. m[s - 2] = g[29] /\ m[s - 1] = g[30] /\ m[s - 32] = g[0]
  BY DEF Stored
<1>3. m[s - 34] = 400 + c
  BY DEF Stored
<1>4. m[s - 36] = 199 + d /\ m[s - 35] = 299 + d
  BY DEF Stored
<1> QED  BY <1>1, <1>2, <1>3, <1>4 DEF Stored

\* What instruction a of the code of kind k is.
Decoded(k, a, i) ==
  \/ a \in 1 .. 23 /\ Entry(i, a)
  \/ k = "irq" /\ a = 24 /\ i.op = "do_irq"
  \/ k = "sync" /\ a = 24 /\ i.op = "dispatch"
  \/ k = "sync" /\ a = 25 /\ i.op = "rust"
  \/ k = "fatal" /\ a = 24 /\ i.op = "panic"
  \/ k = "fatal" /\ a = 25 /\ i.op = "loop"
  \/ k # "fatal" /\ a > 24 /\ Place(k, a) \in 25 .. 45 /\ Exit(i, Place(k, a), ResultOf(k))

LEMMA Decode ==
  ASSUME NEW k \in Kind, NEW a \in 1 .. Last(k)
  PROVE  Decoded(k, a, Code(k)[a])
<1>1. CASE k = "irq"
  <2>1. Code(k) = irq_handler /\ Last(k) = 45 /\ Place(k, a) = a /\ ResultOf(k) = 0
    BY <1>1 DEF Code, Last, Place, ResultOf
  <2>2. CASE a \in 1 .. 23
    <3>1. irq_handler[a] = save_regs[a]
      BY <2>2, IrqCode
    <3>2. Entry(save_regs[a], a)
      BY <2>2, EntryAt
    <3> QED  BY <2>1, <2>2, <3>1, <3>2 DEF Decoded
  <2>3. CASE a = 24
    <3>1. irq_handler[24] = Op("do_irq")
      BY IrqCode
    <3>2. irq_handler[24].op = "do_irq"
      BY <3>1, Fields
    <3> QED  BY <1>1, <2>1, <2>3, <3>2 DEF Decoded
  <2>4. CASE a \in 25 .. 45
    <3>1. Exit(irq_handler[a], a, 0)
      BY <2>4, IrqExitAt
    <3> QED  BY <1>1, <2>1, <2>4, <3>1 DEF Decoded
  <2>5. a \in 1 .. 23 \/ a = 24 \/ a \in 25 .. 45
    BY <2>1
  <2> QED  BY <2>2, <2>3, <2>4, <2>5
<1>2. CASE k = "sync"
  <2>1. Code(k) = sync_handler /\ Last(k) = 46 /\ ResultOf(k) = XZR
    BY <1>2 DEF Code, Last, ResultOf
  <2>2. CASE a \in 1 .. 23
    <3>1. sync_handler[a] = save_regs[a]
      BY <2>2, SyncCode
    <3>2. Entry(save_regs[a], a)
      BY <2>2, EntryAt
    <3> QED  BY <2>1, <2>2, <3>1, <3>2 DEF Decoded
  <2>3. CASE a = 24
    <3>1. sync_handler[24] = Op("dispatch")
      BY SyncCode
    <3>2. sync_handler[24].op = "dispatch"
      BY <3>1, Fields
    <3> QED  BY <1>2, <2>1, <2>3, <3>2 DEF Decoded
  <2>4. CASE a = 25
    <3>1. sync_handler[25] = Op("rust")
      BY SyncCode
    <3>2. sync_handler[25].op = "rust"
      BY <3>1, Fields
    <3> QED  BY <1>2, <2>1, <2>4, <3>2 DEF Decoded
  <2>5. CASE a \in 26 .. 46
    <3>1. PICK p \in 25 .. 45 : a = p + 1 /\ a > 24
      <4>1. a - 1 \in 25 .. 45 /\ a = (a - 1) + 1 /\ a > 24
        BY <2>5
      <4> QED  BY <4>1
    <3>2. Place(k, a) = p
      BY <1>2, <3>1 DEF Place
    <3>3. Exit(sync_handler[p + 1], p, XZR)
      BY SyncExitAt
    <3>4. k # "fatal"
      BY <1>2
    <3> QED  BY <2>1, <3>1, <3>2, <3>3, <3>4 DEF Decoded
  <2>6. a \in 1 .. 23 \/ a = 24 \/ a = 25 \/ a \in 26 .. 46
    BY <2>1
  <2> QED  BY <2>2, <2>3, <2>4, <2>5, <2>6
<1>3. CASE k = "fatal"
  <2>1. Code(k) = panic_handler /\ Last(k) = 25
    BY <1>3 DEF Code, Last
  <2>2. CASE a \in 1 .. 23
    <3>1. panic_handler[a] = save_regs[a]
      BY <2>2, PanicCode
    <3>2. Entry(save_regs[a], a)
      BY <2>2, EntryAt
    <3> QED  BY <2>1, <2>2, <3>1, <3>2 DEF Decoded
  <2>3. CASE a = 24
    <3>1. panic_handler[24] = Op("panic")
      BY PanicCode
    <3>2. panic_handler[24].op = "panic"
      BY <3>1, Fields
    <3> QED  BY <1>3, <2>1, <2>3, <3>2 DEF Decoded
  <2>4. CASE a = 25
    <3>1. panic_handler[25] = Op("loop")
      BY PanicCode
    <3>2. panic_handler[25].op = "loop"
      BY <3>1, Fields
    <3> QED  BY <1>3, <2>1, <2>4, <3>2 DEF Decoded
  <2>5. a \in 1 .. 23 \/ a = 24 \/ a = 25
    BY <2>1
  <2> QED  BY <2>2, <2>3, <2>4, <2>5
<1> QED  BY <1>1, <1>2, <1>3 DEF Kind

LEMMA EntryOp ==
  ASSUME NEW a \in 1 .. 23, NEW i, Entry(i, a)
  PROVE  \/ a = 2 /\ i.op = "bl"
         \/ a = 23 /\ i.op = "mov x0, sp"
         \/ a \in 18 .. 20 /\ i.op = "mov"
         \/ a \in 1 .. 22 /\ i.op = "stp"
<1>1. \/ a = 1 /\ i.op = "stp"
      \/ a = 2 /\ i.op = "bl"
      \/ a \in 3 .. 16 /\ i.op = "stp"
      \/ a = 17 /\ i.op = "stp"
      \/ a = 18 /\ i.op = "mov"
      \/ a = 19 /\ i.op = "mov"
      \/ a = 20 /\ i.op = "mov"
      \/ a = 21 /\ i.op = "stp"
      \/ a = 22 /\ i.op = "stp"
      \/ a = 23 /\ i.op = "mov x0, sp"
  BY Zenon DEF Entry, Is
<1>2. /\ a \in 3 .. 16 => a \in 1 .. 22
      /\ 1 \in 1 .. 22 /\ 17 \in 1 .. 22 /\ 21 \in 1 .. 22 /\ 22 \in 1 .. 22
      /\ 18 \in 18 .. 20 /\ 19 \in 18 .. 20 /\ 20 \in 18 .. 20
  OBVIOUS
<1> QED  BY <1>1, <1>2, Zenon

\* Where in the code an operation is.
LEMMA OpAt ==
  ASSUME NEW k \in Kind, NEW a \in Nat, NEW i, Decoded(k, a, i)
  PROVE  /\ i.op = "stp" => a \in 1 .. 22 /\ Entry(i, a)
         /\ i.op = "ldp" => /\ k # "fatal" /\ a > 24 /\ Place(k, a) \in 25 .. 45
                            /\ Exit(i, Place(k, a), ResultOf(k))
         /\ i.op = "mov" => \/ a \in 18 .. 20 /\ Entry(i, a)
                            \/ /\ k # "fatal" /\ a > 24 /\ Place(k, a) \in 27 .. 28
                               /\ Exit(i, Place(k, a), ResultOf(k))
         /\ i.op \in {"do_irq", "rust"} => (k = "irq" /\ a = 24) \/ (k = "sync" /\ a = 25)
         /\ i.op = "dispatch" => k = "sync" /\ a = 24
         /\ i.op = "panic" => k = "fatal" /\ a = 24
         /\ i.op = "eret" => k # "fatal" /\ a > 24 /\ Place(k, a) = 45
<1>1. CASE a \in 1 .. 23 /\ Entry(i, a)
  <2>1. \/ a = 2 /\ i.op = "bl"
        \/ a = 23 /\ i.op = "mov x0, sp"
        \/ a \in 18 .. 20 /\ i.op = "mov"
        \/ a \in 1 .. 22 /\ i.op = "stp"
    BY <1>1, EntryOp
  <2> QED  BY <1>1, <2>1
<1>2. CASE k # "fatal" /\ a > 24 /\ Place(k, a) \in 25 .. 45 /\ Exit(i, Place(k, a), ResultOf(k))
  <2>1. PICK p \in 25 .. 45 : p = Place(k, a)
    BY <1>2
  <2>2. Exit(i, p, ResultOf(k))
    BY <1>2, <2>1
  <2>3. \/ i.op = "ldp" \/ (i.op = "mov" /\ p \in 27 .. 28) \/ (i.op = "eret" /\ p = 45)
    BY <2>2 DEF Exit, Is
  <2> QED  BY <1>2, <2>1, <2>3
<1>3. CASE ~(a \in 1 .. 23 /\ Entry(i, a))
           /\ ~(k # "fatal" /\ a > 24 /\ Place(k, a) \in 25 .. 45 /\ Exit(i, Place(k, a), ResultOf(k)))
  <2>1. \/ k = "irq" /\ a = 24 /\ i.op = "do_irq"
        \/ k = "sync" /\ a = 24 /\ i.op = "dispatch"
        \/ k = "sync" /\ a = 25 /\ i.op = "rust"
        \/ k = "fatal" /\ a = 24 /\ i.op = "panic"
        \/ k = "fatal" /\ a = 25 /\ i.op = "loop"
    BY <1>3 DEF Decoded
  <2> QED  BY <2>1
<1> QED  BY <1>1, <1>2, <1>3

\* The Rust handlers are called behind the entry code.
LEMMA LateOp ==
  ASSUME NEW k \in Kind, NEW a \in Nat, NEW i, Decoded(k, a, i),
         i.op \in {"do_irq", "rust", "panic", "loop"}
  PROVE  a >= 24
<1>1. CASE a \in 1 .. 23 /\ Entry(i, a)
  <2>1. i.op = "bl" \/ i.op = "mov x0, sp" \/ i.op = "mov" \/ i.op = "stp"
    BY <1>1, EntryOp
  <2> QED  BY <2>1
<1>2. CASE a >= 24
  BY <1>2
<1> QED  BY <1>1, <1>2 DEF Decoded

LEMMA PlaceNext ==
  ASSUME NEW k \in Kind, NEW a \in Nat
  PROVE  /\ a <= 24 => Place(k, a) = a
         /\ a < 24 => Place(k, a + 1) = a + 1
         /\ a > 24 => Place(k, a + 1) = Place(k, a) + 1
         /\ a > 24 /\ Place(k, a) \in 25 .. 44 /\ k # "fatal" => a + 1 \in 1 .. Last(k)
BY DEF Place, Last, Kind

-----------------------------------------------------------------------------
(* The exceptions being handled.                                           *)

\* The innermost exception becomes e, the others stay.
TopReplaced(t, s, e) ==
  /\ t \in Seq(Exception) /\ Len(t) = Len(s) /\ t[Len(s)] = e
  /\ \A d \in 1 .. Len(s) - 1 : t[d] = s[d]

LEMMA ReplaceTop ==
  ASSUME NEW s \in Seq(Exception), Len(s) > 0, NEW e \in Exception
  PROVE  TopReplaced([s EXCEPT ![Len(s)] = e], s, e)
<1>0. Len(s) \in Nat /\ Len(s) \in 1 .. Len(s)
  BY LenProperties
<1>1. PICK t : t = [s EXCEPT ![Len(s)] = e]
  OBVIOUS
<1>2. t \in Seq(Exception)
  BY <1>0, <1>1, ExceptSeq
<1>3. Len(t) = Len(s)
  BY <1>0, <1>1, ExceptSeq
<1>4. \A d \in 1 .. Len(s) : t[d] = IF d = Len(s) THEN e ELSE s[d]
  BY <1>0, <1>1, ExceptSeq
<1>5. t[Len(s)] = e
  BY <1>0, <1>4
<1>6. \A d \in 1 .. Len(s) - 1 : t[d] = s[d]
  BY <1>0, <1>4
<1> QED  BY <1>1, <1>2, <1>3, <1>5, <1>6 DEF TopReplaced

\* The frame at address s is the same in both memories.
LEMMA StoredAgree ==
  ASSUME NEW a \in Nat, NEW s \in Nat, s >= 36, NEW g, NEW c, NEW d, NEW m, NEW m2,
         \A q \in s - 36 .. s - 1 : m2[q] = m[q], Stored(a, s, g, c, d, m)
  PROVE  Stored(a, s, g, c, d, m2)
<1>1. ASSUME NEW r \in 1 .. 28, a >= 3 /\ r >= 35 - 2 * a PROVE m2[s - 31 + r] = g[r]
  <2>1. s - 31 + r \in s - 36 .. s - 1
    OBVIOUS
  <2>2. m[s - 31 + r] = g[r]
    BY <1>1 DEF Stored
  <2> QED  BY <2>1, <2>2
<1>2. /\ s - 1 \in s - 36 .. s - 1 /\ s - 2 \in s - 36 .. s - 1 /\ s - 32 \in s - 36 .. s - 1
      /\ s - 34 \in s - 36 .. s - 1 /\ s - 35 \in s - 36 .. s - 1 /\ s - 36 \in s - 36 .. s - 1
  OBVIOUS
<1>3. /\ m2[s - 1] = m[s - 1] /\ m2[s - 2] = m[s - 2] /\ m2[s - 32] = m[s - 32]
      /\ m2[s - 34] = m[s - 34] /\ m2[s - 35] = m[s - 35] /\ m2[s - 36] = m[s - 36]
  BY <1>2
<1> QED  BY <1>1, <1>3 DEF Stored

\* Memories that differ only below the stack pointer the exception at depth n found.
AgreeAbove(m2, m, n) ==
  \A q \in 0 .. StackWords - 1 : q >= StackWords - 36 * (n - 1) => m2[q] = m[q]

\* Whatever is written below the stack pointer that the innermost exception found leaves
\* the frames of the others alone.
LEMMA OuterFrame ==
  ASSUME NEW n \in Nat, n <= MaxDepth, NEW d \in 1 .. n - 1, NEW e \in Exception, NEW m, NEW m2,
         FrameHolds(e, d, m), AgreeAbove(m2, m, n)
  PROVE  FrameHolds(e, d, m2)
<1>1. PICK s : s = e.from.sp
  OBVIOUS
<1>2. s = StackWords - 36 * (d - 1)
  BY <1>1 DEF FrameHolds
<1>3. s \in Nat /\ s >= 36 /\ s <= StackWords /\ s - 36 >= StackWords - 36 * (n - 1)
  BY <1>2, FrameAssumption
<1>4. ASSUME NEW q \in s - 36 .. s - 1 PROVE m2[q] = m[q]
  <2>1. q \in 0 .. StackWords - 1 /\ q >= StackWords - 36 * (n - 1)
    BY <1>3, FrameAssumption
  <2> QED  BY <2>1 DEF AgreeAbove
<1>5. Stored(e.at, s, e.from.x, e.ec, d, m) /\ e.at \in Nat
  BY <1>1 DEF FrameHolds, Exception
<1>6. Stored(e.at, s, e.from.x, e.ec, d, m2)
  BY <1>3, <1>4, <1>5, StoredAgree
<1> QED  BY <1>1, <1>6 DEF FrameHolds

LEMMA FramesStep ==
  ASSUME NEW s \in Seq(Exception), Len(s) > 0, Len(s) <= MaxDepth,
         NEW f, NEW w, NEW m, FramesOf(s, f, w, m),
         NEW t, NEW e \in Exception, TopReplaced(t, s, e),
         NEW f2, NEW w2, NEW m2,
         FrameHolds(e, Len(s), m2), TopHolds(e, Len(s), f2, w2), AgreeAbove(m2, m, Len(s))
  PROVE  FramesOf(t, f2, w2, m2)
<1>1. PICK n \in Nat : n = Len(s) /\ n > 0 /\ n <= MaxDepth
  BY LenProperties
<1>2. Len(t) = n /\ t[n] = e /\ \A d \in 1 .. n - 1 : t[d] = s[d]
  BY <1>1 DEF TopReplaced
<1>3. ASSUME NEW d \in 1 .. n - 1 PROVE FrameHolds(t[d], d, m2) /\ Waits(t[d])
  <2>1. t[d] = s[d] /\ d \in 1 .. Len(s)
    BY <1>1, <1>2
  <2>2. s[d] \in Exception
    BY <2>1, ElementOfSeq
  <2>3. FrameHolds(s[d], d, m) /\ Waits(s[d])
    BY <1>1, <2>1 DEF FramesOf
  <2>4. FrameHolds(s[d], d, m2)
    BY <1>1, <2>2, <2>3, OuterFrame
  <2> QED  BY <2>1, <2>3, <2>4
<1>4. FrameHolds(t[n], n, m2) /\ TopHolds(t[n], n, f2, w2)
  BY <1>1, <1>2
<1>5. ASSUME NEW d \in 1 .. n PROVE FrameHolds(t[d], d, m2)
  <2>1. d = n \/ d \in 1 .. n - 1
    OBVIOUS
  <2> QED  BY <1>3, <1>4, <2>1
<1> QED  BY <1>1, <1>2, <1>3, <1>4, <1>5 DEF FramesOf

\* An exception that goes on behind instruction e.at.
LEMMA Advanced ==
  ASSUME NEW e \in Exception, NEW e2, e2 = [e EXCEPT !.at = @ + 1]
  PROVE  /\ e2 \in Exception
         /\ e2.at = e.at + 1 /\ e2.kind = e.kind /\ e2.ec = e.ec /\ e2.from = e.from
         /\ e2.call = e.call /\ e2.report = e.report
<1>1. e.at \in Nat
  BY DEF Exception
<1>2. e2.at = e.at + 1
  BY DEF Exception
<1>3. e2.kind = e.kind /\ e2.ec = e.ec /\ e2.from = e.from /\ e2.call = e.call /\ e2.report = e.report
  BY DEF Exception
<1>4. e2 \in Exception
  BY <1>1 DEF Exception
<1> QED  BY <1>2, <1>3, <1>4

-----------------------------------------------------------------------------
(* The steps.                                                              *)

Inv == Types /\ Frames

\* What is known of the innermost exception e, at depth n.
Innermost(e, n) ==
  /\ e \in Exception /\ n \in Nat /\ n > 0 /\ n <= MaxDepth
  /\ e.kind \in Kind /\ e.at \in Nat /\ e.at \in 1 .. Last(e.kind) /\ e.ec \in Nat
  /\ e.from.sp \in Nat /\ e.from.sp >= 36 /\ e.from.sp <= StackWords
  /\ e.from.sp = StackWords - 36 * (n - 1)
  /\ e.from.x \in [Reg -> Nat]
  /\ Told(e) /\ Stored(e.at, e.from.sp, e.from.x, e.ec, n, mem)
  /\ sp = e.from.sp - Pushed(Place(e.kind, e.at))
  /\ Entering(e.kind, e.at, e.from.sp, e.from.x, e.ec, n, x)
  /\ Leaving(e.kind, Place(e.kind, e.at), e.from.x, n, x)
  /\ Decoded(e.kind, e.at, Ins)

LEMMA InnermostHolds ==
  ASSUME Inv, Len(active) > 0, NEW e, NEW n, n = Len(active), e = active[n]
  PROVE  Innermost(e, n)
<1>1. active \in Seq(Exception) /\ n \in Nat /\ n > 0 /\ n <= MaxDepth
  BY LenProperties DEF Inv, Types
<1>2. e \in Exception
  BY <1>1, ElementOfSeq
<1>3. FrameHolds(e, n, mem) /\ TopHolds(e, n, x, sp)
  <2>1. /\ \A d \in 1 .. Len(active) : FrameHolds(active[d], d, mem)
        /\ Len(active) > 0 => TopHolds(active[Len(active)], Len(active), x, sp)
    BY DEF Inv, Frames, FramesOf
  <2> QED  BY <1>1, <2>1
<1>4. /\ e.kind \in Kind /\ e.at \in Nat /\ e.ec \in Nat /\ e.from.sp \in Nat
      /\ e.from.x \in [Reg -> Nat]
  BY <1>2 DEF Exception
<1>5. e.from.sp = StackWords - 36 * (n - 1)
  BY <1>3 DEF FrameHolds
<1>6. e.from.sp >= 36 /\ e.from.sp <= StackWords
  BY <1>1, <1>5, FrameAssumption
<1>7. Told(e) /\ Stored(e.at, e.from.sp, e.from.x, e.ec, n, mem)
  BY <1>3 DEF FrameHolds
<1>8. /\ e.at \in 1 .. Last(e.kind) /\ sp = e.from.sp - Pushed(Place(e.kind, e.at))
      /\ Entering(e.kind, e.at, e.from.sp, e.from.x, e.ec, n, x)
      /\ Leaving(e.kind, Place(e.kind, e.at), e.from.x, n, x)
  BY <1>3 DEF TopHolds
<1>9. Decoded(e.kind, e.at, Ins)
  <2>1. Ins = Code(e.kind)[e.at]
    BY DEF Ins, Top
  <2> QED  BY <1>4, <1>8, <2>1, Decode
<1> QED  BY <1>1, <1>2, <1>4, <1>5, <1>6, <1>7, <1>8, <1>9 DEF Innermost

\* A step of the innermost exception e, which becomes e2, after which everything is as
\* the next instruction expects it.
LEMMA ReplaceStep ==
  ASSUME Inv, NEW e, NEW n, n = Len(active), Innermost(e, n),
         NEW e2 \in Exception, TopReplaced(active', active, e2), Told(e2),
         e2.at = e.at + 1, e2.kind = e.kind, e2.ec = e.ec, e2.from = e.from,
         x' \in [Reg -> Nat], sp' \in Nat, mem' \in [0 .. StackWords - 1 -> Nat],
         e.at + 1 \in 1 .. Last(e.kind),
         Stored(e.at + 1, e.from.sp, e.from.x, e.ec, n, mem'),
         sp' = e.from.sp - Pushed(Place(e.kind, e.at + 1)),
         Entering(e.kind, e.at + 1, e.from.sp, e.from.x, e.ec, n, x'),
         Leaving(e.kind, Place(e.kind, e.at + 1), e.from.x, n, x'),
         AgreeAbove(mem', mem, n)
  PROVE  Inv'
<1>1. active \in Seq(Exception) /\ n > 0 /\ n <= MaxDepth /\ e \in Exception
  BY DEF Inv, Types, Innermost
<1>2. FrameHolds(e2, n, mem')
  <2>1. e.from.sp = StackWords - 36 * (n - 1)
    BY DEF Innermost
  <2> QED  BY <2>1 DEF FrameHolds
<1>3. TopHolds(e2, n, x', sp')
  BY DEF TopHolds
<1>4. /\ FrameHolds(e2, Len(active), mem') /\ TopHolds(e2, Len(active), x', sp')
      /\ AgreeAbove(mem', mem, Len(active)) /\ Len(active) > 0 /\ Len(active) <= MaxDepth
  BY <1>1, <1>2, <1>3
<1>5. FramesOf(active', x', sp', mem')
  <2>1. FramesOf(active, x, sp, mem)
    BY DEF Inv, Frames
  <2> QED  BY <1>1, <1>4, <2>1, FramesStep
<1>6. active' \in Seq(Exception) /\ Len(active') = Len(active)
  BY DEF TopReplaced
<1>7. Types'
  BY <1>1, <1>6 DEF Types
<1> QED  BY <1>5, <1>7 DEF Inv, Frames

\* The same for a step that only goes on to the next instruction.
LEMMA ExecuteStep ==
  ASSUME Inv, NEW op, Execute(op), NEW e, NEW n, n = Len(active), e = active[n], Innermost(e, n),
         x' \in [Reg -> Nat], sp' \in Nat, mem' \in [0 .. StackWords - 1 -> Nat],
         e.at + 1 \in 1 .. Last(e.kind),
         Stored(e.at + 1, e.from.sp, e.from.x, e.ec, n, mem'),
         sp' = e.from.sp - Pushed(Place(e.kind, e.at + 1)),
         Entering(e.kind, e.at + 1, e.from.sp, e.from.x, e.ec, n, x'),
         Leaving(e.kind, Place(e.kind, e.at + 1), e.from.x, n, x'),
         AgreeAbove(mem', mem, n)
  PROVE  Inv'
<1>1. active \in Seq(Exception) /\ n > 0 /\ n <= MaxDepth /\ e \in Exception
  BY DEF Inv, Types, Innermost
<1>2. PICK e2 : e2 = [e EXCEPT !.at = @ + 1]
  OBVIOUS
<1>3. /\ e2 \in Exception
      /\ e2.at = e.at + 1 /\ e2.kind = e.kind /\ e2.ec = e.ec /\ e2.from = e.from
      /\ e2.call = e.call /\ e2.report = e.report
  BY <1>1, <1>2, Advanced
<1>4. active' = [active EXCEPT ![Len(active)] = e2]
  BY <1>2 DEF Execute, Depth
<1>5. TopReplaced(active', active, e2)
  BY <1>1, <1>3, <1>4, ReplaceTop
<1>6. Told(e2)
  <2>1. Told(e)
    BY DEF Innermost
  <2> QED  BY <1>3, <2>1 DEF Told
<1> QED  BY <1>3, <1>5, <1>6, ReplaceStep

LEMMA StackStays == \A n : AgreeAbove(mem, mem, n)
BY DEF AgreeAbove

LEMMA PushedNat == \A p \in 1 .. 45 : Pushed(p) \in 0 .. 36
<1> TAKE p \in 1 .. 45
<1>1. p = 1 \/ p = 2 \/ p \in 3 .. 17 \/ p \in 18 .. 21 \/ p = 22 \/ p \in 23 .. 25 \/ p = 26
      \/ p \in 27 .. 29 \/ p \in 30 .. 45
  OBVIOUS
<1> QED  BY <1>1, PushedAt

\* The operation of the instruction that is executed.
LEMMA Executed ==
  ASSUME Inv, NEW op, Execute(op), NEW e, NEW n, n = Len(active), e = active[n]
  PROVE  /\ Innermost(e, n) /\ Ins.op = op
         /\ x \in [Reg -> Nat] /\ sp \in Nat /\ mem \in [0 .. StackWords - 1 -> Nat]
<1>1. Len(active) > 0 /\ Ins.op = op
  BY DEF Execute, Depth
<1> QED  BY <1>1, InnermostHolds DEF Inv, Types

LEMMA PushStep ==
  ASSUME Inv, Push
  PROVE  Inv'
<1>1. PICK n : n = Len(active)
  OBVIOUS
<1>2. PICK e : e = active[n]
  OBVIOUS
<1>3. PICK i : i = Ins
  OBVIOUS
<1>4. Execute("stp") /\ UNCHANGED x
  BY DEF Push
<1>5. /\ Innermost(e, n) /\ i.op = "stp"
      /\ x \in [Reg -> Nat] /\ sp \in Nat /\ mem \in [0 .. StackWords - 1 -> Nat]
  BY <1>1, <1>2, <1>3, <1>4, Executed
<1>6. PICK a \in Nat : a = e.at
  BY <1>5 DEF Innermost
<1>7. PICK s \in Nat : s = e.from.sp
  BY <1>5 DEF Innermost
<1>8. PICK k \in Kind : k = e.kind
  BY <1>5 DEF Innermost
<1>9. /\ s >= 36 /\ s <= StackWords /\ s = StackWords - 36 * (n - 1) /\ e.ec \in Nat /\ n \in Nat
      /\ Stored(a, s, e.from.x, e.ec, n, mem)
      /\ sp = s - Pushed(Place(k, a))
      /\ Entering(k, a, s, e.from.x, e.ec, n, x)
      /\ Decoded(k, a, i)
  BY <1>3, <1>5, <1>6, <1>7, <1>8 DEF Innermost
<1>10. a \in 1 .. 22 /\ Entry(i, a)
  BY <1>5, <1>9, OpAt
<1>11. Place(k, a) = a /\ Place(k, a + 1) = a + 1
  BY <1>10, PlaceNext
<1>12. PICK w : w = sp - 2
  OBVIOUS
<1>13. w = s - Pushed(a) - 2
  BY <1>9, <1>11, <1>12
<1>14. mem' = [mem EXCEPT ![w] = ReadOf(x, i.a), ![w + 1] = ReadOf(x, i.b)]
  <2>1. w + 1 = sp - 1
    BY <1>5, <1>12
  <2>2. mem' = [mem EXCEPT ![sp - 2] = Read(Ins.a), ![sp - 1] = Read(Ins.b)]
    BY DEF Push
  <2>3. Read(Ins.a) = ReadOf(x, i.a) /\ Read(Ins.b) = ReadOf(x, i.b)
    BY <1>3 DEF Read, ReadOf
  <2> QED  BY <1>12, <2>1, <2>2, <2>3
<1>15. /\ mem' \in [0 .. StackWords - 1 -> Nat]
       /\ w \in Nat /\ w = s - Pushed(a + 1)
       /\ \A q \in 0 .. StackWords - 1 : q >= w + 2 => mem'[q] = mem[q]
       /\ PairAt(mem', a, s, e.from.x, e.ec, n)
       /\ Entering(k, a + 1, s, e.from.x, e.ec, n, x)
  <2>1. a \in 1 .. 23
    BY <1>10
  <2>2. PushDone(mem', mem, w, k, a, s, e.from.x, e.ec, n, x)
    BY <1>5, <1>9, <1>10, <1>13, <1>14, <2>1, PushTop
  <2> QED  BY <2>2 DEF PushDone
<1>16. Stored(a + 1, s, e.from.x, e.ec, n, mem')
  <2>1. w + 2 = s - Pushed(a)
    BY <1>9, <1>11, <1>12, <1>5
  <2>2. \A q \in 0 .. StackWords - 1 : q >= s - Pushed(a) => mem'[q] = mem[q]
    BY <1>15, <2>1
  <2> QED  BY <1>9, <1>10, <1>15, <2>2, StoredOneMore
<1>17. AgreeAbove(mem', mem, n)
  <2>1. w + 2 <= s
    <3>1. Pushed(a) \in Nat
      BY <1>10, PushedNat
    <3> QED  BY <1>5, <1>9, <1>11, <1>12, <3>1
  <2> QED  BY <1>9, <1>15, <2>1, FrameAssumption DEF AgreeAbove
<1>18. Leaving(k, Place(k, a + 1), e.from.x, n, x)
  BY <1>10, <1>11, NotLeaving
<1>19. a + 1 \in 1 .. Last(k)
  BY <1>10 DEF Last
<1>20. sp' = s - Pushed(Place(k, a + 1)) /\ sp' \in Nat
  BY <1>11, <1>12, <1>15 DEF Push
<1> QED  BY <1>1, <1>2, <1>4, <1>5, <1>6, <1>7, <1>8, <1>15, <1>16, <1>17, <1>18, <1>19, <1>20,
            ExecuteStep

LEMMA MovEntryAt ==
  ASSUME NEW a \in 18 .. 20, NEW i, Entry(i, a)
  PROVE  \/ a = 18 /\ i.a = 1 /\ i.b = ESR
         \/ a = 19 /\ i.a = 2 /\ i.b = ELR
         \/ a = 20 /\ i.a = 3 /\ i.b = SPSR
<1>1. CASE a = 18
  BY <1>1 DEF Entry, Is
<1>2. CASE a = 19
  BY <1>2 DEF Entry, Is
<1>3. CASE a = 20
  BY <1>3 DEF Entry, Is
<1> QED  BY <1>1, <1>2, <1>3

LEMMA MovExitAt ==
  ASSUME NEW p \in 27 .. 28, NEW i, NEW x0, Exit(i, p, x0)
  PROVE  (p = 27 /\ i.a = SPSR /\ i.b = 2) \/ (p = 28 /\ i.a = ELR /\ i.b = 3)
BY DEF Exit, Is

\* An instruction of an entry that does not push.
LEMMA StoredSame ==
  ASSUME NEW a \in {2, 18, 19, 20, 23}, NEW s, NEW g, NEW c, NEW d, NEW m, Stored(a, s, g, c, d, m)
  PROVE  Stored(a + 1, s, g, c, d, m)
BY DEF Stored

LEMMA PopStep ==
  ASSUME Inv, Pop
  PROVE  Inv'
<1>1. PICK n : n = Len(active)
  OBVIOUS
<1>2. PICK e : e = active[n]
  OBVIOUS
<1>3. PICK i : i = Ins
  OBVIOUS
<1>4. Execute("ldp") /\ UNCHANGED mem
  BY DEF Pop
<1>5. /\ Innermost(e, n) /\ i.op = "ldp"
      /\ x \in [Reg -> Nat] /\ sp \in Nat /\ mem \in [0 .. StackWords - 1 -> Nat]
  BY <1>1, <1>2, <1>3, <1>4, Executed
<1>6. PICK a \in Nat : a = e.at
  BY <1>5 DEF Innermost
<1>7. PICK s \in Nat : s = e.from.sp
  BY <1>5 DEF Innermost
<1>8. PICK k \in Kind : k = e.kind
  BY <1>5 DEF Innermost
<1>9. /\ s >= 36 /\ s <= StackWords /\ s = StackWords - 36 * (n - 1) /\ e.ec \in Nat /\ n \in Nat
      /\ Stored(a, s, e.from.x, e.ec, n, mem)
      /\ sp = s - Pushed(Place(k, a))
      /\ Entering(k, a, s, e.from.x, e.ec, n, x)
      /\ Leaving(k, Place(k, a), e.from.x, n, x)
      /\ Decoded(k, a, i)
  BY <1>3, <1>5, <1>6, <1>7, <1>8 DEF Innermost
<1>10. k # "fatal" /\ a > 24 /\ Place(k, a) \in 25 .. 45 /\ Exit(i, Place(k, a), ResultOf(k))
  BY <1>5, <1>9, OpAt
<1>11. PICK p \in 25 .. 45 : p = Place(k, a)
  BY <1>10
<1>12. PopDone(x', sp, k, p, s, e.from.x, n)
  <2>1. x' = Write(Write(x, i.a, mem[sp]), i.b, mem[sp + 1])
    BY <1>3 DEF Pop
  <2>2. a >= 23 /\ Exit(i, p, ResultOf(k)) /\ Leaving(k, p, e.from.x, n, x) /\ sp = s - Pushed(p)
    BY <1>9, <1>10, <1>11
  <2> QED  BY <1>5, <1>9, <1>11, <2>1, <2>2, PopTop
<1>13. /\ x' \in [Reg -> Nat] /\ sp + 2 \in Nat /\ sp + 2 = s - Pushed(p + 1)
       /\ Leaving(k, p + 1, e.from.x, n, x') /\ p < 45
  BY <1>12 DEF PopDone
<1>14. Place(k, a + 1) = p + 1 /\ a + 1 \in 1 .. Last(k)
  <2>1. Place(k, a) \in 25 .. 44
    BY <1>11, <1>13
  <2> QED  BY <1>10, <1>11, <2>1, PlaceNext
<1>15. sp' \in Nat /\ sp' = s - Pushed(Place(k, a + 1)) /\ Leaving(k, Place(k, a + 1), e.from.x, n, x')
  BY <1>13, <1>14 DEF Pop
<1>16. Entering(k, a + 1, s, e.from.x, e.ec, n, x')
  BY <1>10, NotEntering
<1>17. mem' = mem /\ AgreeAbove(mem, mem, n)
  BY <1>4, StackStays
<1>18. Stored(a + 1, s, e.from.x, e.ec, n, mem')
  BY <1>9, <1>10, <1>17, StoredStill
<1> QED  BY <1>1, <1>2, <1>4, <1>5, <1>6, <1>7, <1>8, <1>13, <1>14, <1>15, <1>16, <1>17, <1>18, ExecuteStep

LEMMA MoveStep ==
  ASSUME Inv, Move
  PROVE  Inv'
<1>1. PICK n : n = Len(active)
  OBVIOUS
<1>2. PICK e : e = active[n]
  OBVIOUS
<1>3. PICK i : i = Ins
  OBVIOUS
<1>4. Execute("mov") /\ UNCHANGED <<sp, mem>>
  BY DEF Move
<1>5. /\ Innermost(e, n) /\ i.op = "mov"
      /\ x \in [Reg -> Nat] /\ sp \in Nat /\ mem \in [0 .. StackWords - 1 -> Nat]
  BY <1>1, <1>2, <1>3, <1>4, Executed
<1>6. PICK a \in Nat : a = e.at
  BY <1>5 DEF Innermost
<1>7. PICK s \in Nat : s = e.from.sp
  BY <1>5 DEF Innermost
<1>8. PICK k \in Kind : k = e.kind
  BY <1>5 DEF Innermost
<1>9. /\ s >= 36 /\ s <= StackWords /\ s = StackWords - 36 * (n - 1) /\ e.ec \in Nat /\ n \in Nat
      /\ Stored(a, s, e.from.x, e.ec, n, mem)
      /\ sp = s - Pushed(Place(k, a))
      /\ Entering(k, a, s, e.from.x, e.ec, n, x)
      /\ Leaving(k, Place(k, a), e.from.x, n, x)
      /\ Decoded(k, a, i)
  BY <1>3, <1>5, <1>6, <1>7, <1>8 DEF Innermost
<1>10. \/ a \in 18 .. 20 /\ Entry(i, a)
       \/ k # "fatal" /\ a > 24 /\ Place(k, a) \in 27 .. 28 /\ Exit(i, Place(k, a), ResultOf(k))
  BY <1>5, <1>9, OpAt
<1>11. mem' = mem /\ AgreeAbove(mem, mem, n) /\ sp' = sp /\ x' = [x EXCEPT ![i.a] = x[i.b]]
  BY <1>3, <1>4, StackStays DEF Move
<1>12. CASE a \in 18 .. 20 /\ Entry(i, a)
  <2>1. \/ a = 18 /\ i.a = 1 /\ i.b = ESR
        \/ a = 19 /\ i.a = 2 /\ i.b = ELR
        \/ a = 20 /\ i.a = 3 /\ i.b = SPSR
    BY <1>5, <1>12, MovEntryAt
  <2>2. Sets(x', x, i.a, x[i.b])
    <3>1. i.a \in Reg /\ i.b \in Reg
      BY <2>1, RegNames, Zenon
    <3> QED  BY <1>5, <1>11, <3>1, SetEffect
  <2>3. Entering(k, a + 1, s, e.from.x, e.ec, n, x')
    BY <1>5, <1>9, <1>12, <2>1, <2>2, MoveEntry
  <2>4. Place(k, a) = a /\ Place(k, a + 1) = a + 1 /\ Pushed(a + 1) = Pushed(a)
    BY <1>12, PlaceNext, PushedSame
  <2>5. sp' = s - Pushed(Place(k, a + 1)) /\ sp' \in Nat
    BY <1>5, <1>9, <1>11, <2>4
  <2>6. Leaving(k, Place(k, a + 1), e.from.x, n, x')
    BY <1>12, <2>4, NotLeaving
  <2>7. x' \in [Reg -> Nat]
    BY <2>2 DEF Sets
  <2>8. a + 1 \in 1 .. Last(k)
    BY <1>12 DEF Last
  <2>9. Stored(a + 1, s, e.from.x, e.ec, n, mem')
    <3>1. a \in {2, 18, 19, 20, 23}
      BY <1>12
    <3> QED  BY <1>9, <1>11, <3>1, StoredSame
  <2> QED  BY <1>1, <1>2, <1>4, <1>5, <1>6, <1>7, <1>8, <1>11, <2>3, <2>5, <2>6, <2>7, <2>8, <2>9,
              ExecuteStep
<1>13. CASE k # "fatal" /\ a > 24 /\ Place(k, a) \in 27 .. 28 /\ Exit(i, Place(k, a), ResultOf(k))
  <2>1. PICK p \in 27 .. 28 : p = Place(k, a)
    BY <1>13
  <2>2. (p = 27 /\ i.a = SPSR /\ i.b = 2) \/ (p = 28 /\ i.a = ELR /\ i.b = 3)
    BY <1>5, <1>13, <2>1, MovExitAt
  <2>3. Sets(x', x, i.a, x[i.b])
    <3>1. i.a \in Reg /\ i.b \in Reg
      BY <2>2, RegNames, Zenon
    <3> QED  BY <1>5, <1>11, <3>1, SetEffect
  <2>4. Leaving(k, p + 1, e.from.x, n, x')
    BY <1>5, <1>9, <2>1, <2>2, <2>3, MoveExit
  <2>5. Place(k, a + 1) = p + 1 /\ a + 1 \in 1 .. Last(k)
    <3>1. Place(k, a) \in 25 .. 44
      BY <2>1
    <3> QED  BY <1>13, <2>1, <3>1, PlaceNext
  <2>6. Pushed(p + 1) = Pushed(p)
    BY PushedSame
  <2>7. sp' = s - Pushed(Place(k, a + 1)) /\ sp' \in Nat /\ Leaving(k, Place(k, a + 1), e.from.x, n, x')
    BY <1>5, <1>9, <1>11, <2>1, <2>4, <2>5, <2>6
  <2>8. Entering(k, a + 1, s, e.from.x, e.ec, n, x')
    BY <1>13, NotEntering
  <2>9. x' \in [Reg -> Nat]
    BY <2>3 DEF Sets
  <2>10. Stored(a + 1, s, e.from.x, e.ec, n, mem')
    <3>1. a >= 23 /\ a + 1 \in Nat /\ a + 1 >= 23
      BY <1>13
    <3>2. Stored(a, s, e.from.x, e.ec, n, mem)
      BY <1>9
    <3>3. Stored(a + 1, s, e.from.x, e.ec, n, mem)
      BY <3>1, <3>2, StoredStill
    <3> QED  BY <1>11, <3>3
  <2> QED  BY <1>1, <1>2, <1>4, <1>5, <1>6, <1>7, <1>8, <1>11, <2>5, <2>7, <2>8, <2>9, <2>10,
              ExecuteStep
<1> QED  BY <1>10, <1>12, <1>13

LEMMA BranchAt ==
  ASSUME NEW k \in Kind, NEW a \in Nat, NEW i, Decoded(k, a, i), i.op = "bl"
  PROVE  a = 2
<1>1. CASE a \in 1 .. 23 /\ Entry(i, a)
  BY <1>1, EntryOp
<1>2. CASE k # "fatal" /\ a > 24 /\ Place(k, a) \in 25 .. 45 /\ Exit(i, Place(k, a), ResultOf(k))
  <2>1. PICK p : p = Place(k, a) /\ Exit(i, p, ResultOf(k))
    BY <1>2
  <2>2. i.op = "ldp" \/ i.op = "mov" \/ i.op = "eret"
    BY <2>1, Zenon DEF Exit, Is
  <2> QED  BY <2>2
<1> QED  BY <1>1, <1>2 DEF Decoded

LEMMA PassAt ==
  ASSUME NEW k \in Kind, NEW a \in Nat, NEW i, Decoded(k, a, i), i.op = "mov x0, sp"
  PROVE  a = 23
<1>1. CASE a \in 1 .. 23 /\ Entry(i, a)
  BY <1>1, EntryOp
<1>2. CASE k # "fatal" /\ a > 24 /\ Place(k, a) \in 25 .. 45 /\ Exit(i, Place(k, a), ResultOf(k))
  <2>1. PICK p : p = Place(k, a) /\ Exit(i, p, ResultOf(k))
    BY <1>2
  <2>2. i.op = "ldp" \/ i.op = "mov" \/ i.op = "eret"
    BY <2>1, Zenon DEF Exit, Is
  <2> QED  BY <2>2
<1> QED  BY <1>1, <1>2 DEF Decoded

LEMMA BranchStep ==
  ASSUME Inv, BranchLink
  PROVE  Inv'
<1>1. PICK n : n = Len(active)
  OBVIOUS
<1>2. PICK e : e = active[n]
  OBVIOUS
<1>3. PICK i : i = Ins
  OBVIOUS
<1>4. Execute("bl") /\ UNCHANGED <<sp, mem>>
  BY DEF BranchLink
<1>5. /\ Innermost(e, n) /\ i.op = "bl"
      /\ x \in [Reg -> Nat] /\ sp \in Nat /\ mem \in [0 .. StackWords - 1 -> Nat]
  BY <1>1, <1>2, <1>3, <1>4, Executed
<1>6. PICK a \in Nat : a = e.at
  BY <1>5 DEF Innermost
<1>7. PICK s \in Nat : s = e.from.sp
  BY <1>5 DEF Innermost
<1>8. PICK k \in Kind : k = e.kind
  BY <1>5 DEF Innermost
<1>9. /\ s >= 36 /\ s <= StackWords /\ s = StackWords - 36 * (n - 1) /\ e.ec \in Nat /\ n \in Nat
      /\ Stored(a, s, e.from.x, e.ec, n, mem)
      /\ sp = s - Pushed(Place(k, a))
      /\ Entering(k, a, s, e.from.x, e.ec, n, x)
      /\ Leaving(k, Place(k, a), e.from.x, n, x)
      /\ Decoded(k, a, i)
  BY <1>3, <1>5, <1>6, <1>7, <1>8 DEF Innermost
<1>10. a = 2
  <2>1. Decoded(k, a, i) /\ i.op = "bl"
    BY <1>5, <1>9, Zenon
  <2> QED  BY <2>1, BranchAt
<1>11. mem' = mem /\ AgreeAbove(mem, mem, n) /\ sp' = sp /\ x' = [x EXCEPT ![30] = 500]
  BY <1>4, StackStays DEF BranchLink
<1>12. Place(k, a) = 2 /\ Place(k, a + 1) = 3 /\ Pushed(3) = Pushed(2) /\ a + 1 = 3
  BY <1>10, PlaceNext, PushedAt
<1>13. Sets(x', x, 30, 500)
  <2>1. 30 \in Reg
    BY RegNames, Zenon
  <2>2. 500 \in Nat
    BY <1>5
  <2> QED  BY <1>5, <1>11, <2>1, <2>2, SetEffect
<1>14. Entering(k, a + 1, s, e.from.x, e.ec, n, x')
  <2>1. Entering(k, 2, s, e.from.x, e.ec, n, x)
    BY <1>9, <1>10
  <2>2. Entering(k, 3, s, e.from.x, e.ec, n, x')
    BY <1>5, <1>9, <1>13, <2>1, BranchEntry
  <2> QED  BY <1>12, <2>2
<1>15. sp' = s - Pushed(Place(k, a + 1)) /\ sp' \in Nat
  BY <1>5, <1>9, <1>11, <1>12
<1>16. Leaving(k, Place(k, a + 1), e.from.x, n, x')
  BY <1>12, NotLeaving
<1>17. x' \in [Reg -> Nat]
  BY <1>13 DEF Sets
<1>18. a + 1 \in 1 .. Last(k)
  BY <1>12 DEF Last
<1>19. Stored(a + 1, s, e.from.x, e.ec, n, mem')
  <2>1. a \in {2, 18, 19, 20, 23}
    BY <1>10
  <2> QED  BY <1>9, <1>11, <2>1, StoredSame
<1> QED  BY <1>1, <1>2, <1>4, <1>5, <1>6, <1>7, <1>8, <1>11, <1>14, <1>15, <1>16, <1>17, <1>18, <1>19,
            ExecuteStep

LEMMA PassStep ==
  ASSUME Inv, PassFrame
  PROVE  Inv'
<1>1. PICK n : n = Len(active)
  OBVIOUS
<1>2. PICK e : e = active[n]
  OBVIOUS
<1>3. PICK i : i = Ins
  OBVIOUS
<1>4. Execute("mov x0, sp") /\ UNCHANGED <<sp, mem>>
  BY DEF PassFrame
<1>5. /\ Innermost(e, n) /\ i.op = "mov x0, sp"
      /\ x \in [Reg -> Nat] /\ sp \in Nat /\ mem \in [0 .. StackWords - 1 -> Nat]
  BY <1>1, <1>2, <1>3, <1>4, Executed
<1>6. PICK a \in Nat : a = e.at
  BY <1>5 DEF Innermost
<1>7. PICK s \in Nat : s = e.from.sp
  BY <1>5 DEF Innermost
<1>8. PICK k \in Kind : k = e.kind
  BY <1>5 DEF Innermost
<1>9. /\ s >= 36 /\ s <= StackWords /\ s = StackWords - 36 * (n - 1) /\ e.ec \in Nat /\ n \in Nat
      /\ Stored(a, s, e.from.x, e.ec, n, mem)
      /\ sp = s - Pushed(Place(k, a))
      /\ Entering(k, a, s, e.from.x, e.ec, n, x)
      /\ Leaving(k, Place(k, a), e.from.x, n, x)
      /\ Decoded(k, a, i)
  BY <1>3, <1>5, <1>6, <1>7, <1>8 DEF Innermost
<1>10. a = 23
  <2>1. Decoded(k, a, i) /\ i.op = "mov x0, sp"
    BY <1>5, <1>9, Zenon
  <2> QED  BY <2>1, PassAt
<1>11. mem' = mem /\ AgreeAbove(mem, mem, n) /\ sp' = sp /\ x' = [x EXCEPT ![0] = sp]
  BY <1>4, StackStays DEF PassFrame
<1>12. Place(k, a) = 23 /\ Place(k, a + 1) = 24 /\ Pushed(24) = Pushed(23) /\ a + 1 = 24
  BY <1>10, PlaceNext, PushedAt
<1>13. Sets(x', x, 0, sp)
  <2>1. 0 \in Reg
    BY RegNames, Zenon
  <2>2. sp \in Nat
    BY <1>5
  <2> QED  BY <1>5, <1>11, <2>1, <2>2, SetEffect
<1>14. Entering(k, a + 1, s, e.from.x, e.ec, n, x')
  <2>1. Entering(k, 23, s, e.from.x, e.ec, n, x)
    BY <1>9, <1>10
  <2>2. sp = s - 36
    BY <1>9, <1>12, PushedAt
  <2>3. Sets(x', x, 0, s - 36)
    BY <1>13, <2>2
  <2>4. Entering(k, 24, s, e.from.x, e.ec, n, x')
    BY <1>5, <1>9, <2>1, <2>3, PassEntry
  <2> QED  BY <1>12, <2>4
<1>15. sp' = s - Pushed(Place(k, a + 1)) /\ sp' \in Nat
  BY <1>5, <1>9, <1>11, <1>12
<1>16. Leaving(k, Place(k, a + 1), e.from.x, n, x')
  BY <1>12, NotLeaving
<1>17. x' \in [Reg -> Nat]
  BY <1>13 DEF Sets
<1>18. a + 1 \in 1 .. Last(k)
  BY <1>12 DEF Last
<1>19. Stored(a + 1, s, e.from.x, e.ec, n, mem')
  <2>1. a \in {2, 18, 19, 20, 23}
    BY <1>10
  <2> QED  BY <1>9, <1>11, <2>1, StoredSame
<1> QED  BY <1>1, <1>2, <1>4, <1>5, <1>6, <1>7, <1>8, <1>11, <1>14, <1>15, <1>16, <1>17, <1>18, <1>19,
            ExecuteStep

LEMMA RustStep ==
  ASSUME Inv, RustHandler
  PROVE  Inv'
<1>1. PICK n : n = Len(active)
  OBVIOUS
<1>2. PICK e : e = active[n]
  OBVIOUS
<1>3. PICK i : i = Ins
  OBVIOUS
<1>4. PICK op \in {"do_irq", "rust"} : Execute(op)
  BY DEF RustHandler
<1>5. /\ Innermost(e, n) /\ i.op = op
      /\ x \in [Reg -> Nat] /\ sp \in Nat /\ mem \in [0 .. StackWords - 1 -> Nat]
  BY <1>1, <1>2, <1>3, <1>4, Executed
<1>6. PICK a \in Nat : a = e.at
  BY <1>5 DEF Innermost
<1>7. PICK s \in Nat : s = e.from.sp
  BY <1>5 DEF Innermost
<1>8. PICK k \in Kind : k = e.kind
  BY <1>5 DEF Innermost
<1>9. /\ s >= 36 /\ s <= StackWords /\ s = StackWords - 36 * (n - 1) /\ e.ec \in Nat /\ n \in Nat
      /\ Stored(a, s, e.from.x, e.ec, n, mem)
      /\ sp = s - Pushed(Place(k, a))
      /\ Entering(k, a, s, e.from.x, e.ec, n, x)
      /\ Leaving(k, Place(k, a), e.from.x, n, x)
      /\ Decoded(k, a, i)
  BY <1>3, <1>5, <1>6, <1>7, <1>8 DEF Innermost
<1>10. (k = "irq" /\ a = 24) \/ (k = "sync" /\ a = 25)
  BY <1>5, <1>9, OpAt
<1>11. mem' = mem /\ AgreeAbove(mem, mem, n) /\ sp' = sp
  BY StackStays DEF RustHandler
<1>12. Place(k, a) = 24 /\ Place(k, a + 1) = 25
  BY <1>10 DEF Place
<1>13. x' \in [Reg -> Nat]
  <2>1. ASSUME NEW r \in Reg PROVE 600 + 40 * n + r \in Nat /\ x[r] \in Nat
    <3>1. r \in Nat
      BY DEF Reg
    <3>2. 600 + 40 * n + r \in Nat
      BY <1>9, <3>1
    <3> QED  BY <1>5, <3>2
  <2>2. x' = [r \in Reg |-> IF r \in 0 .. 18 \cup {30} THEN 600 + 40 * n + r ELSE x[r]]
    BY <1>1 DEF RustHandler, Depth
  <2> QED  BY <2>1, <2>2
<1>15. a + 1 \in Nat /\ a + 1 > 24 /\ a >= 23 /\ a + 1 >= 23
  BY <1>10
<1>16. Entering(k, a + 1, s, e.from.x, e.ec, n, x')
  BY <1>15, NotEntering
<1>17. sp' = s - Pushed(Place(k, a + 1)) /\ sp' \in Nat
  BY <1>5, <1>9, <1>11, <1>12, PushedAt
<1>18. Leaving(k, Place(k, a + 1), e.from.x, n, x')
  BY <1>12, NotLeaving
<1>19. a + 1 \in 1 .. Last(k)
  BY <1>10 DEF Last
<1>20. Stored(a + 1, s, e.from.x, e.ec, n, mem')
  <2>1. Stored(a, s, e.from.x, e.ec, n, mem)
    BY <1>9
  <2>2. Stored(a + 1, s, e.from.x, e.ec, n, mem)
    BY <1>15, <2>1, StoredStill
  <2> QED  BY <1>11, <2>2
<1> QED  BY <1>1, <1>2, <1>4, <1>5, <1>6, <1>7, <1>8, <1>11, <1>13, <1>16, <1>17, <1>18, <1>19, <1>20,
            ExecuteStep

\* The innermost exception is replaced in two steps.
LEMMA ReplaceTwice ==
  ASSUME NEW s, NEW t, NEW u, NEW e, NEW e2, TopReplaced(t, s, e), TopReplaced(u, t, e2)
  PROVE  TopReplaced(u, s, e2)
BY DEF TopReplaced

LEMMA MaskNat == \A c \in Nat : MaskEC(c) \in Nat
<1> TAKE c \in Nat
<1>1. c % 2 \in Nat /\ c \div 4 \in Nat /\ c \div 16 \in Nat
  OBVIOUS
<1>2. \A n \in Nat : n % 2 \in Nat
  OBVIOUS
<1>3. (c \div 4) % 2 \in Nat /\ (c \div 16) % 2 \in Nat
  BY <1>1, <1>2
<1> QED  BY <1>1, <1>3 DEF MaskEC

\* An exception whose handler was given call.
LEMMA Called ==
  ASSUME NEW e \in Exception, NEW call \in Call, NEW e2, e2 = [e EXCEPT !.call = call]
  PROVE  /\ e2 \in Exception
         /\ e2.at = e.at /\ e2.kind = e.kind /\ e2.ec = e.ec /\ e2.from = e.from
         /\ e2.call = call /\ e2.report = e.report
<1>1. e2.call = call
  BY DEF Exception
<1>2. e2.at = e.at /\ e2.kind = e.kind /\ e2.ec = e.ec /\ e2.from = e.from /\ e2.report = e.report
  BY DEF Exception
<1>3. e2 \in Exception
  BY DEF Exception
<1> QED  BY <1>1, <1>2, <1>3

LEMMA Reported ==
  ASSUME NEW e \in Exception, NEW report \in Report, NEW e2, e2 = [e EXCEPT !.report = report]
  PROVE  /\ e2 \in Exception
         /\ e2.at = e.at /\ e2.kind = e.kind /\ e2.ec = e.ec /\ e2.from = e.from
         /\ e2.call = e.call /\ e2.report = report
<1>1. e2.report = report
  BY DEF Exception
<1>2. e2.at = e.at /\ e2.kind = e.kind /\ e2.ec = e.ec /\ e2.from = e.from /\ e2.call = e.call
  BY DEF Exception
<1>3. e2 \in Exception
  BY DEF Exception
<1> QED  BY <1>1, <1>2, <1>3

LEMMA DispatchStep ==
  ASSUME Inv, Dispatch
  PROVE  Inv'
<1>1. PICK n : n = Len(active)
  OBVIOUS
<1>2. PICK e : e = active[n]
  OBVIOUS
<1>3. PICK i : i = Ins
  OBVIOUS
<1>4. Len(active) > 0 /\ Ins.op = "dispatch"
  BY DEF Dispatch, DispatchWith, Depth
<1>5. /\ Innermost(e, n) /\ i.op = "dispatch"
      /\ x \in [Reg -> Nat] /\ sp \in Nat /\ mem \in [0 .. StackWords - 1 -> Nat]
  BY <1>1, <1>2, <1>3, <1>4, InnermostHolds DEF Inv, Types
<1>6. PICK a \in Nat : a = e.at
  BY <1>5 DEF Innermost
<1>7. PICK s \in Nat : s = e.from.sp
  BY <1>5 DEF Innermost
<1>8. PICK k \in Kind : k = e.kind
  BY <1>5 DEF Innermost
<1>9. /\ s >= 36 /\ s <= StackWords /\ s = StackWords - 36 * (n - 1) /\ e.ec \in Nat /\ n \in Nat
      /\ Stored(a, s, e.from.x, e.ec, n, mem)
      /\ sp = s - Pushed(Place(k, a))
      /\ Entering(k, a, s, e.from.x, e.ec, n, x)
      /\ Leaving(k, Place(k, a), e.from.x, n, x)
      /\ Decoded(k, a, i)
  BY <1>3, <1>5, <1>6, <1>7, <1>8 DEF Innermost
<1>10. k = "sync" /\ a = 24
  BY <1>5, <1>9, OpAt
<1>11. mem' = mem /\ AgreeAbove(mem, mem, n) /\ sp' = sp
  BY StackStays DEF Dispatch, DispatchWith
<1>12. x[0] = s - 36 /\ x[1] = 400 + e.ec
  BY <1>9, <1>10 DEF Entering
<1>13. PICK w1 : w1 = MaskEC(x[1] - 400)
  OBVIOUS
<1>14. w1 \in Nat
  <2>1. x[1] - 400 = e.ec
    BY <1>9, <1>12
  <2> QED  BY <1>9, <1>13, <2>1, MaskNat
<1>15. mem[x[0] + 13] = e.from.x[8] /\ mem[x[0] + 13] \in Nat
  <2>1. x[0] + 13 = s - 31 + 8 /\ x[0] + 13 \in 0 .. StackWords - 1
    BY <1>9, <1>12, FrameAssumption
  <2>2. Stored(24, s, e.from.x, e.ec, n, mem)
    BY <1>9, <1>10
  <2>3. \A r \in 1 .. 28 : mem[s - 31 + r] = e.from.x[r]
    BY <2>2, FrameWords
  <2>4. mem[s - 31 + 8] = e.from.x[8]
    BY <2>3
  <2> QED  BY <1>5, <2>1, <2>4
<1>16. PICK call : call = IF w1 # 0 THEN [fn |-> "do_sync", arg |-> mem[x[0] + 13]]
                          ELSE [fn |-> "unimplemented_sync", arg |-> w1]
  OBVIOUS
<1>17. call \in Call /\ call.arg \in Nat /\ (call.fn = "do_sync" => call.arg = e.from.x[8])
  <2>1. CASE w1 # 0
    <3>1. call = [fn |-> "do_sync", arg |-> mem[x[0] + 13]]
      BY <1>16, <2>1
    <3>2. call.arg = mem[x[0] + 13]
      BY <3>1
    <3>3. call \in Call
      BY <1>15, <3>1 DEF Call
    <3> QED  BY <1>15, <3>2, <3>3
  <2>2. CASE w1 = 0
    <3>1. call = [fn |-> "unimplemented_sync", arg |-> w1]
      BY <1>16, <2>2
    <3>2. call.arg = w1 /\ call.fn # "do_sync"
      BY <3>1
    <3>3. call \in Call
      BY <1>14, <3>1 DEF Call
    <3> QED  BY <1>14, <3>2, <3>3
  <2> QED  BY <2>1, <2>2
<1>18. /\ active' = [active EXCEPT ![Depth].at = @ + 1, ![Depth].call = call]
       /\ x' = [x EXCEPT ![0] = call.arg, ![1] = w1, ![2] = 21]
  BY <1>13, <1>16 DEF Dispatch, DispatchWith
<1>19. x' \in [Reg -> Nat]
  <2>1. 0 \in Reg /\ 1 \in Reg /\ 2 \in Reg
    BY RegNames, Zenon
  <2> QED  BY <1>5, <1>14, <1>17, <1>18, <2>1
<1>20. PICK e1 : e1 = [e EXCEPT !.at = @ + 1]
  OBVIOUS
<1>21. PICK e2 : e2 = [e1 EXCEPT !.call = call]
  OBVIOUS
<1>22. /\ e1 \in Exception
       /\ e1.at = e.at + 1 /\ e1.kind = e.kind /\ e1.ec = e.ec /\ e1.from = e.from
       /\ e1.call = e.call /\ e1.report = e.report
  <2>1. e \in Exception
    BY <1>5 DEF Innermost
  <2> QED  BY <1>20, <2>1, Advanced
<1>23. /\ e2 \in Exception
       /\ e2.at = e1.at /\ e2.kind = e1.kind /\ e2.ec = e1.ec /\ e2.from = e1.from
       /\ e2.report = e1.report /\ e2.call = call
  BY <1>17, <1>21, <1>22, Called
<1>24. PICK t : t = [active EXCEPT ![n] = e1]
  OBVIOUS
<1>25. active \in Seq(Exception) /\ n \in Nat /\ n > 0
  BY <1>5 DEF Inv, Types, Innermost
<1>26. TopReplaced(t, active, e1)
  BY <1>1, <1>22, <1>24, <1>25, ReplaceTop
<1>27. t \in Seq(Exception) /\ Len(t) = n /\ t[n] = e1
  BY <1>1, <1>26 DEF TopReplaced
<1>28. active' = [t EXCEPT ![n] = e2]
  <2>1. active' = [[active EXCEPT ![n] = [active[n] EXCEPT !.at = @ + 1]] EXCEPT ![n].call = call]
    BY <1>1, <1>18 DEF Depth
  <2>2. active' = [t EXCEPT ![n].call = call]
    BY <1>2, <1>20, <1>24, <2>1
  <2> QED  BY <1>21, <1>27, <2>2
<1>29. TopReplaced(active', active, e2)
  <2>1. TopReplaced(active', t, e2)
    BY <1>23, <1>25, <1>27, <1>28, ReplaceTop
  <2> QED  BY <1>26, <2>1, ReplaceTwice
<1>30. Told(e2)
  <2>1. Told(e)
    BY <1>5 DEF Innermost
  <2> QED  BY <1>17, <1>22, <1>23, <2>1 DEF Told
<1>31. e2.at = e.at + 1 /\ e2.kind = e.kind /\ e2.ec = e.ec /\ e2.from = e.from
  BY <1>22, <1>23
<1>32. Place(k, a) = 24 /\ Place(k, a + 1) = 24 /\ a + 1 = 25
  BY <1>10 DEF Place
<1>33. Entering(k, a + 1, s, e.from.x, e.ec, n, x')
  <2>1. a + 1 \in Nat /\ a + 1 > 24
    BY <1>32
  <2> QED  BY <2>1, NotEntering
<1>34. sp' = s - Pushed(Place(k, a + 1)) /\ sp' \in Nat
  BY <1>5, <1>9, <1>11, <1>32, PushedAt
<1>35. Leaving(k, Place(k, a + 1), e.from.x, n, x')
  BY <1>32, NotLeaving
<1>36. a + 1 \in 1 .. Last(k)
  BY <1>10 DEF Last
<1>37. Stored(a + 1, s, e.from.x, e.ec, n, mem')
  <2>1. Stored(a, s, e.from.x, e.ec, n, mem)
    BY <1>9
  <2>2. a >= 23 /\ a + 1 \in Nat /\ a + 1 >= 23
    BY <1>10
  <2>3. Stored(a + 1, s, e.from.x, e.ec, n, mem)
    BY <2>1, <2>2, StoredStill
  <2> QED  BY <1>11, <2>3
<1> QED  BY <1>1, <1>5, <1>6, <1>7, <1>8, <1>11, <1>19, <1>23, <1>29, <1>30, <1>31, <1>33, <1>34, <1>35,
            <1>36, <1>37, ReplaceStep

\* The field of struct Regs that has the name of register r.
FieldOf(r) == CHOOSE k \in DOMAIN Regs : Regs[k] = r

LEMMA FieldsOfRegs ==
  /\ DOMAIN Regs = 1 .. 35
  /\ Regs[1] = SPSR /\ Regs[2] = ELR /\ Regs[3] = ESR /\ Regs[4] = XZR
  /\ \A k \in 5 .. 35 : Regs[k] = k - 5
<1>1. PICK t : t = <<SPSR, ELR, ESR, XZR>>
  OBVIOUS
<1>2. PICK u : u = [k \in 1 .. 31 |-> k - 1]
  OBVIOUS
<1>3. t \in Seq(Int) /\ Len(t) = 4 /\ t[1] = SPSR /\ t[2] = ELR /\ t[3] = ESR /\ t[4] = XZR
  <2>1. SPSR \in Int /\ ELR \in Int /\ ESR \in Int /\ XZR \in Int
    BY DEF SPSR, ELR, ESR, XZR
  <2> QED  BY <1>1, <2>1
<1>4. u \in Seq(Int) /\ Len(u) = 31 /\ \A k \in 1 .. 31 : u[k] = k - 1
  <2>1. u \in [1 .. 31 -> Int] /\ DOMAIN u = 1 .. 31
    BY <1>2
  <2>2. \A n \in Nat : \A f \in [1 .. n -> Int] : f \in Seq(Int)
    BY SeqDef
  <2>3. u \in Seq(Int)
    BY <2>1, <2>2
  <2>4. Len(u) = 31
    BY <2>1, <2>3, LenProperties
  <2>5. \A k \in 1 .. 31 : u[k] = k - 1
    BY <1>2
  <2> QED  BY <2>3, <2>4, <2>5
<1>5. Regs = t \o u
  BY <1>1, <1>2 DEF Regs
<1>6. /\ Regs \in Seq(Int) /\ Len(Regs) = Len(t) + Len(u)
      /\ \A i \in 1 .. Len(t) + Len(u) : Regs[i] = IF i <= Len(t) THEN t[i] ELSE u[i - Len(t)]
  BY <1>3, <1>4, <1>5, ConcatProperties
<1>7. /\ Len(Regs) = 35
      /\ \A i \in 1 .. 35 : Regs[i] = IF i <= 4 THEN t[i] ELSE u[i - 4]
  BY <1>3, <1>4, <1>6
<1>8. DOMAIN Regs = 1 .. 35
  BY <1>6, <1>7, LenProperties
<1>9. Regs[1] = SPSR /\ Regs[2] = ELR /\ Regs[3] = ESR /\ Regs[4] = XZR
  BY <1>3, <1>7
<1>10. ASSUME NEW k \in 5 .. 35 PROVE Regs[k] = k - 5
  <2>1. Regs[k] = u[k - 4] /\ k - 4 \in 1 .. 31
    BY <1>7
  <2>2. u[k - 4] = (k - 4) - 1
    BY <1>4, <2>1
  <2> QED  BY <2>1, <2>2
<1> QED  BY <1>8, <1>9, <1>10

LEMMA FieldOfReg ==
  /\ \A r \in Reg \ {XZR} : FieldOf(r) \in 1 .. 35
  /\ FieldOf(ESR) = 3 /\ FieldOf(0) = 5
<1>1. ASSUME NEW r \in Reg \ {XZR} PROVE FieldOf(r) \in 1 .. 35
  <2>1. \E k \in DOMAIN Regs : Regs[k] = r
    <3>1. CASE r \in 0 .. 30
      <4>1. r + 5 \in 5 .. 35 /\ r + 5 \in 1 .. 35 /\ (r + 5) - 5 = r
        BY <3>1
      <4> QED  BY <4>1, FieldsOfRegs
    <3>2. CASE ~(r \in 0 .. 30)
      <4>1. r = ELR \/ r = SPSR \/ r = ESR
        BY <3>2 DEF Reg, XZR, ELR, SPSR, ESR
      <4>2. 1 \in DOMAIN Regs /\ 2 \in DOMAIN Regs /\ 3 \in DOMAIN Regs
        BY FieldsOfRegs
      <4> QED  BY <4>1, <4>2, FieldsOfRegs
    <3> QED  BY <3>1, <3>2
  <2>2. FieldOf(r) \in DOMAIN Regs
    BY <2>1 DEF FieldOf
  <2> QED  BY <2>2, FieldsOfRegs
<1>2. ASSUME NEW k \in DOMAIN Regs PROVE (Regs[k] = ESR <=> k = 3) /\ (Regs[k] = 0 <=> k = 5)
  <2>1. k \in 1 .. 35
    BY FieldsOfRegs
  <2>2. Regs[k] = IF k = 1 THEN 33 ELSE IF k = 2 THEN 32 ELSE IF k = 3 THEN 34 ELSE IF k = 4 THEN 31
                  ELSE k - 5
    <3>1. k = 1 \/ k = 2 \/ k = 3 \/ k = 4 \/ k \in 5 .. 35
      BY <2>1
    <3>2. Regs[1] = 33 /\ Regs[2] = 32 /\ Regs[3] = 34 /\ Regs[4] = 31
      BY FieldsOfRegs DEF SPSR, ELR, ESR, XZR
    <3>3. k \in 5 .. 35 => Regs[k] = k - 5
      BY FieldsOfRegs
    <3> QED  BY <3>1, <3>2, <3>3
  <2> QED  BY <2>1, <2>2 DEF ESR
<1>3. 3 \in DOMAIN Regs /\ 5 \in DOMAIN Regs
  BY FieldsOfRegs
<1>4. FieldOf(ESR) = 3
  BY <1>2, <1>3 DEF FieldOf
<1>5. FieldOf(0) = 5
  BY <1>2, <1>3 DEF FieldOf
<1> QED  BY <1>1, <1>4, <1>5

LEMMA PanicStep ==
  ASSUME Inv, PanicHandler
  PROVE  Inv'
<1>1. PICK n : n = Len(active)
  OBVIOUS
<1>2. PICK e : e = active[n]
  OBVIOUS
<1>3. PICK i : i = Ins
  OBVIOUS
<1>4. Len(active) > 0 /\ Ins.op = "panic"
  BY DEF PanicHandler, Depth
<1>5. /\ Innermost(e, n) /\ i.op = "panic"
      /\ x \in [Reg -> Nat] /\ sp \in Nat /\ mem \in [0 .. StackWords - 1 -> Nat]
  BY <1>1, <1>2, <1>3, <1>4, InnermostHolds DEF Inv, Types
<1>6. PICK a \in Nat : a = e.at
  BY <1>5 DEF Innermost
<1>7. PICK s \in Nat : s = e.from.sp
  BY <1>5 DEF Innermost
<1>8. PICK k \in Kind : k = e.kind
  BY <1>5 DEF Innermost
<1>9. /\ s >= 36 /\ s <= StackWords /\ s = StackWords - 36 * (n - 1) /\ e.ec \in Nat /\ n \in Nat
      /\ Stored(a, s, e.from.x, e.ec, n, mem)
      /\ sp = s - Pushed(Place(k, a))
      /\ Entering(k, a, s, e.from.x, e.ec, n, x)
      /\ Leaving(k, Place(k, a), e.from.x, n, x)
      /\ Decoded(k, a, i)
  BY <1>3, <1>5, <1>6, <1>7, <1>8 DEF Innermost
<1>10. k = "fatal" /\ a = 24
  BY <1>5, <1>9, OpAt
<1>11. mem' = mem /\ AgreeAbove(mem, mem, n) /\ sp' = sp /\ x' = x
  BY StackStays DEF PanicHandler
<1>12. x[0] = s - 36
  BY <1>9, <1>10 DEF Entering
<1>13. PICK regs : regs = as_array(x[0])
  OBVIOUS
<1>14. regs = [r \in Reg \ {XZR} |-> mem[x[0] - 1 + FieldOf(r)]]
  BY <1>13 DEF as_array, FieldOf
<1>15. regs \in [Reg \ {XZR} -> Nat]
  <2>1. ASSUME NEW r \in Reg \ {XZR} PROVE mem[x[0] - 1 + FieldOf(r)] \in Nat
    <3>1. FieldOf(r) \in 1 .. 35
      BY FieldOfReg
    <3>2. x[0] - 1 + FieldOf(r) \in 0 .. StackWords - 1
      BY <1>9, <1>12, <3>1, FrameAssumption
    <3> QED  BY <1>5, <3>2
  <2> QED  BY <1>14, <2>1
<1>16. regs[ESR] = 400 + e.ec /\ regs[0] = e.from.x[0]
  <2>1. ESR \in Reg \ {XZR} /\ 0 \in Reg \ {XZR}
    BY DEF Reg, ESR, XZR
  <2>2. regs[ESR] = mem[x[0] - 1 + 3] /\ regs[0] = mem[x[0] - 1 + 5]
    BY <1>14, <2>1, FieldOfReg
  <2>3. x[0] - 1 + 3 = s - 34 /\ x[0] - 1 + 5 = s - 32
    BY <1>12
  <2>4. mem[s - 34] = 400 + e.ec /\ mem[s - 32] = e.from.x[0]
    <3>1. Stored(24, s, e.from.x, e.ec, n, mem)
      BY <1>9, <1>10
    <3> QED  BY <3>1, FrameWords
  <2> QED  BY <2>2, <2>3, <2>4
<1>17. PICK report : report = [instr |-> regs[ELR], regs |-> regs]
  OBVIOUS
<1>18. report \in Report /\ report.regs = regs
  <2>1. regs[ELR] \in Nat
    <3>1. ELR \in Reg \ {XZR}
      BY DEF Reg, ELR, XZR
    <3> QED  BY <1>15, <3>1
  <2>2. report \in [instr : Nat, regs : [Reg \ {XZR} -> Nat]]
    BY <1>15, <1>17, <2>1
  <2>3. report.regs = regs
    BY <1>17
  <2> QED  BY <2>2, <2>3 DEF Report
<1>19. active' = [active EXCEPT ![Depth].at = @ + 1, ![Depth].report = report] /\ x' \in [Reg -> Nat]
  BY <1>5, <1>11, <1>13, <1>17 DEF PanicHandler, FatalReport
<1>20. PICK e1 : e1 = [e EXCEPT !.at = @ + 1]
  OBVIOUS
<1>21. PICK e2 : e2 = [e1 EXCEPT !.report = report]
  OBVIOUS
<1>22. /\ e1 \in Exception
       /\ e1.at = e.at + 1 /\ e1.kind = e.kind /\ e1.ec = e.ec /\ e1.from = e.from
       /\ e1.call = e.call /\ e1.report = e.report
  <2>1. e \in Exception
    BY <1>5 DEF Innermost
  <2> QED  BY <1>20, <2>1, Advanced
<1>23. /\ e2 \in Exception
       /\ e2.at = e1.at /\ e2.kind = e1.kind /\ e2.ec = e1.ec /\ e2.from = e1.from
       /\ e2.call = e1.call /\ e2.report = report
  BY <1>18, <1>21, <1>22, Reported
<1>24. PICK t : t = [active EXCEPT ![n] = e1]
  OBVIOUS
<1>25. active \in Seq(Exception) /\ n \in Nat /\ n > 0
  BY <1>5 DEF Inv, Types, Innermost
<1>26. TopReplaced(t, active, e1)
  BY <1>1, <1>22, <1>24, <1>25, ReplaceTop
<1>27. t \in Seq(Exception) /\ Len(t) = n /\ t[n] = e1
  BY <1>1, <1>26 DEF TopReplaced
<1>28. active' = [t EXCEPT ![n] = e2]
  <2>1. active' = [[active EXCEPT ![n] = [active[n] EXCEPT !.at = @ + 1]] EXCEPT ![n].report = report]
    BY <1>1, <1>19 DEF Depth
  <2>2. active' = [t EXCEPT ![n].report = report]
    BY <1>2, <1>20, <1>24, <2>1
  <2> QED  BY <1>21, <1>27, <2>2
<1>29. TopReplaced(active', active, e2)
  <2>1. TopReplaced(active', t, e2)
    BY <1>23, <1>25, <1>27, <1>28, ReplaceTop
  <2> QED  BY <1>26, <2>1, ReplaceTwice
<1>30. Told(e2)
  <2>1. Told(e)
    BY <1>5 DEF Innermost
  <2> QED  BY <1>16, <1>18, <1>22, <1>23, <2>1 DEF Told
<1>31. e2.at = e.at + 1 /\ e2.kind = e.kind /\ e2.ec = e.ec /\ e2.from = e.from
  BY <1>22, <1>23
<1>32. Place(k, a) = 24 /\ Place(k, a + 1) = 25 /\ a + 1 = 25
  BY <1>10 DEF Place
<1>33. Entering(k, a + 1, s, e.from.x, e.ec, n, x')
  <2>1. a + 1 \in Nat /\ a + 1 > 24
    BY <1>32
  <2> QED  BY <2>1, NotEntering
<1>34. sp' = s - Pushed(Place(k, a + 1)) /\ sp' \in Nat
  BY <1>5, <1>9, <1>11, <1>32, PushedAt
<1>35. Leaving(k, Place(k, a + 1), e.from.x, n, x')
  BY <1>32, NotLeaving
<1>36. a + 1 \in 1 .. Last(k)
  BY <1>10 DEF Last
<1>37. Stored(a + 1, s, e.from.x, e.ec, n, mem')
  <2>1. Stored(a, s, e.from.x, e.ec, n, mem)
    BY <1>9
  <2>2. a >= 23 /\ a + 1 \in Nat /\ a + 1 >= 23
    BY <1>10
  <2>3. Stored(a + 1, s, e.from.x, e.ec, n, mem)
    BY <2>1, <2>2, StoredStill
  <2> QED  BY <1>11, <2>3
<1> QED  BY <1>1, <1>5, <1>6, <1>7, <1>8, <1>11, <1>19, <1>23, <1>29, <1>30, <1>31, <1>33, <1>34, <1>35,
            <1>36, <1>37, ReplaceStep

\* The registers and the stack pointer do not matter to the entry and exit of a handler
\* that was interrupted in its Rust code, once the stack pointer is below its frame.
LEMMA WaitingTop ==
  ASSUME NEW e \in Exception, Waits(e), NEW d, NEW f, NEW w, w = e.from.sp - 36
  PROVE  TopHolds(e, d, f, w)
<1>1. PICK k : k = e.kind
  OBVIOUS
<1>2. PICK a : a = e.at
  OBVIOUS
<1>3. (k = "irq" /\ a = 24) \/ (k = "sync" /\ a = 25)
  BY <1>1, <1>2 DEF Waits
<1>4. Place(k, a) = 24 /\ a \in 1 .. Last(k) /\ a \in Nat
  BY <1>3 DEF Place, Last
<1>5. Entering(k, a, e.from.sp, e.from.x, e.ec, d, f)
  <2>1. a > 24 \/ (a = 24 /\ k = "irq")
    BY <1>3
  <2> QED  BY <1>4, <2>1, NotEntering
<1>6. Leaving(k, Place(k, a), e.from.x, d, f)
  BY <1>4, NotLeaving
<1>7. w = e.from.sp - Pushed(Place(k, a))
  BY <1>4, PushedAt
<1> QED  BY <1>1, <1>2, <1>4, <1>5, <1>6, <1>7 DEF TopHolds

LEMMA EretStep ==
  ASSUME Inv, Eret
  PROVE  Inv'
<1>1. PICK n : n = Len(active)
  OBVIOUS
<1>2. PICK e : e = active[n]
  OBVIOUS
<1>3. Len(active) > 0 /\ Ins.op = "eret"
  BY DEF Eret, Depth
<1>4. Innermost(e, n) /\ active \in Seq(Exception)
  BY <1>1, <1>2, <1>3, InnermostHolds DEF Inv, Types
<1>5. /\ n \in Nat /\ n > 0 /\ n <= MaxDepth /\ e.from.sp \in Nat
      /\ e.from.sp = StackWords - 36 * (n - 1) /\ e.kind \in Kind /\ e.at \in Nat
      /\ sp = e.from.sp - Pushed(Place(e.kind, e.at)) /\ Decoded(e.kind, e.at, Ins)
  BY <1>4 DEF Innermost
<1>6. sp = StackWords - 36 * (n - 1)
  <2>1. Place(e.kind, e.at) = 45
    BY <1>3, <1>5, OpAt
  <2>2. Pushed(45) = 0
    BY PushedAt
  <2> QED  BY <1>5, <2>1, <2>2
<1>7. PICK t : t = SubSeq(active, 1, n - 1)
  OBVIOUS
<1>8. t \in Seq(Exception) /\ Len(t) = n - 1 /\ \A d \in 1 .. n - 1 : t[d] = active[d]
  <2>1. \A d \in 1 .. n - 1 : active[d] \in Exception
    <3>1. \A d \in 1 .. n - 1 : d \in 1 .. Len(active)
      BY <1>1, <1>5
    <3> QED  BY <1>4, <3>1, ElementOfSeq
  <2>2. n - 1 \in Int /\ 1 \in Int
    BY <1>5
  <2>3. /\ t \in Seq(Exception)
        /\ Len(t) = IF 1 <= n - 1 THEN (n - 1) - 1 + 1 ELSE 0
        /\ \A i \in 1 .. (n - 1) - 1 + 1 : t[i] = active[1 + i - 1]
    BY <1>7, <2>1, <2>2, SubSeqProperties
  <2>4. Len(t) = n - 1
    BY <1>5, <2>3
  <2>5. ASSUME NEW d \in 1 .. n - 1 PROVE t[d] = active[d]
    <3>1. d \in 1 .. (n - 1) - 1 + 1 /\ 1 + d - 1 = d
      BY <1>5
    <3> QED  BY <2>3, <3>1
  <2> QED  BY <2>3, <2>4, <2>5
<1>9. active' = t /\ x' = x /\ sp' = sp /\ mem' = mem
  BY <1>1, <1>7 DEF Eret, Depth
<1>10. ASSUME NEW d \in 1 .. n - 1 PROVE FrameHolds(t[d], d, mem) /\ Waits(t[d])
  <2>1. FrameHolds(active[d], d, mem) /\ Waits(active[d])
    <3>1. d \in 1 .. Len(active) /\ d \in 1 .. Len(active) - 1
      BY <1>1, <1>5
    <3> QED  BY <3>1 DEF Inv, Frames, FramesOf
  <2> QED  BY <1>8, <2>1
<1>11. FramesOf(t, x, sp, mem)
  <2>1. \A d \in 1 .. Len(t) : FrameHolds(t[d], d, mem)
    BY <1>8, <1>10
  <2>2. \A d \in 1 .. Len(t) - 1 : Waits(t[d])
    <3>1. \A d \in 1 .. Len(t) - 1 : d \in 1 .. n - 1
      BY <1>5, <1>8
    <3> QED  BY <1>10, <3>1
  <2>3. Len(t) = 0 => sp = StackWords
    BY <1>5, <1>6, <1>8, FrameAssumption
  <2>4. ASSUME Len(t) > 0 PROVE TopHolds(t[Len(t)], Len(t), x, sp)
    <3>1. n - 1 \in 1 .. n - 1
      BY <1>5, <1>8, <2>4
    <3>2. FrameHolds(t[n - 1], n - 1, mem) /\ Waits(t[n - 1])
      BY <1>10, <3>1
    <3>3. t[n - 1] \in Exception
      BY <1>8, <3>1, ElementOfSeq
    <3>4. sp = t[n - 1].from.sp - 36
      <4>1. t[n - 1].from.sp = StackWords - 36 * ((n - 1) - 1)
        BY <3>2 DEF FrameHolds
      <4> QED  BY <1>5, <1>6, <4>1, FrameAssumption
    <3>5. TopHolds(t[n - 1], n - 1, x, sp)
      BY <3>2, <3>3, <3>4, WaitingTop
    <3> QED  BY <1>8, <3>5
  <2> QED  BY <2>1, <2>2, <2>3, <2>4 DEF FramesOf
<1>12. Len(t) <= MaxDepth
  BY <1>5, <1>8, FrameAssumption
<1>13. Types'
  BY <1>8, <1>9, <1>12 DEF Inv, Types
<1> QED  BY <1>9, <1>11, <1>13 DEF Inv, Frames

\* Exception e of the given kind and class is taken at depth n, with registers f, stack
\* pointer w and memory m; f2 are the registers its handler begins with.
Taken(e, n, kind, c, f, w, f2) ==
  /\ e = [kind |-> kind, at |-> 1, ec |-> c, call |-> NoCall, report |-> <<>>,
          from |-> [x |-> f, sp |-> w]]
  /\ f2 = [f EXCEPT ![ELR] = 200 + n, ![SPSR] = 300 + n, ![ESR] = 400 + c]

Begun(e, n, kind, c, f, w, m, f2) ==
  /\ e \in Exception /\ f2 \in [Reg -> Nat]
  /\ FrameHolds(e, n + 1, m) /\ TopHolds(e, n + 1, f2, w)

LEMMA NewTop ==
  ASSUME NEW n \in Nat, NEW f \in [Reg -> Nat], NEW c \in Nat, NEW kind \in Kind, NEW w \in Nat,
         w = StackWords - 36 * n, NEW m,
         NEW f2, NEW e, Taken(e, n, kind, c, f, w, f2)
  PROVE  Begun(e, n, kind, c, f, w, m, f2)
<1>1. /\ e.kind = kind /\ e.at = 1 /\ e.ec = c /\ e.call = NoCall /\ e.report = <<>>
      /\ e.from.x = f /\ e.from.sp = w
  BY DEF Taken
<1>2. e \in Exception
  <2>1. NoCall \in Call
    BY DEF NoCall, Call
  <2>2. <<>> \in Report
    BY DEF Report
  <2> QED  BY <2>1, <2>2 DEF Exception, Taken
<1>3. ELR \in Reg /\ SPSR \in Reg /\ ESR \in Reg /\ ELR # SPSR /\ ELR # ESR /\ SPSR # ESR
  BY DEF Reg, ELR, SPSR, ESR
<1>4. /\ f2 \in [Reg -> Nat] /\ f2[ELR] = 200 + n /\ f2[SPSR] = 300 + n /\ f2[ESR] = 400 + c
      /\ \A r \in Reg : r # ELR /\ r # SPSR /\ r # ESR => f2[r] = f[r]
  BY <1>3 DEF Taken
<1>5. Stored(1, w, f, c, n + 1, m)
  BY DEF Stored
<1>6. Told(e)
  <2>1. NoCall.fn # "do_sync"
    BY DEF NoCall
  <2> QED  BY <1>1, <2>1 DEF Told
<1>7. FrameHolds(e, n + 1, m)
  <2>1. (n + 1) - 1 = n
    OBVIOUS
  <2> QED  BY <1>1, <1>5, <1>6, <2>1 DEF FrameHolds
<1>8. Entering(kind, 1, w, f, c, n + 1, f2)
  <2>1. ASSUME NEW r \in 0 .. 30 PROVE f2[r] = f[r]
    BY <1>4, GprInReg
  <2>2. f2[ELR] = 199 + (n + 1) /\ f2[SPSR] = 299 + (n + 1) /\ f2[ESR] = 400 + c
    BY <1>4
  <2>3. ASSUME NEW r \in 0 .. 28 PROVE f2[r] = f[r]
    <3>1. r \in 0 .. 30
      OBVIOUS
    <3> QED  BY <2>1, <3>1
  <2>4. f2[29] = f[29] /\ f2[30] = f[30]
    BY <2>1
  <2> QED  BY <2>2, <2>3, <2>4 DEF Entering
<1>9. Place(kind, 1) = 1 /\ 1 \in 1 .. Last(kind)
  BY DEF Place, Last
<1>10. Leaving(kind, Place(kind, 1), f, n + 1, f2)
  BY <1>9, NotLeaving
<1>11. w = w - Pushed(Place(kind, 1))
  BY <1>9, PushedAt
<1> QED  BY <1>1, <1>2, <1>4, <1>7, <1>8, <1>9, <1>10, <1>11 DEF TopHolds, Begun

LEMMA TakeStep ==
  ASSUME Inv, NEW kind \in Kind, NEW ec \in Nat, TakeException(kind, ec)
  PROVE  Inv'
<1>1. PICK n : n = Len(active)
  OBVIOUS
<1>2. /\ active \in Seq(Exception) /\ n \in Nat /\ n < MaxDepth
      /\ x \in [Reg -> Nat] /\ sp \in Nat /\ mem \in [0 .. StackWords - 1 -> Nat]
  BY <1>1, LenProperties DEF Inv, Types, TakeException, Depth
<1>3. /\ FramesOf(active, x, sp, mem)
      /\ \A d \in 1 .. n : FrameHolds(active[d], d, mem)
      /\ \A d \in 1 .. n - 1 : Waits(active[d])
  BY <1>1 DEF Inv, Frames, FramesOf
<1>4. sp = StackWords - 36 * n /\ (n > 0 => Waits(active[n]))
  <2>1. CASE n = 0
    <3>1. sp = StackWords
      BY <1>1, <1>3, <2>1 DEF FramesOf
    <3> QED  BY <2>1, <3>1, FrameAssumption
  <2>2. CASE n > 0
    <3>1. PICK e : e = active[n]
      OBVIOUS
    <3>2. Innermost(e, n) /\ Ins.op \in {"do_irq", "rust"}
      BY <1>1, <2>2, <3>1, InnermostHolds DEF TakeException, Depth, Ins
    <3>3. /\ e.from.sp = StackWords - 36 * (n - 1) /\ e.kind \in Kind /\ e.at \in Nat
          /\ sp = e.from.sp - Pushed(Place(e.kind, e.at)) /\ Decoded(e.kind, e.at, Ins)
      BY <3>2 DEF Innermost
    <3>4. (e.kind = "irq" /\ e.at = 24) \/ (e.kind = "sync" /\ e.at = 25)
      BY <3>2, <3>3, OpAt
    <3>5. Place(e.kind, e.at) = 24
      BY <3>4 DEF Place
    <3>6. Pushed(24) = 36
      BY PushedAt
    <3>7. sp = StackWords - 36 * n
      BY <1>2, <3>3, <3>5, <3>6, FrameAssumption
    <3> QED  BY <3>1, <3>4, <3>7 DEF Waits
  <2> QED  BY <1>2, <2>1, <2>2
<1>5. PICK e2 : e2 = [kind |-> kind, at |-> 1, ec |-> ec, call |-> NoCall, report |-> <<>>,
                      from |-> [x |-> x, sp |-> sp]]
  OBVIOUS
<1>6. /\ x' = [x EXCEPT ![ELR] = 200 + n, ![SPSR] = 300 + n, ![ESR] = 400 + ec]
      /\ active' = Append(active, e2) /\ sp' = sp /\ mem' = mem
  BY <1>1, <1>5 DEF TakeException, Depth
<1>7. e2 \in Exception /\ x' \in [Reg -> Nat] /\ FrameHolds(e2, n + 1, mem) /\ TopHolds(e2, n + 1, x', sp)
  <2>1. Begun(e2, n, kind, ec, x, sp, mem, x')
    <3>1. Taken(e2, n, kind, ec, x, sp, x')
      BY <1>5, <1>6 DEF Taken
    <3> QED  BY <1>2, <1>4, <3>1, NewTop
  <2> QED  BY <2>1 DEF Begun
<1>8. PICK t : t = Append(active, e2)
  OBVIOUS
<1>9. t \in Seq(Exception) /\ Len(t) = n + 1
  BY <1>1, <1>2, <1>7, <1>8, AppendProperties
<1>10. t[n + 1] = e2 /\ \A d \in 1 .. n : t[d] = active[d]
  BY <1>1, <1>2, <1>7, <1>8, AppendProperties
<1>11. ASSUME NEW d \in 1 .. n PROVE FrameHolds(t[d], d, mem) /\ Waits(t[d])
  <2>1. d = n \/ d \in 1 .. n - 1
    BY <1>2
  <2>2. Waits(active[d])
    BY <1>2, <1>3, <1>4, <2>1
  <2> QED  BY <1>3, <1>10, <2>2
<1>12. FramesOf(t, x', sp, mem)
  <2>1. ASSUME NEW d \in 1 .. Len(t) PROVE FrameHolds(t[d], d, mem)
    <3>1. d = n + 1 \/ d \in 1 .. n
      BY <1>2, <1>9
    <3> QED  BY <1>7, <1>10, <1>11, <3>1
  <2>2. Len(t) - 1 = n
    BY <1>2, <1>9
  <2>3. \A d \in 1 .. Len(t) - 1 : Waits(t[d])
    BY <1>11, <2>2
  <2>4. Len(t) > 0 /\ Len(t) # 0
    BY <1>2, <1>9
  <2>5. TopHolds(t[Len(t)], Len(t), x', sp)
    BY <1>7, <1>9, <1>10
  <2> QED  BY <2>1, <2>3, <2>4, <2>5 DEF FramesOf
<1>13. Len(t) <= MaxDepth
  BY <1>2, <1>9, FrameAssumption
<1>14. active' = t
  BY <1>6, <1>8
<1>15. Types'
  BY <1>2, <1>6, <1>7, <1>9, <1>13, <1>14 DEF Types
<1> QED  BY <1>6, <1>12, <1>14, <1>15 DEF Inv, Frames

LEMMA InitInv == Init => Inv
<1> SUFFICES ASSUME Init PROVE Inv
  OBVIOUS
<1>1. active = <<>> /\ active \in Seq(Exception) /\ Len(active) = 0
  BY DEF Init
<1>2. x \in [Reg -> Nat]
  <2>1. \A r \in Reg : (IF r \in GPR THEN r + 1 ELSE 0) \in Nat
    BY DEF Reg
  <2> QED  BY <2>1 DEF Init
<1>3. sp \in Nat /\ sp = StackWords
  BY FrameAssumption DEF Init
<1>4. mem \in [0 .. StackWords - 1 -> Nat]
  BY DEF Init
<1>5. Types
  BY <1>1, <1>2, <1>3, <1>4, FrameAssumption DEF Types
<1>6. FramesOf(active, x, sp, mem)
  BY <1>1, <1>3 DEF FramesOf
<1> QED  BY <1>5, <1>6 DEF Inv, Frames

LEMMA NextInv == Inv /\ [Next]_vars => Inv'
<1> SUFFICES ASSUME Inv, [Next]_vars PROVE Inv'
  OBVIOUS
<1>1. CASE Push
  BY <1>1, PushStep
<1>2. CASE Pop
  BY <1>2, PopStep
<1>3. CASE Move
  BY <1>3, MoveStep
<1>4. CASE BranchLink
  BY <1>4, BranchStep
<1>5. CASE PassFrame
  BY <1>5, PassStep
<1>6. CASE Dispatch
  BY <1>6, DispatchStep
<1>7. CASE RustHandler
  BY <1>7, RustStep
<1>8. CASE PanicHandler
  BY <1>8, PanicStep
<1>9. CASE Eret
  BY <1>9, EretStep
<1>10. CASE TakeException("irq", 0)
  <2>1. "irq" \in Kind /\ 0 \in Nat
    BY DEF Kind
  <2> QED  BY <1>10, <2>1, TakeStep
<1>11. CASE TakeException("fatal", 0)
  <2>1. "fatal" \in Kind /\ 0 \in Nat
    BY DEF Kind
  <2> QED  BY <1>11, <2>1, TakeStep
<1>12. CASE \E ec \in EC : TakeException("sync", ec)
  <2>1. PICK ec \in EC : TakeException("sync", ec)
    BY <1>12
  <2>2. "sync" \in Kind
    BY DEF Kind
  <2>3. ec \in Nat
    BY FrameAssumption
  <2> QED  BY <2>1, <2>2, <2>3, TakeStep
<1>13. CASE UNCHANGED vars
  BY <1>13 DEF vars, Inv, Types, Frames, FramesOf
<1> QED  BY <1>1, <1>2, <1>3, <1>4, <1>5, <1>6, <1>7, <1>8, <1>9, <1>10, <1>11, <1>12, <1>13 DEF Next

-----------------------------------------------------------------------------
LEMMA InvHolds == Spec => []Inv
BY InitInv, NextInv, PTL DEF Spec

\* The frame of an exception that is past the entry code is complete.
LEMMA PastEntry ==
  ASSUME Inv, NEW d \in 1 .. Len(active), NEW e, e = active[d],
         Code(e.kind)[e.at].op \in {"do_irq", "rust", "panic", "loop"}
  PROVE  e.at \in Nat /\ e.at >= 24
<1>1. active \in Seq(Exception) /\ Len(active) \in Nat /\ FramesOf(active, x, sp, mem)
  BY LenProperties DEF Inv, Types, Frames
<1>2. e \in Exception
  BY <1>1, ElementOfSeq
<1>3. e.at \in Nat /\ e.kind \in Kind
  BY <1>2 DEF Exception
<1>4. CASE d = Len(active)
  <2>1. Len(active) > 0
    BY <1>1
  <2>2. Innermost(e, d)
    BY <1>4, <2>1, InnermostHolds
  <2>3. e.at \in 1 .. Last(e.kind)
    BY <2>2 DEF Innermost
  <2>4. Decoded(e.kind, e.at, Code(e.kind)[e.at])
    BY <1>3, <2>3, Decode
  <2> QED  BY <1>3, <2>4, LateOp
<1>5. CASE d \in 1 .. Len(active) - 1
  <2>1. Waits(e)
    BY <1>1, <1>5 DEF FramesOf
  <2> QED  BY <2>1 DEF Waits
<1> QED  BY <1>1, <1>4, <1>5

\* The frame at address w, as the handlers find it.
FrameAt(w, g, d, m) ==
  /\ m[w] = 199 + d /\ m[w + 1] = 299 + d
  /\ m[w + 4] = g[0]
  /\ \A r \in 1 .. 30 : m[w + 5 + r] = g[r]

LEMMA WholeFrame ==
  ASSUME NEW s \in Nat, NEW g, NEW c, NEW d, NEW m, Stored(24, s, g, c, d, m)
  PROVE  FrameAt(s - 36, g, d, m)
<1>1. /\ m[s - 2] = g[29] /\ m[s - 1] = g[30]
      /\ \A r \in 1 .. 28 : m[s - 31 + r] = g[r]
      /\ m[s - 32] = g[0]
      /\ m[s - 36] = 199 + d /\ m[s - 35] = 299 + d
  BY FrameWords
<1>2. s - 36 + 1 = s - 35 /\ s - 36 + 4 = s - 32
  OBVIOUS
<1>3. ASSUME NEW r \in 1 .. 30 PROVE m[s - 36 + 5 + r] = g[r]
  <2>1. CASE r \in 1 .. 28
    <3>1. s - 36 + 5 + r = s - 31 + r
      OBVIOUS
    <3> QED  BY <1>1, <2>1, <3>1
  <2>2. CASE r = 29
    <3>1. s - 36 + 5 + r = s - 2
      BY <2>2
    <3> QED  BY <1>1, <2>2, <3>1
  <2>3. CASE r = 30
    <3>1. s - 36 + 5 + r = s - 1
      BY <2>3
    <3> QED  BY <1>1, <2>3, <3>1
  <2> QED  BY <2>1, <2>2, <2>3
<1> QED  BY <1>1, <1>2, <1>3 DEF FrameAt

\* The system call number: do_sync is given the x8 of the code that executed the svc, for
\* every nesting of exceptions and every exception class.
THEOREM FrameSyscallNumber == Spec => []SyscallNumber
<1>1. Inv => SyscallNumber
  <2> SUFFICES ASSUME Inv, NEW d \in 1 .. Len(active), active[d].call.fn = "do_sync"
               PROVE  active[d].call.arg = active[d].from.x[8]
    BY DEF SyscallNumber, Depth
  <2>1. FrameHolds(active[d], d, mem)
    BY DEF Inv, Frames, FramesOf
  <2> QED  BY <2>1 DEF FrameHolds, Told
<1> QED  BY <1>1, InvHolds, PTL

\* The frames of interrupted handlers survive: whatever exceptions are taken while a
\* handler runs, the frame save_regs gave it still holds what it put there.
THEOREM FrameFramesSurvive == Spec => []FramesSurvive
<1>1. Inv => FramesSurvive
  <2> SUFFICES ASSUME Inv, NEW d \in 1 .. Len(active),
                      Code(active[d].kind)[active[d].at].op \in {"do_irq", "rust", "panic", "loop"}
               PROVE  LET frame == active[d].from.sp - 36 IN
                      /\ mem[frame] = 199 + d /\ mem[frame + 1] = 299 + d
                      /\ mem[frame + 4] = active[d].from.x[0]
                      /\ \A r \in 1 .. 30 : mem[frame + 5 + r] = active[d].from.x[r]
                      /\ active[d].report # <<>> => /\ active[d].report.regs[ESR] = 400 + active[d].ec
                                                    /\ active[d].report.regs[0] = active[d].from.x[0]
    BY DEF FramesSurvive, Depth
  <2>1. PICK e : e = active[d]
    OBVIOUS
  <2>2. e.at \in Nat /\ e.at >= 24
    BY <2>1, PastEntry
  <2>3. FrameHolds(e, d, mem) /\ active \in Seq(Exception) /\ Len(active) \in Nat
    BY <2>1, LenProperties DEF Inv, Types, Frames, FramesOf
  <2>4. e \in Exception
    BY <2>1, <2>3, ElementOfSeq
  <2>5. PICK s \in Nat : s = e.from.sp
    BY <2>4 DEF Exception
  <2>6. Stored(e.at, s, e.from.x, e.ec, d, mem) /\ Told(e)
    BY <2>3, <2>5 DEF FrameHolds
  <2>7. Stored(24, s, e.from.x, e.ec, d, mem)
    <3>1. e.at \in Nat /\ e.at >= 23
      BY <2>2
    <3> QED  BY <2>6, <3>1, StoredStill
  <2>8. FrameAt(s - 36, e.from.x, d, mem)
    BY <2>7, WholeFrame
  <2>9. e.report # <<>> => e.report.regs[ESR] = 400 + e.ec /\ e.report.regs[0] = e.from.x[0]
    BY <2>6 DEF Told
  <2> QED  BY <2>1, <2>5, <2>8, <2>9 DEF FrameAt
<1> QED  BY <1>1, InvHolds, PTL

\* An exception gives the code it interrupted everything back: when eret is reached, the
\* registers, the stack pointer, the address and the state are those the exception found,
\* but for x0 behind a synchronous exception.
THEOREM FrameRoundTrip == Spec => RoundTrip
<1>1. ASSUME Inv, Eret
      PROVE  /\ \A r \in GPR : (r # 0 \/ Top.kind = "irq") => x[r] = Top.from.x[r]
             /\ sp = Top.from.sp
             /\ x[ELR] = 199 + Depth
             /\ x[SPSR] = 299 + Depth
  <2>1. PICK n : n = Len(active)
    OBVIOUS
  <2>2. PICK e : e = active[n]
    OBVIOUS
  <2>3. Len(active) > 0 /\ Ins.op = "eret" /\ Depth = n /\ Top = e
    BY <1>1, <2>1, <2>2 DEF Eret, Depth, Top
  <2>4. Innermost(e, n)
    BY <1>1, <2>1, <2>2, <2>3, InnermostHolds
  <2>5. /\ n \in Nat /\ e.from.sp \in Nat /\ e.kind \in Kind /\ e.at \in Nat
        /\ sp = e.from.sp - Pushed(Place(e.kind, e.at)) /\ Decoded(e.kind, e.at, Ins)
        /\ Leaving(e.kind, Place(e.kind, e.at), e.from.x, n, x)
    BY <2>4 DEF Innermost
  <2>6. Place(e.kind, e.at) = 45
    BY <2>3, <2>5, OpAt
  <2>7. Leaving(e.kind, 45, e.from.x, n, x)
    BY <2>5, <2>6
  <2>8. sp = e.from.sp
    <3>1. Pushed(45) = 0
      BY PushedAt
    <3> QED  BY <2>5, <2>6, <3>1
  <2>9. x[ELR] = 199 + n /\ x[SPSR] = 299 + n
    BY <2>7 DEF Leaving
  <2>10. ASSUME NEW r \in GPR, r # 0 \/ e.kind = "irq" PROVE x[r] = e.from.x[r]
    <3>1. r = 0 \/ r \in 1 .. 30
      BY DEF GPR
    <3>2. CASE r = 0
      BY <2>7, <2>10, <3>2 DEF Leaving
    <3>3. CASE r \in 1 .. 30
      <4>1. r <= 2 * (45 - 30)
        BY <3>3
      <4> QED  BY <2>7, <3>3, <4>1 DEF Leaving
    <3> QED  BY <3>1, <3>2, <3>3
  <2> QED  BY <2>3, <2>8, <2>9, <2>10
<1>2. Inv => [Eret => /\ \A r \in GPR : (r # 0 \/ Top.kind = "irq") => x[r] = Top.from.x[r]
                      /\ sp = Top.from.sp
                      /\ x[ELR] = 199 + Depth
                      /\ x[SPSR] = 299 + Depth]_vars
  BY <1>1
<1> QED  BY <1>2, InvHolds, PTL DEF RoundTrip

=============================================================================
