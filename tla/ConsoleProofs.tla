---------------------------- MODULE ConsoleProofs ----------------------------
(***************************************************************************)
(* What the timer's handler prints, for every depth of the transmit FIFO,  *)
(* every length of a line and every number of lines and interrupts.        *)
(***************************************************************************)
EXTENDS Console, SequenceTheorems, TLAPS

-----------------------------------------------------------------------------
(* Sequences and lines.                                                    *)

\* Where one line of l characters ends, another ends l characters later.
LEMMA AnotherLine ==
  ASSUME NEW l \in Nat \ {0}, NEW n \in Nat, n % l = 0
  PROVE  (n + l) % l = 0
<1>1. PICK q \in Nat : n = l * q
  <2>1. n \div l \in Nat /\ n = l * (n \div l) + (n % l)
    OBVIOUS
  <2> QED  BY <2>1
<1>2. PICK t \in Nat, s \in 0 .. l - 1 : n + l = l * t + s /\ s = (n + l) % l
  <2>1. n + l \in Nat
    OBVIOUS
  <2>2. /\ (n + l) \div l \in Nat /\ (n + l) % l \in 0 .. l - 1
        /\ n + l = l * ((n + l) \div l) + ((n + l) % l)
    BY <2>1
  <2> QED  BY <2>2
<1>3. l * q + l = l * t + s
  BY <1>1, <1>2
<1>4. ASSUME NEW k \in Nat PROVE l * k \in Nat
  OBVIOUS
<1>5. CASE t <= q
  <2>1. PICK k \in Nat : q = t + k
    <3>1. q - t \in Nat /\ q = t + (q - t)
      BY <1>5
    <3> QED  BY <3>1
  <2>2. l * q = l * t + l * k
    BY <2>1
  <2>3. l * k \in Nat /\ l * t \in Nat
    BY <1>4
  <2> QED  BY <1>3, <2>2, <2>3
<1>6. CASE t >= q + 1
  <2>1. PICK k \in Nat : t = q + 1 + k
    <3>1. t - (q + 1) \in Nat /\ t = q + 1 + (t - (q + 1))
      BY <1>6
    <3> QED  BY <3>1
  <2>2. l * t = l * q + l + l * k
    BY <2>1
  <2>3. l * k \in Nat /\ l * q \in Nat
    BY <1>4
  <2> QED  BY <1>2, <1>3, <2>2, <2>3
<1> QED  BY <1>5, <1>6

\* The UART takes a character from the FIFO to the wire.
LEMMA Sent ==
  ASSUME NEW S, NEW w \in Seq(S), NEW f \in Seq(S), f # <<>>
  PROVE  Append(w, Head(f)) \o Tail(f) = w \o f
<1>1. Head(f) \in S /\ Tail(f) \in Seq(S)
  BY HeadTailProperties
<1>2. <<Head(f)>> \in Seq(S)
  BY <1>1
<1>3. Append(w, Head(f)) = w \o <<Head(f)>>
  BY <1>1, AppendIsConcat
<1>4. <<Head(f)>> \o Tail(f) = f
  <2>1. Len(<<Head(f)>>) = 1 /\ <<Head(f)>>[1] = f[1]
    OBVIOUS
  <2>2. Len(f) \in Nat /\ Len(Tail(f)) = Len(f) - 1
    BY HeadTailProperties, LenProperties
  <2>3. \A i \in 1 .. Len(f) - 1 : Tail(f)[i] = f[i + 1]
    BY <2>2, HeadTailProperties
  <2>4. PICK g : g = <<Head(f)>> \o Tail(f)
    OBVIOUS
  <2>5. g \in Seq(S) /\ Len(g) = 1 + Len(Tail(f))
    BY <1>1, <1>2, <2>1, <2>4, ConcatProperties
  <2>6. \A i \in 1 .. 1 + Len(Tail(f)) :
          g[i] = IF i <= 1 THEN <<Head(f)>>[i] ELSE Tail(f)[i - 1]
    BY <1>1, <1>2, <2>1, <2>4, ConcatProperties
  <2>7. \A i \in 1 .. Len(f) : g[i] = f[i]
    <3> TAKE i \in 1 .. Len(f)
    <3>1. CASE i = 1
      BY <2>1, <2>2, <2>6, <3>1
    <3>2. CASE i > 1
      <4>1. i - 1 \in 1 .. Len(f) - 1 /\ (i - 1) + 1 = i /\ ~(i <= 1)
        BY <2>2, <3>2
      <4>2. i \in 1 .. 1 + Len(Tail(f))
        BY <2>2
      <4> QED  BY <2>3, <2>6, <4>1, <4>2
    <3> QED  BY <2>2, <3>1, <3>2
  <2>8. Len(g) = Len(f)
    BY <2>2, <2>5
  <2> QED  BY <2>4, <2>5, <2>7, <2>8, SeqEqual
<1>5. (w \o <<Head(f)>>) \o Tail(f) = w \o (<<Head(f)>> \o Tail(f))
  BY <1>1, <1>2, ConcatAssociative
<1> QED  BY <1>3, <1>4, <1>5

\* A character enters the FIFO.
LEMMA Queued ==
  ASSUME NEW S, NEW w \in Seq(S), NEW f \in Seq(S), NEW c \in S
  PROVE  w \o Append(f, c) = Append(w \o f, c)
<1>1. <<c>> \in Seq(S) /\ w \o f \in Seq(S)
  BY ConcatProperties
<1>2. Append(f, c) = f \o <<c>> /\ Append(w \o f, c) = (w \o f) \o <<c>>
  BY <1>1, AppendIsConcat
<1>3. (w \o f) \o <<c>> = w \o (f \o <<c>>)
  BY <1>1, ConcatAssociative
<1> QED  BY <1>2, <1>3

-----------------------------------------------------------------------------
(* The contexts that print.                                                *)

Char == {"firmware", "main", "isr"} \X Nat

Queue == txfifo \in Seq(Char) /\ wire \in Seq(Char)

Places == {"idle", "poll", "write"}

\* What putchar's locals hold: a context is in putchar as long as its line has
\* characters left.
Printing ==
  /\ running \in Context
  /\ at \in [Context -> Places]
  /\ left \in [Context -> Nat] /\ printed \in [Context -> Nat]
  /\ \A c \in Context : at[c] = "idle" <=> left[c] = 0

\* The handler runs only when kmain is in its loop, and leaves nothing behind;
\* between its poll and its write the FIFO has space.
Handler ==
  /\ running = "main" => at["isr"] = "idle"
  /\ running = "isr" => boot = "run"
  /\ at["isr"] = "write" => Len(txfifo) < TxDepth

\* kmain prints nothing while configure runs, so what configure waited for stays so.
Configuring ==
  /\ boot \notin {"arm", "run", "panic"} => at["main"] = "idle"
  /\ boot = "flush" => txfifo = <<>>

Contexts ==
  /\ Queue /\ Printing /\ Handler /\ Configuring
  /\ IsrNeverOverruns /\ NothingFlushed

\* A step of configure, or the arming of the timer: the registers and where boot is.
LEMMA ConfigureEffect ==
  ASSUME Contexts, Configure \/ ArmTimer
  PROVE  /\ UNCHANGED <<at, left, printed, running, wire, overrun, txfifo, flushed>>
         /\ running = "main" /\ at["main"] = "idle"
         /\ boot' = "flush" => txfifo = <<>>
<1>1. ASSUME NEW from, NEW to, Boot(from, to)
      PROVE  /\ UNCHANGED <<at, left, printed, running, wire, overrun>>
             /\ running = "main" /\ at["main"] = "idle" /\ boot = from /\ boot' = to
  BY <1>1 DEF Boot, printVars
<1>2. CASE ConfigureFlush
  <2>1. /\ UNCHANGED <<at, left, printed, running, wire, overrun>>
        /\ running = "main" /\ at["main"] = "idle" /\ boot = "flush" /\ boot' = "speed"
    BY <1>1, <1>2 DEF ConfigureFlush
  <2>2. txfifo = <<>>
    BY <2>1 DEF Contexts, Configuring
  <2>3. DOMAIN txfifo = {}
    BY <2>2
  <2>4. {txfifo[i] : i \in DOMAIN txfifo} = {}
    BY <2>3
  <2>5. flushed' = flushed \cup {txfifo[i] : i \in DOMAIN txfifo} /\ txfifo' = <<>>
    BY <1>2 DEF ConfigureFlush
  <2>6. flushed' = flushed
    BY <2>4, <2>5
  <2> QED  BY <2>1, <2>2, <2>5, <2>6
<1>3. CASE ConfigureWait
  BY <1>1, <1>3 DEF ConfigureWait, Busy
<1>4. CASE init_uart \/ ConfigureDisable \/ ConfigureSpeed \/ ConfigureFrame
  BY <1>1, <1>4 DEF init_uart, ConfigureDisable, ConfigureSpeed, ConfigureFrame
<1>5. CASE ConfigureImsc \/ ConfigureDma \/ ConfigureEnable \/ ArmTimer
  BY <1>1, <1>5 DEF ConfigureImsc, ConfigureDma, ConfigureEnable, ArmTimer
<1> QED  BY <1>2, <1>3, <1>4, <1>5 DEF Configure

\* kmain starts a line.
Start == Greet \/ StartLine \/ EarlyPanic

LEMMA StartEffect ==
  ASSUME Start
  PROVE  /\ UNCHANGED <<printed, running, wire, overrun, txfifo, flushed>>
         /\ running = "main" /\ boot' \in {"arm", "run", "panic"}
         /\ at' = [at EXCEPT !["main"] = "poll"]
         /\ left' = [left EXCEPT !["main"] = LineLen]
BY DEF Start, Greet, StartLine, EarlyPanic, PrintLine, others

LEMMA PollEffect ==
  ASSUME NEW c \in Context, PollFR(c)
  PROVE  /\ UNCHANGED <<left, printed, running, wire, overrun, txfifo, flushed, boot>>
         /\ running = c /\ at[c] = "poll" /\ ~Full
         /\ at' = [at EXCEPT ![c] = "write"]
BY DEF PollFR, PollUntil, others

LEMMA WriteEffect ==
  ASSUME NEW c \in Context, WriteDR(c)
  PROVE  /\ UNCHANGED <<running, wire, flushed, boot>>
         /\ running = c /\ at[c] = "write"
         /\ at' = [at EXCEPT ![c] = IF left[c] = 1 THEN "idle" ELSE "poll"]
         /\ left' = [left EXCEPT ![c] = @ - 1]
         /\ printed' = [printed EXCEPT ![c] = @ + 1]
         /\ \/ ~Full /\ txfifo' = Append(txfifo, <<c, printed[c] + 1>>) /\ overrun' = overrun
            \/ Full /\ txfifo' = txfifo /\ overrun' = overrun \cup {<<c, printed[c] + 1>>}
BY DEF WriteDR, others

LEMMA TimerEffect ==
  ASSUME TimerIrq
  PROVE  /\ UNCHANGED <<printed, wire, overrun, txfifo, flushed, boot>>
         /\ running = "main" /\ running' = "isr" /\ boot = "run"
         /\ at' = [at EXCEPT !["isr"] = "poll"]
         /\ left' = [left EXCEPT !["isr"] = LineLen]
BY DEF TimerIrq, others

LEMMA ReturnEffect ==
  ASSUME IrqReturn
  PROVE  /\ UNCHANGED <<at, left, printed, wire, overrun, txfifo, flushed, boot>>
         /\ running = "isr" /\ running' = "main" /\ at["isr"] = "idle"
BY DEF IrqReturn, others, printVars

LEMMA TransmitEffect ==
  ASSUME Transmit
  PROVE  /\ UNCHANGED <<at, left, printed, overrun, flushed, boot, running>>
         /\ txfifo # <<>> /\ txfifo' = Tail(txfifo) /\ wire' = Append(wire, Head(txfifo))
BY DEF Transmit, printVars

LEMMA IdleEffect ==
  ASSUME UNCHANGED vars
  PROVE  UNCHANGED <<at, left, printed, overrun, flushed, boot, running, txfifo, wire>>
BY DEF vars, printVars

\* The steps of the specification.
LEMMA Steps ==
  ASSUME [Next]_vars
  PROVE  \/ Configure \/ ArmTimer \/ Start \/ TimerIrq \/ IrqReturn \/ Transmit
         \/ \E c \in Context : PollFR(c) \/ WriteDR(c)
         \/ UNCHANGED vars
BY DEF Next, Instruction, Start

\* The contexts keep out of each other's way.
LEMMA ContextsInvariant == Spec => []Contexts
<1>1. TxDepth \in Nat \ {0} /\ LineLen \in Nat \ {0} /\ MaxFirmware \in Nat
  BY ConsoleAssumption
<1>2. Init => Contexts
  <2> SUFFICES ASSUME Init PROVE Contexts
    OBVIOUS
  <2>1. PICK n \in 0 .. MaxFirmware : txfifo = [i \in 1 .. n |-> <<"firmware", i>>]
    BY DEF Init
  <2>2. \A i \in 1 .. n : <<"firmware", i>> \in Char
    BY <1>1 DEF Char
  <2>3. n \in Nat
    BY <1>1
  <2>4. txfifo \in Seq(Char)
    BY <2>1, <2>2, <2>3, SeqDef
  <2>5. wire \in Seq(Char) /\ flushed = {} /\ overrun = {} /\ boot = "init"
    BY DEF Init
  <2>6. Printing /\ at["main"] = "idle" /\ at["isr"] = "idle" /\ running = "main"
    BY DEF Init, Printing, Context, Places
  <2> QED  BY <2>4, <2>5, <2>6 DEF Contexts, Queue, Handler, Configuring,
                                   IsrNeverOverruns, NothingFlushed
<1>3. Contexts /\ [Next]_vars => Contexts'
  <2> SUFFICES ASSUME Contexts, [Next]_vars PROVE Contexts'
    OBVIOUS
  <2>1. /\ Queue /\ Printing /\ Handler /\ Configuring
        /\ IsrNeverOverruns /\ NothingFlushed
    BY DEF Contexts
  <2>2. /\ "main" \in Context /\ "isr" \in Context /\ "main" # "isr"
        /\ \A c \in Context : c = "main" \/ c = "isr"
    BY DEF Context
  <2>3. Len(txfifo) \in Nat
    BY <2>1, LenProperties DEF Queue
  <2>4. CASE Configure \/ ArmTimer
    <3>1. /\ UNCHANGED <<at, left, printed, running, wire, overrun, txfifo, flushed>>
          /\ running = "main" /\ at["main"] = "idle"
          /\ boot' = "flush" => txfifo = <<>>
      BY <2>4, ConfigureEffect
    <3> QED  BY <2>1, <3>1 DEF Contexts, Queue, Printing, Handler, Configuring,
                               IsrNeverOverruns, NothingFlushed
  <2>5. CASE Start
    <3>1. /\ UNCHANGED <<printed, running, wire, overrun, txfifo, flushed>>
          /\ running = "main" /\ boot' \in {"arm", "run", "panic"}
          /\ at' = [at EXCEPT !["main"] = "poll"]
          /\ left' = [left EXCEPT !["main"] = LineLen]
      BY <2>5, StartEffect
    <3>2. Printing'
      BY <1>1, <2>1, <2>2, <3>1 DEF Printing, Places
    <3>3. Handler'
      BY <2>1, <2>2, <3>1 DEF Handler, Printing
    <3>4. Configuring'
      BY <3>1 DEF Configuring
    <3> QED  BY <2>1, <3>1, <3>2, <3>3, <3>4 DEF Contexts, Queue, IsrNeverOverruns,
                                                 NothingFlushed
  <2>6. ASSUME NEW c \in Context, PollFR(c) PROVE Contexts'
    <3>1. /\ UNCHANGED <<left, printed, running, wire, overrun, txfifo, flushed, boot>>
          /\ running = c /\ at[c] = "poll" /\ ~Full
          /\ at' = [at EXCEPT ![c] = "write"]
      BY <2>6, PollEffect
    <3>2. Printing'
      BY <2>1, <2>2, <3>1 DEF Printing, Places
    <3>3. Len(txfifo) < TxDepth
      BY <1>1, <2>3, <3>1 DEF Full
    <3>4. Handler'
      BY <2>1, <2>2, <3>1, <3>3 DEF Handler, Printing
    <3>5. Configuring'
      BY <2>1, <2>2, <3>1 DEF Configuring, Handler, Printing
    <3> QED  BY <2>1, <3>1, <3>2, <3>4, <3>5 DEF Contexts, Queue, IsrNeverOverruns,
                                                 NothingFlushed
  <2>7. ASSUME NEW c \in Context, WriteDR(c) PROVE Contexts'
    <3> DEFINE char == <<c, printed[c] + 1>>
    <3>1. /\ UNCHANGED <<running, wire, flushed, boot>>
          /\ running = c /\ at[c] = "write"
          /\ at' = [at EXCEPT ![c] = IF left[c] = 1 THEN "idle" ELSE "poll"]
          /\ left' = [left EXCEPT ![c] = @ - 1]
          /\ printed' = [printed EXCEPT ![c] = @ + 1]
          /\ \/ ~Full /\ txfifo' = Append(txfifo, char) /\ overrun' = overrun
             \/ Full /\ txfifo' = txfifo /\ overrun' = overrun \cup {char}
      BY <2>7, WriteEffect
    <3>2. left[c] \in Nat \ {0} /\ printed[c] \in Nat
      BY <2>1, <3>1 DEF Printing
    <3>3. char \in Char /\ char[1] = c
      BY <2>2, <3>2 DEF Char
    <3> HIDE DEF char
    <3>4. Printing'
      BY <2>1, <2>2, <3>1, <3>2 DEF Printing, Places
    <3>5. Queue'
      <4>1. Append(txfifo, char) \in Seq(Char)
        BY <2>1, <3>3, AppendProperties DEF Queue
      <4> QED  BY <2>1, <3>1, <4>1 DEF Queue
    <3>6. at'["isr"] # "write"
      BY <2>1, <2>2, <3>1 DEF Handler, Printing
    <3>7. Handler'
      BY <2>1, <2>2, <3>1, <3>6 DEF Handler, Printing
    <3>8. boot \in {"arm", "run", "panic"}
      BY <2>1, <2>2, <3>1 DEF Configuring, Handler
    <3>9. Configuring'
      BY <3>1, <3>8 DEF Configuring
    <3>10. c = "isr" => overrun' = overrun
      BY <1>1, <2>1, <2>3, <3>1 DEF Handler, Full
    <3>11. IsrNeverOverruns'
      BY <2>1, <2>2, <3>1, <3>3, <3>10 DEF IsrNeverOverruns
    <3> QED  BY <2>1, <3>1, <3>4, <3>5, <3>7, <3>9, <3>11 DEF Contexts, NothingFlushed
  <2>8. CASE TimerIrq
    <3>1. /\ UNCHANGED <<printed, wire, overrun, txfifo, flushed, boot>>
          /\ running = "main" /\ running' = "isr" /\ boot = "run"
          /\ at' = [at EXCEPT !["isr"] = "poll"]
          /\ left' = [left EXCEPT !["isr"] = LineLen]
      BY <2>8, TimerEffect
    <3>2. Printing'
      BY <1>1, <2>1, <2>2, <3>1 DEF Printing, Places
    <3>3. Handler'
      BY <2>1, <2>2, <3>1 DEF Handler, Printing
    <3>4. Configuring'
      BY <3>1 DEF Configuring
    <3> QED  BY <2>1, <3>1, <3>2, <3>3, <3>4 DEF Contexts, Queue, IsrNeverOverruns,
                                                 NothingFlushed
  <2>9. CASE IrqReturn
    <3>1. /\ UNCHANGED <<at, left, printed, wire, overrun, txfifo, flushed, boot>>
          /\ running = "isr" /\ running' = "main" /\ at["isr"] = "idle"
      BY <2>9, ReturnEffect
    <3> QED  BY <2>1, <2>2, <3>1 DEF Contexts, Queue, Printing, Handler, Configuring,
                                     IsrNeverOverruns, NothingFlushed
  <2>10. CASE Transmit
    <3>1. /\ UNCHANGED <<at, left, printed, overrun, flushed, boot, running>>
          /\ txfifo # <<>> /\ txfifo' = Tail(txfifo) /\ wire' = Append(wire, Head(txfifo))
      BY <2>10, TransmitEffect
    <3>2. Head(txfifo) \in Char /\ Tail(txfifo) \in Seq(Char)
      BY <2>1, <3>1, HeadTailProperties DEF Queue
    <3>3. Len(Tail(txfifo)) = Len(txfifo) - 1
      BY <2>1, <3>1, HeadTailProperties DEF Queue
    <3>4. Queue'
      BY <2>1, <3>1, <3>2, AppendProperties DEF Queue
    <3>5. Handler'
      BY <1>1, <2>1, <2>3, <3>1, <3>3 DEF Handler
    <3>6. Printing' /\ Configuring'
      BY <2>1, <3>1 DEF Printing, Configuring
    <3> QED  BY <2>1, <3>1, <3>4, <3>5, <3>6 DEF Contexts, IsrNeverOverruns, NothingFlushed
  <2>11. CASE UNCHANGED vars
    BY <2>1, <2>11, IdleEffect DEF Contexts, Queue, Printing, Handler, Configuring,
                                   IsrNeverOverruns, NothingFlushed
  <2> QED  BY <2>4, <2>5, <2>6, <2>7, <2>8, <2>9, <2>10, <2>11, Steps
<1> QED  BY <1>2, <1>3, PTL DEF Spec

\* No character that the timer's handler prints is dropped, however full the FIFO is
\* and wherever the handler interrupts kmain's own putchar.
THEOREM ConsoleIsrNeverOverruns == Spec => []IsrNeverOverruns
<1>1. Contexts => IsrNeverOverruns
  BY DEF Contexts
<1> QED  BY <1>1, ContextsInvariant, PTL

\* configure's flush finds the FIFO empty: its wait ended, and nobody prints until it
\* is done.
THEOREM ConsoleNothingFlushed == Spec => []NothingFlushed
<1>1. Contexts => NothingFlushed
  BY DEF Contexts
<1> QED  BY <1>1, ContextsInvariant, PTL

-----------------------------------------------------------------------------
(* The handler's lines.                                                    *)

\* The character at the end of out is inside a line of the handler.
MidLine(out) ==
  /\ Len(out) > 0
  /\ out[Len(out)][1] = "isr" /\ out[Len(out)][2] % LineLen # 0

\* Every one but the last inside a line of the handler is followed by the next one.
Whole(out) ==
  \A i \in 1 .. Len(out) - 1 :
    (out[i][1] = "isr" /\ out[i][2] % LineLen # 0) => out[i + 1] = <<"isr", out[i][2] + 1>>

\* When the output ends inside a line of the handler, the handler is still running and
\* has just written that character; it returns with its line complete.
Lines ==
  /\ (printed["isr"] + left["isr"]) % LineLen = 0
  /\ MidLine(Output) => running = "isr" /\ Output[Len(Output)][2] = printed["isr"]
  /\ Whole(Output)

\* One more character.
LEMMA Extended ==
  ASSUME NEW out \in Seq(Char), NEW c \in Char, Whole(out),
         MidLine(out) => c = <<"isr", out[Len(out)][2] + 1>>
  PROVE  /\ Whole(Append(out, c)) /\ Len(Append(out, c)) > 0
         /\ Append(out, c)[Len(Append(out, c))] = c
<1> DEFINE more == Append(out, c)
<1>1. Len(out) \in Nat /\ Len(more) = Len(out) + 1
  BY LenProperties, AppendProperties
<1>2. \A i \in 1 .. Len(out) : more[i] = out[i]
  BY AppendProperties
<1>3. more[Len(out) + 1] = c
  BY AppendProperties
<1> HIDE DEF more
<1>4. ASSUME NEW i \in 1 .. Len(more) - 1, more[i][1] = "isr", more[i][2] % LineLen # 0
      PROVE  more[i + 1] = <<"isr", more[i][2] + 1>>
  <2>1. i \in 1 .. Len(out)
    BY <1>1
  <2>2. more[i] = out[i]
    BY <1>2, <2>1
  <2>3. CASE i = Len(out)
    <3>1. MidLine(out)
      BY <1>1, <1>4, <2>1, <2>2, <2>3 DEF MidLine
    <3> QED  BY <1>3, <2>2, <2>3, <3>1
  <2>4. CASE i \in 1 .. Len(out) - 1
    <3>1. i + 1 \in 1 .. Len(out)
      BY <1>1, <2>4
    <3> QED  BY <1>2, <1>4, <2>2, <2>4, <3>1 DEF Whole
  <2> QED  BY <1>1, <2>1, <2>3, <2>4
<1>5. Whole(more)
  BY <1>4 DEF Whole
<1> QED  BY <1>1, <1>3, <1>5 DEF more

\* The handler's lines stay in one piece.
LEMMA LinesInvariant == Spec => []Lines
<1>1. LineLen \in Nat \ {0} /\ MaxFirmware \in Nat /\ TxDepth \in Nat \ {0}
  BY ConsoleAssumption
<1>2. Init => Lines
  <2> SUFFICES ASSUME Init PROVE Lines
    OBVIOUS
  <2>1. PICK n \in 0 .. MaxFirmware : txfifo = [i \in 1 .. n |-> <<"firmware", i>>]
    BY DEF Init
  <2>2. n \in Nat /\ \A i \in 1 .. n : <<"firmware", i>> \in Char
    BY <1>1 DEF Char
  <2>3. txfifo \in Seq(Char) /\ Len(txfifo) = n
    <3>1. txfifo \in Seq(Char)
      BY <2>1, <2>2, SeqDef
    <3>2. DOMAIN txfifo = 1 .. n
      BY <2>1
    <3> QED  BY <2>2, <3>1, <3>2, LenProperties
  <2>4. Output = txfifo
    <3>1. wire = <<>>
      BY DEF Init
    <3> QED  BY <2>3, <3>1, ConcatEmptySeq DEF Output
  <2>5. \A i \in 1 .. Len(Output) : Output[i][1] # "isr"
    BY <2>1, <2>3, <2>4
  <2>6. Len(Output) \in Nat
    BY <2>2, <2>3, <2>4
  <2>7. ~MidLine(Output)
    <3>1. Len(Output) > 0 => Len(Output) \in 1 .. Len(Output)
      BY <2>6
    <3> QED  BY <2>5, <3>1 DEF MidLine
  <2>8. Whole(Output)
    <3>1. \A i \in 1 .. Len(Output) - 1 : i \in 1 .. Len(Output)
      BY <2>6
    <3> QED  BY <2>5, <3>1 DEF Whole
  <2>9. (printed["isr"] + left["isr"]) % LineLen = 0
    <3>1. printed["isr"] = 0 /\ left["isr"] = 0
      BY DEF Init, Context
    <3>2. 0 % LineLen = 0
      BY <1>1
    <3> QED  BY <3>1, <3>2
  <2> QED  BY <2>7, <2>8, <2>9 DEF Lines
<1>3. Contexts /\ Lines /\ [Next]_vars => Lines'
  <2> SUFFICES ASSUME Contexts, Lines, [Next]_vars PROVE Lines'
    OBVIOUS
  <2>1. Queue /\ Printing /\ Handler
    BY DEF Contexts
  <2>2. /\ "main" \in Context /\ "isr" \in Context /\ "main" # "isr"
        /\ \A c \in Context : c = "main" \/ c = "isr"
    BY DEF Context
  <2>3. /\ Output \in Seq(Char) /\ Len(Output) \in Nat
        /\ Output = wire \o txfifo /\ Output' = wire' \o txfifo'
    BY <2>1, ConcatProperties, LenProperties DEF Queue, Output
  <2>4. printed["isr"] \in Nat /\ left["isr"] \in Nat
    BY <2>1, <2>2 DEF Printing
  <2>5. CASE /\ Output' = Output /\ running' = running
             /\ printed'["isr"] = printed["isr"] /\ left'["isr"] = left["isr"]
    BY <2>5 DEF Lines
  <2>6. CASE Configure \/ ArmTimer
    <3>1. UNCHANGED <<left, printed, running, wire, txfifo>>
      BY <2>6, ConfigureEffect
    <3> QED  BY <2>3, <2>5, <3>1
  <2>7. CASE Start
    <3>1. /\ UNCHANGED <<printed, running, wire, txfifo>>
          /\ left' = [left EXCEPT !["main"] = LineLen]
      BY <2>7, StartEffect
    <3>2. left'["isr"] = left["isr"]
      BY <2>1, <2>2, <3>1 DEF Printing
    <3> QED  BY <2>3, <2>5, <3>1, <3>2
  <2>8. ASSUME NEW c \in Context, PollFR(c) PROVE Lines'
    <3>1. UNCHANGED <<left, printed, running, wire, txfifo>>
      BY <2>8, PollEffect
    <3> QED  BY <2>3, <2>5, <3>1
  <2>9. ASSUME NEW c \in Context, WriteDR(c) PROVE Lines'
    <3> DEFINE char == <<c, printed[c] + 1>>
    <3>1. /\ running' = running /\ wire' = wire /\ running = c /\ at[c] = "write"
          /\ left' = [left EXCEPT ![c] = @ - 1]
          /\ printed' = [printed EXCEPT ![c] = @ + 1]
          /\ \/ ~Full /\ txfifo' = Append(txfifo, char)
             \/ Full /\ txfifo' = txfifo
      BY <2>9, WriteEffect
    <3>2. left[c] \in Nat \ {0} /\ printed[c] \in Nat
      BY <2>1, <3>1 DEF Printing
    <3>3. char \in Char /\ char[1] = c /\ char[2] = printed[c] + 1
      BY <2>2, <3>2 DEF Char
    <3>4. c = "isr" => char = <<"isr", printed["isr"] + 1>>
      OBVIOUS
    <3> HIDE DEF char
    <3>5. CASE txfifo' = Append(txfifo, char)
      <4>1. Output' = Append(Output, char)
        BY <2>1, <2>3, <3>1, <3>3, <3>5, Queued DEF Queue
      <4>2. MidLine(Output) => char = <<"isr", Output[Len(Output)][2] + 1>>
        BY <3>1, <3>4 DEF Lines
      <4>3. /\ Whole(Append(Output, char))
            /\ Append(Output, char)[Len(Append(Output, char))] = char
        BY <2>3, <3>3, <4>2, Extended DEF Lines
      <4>4. Whole(Output')
        BY <4>1, <4>3
      <4>5. Output'[Len(Output')] = char
        BY <4>1, <4>3
      <4>6. CASE c = "isr"
        <5>1. printed'["isr"] = printed["isr"] + 1 /\ left'["isr"] = left["isr"] - 1
          BY <2>1, <2>2, <3>1, <4>6 DEF Printing
        <5>2. printed'["isr"] + left'["isr"] = printed["isr"] + left["isr"]
          BY <2>4, <5>1
        <5>3. char[2] = printed'["isr"]
          BY <3>3, <4>6, <5>1
        <5> QED  BY <3>1, <4>4, <4>5, <4>6, <5>2, <5>3 DEF Lines
      <4>7. CASE c = "main"
        <5>1. printed'["isr"] = printed["isr"] /\ left'["isr"] = left["isr"]
          BY <2>1, <2>2, <3>1, <4>7 DEF Printing
        <5>2. ~MidLine(Output')
          BY <2>2, <3>3, <4>5, <4>7 DEF MidLine
        <5> QED  BY <4>4, <5>1, <5>2 DEF Lines
      <4> QED  BY <2>2, <4>6, <4>7
    <3>6. CASE Full /\ txfifo' = txfifo
      <4>1. c = "main"
        <5>1. Len(txfifo) \in Nat
          BY <2>1, LenProperties DEF Queue
        <5> QED  BY <1>1, <2>1, <2>2, <3>1, <3>6, <5>1 DEF Handler, Full
      <4>2. printed'["isr"] = printed["isr"] /\ left'["isr"] = left["isr"]
        BY <2>1, <2>2, <3>1, <4>1 DEF Printing
      <4> QED  BY <2>3, <2>5, <3>1, <3>6, <4>2
    <3> QED  BY <3>1, <3>5, <3>6
  <2>10. CASE TimerIrq
    <3>1. /\ UNCHANGED <<printed, wire, txfifo>> /\ running = "main"
          /\ left' = [left EXCEPT !["isr"] = LineLen]
      BY <2>10, TimerEffect
    <3>2. left["isr"] = 0 /\ left'["isr"] = LineLen
      BY <2>1, <2>2, <3>1 DEF Printing, Handler
    <3>3. printed["isr"] % LineLen = 0
      BY <2>4, <3>2 DEF Lines
    <3>4. (printed["isr"] + LineLen) % LineLen = 0
      BY <1>1, <2>4, <3>3, AnotherLine
    <3>5. ~MidLine(Output)
      BY <2>2, <3>1 DEF Lines
    <3>6. Output' = Output /\ printed' = printed
      BY <2>3, <3>1
    <3> QED  BY <3>2, <3>4, <3>5, <3>6 DEF Lines
  <2>11. CASE IrqReturn
    <3>1. UNCHANGED <<left, printed, wire, txfifo>> /\ at["isr"] = "idle"
      BY <2>11, ReturnEffect
    <3>2. left["isr"] = 0
      BY <2>1, <2>2, <3>1 DEF Printing
    <3>3. printed["isr"] % LineLen = 0
      BY <2>4, <3>2 DEF Lines
    <3>4. ~MidLine(Output)
      BY <3>3 DEF Lines, MidLine
    <3>5. Output' = Output
      BY <2>3, <3>1
    <3> QED  BY <3>1, <3>4, <3>5 DEF Lines
  <2>12. CASE Transmit
    <3>1. /\ UNCHANGED <<left, printed, running>> /\ txfifo # <<>>
          /\ txfifo' = Tail(txfifo) /\ wire' = Append(wire, Head(txfifo))
      BY <2>12, TransmitEffect
    <3>2. Append(wire, Head(txfifo)) \o Tail(txfifo) = wire \o txfifo
      BY <2>1, <3>1, Sent DEF Queue
    <3>3. Output' = Output
      BY <2>3, <3>1, <3>2
    <3> QED  BY <2>5, <3>1, <3>3
  <2>13. CASE UNCHANGED vars
    <3>1. UNCHANGED <<left, printed, running, wire, txfifo>>
      BY <2>13, IdleEffect
    <3> QED  BY <2>3, <2>5, <3>1
  <2> QED  BY <2>6, <2>7, <2>8, <2>9, <2>10, <2>11, <2>12, <2>13, Steps
<1> QED  BY <1>2, <1>3, ContextsInvariant, PTL DEF Spec

\* A line printed by the timer's handler comes out in one piece, whatever it
\* interrupts and whatever is queued.
THEOREM ConsoleIsrLinesWhole == Spec => []IsrLinesWhole
<1>1. Lines => IsrLinesWhole
  BY DEF Lines, Whole, IsrLinesWhole
<1> QED  BY <1>1, LinesInvariant, PTL

=============================================================================
