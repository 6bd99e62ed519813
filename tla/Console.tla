------------------------------ MODULE Console ------------------------------
(***************************************************************************)
(* The transmit side of src/src/drivers/uart/pl011.rs: configure() at      *)
(* boot, and putchar, called for every byte of every print! by kmain and   *)
(* by the timer's arm of do_irq, which may interrupt it anywhere.          *)
(*                                                                         *)
(* A character is <<context, n>>, the n-th one that context prints.        *)
(***************************************************************************)
EXTENDS Naturals, Sequences

CONSTANTS TxDepth,       \* the transmit FIFO, 16 in hardware
          LineLen,       \* characters of a println!
          MaxLines,      \* bound on the lines kmain prints
          MaxTicks,      \* bound on the timer interrupts
          MaxFirmware    \* bound on firmware output still queued at boot

ASSUME ConsoleAssumption ==
  /\ {TxDepth, LineLen} \subseteq Nat \ {0}
  /\ {MaxLines, MaxTicks} \subseteq Nat
  /\ MaxFirmware \in 0 .. TxDepth

VARIABLES base_addr,  \* UART.base_addr: "null" or "dtb"
          cr, fen, lcr, imsc, dmacr, divisor,   \* PL011 registers
          txfifo,     \* the transmit FIFO
          wire,       \* the characters that were transmitted
          boot,       \* next step of the boot core, "run" in kmain's loop
          running,    \* the context that executes: "main" or "isr"
          at,         \* at[c]: where context c is in putchar
          left,       \* left[c]: characters of its line still to print
          printed,    \* printed[c]: the number it has written to DR
          overrun,    \* characters written to a full FIFO
          flushed,    \* characters dropped by configure
          lines, ticks

regVars == <<cr, fen, lcr, imsc, dmacr, divisor>>
printVars == <<at, left, printed, overrun>>
vars == <<base_addr, regVars, txfifo, wire, boot, running, printVars, flushed,
          lines, ticks>>

Context == {"main", "isr"}

\* Firmware has configured the UART; its last characters may still be queued.
Init ==
  /\ base_addr = "null"
  /\ cr = {"UARTEN", "TXEN", "RXEN"} /\ fen = TRUE /\ lcr = {} /\ imsc = {}
  /\ dmacr = {} /\ divisor = 0
  /\ \E n \in 0 .. MaxFirmware : txfifo = [i \in 1 .. n |-> <<"firmware", i>>]
  /\ wire = <<>>
  /\ boot = "init" /\ running = "main"
  /\ at = [c \in Context |-> "idle"]
  /\ left = [c \in Context |-> 0]
  /\ printed = [c \in Context |-> 0]
  /\ overrun = {} /\ flushed = {}
  /\ lines = 0 /\ ticks = 0

-----------------------------------------------------------------------------
(* setup(): init_uart, then configure.                                     *)

Boot(from, to) ==
  /\ boot = from /\ running = "main" /\ at["main"] = "idle"
  /\ boot' = to
  /\ UNCHANGED <<running, printVars, wire, lines, ticks>>

init_uart ==
  /\ Boot("init", "disable")
  /\ base_addr' = "dtb"
  /\ UNCHANGED <<regVars, txfifo, flushed>>

\* 1. Disable the UART.
ConfigureDisable ==
  /\ Boot("disable", "busy")
  /\ cr' = {}
  /\ UNCHANGED <<base_addr, fen, lcr, imsc, dmacr, divisor, txfifo, flushed>>

\* FR.BUSY: set from the first queued character to the last one sent.
Busy == txfifo # <<>>

\* Mutated form: no wait.
ConfigureWait_Skip ==
  Boot("busy", "flush") /\ UNCHANGED <<base_addr, regVars, txfifo, flushed>>

\* 2. Wait for the end of TX: the loop ends.
ConfigureWait ==
  /\ Boot("busy", "flush") /\ ~Busy
  /\ UNCHANGED <<base_addr, regVars, txfifo, flushed>>

\* 3. Flush the FIFOs, by clearing FEN.
ConfigureFlush ==
  /\ Boot("flush", "speed")
  /\ fen' = FALSE
  /\ txfifo' = <<>>
  /\ flushed' = flushed \cup {txfifo[i] : i \in DOMAIN txfifo}
  /\ UNCHANGED <<base_addr, cr, lcr, imsc, dmacr, divisor>>

\* 4. set_speed, for the 24 MHz clock and 115200 baud: the divisor in 64ths, which
\* IBRD and FBRD divide between them.
ConfigureSpeed ==
  /\ Boot("speed", "lcr")
  /\ divisor' = (4 * 24000000) \div 115200
  /\ UNCHANGED <<base_addr, cr, fen, lcr, imsc, dmacr, txfifo, flushed>>

\* 5. and 6. Eight data bits, one stop bit, FIFOs enabled.
ConfigureFrame ==
  /\ Boot("lcr", "imsc")
  /\ lcr' = {5, 6}
  /\ fen' = TRUE
  /\ UNCHANGED <<base_addr, cr, imsc, dmacr, divisor, txfifo, flushed>>

\* 7. Enable RX interrupt.
ConfigureImsc ==
  /\ Boot("imsc", "dmacr")
  /\ imsc' = imsc \cup {"RXIM"}
  /\ UNCHANGED <<base_addr, cr, fen, lcr, dmacr, divisor, txfifo, flushed>>

\* 8. Write 1 to DMACR: its bit 0 is RXDMAE.
ConfigureDma ==
  /\ Boot("dmacr", "enable")
  /\ dmacr' = {"RXDMAE"}
  /\ UNCHANGED <<base_addr, cr, fen, lcr, imsc, divisor, txfifo, flushed>>

\* 9. Enable RX and UART.
ConfigureEnable ==
  /\ Boot("enable", "greet")
  /\ cr' = cr \cup {"UARTEN", "RXEN"}
  /\ UNCHANGED <<base_addr, fen, lcr, imsc, dmacr, divisor, txfifo, flushed>>

Configure ==
  \/ init_uart \/ ConfigureDisable \/ ConfigureWait \/ ConfigureFlush
  \/ ConfigureSpeed \/ ConfigureFrame \/ ConfigureImsc \/ ConfigureDma
  \/ ConfigureEnable

-----------------------------------------------------------------------------
(* putchar                                                                 *)

others == <<base_addr, regVars, wire, boot, flushed>>

\* print! in kmain: the first putchar of a line.
PrintLine ==
  /\ running = "main" /\ at["main"] = "idle"
  /\ at' = [at EXCEPT !["main"] = "poll"]
  /\ left' = [left EXCEPT !["main"] = LineLen]

\* What kmain prints before its loop, taken together as one line.
Greet ==
  /\ PrintLine
  /\ boot = "greet" /\ boot' = "arm"
  /\ UNCHANGED <<base_addr, regVars, wire, flushed, txfifo, running, printed,
                 overrun, lines, ticks>>

\* arm_ms(1000), once the greeting is written.
ArmTimer == Boot("arm", "run") /\ UNCHANGED <<base_addr, regVars, txfifo, flushed>>

\* "You typed: ...".
StartLine ==
  /\ PrintLine
  /\ boot = "run" /\ lines < MaxLines
  /\ lines' = lines + 1
  /\ UNCHANGED <<others, txfifo, running, printed, overrun, ticks>>

\* parse_dtb panics before the UART is set up: the message goes to EARLY_BASE,
\* which is the same device, and the core stops.
EarlyPanic ==
  /\ PrintLine
  /\ boot = "init" /\ boot' = "panic"
  /\ UNCHANGED <<base_addr, regVars, wire, flushed, txfifo, running, printed,
                 overrun, lines, ticks>>

Full == Len(txfifo) >= TxDepth

\* The loop on FR ends: ready is true.
PollUntil(c, ready) ==
  /\ running = c /\ at[c] = "poll"
  /\ ready
  /\ at' = [at EXCEPT ![c] = "write"]
  /\ UNCHANGED <<others, txfifo, running, left, printed, overrun, lines, ticks>>

\* Mutated form: the loop waits while the FIFO is empty (FR bit 7), as the name of
\* the constant FR_TXFE suggests.
PollFR_TXFE(c) == PollUntil(c, txfifo # <<>>)

\* Mutated form: the FIFO is taken to be one longer than it is.
PollFR_OffByOne(c) == PollUntil(c, Len(txfifo) <= TxDepth)

\* The loop waits while FR bit 5, transmit FIFO full, is set.
PollFR(c) == PollUntil(c, ~Full)

\* write_mmio32(base, DR_OFF, c).  The FIFO drops what does not fit.
WriteDR(c) ==
  /\ running = c /\ at[c] = "write"
  /\ LET char == <<c, printed[c] + 1>> IN
     \/ ~Full /\ txfifo' = Append(txfifo, char) /\ UNCHANGED overrun
     \/ Full /\ overrun' = overrun \cup {char} /\ UNCHANGED txfifo
  /\ printed' = [printed EXCEPT ![c] = @ + 1]
  /\ left' = [left EXCEPT ![c] = @ - 1]
  /\ at' = [at EXCEPT ![c] = IF left[c] = 1 THEN "idle" ELSE "poll"]
  /\ UNCHANGED <<others, running, lines, ticks>>

\* The timer, once armed, interrupts kmain; its handler prints a line.
TimerIrq ==
  /\ boot = "run" /\ running = "main" /\ ticks < MaxTicks
  /\ running' = "isr"
  /\ ticks' = ticks + 1
  /\ at' = [at EXCEPT !["isr"] = "poll"]
  /\ left' = [left EXCEPT !["isr"] = LineLen]
  /\ UNCHANGED <<others, txfifo, printed, overrun, lines>>

\* Mutated form: the handler returns and leaves the rest of its line for later.
IrqReturn_Early ==
  /\ running = "isr"
  /\ running' = "main"
  /\ UNCHANGED <<others, txfifo, printVars, lines, ticks>>

\* The handler's println has returned.
IrqReturn ==
  /\ running = "isr" /\ at["isr"] = "idle"
  /\ running' = "main"
  /\ UNCHANGED <<others, txfifo, printVars, lines, ticks>>

-----------------------------------------------------------------------------
\* The UART sends the oldest character of the FIFO: that of the qemu-virt platform
\* does, whatever CR says.
Transmit ==
  /\ txfifo # <<>>
  /\ wire' = Append(wire, Head(txfifo))
  /\ txfifo' = Tail(txfifo)
  /\ UNCHANGED <<base_addr, regVars, boot, running, printVars, flushed, lines,
                 ticks>>

Instruction ==
  \/ Configure \/ Greet \/ ArmTimer \/ IrqReturn
  \/ \E c \in Context : PollFR(c) \/ WriteDR(c)

Next == Instruction \/ StartLine \/ EarlyPanic \/ TimerIrq \/ Transmit

Spec == Init /\ [][Next]_vars

\* The core executes and the UART, when it may, transmits.
FairSpec == Spec /\ WF_vars(Instruction) /\ WF_vars(Transmit)

-----------------------------------------------------------------------------
Output == wire \o txfifo

\* A line printed by the handler comes out in one piece, whatever it interrupts:
\* the n-th character of a line is directly followed by the next one.
IsrLinesWhole ==
  \A i \in 1 .. Len(Output) - 1 :
    (Output[i][1] = "isr" /\ Output[i][2] % LineLen # 0)
      => Output[i + 1] = <<"isr", Output[i][2] + 1>>

\* No character of the handler is dropped: between its poll and its write nothing
\* else can fill the FIFO.
IsrNeverOverruns == \A ch \in overrun : ch[1] # "isr"

\* configure drops no output that was queued before it.
NothingFlushed == flushed = {}

\* Nothing waits for the UART for ever: configure's wait for the end of transmission
\* ends and boot goes on to kmain's loop, or panics; every println! that is started
\* returns, in main code and in the handler.
OutputReturns ==
  /\ <>(boot \in {"run", "panic"})
  /\ \A c \in Context : at[c] # "idle" ~> at[c] = "idle"

\* putchar waits until the FIFO has space, so no character is dropped.
NoOverrun == overrun = {}
=============================================================================
