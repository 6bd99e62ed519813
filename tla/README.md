# TLA+ models of aarch64_kernel

This directory holds a verification development for the kernel in `src/`: TLA+
modules for its parts, TLC configurations that check them on small instances, and
proofs of the most important properties that TLAPS checks for every instance.

The kernel is a few thousand lines of Rust and assembly for one core of the
`qemu-virt` machine. It does little, but almost all of it is code that is hard to
test: interrupt handlers that hit main code between any two instructions,
register-level drivers, assembly that has to give registers back, and a parser that
everything else depends on.

## Inventory

| Part | Source | State | Operations | Talks to |
|---|---|---|---|---|
| Interrupt-safe mutex | `ipc/irq_safe_mutex.rs` | the flag, PSTATE.I, the saved DAIF | `lock`, `lock_irqsafe` | used by `getchar` and `do_irq` |
| Receive ring | `drivers/uart/pl011.rs:34-88` | `buffer`, `head`, `tail` | `push`, `pop` | inside the mutex `RX_BUFFER` |
| UART transmission | `drivers/uart/pl011.rs:111-381` | `UART`, PL011 registers | `configure`, `putchar`, `setup` | every `println!`, in main code and handlers |
| Interrupt handling | `kernel/irq.rs`, `asm/vectors.S` | the GIC's active interrupt, the handler's position | `irq_handler`, `do_irq`, `sync_handler` | UART, timer, GIC |
| Exception frames | `asm/vectors.S`, `include/asm/macro.h` | registers, stack | `save_regs`, the two exits | every handler |
| GICv3 driver | `drivers/gic/gicv3.rs` | distributor, redistributor and CPU interface registers | `setup`, `set_*`, `enable_*` | called by the drivers' `setup` |
| Device tree | `kernel/dtb.rs`, `kernel/device.rs` | `DEVICE_TABLE`, `PHANDLE_TABLE` | `parse_dtb`, lookups, `init_devices` | calls the drivers' `setup` |
| Timer | `drivers/timer/arch_timer.rs` | CNTP_CTL, CVAL and TVAL | `arm`, `arm_ms`, `rearm`, `set_*`, `enable`, `disable`, masking, `setup` | interrupt 30, `kmain`, `do_irq` |
| Main loop | `lib.rs` | the character in hand | `kmain` | `getchar`, `println!` |
| Memory management | `kernel/mm/*`, `linker.lds` | page tables, MAIR, TTBR0, TCR, SCTLR | `setup_mair_ranges`, `setup_identity_mapping`, once at boot | every access after it |
| Boot code | `asm/head.S` | stack, vector base, DAIF | `_start` | unmasks IRQs, then calls `kmain` |
| Helpers | `utilities/*` | none | MMIO accesses, big-endian reads | all drivers |

What is hard, and what makes each part correct:

- *Mutex.* One flag shared by main code and handlers. Correct: exclusion; a handler
  never spins on what the code below it holds; the IRQ mask is what it was before.
- *Ring.* Two indices that wrap. Correct: it is a FIFO queue, and refuses a byte only
  when it is full.
- *Main loop and `do_irq`.* Any interleaving. Correct: bytes are printed in order, once,
  and only a full FIFO or ring drops one; acknowledged interrupts are ended; the loop
  never starves.
- *UART transmission.* Poll, then write, interruptible in between. Correct: nothing is
  dropped, a handler's line is not torn, everything ends.
- *Exception frames.* Correct: whatever nests, the interrupted code gets its registers
  back, and handlers see those they are promised.
- *GIC driver.* Several interrupts per register. Correct: a call changes one field of
  one interrupt; nothing is configured before the redistributor is awake.
- *Device tree.* A hand-written stack over an arbitrary tree, fixed-size tables.
  Correct: parents and properties are those of the tree; the GIC comes first; no device
  is forgotten or set up twice; drivers are given values of the right nodes.
- *Timer.* A 32-bit product in a signed register, two writes that an interrupt may
  separate. Correct: it fires when it was asked to, and goes on firing.
- *Boot.* IRQs are unmasked before any driver knows its device. Correct: no interrupt is
  handled before it can be, none is lost, and the boot core gets to its loop.
- *Memory management.* Descriptors or-ed into memory nobody has cleared, read by hardware
  from the next instruction on. Correct: code, stack and devices are where they were.

The hazards, line by line, are in `PROJECT.json`.

## Modules

| Module | Models | Composed from |
|---|---|---|
| `IrqSafeMutex` | `lock_irqsafe` on any number of CPUs, with IRQ entry and return | |
| `ByteQueue` | abstract: a bounded FIFO queue | |
| `UartBuffer` | the receive ring; `ImplementsQueue` is its refinement of `ByteQueue` | `ByteQueue` |
| `Kernel` | `kmain`'s loop against `irq_handler`/`do_irq`, the PL011 receiver, the timer line and the GIC's IAR/EOIR | `IrqSafeMutex`, `UartBuffer` |
| `Console` | `configure`, `putchar` in main code and in the timer handler, the transmit FIFO | |
| `InterruptConfig` | abstract: one configuration record per interrupt | |
| `Gicv3` | every register write of the GIC driver; `ImplementsConfig` is its refinement | `InterruptConfig` |
| `DeviceTree` | `parse_dtb`, the lookups and `init_devices`, on a tree that is made up token by token | |
| `ExceptionFrame` | the assembly of exception entry and exit, one instruction per step | |
| `ArchTimer` | the timer driver with its counter, called by main code and by the rearming handler | |
| `IdentityMap` | `kernel/mm`: MAIR, both table levels, TTBR0, TCR, the MMU, and how the table walker reads them | |
| `Boot` | from `head.S` to `kmain`'s loop, with `do_irq` between any two steps | `Gicv3`, `IdentityMap` |
| `IrqSafeMutexProofs`, `KernelProofs`, `Gicv3Proofs`, `ArchTimerProofs`, `DeviceTreeProofs`, `ConsoleProofs`, `ExceptionFrameProofs`, `BootProofs` | proofs | the modules they are named after; `KernelProofs` begins with the proofs about the ring and instantiates `IrqSafeMutexProofs` |
| `MCGicv3`, `MCDeviceTree`, `MCBoot` | values for TLC | |

How state and actions correspond to the code:

- **IrqSafeMutex.** `lock` is `Mutex.lock`. `pc[c][l]` is the next instruction of
  `lock_irqsafe` in context `l` of CPU `c` (0 is main code, `l` the `l`-th nested
  handler), `daif_state` its local, `daif` the I bit, `spsr` the I bit that `save_regs`
  stacked. `ReadDaif`, `MaskIrq`, `Acquire`, `Release`, `RestoreDaif` are the
  instructions of the call; `TakeIrq` may happen wherever the I bit is clear. A failing
  compare-and-exchange changes nothing and has no action. The code has one core today;
  the type is `Sync`, so the model has any number.
- **UartBuffer.** The fields of the struct. Each method is one step, because both are
  only called inside the mutex. `ret` is the value the last call returned.
- **Kernel.** An instance of each of the two modules above for `RX_BUFFER`, the program
  positions of `kmain` (`main`) and `irq_handler` (`isr`), and the devices. The closure
  passed to `lock_irqsafe` runs in the `Release` step. Bytes are numbered in the order
  of their arrival, so that order and identity are visible. `uart_id` is the interrupt
  the device tree gave the UART; `do_irq` has 30 and 33 written into it, so any
  other one reaches its default arm. The receive interrupt rises when the FIFO reaches the trigger
  level, falls when a read takes it below, and is cleared by ICR; the timer's line stays
  high until the timer is rearmed; both have the same priority, so the GIC signals
  nothing while one is active. `paced` is chosen once: either bytes arrive at any time, or
  one only arrives when the handler is done with the last one and the ring has a free slot.
- **Console.** The steps of `configure` in their order, `PollFR` (the loop on FR ends)
  and `WriteDR` as separate steps of each context. A context prints lines of `LineLen`
  characters; all that `kmain` prints before its loop counts as one line.
- **Gicv3.** A register is the set of its one bits, addressed by the offset the code
  computes. `PpiConfig` and `SpiConfig` decode the registers per interrupt as the
  architecture lays them out, independently of the code's arithmetic.
- **DeviceTree.** `TreeBegin`, `TreeProp` and `TreeEnd` extend a well-formed tree at
  random, and `FdtBeginNode`, `FdtProp` and `FdtEndNode` are the arms of the parser that
  see the token. An array index out of range and an unknown token panic. `calls` is the
  sequence of `setup_fn` calls, each with the interrupt controller and the cells that the
  driver looks up for its device.
- **ExceptionFrame.** The code of each vector as a sequence of instructions, executed
  on registers and a word-addressed stack. Handlers written in Rust may change
  what the procedure call standard lets them change. The handlers that panic read their
  frame through the field order of `struct Regs`.
- **ArchTimer.** The state is `left`, the distance of the counter from the compare value,
  and the two writable bits of CNTP_CTL. 2^31 and the 1000 of `arm_ms` are parameters, so
  that small products wrap and round. `arm` is two steps, because the handler may run
  between its register writes. `earliest` and `latest` are history: what the last call
  promised, counted down by the clock; `fits` remembers whether it is an interval that TVAL
  can hold.
- **IdentityMap.** Registers and descriptors as sets of bits; the L1 table starts with any
  contents of `Garbage`. `walk` is what the table walker sees: it changes at the barriers
  of `load_ttbr0` only. `MappedAs` and `Executable` read registers and tables as the
  architecture does. `Pages` is 0 for the real addresses (`identity.rs:29`).
- **Boot.** Instances of `Gicv3` for the two interrupts of `do_irq` and of `IdentityMap`, the
  position of the boot core, `UART.base_addr`, and of the devices what raises interrupts.
  `dt` is chosen once: the order of the devices, which of them have `interrupts`, whether the
  UART has a `reg`, and the trigger mode. `do_irq` is one step here and is taken before the
  next step of the boot core whenever the GIC signals; accesses with a null
  base address do not reach the UART.

## Runs

| Run | Shows | Bounds and why they are enough |
|---|---|---|
| `mutex` | exclusion, no self-deadlock, no nested handler, the mask is restored, the inductive invariant, progress | two CPUs race; room for two nested handlers although one is the most there may be, so nesting would be seen |
| `kernel` | the ring implements the queue, order, no loss, no stale data, IAR and EOIR balanced, each byte printed of a sender that does not outrun handler and ring, each timer expiration handled while bytes arrive, the loop goes on; with the UART on INTID 33 and on 34 | FIFO of 2, ring of 3, five bytes: both overflow, and the ring is full, empty and wrapped at every offset (the proof covers other sizes); two timer expirations |
| `kernel_stranded` | *violated:* `Delivered` when bytes arrive at any pace | three bytes |
| `gic` | one field (enable, group, trigger, priority) of one interrupt per call, routing aside; the redistributor is awake | two PPIs and two SPIs that share registers; three contents of the registers at reset, so that every bit starts at 0 and at 1 |
| `dtb_parse` | parents, properties, what drivers look up in other nodes, order and completeness of set-up | all trees of up to four nodes, with up to three of seven properties; tables small enough to overflow |
| `dtb_gic_first` | *violated:* the GIC is set up first | three nodes |
| `console` | the handler's lines are whole and complete, nothing queued is flushed, `println!` and `configure` end | FIFO of 2, lines of 2, two lines and two interrupts: the FIFO is full at every position of a line |
| `console_overrun` | *violated:* no character is dropped | one line, one interrupt |
| `frame` | registers, stack pointer, ELR and SPSR survive; `do_sync` gets x8; frames stay intact | three nested exceptions: main, a handler, a fault in it, a fault in that one |
| `timer` | the timer is never late, never early where TVAL can hold the interval, fires after every `arm`, and for ever | half the range of TVAL is 8, intervals from 0 to 15 ticks, a product beyond the range; three calls from any state of the control register |
| `timer_overflow` | *violated:* the timer is never early, whatever the argument | as `timer` |
| `boot` | no interrupt for an unknown UART, no reconfiguration while enabled, memory mapped when the MMU goes on, the loop is reached, and a receive interrupt pending there is handled | both orders of the devices or no UART, each with and without `interrupts`, `reg` and edge triggering, GIC registers zero or set to edge and a low priority, tables zero or stale; a byte or an expired timer at every step |

Deadlock is checked in all runs but those of `DeviceTree`, `Console`, `ExceptionFrame` and
`ArchTimer`, where the system stops: boot ends, a panic is final, the bounded
input is used up, a disabled timer is never enabled again.

### What the violated runs show

- `kernel_stranded`: arm 33 of `do_irq` reads one byte and then clears the receive
  interrupt (`irq.rs:202-205`). A byte that arrives in between stays in the FIFO, and
  the interrupt that would fetch it has been cleared. In the model it is delivered when the
  next byte arrives, one byte late from then on, because the interrupt is raised again
  whenever a byte arrives and the FIFO holds at least the trigger level; a receiver that
  raised it only at the moment the level is reached would not even do that.
- `dtb_gic_first`: `prop_id` is reset by every node and not restored when a
  child ends (`dtb.rs:159`, `195`), so a node with children gets the number of properties
  of its last child. Properties beyond it cannot be found, and if `compatible`
  is among them the GIC is not recognised.
  The same fault breaks the promise of `get_parent_cells`, "Get #address-cells and
  #size-cells from the device's parent ... defaults to (2, 1) if not found"
  (`device.rs:102-103`): cells beyond the count are missed, the defaults are returned
  although the parent has others (`device.rs:114`), and `reg` is decoded with the wrong
  layout. `DriverSeesTree` shows that this happens nowhere but at a parent that has more
  properties than its count says (`CountLost`), and that nothing worse does.
- `timer_overflow`: TVAL is signed and `arm_ms` truncates its product to 32 bits
  (`arch_timer.rs:149`): intervals of 2^31 ticks or more (34 s at 62.5 MHz) fire at once,
  or after what is left of them. `InWindow` shows that all others are right, and that none is late.
- `console_overrun`: `putchar` polls and writes with IRQs enabled (`pl011.rs:217-218`).

Other places where the code and its comments differ, met while modelling and not given
a run of their own, because a single line shows them: `set_spi_routing` adds 8 × INTID to
0x6100, which already is the register of INTID 32 (`gicv3.rs:38`, `220`); `init_gic` sets no
affinity routing bit although its comment says so (`gicv3.rs:90`, `283`); `configure` writes
1 to DMACR under the heading "Disable DMA", never sets TXEN, and waits for the
transmitter after disabling it (`pl011.rs:171-173`, `195`, `197`; the emulated UART
transmits regardless, and so does the model's); `struct Regs` is not laid out in the
order of the pushes (`irq.rs:23`: spsr and elr are swapped, and the zero pushed
beside x0 is missing), so that the fatal handlers show the wrong instruction and the wrong
registers; `sync_handler` masks the exception class with 0x15 and tests for zero
(`vectors.S:63-66`), so that a data abort (37) passes as a system call and what is
reported as unimplemented is always class 0; `configure_tcr` overwrites x0 to x3 in an asm
block that does not declare them (`identity.rs:79-95`); `__idmap_l1` has no page of its own
and shares the lowest one of the stack (`linker.lds:47`).

### Fairness

- `IrqSafeMutex`: a CPU that is inside `lock_irqsafe` keeps executing (weak fairness per
  CPU). Nothing forces a context to enter, nor an IRQ to come. The spinlock is unfair, so
  no single context is promised entry.
- `Kernel`: the core keeps executing (weak fairness). A signalled interrupt is taken at
  an instruction that runs unmasked; since the polling loop masks and unmasks for
  ever, it is enabled again and again but never continuously, which takes strong
  fairness. Hardware takes a pending interrupt at the first unmasked instruction, which
  is stronger. Bytes and timer expirations are not fair.
- `ArchTimer`: the core executes, time passes, a pending interrupt is taken. Nothing makes
  main code call the driver.
- `Boot`: the boot core runs whenever the GIC signals nothing; interrupts preempt it, so
  this takes strong fairness, and is justified because a byte or an expiration comes once
  in thousands of instructions (the timer's interval is a second, so it does not expire
  while an interrupt is waiting). A signalled interrupt is taken, and a redistributor that
  has been told to wake up does.
- `Console`: the core executes and the UART transmits.

## Proofs

`IrqSafeMutexProofs` proves, for every set of CPUs and every bound on nesting, type
correctness, mutual exclusion, the absence of self-deadlock, that handlers do not nest
and that the IRQ mask is transparent. None of them is inductive alone: exclusion needs
to know that the flag is set exactly while a closure runs; that a restore is harmless
needs to know what was read; and that what was read is right needs to know
which context runs masked. `MutexInv` says all this together: a context between masking
and restoring is the running one, and masked; levels above the running one are idle; main code
has remembered "unmasked" and a handler "masked"; the depth is at most 1. `MutexInvariant`
proves that every action preserves it, one case per action, and the named
properties follow from it. The only assumption is `NestAssumption`.

The first part of `KernelProofs` is about the ring alone, as `Kernel` instantiates it: for
every size and any number of byte values the indices stay in range and the ring implements
`ByteQueue`. The lemmas say what the modulus of `Advance` does at the wrap, that `push` appends
to `Contents`, that `pop` removes its first element, that the test for full is exact, and that
a write to the free slot changes no byte that is held; `RingStepRefines` combines them per
action.

The rest of it composes ring and mutex. `KernelUsesMutex` and `KernelUsesRing` show that every
step of the kernel is a step of the mutex and of the ring, or leaves them alone; the invariants
proved of the components are then invariants of the kernel, and are used as such
(`OneCore`, the ring's types and what its calls do to `Contents`). `KernelImplementsQueue` is
the refinement that the run `kernel` checks. On top of them come

- `Control`: where `kmain`, `irq_handler` and their calls of `lock_irqsafe` may be at the
  same time, and that an interrupt is active from the read of IAR to the write of EOIR;
  this gives `KernelActiveWhileHandled`;
- `Data`: the receive line is high only while the FIFO holds the trigger level, and nobody
  else takes bytes out between the read of IAR and that of DR; without it
  `KernelHandlerSeesData` is not inductive, for the handler never looks at FR;
- `Pipe`: printed, in hand, in the ring and in the FIFO, put behind each other, the bytes
  increase, and together with the lost ones they are all that was sent. An action moves
  a byte across one boundary of this sequence, which leaves it as it is, appends to it or
  turns one byte into a lost one. `KernelBytesInOrder` and `KernelEveryByteAccounted`
  follow.

Assumption: `KernelAssumption` (positive sizes, a trigger level within the FIFO, an SPI for
the UART and a PPI for the timer). FIFO, ring, trigger, and the numbers of bytes and
expirations are arbitrary.

`Gicv3Proofs`. `GicImplementsConfig` is a refinement: the mapping is `Decoded`. It rests on a
lemma about a field of a register (`ReplaceBit`), and on one about two interrupts
(`Written`): if their fields are `Apart`, writing one leaves the other's configuration
alone. That two INTIDs are apart, in different registers or at different places in
the same one, is proved from the divisions and remainders of the code; `Registers`, that
registers hold 32 bits, is the invariant this needs. `GicAwakeWhenReady` needs to know that
ProcessorSleep was cleared first (`Waking`). Assumptions: `IdAssumption`, `ValueAssumption`.

`ArchTimerProofs`. `InWindow` is inductive with the types of the three distances. The work is
in arithmetic: `RoundedDown` bounds what `arm_ms` loses by dividing before it multiplies, and
truncation to TVAL is a remainder (`Tval`: no interval becomes longer, and one below half the
range is kept, which is why the lower bound needs `fits`). Assumptions: `FreqAssumption`, `MsAssumption`,
`TicksAssumption`; the width, the frequency and all arguments are arbitrary.

`DeviceTreeProofs`, for trees of every depth and size and every set of properties:

- `TablesRight` (the stack holds the open nodes, parents are those of the tree, stored
  properties are of their own node) gives the first three theorems;
- `Leaves`: the innermost open node has a child or has all its properties below
  `prop_id`. Needed because the parser stores the count at the end of a node,
  when `prop_id` may be that of a child: the reason why the theorem is about
  leaves, and why `dtb_gic_first` is violated;
- `Passes`: what the two passes of `init_devices` have called so far;
- `Handles`: a registered phandle is one of its node, and
- `Counted`: until a panic every property of a node is stored at an index below their
  number, because they come before its children. Both are for
  `DeviceTreeDriverSeesTree`: a property that a search misses is stored behind the count, so
  the count is less than the number of properties, the one case in which the theorem
  allows the defaults in place of the parent's cells.

Assumptions: `LimitAssumption` (positive table sizes) and `PropAssumption` (a property is a
name and a value).

`ConsoleProofs`, for every depth of the FIFO and length of a line. `Contexts` says where the
two contexts may be; in particular the FIFO has space while the handler is between its
poll and its write, for nobody can run in between. `Lines` follows the last character of the
output: if it is inside a line of the handler, the handler is still running and wrote it
last. Assumption: `ConsoleAssumption`.

`ExceptionFrameProofs`, for every depth of nesting, size of the stack and set of exception
classes. The three properties speak about the moment a handler is called or an `eret` is
executed; what makes them true is every instruction before, so the invariant `Frames` describes
each position in the code:

- `Pushed` is the number of words on the stack there. Frames therefore lie 36 words apart,
  that of depth `d` below `StackWords - 36 * (d - 1)`, and what a nested exception pushes is below all
  of them;
- `Stored` is what the frame holds of the interrupted code at that position, `Entering` and
  `Leaving` are what the registers hold of it. They differ in more than the registers not
  yet pushed: save_regs works in x1, x2 and x3, which it has just pushed, and the exit puts ELR
  and SPSR back through x2 and x3, before it loads these;
- all exceptions but the innermost one wait at the call of their handler (`Waits`), so that
  their frames are complete when they go on;
- `Told` is what the handlers were given of the frame.

The proof has one lemma per kind of instruction: a push writes the two words below the stack
pointer and disturbs no other word of any frame; a pop returns what `Stored` says; the branch,
the dispatch and the handler change registers only that no later instruction relies on; an
`eret` makes the exception below the innermost one again, with the registers that
`Leaving` says. Lemmas about `Code` say which instruction is at which position, so that no step
expands it. Assumption: `FrameAssumption`; without room for the frames of all nested exceptions a
push would leave the stack.

`BootProofs`, for every device tree and all that memory held. `UartKnown`: the receive
interrupt is unmasked, or latched, only with a base address. `Mapping`: what each
register and table entry holds after each step of the set-up, and that the walker sees the
tables only from `load_ttbr0` on. `SetupOnce`: an interrupt is disabled as long as its device is
still to be set up or being set up, and no device is set up twice. This last one
needs `FirmwareAssumption`: if firmware had left one of the two interrupts enabled, the drivers
would change its trigger mode while it is, for nothing disables it first. The other two
theorems do not use it.

Only model-checked:

- all liveness (`SomeoneEnters`, `DeliveredOneByOne`, `TimerServed`, `PollsForever`, `OutputReturns`,
  `ArmRings`, `TicksForever`, `BootServes`): the prover does not reason about fairness;
- what the recursive function `Ancestors` computes: `DeviceTreeDriverSeesTree` says that what a
  driver looks up is at a device of `Ancestors`, and uses no more of it than that; the prover does not do induction over data.

## Assumed of the platform

The loader clears `.bss` (the L0 entry is or-ed into); MAIR_EL1 is 0 at reset; firmware
leaves the UART's interrupts masked and the UART working, and the two interrupts the kernel
uses disabled in the GIC, as they are after a reset; the GIC's node has a `reg`; the
UART transmits whatever CR says, as the emulated one does; the timer's frequency is below
2^31 Hz; the stack has room for the frames of the exceptions that nest.

`Kernel` starts with an empty receive FIFO and no receive interrupt. `Boot` leaves open
whether the flush of `configure` takes a pending receive interrupt along; where it does not,
`do_irq` is called once for an empty FIFO and pushes whatever DR reads as. That
hand-over is outside `HandlerSeesData`.

## Not modelled

- The GIC without a `reg`: its base addresses stay 0 and what the writes do there depends on
  the machine (`gicv3.rs:412`).
- Bytes, offsets and alignment of the device tree blob, and with them `convert.rs`; the
  UART's clock frequency, which is the emulated machine's constant in `Console`.
- Depth of the stack, which shares a page with the L1 table.
- The contents of what is printed, and the text of strings and names in the device tree.
- Memory ordering: the atomics in the mutex give the order that the model has; the
  effect of `nomem` on the asm blocks is a question to the compiler.
- Floating point registers, which the entry code does not save, and what the compiler keeps
  in the registers that `configure_tcr` overwrites.
- `set_baudrate`, `set_data_bits`, `set_stop_bits`, and the getters of the timer's counter,
  timer value and compare value, which nothing calls.

## Plan

Done: the receive path (mutex, ring, main loop and handler); GIC configuration; device
tree; console; exception frames; the timer's arithmetic; the identity map; boot against
interrupts. All safety properties of the runs are proved, for every value of the constants.

Left to TLC, for the reasons given under Proofs: liveness, and what the recursive function
`Ancestors` computes.
