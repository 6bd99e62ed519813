----------------------------- MODULE UartBuffer -----------------------------
(***************************************************************************)
(* UartBuffer of src/src/drivers/uart/pl011.rs: the circular buffer        *)
(* between the UART interrupt handler (push) and getchar (pop).  Both run  *)
(* inside the interrupt-safe mutex, so each is one step.                   *)
(***************************************************************************)
EXTENDS Naturals, Sequences

CONSTANTS UART_BUFFER_SIZE,  \* 256 in the source
          Byte               \* u8, 0 among them

VARIABLES buffer, head, tail,
          ret    \* the result of the last call; ok stands for true and Some

vars == <<buffer, head, tail, ret>>

Index == 0 .. UART_BUFFER_SIZE - 1

Init ==
  /\ buffer = [i \in Index |-> 0]
  /\ head = 0
  /\ tail = 0
  /\ ret = [ok |-> FALSE, byte |-> 0]

\* The index after i, wrapping at the end of the array.
Advance(i) == (i + 1) % UART_BUFFER_SIZE

\* Mutated form: a full buffer is only noticed once head has caught up with tail.
push_NoGap(byte) ==
  LET next_head == Advance(head) IN
  /\ buffer' = [buffer EXCEPT ![head] = byte]
  /\ head' = next_head
  /\ ret' = [ok |-> TRUE, byte |-> 0]
  /\ UNCHANGED tail

\* Mutated form: head runs up to the size before it wraps.
push_LateWrap(byte) ==
  LET next_head == (head + 1) % (UART_BUFFER_SIZE + 1) IN
  \/ /\ next_head = tail
     /\ ret' = [ok |-> FALSE, byte |-> 0]
     /\ UNCHANGED <<buffer, head, tail>>
  \/ /\ next_head # tail
     /\ buffer' = [buffer EXCEPT ![head] = byte]
     /\ head' = next_head
     /\ ret' = [ok |-> TRUE, byte |-> 0]
     /\ UNCHANGED tail

\* One slot stays empty so that head = tail always means empty.
push(byte) ==
  LET next_head == Advance(head) IN
  \/ /\ next_head = tail
     /\ ret' = [ok |-> FALSE, byte |-> 0]
     /\ UNCHANGED <<buffer, head, tail>>
  \/ /\ next_head # tail
     /\ buffer' = [buffer EXCEPT ![head] = byte]
     /\ head' = next_head
     /\ ret' = [ok |-> TRUE, byte |-> 0]
     /\ UNCHANGED tail

pop ==
  \/ /\ head = tail
     /\ ret' = [ok |-> FALSE, byte |-> 0]
     /\ UNCHANGED <<buffer, head, tail>>
  \/ /\ head # tail
     /\ ret' = [ok |-> TRUE, byte |-> buffer[tail]]
     /\ tail' = Advance(tail)
     /\ UNCHANGED <<buffer, head>>

Next == pop \/ \E b \in Byte : push(b)

Spec == Init /\ [][Next]_vars

-----------------------------------------------------------------------------
TypeOK ==
  /\ buffer \in [Index -> Byte]
  /\ head \in Index
  /\ tail \in Index
  /\ ret \in [ok : BOOLEAN, byte : Byte]

\* The number of bytes from tail up to head, around the end of the array.
Count == IF head >= tail THEN head - tail ELSE head + UART_BUFFER_SIZE - tail

\* The index of the i-th oldest byte.
Slot(i) == IF tail + i <= UART_BUFFER_SIZE
           THEN tail + i - 1
           ELSE tail + i - 1 - UART_BUFFER_SIZE

\* The bytes the buffer holds, oldest first.
Contents == [i \in 1 .. Count |-> buffer[Slot(i)]]

Queue == INSTANCE ByteQueue
           WITH q <- Contents, Capacity <- UART_BUFFER_SIZE - 1

\* push and pop implement a FIFO queue of UART_BUFFER_SIZE - 1 bytes: nothing is
\* reordered, duplicated, overwritten or invented, also across the wrap-around,
\* and only a push onto a full buffer returns false.
ImplementsQueue == Queue!Spec
=============================================================================
