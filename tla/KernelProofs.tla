---------------------------- MODULE KernelProofs ----------------------------
(***************************************************************************)
(* The receive path, for every size of FIFO and ring, every trigger level, *)
(* every interrupt number and any number of bytes and timer expirations.   *)
(*                                                                         *)
(* Kernel is composed of the mutex and the ring; so are the proofs.  Every *)
(* step of the kernel is a step of the mutex and of the ring, or leaves    *)
(* them alone, so what IrqSafeMutexProofs proves of the mutex and the      *)
(* first part of this module of the ring holds in the kernel.              *)
(***************************************************************************)
EXTENDS Kernel, SequenceTheorems, TLAPS

MutexFacts == INSTANCE IrqSafeMutexProofs WITH CPU <- {Core}, MaxNest <- 1

-----------------------------------------------------------------------------
(* The ring: push and pop implement the queue of ByteQueue, for every size *)
(* of the ring.                                                            *)

Bytes == 0 .. MaxBytes

LEMMA RingSize == UART_BUFFER_SIZE \in Nat \ {0}
BY KernelAssumption

LEMMA ZeroByte == 0 \in Bytes
BY KernelAssumption DEF Bytes

\* The modulus of push and pop wraps an index of the array to 0 at its end and
\* increments it everywhere else.
LEMMA AdvanceWraps ==
  ASSUME NEW i \in Ring!Index
  PROVE  Ring!Advance(i) = IF i + 1 = UART_BUFFER_SIZE THEN 0 ELSE i + 1
<1> DEFINE N == UART_BUFFER_SIZE
<1>1. N \in Nat /\ N > 0 /\ i \in Nat /\ i + 1 <= N
  BY RingSize DEF Ring!Index
<1> HIDE DEF N
<1>2. CASE i + 1 = N
  <2>1. (i + 1) % N = 0
    BY <1>1, <1>2
  <2> QED  BY <2>1, <1>2 DEF Ring!Advance, N
<1>3. CASE i + 1 < N
  <2>1. (i + 1) % N = i + 1
    BY <1>1, <1>3
  <2> QED  BY <2>1, <1>3, <1>1 DEF Ring!Advance, N
<1> QED  BY <1>1, <1>2, <1>3

\* The index after an index of the array is an index of the array.
LEMMA AdvanceInRange ==
  ASSUME NEW i \in Ring!Index
  PROVE  Ring!Advance(i) \in Ring!Index
BY AdvanceWraps, RingSize DEF Ring!Index

\* The results push and pop build are results.
LEMMA RingResultType ==
  ASSUME NEW b \in Bytes
  PROVE  /\ [ok |-> TRUE, byte |-> b] \in [ok : BOOLEAN, byte : Bytes]
         /\ [ok |-> FALSE, byte |-> b] \in [ok : BOOLEAN, byte : Bytes]
OBVIOUS

\* push and pop never index outside the array, and pop returns only bytes.
THEOREM RingTypeCorrect == Ring!Spec => []Ring!TypeOK
<1>1. Ring!Init => Ring!TypeOK
  BY RingSize, ZeroByte DEF Ring!Init, Ring!TypeOK, Ring!Index, Bytes
<1>2. Ring!TypeOK /\ [Ring!Next]_(Ring!vars) => Ring!TypeOK'
  <2> SUFFICES ASSUME Ring!TypeOK, [Ring!Next]_(Ring!vars) PROVE Ring!TypeOK'
    OBVIOUS
  <2>1. ASSUME NEW b \in Bytes, Ring!push(b) PROVE Ring!TypeOK'
    <3>1. Ring!Advance(head) \in Ring!Index
      BY AdvanceInRange DEF Ring!TypeOK
    <3>2. buffer' \in [Ring!Index -> Bytes] /\ head' \in Ring!Index /\ tail' \in Ring!Index
      BY <2>1, <3>1 DEF Ring!push, Ring!TypeOK, Bytes
    <3>3. ret' \in [ok : BOOLEAN, byte : Bytes]
      <4>1. ret' = [ok |-> FALSE, byte |-> 0] \/ ret' = [ok |-> TRUE, byte |-> 0]
        BY <2>1 DEF Ring!push
      <4> QED  BY <4>1, RingResultType, ZeroByte
    <3> QED  BY <3>2, <3>3 DEF Ring!TypeOK, Bytes
  <2>2. CASE Ring!pop
    <3>1. Ring!Advance(tail) \in Ring!Index /\ buffer[tail] \in Bytes
      BY AdvanceInRange DEF Ring!TypeOK, Bytes
    <3>2. buffer' \in [Ring!Index -> Bytes] /\ head' \in Ring!Index /\ tail' \in Ring!Index
      BY <2>2, <3>1 DEF Ring!pop, Ring!TypeOK, Bytes
    <3>3. ret' \in [ok : BOOLEAN, byte : Bytes]
      <4>1. \/ ret' = [ok |-> FALSE, byte |-> 0]
            \/ ret' = [ok |-> TRUE, byte |-> buffer[tail]]
        BY <2>2 DEF Ring!pop
      <4> QED  BY <4>1, <3>1, RingResultType, ZeroByte
    <3> QED  BY <3>2, <3>3 DEF Ring!TypeOK, Bytes
  <2>3. CASE UNCHANGED Ring!vars
    BY <2>3 DEF Ring!vars, Ring!TypeOK
  <2> QED  BY <2>1, <2>2, <2>3 DEF Ring!Next, Bytes
<1> QED  BY <1>1, <1>2, PTL DEF Ring!Spec

-----------------------------------------------------------------------------
\* The contents are a sequence of at most UART_BUFFER_SIZE - 1 bytes, each read
\* from a slot of the array.
LEMMA RingContentsType ==
  ASSUME Ring!TypeOK
  PROVE  /\ Ring!Count \in 0 .. UART_BUFFER_SIZE - 1
         /\ \A i \in 1 .. Ring!Count : Ring!Slot(i) \in Ring!Index
         /\ Ring!Contents \in Seq(Bytes)
         /\ Len(Ring!Contents) = Ring!Count
<1>1. Ring!Count \in 0 .. UART_BUFFER_SIZE - 1
  BY RingSize DEF Ring!TypeOK, Ring!Index, Ring!Count
<1>2. \A i \in 1 .. Ring!Count : Ring!Slot(i) \in Ring!Index
  BY RingSize DEF Ring!TypeOK, Ring!Index, Ring!Count, Ring!Slot
<1>3. \A i \in 1 .. Ring!Count : buffer[Ring!Slot(i)] \in Bytes
  BY <1>2 DEF Ring!TypeOK, Bytes
<1>4. Ring!Contents \in [1 .. Ring!Count -> Bytes]
  BY <1>3 DEF Ring!Contents
<1>5. Ring!Count \in Nat
  BY <1>1, RingSize
<1> QED  BY <1>1, <1>2, <1>4, <1>5

\* An accepted push appends its byte to the contents, and the slot it writes holds
\* none of the bytes not read yet.
LEMMA PushAppends ==
  ASSUME Ring!TypeOK, Ring!TypeOK', NEW b \in Bytes,
         Ring!Advance(head) # tail,
         buffer' = [buffer EXCEPT ![head] = b],
         head' = Ring!Advance(head),
         tail' = tail
  PROVE  Ring!Count < UART_BUFFER_SIZE - 1 /\ Ring!Contents' = Append(Ring!Contents, b)
<1>1. head \in Ring!Index /\ tail \in Ring!Index
  BY DEF Ring!TypeOK
<1>2. head' = IF head + 1 = UART_BUFFER_SIZE THEN 0 ELSE head + 1
  BY <1>1, AdvanceWraps
<1>3. Ring!Count < UART_BUFFER_SIZE - 1 /\ Ring!Count' = Ring!Count + 1
  BY <1>1, <1>2, RingSize DEF Ring!Index, Ring!Count
<1>4. \A i \in 1 .. Ring!Count : Ring!Slot(i)' = Ring!Slot(i) /\ Ring!Slot(i) # head
  BY <1>1, RingSize DEF Ring!Index, Ring!Count, Ring!Slot
<1>5. Ring!Slot(Ring!Count)' = head
  BY <1>1, <1>3, RingSize DEF Ring!Index, Ring!Count, Ring!Slot
<1>6. Ring!Count \in Nat /\ Ring!Contents \in Seq(Bytes) /\ Len(Ring!Contents) = Ring!Count
  BY RingContentsType, RingSize
<1>7. \A i \in 1 .. Ring!Count : Ring!Contents'[i] = Ring!Contents[i]
  <2> SUFFICES ASSUME NEW i \in 1 .. Ring!Count PROVE Ring!Contents'[i] = Ring!Contents[i]
    OBVIOUS
  <2>1. i \in 1 .. Ring!Count'
    BY <1>3, <1>6
  <2>2. Ring!Contents'[i] = buffer'[Ring!Slot(i)']
    BY <2>1 DEF Ring!Contents
  <2>3. buffer'[Ring!Slot(i)'] = buffer[Ring!Slot(i)]
    BY <1>4, RingContentsType DEF Ring!TypeOK
  <2> QED  BY <2>2, <2>3 DEF Ring!Contents
<1>8. Ring!Contents'[Ring!Count + 1] = b
  <2>1. Ring!Count' \in 1 .. Ring!Count'
    BY <1>3, <1>6
  <2>2. Ring!Contents'[Ring!Count'] = buffer'[Ring!Slot(Ring!Count)']
    BY <2>1 DEF Ring!Contents
  <2> QED  BY <2>2, <1>5, <1>3, <1>1 DEF Ring!TypeOK
<1>9. Ring!Contents' \in Seq(Bytes) /\ Len(Ring!Contents') = Ring!Count'
  <2>1. Ring!Count' \in Nat
    BY <1>3, <1>6
  <2>2. \A i \in 1 .. Ring!Count' : Ring!Contents'[i] \in Bytes
    <3>1. \A i \in 1 .. Ring!Count' : i \in 1 .. Ring!Count \/ i = Ring!Count + 1
      BY <1>3, <1>6
    <3>2. \A i \in 1 .. Ring!Count : Ring!Contents[i] \in Bytes
      BY <1>6
    <3> QED  BY <3>1, <3>2, <1>7, <1>8
  <2>3. Ring!Contents' = [i \in 1 .. Ring!Count' |-> Ring!Contents'[i]]
    BY DEF Ring!Contents
  <2>4. Ring!Contents' \in [1 .. Ring!Count' -> Bytes]
    BY <2>2, <2>3
  <2> QED  BY <2>1, <2>4
<1>10. Append(Ring!Contents, b) \in Seq(Bytes) /\ Len(Append(Ring!Contents, b)) = Ring!Count + 1
  BY <1>6
<1>11. \A i \in 1 .. Ring!Count + 1 : Ring!Contents'[i] = Append(Ring!Contents, b)[i]
  <2>1. \A i \in 1 .. Ring!Count : Append(Ring!Contents, b)[i] = Ring!Contents[i]
    BY <1>6
  <2>2. Append(Ring!Contents, b)[Ring!Count + 1] = b
    BY <1>6
  <2>3. \A i \in 1 .. Ring!Count + 1 : i \in 1 .. Ring!Count \/ i = Ring!Count + 1
    BY <1>6
  <2> QED  BY <2>1, <2>2, <2>3, <1>7, <1>8
<1> HIDE DEF Ring!Contents, Ring!Count
<1> QED  BY <1>3, <1>9, <1>10, <1>11

\* A pop of a non-empty ring returns the oldest byte and removes it.
LEMMA PopRemoves ==
  ASSUME Ring!TypeOK, Ring!TypeOK', head # tail, head' = head, buffer' = buffer,
         tail' = Ring!Advance(tail)
  PROVE  /\ Ring!Contents # <<>>
         /\ buffer[tail] = Head(Ring!Contents)
         /\ Ring!Contents' = Tail(Ring!Contents)
<1>1. head \in Ring!Index /\ tail \in Ring!Index
  BY DEF Ring!TypeOK
<1>2. tail' = IF tail + 1 = UART_BUFFER_SIZE THEN 0 ELSE tail + 1
  BY <1>1, AdvanceWraps
<1>3. Ring!Count > 0 /\ Ring!Count' = Ring!Count - 1
  BY <1>1, <1>2, RingSize DEF Ring!Index, Ring!Count
<1>4. \A i \in 1 .. Ring!Count - 1 : Ring!Slot(i)' = Ring!Slot(i + 1)
  BY <1>1, <1>2, RingSize DEF Ring!Index, Ring!Count, Ring!Slot
<1>5. Ring!Slot(1) = tail
  BY <1>1, RingSize DEF Ring!Index, Ring!Slot
<1>6. Ring!Count \in Nat /\ Ring!Contents \in Seq(Bytes) /\ Len(Ring!Contents) = Ring!Count
  BY RingContentsType, RingSize
<1>7. Ring!Contents[1] = buffer[tail]
  BY <1>3, <1>5, <1>6 DEF Ring!Contents
<1>8. Ring!Contents # <<>> /\ Head(Ring!Contents) = Ring!Contents[1]
  BY <1>3, <1>6
<1>9. Tail(Ring!Contents) \in Seq(Bytes) /\ Len(Tail(Ring!Contents)) = Ring!Count - 1
  BY <1>6, <1>8
<1>10. \A i \in 1 .. Ring!Count - 1 : Tail(Ring!Contents)[i] = Ring!Contents[i + 1]
  BY <1>6, <1>8
<1>11. \A i \in 1 .. Ring!Count - 1 : Ring!Contents'[i] = Ring!Contents[i + 1]
  <2> SUFFICES ASSUME NEW i \in 1 .. Ring!Count - 1
               PROVE  Ring!Contents'[i] = Ring!Contents[i + 1]
    OBVIOUS
  <2>1. i \in 1 .. Ring!Count' /\ i + 1 \in 1 .. Ring!Count
    BY <1>3, <1>6
  <2>2. Ring!Contents'[i] = buffer'[Ring!Slot(i)']
    BY <2>1 DEF Ring!Contents
  <2>3. Ring!Contents[i + 1] = buffer[Ring!Slot(i + 1)]
    BY <2>1 DEF Ring!Contents
  <2> QED  BY <2>2, <2>3, <1>4
<1>12. Ring!Contents' \in Seq(Bytes) /\ Len(Ring!Contents') = Ring!Count - 1
  <2>1. Ring!Count' \in Nat
    BY <1>3, <1>6
  <2>2. \A i \in 1 .. Ring!Count' : i + 1 \in 1 .. Ring!Count
    BY <1>3, <1>6
  <2>3. \A i \in 1 .. Ring!Count' : Ring!Contents'[i] \in Bytes
    BY <1>3, <1>6, <1>11, <2>2
  <2>4. Ring!Contents' = [i \in 1 .. Ring!Count' |-> Ring!Contents'[i]]
    BY DEF Ring!Contents
  <2>5. Ring!Contents' \in [1 .. Ring!Count' -> Bytes]
    BY <2>3, <2>4
  <2> QED  BY <2>1, <2>5, <1>3
<1>13. \A i \in 1 .. Ring!Count - 1 : Ring!Contents'[i] = Tail(Ring!Contents)[i]
  BY <1>10, <1>11
<1> HIDE DEF Ring!Contents, Ring!Count
<1> QED  BY <1>7, <1>8, <1>9, <1>12, <1>13

\* A refused push means that every slot but one is in use.
LEMMA FullMeansFull ==
  ASSUME Ring!TypeOK, Ring!Advance(head) = tail
  PROVE  Ring!Count = UART_BUFFER_SIZE - 1
<1>1. tail = IF head + 1 = UART_BUFFER_SIZE THEN 0 ELSE head + 1
  BY AdvanceWraps DEF Ring!TypeOK
<1> QED  BY <1>1, RingSize DEF Ring!TypeOK, Ring!Index, Ring!Count

\* Contents depends on the ring's variables only.
LEMMA RingContentsFrame ==
  ASSUME UNCHANGED <<buffer, head, tail>>
  PROVE  Ring!Contents' = Ring!Contents
BY DEF Ring!Contents, Ring!Count, Ring!Slot

\* Every step of the ring is a step of the queue, or leaves it alone.
LEMMA RingStepRefines ==
  ASSUME Ring!TypeOK, Ring!TypeOK', [Ring!Next]_(Ring!vars)
  PROVE  [Ring!Queue!Next]_<<Ring!Contents, ret>>
<1>1. Ring!Contents \in Seq(Bytes) /\ Len(Ring!Contents) = Ring!Count
  BY RingContentsType
<1>2. ASSUME NEW b \in Bytes, Ring!push(b) PROVE Ring!Queue!Push(b)
  <2>1. CASE Ring!Advance(head) = tail
    <3>1. Ring!Count = UART_BUFFER_SIZE - 1
      BY <2>1, FullMeansFull
    <3>2. ret' = [ok |-> FALSE, byte |-> 0] /\ UNCHANGED <<buffer, head, tail>>
      BY <1>2, <2>1 DEF Ring!push
    <3>3. Ring!Contents' = Ring!Contents
      BY <3>2, RingContentsFrame
    <3> QED  BY <3>1, <3>2, <3>3, <1>1 DEF Ring!Queue!Push, Ring!Queue!Refused
  <2>2. CASE Ring!Advance(head) # tail
    <3>1. /\ buffer' = [buffer EXCEPT ![head] = b]
          /\ head' = Ring!Advance(head)
          /\ tail' = tail
          /\ ret' = [ok |-> TRUE, byte |-> 0]
      BY <1>2, <2>2 DEF Ring!push
    <3>2. Ring!Count < UART_BUFFER_SIZE - 1 /\ Ring!Contents' = Append(Ring!Contents, b)
      BY <3>1, <2>2, PushAppends
    <3> QED  BY <3>1, <3>2, <1>1 DEF Ring!Queue!Push
  <2> QED  BY <2>1, <2>2
<1>3. ASSUME Ring!pop PROVE Ring!Queue!Pop
  <2>1. CASE head = tail
    <3>1. ret' = [ok |-> FALSE, byte |-> 0] /\ UNCHANGED <<buffer, head, tail>>
      BY <1>3, <2>1 DEF Ring!pop
    <3>2. Ring!Contents' = Ring!Contents
      BY <3>1, RingContentsFrame
    <3>3. Ring!Count = 0
      BY <2>1 DEF Ring!Count, Ring!TypeOK, Ring!Index
    <3>4. Ring!Contents = <<>>
      BY <1>1, <3>3
    <3> QED  BY <3>1, <3>2, <3>4 DEF Ring!Queue!Pop, Ring!Queue!Refused
  <2>2. CASE head # tail
    <3>1. /\ ret' = [ok |-> TRUE, byte |-> buffer[tail]]
          /\ tail' = Ring!Advance(tail)
          /\ buffer' = buffer
          /\ head' = head
      BY <1>3, <2>2 DEF Ring!pop
    <3>2. /\ Ring!Contents # <<>>
          /\ buffer[tail] = Head(Ring!Contents)
          /\ Ring!Contents' = Tail(Ring!Contents)
      BY <3>1, <2>2, PopRemoves
    <3> QED  BY <3>1, <3>2 DEF Ring!Queue!Pop
  <2> QED  BY <2>1, <2>2
<1>4. ASSUME UNCHANGED Ring!vars PROVE UNCHANGED <<Ring!Contents, ret>>
  BY <1>4, RingContentsFrame DEF Ring!vars
<1> QED  BY <1>2, <1>3, <1>4 DEF Ring!Next, Ring!Queue!Next, Bytes

\* The ring buffer of the receive path implements the bounded FIFO queue, whatever
\* its size.
THEOREM RingImplementsQueue == Ring!Spec => Ring!ImplementsQueue
<1>1. Ring!Init => Ring!Queue!Init
  <2> SUFFICES ASSUME Ring!Init PROVE Ring!Queue!Init
    OBVIOUS
  <2>1. Ring!Count = 0
    BY DEF Ring!Init, Ring!Count
  <2>2. Ring!Contents = <<>>
    BY <2>1 DEF Ring!Contents
  <2> QED  BY <2>2 DEF Ring!Init, Ring!Queue!Init, Ring!Queue!Refused
<1>2. Ring!TypeOK /\ Ring!TypeOK' /\ [Ring!Next]_(Ring!vars) => [Ring!Queue!Next]_<<Ring!Contents, ret>>
  BY RingStepRefines
<1> QED  BY <1>1, <1>2, RingTypeCorrect, PTL DEF Ring!Spec, Ring!ImplementsQueue, Ring!Queue!Spec

-----------------------------------------------------------------------------
(* The kernel uses the mutex as the mutex expects.                         *)

\* Every step of the kernel's loop, of do_irq and of the hardware takes the mutex
\* RX_BUFFER through the steps of lock_irqsafe, exception entry and return only.
THEOREM KernelUsesMutex == Spec => Mutex!Spec
<1>1. Init => Mutex!Init
  BY DEF Init
<1>2. [Next]_vars => [Mutex!Next]_mutexVars
  <2> SUFFICES ASSUME [Next]_vars PROVE [Mutex!Next]_mutexVars
    OBVIOUS
  <2>1. ASSUME Mutex!CpuStep(Core) PROVE Mutex!Next
    BY <2>1 DEF Mutex!Next
  <2>2. CASE LockStep
    BY <2>1, <2>2 DEF LockStep, Mutex!CpuStep, Mutex!InCall
  <2>3. CASE MainStep
    BY <2>1, <2>3 DEF MainStep, GetcharCall, GetcharPop, GetcharReturn, Println,
                      Mutex!CpuStep, Mutex!InCall
  <2>4. CASE IsrStep
    BY <2>1, <2>4 DEF IsrStep, ReadIar, DoIrqTimer, TimerArm, DoIrqUartLock,
                      DoIrqUartPush, PushArm, DoIrqUartUnlock, DoIrqUartClear,
                      ClearAndGoto, DoIrqUnhandled, WriteEoir, EndIrq,
                      ExceptionExit, Mutex!CpuStep, Mutex!InCall
  <2>5. CASE TakeIrq
    BY <2>1, <2>5 DEF TakeIrq, Mutex!CpuStep
  <2>6. CASE Receive \/ TimerFires
    BY <2>6 DEF Receive, TimerFires
  <2>7. CASE UNCHANGED vars
    BY <2>7 DEF vars
  <2> QED  BY <2>2, <2>3, <2>4, <2>5, <2>6, <2>7 DEF Next, Instruction
<1> QED  BY <1>1, <1>2, PTL DEF Spec, Mutex!Spec, Mutex!vars, mutexVars

\* What the proofs below need of the mutex, on the kernel's one core: a handler is
\* not nested, runs with IRQs masked, and interrupts main code only outside the
\* masked part of lock_irqsafe.
OneCore ==
  /\ Mutex!TypeOK
  /\ depth[Core] \in {0, 1}
  /\ depth[Core] = 0 => pc[Core][1] = "out"
  /\ depth[Core] = 1 => daif[Core] = 1 /\ pc[Core][0] \in {"out", "daifset"}

\* The instance of the mutex's invariant that the kernel relies on.
LEMMA OneCoreInvariant == Spec => []OneCore
<1>0. 1 \in Nat \ {0}
  OBVIOUS
<1>1. MutexFacts!Spec => []MutexFacts!TypeOK
  BY <1>0, MutexFacts!TypeCorrect
<1>2. MutexFacts!Spec => []MutexFacts!MutexInv
  BY <1>0, MutexFacts!MutexInvariant
<1>3. MutexFacts!TypeOK /\ MutexFacts!MutexInv => OneCore
  BY DEF MutexFacts!TypeOK, MutexFacts!MutexInv, MutexFacts!Level, MutexFacts!Bit,
         MutexFacts!Label, MutexFacts!Masking, OneCore, Mutex!TypeOK, Mutex!Level,
         Mutex!Bit, Mutex!Label
<1>4. Mutex!Init => MutexFacts!Init
  BY DEF Mutex!Init, Mutex!Level, MutexFacts!Init, MutexFacts!Level
<1>5. [Mutex!Next]_(Mutex!vars) => [MutexFacts!Next]_(MutexFacts!vars)
  BY DEF Mutex!Next, Mutex!vars, Mutex!CpuStep, Mutex!InCall, Mutex!ReadDaif,
         Mutex!MaskIrq, Mutex!Acquire, Mutex!Release, Mutex!RestoreDaif,
         Mutex!TakeIrq, Mutex!Eret, Mutex!Step,
         MutexFacts!Next, MutexFacts!vars, MutexFacts!CpuStep, MutexFacts!InCall,
         MutexFacts!ReadDaif, MutexFacts!MaskIrq, MutexFacts!Acquire,
         MutexFacts!Release, MutexFacts!RestoreDaif, MutexFacts!TakeIrq,
         MutexFacts!Eret, MutexFacts!Step
<1>6. Mutex!Spec => MutexFacts!Spec
  BY <1>4, <1>5, PTL DEF Mutex!Spec, MutexFacts!Spec
<1> QED  BY <1>1, <1>2, <1>3, <1>6, KernelUsesMutex, PTL

-----------------------------------------------------------------------------
(* The kernel uses the ring as the ring expects.                           *)

\* The FIFO holds at most FifoDepth of the bytes that have arrived.
FifoType ==
  /\ sent \in 0 .. MaxBytes
  /\ rxfifo \in Seq(1 .. MaxBytes)
  /\ Len(rxfifo) <= FifoDepth

\* The PL011's FIFO never holds more than it can, and only bytes that came in.
LEMMA FifoTypeCorrect == Spec => []FifoType
<1>1. Init => FifoType
  BY KernelAssumption DEF Init, FifoType
<1>2. FifoType /\ [Next]_vars => FifoType'
  <2> SUFFICES ASSUME FifoType, [Next]_vars PROVE FifoType'
    OBVIOUS
  <2>1. CASE UNCHANGED <<sent, rxfifo>>
    BY <2>1 DEF FifoType
  <2>2. CASE DoIrqUartPush
    <3>1. sent' = sent
      BY <2>2 DEF DoIrqUartPush, PushArm, inputVars
    <3>2. rxfifo' = IF rxfifo = <<>> THEN <<>> ELSE Tail(rxfifo)
      BY <2>2 DEF DoIrqUartPush, ReadDR
    <3>3. rxfifo # <<>> =>
            Tail(rxfifo) \in Seq(1 .. MaxBytes) /\ Len(Tail(rxfifo)) = Len(rxfifo) - 1
      BY HeadTailProperties DEF FifoType
    <3>4. CASE rxfifo = <<>>
      BY <3>1, <3>2, <3>4 DEF FifoType
    <3>5. CASE rxfifo # <<>>
      <4>1. rxfifo' = Tail(rxfifo) /\ rxfifo' \in Seq(1 .. MaxBytes)
        BY <3>2, <3>3, <3>5
      <4>2. Len(rxfifo) \in Nat /\ Len(rxfifo') = Len(rxfifo) - 1
        BY <3>2, <3>3, <3>5, LenProperties DEF FifoType
      <4> QED  BY <3>1, <4>1, <4>2, KernelAssumption DEF FifoType
    <3> QED  BY <3>4, <3>5
  <2>3. CASE Receive
    <3>1. sent' = sent + 1 /\ sent' \in 1 .. MaxBytes
      BY <2>3, KernelAssumption DEF Receive, FifoType
    <3>2. CASE rxfifo' = rxfifo
      BY <3>1, <3>2 DEF FifoType
    <3>3. CASE Len(rxfifo) < FifoDepth /\ rxfifo' = Append(rxfifo, sent')
      BY <3>1, <3>3, KernelAssumption, AppendProperties DEF FifoType
    <3> QED  BY <2>3, <3>2, <3>3 DEF Receive
  <2>4. CASE Instruction /\ ~DoIrqUartPush
    BY <2>1, <2>4 DEF Instruction, MainStep, GetcharCall, GetcharPop, GetcharReturn,
       Println, IsrStep, ReadIar, DoIrqTimer, TimerArm, DoIrqUartLock,
       DoIrqUartUnlock, DoIrqUartClear, ClearAndGoto, DoIrqUnhandled, WriteEoir,
       EndIrq, ExceptionExit, LockStep, deviceVars, inputVars
  <2>5. CASE TakeIrq \/ TimerFires \/ UNCHANGED vars
    BY <2>1, <2>5 DEF TakeIrq, TimerFires, vars, deviceVars, inputVars
  <2> QED  BY <2>2, <2>3, <2>4, <2>5 DEF Next
<1> QED  BY <1>1, <1>2, PTL DEF Spec

\* What arm 33 reads from DR is a byte.
LEMMA DataByteType ==
  ASSUME FifoType
  PROVE  DataByte \in 0 .. MaxBytes
<1>1. rxfifo # <<>> => Head(rxfifo) \in 1 .. MaxBytes
  BY HeadTailProperties DEF FifoType
<1> QED  BY <1>1, KernelAssumption DEF DataByte

\* The ring is changed by the push of arm 33 and by the pop of getchar only, and
\* never by both in one step.
THEOREM KernelUsesRing == Spec => Ring!Spec
<1>1. Init => Ring!Init
  BY DEF Init
<1>2. FifoType /\ [Next]_vars => [Ring!Next]_ringVars
  <2> SUFFICES ASSUME FifoType, [Next]_vars PROVE [Ring!Next]_ringVars
    OBVIOUS
  <2>1. CASE UNCHANGED ringVars
    BY <2>1
  <2>2. CASE GetcharPop
    BY <2>2 DEF GetcharPop, Ring!Next
  <2>3. CASE DoIrqUartPush
    BY <2>3, DataByteType DEF DoIrqUartPush, PushArm, Ring!Next
  <2>4. CASE Instruction /\ ~DoIrqUartPush /\ ~GetcharPop
    BY <2>1, <2>4 DEF Instruction, MainStep, GetcharCall, GetcharReturn, Println,
       IsrStep, ReadIar, DoIrqTimer, TimerArm, DoIrqUartLock, DoIrqUartUnlock,
       DoIrqUartClear, ClearAndGoto, DoIrqUnhandled, WriteEoir, EndIrq,
       ExceptionExit, LockStep
  <2>5. CASE TakeIrq \/ Receive \/ TimerFires \/ UNCHANGED vars
    BY <2>1, <2>5 DEF TakeIrq, Receive, TimerFires, vars
  <2> QED  BY <2>2, <2>3, <2>4, <2>5 DEF Next
<1> QED  BY <1>1, <1>2, FifoTypeCorrect, PTL DEF Spec, Ring!Spec, Ring!vars, ringVars

\* The ring of the running kernel implements the FIFO queue, for every size of the ring
\* and any number of bytes.
THEOREM KernelImplementsQueue == Spec => ImplementsQueue
BY KernelUsesRing, RingImplementsQueue, PTL DEF ImplementsQueue

\* The indices of the ring stay in range in the kernel.
LEMMA RingTypeInvariant == Spec => []Ring!TypeOK
BY KernelUsesRing, RingTypeCorrect, PTL

-----------------------------------------------------------------------------
(* Where kmain and irq_handler are.                                        *)

\* The types of what neither the mutex, nor the ring, nor the FIFO keeps.
ControlType ==
  /\ main \in {"getchar", "println"}
  /\ ch \in [ok : BOOLEAN, byte : 0 .. MaxBytes]
  /\ isr \in IsrLabel
  /\ uart_id \in UartIds /\ paced \in Pacing
  /\ intid \in {0, TimerId, uart_id}
  /\ rxris \in {0, 1} /\ istatus \in {0, 1}
  /\ active \subseteq {TimerId, uart_id}
  /\ ticks \in 0 .. MaxTicks

\* Types of the locals of kmain and irq_handler, and of the devices' lines.
LEMMA ControlTypeCorrect == Spec => []ControlType
<1>1. Init => ControlType
  BY KernelAssumption DEF Init, ControlType, IsrLabel, None
<1>2. ControlType /\ Ring!TypeOK' /\ [Next]_vars => ControlType'
  <2> SUFFICES ASSUME ControlType, Ring!TypeOK', [Next]_vars PROVE ControlType'
    OBVIOUS
  <2> USE DEF ControlType, IsrLabel, cpuVars, deviceVars, inputVars
  <2>1. CASE GetcharPop
    BY <2>1 DEF GetcharPop, Ring!TypeOK
  <2>2. CASE Println
    <3>1. None \in [ok : BOOLEAN, byte : 0 .. MaxBytes]
      BY KernelAssumption DEF None
    <3> QED  BY <2>2, <3>1 DEF Println
  <2>3. CASE GetcharCall \/ GetcharReturn \/ LockStep
    BY <2>3 DEF GetcharCall, GetcharReturn, LockStep
  <2>4. CASE ReadIar
    BY <2>4 DEF ReadIar, Asserted
  <2>5. CASE DoIrqTimer \/ DoIrqUartLock \/ DoIrqUnhandled
    BY <2>5 DEF DoIrqTimer, TimerArm, DoIrqUartLock, DoIrqUnhandled
  <2>6. CASE DoIrqUartPush
    BY <2>6 DEF DoIrqUartPush, PushArm, ReadDR
  <2>7. CASE DoIrqUartUnlock \/ DoIrqUartClear \/ ExceptionExit
    BY <2>7 DEF DoIrqUartUnlock, DoIrqUartClear, ClearAndGoto, ExceptionExit
  <2>8. CASE WriteEoir
    BY <2>8 DEF WriteEoir, EndIrq
  <2>9. CASE TakeIrq
    BY <2>9 DEF TakeIrq
  <2>10. CASE Receive
    BY <2>10 DEF Receive
  <2>11. CASE TimerFires
    BY <2>11, KernelAssumption DEF TimerFires
  <2>12. CASE UNCHANGED vars
    BY <2>12 DEF vars
  <2> QED  BY <2>1, <2>2, <2>3, <2>4, <2>5, <2>6, <2>7, <2>8, <2>9, <2>10, <2>11,
              <2>12 DEF Next, Instruction, MainStep, IsrStep
<1> QED  BY <1>1, <1>2, RingTypeInvariant, PTL DEF Spec

\* The program positions fit together.  irq_handler runs exactly while the core is at
\* level 1; its call of lock_irqsafe is that of arm 33; an interrupt is active from
\* the read of IAR to the write of EOIR.  kmain holds a byte from the end of
\* getchar's closure to the end of println.
Control ==
  /\ isr = "idle" <=> depth[Core] = 0
  /\ pc[Core][1] # "out" => isr = "do_irq" /\ intid = 33
  /\ active = IF isr \in {"do_irq", "icr", "eoir"} THEN {intid} ELSE {}
  /\ main = "println" => ch.ok /\ pc[Core][0] = "out"
  /\ ch.ok => main = "println" \/ pc[Core][0] = "msr"

\* What the steps of lock_irqsafe, exception entry and return do to the positions.
LEMMA OneCoreStep ==
  ASSUME OneCore
  PROVE  /\ \A from, to \in Mutex!Label : Mutex!Step(Core, from, to) =>
              /\ pc[Core][depth[Core]] = from
              /\ pc'[Core][depth[Core]] = to
              /\ \A l \in {0, 1} : l # depth[Core] => pc'[Core][l] = pc[Core][l]
         /\ Mutex!TakeIrq(Core) =>
              /\ depth[Core] = 0 /\ depth'[Core] = 1
              /\ pc'[Core][1] = "out" /\ pc'[Core][0] = pc[Core][0]
         /\ Mutex!Eret(Core) =>
              depth[Core] = 1 /\ depth'[Core] = 0 /\ pc' = pc /\ pc[Core][1] = "out"
<1> USE DEF OneCore, Mutex!TypeOK, Mutex!Level
<1>1. ASSUME NEW from \in Mutex!Label, NEW to \in Mutex!Label, Mutex!Step(Core, from, to)
      PROVE  /\ pc[Core][depth[Core]] = from
             /\ pc'[Core][depth[Core]] = to
             /\ \A l \in {0, 1} : l # depth[Core] => pc'[Core][l] = pc[Core][l]
  BY <1>1 DEF Mutex!Step
<1>2. ASSUME Mutex!TakeIrq(Core)
      PROVE  /\ depth[Core] = 0 /\ depth'[Core] = 1
             /\ pc'[Core][1] = "out" /\ pc'[Core][0] = pc[Core][0]
  BY <1>2 DEF Mutex!TakeIrq
<1>3. ASSUME Mutex!Eret(Core)
      PROVE  depth[Core] = 1 /\ depth'[Core] = 0 /\ pc' = pc /\ pc[Core][1] = "out"
  BY <1>3 DEF Mutex!Eret
<1> QED  BY <1>1, <1>2, <1>3

\* kmain and irq_handler keep to their order of steps, wherever interrupts hit.
LEMMA ControlInvariant == Spec => []Control
<1>1. Init => Control
  BY DEF Init, Control, Mutex!Init, Mutex!Level, None
<1>2. OneCore /\ ControlType /\ Control /\ [Next]_vars => Control'
  <2> SUFFICES ASSUME OneCore, ControlType, Control, [Next]_vars PROVE Control'
    OBVIOUS
  <2>0. depth[Core] \in {0, 1} /\ (depth[Core] = 0 => pc[Core][1] = "out")
    BY DEF OneCore
  <2> USE <2>0, OneCoreStep DEF Mutex!Label, cpuVars, deviceVars, inputVars
  <2>1. CASE GetcharPop
    BY <2>1 DEF GetcharPop, Mutex!Release, InMain, Control
  <2>2. CASE Println
    BY <2>2 DEF Println, mutexVars, InMain, None, Control
  <2>3. CASE GetcharCall
    BY <2>3 DEF GetcharCall, Mutex!ReadDaif, InMain, Control
  <2>4. CASE GetcharReturn
    BY <2>4 DEF GetcharReturn, Mutex!RestoreDaif, InMain, Control, ControlType
  <2>5. CASE LockStep
    BY <2>5 DEF LockStep, Mutex!MaskIrq, Mutex!Acquire, Control
  <2>6. CASE ReadIar
    BY <2>6 DEF ReadIar, mutexVars, Control
  <2>7. CASE DoIrqTimer
    BY <2>7 DEF DoIrqTimer, TimerArm, mutexVars, Control
  <2>8. CASE DoIrqUartLock
    BY <2>8 DEF DoIrqUartLock, Mutex!ReadDaif, Control
  <2>9. CASE DoIrqUartPush
    BY <2>9 DEF DoIrqUartPush, PushArm, Mutex!Release, InIsr, Control
  <2>10. CASE DoIrqUartUnlock
    BY <2>10 DEF DoIrqUartUnlock, Mutex!RestoreDaif, InIsr, Control
  <2>11. CASE DoIrqUartClear
    BY <2>11 DEF DoIrqUartClear, ClearAndGoto, mutexVars, Control
  <2>12. CASE DoIrqUnhandled
    BY <2>12 DEF DoIrqUnhandled, mutexVars, Control
  <2>13. CASE WriteEoir
    BY <2>13 DEF WriteEoir, EndIrq, mutexVars, Control
  <2>14. CASE ExceptionExit
    BY <2>14 DEF ExceptionExit, Control
  <2>15. CASE TakeIrq
    BY <2>15 DEF TakeIrq, Control
  <2>16. CASE Receive \/ TimerFires \/ UNCHANGED vars
    BY <2>16 DEF Receive, TimerFires, vars, mutexVars, Control
  <2> QED  BY <2>1, <2>2, <2>3, <2>4, <2>5, <2>6, <2>7, <2>8, <2>9, <2>10, <2>11,
              <2>12, <2>13, <2>14, <2>15, <2>16 DEF Next, Instruction, MainStep, IsrStep
<1> QED  BY <1>1, <1>2, OneCoreInvariant, ControlTypeCorrect, PTL DEF Spec

-----------------------------------------------------------------------------
(* The handler reads DR only when there is something to read.              *)

\* The receive interrupt is only high while the FIFO is filled to the trigger level,
\* and between the read of IAR and that of DR nobody else takes bytes out.
Data ==
  /\ rxris = 1 => Len(rxfifo) >= Trigger
  /\ (isr = "do_irq" /\ intid = uart_id /\ pc[Core][1] # "msr") => rxfifo # <<>>

\* The UART's interrupt is an SPI and the timer's a PPI.
LEMMA UartIsNotTimer ==
  ASSUME ControlType
  PROVE  uart_id # TimerId
<1>1. uart_id \in 32 .. 1019 /\ TimerId \in 16 .. 31
  BY KernelAssumption DEF ControlType
<1>2. TimerId < uart_id
  BY <1>1
<1>3. \A n \in Int : ~(n < n)
  OBVIOUS
<1> QED  BY <1>1, <1>2, <1>3

\* From the interrupt to the read of DR the FIFO is never empty.
LEMMA DataInvariant == Spec => []Data
<1>1. Init => Data
  BY DEF Init, Data
<1>2. OneCore /\ FifoType /\ ControlType /\ Control /\ Data /\ [Next]_vars => Data'
  <2> SUFFICES ASSUME OneCore, FifoType, ControlType, Control, Data, [Next]_vars
               PROVE  Data'
    OBVIOUS
  <2>0. depth[Core] \in {0, 1} /\ (depth[Core] = 0 => pc[Core][1] = "out")
    BY DEF OneCore
  <2> USE <2>0, OneCoreStep DEF Mutex!Label, cpuVars, deviceVars, inputVars
  <2>1. CASE GetcharPop \/ GetcharCall \/ GetcharReturn
    BY <2>1 DEF GetcharPop, GetcharCall, GetcharReturn, InMain, Mutex!Release,
                Mutex!ReadDaif, Mutex!RestoreDaif, Control, Data
  <2>2. CASE LockStep
    BY <2>2 DEF LockStep, Mutex!MaskIrq, Mutex!Acquire, Data
  <2>3. CASE ReadIar
    <3>1. PICK i \in Asserted : intid' = i
      BY <2>3 DEF ReadIar
    <3>2. rxris' = rxris /\ rxfifo' = rxfifo /\ uart_id' = uart_id
      BY <2>3 DEF ReadIar
    <3>3. uart_id # TimerId
      BY UartIsNotTimer
    <3>4. intid' = uart_id' => rxris = 1
      BY <3>1, <3>2, <3>3 DEF Asserted
    <3>5. rxris = 1 => rxfifo # <<>>
      BY KernelAssumption DEF Data
    <3> QED  BY <3>2, <3>4, <3>5 DEF Data
  <2>4. CASE DoIrqUartLock
    BY <2>4 DEF DoIrqUartLock, Mutex!ReadDaif, Control, Data
  <2>5. CASE DoIrqUartPush
    <3>1. pc'[Core][1] = "msr"
      BY <2>5 DEF DoIrqUartPush, PushArm, Mutex!Release, InIsr
    <3>2. rxris' = IF Len(rxfifo') < Trigger THEN 0 ELSE rxris
      BY <2>5 DEF DoIrqUartPush, ReadDR
    <3>3. Len(rxfifo') \in Nat
      <4>1. rxfifo' = IF rxfifo = <<>> THEN <<>> ELSE Tail(rxfifo)
        BY <2>5 DEF DoIrqUartPush, ReadDR
      <4>2. rxfifo # <<>> => Tail(rxfifo) \in Seq(1 .. MaxBytes)
        BY HeadTailProperties DEF FifoType
      <4> QED  BY <4>1, <4>2
    <3> QED  BY <3>1, <3>2, <3>3, KernelAssumption DEF Data
  <2>6. CASE DoIrqTimer \/ DoIrqUnhandled \/ DoIrqUartClear \/ WriteEoir
    BY <2>6 DEF DoIrqTimer, TimerArm, DoIrqUnhandled, DoIrqUartClear, ClearAndGoto,
                WriteEoir, EndIrq, Data
  <2>7. CASE DoIrqUartUnlock \/ ExceptionExit \/ TakeIrq
    BY <2>7 DEF DoIrqUartUnlock, ExceptionExit, TakeIrq, Data
  <2>8. CASE Receive
    <3>1. /\ isr' = isr /\ intid' = intid /\ uart_id' = uart_id /\ pc' = pc
      BY <2>8 DEF Receive, mutexVars
    <3>2. CASE UNCHANGED <<rxfifo, rxris>>
      BY <3>1, <3>2 DEF Data
    <3>3. CASE /\ rxfifo' = Append(rxfifo, sent')
               /\ rxris' = IF Len(rxfifo') >= Trigger THEN 1 ELSE rxris
      <4>1. sent' \in 1 .. MaxBytes
        BY <2>8, KernelAssumption DEF Receive, FifoType
      <4>2. rxfifo' # <<>> /\ Len(rxfifo') = Len(rxfifo) + 1 /\ Len(rxfifo) \in Nat
        BY <4>1, <3>3, AppendProperties, LenProperties DEF FifoType
      <4> QED  BY <3>1, <3>3, <4>2, KernelAssumption DEF Data
    <3> QED  BY <2>8, <3>2, <3>3 DEF Receive
  <2>9. CASE Println \/ TimerFires \/ UNCHANGED vars
    BY <2>9 DEF Println, TimerFires, vars, mutexVars, Data
  <2> QED  BY <2>1, <2>2, <2>3, <2>4, <2>5, <2>6, <2>7, <2>8, <2>9
              DEF Next, Instruction, MainStep, IsrStep
<1> QED  BY <1>1, <1>2, OneCoreInvariant, FifoTypeCorrect, ControlTypeCorrect,
            ControlInvariant, PTL DEF Spec

\* In the closure of arm 33 there is a byte in the FIFO, for every trigger level.
LEMMA ClosureSeesData ==
  ASSUME OneCore, ControlType, Control, Data, InIsr, pc[Core][depth[Core]] = "crit"
  PROVE  rxfifo # <<>>
<1>1. depth[Core] = 1 /\ pc[Core][1] = "crit"
  BY DEF OneCore, InIsr
<1>2. isr = "do_irq" /\ intid = 33
  BY <1>1 DEF Control
<1>3. intid = uart_id
  BY <1>2, KernelAssumption DEF ControlType
<1> QED  BY <1>1, <1>2, <1>3 DEF Data

\* Arm 33 never pushes stale data although it does not look at FR.
THEOREM KernelHandlerSeesData == Spec => []HandlerSeesData
<1>1. OneCore /\ ControlType /\ Control /\ Data => HandlerSeesData
  BY ClosureSeesData DEF HandlerSeesData
<1> QED  BY <1>1, OneCoreInvariant, ControlTypeCorrect, ControlInvariant,
            DataInvariant, PTL

\* What the GIC has handed out is what irq_handler is working on, with IRQs masked.
THEOREM KernelActiveWhileHandled == Spec => []ActiveWhileHandled
<1>1. OneCore /\ Control => ActiveWhileHandled
  BY DEF OneCore, Control, ActiveWhileHandled
<1> QED  BY <1>1, OneCoreInvariant, ControlInvariant, PTL

-----------------------------------------------------------------------------
(* Sequences of bytes.                                                     *)

Increasing(s) == \A i, j \in 1 .. Len(s) : i < j => s[i] < s[j]
Elements(s) == {s[i] : i \in 1 .. Len(s)}

\* Moving the first element of t to the end of s changes nothing in s followed by t.
LEMMA Shift ==
  ASSUME NEW S, NEW s \in Seq(S), NEW t \in Seq(S), t # <<>>
  PROVE  Append(s, Head(t)) \o Tail(t) = s \o t
<1>1. /\ Head(t) \in S /\ Tail(t) \in Seq(S) /\ Head(t) = t[1]
      /\ Len(t) \in Nat /\ Len(t) > 0 /\ Len(Tail(t)) = Len(t) - 1
      /\ \A i \in 1 .. Len(t) - 1 : Tail(t)[i] = t[i + 1]
  BY HeadTailProperties, LenProperties, EmptySeq
<1>2. /\ Append(s, Head(t)) \in Seq(S) /\ Len(s) \in Nat
      /\ Len(Append(s, Head(t))) = Len(s) + 1
      /\ \A i \in 1 .. Len(s) : Append(s, Head(t))[i] = s[i]
      /\ Append(s, Head(t))[Len(s) + 1] = Head(t)
  BY <1>1, AppendProperties, LenProperties
<1> DEFINE left == Append(s, Head(t)) \o Tail(t)
           right == s \o t
<1>3. /\ left \in Seq(S) /\ Len(left) = Len(s) + Len(t)
      /\ \A i \in 1 .. Len(s) + Len(t) :
           left[i] = IF i <= Len(s) + 1 THEN Append(s, Head(t))[i]
                     ELSE Tail(t)[i - (Len(s) + 1)]
  BY <1>1, <1>2, ConcatProperties
<1>4. /\ right \in Seq(S) /\ Len(right) = Len(s) + Len(t)
      /\ \A i \in 1 .. Len(s) + Len(t) :
           right[i] = IF i <= Len(s) THEN s[i] ELSE t[i - Len(s)]
  BY ConcatProperties
<1>5. ASSUME NEW i \in 1 .. Len(left) PROVE left[i] = right[i]
  <2>1. CASE i <= Len(s)
    BY <2>1, <1>2, <1>3, <1>4
  <2>2. CASE i = Len(s) + 1
    BY <2>2, <1>1, <1>2, <1>3, <1>4
  <2>3. CASE i > Len(s) + 1
    <3>1. i - (Len(s) + 1) \in 1 .. Len(t) - 1
      BY <2>3, <1>1, <1>2, <1>3
    <3>2. Tail(t)[i - (Len(s) + 1)] = t[i - (Len(s) + 1) + 1]
      BY <3>1, <1>1
    <3>3. i - (Len(s) + 1) + 1 = i - Len(s)
      BY <1>2, <1>3
    <3> QED  BY <2>3, <3>2, <3>3, <1>2, <1>3, <1>4
  <2> QED  BY <2>1, <2>2, <2>3, <1>1, <1>2, <1>3
<1> HIDE DEF left, right
<1>6. left = right
  BY <1>3, <1>4, <1>5, SeqEqual
<1> QED  BY <1>6 DEF left, right

\* The first element of t, dropped from s followed by t: the rest is still increasing
\* and lacks just that element.
LEMMA Drop ==
  ASSUME NEW S \in SUBSET Int, NEW s \in Seq(S), NEW t \in Seq(S), t # <<>>,
         Increasing(s \o t)
  PROVE  /\ Increasing(s \o Tail(t))
         /\ Elements(s \o t) = Elements(s \o Tail(t)) \cup {Head(t)}
         /\ Head(t) \notin Elements(s \o Tail(t))
<1> DEFINE p == s \o t
           q == s \o Tail(t)
           n == Len(s)
<1>1. /\ Tail(t) \in Seq(S) /\ Head(t) = t[1]
      /\ Len(t) \in Nat /\ Len(t) > 0 /\ Len(Tail(t)) = Len(t) - 1
      /\ \A i \in 1 .. Len(t) - 1 : Tail(t)[i] = t[i + 1]
  BY HeadTailProperties, LenProperties, EmptySeq
<1>2. /\ p \in Seq(S) /\ Len(p) = n + Len(t) /\ n \in Nat
      /\ \A i \in 1 .. n + Len(t) : p[i] = IF i <= n THEN s[i] ELSE t[i - n]
  BY ConcatProperties, LenProperties
<1>3. /\ q \in Seq(S) /\ Len(q) = n + Len(t) - 1
      /\ \A i \in 1 .. n + Len(t) - 1 :
           q[i] = IF i <= n THEN s[i] ELSE Tail(t)[i - n]
  BY <1>1, <1>2, ConcatProperties
<1>4. ASSUME NEW i \in 1 .. Len(q) PROVE q[i] = IF i <= n THEN p[i] ELSE p[i + 1]
  <2>1. CASE i <= n
    BY <2>1, <1>1, <1>2, <1>3
  <2>2. CASE i > n
    <3>1. i - n \in 1 .. Len(t) - 1 /\ i + 1 \in 1 .. n + Len(t) /\ (i - n) + 1 = (i + 1) - n
      BY <2>2, <1>1, <1>2, <1>3
    <3>2. q[i] = Tail(t)[i - n] /\ p[i + 1] = t[(i + 1) - n]
      BY <2>2, <3>1, <1>2, <1>3
    <3> QED  BY <2>2, <3>1, <3>2, <1>1
  <2> QED  BY <2>1, <2>2, <1>2, <1>3
<1>5. p[n + 1] = Head(t) /\ n + 1 \in 1 .. Len(p)
  BY <1>1, <1>2
<1>6. \A i \in 1 .. Len(p) : p[i] \in Int
  BY <1>2, ElementOfSeq
<1>7. \A i, j \in 1 .. Len(p) : i < j => p[i] < p[j]
  BY DEF Increasing
<1> HIDE DEF p, q, n
<1>8. Increasing(q)
  <2> SUFFICES ASSUME NEW i \in 1 .. Len(q), NEW j \in 1 .. Len(q), i < j
               PROVE  q[i] < q[j]
    BY DEF Increasing
  <2> DEFINE k(m) == IF m <= n THEN m ELSE m + 1
  <2>1. k(i) \in 1 .. Len(p) /\ k(j) \in 1 .. Len(p) /\ k(i) < k(j)
    BY <1>1, <1>2, <1>3
  <2>2. q[i] = p[k(i)] /\ q[j] = p[k(j)]
    BY <1>4
  <2> QED  BY <2>1, <2>2, <1>7
<1>9. Elements(p) = Elements(q) \cup {Head(t)}
  <2>1. ASSUME NEW i \in 1 .. Len(p) PROVE p[i] \in Elements(q) \cup {Head(t)}
    <3>1. CASE i <= n
      <4>1. i \in 1 .. Len(q) /\ q[i] = p[i]
        BY <3>1, <1>1, <1>2, <1>3, <1>4
      <4> QED  BY <4>1 DEF Elements
    <3>2. CASE i = n + 1
      BY <3>2, <1>5
    <3>3. CASE i > n + 1
      <4>1. i - 1 \in 1 .. Len(q) /\ ~(i - 1 <= n) /\ (i - 1) + 1 = i
        BY <3>3, <1>1, <1>2, <1>3
      <4>2. q[i - 1] = p[i]
        BY <4>1, <1>4
      <4> QED  BY <4>1, <4>2 DEF Elements
    <3> QED  BY <3>1, <3>2, <3>3, <1>2
  <2>2. ASSUME NEW i \in 1 .. Len(q) PROVE q[i] \in Elements(p)
    <3>1. i \in 1 .. Len(p) /\ i + 1 \in 1 .. Len(p)
      BY <1>1, <1>2, <1>3
    <3> QED  BY <3>1, <1>4 DEF Elements
  <2>3. Head(t) \in Elements(p)
    BY <1>5 DEF Elements
  <2> QED  BY <2>1, <2>2, <2>3 DEF Elements
<1>10. ASSUME NEW i \in 1 .. Len(q) PROVE q[i] # Head(t)
  <2> DEFINE k == IF i <= n THEN i ELSE i + 1
  <2>1. k \in 1 .. Len(p) /\ (k < n + 1 \/ n + 1 < k)
    BY <1>1, <1>2, <1>3
  <2>2. q[i] = p[k]
    BY <1>4
  <2>3. p[k] < p[n + 1] \/ p[n + 1] < p[k]
    BY <2>1, <1>5, <1>7
  <2> QED  BY <2>1, <2>2, <2>3, <1>5, <1>6
<1> QED  BY <1>8, <1>9, <1>10 DEF p, q, Elements

\* A byte larger than all before it, at the end of s.
LEMMA Grow ==
  ASSUME NEW S \in SUBSET Int, NEW s \in Seq(S), NEW b \in S,
         Increasing(s), \A e \in Elements(s) : e < b
  PROVE  Increasing(Append(s, b)) /\ Elements(Append(s, b)) = Elements(s) \cup {b}
<1> DEFINE p == Append(s, b)
<1>1. /\ Len(p) = Len(s) + 1 /\ Len(s) \in Nat
      /\ \A i \in 1 .. Len(s) : p[i] = s[i]
      /\ p[Len(s) + 1] = b
  BY AppendProperties, LenProperties
<1>2. \A i \in 1 .. Len(s) : s[i] < b
  BY DEF Elements
<1> HIDE DEF p
<1>3. \A i \in 1 .. Len(p) : i \in 1 .. Len(s) \/ i = Len(s) + 1
  BY <1>1
<1>4. \A i \in 1 .. Len(s) : i \in 1 .. Len(p)
  BY <1>1
<1>5. Len(s) + 1 \in 1 .. Len(p)
  BY <1>1
<1>6. Increasing(p)
  <2> SUFFICES ASSUME NEW i \in 1 .. Len(p), NEW j \in 1 .. Len(p), i < j
               PROVE  p[i] < p[j]
    BY DEF Increasing
  <2>1. i \in 1 .. Len(s)
    BY <1>1
  <2>2. CASE j \in 1 .. Len(s)
    BY <2>1, <2>2, <1>1 DEF Increasing
  <2>3. CASE j = Len(s) + 1
    BY <2>1, <2>3, <1>1, <1>2
  <2> QED  BY <2>2, <2>3, <1>3
<1>7. Elements(p) = Elements(s) \cup {b}
  BY <1>1, <1>3, <1>4, <1>5 DEF Elements
<1> QED  BY <1>6, <1>7 DEF p

\* Appending to the last part of a concatenation appends to the whole.
LEMMA AppendToLast ==
  ASSUME NEW S, NEW s \in Seq(S), NEW t \in Seq(S), NEW e \in S
  PROVE  s \o Append(t, e) = Append(s \o t, e)
<1>1. <<e>> \in Seq(S)
  OBVIOUS
<1>2. Append(t, e) = t \o <<e>>
  BY AppendIsConcat
<1>3. s \o (t \o <<e>>) = (s \o t) \o <<e>>
  BY <1>1, ConcatAssociative
<1>4. s \o t \in Seq(S)
  BY ConcatProperties
<1>5. Append(s \o t, e) = (s \o t) \o <<e>>
  BY <1>4, AppendIsConcat
<1> QED  BY <1>2, <1>3, <1>5

-----------------------------------------------------------------------------
(* What push and pop do to the contents of the kernel's ring.              *)

\* The ring holds bytes.
LEMMA RingContents ==
  ASSUME Ring!TypeOK
  PROVE  Ring!Contents \in Seq(Bytes)
BY RingContentsType

\* push appends its byte, or refuses it.
LEMMA RingPush ==
  ASSUME Ring!TypeOK, Ring!TypeOK', NEW b \in Bytes, Ring!push(b)
  PROVE  \/ ret'.ok = TRUE /\ Ring!Contents' = Append(Ring!Contents, b)
         \/ ret'.ok = FALSE /\ Ring!Contents' = Ring!Contents
<1>1. CASE Ring!Advance(head) = tail
  <2>1. ret' = [ok |-> FALSE, byte |-> 0] /\ UNCHANGED <<buffer, head, tail>>
    BY <1>1 DEF Ring!push
  <2>2. Ring!Contents' = Ring!Contents
    BY <2>1, RingContentsFrame
  <2> QED  BY <2>1, <2>2
<1>2. CASE Ring!Advance(head) # tail
  <2>1. /\ buffer' = [buffer EXCEPT ![head] = b]
        /\ head' = Ring!Advance(head)
        /\ tail' = tail
        /\ ret' = [ok |-> TRUE, byte |-> 0]
    BY <1>2 DEF Ring!push
  <2>2. Ring!Contents' = Append(Ring!Contents, b)
    BY <1>2, <2>1, PushAppends
  <2> QED  BY <2>1, <2>2
<1> QED  BY <1>1, <1>2

\* pop takes the oldest byte, or finds the ring empty.
LEMMA RingPop ==
  ASSUME Ring!TypeOK, Ring!TypeOK', Ring!pop
  PROVE  \/ /\ ret' = [ok |-> TRUE, byte |-> Head(Ring!Contents)]
            /\ Ring!Contents # <<>> /\ Ring!Contents' = Tail(Ring!Contents)
         \/ ret'.ok = FALSE /\ Ring!Contents' = Ring!Contents
<1>1. CASE head = tail
  <2>1. ret' = [ok |-> FALSE, byte |-> 0] /\ UNCHANGED <<buffer, head, tail>>
    BY <1>1 DEF Ring!pop
  <2>2. Ring!Contents' = Ring!Contents
    BY <2>1, RingContentsFrame
  <2> QED  BY <2>1, <2>2
<1>2. CASE head # tail
  <2>1. /\ ret' = [ok |-> TRUE, byte |-> buffer[tail]]
        /\ tail' = Ring!Advance(tail)
        /\ buffer' = buffer
        /\ head' = head
    BY <1>2 DEF Ring!pop
  <2>2. /\ Ring!Contents # <<>>
        /\ buffer[tail] = Head(Ring!Contents)
        /\ Ring!Contents' = Tail(Ring!Contents)
    BY <1>2, <2>1, PopRemoves
  <2> QED  BY <2>1, <2>2
<1> QED  BY <1>1, <1>2

\* Nothing but push and pop changes the contents.
LEMMA RingFrame ==
  ASSUME UNCHANGED ringVars
  PROVE  Ring!Contents' = Ring!Contents
BY DEF ringVars, Ring!Contents, Ring!Count, Ring!Slot

-----------------------------------------------------------------------------
(* The bytes between the wire and the console.                             *)

\* BytesInOrder and EveryByteAccounted, and that kmain prints bytes.
Pipe ==
  /\ typed \in Seq(Bytes)
  /\ Increasing(Pipeline)
  /\ Elements(Pipeline) \cup lost = 1 .. sent
  /\ Elements(Pipeline) \cap lost = {}

\* The parts of the pipeline are sequences of bytes.
LEMMA PipelineType ==
  ASSUME FifoType, Ring!TypeOK, ControlType, typed \in Seq(Bytes)
  PROVE  /\ rxfifo \in Seq(Bytes) /\ Ring!Contents \in Seq(Bytes)
         /\ InHand \in Seq(Bytes)
         /\ typed \o InHand \in Seq(Bytes)
         /\ typed \o InHand \o Ring!Contents \in Seq(Bytes)
         /\ Pipeline \in Seq(Bytes)
<1>1. rxfifo \in Seq(Bytes)
  <2>1. 1 .. MaxBytes \subseteq Bytes
    BY KernelAssumption DEF Bytes
  <2> QED  BY <2>1, SeqMonotonic DEF FifoType
<1>2. Ring!Contents \in Seq(Bytes)
  BY RingContents
<1>3. InHand \in Seq(Bytes)
  <2>1. ch.byte \in Bytes
    BY DEF ControlType, Bytes
  <2>2. <<ch.byte>> \in Seq(Bytes) /\ <<>> \in Seq(Bytes)
    BY <2>1
  <2> QED  BY <2>2 DEF InHand
<1>4. typed \o InHand \in Seq(Bytes)
  BY <1>3, ConcatProperties
<1>5. typed \o InHand \o Ring!Contents \in Seq(Bytes)
  BY <1>2, <1>4, ConcatProperties
<1>6. Pipeline \in Seq(Bytes)
  BY <1>1, <1>5, ConcatProperties DEF Pipeline
<1> QED  BY <1>1, <1>2, <1>3, <1>4, <1>5, <1>6

\* The invariant speaks of the pipeline, and of what has arrived and was dropped.
LEMMA PipeFrame ==
  ASSUME Pipe, Pipeline' = Pipeline, lost' = lost, sent' = sent,
         typed' \in Seq(Bytes)
  PROVE  Pipe'
BY DEF Pipe, Increasing, Elements

\* The pop of getchar moves the oldest byte from the ring into kmain's hand.
LEMMA PopKeepsPipeline ==
  ASSUME OneCore, FifoType, ControlType, Control, Ring!TypeOK, Ring!TypeOK', Pipe, GetcharPop
  PROVE  Pipeline' = Pipeline
<1>1. pc[Core][0] = "crit" /\ depth[Core] = 0
  BY OneCoreStep DEF GetcharPop, InMain, Mutex!Release, Mutex!Label
<1>2. InHand = <<>>
  BY <1>1 DEF Control, InHand
<1>3. typed' = typed /\ rxfifo' = rxfifo /\ ch' = ret' /\ Ring!pop
  BY DEF GetcharPop, deviceVars, historyVars
<1> DEFINE C == Ring!Contents
<1>4. /\ typed \in Seq(Bytes) /\ C \in Seq(Bytes) /\ rxfifo \in Seq(Bytes)
  BY PipelineType DEF Pipe
<1>5. typed \o <<>> = typed
  BY <1>4, ConcatEmptySeq
<1>6. CASE ret'.ok = FALSE /\ Ring!Contents' = C
  <2>1. InHand' = <<>>
    BY <1>3, <1>6 DEF InHand
  <2> QED  BY <1>2, <1>3, <1>6, <2>1 DEF Pipeline
<1>7. CASE /\ ret' = [ok |-> TRUE, byte |-> Head(C)]
           /\ C # <<>> /\ Ring!Contents' = Tail(C)
  <2>1. InHand' = <<Head(C)>>
    BY <1>3, <1>7 DEF InHand
  <2>2. Head(C) \in Bytes
    BY <1>4, <1>7, HeadTailProperties
  <2>3. typed \o <<Head(C)>> = Append(typed, Head(C))
    BY <1>4, <2>2, AppendIsConcat
  <2>4. Append(typed, Head(C)) \o Tail(C) = typed \o C
    BY <1>4, <1>7, Shift
  <2>5. Pipeline' = ((typed \o <<Head(C)>>) \o Tail(C)) \o rxfifo
    BY <1>3, <1>7, <2>1 DEF Pipeline
  <2>6. Pipeline = ((typed \o <<>>) \o C) \o rxfifo
    BY <1>2 DEF Pipeline
  <2> QED  BY <1>5, <2>3, <2>4, <2>5, <2>6
<1> QED  BY <1>3, <1>6, <1>7, RingPop

\* println moves the byte in kmain's hand to the console.
LEMMA PrintKeepsPipeline ==
  ASSUME FifoType, ControlType, Control, Ring!TypeOK, Pipe, Println
  PROVE  Pipeline' = Pipeline /\ typed' \in Seq(Bytes)
<1>1. /\ ch.ok /\ typed' = Append(typed, ch.byte) /\ ch' = None /\ rxfifo' = rxfifo
      /\ UNCHANGED ringVars
  BY DEF Println, Control, deviceVars
<1>2. InHand = <<ch.byte>> /\ InHand' = <<>>
  BY <1>1 DEF InHand, None
<1>3. typed \in Seq(Bytes) /\ ch.byte \in Bytes
  BY DEF Pipe, ControlType, Bytes
<1>4. typed' \in Seq(Bytes) /\ typed' = typed \o <<ch.byte>>
  BY <1>1, <1>3, AppendIsConcat, AppendProperties
<1>5. typed' \o <<>> = typed'
  BY <1>4, ConcatEmptySeq
<1>6. Ring!Contents' = Ring!Contents
  BY <1>1, RingFrame
<1> QED  BY <1>1, <1>2, <1>4, <1>5, <1>6 DEF Pipeline

\* Arm 33 moves the oldest byte of the FIFO into the ring, or drops it.
LEMMA PushKeepsPipe ==
  ASSUME OneCore, FifoType, ControlType, Control, Data, Ring!TypeOK, Ring!TypeOK',
         Pipe, DoIrqUartPush
  PROVE  Pipe'
<1>1. rxfifo # <<>>
  <2>1. InIsr /\ pc[Core][depth[Core]] = "crit"
    BY OneCoreStep DEF DoIrqUartPush, PushArm, Mutex!Release, Mutex!Label
  <2> QED  BY <2>1, ClosureSeesData
<1>2. /\ rxfifo' = Tail(rxfifo) /\ typed' = typed /\ ch' = ch /\ sent' = sent
      /\ Ring!push(Head(rxfifo))
      /\ lost' = IF ret'.ok THEN lost ELSE lost \cup {Head(rxfifo)}
  BY <1>1 DEF DoIrqUartPush, PushArm, ReadDR, DataByte, cpuVars, inputVars
<1> DEFINE C == Ring!Contents
           A == typed \o InHand
           b == Head(rxfifo)
<1>3. /\ rxfifo \in Seq(Bytes) /\ C \in Seq(Bytes) /\ A \in Seq(Bytes)
      /\ A \o C \in Seq(Bytes) /\ Pipeline = (A \o C) \o rxfifo
  BY PipelineType DEF Pipe, Pipeline
<1>4. b \in Bytes
  BY <1>1, <1>3, HeadTailProperties
<1>5. InHand' = InHand
  BY <1>2 DEF InHand
<1>6. CASE ret'.ok = TRUE /\ Ring!Contents' = Append(C, b)
  <2>1. A \o Append(C, b) = Append(A \o C, b)
    BY <1>3, <1>4, AppendToLast
  <2>2. Append(A \o C, b) \o Tail(rxfifo) = (A \o C) \o rxfifo
    BY <1>1, <1>3, Shift
  <2>3. Pipeline' = (A \o Append(C, b)) \o Tail(rxfifo)
    BY <1>2, <1>5, <1>6 DEF Pipeline
  <2>4. Pipeline' = Pipeline
    BY <1>3, <2>1, <2>2, <2>3
  <2> QED  BY <1>2, <1>6, <2>4, PipeFrame DEF Pipe
<1>7. CASE ret'.ok = FALSE /\ Ring!Contents' = C
  <2>1. Pipeline' = (A \o C) \o Tail(rxfifo)
    BY <1>2, <1>5, <1>7 DEF Pipeline
  <2>2. Increasing((A \o C) \o rxfifo)
    BY <1>3 DEF Pipe
  <2>3. Bytes \in SUBSET Int
    BY KernelAssumption DEF Bytes
  <2>4. /\ Increasing((A \o C) \o Tail(rxfifo))
        /\ Elements((A \o C) \o rxfifo) = Elements((A \o C) \o Tail(rxfifo)) \cup {b}
        /\ b \notin Elements((A \o C) \o Tail(rxfifo))
    BY <1>1, <1>3, <2>2, <2>3, Drop
  <2>5. /\ Increasing(Pipeline)' /\ Elements(Pipeline) = Elements(Pipeline)' \cup {b}
        /\ b \notin Elements(Pipeline)'
    BY <1>3, <2>1, <2>4 DEF Increasing, Elements
  <2>6. lost' = lost \cup {b} /\ sent' = sent /\ typed' \in Seq(Bytes)
    BY <1>2, <1>7 DEF Pipe
  <2>7. Elements(Pipeline) \cup lost = 1 .. sent /\ Elements(Pipeline) \cap lost = {}
    BY DEF Pipe
  <2> QED  BY <2>5, <2>6, <2>7 DEF Pipe
<1> QED  BY <1>2, <1>4, <1>6, <1>7, RingPush

\* A byte that arrives is newer than all others: it goes to the end of the FIFO, or is
\* dropped.
LEMMA ReceiveKeepsPipe ==
  ASSUME FifoType, ControlType, Ring!TypeOK, Pipe, Receive
  PROVE  Pipe'
<1>1. sent \in Nat /\ sent' = sent + 1 /\ sent' \in 1 .. MaxBytes
  BY KernelAssumption DEF Receive, FifoType
<1>2. typed' = typed /\ ch' = ch /\ UNCHANGED ringVars
  BY DEF Receive, cpuVars
<1>3. InHand' = InHand /\ Ring!Contents' = Ring!Contents
  BY <1>2, RingFrame DEF InHand
<1> DEFINE A == typed \o InHand \o Ring!Contents
<1>4. rxfifo \in Seq(Bytes) /\ A \in Seq(Bytes) /\ Pipeline \in Seq(Bytes) /\ Pipeline = A \o rxfifo
  BY PipelineType DEF Pipe, Pipeline
<1>5. sent' \in Bytes /\ Bytes \in SUBSET Int
  BY <1>1, KernelAssumption DEF Bytes
<1>6. Elements(Pipeline) \cup lost = 1 .. sent /\ Elements(Pipeline) \cap lost = {}
  BY DEF Pipe
<1>7. 1 .. sent' = (1 .. sent) \cup {sent'}
  BY <1>1
<1>8. sent' \notin 1 .. sent
  BY <1>1
<1>9. typed' \in Seq(Bytes)
  BY <1>2 DEF Pipe
<1>10. CASE rxfifo' = Append(rxfifo, sent') /\ lost' = lost
  <2>1. Pipeline' = A \o Append(rxfifo, sent')
    BY <1>2, <1>3, <1>10 DEF Pipeline
  <2>2. Pipeline' = Append(Pipeline, sent')
    BY <2>1, <1>4, <1>5, AppendToLast
  <2>3. \A e \in Elements(Pipeline) : e < sent'
    <3> SUFFICES ASSUME NEW e \in Elements(Pipeline) PROVE e < sent'
      OBVIOUS
    <3>1. e \in 1 .. sent
      BY <1>6
    <3> QED  BY <3>1, <1>1
  <2>4. /\ Increasing(Append(Pipeline, sent'))
        /\ Elements(Append(Pipeline, sent')) = Elements(Pipeline) \cup {sent'}
    BY <1>4, <1>5, <2>3, Grow DEF Pipe
  <2>5. Increasing(Pipeline)' /\ Elements(Pipeline)' = Elements(Pipeline) \cup {sent'}
    BY <2>2, <2>4 DEF Increasing, Elements
  <2> QED  BY <1>6, <1>7, <1>8, <1>9, <1>10, <2>5 DEF Pipe
<1>11. CASE rxfifo' = rxfifo /\ lost' = lost \cup {sent'}
  <2>1. Pipeline' = Pipeline
    BY <1>2, <1>3, <1>11 DEF Pipeline
  <2>2. Increasing(Pipeline)' /\ Elements(Pipeline)' = Elements(Pipeline)
    BY <2>1 DEF Pipe, Increasing, Elements
  <2> QED  BY <1>6, <1>7, <1>8, <1>9, <1>11, <2>2 DEF Pipe
<1> QED  BY <1>10, <1>11 DEF Receive

\* No interleaving of getchar, do_irq and arriving bytes reorders or loses a byte.
LEMMA PipeInvariant == Spec => []Pipe
<1>1. Init => Pipe
  <2> SUFFICES ASSUME Init PROVE Pipe
    OBVIOUS
  <2>1. Ring!Contents = <<>>
    <3>1. head = 0 /\ tail = 0
      BY DEF Init, Ring!Init
    <3>2. Ring!Count = 0
      BY <3>1 DEF Ring!Count
    <3> QED  BY <3>2 DEF Ring!Contents
  <2>2. typed = <<>> /\ InHand = <<>> /\ rxfifo = <<>> /\ lost = {} /\ sent = 0
    BY DEF Init, InHand, None
  <2>3. <<>> \in Seq(Bytes) /\ <<>> \o <<>> = <<>>
    BY ConcatEmptySeq
  <2>4. Pipeline = <<>> /\ typed \in Seq(Bytes)
    BY <2>1, <2>2, <2>3 DEF Pipeline
  <2>5. Increasing(Pipeline) /\ Elements(Pipeline) = {}
    BY <2>4 DEF Increasing, Elements
  <2>6. 1 .. sent = {}
    BY <2>2
  <2> QED  BY <2>2, <2>4, <2>5, <2>6 DEF Pipe
<1>2. /\ OneCore /\ FifoType /\ ControlType /\ Control /\ Data
      /\ Ring!TypeOK /\ Ring!TypeOK' /\ Pipe /\ [Next]_vars
      => Pipe'
  <2> SUFFICES ASSUME OneCore, FifoType, ControlType, Control, Data, Ring!TypeOK,
                      Ring!TypeOK', Pipe, [Next]_vars
               PROVE  Pipe'
    OBVIOUS
  <2>1. CASE GetcharPop
    <3>1. typed' = typed /\ lost' = lost /\ sent' = sent
      BY <2>1 DEF GetcharPop, historyVars, inputVars
    <3> QED  BY <2>1, <3>1, PopKeepsPipeline, PipeFrame DEF Pipe
  <2>2. CASE Println
    <3>1. lost' = lost /\ sent' = sent
      BY <2>2 DEF Println, inputVars
    <3> QED  BY <2>2, <3>1, PrintKeepsPipeline, PipeFrame
  <2>3. CASE DoIrqUartPush
    BY <2>3, PushKeepsPipe
  <2>4. CASE Receive
    BY <2>4, ReceiveKeepsPipe
  <2>5. ASSUME UNCHANGED <<ringVars, ch, rxfifo, sent, historyVars>> PROVE Pipe'
    <3>1. Ring!Contents' = Ring!Contents
      BY <2>5, RingFrame
    <3>2. typed' = typed /\ lost' = lost /\ sent' = sent /\ rxfifo' = rxfifo /\ ch' = ch
      BY <2>5 DEF historyVars
    <3>3. Pipeline' = Pipeline
      BY <3>1, <3>2 DEF Pipeline, InHand
    <3> QED  BY <3>2, <3>3, PipeFrame DEF Pipe
  <2>6. CASE GetcharCall \/ GetcharReturn \/ LockStep \/ TakeIrq \/ TimerFires \/ UNCHANGED vars
    BY <2>5, <2>6 DEF GetcharCall, GetcharReturn, LockStep, TakeIrq, TimerFires, vars,
       cpuVars, deviceVars, inputVars
  <2>7. CASE ReadIar \/ DoIrqTimer \/ DoIrqUartLock \/ DoIrqUartUnlock \/ DoIrqUartClear
    BY <2>5, <2>7 DEF ReadIar, DoIrqTimer, TimerArm, DoIrqUartLock, DoIrqUartUnlock,
       DoIrqUartClear, ClearAndGoto, cpuVars, deviceVars, inputVars
  <2>8. CASE DoIrqUnhandled \/ WriteEoir \/ ExceptionExit
    BY <2>5, <2>8 DEF DoIrqUnhandled, WriteEoir, EndIrq, ExceptionExit, cpuVars,
       deviceVars, inputVars
  <2> QED  BY <2>1, <2>2, <2>3, <2>4, <2>6, <2>7, <2>8
              DEF Next, Instruction, MainStep, IsrStep
<1> QED  BY <1>1, <1>2, OneCoreInvariant, FifoTypeCorrect, ControlTypeCorrect,
            ControlInvariant, DataInvariant, RingTypeInvariant, PTL DEF Spec

-----------------------------------------------------------------------------
\* Bytes are printed in the order of their arrival, none twice, for every size of FIFO
\* and ring and every trigger level.
THEOREM KernelBytesInOrder == Spec => []BytesInOrder
<1>1. Pipe => BytesInOrder
  BY DEF Pipe, Increasing, BytesInOrder
<1> QED  BY <1>1, PipeInvariant, PTL

\* Every byte is printed, on its way, or dropped by a full FIFO or ring, for every size
\* of FIFO and ring and every trigger level.
THEOREM KernelEveryByteAccounted == Spec => []EveryByteAccounted
<1>1. Pipe => EveryByteAccounted
  BY DEF Pipe, Elements, EveryByteAccounted
<1> QED  BY <1>1, PipeInvariant, PTL

\* The kernel keeps its types: no index out of range, and only bytes that have arrived
\* are printed.
THEOREM KernelTypeCorrect == Spec => []TypeOK
<1>1. OneCore /\ Ring!TypeOK /\ FifoType /\ ControlType /\ Pipe => TypeOK
  <2> SUFFICES ASSUME OneCore, Ring!TypeOK, FifoType, ControlType, Pipe PROVE TypeOK
    OBVIOUS
  <2>1. Mutex!TypeOK
    BY DEF OneCore
  <2>2. lost \subseteq 0 .. MaxBytes
    <3>1. 1 .. sent \subseteq 0 .. MaxBytes
      BY KernelAssumption DEF FifoType
    <3> QED  BY <3>1 DEF Pipe
  <2>3. typed \in Seq(1 .. MaxBytes)
    <3>1. typed \in Seq(Bytes) /\ InHand \in Seq(Bytes) /\ rxfifo \in Seq(Bytes)
          /\ Ring!Contents \in Seq(Bytes) /\ typed \o InHand \in Seq(Bytes)
          /\ typed \o InHand \o Ring!Contents \in Seq(Bytes)
      BY PipelineType DEF Pipe
    <3>2. ASSUME NEW i \in 1 .. Len(typed) PROVE typed[i] \in 1 .. MaxBytes
      <4>1. i \in 1 .. Len(typed \o InHand) /\ (typed \o InHand)[i] = typed[i]
        BY <3>1, ConcatProperties, LenProperties
      <4>2. /\ i \in 1 .. Len(typed \o InHand \o Ring!Contents)
            /\ (typed \o InHand \o Ring!Contents)[i] = typed[i]
        BY <3>1, <4>1, ConcatProperties, LenProperties
      <4>3. i \in 1 .. Len(Pipeline) /\ Pipeline[i] = typed[i]
        BY <3>1, <4>2, ConcatProperties, LenProperties DEF Pipeline
      <4>4. typed[i] \in Elements(Pipeline)
        BY <4>3 DEF Elements
      <4>5. typed[i] \in 1 .. sent
        BY <4>4 DEF Pipe
      <4> QED  BY <4>5, KernelAssumption DEF FifoType
    <3>3. typed \in [1 .. Len(typed) -> Bytes] /\ Len(typed) \in Nat
      BY <3>1, LenProperties
    <3>4. typed \in [1 .. Len(typed) -> 1 .. MaxBytes]
      BY <3>2, <3>3
    <3> QED  BY <3>3, <3>4, SeqDef
  <2> QED  BY <2>1, <2>2, <2>3 DEF FifoType, ControlType, TypeOK
<1> QED  BY <1>1, OneCoreInvariant, RingTypeInvariant, FifoTypeCorrect,
            ControlTypeCorrect, PipeInvariant, PTL
=============================================================================
