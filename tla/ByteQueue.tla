------------------------------ MODULE ByteQueue ------------------------------
(***************************************************************************)
(* What the receive buffer promises: a FIFO queue of at most Capacity      *)
(* bytes.  A push onto a full queue is refused and loses the new byte; a   *)
(* pop of an empty queue returns nothing.                                  *)
(***************************************************************************)
EXTENDS Naturals, Sequences

CONSTANTS Capacity, Byte

VARIABLES q,    \* the bytes, oldest first
          ret   \* what the last operation returned

Refused == [ok |-> FALSE, byte |-> 0]

Push(b) ==
  \/ /\ Len(q) < Capacity
     /\ q' = Append(q, b)
     /\ ret' = [ok |-> TRUE, byte |-> 0]
  \/ /\ Len(q) = Capacity
     /\ ret' = Refused
     /\ UNCHANGED q

Pop ==
  \/ /\ q # <<>>
     /\ q' = Tail(q)
     /\ ret' = [ok |-> TRUE, byte |-> Head(q)]
  \/ /\ q = <<>>
     /\ ret' = Refused
     /\ UNCHANGED q

Init == q = <<>> /\ ret = Refused

Next == Pop \/ \E b \in Byte : Push(b)

Spec == Init /\ [][Next]_<<q, ret>>
=============================================================================
