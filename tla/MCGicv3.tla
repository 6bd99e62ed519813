------------------------------ MODULE MCGicv3 ------------------------------
(* Two priorities that differ in one bit, and interrupts that share          *)
(* registers.  Firmware has left every register all one, or with the bits of *)
(* the PPIs set, or with those of the SPIs set: between them every bit of    *)
(* every interrupt starts at either value.                                   *)
EXTENDS Gicv3

MCPrio == {{}, {7}}
MCResetWord == {0 .. 31, {27, 30}, {1, 2}}
=============================================================================
