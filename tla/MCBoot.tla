------------------------------ MODULE MCBoot ------------------------------
(* Firmware has left the GIC's registers zero, or both interrupts disabled   *)
(* but edge-triggered and of low priority.  Memory holds zero, or the        *)
(* descriptor of an unprivileged, read-only table.                           *)
EXTENDS Boot

MCResetWord == {{}, {3, 15, 23, 29}}
MCGarbage == {{}, {0, 1, 2, 7, 12, 53}}
=============================================================================
