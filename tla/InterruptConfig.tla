--------------------------- MODULE InterruptConfig ---------------------------
(***************************************************************************)
(* What the configuration calls of the GIC driver promise: every interrupt *)
(* has a configuration of its own, and a call changes one field of one     *)
(* interrupt.                                                              *)
(***************************************************************************)
CONSTANTS Id,        \* interrupts
          Priority   \* priority values

VARIABLE cfg         \* cfg[id]: the configuration of id

Trigger == {"level", "edge"}

Config == [trigger : Trigger, priority : Priority, group1 : BOOLEAN,
           enabled : BOOLEAN]

Init == cfg \in [Id -> Config]

SetTrigger(id, t) == cfg' = [cfg EXCEPT ![id].trigger = t]
SetPriority(id, p) == cfg' = [cfg EXCEPT ![id].priority = p]
SetGroup(id) == cfg' = [cfg EXCEPT ![id].group1 = TRUE]
Enable(id) == cfg' = [cfg EXCEPT ![id].enabled = TRUE]

Next ==
  \E id \in Id :
    \/ \E t \in Trigger : SetTrigger(id, t)
    \/ \E p \in Priority : SetPriority(id, p)
    \/ SetGroup(id)
    \/ Enable(id)

Spec == Init /\ [][Next]_cfg
=============================================================================
