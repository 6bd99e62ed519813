--------------------------- MODULE MCDeviceTree ---------------------------
(* Properties for small trees: the three kinds of devices, two phandles,    *)
(* a reference to one, and cells other than the default.                    *)
EXTENDS DeviceTree

P(n, v) == [name |-> n, value |-> v]

MCProp ==
  {P("compatible", {"arm,gic-v3"}),
   P("compatible", {"arm,pl011", "arm,primecell"}),
   P("compatible", {"arm,armv8-timer", "arm,armv7-timer"}),
   P("phandle", 7),
   P("phandle", 8),
   P("interrupt-parent", 7),
   P("#address-cells", 1)}
=============================================================================
