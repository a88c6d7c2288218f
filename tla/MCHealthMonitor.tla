--------------------------- MODULE MCHealthMonitor ---------------------------
EXTENDS HealthMonitor

a1 == <<"full", "assistant">>
m1 == <<"full", "manager">>
m2 == <<"mini", "manager">>
u1 == <<"mcu", "none">>

\* One source after the other, and the sources interleaved so that the mini header
\* follows the other FPGA's full one.  One mini header stands for the three.
MCOrders == { <<a1, m1, m2, u1>>, <<m1, u1, a1, m2>> }

unitOf(a, m, p, e) == [assistant |-> a, manager |-> m, power |-> p, expected |-> e]

\* two firmware versions; a supply that is on unexpectedly; a failed supply that
\* nobody asked about
MCUnits == { unitOf(1, 2, 1, 1), unitOf(1, 1, 1, 0), unitOf(2, 2, 0, Unchecked) }
=============================================================================
