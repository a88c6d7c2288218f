---------------------------- MODULE MCTestbedSetup ----------------------------
EXTENDS TestbedSetup

MCFiber == <<0>>
MCCopper == <<12>>
MCStoreForward == [p \in {0, 12} |-> IF p = 0 THEN 1 ELSE 2]
=============================================================================
