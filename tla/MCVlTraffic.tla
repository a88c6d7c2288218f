---------------------------- MODULE MCVlTraffic ----------------------------
EXTENDS VlTraffic

Bounded(u, vls, seqs, lost, other, onWire, warmupEnds) ==
  [unit |-> u, vls |-> vls, seq |-> seqs, lost |-> lost, other |-> other, wire |-> onWire,
   warmupEnds |-> warmupEnds]

\* The CMC's two networks multiply its states: its bounds are varied one by one.
MCSettings ==
  {Bounded("dtn", 2, 3, 1, 1, 2, TRUE), Bounded("vmc", 2, 3, 1, 1, 2, TRUE),
   Bounded("cmc", 1, 4, 2, 1, 1, FALSE), Bounded("cmc", 2, 3, 2, 1, 1, FALSE),
   Bounded("cmc", 1, 2, 1, 0, 1, TRUE)}
=============================================================================
