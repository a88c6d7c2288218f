--------------------------- MODULE MCAppLifecycle ---------------------------
EXTENDS AppLifecycle

MCInstances ==
  {[app |-> a, ate |-> FALSE, lcores |-> n, signals |-> 2] :
     a \in {"CMC", "VMC"}, n \in 0 .. 2}
  \cup {[app |-> "DTN", ate |-> FALSE, lcores |-> n, signals |-> 1] : n \in 1 .. 4}
  \cup {[app |-> "DTN", ate |-> TRUE, lcores |-> 2, signals |-> 1]}
=============================================================================
