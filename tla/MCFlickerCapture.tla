-------------------------- MODULE MCFlickerCapture --------------------------
EXTENDS FlickerCapture

MCInstances ==
  {[chan |-> <<1, 1>>, commands |-> 0, failures |-> 1, frames |-> 1],
   [chan |-> <<1, 2>>, commands |-> 0, failures |-> 0, frames |-> 1],
   [chan |-> <<2, 1>>, commands |-> 0, failures |-> 0, frames |-> 1],
   [chan |-> <<2, 1>>, commands |-> 0, failures |-> 2, frames |-> 0],
   [chan |-> <<2, 1>>, commands |-> 1, failures |-> 1, frames |-> 0],
   [chan |-> <<2, 2>>, commands |-> 2, failures |-> 0, frames |-> 1]}
=============================================================================
