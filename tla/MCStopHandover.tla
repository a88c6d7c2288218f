---------------------------- MODULE MCStopHandover ----------------------------
EXTENDS StopHandover
=============================================================================
