--------------------------- MODULE MCHealthReports ---------------------------
EXTENDS HealthReports
=============================================================================
