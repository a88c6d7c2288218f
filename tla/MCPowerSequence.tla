-------------------------- MODULE MCPowerSequence --------------------------
\* PowerSequence for TLC.  The sequences of CMC and VMC are the same as far as the
\* model goes, and so are those of MMC and HSN: one unit of each kind is enough.
EXTENDS PowerSequence

OneUnitOfEachKind == {"DTN", "VMC", "MMC"}

=============================================================================
