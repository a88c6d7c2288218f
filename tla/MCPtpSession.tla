---------------------------- MODULE MCPtpSession ----------------------------
\* PtpSession for TLC: the constants are given in the configurations.
EXTENDS PtpSession

=============================================================================
