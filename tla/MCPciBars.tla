----------------------------- MODULE MCPciBars -----------------------------
\* PciBars with three registers of two bits.
EXTENDS PciBars

MCMaxSize == [Io |-> 1, Memory32Bit |-> 2, Memory64Bit |-> 8]

=============================================================================
