--------------------------- MODULE MCReassembler ----------------------------
\* The instance of ReassemblerSystem that TLC checks.
EXTENDS ReassemblerSystem
=============================================================================
