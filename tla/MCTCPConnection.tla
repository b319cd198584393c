-------------------------- MODULE MCTCPConnection ---------------------------
\* The instances of TCPConnection that TLC checks.
EXTENDS TCPConnection

CONSTANTS ClientISN, ServerISN, ClientBytes, ServerBytes

MCISN == [p \in Sides |-> IF p = Client THEN ClientISN ELSE ServerISN]

MCWritable == [p \in Sides |-> IF p = Client THEN ClientBytes ELSE ServerBytes]

\* Every side has a clock of its own, or there is one for both.
OwnClocks == {{Client}, {Server}}
OneClock  == {{Client, Server}}
=============================================================================
