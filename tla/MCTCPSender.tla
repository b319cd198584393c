---------------------------- MODULE MCTCPSender -----------------------------
\* The instances of TCPSenderSystem that TLC checks.
EXTENDS TCPSenderSystem
=============================================================================
