------------------------------- MODULE MCTransport ----------------------------
(* Small instances of Transport and Comms for TLC.                          *)
EXTENDS Transport

\* Packets shorter and longer than the socket buffer and the dump buffer, one
\* with a length that needs both digits, two that differ in order only.
MCPackets == {<<1>>, <<1, 2>>, <<2, 1>>, <<0, 2, 1, 1>>}
MCLengths == {1, 2, 4}
=============================================================================
