---------------------------- MODULE MCPacketTest ----------------------------
\* One flow, tested twice, the second time in the same direction or the other;
\* a fragmented packet has two pieces.
EXTENDS PacketTest

CONSTANT udp

MCFlows == {udp}
MCSuites == {<<[flow |-> udp, flag |-> 1], [flow |-> udp, flag |-> g]>> : g \in 0 .. 1}
=============================================================================
