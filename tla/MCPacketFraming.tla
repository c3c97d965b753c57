--------------------------- MODULE MCPacketFraming ---------------------------
(* PacketFraming with heads of three bytes, or with the real sizes.         *)
EXTENDS PacketFramingProofs
MCMsgLens  == {3, 4, 6, 7}        \* 7 is more than the buffer holds
AllCuts    == 0 .. 7
RealLens   == {8, 532, 532 + 102400}    \* an answer with no, or with all data it may hold
RealCuts   == {0, 1, 9, 500, 11000, 22000}
==============================================================================
