--------------------------- MODULE MCUAgentConnect ---------------------------
(* UAgentConnect with a board on IPv4 that listens on the old port and one  *)
(* on IPv6 that listens on both.                                            *)
EXTENDS UAgentConnect
CONSTANTS b4, b6
MCBoards  == {b4, b6}
MCV6      == {b6}
MCListens == [b \in MCBoards |-> IF b = b4 THEN {10001} ELSE {10001, 10021}]
MCPids    == {-1, 0}
=============================================================================
