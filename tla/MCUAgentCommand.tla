-------------------------- MODULE MCUAgentCommand --------------------------
(* UAgentCommand with two boards, one of each word size.                    *)
EXTENDS UAgentCommandProofs, TLC
CONSTANTS p1, p2
MCProcs == {p1, p2}
MCBoards64 == {p2}
=============================================================================
