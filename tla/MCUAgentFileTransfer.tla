------------------------ MODULE MCUAgentFileTransfer ------------------------
(* UAgentFileTransfer with two boards that are alike. *)
EXTENDS UAgentFileTransfer, TLC
CONSTANTS p1, p2
MCProcs  == {p1, p2}
Symmetry == Permutations(MCProcs)
=============================================================================
