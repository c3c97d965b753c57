--------------------------- MODULE MCUAgentSession ---------------------------
(* Bounded instances of UAgentSession: two host names and the first of them *)
(* with a blank in front.                                                   *)
EXTENDS UAgentSession, TLC
CONSTANTS sctf, hbpod, sctfBlank
MCPids == {-2, -1, 0, 2}
MCTrim == (sctf :> sctf) @@ (hbpod :> hbpod) @@ (sctfBlank :> sctf)
=============================================================================
