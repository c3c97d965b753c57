----------------------------- MODULE MCTpfClient -----------------------------
(* TpfClient with its bounds given in the cfg files. *)
EXTENDS TpfClient
=============================================================================
