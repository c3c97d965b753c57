-------------------------- MODULE MCUAgentRegistry --------------------------
(* UAgentRegistry with two names and two boards, one of which echoes LOGON; *)
(* for liveness one board and one connection, the other name unregistered.  *)
EXTENDS UAgentRegistry, TLC
CONSTANTS n1, n2, a1, a2, s1, s2
MCNames == {n1, n2}
MCAddrs == {a1, a2}
MCEchoing == {a2}
MCSocks == {s1, s2}
OneAddr == {a2}
OneSock == {s1}
Symmetry == Permutations(MCNames) \cup Permutations(MCSocks)
=============================================================================
