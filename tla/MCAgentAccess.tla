--------------------------- MODULE MCAgentAccess ----------------------------
(***************************************************************************)
(* AgentAccess with interchangeable key names and request threads.         *)
(***************************************************************************)
EXTENDS AgentAccess, TLC

MCSymmetry == Permutations(Names) \cup Permutations(Requests)
=============================================================================
