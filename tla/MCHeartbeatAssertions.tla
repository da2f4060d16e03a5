------------------------ MODULE MCHeartbeatAssertions ------------------------
(***************************************************************************)
(* Instance of HeartbeatAssertions for TLC.                                *)
(***************************************************************************)
EXTENDS HeartbeatAssertions, TLC

Symmetric == Permutations(Session)
=============================================================================
