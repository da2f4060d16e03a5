------------------------ MODULE MCSettlementGovernance ------------------------
(***************************************************************************)
(* SettlementGovernance for TLC: its constants have values in the .cfg     *)
(* files, and only the statuses that a run's properties turn on are in     *)
(* use there.  Nothing in the module tells one actor from another.         *)
(***************************************************************************)
EXTENDS SettlementGovernance, TLC

ActorSymmetry == Permutations(Actor)
=============================================================================
