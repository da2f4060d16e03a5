--------------------------- MODULE MCIbgSettlement ---------------------------
(***************************************************************************)
(* Instances of IbgSettlement for TLC: one payment, and one observation of *)
(* its sum that stands.                                                    *)
(***************************************************************************)
EXTENDS IbgSettlement, TLC

CONSTANTS p1, o1, r1, x1, x2, x3, m1

OneSumSeen == [o \in Observation |-> m1]
AllStand == [o \in Observation |-> "OBSERVED"]

Symmetric == Permutations(Actor)
=============================================================================
