-------------------------- MODULE MCTstDistribution --------------------------
(***************************************************************************)
(* Instances of TstDistribution for TLC: one fund, one allocation larger   *)
(* than the fund's receipts, two distributions that compete for it.        *)
(***************************************************************************)
EXTENDS TstDistribution, TLC

CONSTANTS f1, a1, d1, d2, c1, b1, p1, p2, p3, k1, k2

MCFundOf == [a \in Allocation |-> f1]
MCAllocationOf == [d \in Distribution |-> a1]
MCBeneficiaryOf == [d \in Distribution |-> b1]
MCContributionFund == [c \in Contribution |-> f1]
MCAuthorized == [a \in Allocation |-> 3]
MCContributionAmount == [c \in Contribution |-> 2]

\* Every participant holds every role: only the identity checks keep them apart.
AllRoles == [p \in Participant |-> Role]

AnyContributionMove ==
    {<<"EXPECTED", "RECEIVED">>, <<"RECEIVED", "RECONCILED">>, <<"RECEIVED", "REVERSED">>}
AnyAllocationMove ==
    {<<"ACTIVE", "SUSPENDED">>, <<"SUSPENDED", "ACTIVE">>, <<"ACTIVE", "CLOSED">>}

Symmetric == Permutations(Participant) \cup Permutations(Key)
=============================================================================
