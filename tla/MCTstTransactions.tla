-------------------------- MODULE MCTstTransactions --------------------------
(***************************************************************************)
(* Instances of TstTransactions for TLC: two sessions over the instances   *)
(* of MCTstDistribution, with two officers for the three duties.           *)
(***************************************************************************)
EXTENDS TstTransactions, TLC

CONSTANTS f1, a1, a2, d1, d2, c1, b1, p1, p2, k1, k2, s1, s2

MCFundOf == [a \in Allocation |-> f1]
MCBeneficiaryOf == [d \in Distribution |-> b1]
MCContributionFund == [c \in Contribution |-> f1]
SharedAllocation == [d \in Distribution |-> a1]
OwnAllocation == d1 :> a1 @@ d2 :> a2
Authorized1 == [a \in Allocation |-> 1]
Receipts1 == [c \in Contribution |-> 1]
TwoOfficers == p1 :> {"TST_TRUSTEE", "TST_RECONCILER"} @@ p2 :> {"TST_TREASURY"}
Receipt == {<<"EXPECTED", "RECEIVED">>}
Suspension == {<<"ACTIVE", "SUSPENDED">>}

FirstAmount == CHOOSE n \in Amount : \A m \in Amount : n <= m

CallOf(f, d, p, n, k, r) ==
    [function |-> f, distribution |-> d, participant |-> p, amount |-> n, key |-> k,
     reported |-> r, settled |-> r]

\* Each officer's own calls; arguments a function does not take are fixed.
MCCall ==
    LET Plain(f, d, p) == CallOf(f, d, p, FirstAmount, k1, 0) IN
    UNION {   {Plain(f, d, p1) : f \in {"submit", "release", "confirm"}}
       \cup {CallOf("approve", d, p1, n, k1, 0) : n \in Amount}
       \cup {CallOf("execute", d, p2, FirstAmount, k, 0) : k \in Key}
       \cup {CallOf("reconcile", d, p1, FirstAmount, k1, r) : r \in Amount \cup {0}}
       : d \in Distribution}

\* The second distribution competes for the allocation and goes no further.
CompetingCall ==
    {c \in MCCall : c.distribution = d1 \/ c.function \in {"submit", "approve"}}
=============================================================================
