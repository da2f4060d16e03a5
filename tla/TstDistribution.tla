--------------------------- MODULE TstDistribution ---------------------------
(***************************************************************************)
(* The distribution and treasury pipeline of the Tithe Stewardship Trust:  *)
(* the tables of tst_stewardship_ledger_003 and                            *)
(* tst_distribution_treasury_005, the plpgsql functions that move a        *)
(* distribution from DRAFT to RECONCILED or HOLD, and the table writes the *)
(* service role makes around them.  Every function is one transaction and  *)
(* here one step; TstTransactions splits the functions into the statements *)
(* and the row locks they take.                                            *)
(*                                                                         *)
(* Each function is the conjunction of named guards, one per row or read   *)
(* it depends on, and one effect.  A guard that fails is a RAISE, which    *)
(* rolls the transaction back and so is no step at all.                    *)
(*                                                                         *)
(* The service role may UPDATE and DELETE any row of these tables.  Steps  *)
(* here are its writes of what the functions only read (drafts, the status *)
(* of contributions and allocations, reviews).  That it does not reach     *)
(* past the functions into what they write (the status of a distribution,  *)
(* a payment or a reconciliation, approvals, the totals) is an assumption: *)
(* no constraint would keep such a write consistent with the other rows.   *)
(***************************************************************************)
EXTENDS Integers, FiniteSets, FiniteSetsExt, Functions

CONSTANTS
    Fund,               \* rows of tst.funds, all of one entity and currency
    Allocation,         \* rows tst.allocations may hold
    Distribution,       \* rows tst.distributions may hold
    Contribution,       \* rows of tst.contributions
    Beneficiary,        \* rows of tst.beneficiaries
    Participant,        \* rows of tst.participants, all ACTIVE
    Key,                \* idempotency keys the callers use
    Nobody,             \* a NULL participant
    NoKey,              \* a NULL idempotency key
    FundOf,             \* allocations.fund_id
    AllocationOf,       \* distributions.allocation_id
    BeneficiaryOf,      \* distributions.beneficiary_id
    ContributionFund,   \* contributions.fund_id
    ContributionAmount, \* contributions.amount
    Authorized,         \* allocations.authorized_amount
    Amount,             \* the positive amounts callers ask for
    RolesOf,            \* the active role_assignments of each participant
    AllocationMoves,    \* status updates the service role makes on allocations
    ContributionMoves   \* status updates the service role makes on contributions

AllocationStatus == {"DRAFT", "ACTIVE", "SUSPENDED", "CLOSED"}
ContributionStatus == {"EXPECTED", "RECEIVED", "RECONCILED", "REVERSED"}
Role == {"TST_TRUSTEE", "TST_TREASURY", "TST_RECONCILER"}

ASSUME ReferencesAssumption ==
    /\ FundOf \in [Allocation -> Fund]
    /\ AllocationOf \in [Distribution -> Allocation]
    /\ BeneficiaryOf \in [Distribution -> Beneficiary]
    /\ ContributionFund \in [Contribution -> Fund]
    /\ RolesOf \in [Participant -> SUBSET Role]
    /\ Nobody \notin Participant
    /\ NoKey \notin Key

\* Tables are finite.
ASSUME RowsAssumption ==
    IsFiniteSet(Distribution) /\ IsFiniteSet(Allocation) /\ IsFiniteSet(Contribution)

ASSUME AmountsAssumption ==
    /\ Amount \subseteq Nat \ {0}
    /\ Authorized \in [Allocation -> Nat \ {0}]
    /\ ContributionAmount \in [Contribution -> Nat \ {0}]

ASSUME MovesAssumption ==
    /\ AllocationMoves \subseteq AllocationStatus \X AllocationStatus
    /\ ContributionMoves \subseteq ContributionStatus \X ContributionStatus

VARIABLES
    contribution,    \* status of each contribution
    allocation,      \* status and running totals of each allocation
    distribution,    \* the distributions, "NONE" before the INSERT
    approvals,       \* rows of tst.distribution_approvals
    payment,         \* the payment of each distribution (UNIQUE), or "NONE"
    reconciliation,  \* the reconciliation of each payment (UNIQUE), or "NONE"
    eligible,        \* beneficiaries beneficiary_is_distribution_eligible accepts
    payable          \* beneficiaries with a verified destination and live account

reference == <<contribution, eligible, payable>>
ledger == <<allocation, distribution, approvals, payment, reconciliation>>
vars == <<reference, ledger>>

PipelineStatus ==
    {"PENDING_APPROVAL", "APPROVED", "TREASURY_PENDING", "PAYMENT_EXECUTED",
     "RECONCILIATION_PENDING", "RECONCILED", "HOLD"}

\* Statuses in which approved_amount counts in its allocation's commitment.
CommittedStatus == PipelineStatus \ {"PENDING_APPROVAL"}

PaidStatus ==
    {"PAYMENT_EXECUTED", "RECONCILIATION_PENDING", "RECONCILED", "HOLD"}

NoDistribution ==
    [status |-> "NONE", requested |-> 0, requester |-> Nobody,
     approved |-> 0, approver |-> Nobody]
NoPayment == [status |-> "NONE", amount |-> 0, executor |-> Nobody, key |-> NoKey]
NoReconciliation == [status |-> "NONE", reconciler |-> Nobody, settled |-> 0]

AllocationRecord == [status : AllocationStatus, committed : Nat, disbursed : Nat]
DistributionRecord ==
    [status : PipelineStatus \cup {"NONE", "DRAFT"},
     requested : Amount \cup {0}, requester : Participant \cup {Nobody},
     approved : Amount \cup {0}, approver : Participant \cup {Nobody}]
PaymentRecord ==
    [status : {"NONE", "EXECUTED", "SETTLED"}, amount : Amount \cup {0},
     executor : Participant \cup {Nobody}, key : Key \cup {NoKey}]
ReconciliationRecord ==
    [status : {"NONE", "COMPLETE", "EXCEPTION"},
     reconciler : Participant \cup {Nobody}, settled : Amount \cup {0}]

TypeOK ==
    /\ contribution \in [Contribution -> ContributionStatus]
    /\ allocation \in [Allocation -> AllocationRecord]
    /\ distribution \in [Distribution -> DistributionRecord]
    /\ approvals \subseteq Distribution \X Participant
    /\ payment \in [Distribution -> PaymentRecord]
    /\ reconciliation \in [Distribution -> ReconciliationRecord]
    /\ eligible \subseteq Beneficiary
    /\ payable \subseteq Beneficiary

Init ==
    /\ contribution = [c \in Contribution |-> "EXPECTED"]
    /\ allocation = [a \in Allocation |->
                       [status |-> "ACTIVE", committed |-> 0, disbursed |-> 0]]
    /\ distribution = [d \in Distribution |-> NoDistribution]
    /\ approvals = {}
    /\ payment = [d \in Distribution |-> NoPayment]
    /\ reconciliation = [d \in Distribution |-> NoReconciliation]
    /\ eligible = Beneficiary
    /\ payable = Beneficiary

-----------------------------------------------------------------------------
\* The balance a fund can still commit, and the trigger that guards it.

Received(f) ==
    SumFunctionOnSet(ContributionAmount,
                     {c \in Contribution : /\ ContributionFund[c] = f
                                           /\ contribution[c] \in {"RECEIVED", "RECONCILED"}})

CommittedBy(S) == SumFunction([a \in S |-> allocation[a].committed])

AllocationsOf(f) == {a \in Allocation : FundOf[a] = f}

\* fund_available_balance counts only the commitments of live allocations.
FundAvailable(f) ==
    Received(f) - CommittedBy({a \in AllocationsOf(f) :
                                 allocation[a].status \in {"ACTIVE", "SUSPENDED"}})

\* Mutant: only the increase is held against the capacity, which counts the
\* old commitment as free.
FundCoversDelta(a, n) ==
    n <= FundAvailable(FundOf[a]) + allocation[a].committed

\* enforce_allocation_capacity on an UPDATE of a's commitment by n.
FundCovers(a, n) ==
    allocation[a].committed + n <= FundAvailable(FundOf[a]) + allocation[a].committed

Uncommitted(a) == Authorized[a] - allocation[a].committed

-----------------------------------------------------------------------------
\* Table writes of the service role: new requests, and the reference data the
\* functions read.

InsertDistribution(d, p, n) ==
    /\ distribution[d].status = "NONE"
    /\ distribution' = [distribution EXCEPT ![d] =
                          [NoDistribution EXCEPT !.status = "DRAFT",
                                                 !.requested = n, !.requester = p]]
    /\ UNCHANGED <<reference, allocation, approvals, payment, reconciliation>>

MoveContribution(c, s) ==
    /\ <<contribution[c], s>> \in ContributionMoves
    /\ contribution' = [contribution EXCEPT ![c] = s]
    /\ UNCHANGED <<ledger, eligible, payable>>

\* The capacity trigger is BEFORE UPDATE OF committed_amount, fund_id: a status
\* update does not fire it.
MoveAllocation(a, s) ==
    /\ <<allocation[a].status, s>> \in AllocationMoves
    /\ allocation' = [allocation EXCEPT ![a].status = s]
    /\ UNCHANGED <<reference, distribution, approvals, payment, reconciliation>>

ReviewBeneficiary(b) ==
    /\ eligible' = SymDiff(eligible, {b})
    /\ UNCHANGED <<ledger, contribution, payable>>

ReviewDestination(b) ==
    /\ payable' = SymDiff(payable, {b})
    /\ UNCHANGED <<ledger, contribution, eligible>>

-----------------------------------------------------------------------------
\* submit_distribution

Submittable(d) == distribution[d].status = "DRAFT"

RequestFits(d) ==
    LET a == AllocationOf[d] IN
    /\ allocation[a].status = "ACTIVE"
    /\ distribution[d].requested <= Uncommitted(a)

Submitted(d) ==
    /\ distribution' = [distribution EXCEPT ![d].status = "PENDING_APPROVAL"]
    /\ UNCHANGED <<reference, allocation, approvals, payment, reconciliation>>

SubmitDistribution(d) ==
    /\ Submittable(d)
    /\ RequestFits(d)
    /\ BeneficiaryOf[d] \in eligible
    /\ Submitted(d)

\* approve_distribution: the allocation's status and the beneficiary's
\* eligibility were read at submission and are not read again.

\* Mutant: an approved distribution may be approved again.
ApprovableAgain(d, p, n) ==
    /\ distribution[d].status \in {"PENDING_APPROVAL", "APPROVED"}
    /\ distribution[d].requester # p
    /\ n <= distribution[d].requested
    /\ "TST_TRUSTEE" \in RolesOf[p]

Approvable(d, p, n) ==
    /\ distribution[d].status = "PENDING_APPROVAL"
    /\ distribution[d].requester # p
    /\ n <= distribution[d].requested
    /\ "TST_TRUSTEE" \in RolesOf[p]

\* Mutant: the capacity check forgets what is committed already.
ApprovalFitsAlone(d, n) == n <= Authorized[AllocationOf[d]]

ApprovalFits(d, n) == n <= Uncommitted(AllocationOf[d])

Approved(d, p, n) ==
    /\ approvals' = approvals \cup {<<d, p>>}
    /\ allocation' = [allocation EXCEPT ![AllocationOf[d]].committed = @ + n]
    /\ distribution' = [distribution EXCEPT ![d] =
          [@ EXCEPT !.status = "APPROVED", !.approved = n, !.approver = p]]
    /\ UNCHANGED <<reference, payment, reconciliation>>

ApproveDistribution(d, p, n) ==
    /\ Approvable(d, p, n)
    /\ ApprovalFits(d, n)
    /\ FundCovers(AllocationOf[d], n)
    /\ Approved(d, p, n)

\* release_to_treasury

Releasable(d) == distribution[d].status = "APPROVED"

Released(d) ==
    /\ distribution' = [distribution EXCEPT ![d].status = "TREASURY_PENDING"]
    /\ UNCHANGED <<reference, allocation, approvals, payment, reconciliation>>

ReleaseToTreasury(d) == Releasable(d) /\ Released(d)

\* execute_payment

\* Mutant: the final approver may execute.
ExecutableByApprover(d, p) ==
    /\ distribution[d].status = "TREASURY_PENDING"
    /\ "TST_TREASURY" \in RolesOf[p]

Executable(d, p) ==
    /\ distribution[d].status = "TREASURY_PENDING"
    /\ distribution[d].approver # p
    /\ "TST_TREASURY" \in RolesOf[p]

\* UNIQUE (distribution_id) and UNIQUE (idempotency_key) on tst.payments.
PaymentUnique(d, k) ==
    /\ payment[d].status = "NONE"
    /\ \A e \in Distribution : payment[e].key # k

\* Mutant: the payment carries the requested amount.
ExecutedRequested(d, p, k) ==
    /\ payment' = [payment EXCEPT ![d] =
                     [status |-> "EXECUTED", amount |-> distribution[d].requested,
                      executor |-> p, key |-> k]]
    /\ distribution' = [distribution EXCEPT ![d].status = "PAYMENT_EXECUTED"]
    /\ UNCHANGED <<reference, allocation, approvals, reconciliation>>

Executed(d, p, k) ==
    /\ payment' = [payment EXCEPT ![d] =
                     [status |-> "EXECUTED", amount |-> distribution[d].approved,
                      executor |-> p, key |-> k]]
    /\ distribution' = [distribution EXCEPT ![d].status = "PAYMENT_EXECUTED"]
    /\ UNCHANGED <<reference, allocation, approvals, reconciliation>>

ExecutePayment(d, p, k) ==
    /\ Executable(d, p)
    /\ BeneficiaryOf[d] \in payable
    /\ PaymentUnique(d, k)
    /\ Executed(d, p, k)

\* confirm_payment_settlement: the distribution is updated whatever its status.

\* Mutant: a settlement may be confirmed again.
SettleableAgain(d) == payment[d].status # "NONE"

Settleable(d) == payment[d].status = "EXECUTED"

Settled(d) ==
    /\ payment' = [payment EXCEPT ![d].status = "SETTLED"]
    /\ distribution' = [distribution EXCEPT ![d].status = "RECONCILIATION_PENDING"]
    /\ UNCHANGED <<reference, allocation, approvals, reconciliation>>

ConfirmPaymentSettlement(d) == Settleable(d) /\ Settled(d)

\* complete_reconciliation, with the ledger amount l and the settled amount s
\* the reconciler reports.

Reconcilable(d, p) ==
    /\ payment[d].status = "SETTLED"
    /\ payment[d].executor # p
    /\ "TST_RECONCILER" \in RolesOf[p]

Unreconciled(d) == reconciliation[d].status = "NONE"

\* Mutant: the settled amount is compared with the ledger only.
MatchesLedger(d, l, s) == l = s

Matches(d, l, s) == l = s /\ s = payment[d].amount

\* CHECK (disbursed_amount <= committed_amount) refuses the UPDATE otherwise.
DisbursementFits(d) ==
    LET a == AllocationOf[d] IN
    allocation[a].disbursed + payment[d].amount <= allocation[a].committed

\* Mutant: an exception gives the requested amount back to the allocation.
ReconciledReleasing(d, p, l, s) ==
    /\ \/ /\ Matches(d, l, s)
          /\ reconciliation' = [reconciliation EXCEPT ![d] =
                 [status |-> "COMPLETE", reconciler |-> p, settled |-> s]]
          /\ allocation' =
               [allocation EXCEPT ![AllocationOf[d]].disbursed = @ + payment[d].amount]
          /\ distribution' = [distribution EXCEPT ![d].status = "RECONCILED"]
       \/ /\ ~Matches(d, l, s)
          /\ reconciliation' = [reconciliation EXCEPT ![d] =
                 [status |-> "EXCEPTION", reconciler |-> p, settled |-> s]]
          /\ distribution' = [distribution EXCEPT ![d].status = "HOLD"]
          /\ allocation' = [allocation EXCEPT ![AllocationOf[d]].committed =
                                                   @ - distribution[d].requested]
    /\ UNCHANGED <<reference, approvals, payment>>

ReconciledBy(d, p, l, s) ==
    /\ \/ /\ Matches(d, l, s)
          /\ reconciliation' = [reconciliation EXCEPT ![d] =
                 [status |-> "COMPLETE", reconciler |-> p, settled |-> s]]
          /\ allocation' =
               [allocation EXCEPT ![AllocationOf[d]].disbursed = @ + payment[d].amount]
          /\ distribution' = [distribution EXCEPT ![d].status = "RECONCILED"]
       \/ /\ ~Matches(d, l, s)
          /\ reconciliation' = [reconciliation EXCEPT ![d] =
                 [status |-> "EXCEPTION", reconciler |-> p, settled |-> s]]
          /\ distribution' = [distribution EXCEPT ![d].status = "HOLD"]
          /\ UNCHANGED allocation
    /\ UNCHANGED <<reference, approvals, payment>>

CompleteReconciliation(d, p, l, s) ==
    /\ Reconcilable(d, p)
    /\ Unreconciled(d)
    /\ Matches(d, l, s) => DisbursementFits(d)
    /\ ReconciledBy(d, p, l, s)

-----------------------------------------------------------------------------
ServiceRoleStep ==
    \/ \E d \in Distribution, p \in Participant, n \in Amount : InsertDistribution(d, p, n)
    \/ \E c \in Contribution, s \in ContributionStatus : MoveContribution(c, s)
    \/ \E a \in Allocation, s \in AllocationStatus : MoveAllocation(a, s)
    \/ \E b \in Beneficiary : ReviewBeneficiary(b)
    \/ \E b \in Beneficiary : ReviewDestination(b)

FunctionStep ==
    \E d \in Distribution :
      \/ SubmitDistribution(d)
      \/ \E p \in Participant, n \in Amount : ApproveDistribution(d, p, n)
      \/ ReleaseToTreasury(d)
      \/ \E p \in Participant, k \in Key : ExecutePayment(d, p, k)
      \/ ConfirmPaymentSettlement(d)
      \/ \E p \in Participant, l, s \in Amount \cup {0} : CompleteReconciliation(d, p, l, s)

Next == ServiceRoleStep \/ FunctionStep

Spec == Init /\ [][Next]_vars
-----------------------------------------------------------------------------
\* Properties

\* The commitment the allocations table carries is the sum of the amounts
\* approved against it: approve_distribution is the only writer, a HOLD keeps
\* its commitment, and no approval is counted twice.
CommitmentsAreApprovals ==
    \A a \in Allocation :
        allocation[a].committed =
            SumFunction([d \in {e \in Distribution :
                                   /\ AllocationOf[e] = a
                                   /\ distribution[e].status \in CommittedStatus}
                         |-> distribution[d].approved])

\* The disbursed total of an allocation is the sum of the amounts its complete
\* reconciliations settled: an exception never disburses and no reconciliation
\* disburses twice.
DisbursementsAreReconciliations ==
    \A a \in Allocation :
        allocation[a].disbursed =
            SumFunction([d \in {e \in Distribution :
                                   /\ AllocationOf[e] = a
                                   /\ reconciliation[e].status = "COMPLETE"}
                         |-> reconciliation[d].settled])

\* Whatever order settlements arrive in, the CHECK disbursed <= committed never
\* refuses the reconciliation of a payment that has settled: money that left
\* the treasury can always be booked.
SettledCanBeBooked ==
    \A d \in Distribution :
        payment[d].status = "SETTLED" /\ Unreconciled(d) => DisbursementFits(d)

\* The status of a distribution agrees with the rows the other functions keep
\* of it: what was approved and by whom, whether a payment exists, of which
\* amount and whether it settled, and how its reconciliation ended.
ApprovalRecorded(d) ==
    LET approvers == {p \in Participant : <<d, p>> \in approvals} IN
    IF distribution[d].status \in CommittedStatus
    THEN /\ distribution[d].approved \in 1..distribution[d].requested
         /\ approvers = {distribution[d].approver}
    ELSE /\ distribution[d].approved = 0
         /\ approvers = {}

PaymentAgrees(d) ==
    /\ payment[d].status # "NONE" <=> distribution[d].status \in PaidStatus
    /\ payment[d].status = "SETTLED" <=>
         distribution[d].status \in PaidStatus \ {"PAYMENT_EXECUTED"}
    /\ payment[d].status # "NONE" => payment[d].amount = distribution[d].approved

ReconciliationAgrees(d) ==
    /\ reconciliation[d].status = "COMPLETE" <=> distribution[d].status = "RECONCILED"
    /\ reconciliation[d].status = "EXCEPTION" <=> distribution[d].status = "HOLD"
    /\ reconciliation[d].status = "COMPLETE" =>
         reconciliation[d].settled = payment[d].amount

PipelineConsistent ==
    \A d \in Distribution :
        ApprovalRecorded(d) /\ PaymentAgrees(d) /\ ReconciliationAgrees(d)

\* Segregation of duties along the whole chain of a payment, however late each
\* step comes: it went out on an approval by a trustee who is not the initiator,
\* executed by a treasurer who is not that trustee, and was reconciled, once
\* settled, by a reconciler who did not execute it.
Segregated(d) ==
    /\ distribution[d].status \in CommittedStatus =>
         /\ distribution[d].approver \notin {Nobody, distribution[d].requester}
         /\ "TST_TRUSTEE" \in RolesOf[distribution[d].approver]
    /\ payment[d].status # "NONE" =>
         /\ distribution[d].status \in CommittedStatus
         /\ payment[d].executor \notin {Nobody, distribution[d].approver}
         /\ "TST_TREASURY" \in RolesOf[payment[d].executor]
    /\ reconciliation[d].status # "NONE" =>
         /\ payment[d].status = "SETTLED"
         /\ reconciliation[d].reconciler \notin {Nobody, payment[d].executor}
         /\ "TST_RECONCILER" \in RolesOf[reconciliation[d].reconciler]

DutiesSegregated == \A d \in Distribution : Segregated(d)

\* As long as every allocation is live and no contribution was reversed, the
\* commitments of a fund stay within what it has received.
FundSolvent ==
    \A f \in Fund :
        /\ \A c \in Contribution : ContributionFund[c] = f => contribution[c] # "REVERSED"
        /\ \A a \in AllocationsOf(f) : allocation[a].status \in {"ACTIVE", "SUSPENDED"}
        => CommittedBy(AllocationsOf(f)) <= Received(f)

\* The pipeline implements TstLifecycle: the totals kept on the allocation row
\* decide as the sums over the distributions would, each distribution is paid
\* at most once and the outcome of a payment is final.
Phase(d) ==
    CASE distribution[d].status \in {"NONE", "DRAFT", "PENDING_APPROVAL"} -> "open"
      [] distribution[d].status \in {"APPROVED", "TREASURY_PENDING"} -> "approved"
      [] distribution[d].status \in {"PAYMENT_EXECUTED", "RECONCILIATION_PENDING"} -> "paid"
      [] distribution[d].status = "RECONCILED" -> "reconciled"
      [] distribution[d].status = "HOLD" -> "held"

Lifecycle ==
    INSTANCE TstLifecycle WITH
        phase <- [d \in Distribution |-> Phase(d)],
        granted <- [d \in Distribution |-> distribution[d].approved]

ImplementsLifecycle == Lifecycle!Spec
=============================================================================
