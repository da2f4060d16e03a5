------------------------ MODULE TstDistributionProofs ------------------------
(***************************************************************************)
(* Proofs about TstDistribution, for every set of rows, amounts, roles and *)
(* status moves, and about TstTransactions, for any number of sessions:    *)
(* the row locks keep what the functions tested until they commit, so that *)
(* the interleaved functions keep the promises of the atomic ones, all but *)
(* the solvency of a fund, which rests on a read without a lock.           *)
(***************************************************************************)
EXTENDS TstTransactions, FiniteSums

(***************************************************************************)
(* A column of a row may be updated with any value of the column's type:   *)
(* the forms of UPDATE the functions use on distributions and allocations. *)
(***************************************************************************)
LEMMA StatusUpdate ==
  ASSUME NEW f \in [Distribution -> DistributionRecord], NEW d \in Distribution,
         NEW s \in PipelineStatus
  PROVE  [f EXCEPT ![d].status = s] \in [Distribution -> DistributionRecord]
<1>1. f[d] \in DistributionRecord
  OBVIOUS
<1>2. [f[d] EXCEPT !.status = s] \in DistributionRecord
  BY <1>1 DEF DistributionRecord
<1>3. QED
  BY <1>2

LEMMA ApprovalUpdate ==
  ASSUME NEW f \in [Distribution -> DistributionRecord], NEW d \in Distribution,
         NEW s \in PipelineStatus, NEW n \in Amount, NEW p \in Participant
  PROVE  [f EXCEPT ![d] = [@ EXCEPT !.status = s, !.approved = n, !.approver = p]]
            \in [Distribution -> DistributionRecord]
<1>1. f[d] \in DistributionRecord
  OBVIOUS
<1>2. [f[d] EXCEPT !.status = s, !.approved = n, !.approver = p] \in DistributionRecord
  BY <1>1 DEF DistributionRecord
<1>3. QED
  BY <1>2

LEMMA AllocationUpdate ==
  ASSUME NEW f \in [Allocation -> AllocationRecord], NEW a \in Allocation
  PROVE  /\ \A s \in AllocationStatus :
               [f EXCEPT ![a].status = s] \in [Allocation -> AllocationRecord]
         /\ \A n \in Nat :
               /\ [f EXCEPT ![a].committed = @ + n] \in [Allocation -> AllocationRecord]
               /\ [f EXCEPT ![a].disbursed = @ + n] \in [Allocation -> AllocationRecord]
<1>1. f[a] \in AllocationRecord
  OBVIOUS
<1>2. ASSUME NEW s \in AllocationStatus
      PROVE  [f EXCEPT ![a].status = s] \in [Allocation -> AllocationRecord]
  <2>1. [f[a] EXCEPT !.status = s] \in AllocationRecord
    BY <1>1 DEF AllocationRecord
  <2>2. QED
    BY <2>1
<1>3. ASSUME NEW n \in Nat
      PROVE  /\ [f EXCEPT ![a].committed = @ + n] \in [Allocation -> AllocationRecord]
             /\ [f EXCEPT ![a].disbursed = @ + n] \in [Allocation -> AllocationRecord]
  <2>1. [f[a] EXCEPT !.committed = @ + n] \in AllocationRecord
    BY <1>1 DEF AllocationRecord
  <2>2. [f[a] EXCEPT !.disbursed = @ + n] \in AllocationRecord
    BY <1>1 DEF AllocationRecord
  <2>3. QED
    BY <2>1, <2>2
<1>4. QED
  BY <1>2, <1>3

LEMMA PaymentUpdate ==
  ASSUME NEW f \in [Distribution -> PaymentRecord], NEW d \in Distribution
  PROVE  [f EXCEPT ![d].status = "SETTLED"] \in [Distribution -> PaymentRecord]
<1>1. f[d] \in PaymentRecord
  OBVIOUS
<1>2. [f[d] EXCEPT !.status = "SETTLED"] \in PaymentRecord
  BY <1>1 DEF PaymentRecord
<1>3. QED
  BY <1>2

(***************************************************************************)
(* The amounts a row holds are natural numbers.                            *)
(***************************************************************************)
LEMMA AmountsAreNat ==
  ASSUME TypeOK, NEW d \in Distribution
  PROVE  /\ AllocationOf[d] \in Allocation
         /\ payment[d] \in PaymentRecord /\ payment[d].amount \in Amount \cup {0}
         /\ distribution[d] \in DistributionRecord
         /\ distribution[d].approved \in Amount \cup {0}
         /\ Amount \cup {0} \subseteq Nat
BY ReferencesAssumption, AmountsAssumption DEF TypeOK, PaymentRecord, DistributionRecord

(***************************************************************************)
(* What the functions do once the rows they lock passed their tests.  What *)
(* they read without a lock, the beneficiary's standing and the fund's     *)
(* balance, matters to solvency only; so most of what follows is proved of *)
(* this larger step and holds of TstTransactions too, where such a read    *)
(* may be stale at the commit.                                             *)
(***************************************************************************)
LockedFunctionStep ==
    \E d \in Distribution :
      \/ Submittable(d) /\ Submitted(d)
      \/ \E p \in Participant, n \in Amount :
            Approvable(d, p, n) /\ ApprovalFits(d, n) /\ Approved(d, p, n)
      \/ Releasable(d) /\ Released(d)
      \/ \E p \in Participant, k \in Key :
            Executable(d, p) /\ PaymentUnique(d, k) /\ Executed(d, p, k)
      \/ Settleable(d) /\ Settled(d)
      \/ \E p \in Participant, l, s \in Amount \cup {0} :
            Reconcilable(d, p) /\ Unreconciled(d) /\ ReconciledBy(d, p, l, s)

LockedNext == ServiceRoleStep \/ LockedFunctionStep

LEMMA NextIsLocked == Next => LockedNext
BY DEF Next, LockedNext, FunctionStep, LockedFunctionStep, SubmitDistribution,
       ApproveDistribution, ReleaseToTreasury, ExecutePayment, ConfirmPaymentSettlement,
       CompleteReconciliation

(***************************************************************************)
(* No function and no table write breaks a column's type.                  *)
(***************************************************************************)
LEMMA TypeStep == TypeOK /\ [LockedNext]_vars => TypeOK'
<1> SUFFICES ASSUME TypeOK, [LockedNext]_vars PROVE TypeOK'
  OBVIOUS
<1>1. ASSUME NEW d \in Distribution, NEW p \in Participant, NEW n \in Amount,
             InsertDistribution(d, p, n)
      PROVE  TypeOK'
  <2>1. [NoDistribution EXCEPT !.status = "DRAFT", !.requested = n, !.requester = p]
          \in DistributionRecord
    BY DEF NoDistribution, DistributionRecord
  <2>2. QED
    BY <1>1, <2>1 DEF InsertDistribution, TypeOK, reference
<1>2. ASSUME NEW c \in Contribution, NEW s \in ContributionStatus, MoveContribution(c, s)
      PROVE  TypeOK'
  BY <1>2 DEF MoveContribution, TypeOK, ledger
<1>3. ASSUME NEW a \in Allocation, NEW s \in AllocationStatus, MoveAllocation(a, s)
      PROVE  TypeOK'
  <2>1. allocation' = [allocation EXCEPT ![a].status = s]
    BY <1>3 DEF MoveAllocation
  <2>2. allocation' \in [Allocation -> AllocationRecord]
    BY <2>1, AllocationUpdate DEF TypeOK
  <2>3. QED
    BY <1>3, <2>2 DEF MoveAllocation, TypeOK, reference
<1>4. ASSUME NEW b \in Beneficiary, ReviewBeneficiary(b) \/ ReviewDestination(b)
      PROVE  TypeOK'
  BY <1>4 DEF ReviewBeneficiary, ReviewDestination, SymDiff, TypeOK, ledger
<1>5. ASSUME NEW d \in Distribution, Submitted(d)
      PROVE  TypeOK'
  <2>1. distribution' \in [Distribution -> DistributionRecord]
    BY <1>5, StatusUpdate DEF Submitted, TypeOK, PipelineStatus
  <2>2. QED
    BY <1>5, <2>1 DEF Submitted, TypeOK, reference
<1>6. ASSUME NEW d \in Distribution, NEW p \in Participant, NEW n \in Amount,
             Approved(d, p, n)
      PROVE  TypeOK'
  <2>1. distribution' \in [Distribution -> DistributionRecord]
    BY <1>6, ApprovalUpdate DEF Approved, TypeOK, PipelineStatus
  <2>2. allocation' \in [Allocation -> AllocationRecord]
    BY <1>6, AllocationUpdate, AmountsAreNat DEF Approved, TypeOK
  <2>3. QED
    BY <1>6, <2>1, <2>2 DEF Approved, TypeOK, reference
<1>7. ASSUME NEW d \in Distribution, Released(d)
      PROVE  TypeOK'
  <2>1. distribution' \in [Distribution -> DistributionRecord]
    BY <1>7, StatusUpdate DEF Released, TypeOK, PipelineStatus
  <2>2. QED
    BY <1>7, <2>1 DEF Released, TypeOK, reference
<1>8. ASSUME NEW d \in Distribution, NEW p \in Participant, NEW k \in Key,
             Executed(d, p, k)
      PROVE  TypeOK'
  <2>1. distribution' \in [Distribution -> DistributionRecord]
    BY <1>8, StatusUpdate DEF Executed, TypeOK, PipelineStatus
  <2>2. [status |-> "EXECUTED", amount |-> distribution[d].approved,
         executor |-> p, key |-> k] \in PaymentRecord
    BY AmountsAreNat DEF PaymentRecord
  <2>3. QED
    BY <1>8, <2>1, <2>2 DEF Executed, TypeOK, reference
<1>9. ASSUME NEW d \in Distribution, Settled(d)
      PROVE  TypeOK'
  <2>1. distribution' \in [Distribution -> DistributionRecord]
    BY <1>9, StatusUpdate DEF Settled, TypeOK, PipelineStatus
  <2>2. payment' \in [Distribution -> PaymentRecord]
    BY <1>9, PaymentUpdate DEF Settled, TypeOK
  <2>3. QED
    BY <1>9, <2>1, <2>2 DEF Settled, TypeOK, reference
<1>10. ASSUME NEW d \in Distribution, NEW p \in Participant,
              NEW l \in Amount \cup {0}, NEW s \in Amount \cup {0},
              ReconciledBy(d, p, l, s)
       PROVE  TypeOK'
  <2>1. \A r \in {"COMPLETE", "EXCEPTION"} :
           [status |-> r, reconciler |-> p, settled |-> s] \in ReconciliationRecord
    BY DEF ReconciliationRecord
  <2>2. CASE Matches(d, l, s)
    <3>1. distribution' = [distribution EXCEPT ![d].status = "RECONCILED"]
      BY <1>10, <2>2 DEF ReconciledBy
    <3>2. allocation' =
            [allocation EXCEPT ![AllocationOf[d]].disbursed = @ + payment[d].amount]
      BY <1>10, <2>2 DEF ReconciledBy
    <3>3. distribution' \in [Distribution -> DistributionRecord]
      BY <3>1, StatusUpdate DEF TypeOK, PipelineStatus
    <3>4. allocation' \in [Allocation -> AllocationRecord]
      BY <3>2, AllocationUpdate, AmountsAreNat DEF TypeOK
    <3>5. QED
      BY <1>10, <2>1, <2>2, <3>3, <3>4 DEF ReconciledBy, TypeOK, reference
  <2>3. CASE ~Matches(d, l, s)
    <3>1. distribution' = [distribution EXCEPT ![d].status = "HOLD"]
      BY <1>10, <2>3 DEF ReconciledBy
    <3>2. distribution' \in [Distribution -> DistributionRecord]
      BY <3>1, StatusUpdate DEF TypeOK, PipelineStatus
    <3>3. QED
      BY <1>10, <2>1, <2>3, <3>2 DEF ReconciledBy, TypeOK, reference
  <2>4. QED
    BY <2>2, <2>3
<1>11. CASE UNCHANGED vars
  BY <1>11 DEF vars, TypeOK, reference, ledger
<1>12. QED
  BY <1>1, <1>2, <1>3, <1>4, <1>5, <1>6, <1>7, <1>8, <1>9, <1>10, <1>11
     DEF LockedNext, ServiceRoleStep, LockedFunctionStep

LEMMA TypeInit == Init => TypeOK
BY ReferencesAssumption
   DEF Init, TypeOK, NoDistribution, NoPayment, NoReconciliation, PipelineStatus,
       AllocationStatus, ContributionStatus, AllocationRecord, DistributionRecord,
       PaymentRecord, ReconciliationRecord

(***************************************************************************)
(* Every column keeps its type: in particular the two running totals of an *)
(* allocation stay natural numbers under every function.                   *)
(***************************************************************************)
THEOREM TypeCorrect == Spec => []TypeOK
BY TypeInit, TypeStep, NextIsLocked, PTL DEF Spec

-----------------------------------------------------------------------------
(***************************************************************************)
(* What the rows of one distribution say of each other.  Every function    *)
(* works on the rows of one distribution, so the invariant is a statement  *)
(* about each row set on its own.                                          *)
(***************************************************************************)
RowInv(d) ==
    ApprovalRecorded(d) /\ PaymentAgrees(d) /\ ReconciliationAgrees(d) /\ Segregated(d)

RowsInv == \A d \in Distribution : RowInv(d)

\* A step that leaves the rows of e alone keeps what they say of each other.
LEMMA RowFrame ==
  ASSUME NEW e \in Distribution, RowInv(e),
         distribution'[e] = distribution[e], payment'[e] = payment[e],
         reconciliation'[e] = reconciliation[e],
         \A p \in Participant : <<e, p>> \in approvals' <=> <<e, p>> \in approvals
  PROVE  RowInv(e)'
BY DEF RowInv, ApprovalRecorded, PaymentAgrees, ReconciliationAgrees, Segregated

\* A status update changes the status column of one row.
LEMMA StatusRow ==
  ASSUME TypeOK, NEW d \in Distribution, NEW s,
         distribution' = [distribution EXCEPT ![d].status = s]
  PROVE  /\ distribution'[d].status = s
         /\ distribution'[d].requested = distribution[d].requested
         /\ distribution'[d].requester = distribution[d].requester
         /\ distribution'[d].approved = distribution[d].approved
         /\ distribution'[d].approver = distribution[d].approver
         /\ \A e \in Distribution \ {d} : distribution'[e] = distribution[e]
<1>1. distribution[d] \in DistributionRecord
  BY DEF TypeOK
<1>2. distribution'[d] = [distribution[d] EXCEPT !.status = s]
  BY DEF TypeOK
<1>3. QED
  BY <1>1, <1>2 DEF TypeOK, DistributionRecord

LEMMA RowsStep == TypeOK /\ RowsInv /\ [LockedNext]_vars => RowsInv'
<1> SUFFICES ASSUME TypeOK, RowsInv, [LockedNext]_vars PROVE RowsInv'
  OBVIOUS
<1>1. ASSUME NEW d \in Distribution, NEW p \in Participant, NEW n \in Amount,
             InsertDistribution(d, p, n)
      PROVE  RowsInv'
  <2>1. distribution'[d] = [status |-> "DRAFT", requested |-> n, requester |-> p,
                            approved |-> 0, approver |-> Nobody]
    BY <1>1 DEF InsertDistribution, NoDistribution, TypeOK
  <2>2. \A e \in Distribution \ {d} : distribution'[e] = distribution[e]
    BY <1>1 DEF InsertDistribution, TypeOK
  <2>3. distribution[d].status = "NONE" /\ RowInv(d)
    BY <1>1 DEF InsertDistribution, RowsInv
  <2>4. UNCHANGED <<approvals, payment, reconciliation>>
    BY <1>1 DEF InsertDistribution
  <2>5. RowInv(d)'
    BY <2>1, <2>3, <2>4
       DEF RowInv, ApprovalRecorded, PaymentAgrees, ReconciliationAgrees, Segregated,
           CommittedStatus, PaidStatus, PipelineStatus
  <2>6. QED
    BY <2>2, <2>4, <2>5, RowFrame DEF RowsInv
<1>2. ASSUME NEW d \in Distribution, Submittable(d), Submitted(d)
      PROVE  RowsInv'
  <2>1. distribution' = [distribution EXCEPT ![d].status = "PENDING_APPROVAL"]
    BY <1>2 DEF Submitted
  <2>2. distribution[d].status = "DRAFT" /\ RowInv(d)
    BY <1>2 DEF Submittable, RowsInv
  <2>3. UNCHANGED <<approvals, payment, reconciliation>>
    BY <1>2 DEF Submitted
  <2>4. RowInv(d)'
    BY <2>1, <2>2, <2>3, StatusRow
       DEF RowInv, ApprovalRecorded, PaymentAgrees, ReconciliationAgrees, Segregated,
           CommittedStatus, PaidStatus, PipelineStatus
  <2>5. QED
    BY <2>1, <2>3, <2>4, StatusRow, RowFrame DEF RowsInv
<1>3. ASSUME NEW d \in Distribution, NEW p \in Participant, NEW n \in Amount,
             Approvable(d, p, n), Approved(d, p, n)
      PROVE  RowsInv'
  <2>1. /\ distribution'[d].status = "APPROVED"
        /\ distribution'[d].requested = distribution[d].requested
        /\ distribution'[d].requester = distribution[d].requester
        /\ distribution'[d].approved = n
        /\ distribution'[d].approver = p
    <3>1. distribution'[d] =
            [distribution[d] EXCEPT !.status = "APPROVED", !.approved = n, !.approver = p]
      BY <1>3 DEF Approved, TypeOK
    <3>2. distribution[d] \in DistributionRecord
      BY DEF TypeOK
    <3>3. QED
      BY <3>1, <3>2 DEF DistributionRecord
  <2>2. \A e \in Distribution \ {d} : distribution'[e] = distribution[e]
    BY <1>3 DEF Approved, TypeOK
  <2>3. /\ distribution[d].status = "PENDING_APPROVAL" /\ RowInv(d)
        /\ distribution[d].requester # p
        /\ n <= distribution[d].requested
        /\ "TST_TRUSTEE" \in RolesOf[p]
    BY <1>3 DEF Approvable, RowsInv
  <2>4. approvals' = approvals \cup {<<d, p>>} /\ UNCHANGED <<payment, reconciliation>>
    BY <1>3 DEF Approved
  <2>5. n \in 1..distribution[d].requested /\ p # Nobody
    BY <2>3, ReferencesAssumption, AmountsAssumption DEF TypeOK, DistributionRecord
  <2>6. \A q \in Participant : <<d, q>> \in approvals' <=> q = p
    BY <2>3, <2>4 DEF RowInv, ApprovalRecorded, CommittedStatus
  <2>7. ApprovalRecorded(d)'
    BY <2>1, <2>5, <2>6 DEF ApprovalRecorded, CommittedStatus, PipelineStatus
  <2>8. PaymentAgrees(d)' /\ ReconciliationAgrees(d)' /\ Segregated(d)'
    BY <2>1, <2>3, <2>4, <2>5
       DEF RowInv, PaymentAgrees, ReconciliationAgrees, Segregated, CommittedStatus,
           PaidStatus, PipelineStatus
  <2>9. QED
    BY <2>2, <2>4, <2>7, <2>8, RowFrame DEF RowsInv, RowInv
<1>4. ASSUME NEW d \in Distribution, Releasable(d), Released(d)
      PROVE  RowsInv'
  <2>1. distribution' = [distribution EXCEPT ![d].status = "TREASURY_PENDING"]
    BY <1>4 DEF Released
  <2>2. distribution[d].status = "APPROVED" /\ RowInv(d)
    BY <1>4 DEF Releasable, RowsInv
  <2>3. UNCHANGED <<approvals, payment, reconciliation>>
    BY <1>4 DEF Released
  <2>4. RowInv(d)'
    BY <2>1, <2>2, <2>3, StatusRow
       DEF RowInv, ApprovalRecorded, PaymentAgrees, ReconciliationAgrees, Segregated,
           CommittedStatus, PaidStatus, PipelineStatus
  <2>5. QED
    BY <2>1, <2>3, <2>4, StatusRow, RowFrame DEF RowsInv
<1>5. ASSUME NEW d \in Distribution, NEW p \in Participant, NEW k \in Key,
             Executable(d, p), PaymentUnique(d, k), Executed(d, p, k)
      PROVE  RowsInv'
  <2>1. distribution' = [distribution EXCEPT ![d].status = "PAYMENT_EXECUTED"]
    BY <1>5 DEF Executed
  <2>2. /\ distribution[d].status = "TREASURY_PENDING" /\ RowInv(d)
        /\ distribution[d].approver # p /\ "TST_TREASURY" \in RolesOf[p]
        /\ payment[d].status = "NONE"
    BY <1>5 DEF Executable, PaymentUnique, RowsInv
  <2>3. /\ payment'[d] = [status |-> "EXECUTED", amount |-> distribution[d].approved,
                          executor |-> p, key |-> k]
        /\ \A e \in Distribution \ {d} : payment'[e] = payment[e]
    BY <1>5 DEF Executed, TypeOK
  <2>4. UNCHANGED <<approvals, reconciliation>>
    BY <1>5 DEF Executed
  <2>5. ApprovalRecorded(d)'
    BY <2>1, <2>2, <2>4, StatusRow
       DEF RowInv, ApprovalRecorded, CommittedStatus, PipelineStatus
  <2>6. PaymentAgrees(d)' /\ ReconciliationAgrees(d)'
    <3>1. PaymentAgrees(d)'
      <4>1. /\ distribution'[d].status = "PAYMENT_EXECUTED"
            /\ payment'[d].status = "EXECUTED"
            /\ payment'[d].amount = distribution'[d].approved
        <5>1. /\ payment'[d].status = "EXECUTED"
              /\ payment'[d].amount = distribution[d].approved
          BY <2>3
        <5>2. QED
          BY <2>1, <5>1, StatusRow
      <4>2. QED
        BY <4>1 DEF PaymentAgrees, PaidStatus
    <3>2. ReconciliationAgrees(d)'
      BY <2>1, <2>2, <2>3, <2>4, StatusRow DEF RowInv, ReconciliationAgrees
    <3>3. QED
      BY <3>1, <3>2
  <2>7. Segregated(d)'
    BY <2>1, <2>2, <2>3, <2>4, StatusRow, ReferencesAssumption
       DEF RowInv, Segregated, ReconciliationAgrees, CommittedStatus, PipelineStatus
  <2>8. QED
    BY <2>1, <2>3, <2>4, <2>5, <2>6, <2>7, StatusRow, RowFrame DEF RowsInv, RowInv
<1>6. ASSUME NEW d \in Distribution, Settleable(d), Settled(d)
      PROVE  RowsInv'
  <2>1. distribution' = [distribution EXCEPT ![d].status = "RECONCILIATION_PENDING"]
    BY <1>6 DEF Settled
  <2>2. payment[d].status = "EXECUTED" /\ RowInv(d)
    BY <1>6 DEF Settleable, RowsInv
  <2>3. /\ payment'[d].status = "SETTLED"
        /\ payment'[d].amount = payment[d].amount
        /\ payment'[d].executor = payment[d].executor
        /\ \A e \in Distribution \ {d} : payment'[e] = payment[e]
    <3>1. payment[d] \in PaymentRecord
      BY DEF TypeOK
    <3>2. /\ payment'[d] = [payment[d] EXCEPT !.status = "SETTLED"]
          /\ \A e \in Distribution \ {d} : payment'[e] = payment[e]
      BY <1>6 DEF Settled, TypeOK
    <3>3. QED
      BY <3>1, <3>2 DEF PaymentRecord
  <2>4. UNCHANGED <<approvals, reconciliation>>
    BY <1>6 DEF Settled
  <2>5. distribution[d].status = "PAYMENT_EXECUTED"
    BY <2>2 DEF RowInv, PaymentAgrees
  <2>6. ApprovalRecorded(d)'
    BY <2>1, <2>2, <2>4, <2>5, StatusRow
       DEF RowInv, ApprovalRecorded, CommittedStatus, PipelineStatus
  <2>7. PaymentAgrees(d)' /\ ReconciliationAgrees(d)'
    <3>1. PaymentAgrees(d)'
      <4>1. /\ distribution'[d].status = "RECONCILIATION_PENDING"
            /\ payment'[d].status = "SETTLED"
            /\ payment'[d].amount = distribution'[d].approved
        BY <2>1, <2>2, <2>3, <2>4, <2>5, StatusRow DEF RowInv, PaymentAgrees
      <4>2. QED
        BY <4>1 DEF PaymentAgrees, PaidStatus
    <3>2. ReconciliationAgrees(d)'
      BY <2>1, <2>2, <2>3, <2>4, <2>5, StatusRow DEF RowInv, ReconciliationAgrees
    <3>3. QED
      BY <3>1, <3>2
  <2>8. Segregated(d)'
    BY <2>1, <2>2, <2>3, <2>4, <2>5, StatusRow
       DEF RowInv, Segregated, CommittedStatus, PipelineStatus
  <2>9. QED
    BY <2>1, <2>3, <2>4, <2>6, <2>7, <2>8, StatusRow, RowFrame DEF RowsInv, RowInv
<1>7. ASSUME NEW d \in Distribution, NEW p \in Participant,
             NEW l \in Amount \cup {0}, NEW s \in Amount \cup {0},
             Reconcilable(d, p), Unreconciled(d), ReconciledBy(d, p, l, s)
      PROVE  RowsInv'
  <2>1. PICK outcome \in {"RECONCILED", "HOLD"} :
          /\ distribution' = [distribution EXCEPT ![d].status = outcome]
          /\ reconciliation' = [reconciliation EXCEPT ![d] =
                [status |-> IF outcome = "HOLD" THEN "EXCEPTION" ELSE "COMPLETE",
                 reconciler |-> p, settled |-> s]]
          /\ outcome = "RECONCILED" => s = payment[d].amount
    BY <1>7 DEF ReconciledBy, Matches
  <2>2. /\ payment[d].status = "SETTLED" /\ RowInv(d)
        /\ payment[d].executor # p /\ "TST_RECONCILER" \in RolesOf[p]
        /\ reconciliation[d].status = "NONE"
    BY <1>7 DEF Reconcilable, Unreconciled, RowsInv
  <2>3. /\ reconciliation'[d] =
             [status |-> IF outcome = "HOLD" THEN "EXCEPTION" ELSE "COMPLETE",
              reconciler |-> p, settled |-> s]
        /\ \A e \in Distribution \ {d} : reconciliation'[e] = reconciliation[e]
    BY <2>1 DEF TypeOK
  <2>4. UNCHANGED <<approvals, payment>>
    BY <1>7 DEF ReconciledBy
  <2>5. distribution[d].status = "RECONCILIATION_PENDING"
    BY <2>2 DEF RowInv, PaymentAgrees, ReconciliationAgrees, PaidStatus
  <2>6. ApprovalRecorded(d)'
    BY <2>1, <2>2, <2>4, <2>5, StatusRow
       DEF RowInv, ApprovalRecorded, CommittedStatus, PipelineStatus
  <2>7. PaymentAgrees(d)' /\ ReconciliationAgrees(d)'
    <3>1. PaymentAgrees(d)'
      <4>1. /\ distribution'[d].status \in {"RECONCILED", "HOLD"}
            /\ payment'[d].status = "SETTLED"
            /\ payment'[d].amount = distribution'[d].approved
        BY <2>1, <2>2, <2>3, <2>4, <2>5, StatusRow DEF RowInv, PaymentAgrees
      <4>2. QED
        BY <4>1 DEF PaymentAgrees, PaidStatus
    <3>2. ReconciliationAgrees(d)'
      <4>1. /\ distribution'[d].status = outcome
            /\ reconciliation'[d].settled = s
            /\ outcome = "HOLD" => reconciliation'[d].status = "EXCEPTION"
            /\ outcome = "RECONCILED" => /\ reconciliation'[d].status = "COMPLETE"
                                         /\ s = payment'[d].amount
        <5>1. distribution'[d].status = outcome
          BY <2>1, StatusRow
        <5>2. /\ reconciliation'[d].settled = s
              /\ reconciliation'[d].status = IF outcome = "HOLD" THEN "EXCEPTION" ELSE "COMPLETE"
          BY <2>3
        <5>3. outcome = "RECONCILED" => s = payment'[d].amount
          BY <2>1, <2>4
        <5>4. QED
          BY <5>1, <5>2, <5>3
      <4>2. QED
        <5>1. CASE outcome = "HOLD"
          BY <4>1, <5>1 DEF ReconciliationAgrees
        <5>2. CASE outcome = "RECONCILED"
          BY <4>1, <5>2 DEF ReconciliationAgrees
        <5>3. QED
          BY <2>1, <5>1, <5>2
    <3>3. QED
      BY <3>1, <3>2
  <2>8. Segregated(d)'
    BY <2>1, <2>2, <2>3, <2>4, <2>5, StatusRow, ReferencesAssumption
       DEF RowInv, Segregated, CommittedStatus, PipelineStatus
  <2>9. QED
    BY <2>1, <2>3, <2>4, <2>6, <2>7, <2>8, StatusRow, RowFrame DEF RowsInv, RowInv
<1>8. ASSUME UNCHANGED <<distribution, approvals, payment, reconciliation>>
      PROVE  RowsInv'
  BY <1>8, RowFrame DEF RowsInv
<1>9. QED
  BY <1>1, <1>2, <1>3, <1>4, <1>5, <1>6, <1>7, <1>8
     DEF LockedNext, ServiceRoleStep, LockedFunctionStep, MoveContribution,
         MoveAllocation, ReviewBeneficiary, ReviewDestination, vars, ledger

LEMMA RowsInit == Init => RowsInv
BY ReferencesAssumption
   DEF Init, RowsInv, RowInv, ApprovalRecorded, PaymentAgrees, ReconciliationAgrees,
       Segregated, NoDistribution, NoPayment, NoReconciliation, CommittedStatus,
       PaidStatus, PipelineStatus

(***************************************************************************)
(* The status of a distribution always agrees with its approval, payment   *)
(* and reconciliation rows, whatever order the functions are called in.    *)
(***************************************************************************)
THEOREM PipelineStaysConsistent == Spec => []PipelineConsistent
<1>1. TypeOK /\ RowsInv => PipelineConsistent
  BY DEF RowsInv, RowInv, PipelineConsistent
<1>2. QED
  BY <1>1, RowsInit, RowsStep, NextIsLocked, TypeCorrect, PTL DEF Spec

(***************************************************************************)
(* No payment is ever approved by its initiator, executed by its approver  *)
(* or reconciled by its executor, and each held the role the duty asks.    *)
(***************************************************************************)
THEOREM DutiesStaySegregated == Spec => []DutiesSegregated
<1>1. TypeOK /\ RowsInv => DutiesSegregated
  BY DEF RowsInv, RowInv, DutiesSegregated
<1>2. QED
  BY <1>1, RowsInit, RowsStep, NextIsLocked, TypeCorrect, PTL DEF Spec

-----------------------------------------------------------------------------
\* The running totals

CommittedRows(a) ==
    {e \in Distribution : AllocationOf[e] = a /\ distribution[e].status \in CommittedStatus}

CompleteRows(a) ==
    {e \in Distribution : AllocationOf[e] = a /\ reconciliation[e].status = "COMPLETE"}

Totals == CommitmentsAreApprovals /\ DisbursementsAreReconciliations

(***************************************************************************)
(* A step that neither writes a commitment nor moves a distribution into   *)
(* or out of the committed statuses keeps the sum, and likewise for        *)
(* disbursements and complete reconciliations.                             *)
(***************************************************************************)
LEMMA CommitmentsFrame ==
  ASSUME CommitmentsAreApprovals,
         \A a \in Allocation : allocation'[a].committed = allocation[a].committed,
         \A d \in Distribution :
            /\ distribution'[d].status \in CommittedStatus <=>
                 distribution[d].status \in CommittedStatus
            /\ distribution[d].status \in CommittedStatus =>
                 distribution'[d].approved = distribution[d].approved
  PROVE  CommitmentsAreApprovals'
<1> SUFFICES ASSUME NEW a \in Allocation
             PROVE  allocation'[a].committed =
                      SumFunction([d \in CommittedRows(a)' |-> distribution'[d].approved])
  BY DEF CommitmentsAreApprovals, CommittedRows
<1>1. allocation[a].committed =
        SumFunction([d \in CommittedRows(a) |-> distribution[d].approved])
  BY DEF CommitmentsAreApprovals, CommittedRows
<1>2. CommittedRows(a)' = CommittedRows(a)
  BY DEF CommittedRows
<1>3. [d \in CommittedRows(a)' |-> distribution'[d].approved] =
        [d \in CommittedRows(a) |-> distribution[d].approved]
  BY <1>2 DEF CommittedRows
<1> QED
  BY <1>1, <1>3

LEMMA DisbursementsFrame ==
  ASSUME DisbursementsAreReconciliations,
         \A a \in Allocation : allocation'[a].disbursed = allocation[a].disbursed,
         \A d \in Distribution :
            /\ reconciliation'[d].status = "COMPLETE" <=> reconciliation[d].status = "COMPLETE"
            /\ reconciliation[d].status = "COMPLETE" =>
                 reconciliation'[d].settled = reconciliation[d].settled
  PROVE  DisbursementsAreReconciliations'
<1> SUFFICES ASSUME NEW a \in Allocation
             PROVE  allocation'[a].disbursed =
                      SumFunction([d \in CompleteRows(a)' |-> reconciliation'[d].settled])
  BY DEF DisbursementsAreReconciliations, CompleteRows
<1>1. allocation[a].disbursed =
        SumFunction([d \in CompleteRows(a) |-> reconciliation[d].settled])
  BY DEF DisbursementsAreReconciliations, CompleteRows
<1>2. CompleteRows(a)' = CompleteRows(a)
  BY DEF CompleteRows
<1>3. [d \in CompleteRows(a)' |-> reconciliation'[d].settled] =
        [d \in CompleteRows(a) |-> reconciliation[d].settled]
  BY <1>2 DEF CompleteRows
<1> QED
  BY <1>1, <1>3

LEMMA AmountsOfRows ==
  ASSUME TypeOK
  PROVE  /\ \A d \in Distribution : /\ distribution[d].approved \in Nat
                                   /\ reconciliation[d].settled \in Nat
                                   /\ payment[d].amount \in Nat
         /\ \A a \in Allocation : /\ allocation[a].committed \in Nat
                                 /\ allocation[a].disbursed \in Nat
         /\ \A S \in SUBSET Distribution : IsFiniteSet(S)
         /\ \A S \in SUBSET Allocation : IsFiniteSet(S)
<1>1. Amount \cup {0} \subseteq Nat
  BY AmountsAssumption
<1>2. ASSUME NEW d \in Distribution
      PROVE  /\ distribution[d].approved \in Nat
             /\ reconciliation[d].settled \in Nat
             /\ payment[d].amount \in Nat
  <2>1. /\ distribution[d] \in DistributionRecord /\ payment[d] \in PaymentRecord
        /\ reconciliation[d] \in ReconciliationRecord
    BY DEF TypeOK
  <2> QED
    BY <1>1, <2>1 DEF DistributionRecord, ReconciliationRecord, PaymentRecord
<1>3. ASSUME NEW a \in Allocation
      PROVE  allocation[a].committed \in Nat /\ allocation[a].disbursed \in Nat
  <2>1. allocation[a] \in AllocationRecord
    BY DEF TypeOK
  <2> QED
    BY <2>1 DEF AllocationRecord
<1>4. /\ \A S \in SUBSET Distribution : IsFiniteSet(S)
      /\ \A S \in SUBSET Allocation : IsFiniteSet(S)
  BY RowsAssumption, FS_Subset
<1> QED
  BY <1>2, <1>3, <1>4

\* An update of one total of one allocation.
LEMMA CommitmentOfRow ==
  ASSUME TypeOK, NEW a \in Allocation, NEW n \in Nat,
         allocation' = [allocation EXCEPT ![a].committed = @ + n]
  PROVE  \A b \in Allocation :
            /\ allocation'[b].disbursed = allocation[b].disbursed
            /\ allocation'[b].status = allocation[b].status
            /\ allocation'[b].committed = allocation[b].committed + IF b = a THEN n ELSE 0
<1> SUFFICES ASSUME NEW b \in Allocation
             PROVE  /\ allocation'[b].disbursed = allocation[b].disbursed
                    /\ allocation'[b].status = allocation[b].status
                    /\ allocation'[b].committed = allocation[b].committed + IF b = a THEN n ELSE 0
  OBVIOUS
<1>1. allocation \in [Allocation -> AllocationRecord] /\ allocation[b] \in AllocationRecord
  BY DEF TypeOK
<1>2. allocation'[b] = IF b = a THEN [allocation[b] EXCEPT !.committed = @ + n]
                       ELSE allocation[b]
  BY <1>1
<1> QED
  BY <1>1, <1>2 DEF AllocationRecord

LEMMA DisbursementOfRow ==
  ASSUME TypeOK, NEW a \in Allocation, NEW n \in Nat,
         allocation' = [allocation EXCEPT ![a].disbursed = @ + n]
  PROVE  \A b \in Allocation :
            /\ allocation'[b].committed = allocation[b].committed
            /\ allocation'[b].status = allocation[b].status
            /\ allocation'[b].disbursed = allocation[b].disbursed + IF b = a THEN n ELSE 0
<1> SUFFICES ASSUME NEW b \in Allocation
             PROVE  /\ allocation'[b].committed = allocation[b].committed
                    /\ allocation'[b].status = allocation[b].status
                    /\ allocation'[b].disbursed = allocation[b].disbursed + IF b = a THEN n ELSE 0
  OBVIOUS
<1>1. allocation \in [Allocation -> AllocationRecord] /\ allocation[b] \in AllocationRecord
  BY DEF TypeOK
<1>2. allocation'[b] = IF b = a THEN [allocation[b] EXCEPT !.disbursed = @ + n]
                       ELSE allocation[b]
  BY <1>1
<1> QED
  BY <1>1, <1>2 DEF AllocationRecord

\* An approval adds its amount to the commitment and one row to the sum.
LEMMA ApprovalKeepsTotals ==
  ASSUME TypeOK, RowsInv, Totals, NEW d \in Distribution, NEW p \in Participant,
         NEW n \in Amount, Approvable(d, p, n), Approved(d, p, n)
  PROVE  Totals'
<1>1. n \in Nat /\ AllocationOf[d] \in Allocation
  BY AmountsAssumption, ReferencesAssumption
<1>2. /\ distribution'[d].status = "APPROVED" /\ distribution'[d].approved = n
      /\ \A e \in Distribution \ {d} : distribution'[e] = distribution[e]
  <2>1. distribution'[d] =
          [distribution[d] EXCEPT !.status = "APPROVED", !.approved = n, !.approver = p]
    BY DEF Approved, TypeOK
  <2>2. distribution[d] \in DistributionRecord
    BY DEF TypeOK
  <2>3. \A e \in Distribution \ {d} : distribution'[e] = distribution[e]
    BY DEF Approved, TypeOK
  <2> QED
    BY <2>1, <2>2, <2>3 DEF DistributionRecord
<1>3. distribution[d].status \notin CommittedStatus /\ "APPROVED" \in CommittedStatus
  BY DEF Approvable, CommittedStatus, PipelineStatus
<1>4. \A b \in Allocation :
         /\ allocation'[b].disbursed = allocation[b].disbursed
         /\ allocation'[b].committed =
              allocation[b].committed + IF b = AllocationOf[d] THEN n ELSE 0
  <2>1. allocation' = [allocation EXCEPT ![AllocationOf[d]].committed = @ + n]
    BY DEF Approved
  <2> QED
    BY <1>1, <2>1, CommitmentOfRow
<1>5. ASSUME NEW a \in Allocation
      PROVE  allocation'[a].committed =
               SumFunction([e \in CommittedRows(a)' |-> distribution'[e].approved])
  <2> DEFINE f == [e \in CommittedRows(a) |-> distribution[e].approved]
             g == [e \in CommittedRows(a)' |-> distribution'[e].approved]
  <2>1. allocation[a].committed = SumFunction(f)
    BY DEF Totals, CommitmentsAreApprovals, CommittedRows
  <2>2. CASE a = AllocationOf[d]
    <3>1. CommittedRows(a)' = CommittedRows(a) \cup {d} /\ d \notin CommittedRows(a)
      BY <1>2, <1>3, <2>2 DEF CommittedRows
    <3>2. /\ IsFiniteSet(DOMAIN f) /\ d \notin DOMAIN f /\ DOMAIN g = DOMAIN f \cup {d}
          /\ \A e \in DOMAIN f : f[e] \in Int /\ g[e] = f[e]
          /\ g[d] = n /\ g[d] \in Int
      BY <1>1, <1>2, <3>1, AmountsOfRows DEF CommittedRows
    <3> HIDE DEF f, g
    <3>3. SumFunction(g) = SumFunction(f) + g[d]
      BY <3>2, SumOfAdded
    <3> QED
      BY <1>4, <2>1, <2>2, <3>2, <3>3 DEF g
  <2>3. CASE a # AllocationOf[d]
    <3>1. CommittedRows(a)' = CommittedRows(a) /\ d \notin CommittedRows(a)
      BY <1>2, <2>3 DEF CommittedRows
    <3>2. g = f
      BY <1>2, <3>1 DEF CommittedRows
    <3>3. allocation'[a].committed = allocation[a].committed
      BY <1>4, <2>3, AmountsOfRows
    <3> QED
      BY <2>1, <3>2, <3>3
  <2> QED
    BY <2>2, <2>3
<1>6. CommitmentsAreApprovals'
  BY <1>5 DEF CommitmentsAreApprovals, CommittedRows
<1>7. DisbursementsAreReconciliations'
  BY <1>4, DisbursementsFrame DEF Totals, Approved
<1> QED
  BY <1>6, <1>7 DEF Totals

\* A reconciliation that matches adds its amount to the disbursed total and one
\* row to the sum; an exception adds nothing.
LEMMA ReconciliationKeepsTotals ==
  ASSUME TypeOK, RowsInv, Totals, NEW d \in Distribution, NEW p \in Participant,
         NEW l \in Amount \cup {0}, NEW s \in Amount \cup {0},
         Reconcilable(d, p), Unreconciled(d), ReconciledBy(d, p, l, s)
  PROVE  Totals'
<1>1. AllocationOf[d] \in Allocation /\ payment[d].amount \in Nat /\ s \in Nat
  BY ReferencesAssumption, AmountsAssumption, AmountsOfRows
<1>2. distribution[d].status \in CommittedStatus
  BY DEF Reconcilable, RowsInv, RowInv, PaymentAgrees, CommittedStatus, PaidStatus, PipelineStatus
<1>3. /\ \A e \in Distribution \ {d} : /\ distribution'[e] = distribution[e]
                                      /\ reconciliation'[e] = reconciliation[e]
      /\ distribution'[d].status \in CommittedStatus
      /\ distribution'[d].approved = distribution[d].approved
  <2>1. PICK r \in {"RECONCILED", "HOLD"} :
          distribution' = [distribution EXCEPT ![d].status = r]
    BY DEF ReconciledBy
  <2>2. \A e \in Distribution \ {d} : reconciliation'[e] = reconciliation[e]
    BY DEF ReconciledBy, TypeOK
  <2>3. r \in CommittedStatus
    BY DEF CommittedStatus, PipelineStatus
  <2> QED
    BY <2>1, <2>2, <2>3, StatusRow
<1>4. CASE Matches(d, l, s)
  <2>1. /\ reconciliation'[d].status = "COMPLETE" /\ reconciliation'[d].settled = s
        /\ s = payment[d].amount
    <3>1. reconciliation'[d] = [status |-> "COMPLETE", reconciler |-> p, settled |-> s]
      BY <1>4 DEF ReconciledBy, TypeOK
    <3> QED
      BY <1>4, <3>1 DEF Matches
  <2>2. reconciliation[d].status # "COMPLETE"
    BY DEF Unreconciled
  <2>3. \A b \in Allocation :
           /\ allocation'[b].committed = allocation[b].committed
           /\ allocation'[b].disbursed =
                allocation[b].disbursed + IF b = AllocationOf[d] THEN s ELSE 0
    <3>1. allocation' = [allocation EXCEPT ![AllocationOf[d]].disbursed = @ + payment[d].amount]
      BY <1>4 DEF ReconciledBy
    <3> QED
      BY <1>1, <2>1, <3>1, DisbursementOfRow
  <2>4. ASSUME NEW a \in Allocation
        PROVE  allocation'[a].disbursed =
                 SumFunction([e \in CompleteRows(a)' |-> reconciliation'[e].settled])
    <3> DEFINE f == [e \in CompleteRows(a) |-> reconciliation[e].settled]
               g == [e \in CompleteRows(a)' |-> reconciliation'[e].settled]
    <3>1. allocation[a].disbursed = SumFunction(f)
      BY DEF Totals, DisbursementsAreReconciliations, CompleteRows
    <3>2. CASE a = AllocationOf[d]
      <4>1. CompleteRows(a)' = CompleteRows(a) \cup {d} /\ d \notin CompleteRows(a)
        BY <1>3, <2>1, <2>2, <3>2 DEF CompleteRows
      <4>2. /\ IsFiniteSet(DOMAIN f) /\ d \notin DOMAIN f /\ DOMAIN g = DOMAIN f \cup {d}
            /\ \A e \in DOMAIN f : f[e] \in Int /\ g[e] = f[e]
            /\ g[d] = s /\ g[d] \in Int
        BY <1>1, <1>3, <2>1, <4>1, AmountsOfRows DEF CompleteRows
      <4> HIDE DEF f, g
      <4>3. SumFunction(g) = SumFunction(f) + g[d]
        BY <4>2, SumOfAdded
      <4> QED
        BY <2>3, <3>1, <3>2, <4>2, <4>3 DEF g
    <3>3. CASE a # AllocationOf[d]
      <4>1. CompleteRows(a)' = CompleteRows(a) /\ d \notin CompleteRows(a)
        BY <1>3, <3>3 DEF CompleteRows
      <4>2. g = f
        BY <1>3, <4>1 DEF CompleteRows
      <4>3. allocation'[a].disbursed = allocation[a].disbursed
        BY <2>3, <3>3, AmountsOfRows
      <4> QED
        BY <3>1, <4>2, <4>3
    <3> QED
      BY <3>2, <3>3
  <2>5. DisbursementsAreReconciliations'
    BY <2>4 DEF DisbursementsAreReconciliations, CompleteRows
  <2>6. CommitmentsAreApprovals'
    BY <1>2, <1>3, <2>3, CommitmentsFrame DEF Totals
  <2> QED
    BY <2>5, <2>6 DEF Totals
<1>5. CASE ~Matches(d, l, s)
  <2>1. reconciliation'[d].status = "EXCEPTION" /\ allocation' = allocation
    <3>1. reconciliation'[d] = [status |-> "EXCEPTION", reconciler |-> p, settled |-> s]
      BY <1>5 DEF ReconciledBy, TypeOK
    <3> QED
      BY <1>5, <3>1 DEF ReconciledBy
  <2>2. reconciliation[d].status # "COMPLETE"
    BY DEF Unreconciled
  <2>3. DisbursementsAreReconciliations'
    BY <1>3, <2>1, <2>2, DisbursementsFrame DEF Totals
  <2>4. CommitmentsAreApprovals'
    BY <1>2, <1>3, <2>1, CommitmentsFrame DEF Totals
  <2> QED
    BY <2>3, <2>4 DEF Totals
<1> QED
  BY <1>4, <1>5

\* A status update that stays inside or outside the committed statuses.
LEMMA StatusKeepsTotals ==
  ASSUME TypeOK, Totals, NEW d \in Distribution, NEW s,
         distribution' = [distribution EXCEPT ![d].status = s],
         s \in CommittedStatus <=> distribution[d].status \in CommittedStatus,
         UNCHANGED <<allocation, reconciliation>>
  PROVE  Totals'
<1>1. \A e \in Distribution :
        /\ distribution'[e].status \in CommittedStatus <=>
             distribution[e].status \in CommittedStatus
        /\ distribution'[e].approved = distribution[e].approved
  BY StatusRow
<1>2. CommitmentsAreApprovals'
  BY <1>1, CommitmentsFrame DEF Totals
<1>3. DisbursementsAreReconciliations'
  BY DisbursementsFrame DEF Totals
<1> QED
  BY <1>2, <1>3 DEF Totals

LEMMA TotalsInit == Init => Totals
<1> SUFFICES ASSUME Init PROVE Totals
  OBVIOUS
<1>1. \A d \in Distribution : /\ distribution[d].status \notin CommittedStatus
                            /\ reconciliation[d].status # "COMPLETE"
  BY DEF Init, NoDistribution, NoReconciliation, CommittedStatus, PipelineStatus
<1>2. \A a \in Allocation : /\ CommittedRows(a) = {} /\ CompleteRows(a) = {}
                          /\ allocation[a].committed = 0 /\ allocation[a].disbursed = 0
  BY <1>1 DEF CommittedRows, CompleteRows, Init
<1>3. ASSUME NEW a \in Allocation
      PROVE  /\ SumFunction([d \in CommittedRows(a) |-> distribution[d].approved]) = 0
             /\ SumFunction([d \in CompleteRows(a) |-> reconciliation[d].settled]) = 0
  BY <1>2, SumOfNone
<1> QED
  BY <1>2, <1>3
     DEF Totals, CommitmentsAreApprovals, DisbursementsAreReconciliations, CommittedRows,
         CompleteRows

LEMMA TotalsStep == TypeOK /\ RowsInv /\ Totals /\ [LockedNext]_vars => Totals'
<1> SUFFICES ASSUME TypeOK, RowsInv, Totals, [LockedNext]_vars PROVE Totals'
  OBVIOUS
<1>0. /\ {"APPROVED", "TREASURY_PENDING"} \cup PaidStatus \subseteq CommittedStatus
      /\ {"NONE", "DRAFT", "PENDING_APPROVAL"} \cap CommittedStatus = {}
      /\ {"PAYMENT_EXECUTED", "RECONCILIATION_PENDING"} \subseteq PaidStatus
  BY DEF CommittedStatus, PaidStatus, PipelineStatus
<1>1. ASSUME NEW d \in Distribution, NEW p \in Participant, NEW n \in Amount,
             InsertDistribution(d, p, n)
      PROVE  Totals'
  <2>1. /\ distribution'[d].status = "DRAFT" /\ distribution[d].status = "NONE"
        /\ \A e \in Distribution \ {d} : distribution'[e] = distribution[e]
    BY <1>1 DEF InsertDistribution, NoDistribution, TypeOK
  <2>2. \A e \in Distribution :
          /\ distribution'[e].status \in CommittedStatus <=>
               distribution[e].status \in CommittedStatus
          /\ distribution[e].status \in CommittedStatus =>
               distribution'[e].approved = distribution[e].approved
    BY <1>0, <2>1
  <2>3. UNCHANGED <<allocation, reconciliation>>
    BY <1>1 DEF InsertDistribution
  <2> QED
    BY <2>2, <2>3, CommitmentsFrame, DisbursementsFrame DEF Totals
<1>2. ASSUME NEW a \in Allocation, NEW s \in AllocationStatus, MoveAllocation(a, s)
      PROVE  Totals'
  <2>1. \A b \in Allocation : /\ allocation'[b].committed = allocation[b].committed
                            /\ allocation'[b].disbursed = allocation[b].disbursed
    <3>1. \A b \in Allocation : allocation'[b] =
             IF b = a THEN [allocation[b] EXCEPT !.status = s] ELSE allocation[b]
      BY <1>2 DEF MoveAllocation, TypeOK
    <3>2. \A b \in Allocation : allocation[b] \in AllocationRecord
      BY DEF TypeOK
    <3> QED
      BY <3>1, <3>2 DEF AllocationRecord
  <2>2. UNCHANGED <<distribution, reconciliation>>
    BY <1>2 DEF MoveAllocation
  <2> QED
    BY <2>1, <2>2, CommitmentsFrame, DisbursementsFrame DEF Totals
<1>3. ASSUME NEW d \in Distribution, Submittable(d), Submitted(d) PROVE Totals'
  BY <1>0, <1>3, StatusKeepsTotals DEF Submittable, Submitted
<1>4. ASSUME NEW d \in Distribution, Releasable(d), Released(d) PROVE Totals'
  BY <1>0, <1>4, StatusKeepsTotals DEF Releasable, Released
<1>5. ASSUME NEW d \in Distribution, NEW p \in Participant, NEW k \in Key,
             Executable(d, p), Executed(d, p, k)
      PROVE  Totals'
  BY <1>0, <1>5, StatusKeepsTotals DEF Executable, Executed
<1>6. ASSUME NEW d \in Distribution, Settleable(d), Settled(d) PROVE Totals'
  <2>1. distribution[d].status \in PaidStatus
    BY <1>6 DEF Settleable, RowsInv, RowInv, PaymentAgrees
  <2> QED
    BY <1>0, <1>6, <2>1, StatusKeepsTotals DEF Settled
<1>7. ASSUME UNCHANGED <<allocation, distribution, reconciliation>> PROVE Totals'
  BY <1>7, CommitmentsFrame, DisbursementsFrame DEF Totals
<1> QED
  BY <1>1, <1>2, <1>3, <1>4, <1>5, <1>6, <1>7, ApprovalKeepsTotals, ReconciliationKeepsTotals
     DEF LockedNext, ServiceRoleStep, LockedFunctionStep, MoveContribution,
         ReviewBeneficiary, ReviewDestination, vars, ledger

PipelineInv == TypeOK /\ RowsInv /\ Totals

LEMMA PipelineInit == Init => PipelineInv
BY TypeInit, RowsInit, TotalsInit DEF PipelineInv

LEMMA PipelineStep == PipelineInv /\ [LockedNext]_vars => PipelineInv'
BY TypeStep, RowsStep, TotalsStep DEF PipelineInv

LEMMA AlwaysPipeline == Spec => []PipelineInv
BY PipelineInit, PipelineStep, NextIsLocked, PTL DEF Spec

(***************************************************************************)
(* The commitment of an allocation is the sum of the amounts approved      *)
(* against it, holds included.                                             *)
(***************************************************************************)
THEOREM CommitmentsStayApprovals == Spec => []CommitmentsAreApprovals
<1>1. PipelineInv => CommitmentsAreApprovals
  BY DEF PipelineInv, Totals
<1> QED
  BY <1>1, AlwaysPipeline, PTL

(***************************************************************************)
(* What an allocation has disbursed is the sum of what its complete        *)
(* reconciliations settled.                                                *)
(***************************************************************************)
THEOREM DisbursementsStayReconciliations == Spec => []DisbursementsAreReconciliations
<1>1. PipelineInv => DisbursementsAreReconciliations
  BY DEF PipelineInv, Totals
<1> QED
  BY <1>1, AlwaysPipeline, PTL

(***************************************************************************)
(* The complete reconciliations and the settled payment together are part  *)
(* of the approvals, so their sum is at most the commitment.               *)
(***************************************************************************)
LEMMA BookedIsCommitted ==
  ASSUME PipelineInv, NEW d \in Distribution, payment[d].status = "SETTLED", Unreconciled(d)
  PROVE  DisbursementFits(d)
<1> DEFINE a == AllocationOf[d]
           f == [e \in CommittedRows(a) |-> distribution[e].approved]
           g == [e \in CompleteRows(a) |-> reconciliation[e].settled]
           h == [e \in CompleteRows(a) \cup {d} |-> distribution[e].approved]
<1>0. TypeOK /\ RowsInv /\ a \in Allocation
  BY ReferencesAssumption DEF PipelineInv
<1>1. allocation[a].committed = SumFunction(f) /\ allocation[a].disbursed = SumFunction(g)
  BY <1>0 DEF PipelineInv, Totals, CommitmentsAreApprovals, DisbursementsAreReconciliations,
              CommittedRows, CompleteRows
<1>2. \A e \in Distribution :
        /\ payment[e].status # "NONE" => payment[e].amount = distribution[e].approved
        /\ payment[e].status # "NONE" => distribution[e].status \in CommittedStatus
        /\ reconciliation[e].status = "COMPLETE" =>
             /\ reconciliation[e].settled = payment[e].amount
             /\ payment[e].status # "NONE"
  BY <1>0 DEF RowsInv, RowInv, PaymentAgrees, ReconciliationAgrees, PaidStatus,
              CommittedStatus, PipelineStatus
<1>3. /\ DOMAIN h \subseteq DOMAIN f /\ d \notin DOMAIN g /\ DOMAIN h = DOMAIN g \cup {d}
      /\ \A e \in DOMAIN g : h[e] = g[e]
      /\ \A e \in DOMAIN h : h[e] = f[e]
      /\ h[d] = payment[d].amount
  BY <1>2 DEF CommittedRows, CompleteRows, Unreconciled
<1>4. /\ IsFiniteSet(DOMAIN f) /\ IsFiniteSet(DOMAIN g) /\ payment[d].amount \in Nat
      /\ \A e \in DOMAIN f : f[e] \in Nat
      /\ \A e \in DOMAIN g : g[e] \in Nat
  BY <1>0, AmountsOfRows DEF CommittedRows, CompleteRows
<1> HIDE DEF f, g, h
<1>5. SumFunction(h) = SumFunction(g) + payment[d].amount
  <2>1. (\A e \in DOMAIN g : g[e] \in Int /\ h[e] = g[e]) /\ h[d] \in Int
    BY <1>3, <1>4
  <2> QED
    BY <1>3, <1>4, <2>1, SumOfAdded
<1>6. SumFunction(h) <= SumFunction(f)
  <2>1. \A e \in DOMAIN f : f[e] \in Int /\ f[e] >= 0
    BY <1>4
  <2> QED
    BY <1>3, <1>4, <2>1, SumOfPart
<1> QED
  BY <1>1, <1>5, <1>6 DEF DisbursementFits

(***************************************************************************)
(* The CHECK on the totals of an allocation never refuses to book money    *)
(* that has left the treasury.                                             *)
(***************************************************************************)
THEOREM SettledStaysBookable == Spec => []SettledCanBeBooked
<1>1. PipelineInv => SettledCanBeBooked
  BY BookedIsCommitted DEF SettledCanBeBooked
<1> QED
  BY <1>1, AlwaysPipeline, PTL

\* What the complete reconciliations of an allocation settled is part of what
\* was approved against it.
LEMMA DisbursedIsCommitted ==
  ASSUME PipelineInv, NEW a \in Allocation
  PROVE  allocation[a].disbursed <= allocation[a].committed
<1> DEFINE f == [e \in CommittedRows(a) |-> distribution[e].approved]
           g == [e \in CompleteRows(a) |-> reconciliation[e].settled]
<1>0. TypeOK /\ RowsInv
  BY DEF PipelineInv
<1>1. allocation[a].committed = SumFunction(f) /\ allocation[a].disbursed = SumFunction(g)
  BY DEF PipelineInv, Totals, CommitmentsAreApprovals, DisbursementsAreReconciliations,
         CommittedRows, CompleteRows
<1>2. \A e \in CompleteRows(a) :
        /\ distribution[e].status \in CommittedStatus
        /\ reconciliation[e].settled = distribution[e].approved
  <2> SUFFICES ASSUME NEW e \in CompleteRows(a)
               PROVE  /\ distribution[e].status \in CommittedStatus
                      /\ reconciliation[e].settled = distribution[e].approved
    OBVIOUS
  <2>1. PaymentAgrees(e) /\ ReconciliationAgrees(e) /\ reconciliation[e].status = "COMPLETE"
    BY <1>0 DEF RowsInv, RowInv, CompleteRows
  <2>2. distribution[e].status = "RECONCILED" /\ payment[e].status # "NONE"
    BY <2>1 DEF PaymentAgrees, ReconciliationAgrees, PaidStatus
  <2> QED
    BY <2>1, <2>2 DEF PaymentAgrees, ReconciliationAgrees, CommittedStatus, PipelineStatus
<1>3. /\ IsFiniteSet(DOMAIN f) /\ DOMAIN g \subseteq DOMAIN f
      /\ \A e \in DOMAIN f : f[e] \in Int /\ f[e] >= 0
      /\ \A e \in DOMAIN g : g[e] = f[e]
  BY <1>0, <1>2, AmountsOfRows DEF CommittedRows, CompleteRows
<1> HIDE DEF f, g
<1> QED
  BY <1>1, <1>3, SumOfPart

\* The totals of an allocation stay in order, so the CHECKs on them never raise.
AllocationsWithin ==
    \A a \in Allocation : /\ allocation[a].disbursed <= allocation[a].committed
                          /\ allocation[a].committed <= Authorized[a]

CommittedWithin == \A a \in Allocation : allocation[a].committed <= Authorized[a]

LEMMA WithinStep == TypeOK /\ CommittedWithin /\ [LockedNext]_vars => CommittedWithin'
<1> SUFFICES ASSUME TypeOK, CommittedWithin, [LockedNext]_vars PROVE CommittedWithin'
  OBVIOUS
<1>1. ASSUME NEW d \in Distribution, NEW p \in Participant, NEW n \in Amount,
             ApprovalFits(d, n), Approved(d, p, n)
      PROVE  CommittedWithin'
  <2>1. PICK x \in Allocation : x = AllocationOf[d]
    BY ReferencesAssumption
  <2>2. n \in Nat /\ Authorized \in [Allocation -> Nat]
    BY AmountsAssumption
  <2>3. allocation' = [allocation EXCEPT ![x].committed = @ + n]
    BY <1>1, <2>1 DEF Approved
  <2>4. \A b \in Allocation :
           /\ allocation'[b].committed = allocation[b].committed + IF b = x THEN n ELSE 0
           /\ allocation[b].committed \in Nat
    BY <2>2, <2>3, CommitmentOfRow, AmountsOfRows
  <2>5. allocation[x].committed + n <= Authorized[x]
    BY <1>1, <2>1, <2>2, <2>4 DEF ApprovalFits, Uncommitted
  <2> QED
    BY <2>2, <2>4, <2>5 DEF CommittedWithin
<1>2. ASSUME NEW a \in Allocation, NEW s \in AllocationStatus, MoveAllocation(a, s)
      PROVE  CommittedWithin'
  <2>1. \A b \in Allocation :
           /\ allocation'[b] = IF b = a THEN [allocation[b] EXCEPT !.status = s]
                               ELSE allocation[b]
           /\ allocation[b] \in AllocationRecord
    BY <1>2 DEF MoveAllocation, TypeOK
  <2>2. \A b \in Allocation : allocation'[b].committed = allocation[b].committed
    BY <2>1 DEF AllocationRecord
  <2> QED
    BY <2>2 DEF CommittedWithin
<1>3. ASSUME NEW d \in Distribution, NEW p \in Participant,
             NEW l \in Amount \cup {0}, NEW s \in Amount \cup {0},
             ReconciledBy(d, p, l, s)
      PROVE  CommittedWithin'
  <2>1. \/ allocation' = allocation
        \/ allocation' =
             [allocation EXCEPT ![AllocationOf[d]].disbursed = @ + payment[d].amount]
    BY <1>3 DEF ReconciledBy
  <2>2. AllocationOf[d] \in Allocation /\ payment[d].amount \in Nat
    BY ReferencesAssumption, AmountsOfRows
  <2>3. \A b \in Allocation : allocation'[b].committed = allocation[b].committed
    BY <2>1, <2>2, DisbursementOfRow
  <2> QED
    BY <2>3 DEF CommittedWithin
<1>4. ASSUME UNCHANGED allocation PROVE CommittedWithin'
  BY <1>4 DEF CommittedWithin
<1> QED
  BY <1>1, <1>2, <1>3, <1>4
     DEF LockedNext, ServiceRoleStep, LockedFunctionStep, MoveContribution,
         InsertDistribution, ReviewBeneficiary, ReviewDestination, Submitted, Released,
         Executed, Settled, vars, ledger

LEMMA WithinStart == Init => CommittedWithin
BY AmountsAssumption DEF Init, CommittedWithin

-----------------------------------------------------------------------------
\* What a step may never do to the history of a distribution: the request stays
\* as made, an approval as given, a payment as sent, and the rows of a
\* distribution that was reconciled or put on hold stay altogether.
HistoryKept(d) ==
    /\ distribution[d].status # "NONE" =>
         /\ distribution'[d].requested = distribution[d].requested
         /\ distribution'[d].requester = distribution[d].requester
    /\ distribution[d].status \in CommittedStatus =>
         /\ distribution'[d].status \in CommittedStatus
         /\ distribution'[d].approved = distribution[d].approved
         /\ distribution'[d].approver = distribution[d].approver
    /\ payment[d].status # "NONE" =>
         /\ payment'[d].status # "NONE"
         /\ payment'[d].amount = payment[d].amount
         /\ payment'[d].executor = payment[d].executor
         /\ payment'[d].key = payment[d].key
    /\ reconciliation[d].status # "NONE" =>
         /\ distribution'[d] = distribution[d]
         /\ payment'[d] = payment[d]
         /\ reconciliation'[d] = reconciliation[d]

HistoryStands == [][\A d \in Distribution : HistoryKept(d)]_vars

\* A step that writes no row of d keeps its history.
LEMMA HistoryFrame ==
  ASSUME NEW d \in Distribution, distribution'[d] = distribution[d],
         payment'[d] = payment[d], reconciliation'[d] = reconciliation[d]
  PROVE  HistoryKept(d)
BY DEF HistoryKept

LEMMA HistoryStep ==
  ASSUME PipelineInv, [LockedNext]_vars, NEW d \in Distribution
  PROVE  HistoryKept(d)
<1>0. TypeOK /\ RowInv(d)
  BY DEF PipelineInv, RowsInv
<1>1. ASSUME NEW p \in Participant, NEW n \in Amount, InsertDistribution(d, p, n)
      PROVE  HistoryKept(d)
  <2>1. distribution[d].status = "NONE" /\ UNCHANGED <<payment, reconciliation>>
    BY <1>1 DEF InsertDistribution
  <2>2. payment[d].status = "NONE" /\ reconciliation[d].status = "NONE"
    BY <1>0, <2>1
       DEF RowInv, PaymentAgrees, ReconciliationAgrees, PaidStatus, ReconciliationRecord, TypeOK
  <2> QED
    BY <2>1, <2>2 DEF HistoryKept, CommittedStatus, PipelineStatus
<1>2. ASSUME NEW p \in Participant, NEW n \in Amount,
             Approvable(d, p, n), Approved(d, p, n)
      PROVE  HistoryKept(d)
  <2>1. distribution[d].status = "PENDING_APPROVAL" /\ UNCHANGED <<payment, reconciliation>>
    BY <1>2 DEF Approvable, Approved
  <2>2. payment[d].status = "NONE" /\ reconciliation[d].status = "NONE"
    BY <1>0, <2>1
       DEF RowInv, PaymentAgrees, ReconciliationAgrees, PaidStatus, ReconciliationRecord, TypeOK
  <2>3. /\ distribution'[d].requested = distribution[d].requested
        /\ distribution'[d].requester = distribution[d].requester
    <3>1. distribution'[d] =
            [distribution[d] EXCEPT !.status = "APPROVED", !.approved = n, !.approver = p]
      BY <1>0, <1>2 DEF Approved, TypeOK
    <3> QED
      BY <1>0, <3>1 DEF TypeOK, DistributionRecord
  <2> QED
    BY <2>1, <2>2, <2>3 DEF HistoryKept, CommittedStatus
\* The functions that move the status column on.
<1>3. ASSUME NEW s \in PipelineStatus,
             distribution' = [distribution EXCEPT ![d].status = s],
             distribution[d].status \in CommittedStatus => s \in CommittedStatus,
             reconciliation[d].status = "NONE",
             payment[d].status # "NONE" =>
               /\ payment'[d].status # "NONE"
               /\ payment'[d].amount = payment[d].amount
               /\ payment'[d].executor = payment[d].executor
               /\ payment'[d].key = payment[d].key
      PROVE  HistoryKept(d)
  BY <1>0, <1>3, StatusRow DEF HistoryKept
<1>4. ASSUME Submittable(d), Submitted(d) PROVE HistoryKept(d)
  <2>1. /\ distribution[d].status = "DRAFT" /\ UNCHANGED payment
        /\ distribution' = [distribution EXCEPT ![d].status = "PENDING_APPROVAL"]
    BY <1>4 DEF Submittable, Submitted
  <2>2. reconciliation[d].status = "NONE"
    BY <1>0, <2>1 DEF RowInv, ReconciliationAgrees, ReconciliationRecord, TypeOK
  <2> QED
    BY <1>3, <2>1, <2>2 DEF PipelineStatus, CommittedStatus
<1>5. ASSUME Releasable(d), Released(d) PROVE HistoryKept(d)
  <2>1. /\ distribution[d].status = "APPROVED" /\ UNCHANGED payment
        /\ distribution' = [distribution EXCEPT ![d].status = "TREASURY_PENDING"]
    BY <1>5 DEF Releasable, Released
  <2>2. reconciliation[d].status = "NONE"
    BY <1>0, <2>1 DEF RowInv, ReconciliationAgrees, ReconciliationRecord, TypeOK
  <2> QED
    BY <1>3, <2>1, <2>2 DEF PipelineStatus, CommittedStatus
<1>6. ASSUME NEW p \in Participant, NEW k \in Key,
             Executable(d, p), PaymentUnique(d, k), Executed(d, p, k)
      PROVE  HistoryKept(d)
  <2>1. /\ distribution[d].status = "TREASURY_PENDING" /\ payment[d].status = "NONE"
        /\ distribution' = [distribution EXCEPT ![d].status = "PAYMENT_EXECUTED"]
    BY <1>6 DEF Executable, PaymentUnique, Executed
  <2>2. reconciliation[d].status = "NONE"
    BY <1>0, <2>1 DEF RowInv, ReconciliationAgrees, ReconciliationRecord, TypeOK
  <2> QED
    BY <1>3, <2>1, <2>2 DEF PipelineStatus, CommittedStatus
<1>7. ASSUME Settleable(d), Settled(d) PROVE HistoryKept(d)
  <2>1. /\ payment[d].status = "EXECUTED"
        /\ distribution' = [distribution EXCEPT ![d].status = "RECONCILIATION_PENDING"]
        /\ payment'[d] = [payment[d] EXCEPT !.status = "SETTLED"]
        /\ payment[d] \in PaymentRecord
    BY <1>0, <1>7 DEF Settleable, Settled, TypeOK
  <2>2. /\ payment'[d].status # "NONE"
        /\ payment'[d].amount = payment[d].amount
        /\ payment'[d].executor = payment[d].executor
        /\ payment'[d].key = payment[d].key
    BY <2>1 DEF PaymentRecord
  <2>3. reconciliation[d].status = "NONE"
    BY <1>0, <2>1 DEF RowInv, PaymentAgrees, ReconciliationAgrees, ReconciliationRecord, TypeOK,
                      PaidStatus
  <2> QED
    BY <1>3, <2>1, <2>2, <2>3 DEF PipelineStatus, CommittedStatus
<1>8. ASSUME NEW p \in Participant, NEW l \in Amount \cup {0}, NEW s \in Amount \cup {0},
             Unreconciled(d), ReconciledBy(d, p, l, s)
      PROVE  HistoryKept(d)
  <2>1. /\ reconciliation[d].status = "NONE" /\ UNCHANGED payment
        /\ \E o \in {"RECONCILED", "HOLD"} :
              distribution' = [distribution EXCEPT ![d].status = o]
    BY <1>8 DEF Unreconciled, ReconciledBy
  <2> QED
    BY <1>3, <2>1 DEF PipelineStatus, CommittedStatus
<1>9. ASSUME NEW e \in Distribution \ {d},
             \/ \E p \in Participant, n \in Amount :
                   InsertDistribution(e, p, n) \/ Approved(e, p, n)
             \/ Submitted(e) \/ Released(e) \/ Settled(e)
             \/ \E p \in Participant, k \in Key : Executed(e, p, k)
             \/ \E p \in Participant, l, s \in Amount \cup {0} : ReconciledBy(e, p, l, s)
      PROVE  HistoryKept(d)
  <2>1. /\ distribution'[d] = distribution[d]
        /\ payment'[d] = payment[d]
        /\ reconciliation'[d] = reconciliation[d]
    BY <1>0, <1>9 DEF TypeOK, InsertDistribution, Approved, Submitted, Released, Settled,
                      Executed, ReconciledBy
  <2> QED
    BY <2>1, HistoryFrame
<1>10. ASSUME UNCHANGED <<distribution, payment, reconciliation>> PROVE HistoryKept(d)
  BY <1>10, HistoryFrame
<1>11. CASE ServiceRoleStep \/ UNCHANGED vars
  BY <1>1, <1>9, <1>10, <1>11 DEF ServiceRoleStep, MoveContribution, MoveAllocation,
     ReviewBeneficiary, ReviewDestination, vars, ledger
<1>12. CASE LockedFunctionStep
  <2>1. PICK e \in Distribution :
          \/ Submittable(e) /\ Submitted(e)
          \/ \E p \in Participant, n \in Amount :
                Approvable(e, p, n) /\ ApprovalFits(e, n) /\ Approved(e, p, n)
          \/ Releasable(e) /\ Released(e)
          \/ \E p \in Participant, k \in Key :
                Executable(e, p) /\ PaymentUnique(e, k) /\ Executed(e, p, k)
          \/ Settleable(e) /\ Settled(e)
          \/ \E p \in Participant, l, s \in Amount \cup {0} :
                Reconcilable(e, p) /\ Unreconciled(e) /\ ReconciledBy(e, p, l, s)
    BY <1>12 DEF LockedFunctionStep
  <2>2. CASE e = d
    BY <1>2, <1>4, <1>5, <1>6, <1>7, <1>8, <2>1, <2>2
  <2>3. CASE e # d
    BY <1>9, <2>1, <2>3
  <2> QED
    BY <2>2, <2>3
<1> QED
  BY <1>11, <1>12 DEF LockedNext

(***************************************************************************)
(* A total never passes the one above it, disbursed within committed and   *)
(* committed within authorized, and no function or table write rewrites    *)
(* what was requested, approved, paid or reconciled.                       *)
(***************************************************************************)
THEOREM PipelineKeepsHistory == Spec => []AllocationsWithin /\ HistoryStands
<1>1. PipelineInv /\ CommittedWithin => AllocationsWithin
  BY DisbursedIsCommitted DEF CommittedWithin, AllocationsWithin
<1>2. PipelineInv /\ [Next]_vars => \A d \in Distribution : HistoryKept(d)
  BY HistoryStep, NextIsLocked
<1>3. PipelineInv /\ CommittedWithin /\ [Next]_vars => CommittedWithin'
  BY WithinStep, NextIsLocked DEF PipelineInv
<1> QED
  BY <1>1, <1>2, <1>3, WithinStart, AlwaysPipeline, PTL DEF Spec, HistoryStands

-----------------------------------------------------------------------------
\* The refinement

phaseMap == [d \in Distribution |-> Phase(d)]
grantedMap == [d \in Distribution |-> distribution[d].approved]

\* The phases, one status after the other.
LEMMA Phases ==
  \A d : /\ distribution[d].status \in {"NONE", "DRAFT", "PENDING_APPROVAL"} => Phase(d) = "open"
         /\ distribution[d].status \in {"APPROVED", "TREASURY_PENDING"} => Phase(d) = "approved"
         /\ distribution[d].status \in {"PAYMENT_EXECUTED", "RECONCILIATION_PENDING"} =>
              Phase(d) = "paid"
         /\ distribution[d].status = "RECONCILED" => Phase(d) = "reconciled"
         /\ distribution[d].status = "HOLD" => Phase(d) = "held"
BY DEF Phase

\* The instance's sum is the sum.
LEMMA LifecycleSum == \A f, S : Lifecycle!SumFunctionOnSet(f, S) = SumFunctionOnSet(f, S)
BY DEF SumFunctionOnSet, FoldFunctionOnSet, MapThenFoldSet, Lifecycle!SumFunctionOnSet,
       Lifecycle!FoldFunctionOnSet, Lifecycle!MapThenFoldSet

\* The commitment on the allocation row is what the lifecycle has granted.
LEMMA GrantedIsCommitted ==
  ASSUME PipelineInv, NEW a \in Allocation
  PROVE  Lifecycle!Granted(a) = allocation[a].committed
<1> DEFINE S == {d \in Distribution : AllocationOf[d] = a}
           g == [e \in CommittedRows(a) |-> distribution[e].approved]
<1>0. TypeOK /\ RowsInv
  BY DEF PipelineInv
<1>1. /\ IsFiniteSet(S) /\ CommittedRows(a) \in SUBSET S /\ IsFiniteSet(CommittedRows(a))
      /\ \A d \in S : grantedMap[d] \in Int
      /\ \A d \in S \ CommittedRows(a) : grantedMap[d] = 0
      /\ \A d \in CommittedRows(a) : grantedMap[d] = g[d]
  <2>1. \A d \in S \ CommittedRows(a) : distribution[d].approved = 0
    BY <1>0 DEF RowsInv, RowInv, ApprovalRecorded, CommittedRows
  <2> QED
    BY <1>0, <2>1, AmountsOfRows DEF CommittedRows, grantedMap
<1>2. SumFunctionOnSet(grantedMap, S) = SumFunctionOnSet(grantedMap, CommittedRows(a))
  <2> HIDE DEF S
  <2> QED
    BY <1>1, SumSupport
<1>3. SumFunctionOnSet(grantedMap, CommittedRows(a)) = SumFunctionOnSet(g, CommittedRows(a))
  <2> HIDE DEF g
  <2> QED
    BY <1>1, SumEqual
<1>4. allocation[a].committed = SumFunction(g) /\ DOMAIN g = CommittedRows(a)
  BY DEF PipelineInv, Totals, CommitmentsAreApprovals, CommittedRows
<1>5. SumFunction(g) = SumFunctionOnSet(g, CommittedRows(a))
  BY <1>4 DEF SumFunction
<1>6. Lifecycle!Granted(a) = SumFunctionOnSet(grantedMap, S)
  BY LifecycleSum DEF Lifecycle!Granted, grantedMap
<1> QED
  BY <1>2, <1>3, <1>4, <1>5, <1>6

\* A step that keeps every phase and every approved amount.
LEMMA LifecycleStutters ==
  ASSUME \A d \in Distribution : /\ Phase(d)' = Phase(d)
                                 /\ distribution'[d].approved = distribution[d].approved
  PROVE  UNCHANGED <<phaseMap, grantedMap>>
BY DEF phaseMap, grantedMap

\* A status update of one distribution that moves its phase.
LEMMA LifecycleAdvances ==
  ASSUME TypeOK, NEW d \in Distribution, NEW s, NEW from, NEW to,
         distribution' = [distribution EXCEPT ![d].status = s],
         Phase(d) = from, Phase(d)' = to
  PROVE  /\ from = to => UNCHANGED <<phaseMap, grantedMap>>
         /\ Lifecycle!Advance(d, from, to)
<1>1. /\ \A e \in Distribution \ {d} : distribution'[e] = distribution[e]
      /\ \A e \in Distribution : distribution'[e].approved = distribution[e].approved
  BY StatusRow
<1>2. \A e \in Distribution \ {d} : Phase(e)' = Phase(e)
  BY <1>1 DEF Phase
<1>3. grantedMap' = grantedMap
  BY <1>1 DEF grantedMap
<1>4. phaseMap' = [phaseMap EXCEPT ![d] = to] /\ phaseMap[d] = from
  BY <1>2 DEF phaseMap
<1>5. from = to => phaseMap' = phaseMap
  BY <1>2 DEF phaseMap
<1> QED
  BY <1>3, <1>4, <1>5 DEF Lifecycle!Advance, phaseMap, grantedMap

LEMMA LifecycleNext ==
  ASSUME PipelineInv, [LockedNext]_vars
  PROVE  Lifecycle!Next \/ UNCHANGED <<phaseMap, grantedMap>>
<1>0. TypeOK /\ RowsInv
  BY DEF PipelineInv
<1>1. ASSUME NEW d \in Distribution, NEW p \in Participant, NEW n \in Amount,
             InsertDistribution(d, p, n)
      PROVE  UNCHANGED <<phaseMap, grantedMap>>
  <2>1. /\ distribution'[d].status = "DRAFT" /\ distribution'[d].approved = 0
        /\ \A e \in Distribution \ {d} : distribution'[e] = distribution[e]
        /\ distribution[d].status = "NONE"
    BY <1>0, <1>1 DEF InsertDistribution, NoDistribution, TypeOK
  <2>2. distribution[d].approved = 0
    BY <1>0, <2>1 DEF RowsInv, RowInv, ApprovalRecorded, CommittedStatus, PipelineStatus
  <2>3. \A e \in Distribution : Phase(e)' = Phase(e)
    BY <2>1 DEF Phase
  <2> QED
    BY <2>1, <2>2, <2>3, LifecycleStutters
<1>2. ASSUME NEW d \in Distribution, Submittable(d), Submitted(d)
      PROVE  UNCHANGED <<phaseMap, grantedMap>>
  <2>1. distribution' = [distribution EXCEPT ![d].status = "PENDING_APPROVAL"]
    BY <1>2 DEF Submitted
  <2>2. Phase(d) = "open" /\ Phase(d)' = "open"
    BY <1>0, <1>2, <2>1, StatusRow DEF Submittable, Phase
  <2> QED
    BY <1>0, <2>1, <2>2, LifecycleAdvances
<1>3. ASSUME NEW d \in Distribution, NEW p \in Participant, NEW n \in Amount,
             Approvable(d, p, n), ApprovalFits(d, n), Approved(d, p, n)
      PROVE  Lifecycle!Grant(d, n)
  <2>1. /\ distribution'[d].status = "APPROVED" /\ distribution'[d].approved = n
        /\ \A e \in Distribution \ {d} : distribution'[e] = distribution[e]
    <3>1. distribution'[d] =
            [distribution[d] EXCEPT !.status = "APPROVED", !.approved = n, !.approver = p]
      BY <1>0, <1>3 DEF Approved, TypeOK
    <3>2. distribution[d] \in DistributionRecord
      BY <1>0 DEF TypeOK
    <3>3. \A e \in Distribution \ {d} : distribution'[e] = distribution[e]
      BY <1>0, <1>3 DEF Approved, TypeOK
    <3> QED
      BY <3>1, <3>2, <3>3 DEF DistributionRecord
  <2>2. Phase(d) = "open" /\ Phase(d)' = "approved"
    BY <1>3, <2>1 DEF Approvable, Phase
  <2>3. \A e \in Distribution \ {d} : Phase(e)' = Phase(e)
    BY <2>1 DEF Phase
  <2>4. phaseMap' = [phaseMap EXCEPT ![d] = "approved"] /\ phaseMap[d] = "open"
    BY <2>2, <2>3 DEF phaseMap
  <2>5. grantedMap' = [grantedMap EXCEPT ![d] = n]
    BY <2>1 DEF grantedMap
  <2>6. Lifecycle!Granted(AllocationOf[d]) + n <= Authorized[AllocationOf[d]]
    <3>1. /\ AllocationOf[d] \in Allocation /\ n \in Nat
          /\ Authorized[AllocationOf[d]] \in Nat /\ allocation[AllocationOf[d]].committed \in Nat
      BY <1>0, ReferencesAssumption, AmountsAssumption, AmountsOfRows
    <3>2. n <= Authorized[AllocationOf[d]] - allocation[AllocationOf[d]].committed
      BY <1>3 DEF ApprovalFits, Uncommitted
    <3>3. allocation[AllocationOf[d]].committed + n <= Authorized[AllocationOf[d]]
      BY <3>1, <3>2
    <3> QED
      BY <3>1, <3>3, GrantedIsCommitted
  <2> QED
    BY <2>4, <2>5, <2>6 DEF Lifecycle!Grant, phaseMap, grantedMap
<1>4. ASSUME NEW d \in Distribution, Releasable(d), Released(d)
      PROVE  UNCHANGED <<phaseMap, grantedMap>>
  <2>1. distribution' = [distribution EXCEPT ![d].status = "TREASURY_PENDING"]
    BY <1>4 DEF Released
  <2>2. Phase(d) = "approved" /\ Phase(d)' = "approved"
    BY <1>0, <1>4, <2>1, StatusRow DEF Releasable, Phase
  <2> QED
    BY <1>0, <2>1, <2>2, LifecycleAdvances
<1>5. ASSUME NEW d \in Distribution, NEW p \in Participant, NEW k \in Key,
             Executable(d, p), Executed(d, p, k)
      PROVE  Lifecycle!Advance(d, "approved", "paid")
  <2>1. distribution' = [distribution EXCEPT ![d].status = "PAYMENT_EXECUTED"]
    BY <1>5 DEF Executed
  <2>2. Phase(d) = "approved" /\ Phase(d)' = "paid"
    <3>1. /\ distribution[d].status = "TREASURY_PENDING"
          /\ distribution'[d].status = "PAYMENT_EXECUTED"
      BY <1>0, <1>5, <2>1, StatusRow DEF Executable
    <3> QED
      BY <3>1 DEF Phase
  <2> QED
    BY <1>0, <2>1, <2>2, LifecycleAdvances
<1>6. ASSUME NEW d \in Distribution, Settleable(d), Settled(d)
      PROVE  UNCHANGED <<phaseMap, grantedMap>>
  <2>1. distribution' = [distribution EXCEPT ![d].status = "RECONCILIATION_PENDING"]
    BY <1>6 DEF Settled
  <2>2. distribution[d].status = "PAYMENT_EXECUTED"
    BY <1>0, <1>6 DEF Settleable, RowsInv, RowInv, PaymentAgrees
  <2>3. Phase(d) = "paid" /\ Phase(d)' = "paid"
    BY <1>0, <2>1, <2>2, StatusRow DEF Phase
  <2> QED
    BY <1>0, <2>1, <2>3, LifecycleAdvances
<1>7. ASSUME NEW d \in Distribution, NEW p \in Participant,
             NEW l \in Amount \cup {0}, NEW s \in Amount \cup {0},
             Reconcilable(d, p), Unreconciled(d), ReconciledBy(d, p, l, s)
      PROVE  \E outcome \in {"reconciled", "held"} : Lifecycle!Advance(d, "paid", outcome)
  <2>1. distribution[d].status = "RECONCILIATION_PENDING"
    BY <1>0, <1>7 DEF Reconcilable, Unreconciled, RowsInv, RowInv, PaymentAgrees,
                      ReconciliationAgrees, PaidStatus
  <2>2. Phase(d) = "paid"
    BY <2>1 DEF Phase
  <2>3. CASE distribution' = [distribution EXCEPT ![d].status = "RECONCILED"]
    <3>1. Phase(d)' = "reconciled"
      <4>1. distribution'[d].status = "RECONCILED"
        BY <1>0, <2>3, StatusRow
      <4> QED
        BY <4>1 DEF Phase
    <3> QED
      BY <1>0, <2>2, <2>3, <3>1, LifecycleAdvances
  <2>4. CASE distribution' = [distribution EXCEPT ![d].status = "HOLD"]
    <3>1. Phase(d)' = "held"
      <4>1. distribution'[d].status = "HOLD"
        BY <1>0, <2>4, StatusRow
      <4> QED
        BY <4>1 DEF Phase
    <3> QED
      BY <1>0, <2>2, <2>4, <3>1, LifecycleAdvances
  <2> QED
    BY <1>7, <2>3, <2>4 DEF ReconciledBy
<1>8. ASSUME UNCHANGED distribution PROVE UNCHANGED <<phaseMap, grantedMap>>
  BY <1>8 DEF phaseMap, grantedMap, Phase
<1> QED
  BY <1>1, <1>2, <1>3, <1>4, <1>5, <1>6, <1>7, <1>8
     DEF LockedNext, ServiceRoleStep, LockedFunctionStep, MoveContribution,
         MoveAllocation, ReviewBeneficiary, ReviewDestination, vars, ledger, Lifecycle!Next

LEMMA LifecycleInit == Init => Lifecycle!Init
<1> SUFFICES ASSUME Init PROVE Lifecycle!Init
  OBVIOUS
<1>1. \A d \in Distribution : Phase(d) = "open" /\ distribution[d].approved = 0
  BY DEF Init, NoDistribution, Phase
<1> QED
  BY <1>1 DEF Lifecycle!Init

(***************************************************************************)
(* The pipeline, with the totals it keeps on the allocation rows, grants   *)
(* and pays as the lifecycle that sums over all grants does.               *)
(***************************************************************************)
THEOREM PipelineKeepsLifecycle == Spec => ImplementsLifecycle
<1>1. PipelineInv /\ [Next]_vars =>
         [Lifecycle!Next]_<<[d \in Distribution |-> Phase(d)],
                            [d \in Distribution |-> distribution[d].approved]>>
  BY LifecycleNext, NextIsLocked DEF phaseMap, grantedMap
<1> QED
  BY <1>1, LifecycleInit, AlwaysPipeline, PTL DEF Spec, ImplementsLifecycle, Lifecycle!Spec

-----------------------------------------------------------------------------
\* The fund

\* No status move brings an allocation back to life, takes a receipt back
\* without reversing it, or undoes a reversal.
MovesFinal ==
    /\ \A m \in AllocationMoves :
          m[2] \in {"ACTIVE", "SUSPENDED"} => m[1] \in {"ACTIVE", "SUSPENDED"}
    /\ \A m \in ContributionMoves :
          /\ m[1] = "REVERSED" => m[2] = "REVERSED"
          /\ m[1] \in {"RECEIVED", "RECONCILED"} => m[2] \in {"RECEIVED", "RECONCILED", "REVERSED"}

LiveFund(f) ==
    /\ \A c \in Contribution : ContributionFund[c] = f => contribution[c] # "REVERSED"
    /\ \A a \in AllocationsOf(f) : allocation[a].status \in {"ACTIVE", "SUSPENDED"}

Unreversed(f) ==
    \A c \in Contribution : ContributionFund[c] = f => contribution[c] # "REVERSED"

ReceivedRows(f) ==
    {c \in Contribution : /\ ContributionFund[c] = f
                          /\ contribution[c] \in {"RECEIVED", "RECONCILED"}}

LEMMA FundAmounts ==
  ASSUME TypeOK, NEW f \in Fund
  PROVE  Received(f) \in Int /\ CommittedBy(AllocationsOf(f)) \in Int
<1>1. IsFiniteSet(ReceivedRows(f)) /\ \A c \in ReceivedRows(f) : ContributionAmount[c] \in Int
  <2>1. ReceivedRows(f) \subseteq Contribution
    BY DEF ReceivedRows
  <2> QED
    BY <2>1, RowsAssumption, AmountsAssumption, FS_Subset
<1>2. Received(f) \in Int
  BY <1>1, SumType DEF Received, ReceivedRows
<1> DEFINE h == [a \in AllocationsOf(f) |-> allocation[a].committed]
<1>3. IsFiniteSet(DOMAIN h) /\ \A a \in DOMAIN h : h[a] \in Int
  BY AmountsOfRows DEF AllocationsOf
<1> HIDE DEF h
<1>4. SumFunction(h) \in Int
  BY <1>3, SumOfType
<1> QED
  BY <1>2, <1>4 DEF CommittedBy, h

\* A step that writes no commitment, revives no allocation and takes no receipt
\* away but by reversing it.
QuietForFunds ==
    /\ \A a \in Allocation :
          /\ allocation'[a].committed = allocation[a].committed
          /\ allocation'[a].status \in {"ACTIVE", "SUSPENDED"} =>
               allocation[a].status \in {"ACTIVE", "SUSPENDED"}
    /\ \A c \in Contribution :
          /\ contribution[c] = "REVERSED" => contribution'[c] = "REVERSED"
          /\ contribution[c] \in {"RECEIVED", "RECONCILED"} =>
               contribution'[c] \in {"RECEIVED", "RECONCILED", "REVERSED"}

LEMMA QuietReceipts ==
  ASSUME TypeOK, TypeOK', QuietForFunds, NEW f \in Fund, Unreversed(f)'
  PROVE  /\ Unreversed(f)
         /\ Received(f) \in Int /\ Received(f)' \in Int /\ Received(f) <= Received(f)'
<1>1. ReceivedRows(f) \in SUBSET ReceivedRows(f)'
  BY DEF ReceivedRows, Unreversed, QuietForFunds
<1>2. IsFiniteSet(ReceivedRows(f)') /\ \A c \in ReceivedRows(f)' : ContributionAmount[c] \in Nat
  <2>1. ReceivedRows(f)' \subseteq Contribution
    BY DEF ReceivedRows
  <2> QED
    BY <2>1, RowsAssumption, AmountsAssumption, FS_Subset
<1>3. SumFunctionOnSet(ContributionAmount, ReceivedRows(f)) <=
        SumFunctionOnSet(ContributionAmount, ReceivedRows(f)')
  BY <1>1, <1>2, SumPart
<1>4. SumFunctionOnSet(ContributionAmount, ReceivedRows(f)') \in Int
  BY <1>2, SumType
<1>5. /\ Received(f) = SumFunctionOnSet(ContributionAmount, ReceivedRows(f))
      /\ Received(f)' = SumFunctionOnSet(ContributionAmount, ReceivedRows(f)')
  BY DEF Received, ReceivedRows
<1>6. Unreversed(f)
  BY DEF Unreversed, QuietForFunds
<1> QED
  BY <1>3, <1>4, <1>5, <1>6, FundAmounts

LEMMA QuietFund ==
  ASSUME TypeOK, TypeOK', QuietForFunds, NEW f \in Fund, LiveFund(f)'
  PROVE  /\ LiveFund(f)
         /\ CommittedBy(AllocationsOf(f))' = CommittedBy(AllocationsOf(f))
         /\ CommittedBy(AllocationsOf(f)) \in Int
         /\ Received(f) \in Int /\ Received(f)' \in Int /\ Received(f) <= Received(f)'
<1>1. LiveFund(f)
  BY DEF LiveFund, AllocationsOf, QuietForFunds
<1>2. CommittedBy(AllocationsOf(f))' = CommittedBy(AllocationsOf(f))
  <2>1. [a \in AllocationsOf(f) |-> allocation'[a].committed] =
          [a \in AllocationsOf(f) |-> allocation[a].committed]
    BY DEF AllocationsOf, QuietForFunds
  <2> QED
    BY <2>1 DEF CommittedBy, AllocationsOf
<1>3. Received(f) \in Int /\ Received(f)' \in Int /\ Received(f) <= Received(f)'
  BY QuietReceipts DEF LiveFund, Unreversed
<1> QED
  BY <1>1, <1>2, <1>3, FundAmounts

LEMMA QuietKeepsSolvency ==
  ASSUME TypeOK, TypeOK', FundSolvent, QuietForFunds
  PROVE  FundSolvent'
<1> SUFFICES ASSUME NEW f \in Fund, LiveFund(f)'
             PROVE  CommittedBy(AllocationsOf(f))' <= Received(f)'
  BY DEF FundSolvent, LiveFund
<1>1. CommittedBy(AllocationsOf(f)) <= Received(f)
  BY QuietFund DEF FundSolvent, LiveFund
<1> QED
  BY <1>1, QuietFund

\* The capacity trigger, run on a live fund, leaves room for the approval.
LEMMA CoverLeavesRoom ==
  ASSUME TypeOK, NEW x \in Allocation, LiveFund(FundOf[x]), NEW n \in Nat, FundCovers(x, n)
  PROVE  CommittedBy(AllocationsOf(FundOf[x])) + n <= Received(FundOf[x])
<1> DEFINE f == FundOf[x]
<1>1. f \in Fund /\ allocation[x].committed \in Nat
  BY ReferencesAssumption, AmountsOfRows
<1>2. {a \in AllocationsOf(f) : allocation[a].status \in {"ACTIVE", "SUSPENDED"}} =
        AllocationsOf(f)
  BY DEF LiveFund
<1>3. FundAvailable(f) = Received(f) - CommittedBy(AllocationsOf(f))
  BY <1>2 DEF FundAvailable
<1>4. allocation[x].committed + n <= FundAvailable(f) + allocation[x].committed
  BY DEF FundCovers
<1>5. Received(f) \in Int /\ CommittedBy(AllocationsOf(f)) \in Int
  BY <1>1, FundAmounts
<1> QED
  BY <1>1, <1>3, <1>4, <1>5

\* An approval adds its amount to the commitments of one allocation and its fund.
LEMMA ApprovalAdds ==
  ASSUME TypeOK, NEW d \in Distribution, NEW p \in Participant, NEW n \in Amount,
         Approved(d, p, n), NEW x, x = AllocationOf[d]
  PROVE  /\ \A a \in Allocation :
               /\ allocation'[a].status = allocation[a].status
               /\ allocation'[a].committed = allocation[a].committed + IF a = x THEN n ELSE 0
         /\ \A f \in Fund :
               /\ Received(f)' = Received(f)
               /\ LiveFund(f)' <=> LiveFund(f)
               /\ CommittedBy(AllocationsOf(f))' =
                    CommittedBy(AllocationsOf(f)) + IF f = FundOf[x] THEN n ELSE 0
<1>1. n \in Nat /\ x \in Allocation /\ UNCHANGED contribution
  BY AmountsAssumption, ReferencesAssumption DEF Approved, reference
<1>2. \A a \in Allocation :
         /\ allocation'[a].status = allocation[a].status
         /\ allocation'[a].committed = allocation[a].committed + IF a = x THEN n ELSE 0
  <2>1. allocation' = [allocation EXCEPT ![x].committed = @ + n]
    BY DEF Approved
  <2> QED
    BY <1>1, <2>1, CommitmentOfRow
<1>3. ASSUME NEW f \in Fund
      PROVE  /\ Received(f)' = Received(f)
             /\ LiveFund(f)' <=> LiveFund(f)
  BY <1>1, <1>2 DEF LiveFund, AllocationsOf, Received
<1>4. ASSUME NEW f \in Fund
      PROVE  CommittedBy(AllocationsOf(f))' =
               CommittedBy(AllocationsOf(f)) + IF f = FundOf[x] THEN n ELSE 0
  <2> DEFINE h == [a \in AllocationsOf(f) |-> allocation[a].committed]
             g == [a \in AllocationsOf(f) |-> allocation'[a].committed]
  <2>1. CommittedBy(AllocationsOf(f)) = SumFunction(h)
    BY DEF CommittedBy
  <2>2. CommittedBy(AllocationsOf(f))' = SumFunction(g)
    BY DEF CommittedBy, AllocationsOf
  <2>3. IsFiniteSet(DOMAIN h) /\ \A a \in DOMAIN h : h[a] \in Int
    BY AmountsOfRows DEF AllocationsOf
  <2>4. SumFunction(h) \in Int
    <3> HIDE DEF h
    <3> QED
      BY <2>3, SumOfType
  <2>5. CASE f = FundOf[x]
    <3>1. /\ x \in DOMAIN h /\ DOMAIN g = DOMAIN h
          /\ g[x] = h[x] + n /\ g[x] \in Int
          /\ \A a \in DOMAIN h \ {x} : g[a] = h[a]
      BY <1>1, <1>2, <2>5, AmountsOfRows DEF AllocationsOf
    <3>2. SumFunction(g) = SumFunction(h) + n
      <4> HIDE DEF g, h
      <4>1. SumFunction(g) = SumFunction(h) - h[x] + g[x]
        BY <2>3, <3>1, SumOfChanged
      <4> QED
        BY <1>1, <2>3, <2>4, <3>1, <4>1
    <3> QED
      BY <2>1, <2>2, <2>5, <3>2
  <2>6. CASE f # FundOf[x]
    <3>1. \A a \in AllocationsOf(f) : allocation'[a].committed = allocation[a].committed
      BY <1>2, <2>6, AmountsOfRows DEF AllocationsOf
    <3>2. g = h
      BY <3>1
    <3> HIDE DEF g, h
    <3> QED
      BY <2>1, <2>2, <2>4, <2>6, <3>2
  <2> QED
    BY <2>5, <2>6
<1> QED
  BY <1>2, <1>3, <1>4

LEMMA ApprovalKeepsSolvency ==
  ASSUME TypeOK, FundSolvent, NEW d \in Distribution, NEW p \in Participant, NEW n \in Amount,
         NEW x, x = AllocationOf[d], Approved(d, p, n),
         LiveFund(FundOf[x]) =>
            CommittedBy(AllocationsOf(FundOf[x])) + n <= Received(FundOf[x])
  PROVE  FundSolvent'
<1> SUFFICES ASSUME NEW f \in Fund, LiveFund(f)'
             PROVE  CommittedBy(AllocationsOf(f))' <= Received(f)'
  BY DEF FundSolvent, LiveFund
<1>1. /\ LiveFund(f) /\ Received(f)' = Received(f)
      /\ CommittedBy(AllocationsOf(f))' =
           CommittedBy(AllocationsOf(f)) + IF f = FundOf[x] THEN n ELSE 0
  BY ApprovalAdds
<1>2. CommittedBy(AllocationsOf(f)) <= Received(f) /\ CommittedBy(AllocationsOf(f)) \in Int
  BY <1>1, FundAmounts DEF FundSolvent, LiveFund
<1> QED
  BY <1>1, <1>2

\* No write of the service role is more than quiet for a fund, nor is any
\* function but approve_distribution.
LEMMA OthersAreQuiet ==
  ASSUME MovesFinal, TypeOK,
         \/ ServiceRoleStep
         \/ \E d \in Distribution :
               \/ Submitted(d) \/ Released(d) \/ Settled(d)
               \/ \E p \in Participant, k \in Key : Executed(d, p, k)
               \/ \E p \in Participant, l, s \in Amount \cup {0} : ReconciledBy(d, p, l, s)
         \/ UNCHANGED vars
  PROVE  QuietForFunds
<1>1. ASSUME NEW c \in Contribution, NEW s \in ContributionStatus, MoveContribution(c, s)
      PROVE  QuietForFunds
  <2>1. <<contribution[c], s>> \in ContributionMoves
    BY <1>1 DEF MoveContribution
  <2>2. /\ contribution[c] = "REVERSED" => s = "REVERSED"
        /\ contribution[c] \in {"RECEIVED", "RECONCILED"} =>
             s \in {"RECEIVED", "RECONCILED", "REVERSED"}
    BY <2>1 DEF MovesFinal
  <2>3. contribution' = [contribution EXCEPT ![c] = s] /\ UNCHANGED allocation
    BY <1>1 DEF MoveContribution, ledger
  <2> QED
    BY <2>2, <2>3 DEF TypeOK, QuietForFunds
<1>2. ASSUME NEW a \in Allocation, NEW s \in AllocationStatus, MoveAllocation(a, s)
      PROVE  QuietForFunds
  <2>1. <<allocation[a].status, s>> \in AllocationMoves
    BY <1>2 DEF MoveAllocation
  <2>2. s \in {"ACTIVE", "SUSPENDED"} => allocation[a].status \in {"ACTIVE", "SUSPENDED"}
    BY <2>1 DEF MovesFinal
  <2>3. \A b \in Allocation :
           /\ allocation'[b] = IF b = a THEN [allocation[b] EXCEPT !.status = s] ELSE allocation[b]
           /\ allocation[b] \in AllocationRecord
    BY <1>2 DEF MoveAllocation, TypeOK
  <2>4. \A b \in Allocation :
           /\ allocation'[b].committed = allocation[b].committed
           /\ allocation'[b].status = IF b = a THEN s ELSE allocation[b].status
    BY <2>3 DEF AllocationRecord
  <2>5. UNCHANGED contribution
    BY <1>2 DEF MoveAllocation, reference
  <2> QED
    BY <2>2, <2>4, <2>5 DEF QuietForFunds
<1>3. ASSUME NEW d \in Distribution, NEW p \in Participant,
             NEW l \in Amount \cup {0}, NEW s \in Amount \cup {0},
             ReconciledBy(d, p, l, s)
      PROVE  QuietForFunds
  <2>1. UNCHANGED contribution
    BY <1>3 DEF ReconciledBy, reference
  <2>2. \/ allocation' = allocation
        \/ allocation' =
             [allocation EXCEPT ![AllocationOf[d]].disbursed = @ + payment[d].amount]
    BY <1>3 DEF ReconciledBy
  <2>3. AllocationOf[d] \in Allocation /\ payment[d].amount \in Nat
    BY ReferencesAssumption, AmountsOfRows
  <2>4. \A b \in Allocation : /\ allocation'[b].committed = allocation[b].committed
                            /\ allocation'[b].status = allocation[b].status
    BY <2>2, <2>3, DisbursementOfRow
  <2> QED
    BY <2>1, <2>4 DEF QuietForFunds
<1>4. ASSUME UNCHANGED <<allocation, contribution>> PROVE QuietForFunds
  BY <1>4 DEF QuietForFunds
<1> QED
  BY <1>1, <1>2, <1>3, <1>4
     DEF ServiceRoleStep, Submitted, Released, Executed, Settled, InsertDistribution,
         ReviewBeneficiary, ReviewDestination, vars, reference, ledger

LEMMA FundsStart == Init => FundSolvent
<1> SUFFICES ASSUME Init, NEW f \in Fund PROVE CommittedBy(AllocationsOf(f)) <= Received(f)
  BY DEF FundSolvent
<1>1. ReceivedRows(f) = {}
  BY DEF Init, ReceivedRows
<1>2. Received(f) = 0
  BY <1>1, SumEmpty DEF Received, ReceivedRows
<1> DEFINE h == [a \in AllocationsOf(f) |-> allocation[a].committed]
           z == [a \in {} |-> 0]
<1>3. /\ IsFiniteSet(DOMAIN h) /\ \A a \in DOMAIN h : h[a] = 0
      /\ DOMAIN z \subseteq DOMAIN h /\ DOMAIN z = {}
  BY RowsAssumption, FS_Subset DEF Init, AllocationsOf
<1>4. SumFunction(h) = 0
  <2> HIDE DEF h, z
  <2>1. SumFunction(z) = SumFunction(h)
    BY <1>3, SumOfPart
  <2> QED
    BY <1>3, <2>1, SumOfNone
<1> QED
  BY <1>2, <1>4 DEF CommittedBy

(***************************************************************************)
(* If closures and reversals are final, a fund that is live and unreversed *)
(* has never committed more than it received.                              *)
(***************************************************************************)
THEOREM FundsStaySolvent == ASSUME MovesFinal PROVE Spec => []FundSolvent
<1>1. TypeOK /\ TypeOK' /\ FundSolvent /\ [Next]_vars => FundSolvent'
  <2> SUFFICES ASSUME TypeOK, TypeOK', FundSolvent, [Next]_vars PROVE FundSolvent'
    OBVIOUS
  <2>1. ASSUME NEW d \in Distribution, NEW p \in Participant, NEW n \in Amount,
               ApproveDistribution(d, p, n)
        PROVE  FundSolvent'
    <3>1. AllocationOf[d] \in Allocation /\ n \in Nat
      BY ReferencesAssumption, AmountsAssumption
    <3>2. FundCovers(AllocationOf[d], n) /\ Approved(d, p, n)
      BY <2>1 DEF ApproveDistribution
    <3> QED
      BY <3>1, <3>2, CoverLeavesRoom, ApprovalKeepsSolvency
  <2>2. QuietForFunds => FundSolvent'
    BY QuietKeepsSolvency
  <2> QED
    BY <2>1, <2>2, OthersAreQuiet
       DEF Next, FunctionStep, SubmitDistribution, ReleaseToTreasury, ExecutePayment,
           ConfirmPaymentSettlement, CompleteReconciliation
<1> QED
  BY <1>1, FundsStart, TypeCorrect, PTL DEF Spec

-----------------------------------------------------------------------------
(***************************************************************************)
(* The functions as interleaved statements                                 *)
(***************************************************************************)

\* What each statement locks, function by function.
LEMMA RowsOf ==
  ASSUME NEW c \in Call, NEW d, d = c.distribution
  PROVE  /\ c.function \in Function
         /\ d \in Distribution /\ c.participant \in Participant /\ c.amount \in Amount
         /\ c.key \in Key /\ c.reported \in Amount \cup {0} /\ c.settled \in Amount \cup {0}
         /\ c.function = "submit" =>
              Rows(c) = <<DistributionRow(d), AllocationRow(d), NoRow>>
         /\ c.function = "approve" =>
              Rows(c) = <<DistributionRow(d), AllocationRow(d), NoRow>>
         /\ c.function = "release" => Rows(c) = <<DistributionRow(d)>>
         /\ c.function = "execute" =>
              Rows(c) = <<DistributionRow(d), NoRow, KeyEntry(c.key)>>
         /\ c.function = "confirm" => Rows(c) = <<PaymentRow(d), DistributionRow(d)>>
         /\ c.function = "reconcile" =>
              Rows(c) = <<PaymentRow(d), DistributionRow(d), AllocationRow(d)>>
<1>1. c \in [function : Function, distribution : Distribution,
             participant : Participant, amount : Amount, key : Key,
             reported : Amount \cup {0}, settled : Amount \cup {0}]
  BY CallsAssumption
<1> QED
  BY <1>1 DEF Rows

\* A row is of one table and has one key there; no plain read names a row.
LEMMA RowsDiffer ==
  /\ \A d, e : /\ DistributionRow(d) # NoRow /\ AllocationRow(d) # NoRow
               /\ PaymentRow(d) # NoRow /\ KeyEntry(d) # NoRow
  /\ \A d, e : DistributionRow(d) = DistributionRow(e) => d = e
  /\ \A d, e : PaymentRow(d) = PaymentRow(e) => d = e
  /\ \A d, e : KeyEntry(d) = KeyEntry(e) => d = e
BY DEF DistributionRow, AllocationRow, PaymentRow, KeyEntry, NoRow

\* A session has done statements of its own call only.
SessionsOK ==
    /\ SessionsTypeOK
    /\ \A s \in Session : Busy(s) => session[s].done \in 0..Len(Rows(session[s].call))

\* The tests of the rows that n statements of a call have locked.
PassedAt(c, n) ==
    LET d == c.distribution IN
    /\ c.function = "submit" /\ n >= 1 => Submittable(d)
    /\ c.function = "submit" /\ n >= 2 => RequestFits(d)
    /\ c.function = "approve" /\ n >= 1 => Approvable(d, c.participant, c.amount)
    /\ c.function = "approve" /\ n >= 2 => ApprovalFits(d, c.amount)
    /\ c.function = "release" /\ n >= 1 => Releasable(d)
    /\ c.function = "execute" /\ n >= 1 => Executable(d, c.participant)
    /\ c.function = "execute" /\ n >= 3 => PaymentUnique(d, c.key)
    /\ c.function = "confirm" /\ n >= 1 => Settleable(d)
    /\ c.function = "reconcile" /\ n >= 1 => Reconcilable(d, c.participant)
    /\ c.function = "reconcile" /\ n >= 3 =>
          /\ Unreconciled(d)
          /\ Matches(d, c.reported, c.settled) => DisbursementFits(d)

Passed(s) == PassedAt(session[s].call, session[s].done)

\* The rows that a session has locked.
LEMMA LockedRows ==
  ASSUME SessionsOK, NEW s \in Session, Busy(s),
         NEW c \in Call, c = session[s].call, NEW d, d = c.distribution,
         NEW n, n = session[s].done
  PROVE  /\ n \in Nat
         /\ c.function \in {"submit", "approve", "release", "execute"} /\ n >= 1 =>
              DistributionRow(d) \in Holds(s)
         /\ c.function \in {"submit", "approve"} /\ n >= 2 => AllocationRow(d) \in Holds(s)
         /\ c.function = "execute" /\ n >= 3 => KeyEntry(c.key) \in Holds(s)
         /\ c.function \in {"confirm", "reconcile"} /\ n >= 1 => PaymentRow(d) \in Holds(s)
         /\ c.function \in {"confirm", "reconcile"} /\ n >= 2 =>
              DistributionRow(d) \in Holds(s)
         /\ c.function = "reconcile" /\ n >= 3 => AllocationRow(d) \in Holds(s)
<1>1. n \in 0..Len(Rows(c))
  BY DEF SessionsOK
<1>2. \A i \in 1..n : Rows(c)[i] # NoRow => Rows(c)[i] \in Holds(s)
  BY DEF Holds, Done
<1>3. n \in Nat
  BY DEF SessionsOK, SessionsTypeOK
<1>4. \A i \in 1..3 : n >= i => i \in 1..n
  BY <1>3
<1> QED
  BY <1>2, <1>3, <1>4, RowsOf, RowsDiffer

LEMMA PassedAreTests ==
  ASSUME NEW c \in Call, NEW n \in Nat, n \in 0..Len(Rows(c))
  PROVE  PassedAt(c, n) <=> \A i \in 1..n : Rows(c)[i] # NoRow => Test(c, i)
<1> DEFINE d == c.distribution
           AllTests == \A i \in 1..n : Rows(c)[i] # NoRow => Test(c, i)
<1>1. c \in Call /\ n \in 0..Len(Rows(c)) /\ n \in Nat
  OBVIOUS
<1>2. \A i : i \in 1..n <=> i \in Nat /\ 1 <= i /\ i <= n
  BY <1>1
<1> SUFFICES PassedAt(c, n) <=> AllTests
  OBVIOUS
<1>3. CASE c.function = "submit"
  <2>1. Rows(c) = <<DistributionRow(d), AllocationRow(d), NoRow>>
    BY <1>1, <1>3, RowsOf
  <2>2. n <= 3
    BY <1>1, <2>1
  <2>3. /\ Test(c, 1) <=> Submittable(d)
        /\ Test(c, 2) <=> RequestFits(d)
    BY <1>3 DEF Test, SubmitTest
  <2>4. AllTests <=> (n >= 1 => Test(c, 1)) /\ (n >= 2 => Test(c, 2))
    BY <1>1, <1>2, <2>1, <2>2, RowsDiffer
  <2> QED
    BY <1>3, <2>3, <2>4 DEF PassedAt
<1>4. CASE c.function = "approve"
  <2>1. Rows(c) = <<DistributionRow(d), AllocationRow(d), NoRow>>
    BY <1>1, <1>4, RowsOf
  <2>2. n <= 3
    BY <1>1, <2>1
  <2>3. /\ Test(c, 1) <=> Approvable(d, c.participant, c.amount)
        /\ Test(c, 2) <=> ApprovalFits(d, c.amount)
    BY <1>4 DEF Test, ApproveTest
  <2>4. AllTests <=> (n >= 1 => Test(c, 1)) /\ (n >= 2 => Test(c, 2))
    BY <1>1, <1>2, <2>1, <2>2, RowsDiffer
  <2> QED
    BY <1>4, <2>3, <2>4 DEF PassedAt
<1>5. CASE c.function = "release"
  <2>1. Rows(c) = <<DistributionRow(d)>>
    BY <1>1, <1>5, RowsOf
  <2>2. n <= 1
    BY <1>1, <2>1
  <2>3. \A i : Test(c, i) <=> Releasable(d)
    BY <1>5 DEF Test, ReleaseTest
  <2>4. AllTests <=> (n >= 1 => Test(c, 1))
    BY <1>1, <1>2, <2>1, <2>2, RowsDiffer
  <2> QED
    BY <1>5, <2>3, <2>4 DEF PassedAt
<1>6. CASE c.function = "execute"
  <2>1. Rows(c) = <<DistributionRow(d), NoRow, KeyEntry(c.key)>>
    BY <1>1, <1>6, RowsOf
  <2>2. n <= 3
    BY <1>1, <2>1
  <2>3. /\ Test(c, 1) <=> Executable(d, c.participant)
        /\ Test(c, 3) <=> PaymentUnique(d, c.key)
    BY <1>6 DEF Test, ExecuteTest
  <2>4. AllTests <=> (n >= 1 => Test(c, 1)) /\ (n >= 3 => Test(c, 3))
    BY <1>1, <1>2, <2>1, <2>2, RowsDiffer
  <2> QED
    BY <1>6, <2>3, <2>4 DEF PassedAt
<1>7. CASE c.function = "confirm"
  <2>1. Rows(c) = <<PaymentRow(d), DistributionRow(d)>>
    BY <1>1, <1>7, RowsOf
  <2>2. n <= 2
    BY <1>1, <2>1
  <2>3. (Test(c, 1) <=> Settleable(d)) /\ Test(c, 2)
    BY <1>7 DEF Test, ConfirmTest
  <2>4. AllTests <=> (n >= 1 => Test(c, 1)) /\ (n >= 2 => Test(c, 2))
    BY <1>1, <1>2, <2>1, <2>2, RowsDiffer
  <2> QED
    BY <1>7, <2>3, <2>4 DEF PassedAt
<1>8. CASE c.function = "reconcile"
  <2>1. Rows(c) = <<PaymentRow(d), DistributionRow(d), AllocationRow(d)>>
    BY <1>1, <1>8, RowsOf
  <2>2. n <= 3
    BY <1>1, <2>1
  <2>3. /\ Test(c, 1) <=> Reconcilable(d, c.participant)
        /\ Test(c, 2)
        /\ Test(c, 3) <=> /\ Unreconciled(d)
                          /\ Matches(d, c.reported, c.settled) => DisbursementFits(d)
    BY <1>8 DEF Test, ReconcileTest
  <2>4. AllTests <=> (n >= 1 => Test(c, 1)) /\ (n >= 2 => Test(c, 2)) /\ (n >= 3 => Test(c, 3))
    BY <1>1, <1>2, <2>1, <2>2, RowsDiffer
  <2> QED
    BY <1>8, <2>3, <2>4 DEF PassedAt
<1> QED
  BY <1>1, <1>3, <1>4, <1>5, <1>6, <1>7, <1>8, RowsOf DEF Function

-----------------------------------------------------------------------------
\* No row is locked twice.
LocksAlone == \A s, t \in Session : s # t => Holds(s) \cap Holds(t) = {}

TestsPassed == \A s \in Session : Busy(s) => Passed(s)

TransactionsInv == SessionsOK /\ LocksAlone /\ TestsPassed /\ PipelineInv

LEMMA PassedIsLocked ==
  ASSUME SessionsOK
  PROVE  TestsPassed <=> LockedTestsHold
<1>1. ASSUME NEW s \in Session, ~Busy(s) PROVE Done(s) = {}
  BY <1>1 DEF SessionsOK, SessionsTypeOK, IdleSession, Done
<1>2. ASSUME NEW s \in Session, Busy(s)
      PROVE  Passed(s) <=> \A i \in Done(s) :
                Rows(session[s].call)[i] # NoRow => Test(session[s].call, i)
  <2>1. /\ session[s].call \in Call /\ session[s].done \in Nat
        /\ session[s].done \in 0..Len(Rows(session[s].call))
    BY <1>2 DEF SessionsOK, SessionsTypeOK, Busy
  <2> QED
    BY <2>1, PassedAreTests DEF Passed, Done
<1> QED
  BY <1>1, <1>2 DEF TestsPassed, LockedTestsHold

\* What a session has locked depends on its own call and place only.
LEMMA HoldsFrame ==
  ASSUME NEW s \in Session, session'[s] = session[s]
  PROVE  Holds(s)' = Holds(s) /\ (Busy(s)' <=> Busy(s))
BY DEF Holds, Done, Rows, Busy

LEMMA IdleHolds ==
  ASSUME NEW s \in Session, session'[s] = IdleSession
  PROVE  Holds(s)' = {} /\ ~Busy(s)'
BY DEF Holds, Done, IdleSession, Busy

\* Every step of a session leaves the others where they are, and a row that
\* it locks is one that nobody had.
LEMMA SessionStepKeepsLocks ==
  ASSUME SessionsOK, LocksAlone, NEW s \in Session, SessionStep(s)
  PROVE  /\ SessionsOK' /\ LocksAlone'
         /\ \A t \in Session \ {s} : session'[t] = session[t]
<1>0. /\ session \in [Session -> [call : Call \cup {NoCall}, done : 0..3]]
      /\ IdleSession \in [call : Call \cup {NoCall}, done : 0..3]
  BY DEF SessionsOK, SessionsTypeOK, IdleSession
<1>1. ASSUME NEW r, session' = [session EXCEPT ![s] = r],
             r \in [call : Call \cup {NoCall}, done : 0..3],
             r.call = NoCall => r = IdleSession,
             r.call # NoCall => r.done \in 0..Len(Rows(r.call)),
             \A t \in Session \ {s} : Holds(s)' \cap Holds(t) = {}
      PROVE  /\ SessionsOK' /\ LocksAlone'
             /\ \A t \in Session \ {s} : session'[t] = session[t]
  <2>1. session'[s] = r /\ \A t \in Session \ {s} : session'[t] = session[t]
    BY <1>0, <1>1
  <2>2. SessionsTypeOK'
    BY <1>0, <1>1, <2>1 DEF SessionsOK, SessionsTypeOK, Busy
  <2>3. ASSUME NEW t \in Session, Busy(t)'
        PROVE  session'[t].done \in 0..Len(Rows(session'[t].call))
    BY <1>1, <2>1, <2>3 DEF SessionsOK, Busy
  <2>4. SessionsOK'
    BY <2>2, <2>3 DEF SessionsOK, Rows
  <2>5. \A t \in Session \ {s} : Holds(t)' = Holds(t)
    BY <2>1, HoldsFrame
  <2>6. LocksAlone'
    BY <1>1, <2>5 DEF LocksAlone
  <2> QED
    BY <2>1, <2>4, <2>6
<1>2. ASSUME session' = [session EXCEPT ![s] = IdleSession]
      PROVE  /\ SessionsOK' /\ LocksAlone'
             /\ \A t \in Session \ {s} : session'[t] = session[t]
  <2>1. Holds(s)' = {}
    BY <1>0, <1>2, IdleHolds
  <2> QED
    BY <1>0, <1>1, <1>2, <2>1 DEF IdleSession
<1>3. ASSUME NEW c \in Call, Begin(s, c)
      PROVE  /\ SessionsOK' /\ LocksAlone'
             /\ \A t \in Session \ {s} : session'[t] = session[t]
  <2> DEFINE r == [call |-> c, done |-> 0]
  <2>1. session' = [session EXCEPT ![s] = r] /\ session'[s] = r
    BY <1>0, <1>3 DEF Begin
  <2>2. Holds(s)' = {}
    BY <2>1 DEF Holds, Done
  <2>3. Len(Rows(c)) \in Nat /\ c # NoCall
    BY RowsOf, CallsAssumption DEF Function
  <2>4. /\ r \in [call : Call \cup {NoCall}, done : 0..3]
        /\ r.call # NoCall /\ r.done \in 0..Len(Rows(r.call))
    BY <2>3
  <2> HIDE DEF r
  <2> QED
    BY <1>1, <2>1, <2>2, <2>4
<1>4. ASSUME Run(s)
      PROVE  /\ SessionsOK' /\ LocksAlone'
             /\ \A t \in Session \ {s} : session'[t] = session[t]
  <2> DEFINE c == session[s].call
             i == session[s].done + 1
             r == [call |-> c, done |-> i]
  <2>1. /\ Busy(s) /\ i \in DOMAIN Rows(c)
        /\ \A t \in Session \ {s} : Rows(c)[i] \notin Holds(t)
        /\ \/ session' = [session EXCEPT ![s] = r]
           \/ session' = [session EXCEPT ![s] = IdleSession]
    BY <1>4 DEF Run, WaitsFor
  <2>2. CASE session' = [session EXCEPT ![s] = r]
    <3>1. c \in Call /\ c # NoCall /\ session[s].done \in Nat
      BY <2>1 DEF SessionsOK, SessionsTypeOK, Busy
    <3>2. i \in 0..Len(Rows(c)) /\ i \in 0..3
      <4>1. /\ DOMAIN Rows(c) = 1..Len(Rows(c))
            /\ Len(Rows(c)) \in 0..3
        BY <3>1, RowsOf DEF Function
      <4>2. i \in 1..Len(Rows(c))
        BY <2>1, <4>1
      <4>3. \A l \in 0..3 : \A k \in 1..l : k \in 0..l /\ k \in 0..3
        OBVIOUS
      <4> HIDE DEF i
      <4> QED
        BY <4>1, <4>2, <4>3
    <3>3. session'[s] = r
      BY <1>0, <2>2
    <3>4. Holds(s)' \subseteq Holds(s) \cup {Rows(c)[i]}
      <4>1. 1..i = 1..session[s].done \cup {i}
        BY <3>1
      <4>2. Holds(s)' = {Rows(c)[j] : j \in 1..i} \ {NoRow}
        BY <3>3 DEF Holds, Done
      <4> QED
        BY <4>1, <4>2 DEF Holds, Done
    <3>5. \A t \in Session \ {s} : Holds(s)' \cap Holds(t) = {}
      BY <2>1, <3>4 DEF LocksAlone
    <3>6. /\ r \in [call : Call \cup {NoCall}, done : 0..3]
          /\ r.call # NoCall /\ r.done \in 0..Len(Rows(r.call))
      BY <3>1, <3>2
    <3> QED
      BY <1>1, <2>2, <3>5, <3>6
  <2> QED
    BY <1>2, <2>1, <2>2
<1> QED
  BY <1>2, <1>3, <1>4 DEF SessionStep, Commit, Rollback

-----------------------------------------------------------------------------
\* The tables

\* A session at its last statement has passed every test of a row it locked, so
\* its commit is the function's step.
LEMMA CommitIsLocked ==
  ASSUME TransactionsInv, NEW s \in Session, Commit(s)
  PROVE  LockedFunctionStep
<1> DEFINE c == session[s].call
           d == c.distribution
           n == session[s].done
<1>1. /\ c \in Call /\ n = Len(Rows(c)) /\ Effect(c) /\ Passed(s)
  BY DEF Commit, TransactionsInv, SessionsOK, SessionsTypeOK, TestsPassed, Busy
<1>2. /\ d \in Distribution /\ c.participant \in Participant /\ c.amount \in Amount
      /\ c.key \in Key /\ c.reported \in Amount \cup {0} /\ c.settled \in Amount \cup {0}
      /\ c.function \in Function
  BY <1>1, RowsOf
<1>3. CASE c.function = "submit"
  <2>1. n = 3
    BY <1>1, <1>3, RowsOf
  <2>2. Submittable(d) /\ Submitted(d)
    BY <1>1, <1>3, <2>1 DEF Passed, PassedAt, Effect
  <2> QED
    BY <1>2, <2>2 DEF LockedFunctionStep
<1>4. CASE c.function = "approve"
  <2>1. n = 3
    BY <1>1, <1>4, RowsOf
  <2>2. /\ Approvable(d, c.participant, c.amount) /\ ApprovalFits(d, c.amount)
        /\ Approved(d, c.participant, c.amount)
    BY <1>1, <1>4, <2>1 DEF Passed, PassedAt, Effect
  <2> QED
    BY <1>2, <2>2 DEF LockedFunctionStep
<1>5. CASE c.function = "release"
  <2>1. n = 1
    BY <1>1, <1>5, RowsOf
  <2>2. Releasable(d) /\ Released(d)
    BY <1>1, <1>5, <2>1 DEF Passed, PassedAt, Effect
  <2> QED
    BY <1>2, <2>2 DEF LockedFunctionStep
<1>6. CASE c.function = "execute"
  <2>1. n = 3
    BY <1>1, <1>6, RowsOf
  <2>2. /\ Executable(d, c.participant) /\ PaymentUnique(d, c.key)
        /\ Executed(d, c.participant, c.key)
    BY <1>1, <1>6, <2>1 DEF Passed, PassedAt, Effect
  <2> QED
    BY <1>2, <2>2 DEF LockedFunctionStep
<1>7. CASE c.function = "confirm"
  <2>1. n = 2
    BY <1>1, <1>7, RowsOf
  <2>2. Settleable(d) /\ Settled(d)
    BY <1>1, <1>7, <2>1 DEF Passed, PassedAt, Effect
  <2> QED
    BY <1>2, <2>2 DEF LockedFunctionStep
<1>8. CASE c.function = "reconcile"
  <2>1. n = 3
    BY <1>1, <1>8, RowsOf
  <2>2. /\ Reconcilable(d, c.participant) /\ Unreconciled(d)
        /\ ReconciledBy(d, c.participant, c.reported, c.settled)
    BY <1>1, <1>8, <2>1 DEF Passed, PassedAt, Effect
  <2> QED
    BY <1>2, <2>2 DEF LockedFunctionStep
<1> QED
  BY <1>2, <1>3, <1>4, <1>5, <1>6, <1>7, <1>8 DEF Function

\* A commit writes rows that it has locked.  The payment that execute_payment
\* inserts has no row to lock before; its distribution's is locked instead.
CommitWrites(s) ==
    /\ \A e \in Distribution :
          distribution'[e] = distribution[e] \/ DistributionRow(e) \in Holds(s)
    /\ \A e \in Distribution :
          allocation'[AllocationOf[e]] = allocation[AllocationOf[e]]
             \/ AllocationRow(e) \in Holds(s)
    /\ \A e \in Distribution :
          reconciliation'[e] = reconciliation[e] \/ PaymentRow(e) \in Holds(s)
    /\ \A e \in Distribution :
          \/ payment'[e] = payment[e]
          \/ payment[e].status = "NONE" /\ DistributionRow(e) \in Holds(s)
          \/ payment[e].status # "NONE" /\ PaymentRow(e) \in Holds(s)
    /\ \A e \in Distribution :
          payment'[e].key = payment[e].key \/ KeyEntry(payment'[e].key) \in Holds(s)

LEMMA CommitWritesLocked ==
  ASSUME TransactionsInv, NEW s \in Session, Commit(s)
  PROVE  CommitWrites(s)
<1> DEFINE c == session[s].call
           d == c.distribution
           n == session[s].done
<1>1. /\ c \in Call /\ n = Len(Rows(c)) /\ Effect(c) /\ Passed(s) /\ Busy(s)
      /\ SessionsOK /\ TypeOK
  BY DEF Commit, TransactionsInv, SessionsOK, SessionsTypeOK, TestsPassed, Busy, PipelineInv
<1>2. d \in Distribution /\ c.function \in Function
  BY <1>1, RowsOf
<1>3. CASE c.function \in {"submit", "release"}
  <2>1. n >= 1 /\ DistributionRow(d) \in Holds(s)
    <3>1. n \in {1, 3}
      BY <1>1, <1>3, RowsOf
    <3> QED
      BY <1>1, <1>3, <3>1, LockedRows
  <2>2. Submitted(d) \/ Released(d)
    BY <1>1, <1>3 DEF Effect
  <2>3. \A e \in Distribution \ {d} : distribution'[e] = distribution[e]
    BY <1>1, <2>2 DEF Submitted, Released, TypeOK
  <2>4. UNCHANGED <<allocation, payment, reconciliation>>
    BY <2>2 DEF Submitted, Released
  <2> QED
    BY <2>1, <2>3, <2>4 DEF CommitWrites
<1>4. CASE c.function = "approve"
  <2>1. DistributionRow(d) \in Holds(s) /\ AllocationRow(d) \in Holds(s)
    <3>1. n = 3
      BY <1>1, <1>4, RowsOf
    <3> QED
      BY <1>1, <1>4, <3>1, LockedRows
  <2>2. Approved(d, c.participant, c.amount)
    BY <1>1, <1>4 DEF Effect
  <2>3. /\ \A e \in Distribution \ {d} : distribution'[e] = distribution[e]
        /\ \A a \in Allocation \ {AllocationOf[d]} : allocation'[a] = allocation[a]
        /\ UNCHANGED <<payment, reconciliation>>
    BY <1>1, <2>2 DEF Approved, TypeOK
  <2>4. \A e \in Distribution :
           allocation'[AllocationOf[e]] = allocation[AllocationOf[e]]
              \/ AllocationRow(e) \in Holds(s)
    BY <2>1, <2>3, ReferencesAssumption DEF AllocationRow
  <2> QED
    BY <2>1, <2>3, <2>4 DEF CommitWrites
<1>5. CASE c.function = "execute"
  <2>1. DistributionRow(d) \in Holds(s) /\ KeyEntry(c.key) \in Holds(s) /\ n = 3
    <3>1. n = 3
      BY <1>1, <1>5, RowsOf
    <3> QED
      BY <1>1, <1>5, <3>1, LockedRows
  <2>2. Executed(d, c.participant, c.key) /\ payment[d].status = "NONE"
    BY <1>1, <1>5, <2>1 DEF Effect, Passed, PassedAt, PaymentUnique
  <2>3. /\ \A e \in Distribution \ {d} : distribution'[e] = distribution[e]
                                       /\ payment'[e] = payment[e]
        /\ payment'[d].key = c.key
        /\ UNCHANGED <<allocation, reconciliation>>
    BY <1>1, <1>2, <2>2 DEF Executed, TypeOK
  <2> QED
    BY <2>1, <2>2, <2>3 DEF CommitWrites
<1>6. CASE c.function = "confirm"
  <2>1. DistributionRow(d) \in Holds(s) /\ PaymentRow(d) \in Holds(s) /\ n = 2
    <3>1. n = 2
      BY <1>1, <1>6, RowsOf
    <3> QED
      BY <1>1, <1>6, <3>1, LockedRows
  <2>2. Settled(d) /\ payment[d].status = "EXECUTED"
    BY <1>1, <1>6, <2>1 DEF Effect, Passed, PassedAt, Settleable
  <2>3. /\ \A e \in Distribution \ {d} : distribution'[e] = distribution[e]
                                       /\ payment'[e] = payment[e]
        /\ payment'[d] = [payment[d] EXCEPT !.status = "SETTLED"]
        /\ UNCHANGED <<allocation, reconciliation>>
    BY <1>1, <1>2, <2>2 DEF Settled, TypeOK
  <2>4. payment'[d].key = payment[d].key
    <3>1. payment[d] \in PaymentRecord
      BY <1>1, <1>2 DEF TypeOK
    <3> QED
      BY <2>3, <3>1 DEF PaymentRecord
  <2> QED
    BY <2>1, <2>2, <2>3, <2>4 DEF CommitWrites
<1>7. CASE c.function = "reconcile"
  <2>1. /\ DistributionRow(d) \in Holds(s) /\ PaymentRow(d) \in Holds(s)
        /\ AllocationRow(d) \in Holds(s)
    <3>1. n = 3
      BY <1>1, <1>7, RowsOf
    <3> QED
      BY <1>1, <1>7, <3>1, LockedRows
  <2>2. ReconciledBy(d, c.participant, c.reported, c.settled)
    BY <1>1, <1>7 DEF Effect
  <2>3. /\ \A e \in Distribution \ {d} : distribution'[e] = distribution[e]
                                       /\ reconciliation'[e] = reconciliation[e]
        /\ \A a \in Allocation \ {AllocationOf[d]} : allocation'[a] = allocation[a]
        /\ UNCHANGED payment
    BY <1>1, <2>2 DEF ReconciledBy, TypeOK
  <2>4. \A e \in Distribution :
           allocation'[AllocationOf[e]] = allocation[AllocationOf[e]]
              \/ AllocationRow(e) \in Holds(s)
    BY <2>1, <2>3, ReferencesAssumption DEF AllocationRow
  <2> QED
    BY <2>1, <2>3, <2>4 DEF CommitWrites
<1> QED
  BY <1>2, <1>3, <1>4, <1>5, <1>6, <1>7 DEF Function

\* The step leaves what t tested alone.
Undisturbed(t) ==
    LET c == session[t].call
        d == c.distribution
        n == session[t].done
    IN  /\ c.function \in {"submit", "approve", "release", "execute"} /\ n >= 1 =>
             distribution'[d] = distribution[d]
        /\ c.function \in {"submit", "approve"} /\ n >= 2 =>
             allocation'[AllocationOf[d]] = allocation[AllocationOf[d]]
        /\ c.function = "execute" /\ n >= 3 => PaymentUnique(d, c.key)'
        /\ c.function \in {"confirm", "reconcile"} /\ n >= 1 =>
             payment'[d] = payment[d] /\ reconciliation'[d] = reconciliation[d]
        /\ c.function = "reconcile" /\ n >= 3 =>
             allocation'[AllocationOf[d]] = allocation[AllocationOf[d]]

LEMMA UndisturbedPasses ==
  ASSUME SessionsOK, NEW t \in Session, Busy(t), Passed(t), Undisturbed(t),
         session'[t] = session[t]
  PROVE  Passed(t)'
<1> DEFINE c == session[t].call
           d == c.distribution
           n == session[t].done
<1>1. n \in Nat
  BY DEF SessionsOK, SessionsTypeOK
<1>2. /\ c.function = "submit" /\ n >= 1 => Submittable(d)'
      /\ c.function = "approve" /\ n >= 1 => Approvable(d, c.participant, c.amount)'
      /\ c.function = "release" /\ n >= 1 => Releasable(d)'
      /\ c.function = "execute" /\ n >= 1 => Executable(d, c.participant)'
  BY DEF Undisturbed, Passed, PassedAt, Submittable, Approvable, Releasable, Executable
<1>3. /\ c.function = "submit" /\ n >= 2 => RequestFits(d)'
      /\ c.function = "approve" /\ n >= 2 => ApprovalFits(d, c.amount)'
  BY <1>1 DEF Undisturbed, Passed, PassedAt, RequestFits, ApprovalFits, Uncommitted
<1>4. /\ c.function = "confirm" /\ n >= 1 => Settleable(d)'
      /\ c.function = "reconcile" /\ n >= 1 => Reconcilable(d, c.participant)'
  BY DEF Undisturbed, Passed, PassedAt, Settleable, Reconcilable
<1>5. c.function = "reconcile" /\ n >= 3 =>
        /\ Unreconciled(d)'
        /\ (Matches(d, c.reported, c.settled) => DisbursementFits(d))'
  BY <1>1 DEF Undisturbed, Passed, PassedAt, Unreconciled, Matches, DisbursementFits
<1>6. c.function = "execute" /\ n >= 3 => PaymentUnique(d, c.key)'
  BY DEF Undisturbed
<1>7. session'[t].call = c /\ session'[t].done = n
  OBVIOUS
<1> QED
  BY <1>2, <1>3, <1>4, <1>5, <1>6, <1>7 DEF Passed, PassedAt

\* What another session commits is not what t has locked.
LEMMA CommitLeavesOthers ==
  ASSUME TransactionsInv, NEW s \in Session, Commit(s), NEW t \in Session \ {s}, Busy(t)
  PROVE  Undisturbed(t)
<1> DEFINE c == session[t].call
           d == c.distribution
           n == session[t].done
<1>1. /\ SessionsOK /\ Passed(t) /\ c \in Call /\ Holds(s) \cap Holds(t) = {}
  BY DEF TransactionsInv, SessionsOK, SessionsTypeOK, TestsPassed, LocksAlone, Busy
<1>2. d \in Distribution
  BY <1>1, RowsOf
<1>3. CommitWrites(s)
  BY CommitWritesLocked
<1>4. c.function \in {"submit", "approve", "release", "execute"} /\ n >= 1 =>
        distribution'[d] = distribution[d]
  BY <1>1, <1>2, <1>3, LockedRows DEF CommitWrites
<1>5. \/ c.function \in {"submit", "approve"} /\ n >= 2
      \/ c.function = "reconcile" /\ n >= 3
      => allocation'[AllocationOf[d]] = allocation[AllocationOf[d]]
  BY <1>1, <1>2, <1>3, LockedRows DEF CommitWrites
<1>6. ASSUME c.function \in {"confirm", "reconcile"}, n >= 1
      PROVE  payment'[d] = payment[d] /\ reconciliation'[d] = reconciliation[d]
  <2>1. payment[d].status # "NONE"
    BY <1>1, <1>6 DEF Passed, PassedAt, Settleable, Reconcilable
  <2>2. PaymentRow(d) \notin Holds(s)
    BY <1>1, <1>6, LockedRows
  <2> QED
    BY <1>2, <1>3, <2>1, <2>2 DEF CommitWrites
<1>7. ASSUME c.function = "execute", n >= 3
      PROVE  PaymentUnique(d, c.key)'
  <2>1. n \in Nat /\ PaymentUnique(d, c.key) /\ session'[t] = session[t]
    BY <1>1, <1>7 DEF Passed, PassedAt, SessionsOK, SessionsTypeOK, Commit
  <2>2. DistributionRow(d) \notin Holds(s) /\ KeyEntry(c.key) \notin Holds(s)
    BY <1>1, <1>7, <2>1, LockedRows
  <2>3. payment'[d].status = "NONE"
    BY <1>2, <1>3, <2>1, <2>2 DEF CommitWrites, PaymentUnique
  <2>4. \A e \in Distribution : payment'[e].key # c.key
    BY <1>3, <2>1, <2>2 DEF CommitWrites, PaymentUnique
  <2> QED
    BY <2>1, <2>3, <2>4 DEF PaymentUnique
<1> QED
  BY <1>4, <1>5, <1>6, <1>7 DEF Undisturbed

\* Nor is what the service role writes: it waits for the locked allocation, and
\* inserts a distribution only where there was none.
LEMMA TableWriteLeavesAll ==
  ASSUME TransactionsInv, TableWrite, NEW t \in Session, Busy(t)
  PROVE  Undisturbed(t)
<1> DEFINE c == session[t].call
           d == c.distribution
           n == session[t].done
<1>1. /\ SessionsOK /\ Passed(t) /\ c \in Call /\ n \in Nat /\ TypeOK
      /\ session' = session
  BY DEF TransactionsInv, SessionsOK, SessionsTypeOK, TestsPassed, PipelineInv, Busy,
         TableWrite
<1>2. d \in Distribution /\ AllocationOf[d] \in Allocation
  BY <1>1, RowsOf, ReferencesAssumption
<1>3. c.function \in {"submit", "approve", "release", "execute"} /\ n >= 1 =>
        distribution[d].status # "NONE"
  BY <1>1 DEF Passed, PassedAt, Submittable, Approvable, Releasable, Executable
<1>4. \/ c.function \in {"submit", "approve"} /\ n >= 2
      \/ c.function = "reconcile" /\ n >= 3
      => Held(AllocationRow(d))
  BY <1>1, LockedRows DEF Held
<1>5. /\ UNCHANGED <<payment, reconciliation>>
      /\ distribution[d].status # "NONE" => distribution'[d] = distribution[d]
      /\ Held(AllocationRow(d)) =>
           allocation'[AllocationOf[d]] = allocation[AllocationOf[d]]
  <2>1. ASSUME NEW e \in Distribution, NEW p \in Participant, NEW m \in Amount,
               InsertDistribution(e, p, m)
        PROVE  /\ UNCHANGED <<payment, reconciliation, allocation>>
               /\ distribution[d].status # "NONE" => distribution'[d] = distribution[d]
    BY <1>1, <1>2, <2>1 DEF InsertDistribution, TypeOK
  <2>2. ASSUME NEW a \in Allocation, NEW v \in AllocationStatus,
               ~Held(<<"allocation", a>>), MoveAllocation(a, v)
        PROVE  /\ UNCHANGED <<payment, reconciliation, distribution>>
               /\ Held(AllocationRow(d)) =>
                    allocation'[AllocationOf[d]] = allocation[AllocationOf[d]]
    BY <1>1, <1>2, <2>2 DEF MoveAllocation, AllocationRow, TypeOK
  <2>3. ASSUME NEW b \in Contribution, NEW v \in ContributionStatus, MoveContribution(b, v)
        PROVE  UNCHANGED ledger
    BY <2>3 DEF MoveContribution
  <2>4. ASSUME NEW b \in Beneficiary, ReviewBeneficiary(b) \/ ReviewDestination(b)
        PROVE  UNCHANGED ledger
    BY <2>4 DEF ReviewBeneficiary, ReviewDestination
  <2> QED
    BY <2>1, <2>2, <2>3, <2>4 DEF TableWrite, ledger
<1>6. PaymentUnique(d, c.key) => PaymentUnique(d, c.key)'
  BY <1>1, <1>5 DEF PaymentUnique
<1> QED
  BY <1>1, <1>3, <1>4, <1>5, <1>6 DEF Undisturbed, Passed, PassedAt

\* Every step keeps the invariant, and does to the tables what a function does
\* that has passed the tests of its rows.
LEMMA TransactionsStep ==
  ASSUME TransactionsInv, [TransactionsNext]_transactionVars
  PROVE  TransactionsInv' /\ [LockedNext]_vars
<1>0. SessionsOK /\ LocksAlone /\ TestsPassed /\ PipelineInv
  BY DEF TransactionsInv
<1>1. ASSUME TableWrite PROVE TransactionsInv' /\ [LockedNext]_vars
  <2>1. session' = session /\ LockedNext
    BY <1>1 DEF TableWrite, LockedNext, ServiceRoleStep
  <2>2. SessionsOK' /\ LocksAlone'
    <3>1. \A t \in Session : Holds(t)' = Holds(t) /\ (Busy(t)' <=> Busy(t))
      BY <2>1, HoldsFrame
    <3>2. SessionsOK'
      BY <1>0, <2>1 DEF SessionsOK, SessionsTypeOK, Busy, Rows
    <3> QED
      BY <1>0, <3>1, <3>2 DEF LocksAlone
  <2>3. TestsPassed'
    BY <1>0, <1>1, <2>1, TableWriteLeavesAll, UndisturbedPasses, HoldsFrame DEF TestsPassed
  <2> QED
    BY <1>0, <2>1, <2>2, <2>3, PipelineStep DEF TransactionsInv
<1>2. ASSUME NEW s \in Session, SessionStep(s)
      PROVE  TransactionsInv' /\ [LockedNext]_vars
  <2>1. SessionsOK' /\ LocksAlone' /\ \A t \in Session \ {s} : session'[t] = session[t]
    BY <1>0, <1>2, SessionStepKeepsLocks
  <2>2. /\ \A t \in Session \ {s} : Busy(t) => Undisturbed(t)
        /\ [LockedNext]_vars
    <3>1. CASE Commit(s)
      BY <3>1, CommitLeavesOthers, CommitIsLocked DEF LockedNext
    <3>2. CASE UNCHANGED vars
      <4>1. ASSUME NEW t \in Session \ {s}, Busy(t) PROVE Undisturbed(t)
        BY <1>0, <2>1, <3>2, <4>1
           DEF Undisturbed, TestsPassed, Passed, PassedAt, PaymentUnique, vars, ledger
      <4> QED
        BY <3>2, <4>1
    <3> QED
      BY <1>2, <3>1, <3>2 DEF SessionStep, Begin, Run, Rollback
  <2>3. \A t \in Session \ {s} : Busy(t)' => Passed(t)'
    BY <1>0, <2>1, <2>2, UndisturbedPasses, HoldsFrame DEF TestsPassed
  <2>4. Busy(s)' => Passed(s)'
    <3>1. ASSUME NEW c \in Call, Begin(s, c) PROVE Passed(s)'
      <4>1. session'[s] = [call |-> c, done |-> 0]
        BY <1>0, <3>1 DEF Begin, SessionsOK, SessionsTypeOK
      <4> QED
        BY <4>1 DEF Passed, PassedAt
    <3>2. ASSUME Commit(s) \/ Rollback(s) PROVE ~Busy(s)'
      <4>1. session'[s] = IdleSession
        BY <1>0, <3>2 DEF Commit, Rollback, SessionsOK, SessionsTypeOK
      <4> QED
        BY <4>1, IdleHolds
    <3>3. ASSUME Run(s), Busy(s)' PROVE Passed(s)'
      <4>1. PICK c \in Call, n \in Nat : c = session[s].call /\ n = session[s].done
        BY <1>0, <3>3 DEF Run, SessionsOK, SessionsTypeOK, Busy
      <4>2. /\ session'[s] = IF Test(c, n + 1) THEN [call |-> c, done |-> n + 1]
                            ELSE IdleSession
            /\ n + 1 \in DOMAIN Rows(c) /\ UNCHANGED vars
        BY <1>0, <3>3, <4>1 DEF Run, SessionsOK, SessionsTypeOK
      <4>3. session'[s] = [call |-> c, done |-> n + 1] /\ Test(c, n + 1)
        BY <3>3, <4>2, IdleHolds
      <4>4. n \in 0..Len(Rows(c)) /\ n + 1 \in 0..Len(Rows(c))
        BY <4>1, <4>2, RowsOf DEF Function
      <4>5. PassedAt(c, n)
        BY <1>0, <3>3, <4>1 DEF TestsPassed, Passed, Run
      <4>6. \A j \in 1..n : Rows(c)[j] # NoRow => Test(c, j)
        BY <4>4, <4>5, PassedAreTests
      <4>7. \A j \in 1..(n + 1) : Rows(c)[j] # NoRow => Test(c, j)
        BY <4>3, <4>6
      <4>8. PassedAt(c, n + 1)
        BY <4>4, <4>7, PassedAreTests
      <4>9. PassedAt(c, n + 1)'
        BY <4>2, <4>8
           DEF PassedAt, Submittable, RequestFits, Approvable, ApprovalFits, Uncommitted,
               Releasable, Executable, PaymentUnique, Settleable, Reconcilable,
               Unreconciled, Matches, DisbursementFits, vars, ledger
      <4> QED
        BY <4>3, <4>9 DEF Passed
    <3> QED
      BY <1>2, <3>1, <3>2, <3>3 DEF SessionStep
  <2> QED
    BY <1>0, <2>1, <2>2, <2>3, <2>4, PipelineStep DEF TransactionsInv, TestsPassed
<1>3. CASE UNCHANGED transactionVars
  <2>1. UNCHANGED vars /\ session' = session
    BY <1>3 DEF transactionVars
  <2>2. \A t \in Session : Holds(t)' = Holds(t) /\ (Busy(t)' <=> Busy(t))
    BY <2>1, HoldsFrame
  <2>3. SessionsOK' /\ LocksAlone'
    <3>1. SessionsOK'
      BY <1>0, <2>1 DEF SessionsOK, SessionsTypeOK, Busy, Rows
    <3> QED
      BY <1>0, <2>2, <3>1 DEF LocksAlone
  <2>4. ASSUME NEW t \in Session, Busy(t) PROVE Undisturbed(t)
    BY <1>0, <2>1, <2>4 DEF Undisturbed, TestsPassed, Passed, PassedAt, PaymentUnique, vars, ledger
  <2>5. TestsPassed'
    BY <1>0, <2>1, <2>2, <2>4, UndisturbedPasses DEF TestsPassed
  <2> QED
    BY <1>0, <2>1, <2>3, <2>5, PipelineStep DEF TransactionsInv
<1> QED
  BY <1>1, <1>2, <1>3 DEF TransactionsNext

LEMMA TransactionsStart == TransactionsInit => TransactionsInv
<1> SUFFICES ASSUME TransactionsInit PROVE TransactionsInv
  OBVIOUS
<1>1. \A s \in Session : session[s] = IdleSession /\ ~Busy(s) /\ Holds(s) = {}
  BY DEF TransactionsInit, IdleSession, Busy, Holds, Done
<1>2. SessionsOK
  BY <1>1 DEF TransactionsInit, SessionsOK, SessionsTypeOK, IdleSession
<1> QED
  BY <1>1, <1>2, PipelineInit
     DEF TransactionsInit, TransactionsInv, LocksAlone, TestsPassed

LEMMA AlwaysTransactions == TransactionsSpec => []TransactionsInv /\ [][LockedNext]_vars
<1>1. TransactionsInv /\ [TransactionsNext]_transactionVars => TransactionsInv'
  BY TransactionsStep
<1>2. TransactionsInv /\ [TransactionsNext]_transactionVars => [LockedNext]_vars
  BY TransactionsStep
<1> QED
  BY <1>1, <1>2, TransactionsStart, PTL DEF TransactionsSpec

-----------------------------------------------------------------------------
\* Sessions do the statements of their calls, and are idle between calls.
THEOREM SessionsTypeCorrect == TransactionsSpec => []SessionsTypeOK
<1>1. TransactionsInv => SessionsTypeOK
  BY DEF TransactionsInv, SessionsOK
<1> QED
  BY <1>1, AlwaysTransactions, PTL

(***************************************************************************)
(* What a function tested of a row that it has locked still holds when it  *)
(* commits, whatever other sessions and the service role did meanwhile.    *)
(***************************************************************************)
THEOREM LocksKeepTests == TransactionsSpec => []LockedTestsHold
<1>1. TransactionsInv => LockedTestsHold
  BY PassedIsLocked DEF TransactionsInv
<1> QED
  BY <1>1, AlwaysTransactions, PTL

(***************************************************************************)
(* The functions grant and pay as the abstract lifecycle does also when    *)
(* their statements interleave and sessions are cut off anywhere.          *)
(***************************************************************************)
THEOREM SessionsKeepLifecycle == TransactionsSpec => ImplementsLifecycle
<1>1. TransactionsInit => Lifecycle!Init
  BY LifecycleInit DEF TransactionsInit
<1>2. TransactionsInv /\ [LockedNext]_vars =>
         [Lifecycle!Next]_<<[d \in Distribution |-> Phase(d)],
                            [d \in Distribution |-> distribution[d].approved]>>
  BY LifecycleNext DEF TransactionsInv, phaseMap, grantedMap
<1> QED
  BY <1>1, <1>2, AlwaysTransactions, PTL DEF TransactionsSpec, ImplementsLifecycle, Lifecycle!Spec

(***************************************************************************)
(* The duties of a payment stay with different people, its rows and the    *)
(* totals of its allocation agree, and settled money can be booked, also   *)
(* when the functions interleave.                                          *)
(***************************************************************************)
THEOREM SessionsKeepPipeline ==
  TransactionsSpec => [](/\ PipelineConsistent /\ DutiesSegregated
                         /\ CommitmentsAreApprovals /\ DisbursementsAreReconciliations
                         /\ SettledCanBeBooked)
<1>1. TransactionsInv =>
        /\ PipelineConsistent /\ DutiesSegregated
        /\ CommitmentsAreApprovals /\ DisbursementsAreReconciliations
        /\ SettledCanBeBooked
  <2> SUFFICES ASSUME TransactionsInv
               PROVE  /\ PipelineConsistent /\ DutiesSegregated
                      /\ CommitmentsAreApprovals /\ DisbursementsAreReconciliations
                      /\ SettledCanBeBooked
    OBVIOUS
  <2>1. PipelineInv
    BY DEF TransactionsInv
  <2>2. SettledCanBeBooked
    BY <2>1, BookedIsCommitted DEF SettledCanBeBooked
  <2> QED
    BY <2>1, <2>2
       DEF PipelineInv, RowsInv, RowInv, Totals, PipelineConsistent, DutiesSegregated
<1> QED
  BY <1>1, AlwaysTransactions, PTL DEF TransactionsSpec

(***************************************************************************)
(* The same when the functions interleave: two approvals never take one    *)
(* allocation past its authorization, and no session rewrites the history  *)
(* that another has written.                                               *)
(***************************************************************************)
THEOREM SessionsKeepHistory == TransactionsSpec => []AllocationsWithin /\ HistoryStands
<1>1. TransactionsInv /\ CommittedWithin => AllocationsWithin
  BY DisbursedIsCommitted DEF CommittedWithin, AllocationsWithin, TransactionsInv
<1>2. TransactionsInv /\ [LockedNext]_vars => \A d \in Distribution : HistoryKept(d)
  BY HistoryStep DEF TransactionsInv
<1>3. TransactionsInv /\ CommittedWithin /\ [LockedNext]_vars => CommittedWithin'
  BY WithinStep DEF TransactionsInv, PipelineInv
<1>4. TransactionsInit => CommittedWithin
  BY WithinStart DEF TransactionsInit
<1> QED
  BY <1>1, <1>2, <1>3, <1>4, AlwaysTransactions, PTL DEF TransactionsSpec, HistoryStands

-----------------------------------------------------------------------------
\* What a session read without a lock is still so: the beneficiary's standing
\* and destination, and the balance of the fund.
UnlockedTestsHold ==
    \A s \in Session : \A i \in Done(s) :
        Rows(session[s].call)[i] = NoRow => Test(session[s].call, i)

LEMMA FreshCommitIsStep ==
  ASSUME TransactionsInv, UnlockedTestsHold, NEW s \in Session, Commit(s)
  PROVE  FunctionStep
<1> DEFINE c == session[s].call
           d == c.distribution
           n == session[s].done
<1>1. /\ c \in Call /\ n = Len(Rows(c)) /\ Effect(c)
  BY DEF Commit, TransactionsInv, SessionsOK, SessionsTypeOK, Busy
<1>2. /\ d \in Distribution /\ c.participant \in Participant /\ c.amount \in Amount
      /\ c.key \in Key /\ c.reported \in Amount \cup {0} /\ c.settled \in Amount \cup {0}
      /\ c.function \in Function
  BY <1>1, RowsOf
<1>3. \A i \in 1..n : Test(c, i)
  <2>1. LockedTestsHold
    BY PassedIsLocked DEF TransactionsInv
  <2> QED
    BY <2>1 DEF LockedTestsHold, UnlockedTestsHold, Done
<1>4. CASE c.function = "submit"
  <2>1. n = 3
    BY <1>1, <1>4, RowsOf
  <2>2. SubmitTest(d, 1) /\ SubmitTest(d, 2) /\ SubmitTest(d, 3)
    BY <1>3, <1>4, <2>1 DEF Test
  <2>3. SubmitDistribution(d)
    BY <1>1, <1>4, <2>2 DEF SubmitTest, SubmitDistribution, Effect
  <2> QED
    BY <1>2, <2>3 DEF FunctionStep
<1>5. CASE c.function = "approve"
  <2>1. n = 3
    BY <1>1, <1>5, RowsOf
  <2>2. \A i \in 1..3 : ApproveTest(d, c.participant, c.amount, i)
    BY <1>3, <1>5, <2>1 DEF Test
  <2>3. ApproveDistribution(d, c.participant, c.amount)
    BY <1>1, <1>5, <2>2 DEF ApproveTest, ApproveDistribution, Effect
  <2> QED
    BY <1>2, <2>3 DEF FunctionStep
<1>6. CASE c.function = "release"
  <2>1. n = 1
    BY <1>1, <1>6, RowsOf
  <2>2. ReleaseToTreasury(d)
    BY <1>1, <1>3, <1>6, <2>1 DEF Test, ReleaseTest, ReleaseToTreasury, Effect
  <2> QED
    BY <1>2, <2>2 DEF FunctionStep
<1>7. CASE c.function = "execute"
  <2>1. n = 3
    BY <1>1, <1>7, RowsOf
  <2>2. \A i \in 1..3 : ExecuteTest(d, c.participant, c.key, i)
    BY <1>3, <1>7, <2>1 DEF Test
  <2>3. ExecutePayment(d, c.participant, c.key)
    BY <1>1, <1>7, <2>2 DEF ExecuteTest, ExecutePayment, Effect
  <2> QED
    BY <1>2, <2>3 DEF FunctionStep
<1>8. CASE c.function = "confirm"
  <2>1. n = 2
    BY <1>1, <1>8, RowsOf
  <2>2. ConfirmTest(d, 1)
    BY <1>3, <1>8, <2>1 DEF Test
  <2>3. ConfirmPaymentSettlement(d)
    BY <1>1, <1>8, <2>2 DEF ConfirmTest, ConfirmPaymentSettlement, Effect
  <2> QED
    BY <1>2, <2>3 DEF FunctionStep
<1>9. CASE c.function = "reconcile"
  <2>1. n = 3
    BY <1>1, <1>9, RowsOf
  <2>2. \A i \in 1..3 : ReconcileTest(d, c.participant, c.reported, c.settled, i)
    BY <1>3, <1>9, <2>1 DEF Test
  <2>3. CompleteReconciliation(d, c.participant, c.reported, c.settled)
    BY <1>1, <1>9, <2>2 DEF ReconcileTest, CompleteReconciliation, Effect
  <2> QED
    BY <1>2, <2>3 DEF FunctionStep
<1> QED
  BY <1>2, <1>4, <1>5, <1>6, <1>7, <1>8, <1>9 DEF Function

(***************************************************************************)
(* Statements that interleave behave as calls made one after another, each *)
(* at its commit, unless something read without a lock goes stale first:   *)
(* the row locks keep everything else.                                     *)
(***************************************************************************)
THEOREM FreshReadsSerialize == TransactionsSpec /\ []UnlockedTestsHold => Spec
<1>1. TransactionsInit => Init
  BY DEF TransactionsInit
<1>2. TransactionsInv /\ UnlockedTestsHold /\ [TransactionsNext]_transactionVars => [Next]_vars
  <2> SUFFICES ASSUME TransactionsInv, UnlockedTestsHold,
                      [TransactionsNext]_transactionVars
               PROVE  [Next]_vars
    OBVIOUS
  <2>1. ASSUME NEW s \in Session, SessionStep(s) PROVE [Next]_vars
    <3>1. CASE Commit(s)
      BY <3>1, FreshCommitIsStep DEF Next
    <3>2. CASE (\E c \in Call : Begin(s, c)) \/ Run(s) \/ Rollback(s)
      BY <3>2 DEF Begin, Run, Rollback
    <3> QED
      BY <2>1, <3>1, <3>2 DEF SessionStep
  <2>2. CASE TableWrite
    BY <2>2 DEF TableWrite, ServiceRoleStep, Next
  <2>3. CASE UNCHANGED transactionVars
    BY <2>3 DEF transactionVars
  <2> QED
    BY <2>1, <2>2, <2>3 DEF TransactionsNext
<1> QED
  BY <1>1, <1>2, AlwaysTransactions, PTL DEF TransactionsSpec, Spec

-----------------------------------------------------------------------------
\* Waits

\* Where a row comes in the order of the locks.
LockRank(row) ==
    IF row[1] = "payment" THEN 1 ELSE IF row[1] = "distribution" THEN 2 ELSE 3

LEMMA RowsAscend ==
  ASSUME NEW c \in Call, NEW i \in DOMAIN Rows(c), NEW j \in DOMAIN Rows(c), j < i,
         Rows(c)[i] # NoRow, Rows(c)[j] # NoRow
  PROVE  LockRank(Rows(c)[j]) < LockRank(Rows(c)[i])
<1> DEFINE d == c.distribution
<1>1. /\ LockRank(PaymentRow(d)) = 1
      /\ LockRank(DistributionRow(d)) = 2
      /\ LockRank(AllocationRow(d)) = 3
      /\ LockRank(KeyEntry(c.key)) = 3
  BY DEF LockRank, PaymentRow, DistributionRow, AllocationRow, KeyEntry
<1> QED
  BY <1>1, RowsOf DEF Function

\* Who waits for one that waits itself wants a row that comes earlier.
LEMMA WaitsAscend ==
  ASSUME SessionsOK, NEW s \in Session, NEW t \in Session, NEW u \in Session,
         WaitsFor(s, t), WaitsFor(t, u),
         NEW w, w = Rows(session[s].call)[session[s].done + 1],
         NEW x, x = Rows(session[t].call)[session[t].done + 1]
  PROVE  LockRank(w) < LockRank(x)
<1> DEFINE c == session[t].call
           n == session[t].done
<1>1. c \in Call /\ n \in Nat /\ n + 1 \in DOMAIN Rows(c)
  BY DEF SessionsOK, SessionsTypeOK, WaitsFor, Busy
<1>2. w \in Holds(t) /\ x \in Holds(u)
  BY DEF WaitsFor
<1>3. w # NoRow /\ x # NoRow
  BY <1>2 DEF Holds
<1>4. PICK j \in 1..n : w = Rows(c)[j]
  BY <1>2 DEF Holds, Done
<1>5. j \in DOMAIN Rows(c) /\ j < n + 1
  BY <1>1, <1>4, RowsOf DEF Function
<1> QED
  BY <1>1, <1>3, <1>4, <1>5, RowsAscend

(***************************************************************************)
(* However many sessions run the functions, no set of them waits in a      *)
(* circle: each wait in a chain of waits is for a later kind of row, and   *)
(* there are three kinds.                                                  *)
(***************************************************************************)
THEOREM SessionsNeverDeadlock == TransactionsSpec => []NoDeadlock
<1>1. SessionsOK => NoDeadlock
  <2> SUFFICES ASSUME SessionsOK, NEW S \in SUBSET Session, S # {},
                      \A s \in S : \E t \in S : WaitsFor(s, t)
               PROVE  FALSE
    BY DEF NoDeadlock
  <2> DEFINE rank(s) == LockRank(Rows(session[s].call)[session[s].done + 1])
  <2>1. \A s, t, u \in S : WaitsFor(s, t) /\ WaitsFor(t, u) => rank(s) < rank(t)
    BY WaitsAscend
  <2>2. \A s \in S : rank(s) \in 1..3
    BY DEF LockRank
  <2> HIDE DEF rank
  <2>3. PICK s \in S : TRUE
    OBVIOUS
  <2>4. PICK t \in S : WaitsFor(s, t)
    OBVIOUS
  <2>5. PICK u \in S : WaitsFor(t, u)
    OBVIOUS
  <2>6. PICK v \in S : WaitsFor(u, v)
    OBVIOUS
  <2>7. PICK x \in S : WaitsFor(v, x)
    OBVIOUS
  <2>8. rank(s) < rank(t) /\ rank(t) < rank(u) /\ rank(u) < rank(v)
    BY <2>1, <2>4, <2>5, <2>6, <2>7
  <2> QED
    BY <2>2, <2>8
<1>2. TransactionsInv => SessionsOK
  BY DEF TransactionsInv
<1> QED
  BY <1>1, <1>2, AlwaysTransactions, PTL

-----------------------------------------------------------------------------
\* What becomes of the balance that is read without a lock

\* The session has read the balance of the fund of a, and is to commit n to it.
AtBalance(s, a, n) ==
    /\ Busy(s)
    /\ session[s].call.function = "approve"
    /\ session[s].done = 3
    /\ AllocationOf[session[s].call.distribution] = a
    /\ session[s].call.amount = n

\* A session at the balance has locked the row of its allocation.
LEMMA BalanceLocks ==
  ASSUME SessionsOK, NEW s \in Session, NEW a, NEW n, AtBalance(s, a, n)
  PROVE  /\ a \in Allocation /\ n \in Amount /\ n \in Nat
         /\ <<"allocation", a>> \in Holds(s)
<1>1. session[s].call \in Call
  BY DEF SessionsOK, SessionsTypeOK, AtBalance, Busy
<1>2. /\ session[s].call.distribution \in Distribution
      /\ session[s].call.amount \in Amount
  BY <1>1, RowsOf
<1>3. AllocationRow(session[s].call.distribution) \in Holds(s)
  BY <1>1, LockedRows DEF AtBalance
<1> QED
  BY <1>2, <1>3, ReferencesAssumption, AmountsAssumption DEF AtBalance, AllocationRow

\* A step commits no approval, and whoever comes to the balance has found the
\* fund to cover it; or one at the balance commits, and the others stay.
ReadsBalance ==
    /\ QuietForFunds
    /\ \A t \in Session, a \in Allocation, n \in Amount :
          AtBalance(t, a, n)' => \/ AtBalance(t, a, n)
                                 \/ UNCHANGED vars /\ FundCovers(a, n)

CommitsApproval(s, d, p, n) ==
    /\ AtBalance(s, AllocationOf[d], n)
    /\ Approved(d, p, n)
    /\ \A t \in Session, a \in Allocation, m \in Amount :
          AtBalance(t, a, m)' => t # s /\ AtBalance(t, a, m)

BalanceStep ==
    \/ ReadsBalance
    \/ \E s \in Session, d \in Distribution, p \in Participant, n \in Amount :
          CommitsApproval(s, d, p, n)

LEMMA EveryBalanceStep ==
  ASSUME MovesFinal, TransactionsInv, [TransactionsNext]_transactionVars
  PROVE  BalanceStep
<1>0. SessionsOK /\ LocksAlone /\ TypeOK
  BY DEF TransactionsInv, PipelineInv
<1>1. ASSUME NEW t \in Session, NEW a, NEW n, AtBalance(t, a, n)', session'[t] = session[t]
      PROVE  AtBalance(t, a, n)
  BY <1>1 DEF AtBalance, Busy
<1>2. CASE TableWrite \/ UNCHANGED transactionVars
  <2>1. session' = session /\ (ServiceRoleStep \/ UNCHANGED vars)
    BY <1>2 DEF TableWrite, ServiceRoleStep, transactionVars
  <2>2. QuietForFunds
    BY <1>0, <2>1, OthersAreQuiet
  <2> QED
    BY <1>1, <2>1, <2>2 DEF BalanceStep, ReadsBalance
<1>3. ASSUME NEW s \in Session, SessionStep(s) PROVE BalanceStep
  <2>1. \A t \in Session \ {s} : session'[t] = session[t]
    BY <1>0, <1>3, SessionStepKeepsLocks
  <2>2. ASSUME session'[s] = IdleSession PROVE \A a, n : ~AtBalance(s, a, n)'
    BY <2>2, IdleHolds DEF AtBalance
  <2>3. session \in [Session -> [call : Call \cup {NoCall}, done : 0..3]]
    BY <1>0 DEF SessionsOK, SessionsTypeOK
  <2>4. UNCHANGED vars => QuietForFunds
    BY <1>0, OthersAreQuiet
  <2>5. ASSUME NEW c \in Call, Begin(s, c) PROVE BalanceStep
    <3>1. session'[s].done = 0 /\ UNCHANGED vars
      BY <2>3, <2>5 DEF Begin
    <3>2. \A a, n : ~AtBalance(s, a, n)'
      BY <3>1 DEF AtBalance
    <3> QED
      BY <1>1, <2>1, <2>4, <3>1, <3>2 DEF BalanceStep, ReadsBalance
  <2>6. ASSUME Rollback(s) PROVE BalanceStep
    <3>1. session'[s] = IdleSession /\ UNCHANGED vars
      BY <2>3, <2>6 DEF Rollback
    <3> QED
      BY <1>1, <2>1, <2>2, <2>4, <3>1 DEF BalanceStep, ReadsBalance
  <2>7. ASSUME Run(s) PROVE BalanceStep
    <3>1. UNCHANGED vars /\ Busy(s)
      BY <2>7 DEF Run
    <3>2. ASSUME NEW a, NEW m, AtBalance(s, a, m)' PROVE FundCovers(a, m)
      <4>1. PICK c \in Call, n \in Nat : c = session[s].call /\ n = session[s].done
        BY <1>0, <3>1 DEF SessionsOK, SessionsTypeOK, Busy
      <4>2. session'[s] = IF Test(c, n + 1) THEN [call |-> c, done |-> n + 1]
                          ELSE IdleSession
        BY <2>3, <2>7, <4>1 DEF Run
      <4>3. Test(c, n + 1) /\ session'[s] = [call |-> c, done |-> n + 1]
        BY <2>2, <3>2, <4>2
      <4>4. n + 1 = 3 /\ c.function = "approve" /\ AllocationOf[c.distribution] = a
            /\ c.amount = m
        BY <3>2, <4>3 DEF AtBalance
      <4> QED
        BY <4>3, <4>4 DEF Test, ApproveTest
    <3> QED
      BY <1>1, <2>1, <2>4, <3>1, <3>2 DEF BalanceStep, ReadsBalance
  <2>8. ASSUME Commit(s) PROVE BalanceStep
    <3>1. session'[s] = IdleSession
      BY <2>3, <2>8 DEF Commit
    <3>2. \A t \in Session : \A a, n : AtBalance(t, a, n)' => t # s /\ AtBalance(t, a, n)
      BY <1>1, <2>1, <2>2, <3>1
    <3>3. PICK c \in Call : /\ c = session[s].call /\ Effect(c) /\ Busy(s)
                            /\ session[s].done = Len(Rows(c))
      BY <1>0, <2>8 DEF Commit, SessionsOK, SessionsTypeOK, Busy
    <3>4. /\ c.distribution \in Distribution /\ c.participant \in Participant
          /\ c.amount \in Amount /\ c.key \in Key
          /\ c.reported \in Amount \cup {0} /\ c.settled \in Amount \cup {0}
      BY RowsOf
    <3>5. CASE c.function = "approve"
      <4>1. AtBalance(s, AllocationOf[c.distribution], c.amount)
        BY <3>3, <3>5, RowsOf DEF AtBalance
      <4>2. Approved(c.distribution, c.participant, c.amount)
        BY <3>3, <3>5 DEF Effect
      <4> QED
        BY <3>2, <3>4, <4>1, <4>2 DEF BalanceStep, CommitsApproval
    <3>6. CASE c.function # "approve"
      <4>1. QuietForFunds
        BY <1>0, <3>3, <3>4, <3>6, OthersAreQuiet DEF Effect
      <4> QED
        BY <3>2, <4>1 DEF BalanceStep, ReadsBalance
    <3> QED
      BY <3>5, <3>6
  <2> QED
    BY <1>3, <2>5, <2>6, <2>7, <2>8 DEF SessionStep
<1> QED
  BY <1>2, <1>3 DEF TransactionsNext

\* Nobody reads the balance of a fund that another has read and is to commit to.
BalancesReadApart ==
    \A s, t \in Session, a, b \in Allocation, m, n \in Amount :
        AtBalance(s, a, m) /\ AtBalance(t, b, n) /\ FundOf[a] = FundOf[b] => s = t

\* The room n leaves in a fund that is live.
RoomFor(a, n) ==
    LiveFund(FundOf[a]) => CommittedBy(AllocationsOf(FundOf[a])) + n <= Received(FundOf[a])

\* What a session has read of its fund still covers its approval.
BalancesCover ==
    \A s \in Session, a \in Allocation, n \in Amount : AtBalance(s, a, n) => RoomFor(a, n)

LEMMA QuietKeepsRoom ==
  ASSUME TypeOK, TypeOK', QuietForFunds, NEW a \in Allocation, NEW n \in Nat, RoomFor(a, n)
  PROVE  RoomFor(a, n)'
<1>1. PICK f \in Fund : f = FundOf[a]
  BY ReferencesAssumption
<1>2. SUFFICES ASSUME LiveFund(f)' PROVE CommittedBy(AllocationsOf(f))' + n <= Received(f)'
  BY <1>1 DEF RoomFor
<1>3. /\ LiveFund(f)
      /\ CommittedBy(AllocationsOf(f))' = CommittedBy(AllocationsOf(f))
      /\ CommittedBy(AllocationsOf(f)) \in Int
      /\ Received(f) \in Int /\ Received(f)' \in Int /\ Received(f) <= Received(f)'
  BY <1>2, QuietFund
<1> QED
  BY <1>1, <1>3 DEF RoomFor

\* As long as no two approvals meet at one fund, its balance is as good as locked.
LEMMA BalancesCoverStep ==
  ASSUME TransactionsInv, TypeOK', BalanceStep, BalancesReadApart, FundSolvent, BalancesCover
  PROVE  FundSolvent' /\ BalancesCover'
<1>0. SessionsOK /\ TypeOK
  BY DEF TransactionsInv, PipelineInv
<1>1. CASE ReadsBalance
  <2>1. FundSolvent'
    BY <1>0, <1>1, QuietKeepsSolvency DEF ReadsBalance
  <2>2. ASSUME NEW t \in Session, NEW a \in Allocation, NEW n \in Amount, AtBalance(t, a, n)'
        PROVE  RoomFor(a, n)'
    <3>1. n \in Nat
      BY AmountsAssumption
    <3>2. RoomFor(a, n)
      <4>1. CASE AtBalance(t, a, n)
        BY <4>1 DEF BalancesCover
      <4>2. CASE FundCovers(a, n)
        BY <1>0, <3>1, <4>2, CoverLeavesRoom DEF RoomFor
      <4> QED
        BY <1>1, <2>2, <4>1, <4>2 DEF ReadsBalance
    <3> QED
      BY <1>0, <1>1, <3>1, <3>2, QuietKeepsRoom DEF ReadsBalance
  <2> QED
    BY <2>1, <2>2 DEF BalancesCover
<1>2. ASSUME NEW s \in Session, NEW d \in Distribution, NEW p \in Participant,
             NEW n \in Amount, CommitsApproval(s, d, p, n)
      PROVE  FundSolvent' /\ BalancesCover'
  <2>1. PICK x \in Allocation : x = AllocationOf[d]
    BY ReferencesAssumption
  <2>2. AtBalance(s, x, n) /\ Approved(d, p, n) /\ RoomFor(x, n)
    BY <1>2, <2>1 DEF CommitsApproval, BalancesCover
  <2>3. FundSolvent'
    BY <1>0, <2>1, <2>2, ApprovalKeepsSolvency DEF RoomFor
  <2>4. ASSUME NEW t \in Session, NEW a \in Allocation, NEW m \in Amount, AtBalance(t, a, m)'
        PROVE  RoomFor(a, m)'
    <3>1. t # s /\ AtBalance(t, a, m)
      BY <1>2, <2>4 DEF CommitsApproval
    <3>2. PICK f \in Fund : f = FundOf[a]
      BY ReferencesAssumption
    <3>3. f # FundOf[x]
      BY <2>2, <3>1, <3>2 DEF BalancesReadApart
    <3>4. /\ Received(f)' = Received(f)
          /\ LiveFund(f)' <=> LiveFund(f)
          /\ CommittedBy(AllocationsOf(f))' = CommittedBy(AllocationsOf(f)) + 0
      BY <1>0, <2>1, <2>2, <3>3, ApprovalAdds
    <3>5. RoomFor(a, m) /\ m \in Nat /\ CommittedBy(AllocationsOf(f)) \in Int
      BY <1>0, <3>1, AmountsAssumption, FundAmounts DEF BalancesCover
    <3> QED
      BY <3>2, <3>4, <3>5 DEF RoomFor
  <2> QED
    BY <2>3, <2>4 DEF BalancesCover
<1> QED
  BY <1>1, <1>2 DEF BalanceStep

LEMMA NobodyAtBalance ==
  TransactionsInit => \A s \in Session : \A a, n : ~AtBalance(s, a, n)
BY DEF TransactionsInit, AtBalance, IdleSession

(***************************************************************************)
(* The unlocked read of the balance is the only way to overcommit a fund:  *)
(* unless two approvals have both read the balance of one fund before      *)
(* either commits, a live fund keeps within its receipts.                  *)
(***************************************************************************)
THEOREM SkewAloneOvercommits ==
  ASSUME MovesFinal
  PROVE  TransactionsSpec /\ []BalancesReadApart => []FundSolvent
<1>1. TransactionsInit => FundSolvent /\ BalancesCover
  BY FundsStart, NobodyAtBalance DEF TransactionsInit, BalancesCover
<1>2. /\ TransactionsInv /\ TransactionsInv' /\ BalancesReadApart
      /\ FundSolvent /\ BalancesCover /\ [TransactionsNext]_transactionVars
      => FundSolvent' /\ BalancesCover'
  <2>1. TransactionsInv' => TypeOK'
    BY DEF TransactionsInv, PipelineInv
  <2> QED
    BY <2>1, EveryBalanceStep, BalancesCoverStep
<1> QED
  BY <1>1, <1>2, AlwaysTransactions, PTL DEF TransactionsSpec

(***************************************************************************)
(* Where every fund has one allocation, the lock on the allocation's row   *)
(* serves as one on the fund, and no fund is overcommitted.                *)
(***************************************************************************)
THEOREM LoneAllocationsStaySolvent ==
  ASSUME MovesFinal, \A a, b \in Allocation : FundOf[a] = FundOf[b] => a = b
  PROVE  TransactionsSpec => []FundSolvent
<1>1. TransactionsInv => BalancesReadApart
  <2> SUFFICES ASSUME TransactionsInv,
                      NEW s \in Session, NEW t \in Session, s # t,
                      NEW a \in Allocation, NEW b \in Allocation,
                      NEW m \in Amount, NEW n \in Amount,
                      AtBalance(s, a, m), AtBalance(t, b, n), FundOf[a] = FundOf[b]
               PROVE  FALSE
    BY DEF BalancesReadApart
  <2>1. SessionsOK /\ LocksAlone
    BY DEF TransactionsInv
  <2>2. <<"allocation", a>> \in Holds(s) \cap Holds(t)
    <3>1. a = b
      OBVIOUS
    <3> QED
      BY <2>1, <3>1, BalanceLocks
  <2> QED
    BY <2>1, <2>2 DEF LocksAlone
<1> QED
  BY <1>1, AlwaysTransactions, SkewAloneOvercommits, PTL
-----------------------------------------------------------------------------
\* An allocation that is live, of a fund with no reversal, could commit n more
\* and stay within what the fund received.
Funded(a, n) ==
    /\ Unreversed(FundOf[a])
    /\ allocation[a].status \in {"ACTIVE", "SUSPENDED"}
    => allocation[a].committed + n <= Received(FundOf[a])

EachAllocationFunded == \A a \in Allocation : Funded(a, 0)

ApprovalsFunded ==
    \A s \in Session, a \in Allocation, n \in Amount : AtBalance(s, a, n) => Funded(a, n)

LEMMA QuietKeepsFunded ==
  ASSUME TypeOK, TypeOK', QuietForFunds, NEW a \in Allocation, NEW n \in Nat, Funded(a, n)
  PROVE  Funded(a, n)'
<1>1. PICK f \in Fund : f = FundOf[a]
  BY ReferencesAssumption
<1>2. SUFFICES ASSUME Unreversed(f)', allocation'[a].status \in {"ACTIVE", "SUSPENDED"}
               PROVE  allocation'[a].committed + n <= Received(f)'
  BY <1>1 DEF Funded
<1>3. /\ Unreversed(f)
      /\ Received(f) \in Int /\ Received(f)' \in Int /\ Received(f) <= Received(f)'
  BY <1>2, QuietReceipts
<1>4. /\ allocation[a].status \in {"ACTIVE", "SUSPENDED"}
      /\ allocation'[a].committed = allocation[a].committed
      /\ allocation[a].committed \in Nat
  BY <1>2, AmountsOfRows DEF QuietForFunds
<1> QED
  BY <1>1, <1>3, <1>4 DEF Funded

\* The commitment of a live allocation is part of what the balance counts.
LEMMA CoverFunds ==
  ASSUME TypeOK, NEW a \in Allocation, NEW n \in Nat, FundCovers(a, n)
  PROVE  Funded(a, n)
<1> SUFFICES ASSUME allocation[a].status \in {"ACTIVE", "SUSPENDED"}
             PROVE  allocation[a].committed + n <= Received(FundOf[a])
  BY DEF Funded
<1> DEFINE f == FundOf[a]
           S == {b \in AllocationsOf(f) : allocation[b].status \in {"ACTIVE", "SUSPENDED"}}
           h == [b \in S |-> allocation[b].committed]
           g == [b \in {a} |-> allocation[b].committed]
           z == [b \in {} |-> 0]
<1>1. f \in Fund /\ Received(f) \in Int /\ allocation[a].committed \in Nat
  BY ReferencesAssumption, FundAmounts, AmountsOfRows
<1>2. allocation[a].committed + n <= Received(f) - SumFunction(h) + allocation[a].committed
  BY DEF FundCovers, FundAvailable, CommittedBy
<1>3. /\ IsFiniteSet(DOMAIN h) /\ \A b \in DOMAIN h : h[b] \in Int /\ h[b] >= 0
      /\ DOMAIN g \subseteq DOMAIN h /\ \A b \in DOMAIN g : g[b] = h[b]
  BY <1>1, AmountsOfRows DEF AllocationsOf
<1>4. /\ IsFiniteSet(DOMAIN z) /\ DOMAIN z = {} /\ DOMAIN g = {a}
      /\ g[a] = allocation[a].committed /\ g[a] \in Int
  BY <1>1, FS_EmptySet
<1> HIDE DEF g, h, z
<1>5. SumFunction(g) = allocation[a].committed
  <2>1. SumFunction(g) = SumFunction(z) + g[a]
    BY <1>4, SumOfAdded
  <2> QED
    BY <1>1, <1>4, <2>1, SumOfNone
<1>6. SumFunction(h) \in Int /\ SumFunction(g) <= SumFunction(h)
  BY <1>3, SumOfPart, SumOfType
<1> QED
  BY <1>1, <1>2, <1>5, <1>6

LEMMA ApprovalsFundedStep ==
  ASSUME TransactionsInv, TypeOK', BalanceStep, EachAllocationFunded, ApprovalsFunded
  PROVE  EachAllocationFunded' /\ ApprovalsFunded'
<1>0. SessionsOK /\ LocksAlone /\ TypeOK
  BY DEF TransactionsInv, PipelineInv
<1>1. CASE ReadsBalance
  <2>1. EachAllocationFunded'
    BY <1>0, <1>1, QuietKeepsFunded DEF ReadsBalance, EachAllocationFunded
  <2>2. ASSUME NEW t \in Session, NEW a \in Allocation, NEW n \in Amount, AtBalance(t, a, n)'
        PROVE  Funded(a, n)'
    <3>1. n \in Nat
      BY AmountsAssumption
    <3>2. Funded(a, n)
      BY <1>0, <1>1, <2>2, <3>1, CoverFunds DEF ReadsBalance, ApprovalsFunded
    <3> QED
      BY <1>0, <1>1, <3>1, <3>2, QuietKeepsFunded DEF ReadsBalance
  <2> QED
    BY <2>1, <2>2 DEF ApprovalsFunded
<1>2. ASSUME NEW s \in Session, NEW d \in Distribution, NEW p \in Participant,
             NEW n \in Amount, CommitsApproval(s, d, p, n)
      PROVE  EachAllocationFunded' /\ ApprovalsFunded'
  <2>1. PICK x \in Allocation : x = AllocationOf[d]
    BY ReferencesAssumption
  <2>2. AtBalance(s, x, n) /\ Approved(d, p, n) /\ Funded(x, n) /\ n \in Nat
    BY <1>2, <2>1, AmountsAssumption DEF CommitsApproval, ApprovalsFunded
  <2>3. \A a \in Allocation :
           /\ allocation'[a].status = allocation[a].status
           /\ allocation'[a].committed = allocation[a].committed + IF a = x THEN n ELSE 0
           /\ allocation[a].committed \in Nat
           /\ Received(FundOf[a])' = Received(FundOf[a])
    BY <1>0, <2>1, <2>2, ApprovalAdds, AmountsOfRows, ReferencesAssumption
  <2>4. \A f \in Fund : Unreversed(f)' <=> Unreversed(f)
    BY <2>2 DEF Approved, reference, Unreversed
  <2>5. ASSUME NEW a \in Allocation, NEW m \in Nat, a # x, Funded(a, m) PROVE Funded(a, m)'
    BY <2>3, <2>4, <2>5, ReferencesAssumption DEF Funded
  <2>6. Funded(x, 0)'
    BY <2>2, <2>3, <2>4, ReferencesAssumption DEF Funded
  <2>7. EachAllocationFunded'
    BY <2>5, <2>6 DEF EachAllocationFunded
  <2>8. ASSUME NEW t \in Session, NEW a \in Allocation, NEW m \in Amount, AtBalance(t, a, m)'
        PROVE  Funded(a, m)'
    <3>1. t # s /\ AtBalance(t, a, m)
      BY <1>2, <2>8 DEF CommitsApproval
    <3>2. a # x
      <4>1. <<"allocation", a>> \in Holds(t) /\ <<"allocation", x>> \in Holds(s)
        BY <1>0, <2>2, <3>1, BalanceLocks
      <4>2. Holds(t) \cap Holds(s) = {}
        BY <1>0, <3>1 DEF LocksAlone
      <4> QED
        BY <4>1, <4>2
    <3> QED
      BY <2>5, <3>1, <3>2, AmountsAssumption DEF ApprovalsFunded
  <2> QED
    BY <2>7, <2>8 DEF ApprovalsFunded
<1> QED
  BY <1>1, <1>2 DEF BalanceStep

(***************************************************************************)
(* Whatever balances go stale, no single allocation that is live commits   *)
(* more than its fund received: approvals of one allocation wait for its   *)
(* row, so each is held against the others.  What the skew can do is add   *)
(* several allocations, each of them covered, to more than the fund has.   *)
(***************************************************************************)
THEOREM EachAllocationStaysFunded ==
  ASSUME MovesFinal
  PROVE  TransactionsSpec => []EachAllocationFunded
<1>1. TransactionsInit => EachAllocationFunded /\ ApprovalsFunded
  <2> SUFFICES ASSUME TransactionsInit, NEW a \in Allocation PROVE Funded(a, 0)
    BY NobodyAtBalance DEF EachAllocationFunded, ApprovalsFunded
  <2>1. allocation[a].committed = 0 /\ ReceivedRows(FundOf[a]) = {}
    BY DEF TransactionsInit, Init, ReceivedRows
  <2>2. Received(FundOf[a]) = 0
    BY <2>1, SumEmpty DEF Received, ReceivedRows
  <2> QED
    BY <2>1, <2>2 DEF Funded
<1>2. /\ TransactionsInv /\ TransactionsInv' /\ EachAllocationFunded /\ ApprovalsFunded
      /\ [TransactionsNext]_transactionVars
      => EachAllocationFunded' /\ ApprovalsFunded'
  <2>1. TransactionsInv' => TypeOK'
    BY DEF TransactionsInv, PipelineInv
  <2> QED
    BY <2>1, EveryBalanceStep, ApprovalsFundedStep
<1> QED
  BY <1>1, <1>2, AlwaysTransactions, PTL DEF TransactionsSpec

=============================================================================
