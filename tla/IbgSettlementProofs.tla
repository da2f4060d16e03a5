------------------------- MODULE IbgSettlementProofs -------------------------
(***************************************************************************)
(* Proofs about IbgSettlement, for any number of payments, observations,   *)
(* reconciliations and approvers.                                          *)
(***************************************************************************)
EXTENDS IbgSettlement, FiniteSetTheorems, TLAPS

(***************************************************************************)
(* What the triggers tested of a row, whether it is committed or still the *)
(* new version of an open UPDATE.                                          *)
(***************************************************************************)
ApprovedRow(p, row) ==
    row # Absent /\ row.state \in Advanced =>
        /\ Cardinality(ApprovalsOf(p)) >= row.required
        /\ row.compliance = "CLEAR"

Completed(p) == payment[p] # Absent /\ payment[p].state = "COMPLETED"

SupportedRow(row) ==
    row # Absent /\ row.state \in Reconciled =>
        /\ Completed(row.payment)
        /\ row.money = ObservedMoney[row.observation]

EndorsedRow(r, row) ==
    row # Absent /\ row.state = "FINAL" =>
        /\ Cardinality(EndorsementsOf(r)) >= 2
        /\ ObservedStatus[row.observation] = "OBSERVED"

(***************************************************************************)
(* The approval tables are finite, so that their counts mean something;    *)
(* approvals, matches and endorsements refer to rows that exist, so that   *)
(* no row is inserted as approved or FINAL; and the newest event of a      *)
(* final row made it so.                                                   *)
(***************************************************************************)
Tables ==
    /\ IsFiniteSet(approvals)
    /\ IsFiniteSet(endorsements)
    /\ \A a \in approvals : payment[a.payment] # Absent
    /\ \A a \in endorsements : reconciliation[a.reconciliation] # Absent
    /\ \A o \in Observation, p \in Payment : match[<<o, p>>] # Absent => payment[p] # Absent

PaymentsTested ==
    \A p \in Payment : ApprovedRow(p, payment[p]) /\ ApprovedRow(p, paying[p])

Supported ==
    \A r \in Reconciliation : SupportedRow(reconciliation[r]) /\ SupportedRow(reconciling[r])

Endorsed ==
    \A r \in Reconciliation :
        /\ EndorsedRow(r, reconciliation[r]) /\ EndorsedRow(r, reconciling[r])
        /\ reconciliation[r] # Absent /\ reconciliation[r].state = "FINAL" =>
              events[r] = [prior |-> "FINALITY_PENDING", new |-> "FINAL"]

IInv == TypeOK /\ Tables /\ PaymentsTested /\ Supported /\ Endorsed

(***************************************************************************)
(* The state machines: no move leads out of COMPLETED, and only one leads  *)
(* to FINAL.                                                               *)
(***************************************************************************)
LEMMA CompletedIsEnd ==
  ASSUME NEW s, <<"COMPLETED", s>> \in PaymentTransition
  PROVE  FALSE
BY DEF PaymentTransition

LEMMA FinalIsPendingBefore ==
  ASSUME NEW s, <<s, "FINAL">> \in SettlementTransition
  PROVE  s = "FINALITY_PENDING"
BY DEF SettlementTransition, Questioned

(***************************************************************************)
(* Types                                                                   *)
(***************************************************************************)
LEMMA TypeInit == Init => TypeOK
BY DEF Init, TypeOK

LEMMA PaymentTypeStep ==
  ASSUME TypeOK, PaymentStep
  PROVE  TypeOK'
<1>1. ASSUME NEW p \in Payment, NEW new \in PaymentRow, InsertPayment(p, new)
      PROVE  TypeOK'
  BY <1>1 DEF InsertPayment, TypeOK, settlementVars, PaymentMoves, SettlementMoves
<1>2. ASSUME NEW p \in Payment, NEW new \in PaymentRow, UpdatePayment(p, new)
      PROVE  TypeOK'
  BY <1>2 DEF UpdatePayment, TypeOK, settlementVars, PaymentMoves, SettlementMoves
<1>3. ASSUME NEW p \in Payment, CommitPayment(p)
      PROVE  TypeOK'
  BY <1>3 DEF CommitPayment, TypeOK, settlementVars, PaymentMoves, SettlementMoves
<1>4. ASSUME NEW p \in Payment, RollbackPayment(p)
      PROVE  TypeOK'
  BY <1>4 DEF RollbackPayment, TypeOK, settlementVars, PaymentMoves, SettlementMoves
<1>5. ASSUME NEW p \in Payment, Hold(p)
      PROVE  TypeOK'
  BY <1>5 DEF Hold, TypeOK, settlementVars, PaymentMoves, SettlementMoves
<1>6. ASSUME NEW p \in Payment, NEW x \in Actor, NEW role \in PaymentRole,
             NEW d \in Decision, Approve(p, x, role, d)
      PROVE  TypeOK'
  <2>1. approvals' \subseteq PaymentApproval
    BY <1>6 DEF Approve, TypeOK, PaymentApproval
  <2>2. QED
    BY <1>6, <2>1 DEF Approve, TypeOK, settlementVars, PaymentMoves, SettlementMoves
<1>7. ASSUME NEW p \in Payment, NEW part \in Reviewed, Review(p, part)
      PROVE  TypeOK'
  <2>1. standing' \in [Payment -> SUBSET {"account", "route"}]
    BY <1>7, SettlementAssumption DEF Review, TypeOK
  <2>2. QED
    BY <1>7, <2>1 DEF Review, TypeOK, settlementVars, PaymentMoves, SettlementMoves
<1>8. QED
  BY <1>1, <1>2, <1>3, <1>4, <1>5, <1>6, <1>7 DEF PaymentStep

LEMMA RecordedType ==
  ASSUME NEW last \in FinalityEvent \cup {Absent}, NEW old \in ReconciliationRow,
         NEW new \in ReconciliationRow, SettlementMoves(old, new)
  PROVE  Recorded(last, old, new) \in FinalityEvent \cup {Absent}
<1>1. old.state \in SettlementState /\ new.state \in SettlementState
  BY DEF ReconciliationRow
<1>2. QED
  BY <1>1 DEF Recorded, FinalityEvent, SettlementMoves

LEMMA SettlementTypeStep ==
  ASSUME TypeOK, SettlementStep
  PROVE  TypeOK'
<1>1. ASSUME NEW r \in Reconciliation, NEW new \in ReconciliationRow,
             InsertReconciliation(r, new)
      PROVE  TypeOK'
  BY <1>1 DEF InsertReconciliation, TypeOK, paymentVars, PaymentMoves, SettlementMoves
<1>2. ASSUME NEW r \in Reconciliation, NEW new \in ReconciliationRow,
             UpdateReconciliation(r, new)
      PROVE  TypeOK'
  BY <1>2 DEF UpdateReconciliation, TypeOK, paymentVars, PaymentMoves, SettlementMoves
<1>3. ASSUME NEW r \in Reconciliation, CommitReconciliation(r)
      PROVE  TypeOK'
  <2>1. Recorded(events[r], reconciliation[r], reconciling[r]) \in FinalityEvent \cup {Absent}
    BY <1>3, RecordedType DEF CommitReconciliation, TypeOK
  <2>2. events' \in [Reconciliation -> FinalityEvent \cup {Absent}]
    BY <1>3, <2>1 DEF CommitReconciliation, TypeOK
  <2>3. QED
    BY <1>3, <2>2 DEF CommitReconciliation, TypeOK, paymentVars, PaymentMoves, SettlementMoves
<1>4. ASSUME NEW r \in Reconciliation, RollbackReconciliation(r)
      PROVE  TypeOK'
  BY <1>4 DEF RollbackReconciliation, TypeOK, paymentVars, PaymentMoves, SettlementMoves
<1>5. ASSUME NEW r \in Reconciliation, Dispute(r)
      PROVE  TypeOK'
  BY <1>5 DEF Dispute, TypeOK, paymentVars, PaymentMoves, SettlementMoves
<1>6. ASSUME NEW r \in Reconciliation, NEW x \in Actor, NEW role \in SettlementRole,
             NEW d \in Decision, Endorse(r, x, role, d)
      PROVE  TypeOK'
  <2>1. endorsements' \subseteq Endorsement
    BY <1>6 DEF Endorse, TypeOK, Endorsement
  <2>2. QED
    BY <1>6, <2>1 DEF Endorse, TypeOK, paymentVars, PaymentMoves, SettlementMoves
<1>7. ASSUME NEW o \in Observation, NEW p \in Payment, NEW m \in Match \cup {Absent}, Judge(o, p, m)
      PROVE  TypeOK'
  BY <1>7 DEF Judge, TypeOK, paymentVars, PaymentMoves, SettlementMoves
<1>8. QED
  BY <1>1, <1>2, <1>3, <1>4, <1>5, <1>6, <1>7 DEF SettlementStep

LEMMA TypeStep == TypeOK /\ [Next]_vars => TypeOK'
<1> SUFFICES ASSUME TypeOK, [Next]_vars PROVE TypeOK'
  OBVIOUS
<1>1. CASE UNCHANGED vars
  BY <1>1 DEF vars, paymentVars, settlementVars, TypeOK, PaymentMoves, SettlementMoves
<1>2. QED
  BY <1>1, PaymentTypeStep, SettlementTypeStep DEF Next

(***************************************************************************)
(* Every table keeps its columns' types, and every open UPDATE and every   *)
(* recorded event is a move of the state machine.                          *)
(***************************************************************************)
THEOREM SettlementTypeCorrect == Spec => []TypeOK
BY TypeInit, TypeStep, PTL DEF Spec

(***************************************************************************)
(* Counts of approvals never go down: rows are only added.                 *)
(***************************************************************************)
LEMMA CountsGrow ==
  ASSUME NEW S, NEW T, IsFiniteSet(T), S \subseteq T
  PROVE  /\ Cardinality(S) \in Nat /\ Cardinality(T) \in Nat
         /\ Cardinality(S) <= Cardinality(T)
BY FS_Subset, FS_CardinalityType

LEMMA TablesStep ==
  ASSUME IInv, [Next]_vars
  PROVE  /\ Tables'
         /\ approvals \subseteq approvals' /\ endorsements \subseteq endorsements'
<1>1. /\ \A p \in Payment : payment[p] # Absent => payment'[p] # Absent
      /\ \A r \in Reconciliation : reconciliation[r] # Absent => reconciliation'[r] # Absent
  BY DEF IInv, TypeOK, Next, PaymentStep, SettlementStep, vars, paymentVars, settlementVars,
         InsertPayment, UpdatePayment, CommitPayment, RollbackPayment, Approve, Hold, Review,
         InsertReconciliation, UpdateReconciliation, CommitReconciliation,
         RollbackReconciliation, Dispute, Endorse, Judge
<1>2. /\ \/ approvals' = approvals
         \/ \E p \in Payment, x \in Actor, role \in PaymentRole, d \in Decision :
               Approve(p, x, role, d)
      /\ \/ endorsements' = endorsements
         \/ \E r \in Reconciliation, x \in Actor, role \in SettlementRole, d \in Decision :
               Endorse(r, x, role, d)
  BY DEF Next, PaymentStep, SettlementStep, vars, paymentVars, settlementVars,
         InsertPayment, UpdatePayment, CommitPayment, RollbackPayment, Approve, Hold, Review,
         InsertReconciliation, UpdateReconciliation, CommitReconciliation,
         RollbackReconciliation, Dispute, Endorse, Judge
<1>3. /\ approvals \subseteq approvals'
      /\ IsFiniteSet(approvals')
      /\ \A a \in approvals' : payment'[a.payment] # Absent
  <2>1. CASE approvals' = approvals
    <3>1. \A a \in approvals : a.payment \in Payment
      BY DEF IInv, TypeOK, PaymentApproval
    <3>2. QED
      BY <1>1, <2>1, <3>1 DEF IInv, Tables
  <2>2. ASSUME NEW p \in Payment, NEW x \in Actor, NEW role \in PaymentRole,
               NEW d \in Decision, Approve(p, x, role, d)
        PROVE  /\ approvals \subseteq approvals'
               /\ IsFiniteSet(approvals')
               /\ \A a \in approvals' : payment'[a.payment] # Absent
    <3>1. /\ payment' = payment
          /\ payment[p] # Absent
          /\ approvals' = approvals \cup
                {[payment |-> p, actor |-> x, role |-> role, decision |-> d]}
      BY <2>2 DEF Approve
    <3>2. IsFiniteSet(approvals')
      BY <3>1, FS_AddElement DEF IInv, Tables
    <3>3. QED
      BY <3>1, <3>2 DEF IInv, Tables
  <2>3. QED
    BY <1>2, <2>1, <2>2
<1>4. /\ endorsements \subseteq endorsements'
      /\ IsFiniteSet(endorsements')
      /\ \A a \in endorsements' : reconciliation'[a.reconciliation] # Absent
  <2>1. CASE endorsements' = endorsements
    <3>1. \A a \in endorsements : a.reconciliation \in Reconciliation
      BY DEF IInv, TypeOK, Endorsement
    <3>2. QED
      BY <1>1, <2>1, <3>1 DEF IInv, Tables
  <2>2. ASSUME NEW r \in Reconciliation, NEW x \in Actor, NEW role \in SettlementRole,
               NEW d \in Decision, Endorse(r, x, role, d)
        PROVE  /\ endorsements \subseteq endorsements'
               /\ IsFiniteSet(endorsements')
               /\ \A a \in endorsements' : reconciliation'[a.reconciliation] # Absent
    <3>1. /\ reconciliation' = reconciliation
          /\ reconciliation[r] # Absent
          /\ endorsements' = endorsements \cup
                {[reconciliation |-> r, actor |-> x, role |-> role, decision |-> d]}
      BY <2>2 DEF Endorse
    <3>2. IsFiniteSet(endorsements')
      BY <3>1, FS_AddElement DEF IInv, Tables
    <3>3. QED
      BY <3>1, <3>2 DEF IInv, Tables
  <2>3. QED
    BY <1>2, <2>1, <2>2
<1>5. \A o \in Observation, p \in Payment : match'[<<o, p>>] # Absent => payment'[p] # Absent
  <2>1. ASSUME NEW o \in Observation, NEW p \in Payment, match'[<<o, p>>] # match[<<o, p>>]
        PROVE  payment[p] # Absent
    BY <2>1
    DEF IInv, TypeOK, Next, PaymentStep, SettlementStep, vars, paymentVars, settlementVars,
        InsertPayment, UpdatePayment, CommitPayment, RollbackPayment, Approve, Hold, Review,
        InsertReconciliation, UpdateReconciliation, CommitReconciliation,
        RollbackReconciliation, Dispute, Endorse, Judge
  <2>2. QED
    BY <1>1, <2>1 DEF IInv, Tables
<1>6. QED
  BY <1>3, <1>4, <1>5 DEF Tables

(***************************************************************************)
(* A test a row has passed is passed for good.                             *)
(***************************************************************************)
LEMMA ApprovedStays ==
  ASSUME IInv, [Next]_vars, NEW p \in Payment, NEW row \in PaymentRow \cup {Absent},
         ApprovedRow(p, row)
  PROVE  row # Absent /\ row.state \in Advanced =>
            /\ Cardinality(ApprovalsOf(p)') >= row.required
            /\ row.compliance = "CLEAR"
<1>1. /\ IsFiniteSet(ApprovalsOf(p)')
      /\ ApprovalsOf(p) \subseteq ApprovalsOf(p)'
  BY TablesStep, FS_Subset DEF Tables, ApprovalsOf
<1>2. /\ Cardinality(ApprovalsOf(p)) \in Nat /\ Cardinality(ApprovalsOf(p)') \in Nat
      /\ Cardinality(ApprovalsOf(p)) <= Cardinality(ApprovalsOf(p)')
  BY <1>1, CountsGrow
<1>3. row # Absent => row.required \in Int
  BY SettlementAssumption DEF PaymentRow
<1>4. QED
  BY <1>2, <1>3 DEF ApprovedRow

LEMMA EndorsedStays ==
  ASSUME IInv, [Next]_vars, NEW r \in Reconciliation, Cardinality(EndorsementsOf(r)) >= 2
  PROVE  Cardinality(EndorsementsOf(r)') >= 2
<1>1. /\ IsFiniteSet(EndorsementsOf(r)')
      /\ EndorsementsOf(r) \subseteq EndorsementsOf(r)'
  BY TablesStep, FS_Subset DEF Tables, EndorsementsOf
<1>2. QED
  BY <1>1, CountsGrow

LEMMA CompletedStays ==
  ASSUME IInv, [Next]_vars, NEW p \in Payment, Completed(p)
  PROVE  Completed(p)'
<1>1. CASE CommitPayment(p)
  <2>1. PaymentMoves(payment[p], paying[p])
    BY <1>1 DEF CommitPayment, IInv, TypeOK
  <2>2. paying[p].state = "COMPLETED"
    BY <2>1, CompletedIsEnd DEF PaymentMoves, Completed
  <2>3. QED
    BY <1>1, <2>2 DEF CommitPayment, Completed, IInv, TypeOK
<1>2. CASE ~CommitPayment(p)
  <2>1. payment'[p] = payment[p]
    BY <1>2
    DEF Completed, IInv, TypeOK, Next, PaymentStep, SettlementStep, vars, paymentVars,
        settlementVars, InsertPayment, UpdatePayment, CommitPayment, RollbackPayment,
        Approve, Hold, Review, InsertReconciliation, UpdateReconciliation,
        CommitReconciliation, RollbackReconciliation, Dispute, Endorse, Judge
  <2>2. QED
    BY <2>1 DEF Completed
<1>3. QED
  BY <1>1, <1>2

(***************************************************************************)
(* Where the versions of a row come from: its own past, or a statement     *)
(* whose triggers ran in this step.                                        *)
(***************************************************************************)
LEMMA PaymentVersions ==
  ASSUME IInv, [Next]_vars, NEW p \in Payment
  PROVE  /\ \/ payment'[p] \in {payment[p], paying[p]}
            \/ payment'[p] \in PaymentRow /\ ExecutionGate(p, payment'[p])
         /\ \/ paying'[p] \in {paying[p], Absent}
            \/ paying'[p] \in PaymentRow /\ ExecutionGate(p, paying'[p])
<1> DEFINE Goal ==
      /\ \/ payment'[p] \in {payment[p], paying[p]}
         \/ payment'[p] \in PaymentRow /\ ExecutionGate(p, payment'[p])
      /\ \/ paying'[p] \in {paying[p], Absent}
         \/ paying'[p] \in PaymentRow /\ ExecutionGate(p, paying'[p])
<1>0. /\ payment \in [Payment -> PaymentRow \cup {Absent}]
      /\ paying \in [Payment -> PaymentRow \cup {Absent}]
  BY DEF IInv, TypeOK
<1>1. ASSUME NEW q \in Payment, NEW new \in PaymentRow,
             InsertPayment(q, new) \/ UpdatePayment(q, new)
      PROVE  Goal
  <2>1. CASE q = p
    <3>1. /\ ExecutionGate(p, new)
          /\ \/ payment'[p] = new /\ paying' = paying
             \/ paying'[p] = new /\ payment' = payment
      BY <1>0, <1>1, <2>1 DEF InsertPayment, UpdatePayment
    <3>2. QED
      BY <3>1
  <2>2. CASE q # p
    BY <1>0, <1>1, <2>2 DEF InsertPayment, UpdatePayment
  <2>3. QED
    BY <2>1, <2>2
<1>2. ASSUME NEW q \in Payment, CommitPayment(q) \/ RollbackPayment(q)
      PROVE  Goal
  BY <1>0, <1>2 DEF CommitPayment, RollbackPayment
<1>3. CASE payment' = payment /\ paying' = paying
  BY <1>3
<1>4. CASE PaymentStep
  <2>1. ASSUME NEW q \in Payment,
               \/ Hold(q)
               \/ \E x \in Actor, role \in PaymentRole, d \in Decision : Approve(q, x, role, d)
               \/ \E part \in Reviewed : Review(q, part)
        PROVE  payment' = payment /\ paying' = paying
    BY <2>1 DEF Hold, Approve, Review
  <2>2. QED
    BY <1>1, <1>2, <1>3, <1>4, <2>1 DEF PaymentStep
<1>5. CASE SettlementStep
  BY <1>3, <1>5
  DEF SettlementStep, paymentVars, InsertReconciliation, UpdateReconciliation,
      CommitReconciliation, RollbackReconciliation, Dispute, Endorse, Judge
<1>6. CASE UNCHANGED vars
  BY <1>3, <1>6 DEF vars, paymentVars
<1>7. QED
  BY <1>4, <1>5, <1>6 DEF Next

LEMMA ReconciliationVersions ==
  ASSUME IInv, [Next]_vars, NEW r \in Reconciliation
  PROVE  /\ \/ reconciliation'[r] = reconciliation[r] /\ events'[r] = events[r]
            \/ /\ reconciling[r] # Absent
               /\ reconciliation'[r] = reconciling[r]
               /\ events'[r] = Recorded(events[r], reconciliation[r], reconciling[r])
            \/ /\ reconciliation[r] = Absent
               /\ reconciliation'[r] \in ReconciliationRow
               /\ SettlementGate(r, reconciliation'[r])
         /\ \/ reconciling'[r] \in {reconciling[r], Absent}
            \/ reconciling'[r] \in ReconciliationRow /\ SettlementGate(r, reconciling'[r])
<1> DEFINE Goal ==
      /\ \/ reconciliation'[r] = reconciliation[r] /\ events'[r] = events[r]
         \/ /\ reconciling[r] # Absent
            /\ reconciliation'[r] = reconciling[r]
            /\ events'[r] = Recorded(events[r], reconciliation[r], reconciling[r])
         \/ /\ reconciliation[r] = Absent
            /\ reconciliation'[r] \in ReconciliationRow
            /\ SettlementGate(r, reconciliation'[r])
      /\ \/ reconciling'[r] \in {reconciling[r], Absent}
         \/ reconciling'[r] \in ReconciliationRow /\ SettlementGate(r, reconciling'[r])
<1>0. /\ reconciliation \in [Reconciliation -> ReconciliationRow \cup {Absent}]
      /\ reconciling \in [Reconciliation -> ReconciliationRow \cup {Absent}]
      /\ events \in [Reconciliation -> FinalityEvent \cup {Absent}]
  BY DEF IInv, TypeOK
<1>1. ASSUME NEW q \in Reconciliation, NEW new \in ReconciliationRow,
             InsertReconciliation(q, new) \/ UpdateReconciliation(q, new)
      PROVE  Goal
  <2>1. CASE q = r
    <3>1. /\ SettlementGate(r, new)
          /\ events' = events
          /\ \/ /\ reconciliation[r] = Absent /\ reconciliation'[r] = new
                /\ reconciling' = reconciling
             \/ reconciling'[r] = new /\ reconciliation' = reconciliation
      BY <1>0, <1>1, <2>1 DEF InsertReconciliation, UpdateReconciliation
    <3>2. QED
      BY <3>1
  <2>2. CASE q # r
    BY <1>0, <1>1, <2>2 DEF InsertReconciliation, UpdateReconciliation
  <2>3. QED
    BY <2>1, <2>2
<1>2. ASSUME NEW q \in Reconciliation, CommitReconciliation(q) \/ RollbackReconciliation(q)
      PROVE  Goal
  BY <1>0, <1>2 DEF CommitReconciliation, RollbackReconciliation
<1>3. CASE reconciliation' = reconciliation /\ reconciling' = reconciling /\ events' = events
  BY <1>3
<1>4. CASE SettlementStep
  <2>1. ASSUME \/ \E q \in Reconciliation :
                     \/ Dispute(q)
                     \/ \E x \in Actor, role \in SettlementRole, d \in Decision :
                           Endorse(q, x, role, d)
               \/ \E o \in Observation, p \in Payment, m \in Match \cup {Absent} : Judge(o, p, m)
        PROVE  reconciliation' = reconciliation /\ reconciling' = reconciling /\ events' = events
    BY <2>1 DEF Dispute, Endorse, Judge
  <2>2. QED
    BY <1>1, <1>2, <1>3, <1>4, <2>1 DEF SettlementStep
<1>5. CASE PaymentStep
  BY <1>3, <1>5
  DEF PaymentStep, settlementVars, InsertPayment, UpdatePayment, CommitPayment,
      RollbackPayment, Approve, Hold, Review
<1>6. CASE UNCHANGED vars
  BY <1>3, <1>6 DEF vars, settlementVars
<1>7. QED
  BY <1>4, <1>5, <1>6 DEF Next

LEMMA PaymentsTestedStep ==
  ASSUME IInv, [Next]_vars
  PROVE  PaymentsTested'
<1> SUFFICES ASSUME NEW p \in Payment
             PROVE  (ApprovedRow(p, payment[p]) /\ ApprovedRow(p, paying[p]))'
  BY DEF PaymentsTested
<1> DEFINE Stays(row) ==
      row # Absent /\ row.state \in Advanced =>
          /\ Cardinality(ApprovalsOf(p)') >= row.required
          /\ row.compliance = "CLEAR"
<1>1. ASSUME NEW row \in PaymentRow, ExecutionGate(p, row) PROVE Stays(row)
  <2>1. ApprovedRow(p, row)
    BY <1>1 DEF ExecutionGate, ApprovedRow
  <2>2. QED
    BY <2>1, ApprovedStays
<1>2. Stays(payment[p]) /\ Stays(paying[p])
  BY ApprovedStays DEF IInv, PaymentsTested, TypeOK
<1>3. Stays(payment'[p])
  BY <1>1, <1>2, PaymentVersions
<1>4. Stays(paying'[p])
  BY <1>1, <1>2, PaymentVersions
<1>5. QED
  BY <1>3, <1>4 DEF ApprovedRow

LEMMA SupportedStep ==
  ASSUME IInv, [Next]_vars
  PROVE  Supported'
<1> SUFFICES ASSUME NEW r \in Reconciliation
             PROVE  (SupportedRow(reconciliation[r]) /\ SupportedRow(reconciling[r]))'
  BY DEF Supported
<1> DEFINE Stays(row) ==
      row # Absent /\ row.state \in Reconciled =>
          /\ payment'[row.payment] # Absent
          /\ payment'[row.payment].state = "COMPLETED"
          /\ row.money = ObservedMoney[row.observation]
  <1>1. ASSUME NEW row \in ReconciliationRow \cup {Absent}, SupportedRow(row) PROVE Stays(row)
  <2> SUFFICES ASSUME row # Absent, row.state \in Reconciled
               PROVE  /\ payment'[row.payment] # Absent
                      /\ payment'[row.payment].state = "COMPLETED"
    BY <1>1 DEF SupportedRow
  <2>1. Completed(row.payment)
    BY <1>1 DEF SupportedRow
  <2>2. PICK q \in Payment : q = row.payment
    BY DEF ReconciliationRow
  <2>3. Completed(q)'
    BY <2>1, <2>2, CompletedStays
  <2>4. QED
    BY <2>2, <2>3 DEF Completed
<1>2. ASSUME NEW row \in ReconciliationRow, SettlementGate(r, row) PROVE Stays(row)
  <2>1. row.payment \in Payment /\ row.observation \in Observation
    BY DEF ReconciliationRow
  <2>2. payment[row.payment] # Absent
    BY <1>2, <2>1 DEF SettlementGate, MatchOf, IInv, Tables
  <2>3. SupportedRow(row)
    BY <1>2, <2>2 DEF SettlementGate, Reconcilable, SupportedRow, Completed
  <2>4. QED
    BY <1>1, <2>3
<1>3. Stays(reconciliation[r]) /\ Stays(reconciling[r])
  BY <1>1 DEF IInv, Supported, TypeOK
<1>4. Stays(reconciliation'[r])
  BY <1>2, <1>3, ReconciliationVersions
<1>5. Stays(reconciling'[r])
  BY <1>2, <1>3, ReconciliationVersions
<1>6. QED
  BY <1>4, <1>5 DEF SupportedRow, Completed

LEMMA EndorsedStep ==
  ASSUME IInv, [Next]_vars
  PROVE  Endorsed'
<1> SUFFICES
      ASSUME NEW r \in Reconciliation
      PROVE  /\ (EndorsedRow(r, reconciliation[r]) /\ EndorsedRow(r, reconciling[r]))'
             /\ reconciliation'[r] # Absent /\ reconciliation'[r].state = "FINAL" =>
                   events'[r] = [prior |-> "FINALITY_PENDING", new |-> "FINAL"]
  BY DEF Endorsed
<1> DEFINE Stays(row) ==
      row # Absent /\ row.state = "FINAL" =>
          /\ Cardinality(EndorsementsOf(r)') >= 2
          /\ ObservedStatus[row.observation] = "OBSERVED"
<1>1. ASSUME NEW row \in ReconciliationRow, SettlementGate(r, row) PROVE Stays(row)
  BY <1>1, EndorsedStays DEF SettlementGate, Finalizable
<1>2. Stays(reconciliation[r]) /\ Stays(reconciling[r])
  BY EndorsedStays DEF IInv, Endorsed, EndorsedRow
<1>3. Stays(reconciliation'[r])
  BY <1>1, <1>2, ReconciliationVersions
<1>4. Stays(reconciling'[r])
  BY <1>1, <1>2, ReconciliationVersions
<1>5. ASSUME reconciliation'[r] # Absent, reconciliation'[r].state = "FINAL"
      PROVE  events'[r] = [prior |-> "FINALITY_PENDING", new |-> "FINAL"]
  <2>1. CASE reconciliation'[r] = reconciliation[r] /\ events'[r] = events[r]
    BY <1>5, <2>1 DEF IInv, Endorsed
  <2>2. CASE /\ reconciling[r] # Absent
             /\ reconciliation'[r] = reconciling[r]
             /\ events'[r] = Recorded(events[r], reconciliation[r], reconciling[r])
    <3>1. reconciliation[r] # Absent /\ SettlementMoves(reconciliation[r], reconciling[r])
      BY <2>2 DEF IInv, TypeOK
    <3>2. CASE reconciliation[r].state = "FINAL"
      BY <1>5, <2>2, <3>1, <3>2 DEF Recorded, IInv, Endorsed
    <3>3. CASE reconciliation[r].state # "FINAL"
      <4>1. reconciliation[r].state = "FINALITY_PENDING"
        BY <1>5, <2>2, <3>1, <3>3, FinalIsPendingBefore DEF SettlementMoves
      <4>2. QED
        BY <1>5, <2>2, <4>1 DEF Recorded
    <3>4. QED
      BY <3>2, <3>3
  <2>3. CASE /\ reconciliation[r] = Absent
             /\ SettlementGate(r, reconciliation'[r])
    <3>1. EndorsementsOf(r) = {}
      BY <2>3 DEF IInv, Tables, EndorsementsOf
    <3>2. Cardinality(EndorsementsOf(r)) >= 2
      BY <1>5, <2>3 DEF SettlementGate, Finalizable
    <3>3. QED
      BY <3>1, <3>2, FS_EmptySet
  <2>4. QED
    BY <2>1, <2>2, <2>3, ReconciliationVersions
<1>6. QED
  BY <1>3, <1>4, <1>5 DEF EndorsedRow

LEMMA InvariantInit == Init => IInv
BY TypeInit, FS_EmptySet
DEF Init, IInv, Tables, PaymentsTested, Supported, Endorsed, ApprovedRow, SupportedRow,
    EndorsedRow

LEMMA InvariantStep == IInv /\ [Next]_vars => IInv'
<1> SUFFICES ASSUME IInv, [Next]_vars PROVE IInv'
  OBVIOUS
<1>1. TypeOK'
  BY TypeStep DEF IInv
<1>2. QED
  BY <1>1, TablesStep, PaymentsTestedStep, SupportedStep, EndorsedStep DEF IInv

LEMMA InvariantHolds == Spec => []IInv
BY InvariantInit, InvariantStep, PTL DEF Spec

(***************************************************************************)
(* validate_payment_execution_gate: what is approved or further on has the *)
(* approvals it requires and is cleared, in every reachable state.         *)
(***************************************************************************)
THEOREM AdvancedStaysApproved == Spec => []AdvancedIsApproved
<1>1. IInv => AdvancedIsApproved
  BY DEF IInv, PaymentsTested, ApprovedRow, AdvancedIsApproved
<1>2. QED
  BY <1>1, InvariantHolds, PTL

(***************************************************************************)
(* validate_settlement_reconciliation reads the payment without a lock;    *)
(* since COMPLETED is an end of validate_payment_state_transition, what is *)
(* reconciled rests on a completed payment in every reachable state.       *)
(***************************************************************************)
THEOREM ReconciledStaysCompleted == Spec => []ReconciledIsCompleted
<1>1. IInv => ReconciledIsCompleted
  BY DEF IInv, Supported, SupportedRow, Completed, ReconciledIsCompleted
<1>2. QED
  BY <1>1, InvariantHolds, PTL

(***************************************************************************)
(* A settlement that is FINAL carries two endorsements of checkers, an     *)
(* observation that stands, one amount in evidence and payment, and the    *)
(* finality event that made it so.                                         *)
(***************************************************************************)
THEOREM FinalStaysEndorsed == Spec => []FinalIsEndorsed
<1>1. IInv => FinalIsEndorsed
  BY DEF IInv, Supported, SupportedRow, Reconciled, Endorsed, EndorsedRow, FinalIsEndorsed
<1>2. QED
  BY <1>1, InvariantHolds, PTL

-----------------------------------------------------------------------------
\* What two endorsements are worth.  The UNIQUE constraint keeps one row for
\* each reconciliation, actor and role.
EndorsementsUnique ==
    \A a, b \in endorsements :
        a.reconciliation = b.reconciliation /\ a.actor = b.actor /\ a.role = b.role => a = b

FinalTakesTwo ==
    \A r \in Reconciliation :
        reconciliation[r] # Absent /\ reconciliation[r].state = "FINAL" =>
            \E a, b \in EndorsementsOf(r) :
                a.actor # b.actor \/ {a.role, b.role} = CheckerRole

LEMMA UniqueStep == TypeOK /\ EndorsementsUnique /\ [Next]_vars => EndorsementsUnique'
<1> SUFFICES ASSUME TypeOK, EndorsementsUnique, [Next]_vars PROVE EndorsementsUnique'
  OBVIOUS
<1>1. \/ endorsements' = endorsements
      \/ \E r \in Reconciliation, x \in Actor, role \in SettlementRole, d \in Decision :
            Endorse(r, x, role, d)
  BY DEF Next, PaymentStep, SettlementStep, vars, paymentVars, settlementVars,
         InsertPayment, UpdatePayment, CommitPayment, RollbackPayment, Approve, Hold, Review,
         InsertReconciliation, UpdateReconciliation, CommitReconciliation,
         RollbackReconciliation, Dispute, Endorse, Judge
<1>2. ASSUME NEW r \in Reconciliation, NEW x \in Actor, NEW role \in SettlementRole,
             NEW d \in Decision, Endorse(r, x, role, d)
      PROVE  EndorsementsUnique'
  <2>1. /\ ~\E a \in endorsements : a.reconciliation = r /\ a.actor = x /\ a.role = role
        /\ endorsements' = endorsements \cup
              {[reconciliation |-> r, actor |-> x, role |-> role, decision |-> d]}
    BY <1>2 DEF Endorse
  <2>2. QED
    BY <2>1 DEF EndorsementsUnique
<1>3. QED
  BY <1>1, <1>2 DEF EndorsementsUnique

LEMMA TwoAreDistinct ==
  ASSUME NEW S, IsFiniteSet(S), Cardinality(S) >= 2
  PROVE  \E a, b \in S : a # b
<1>1. S # {}
  BY FS_EmptySet
<1>2. PICK a \in S : TRUE
  BY <1>1
<1>3. CASE S = {a}
  BY <1>3, FS_Singleton
<1>4. QED
  BY <1>2, <1>3

LEMMA DoublyEndorsed ==
  ASSUME IInv, EndorsementsUnique, NEW r \in Reconciliation, reconciliation[r] # Absent,
         reconciliation[r].state = "FINAL"
  PROVE  \E a, b \in EndorsementsOf(r) :
            a # b /\ (a.actor # b.actor \/ {a.role, b.role} = CheckerRole)
<1>1. IsFiniteSet(EndorsementsOf(r)) /\ EndorsementsOf(r) \subseteq endorsements
  BY FS_Subset DEF IInv, Tables, EndorsementsOf
<1>2. Cardinality(EndorsementsOf(r)) >= 2
  BY DEF IInv, Endorsed, EndorsedRow
<1>3. PICK a, b \in EndorsementsOf(r) : a # b
  BY <1>1, <1>2, TwoAreDistinct
<1>4. a.actor # b.actor \/ a.role # b.role
  BY <1>1, <1>3 DEF EndorsementsUnique, EndorsementsOf
<1>5. a.role # b.role => {a.role, b.role} = CheckerRole
  BY DEF EndorsementsOf, CheckerRole
<1>6. QED
  BY <1>3, <1>4, <1>5

(***************************************************************************)
(* What the count of validate_settlement_reconciliation does guarantee:    *)
(* behind a FINAL settlement there are two approvers, or one who endorsed  *)
(* it in both of the checker roles.                                        *)
(***************************************************************************)
THEOREM FinalStaysTwofold == Spec => []FinalTakesTwo
<1>1. Init => EndorsementsUnique
  BY DEF Init, EndorsementsUnique
<1>2. IInv /\ EndorsementsUnique => FinalTakesTwo
  BY DoublyEndorsed DEF FinalTakesTwo
<1>3. IInv => TypeOK
  BY DEF IInv
<1>4. QED
  BY <1>1, <1>2, <1>3, UniqueStep, InvariantHolds, PTL DEF Spec

\* No role endorses a reconciliation twice: no constraint of the table says so.
RolesEndorseOnce ==
    \A a, b \in endorsements :
        a.reconciliation = b.reconciliation /\ a.role = b.role => a = b

(***************************************************************************)
(* Were each role to endorse a reconciliation at most once, the count of   *)
(* two would be the approval of both checkers.                             *)
(***************************************************************************)
THEOREM SeparateRolesCheckTwice == Spec /\ []RolesEndorseOnce => []FinalHasBothCheckers
<1>1. Init => EndorsementsUnique
  BY DEF Init, EndorsementsUnique
<1>2. IInv /\ EndorsementsUnique /\ RolesEndorseOnce => FinalHasBothCheckers
  <2> SUFFICES ASSUME IInv, EndorsementsUnique, RolesEndorseOnce, NEW r \in Reconciliation,
                      reconciliation[r] # Absent, reconciliation[r].state = "FINAL",
                      NEW role \in CheckerRole
               PROVE  \E a \in EndorsementsOf(r) : a.role = role
    BY DEF FinalHasBothCheckers
  <2>1. PICK a, b \in EndorsementsOf(r) : a # b
    BY DoublyEndorsed
  <2>2. a.role # b.role /\ a.role \in CheckerRole /\ b.role \in CheckerRole
    BY <2>1 DEF RolesEndorseOnce, EndorsementsOf
  <2>3. QED
    BY <2>2 DEF CheckerRole
<1>3. IInv => TypeOK
  BY DEF IInv
<1>4. QED
  BY <1>1, <1>2, <1>3, UniqueStep, InvariantHolds, PTL DEF Spec

-----------------------------------------------------------------------------
\* The sum of a completed instruction may be rewritten: no trigger looks.
CompletedKeepsMoney ==
    \A p \in Payment : Completed(p) => payment'[p].money = payment[p].money

SumsAgree(row) ==
    row # Absent /\ row.state \in Reconciled => row.money = payment[row.payment].money

ReconciledSumsAgree ==
    \A r \in Reconciliation : SumsAgree(reconciliation[r]) /\ SumsAgree(reconciling[r])

LEMMA SumsStep ==
  ASSUME IInv, ReconciledSumsAgree, [Next]_vars, CompletedKeepsMoney
  PROVE  ReconciledSumsAgree'
<1> SUFFICES ASSUME NEW r \in Reconciliation
             PROVE  (SumsAgree(reconciliation[r]) /\ SumsAgree(reconciling[r]))'
  BY DEF ReconciledSumsAgree
<1> DEFINE Stays(row) ==
      row # Absent /\ row.state \in Reconciled => row.money = payment'[row.payment].money
<1>1. ASSUME NEW row \in ReconciliationRow \cup {Absent}, SupportedRow(row), SumsAgree(row)
      PROVE  Stays(row)
  <2> SUFFICES ASSUME row # Absent, row.state \in Reconciled
               PROVE  row.money = payment'[row.payment].money
    OBVIOUS
  <2>1. Completed(row.payment) /\ row.payment \in Payment
    BY <1>1 DEF SupportedRow, ReconciliationRow
  <2>2. QED
    BY <1>1, <2>1 DEF CompletedKeepsMoney, SumsAgree
<1>2. ASSUME NEW row \in ReconciliationRow, SettlementGate(r, row) PROVE Stays(row)
  <2> SUFFICES ASSUME row # Absent, row.state \in Reconciled
               PROVE  row.money = payment'[row.payment].money
    OBVIOUS
  <2>1. row.payment \in Payment /\ row.observation \in Observation
    BY DEF ReconciliationRow
  <2>2. payment[row.payment] # Absent
    BY <1>2, <2>1 DEF SettlementGate, MatchOf, IInv, Tables
  <2>3. Completed(row.payment) /\ row.money = payment[row.payment].money
    BY <1>2, <2>2 DEF SettlementGate, Reconcilable, Completed
  <2>4. QED
    BY <2>1, <2>3 DEF CompletedKeepsMoney
<1>3. Stays(reconciliation[r]) /\ Stays(reconciling[r])
  BY <1>1 DEF IInv, Supported, TypeOK, ReconciledSumsAgree
<1>4. Stays(reconciliation'[r])
  BY <1>2, <1>3, ReconciliationVersions
<1>5. Stays(reconciling'[r])
  BY <1>2, <1>3, ReconciliationVersions
<1>6. QED
  BY <1>4, <1>5 DEF SumsAgree

(***************************************************************************)
(* If completed instructions keep their sum, what is reconciled or final   *)
(* names in every state the sum its payment carries, though the match may  *)
(* be judged again and the payment is read without a lock: the rewriting   *)
(* of a completed instruction is the only way for the two to part.         *)
(***************************************************************************)
THEOREM KeptSumsAgree ==
  Spec /\ [][CompletedKeepsMoney]_vars => []ReconciledSumsAgree
<1>1. Init => ReconciledSumsAgree
  BY DEF Init, ReconciledSumsAgree, SumsAgree
<1>2. IInv /\ ReconciledSumsAgree /\ [Next]_vars /\ [CompletedKeepsMoney]_vars =>
         ReconciledSumsAgree'
  <2>1. CASE UNCHANGED vars
    BY <2>1 DEF vars, paymentVars, settlementVars, ReconciledSumsAgree, SumsAgree
  <2>2. QED
    BY <2>1, SumsStep
<1>3. QED
  BY <1>1, <1>2, InvariantHolds, PTL DEF Spec

(***************************************************************************)
(* The tables implement SettlementPromise                                  *)
(***************************************************************************)
LEMMA StandingMoves ==
  ASSUME NEW old \in PaymentRow, NEW new \in PaymentRow, old # Absent, new # Absent,
         PaymentMoves(old, new)
  PROVE  \/ Standing(new) = Standing(old)
         \/ <<Standing(old), Standing(new)>> \in
               {<<"intended", "authorized">>, <<"authorized", "intended">>,
                <<"authorized", "executed">>, <<"intended", "closed">>,
                <<"authorized", "closed">>}
<1>1. old.state \in PaymentState /\ new.state \in PaymentState
  BY DEF PaymentRow
<1>2. CASE new.state = old.state
  BY <1>2 DEF Standing
<1>3. CASE <<old.state, new.state>> \in PaymentTransition
  BY <1>1, <1>3 DEF PaymentTransition, Standing, Advanced, Routed, Provider
<1>4. QED
  BY <1>2, <1>3 DEF PaymentMoves

LEMMA VerdictMoves ==
  ASSUME NEW old \in ReconciliationRow, NEW new \in ReconciliationRow,
         old # Absent, new # Absent, SettlementMoves(old, new)
  PROVE  \/ Verdict(new) = Verdict(old)
         \/ /\ <<Verdict(old), Verdict(new)>> = <<"open", "final">>
            /\ new.state = "FINAL"
         \/ /\ Verdict(old) \in {"open", "final"}
            /\ Verdict(new) = "withdrawn"
<1>1. CASE new.state = old.state
  BY <1>1 DEF Verdict
<1>2. CASE <<old.state, new.state>> \in SettlementTransition
  BY <1>2 DEF SettlementTransition, Questioned, Verdict
<1>3. QED
  BY <1>1, <1>2 DEF SettlementMoves

\* A new row starts the story: nothing refers to it yet.
LEMMA InsertedPayment ==
  ASSUME IInv, NEW p \in Payment, NEW new \in PaymentRow, InsertPayment(p, new), new # Absent
  PROVE  Standing(new) \in {"intended", "closed"}
<1>1. ApprovalsOf(p) = {}
  BY DEF IInv, Tables, ApprovalsOf, InsertPayment
<1>2. new.required \in Int /\ new.required >= 2
  BY SettlementAssumption DEF PaymentRow
<1>3. new.state \notin Advanced
  BY <1>1, <1>2, FS_EmptySet DEF InsertPayment, ExecutionGate
<1>4. QED
  BY <1>3 DEF Standing, Advanced, Routed, Provider

LEMMA InsertedReconciliation ==
  ASSUME IInv, NEW r \in Reconciliation, NEW new \in ReconciliationRow,
         InsertReconciliation(r, new), new # Absent
  PROVE  Verdict(new) \in {"open", "withdrawn"}
<1>1. EndorsementsOf(r) = {}
  BY DEF IInv, Tables, EndorsementsOf, InsertReconciliation
<1>2. new.state # "FINAL"
  BY <1>1, FS_EmptySet DEF InsertReconciliation, SettlementGate, Finalizable
<1>3. QED
  BY <1>2 DEF Verdict

(***************************************************************************)
(* A payment's new version is a passage of the promise, or none.           *)
(***************************************************************************)
LEMMA PaymentPromise ==
  ASSUME IInv, PaymentStep
  PROVE  [Promise!Next]_(Promise!vars)
<1> DEFINE Passes(p, from, to) ==
      /\ Standing(payment[p]) = from
      /\ [q \in Payment |-> Standing(payment'[q])] =
            [[q \in Payment |-> Standing(payment[q])] EXCEPT ![p] = to]
<1>0. payment \in [Payment -> PaymentRow \cup {Absent}]
  BY DEF IInv, TypeOK
<1>1. settlementVars' = settlementVars
  BY DEF PaymentStep, settlementVars, InsertPayment, UpdatePayment, CommitPayment,
         RollbackPayment, Approve, Hold, Review
<1>2. reconciliation' = reconciliation
  BY <1>1 DEF settlementVars
<1>3. ASSUME NEW p \in Payment, NEW to, payment' = [payment EXCEPT ![p] = to]
      PROVE  Passes(p, Standing(payment[p]), Standing(to))
  BY <1>0, <1>3
<1>4. CASE payment' = payment
  BY <1>2, <1>4 DEF Promise!vars
<1>5. ASSUME NEW p \in Payment, NEW from, NEW to, Passes(p, from, to),
             \/ from = to
             \/ <<from, to>> \in {<<"intended", "authorized">>, <<"authorized", "intended">>,
                                  <<"authorized", "executed">>, <<"intended", "closed">>,
                                  <<"authorized", "closed">>}
      PROVE  [Promise!Next]_(Promise!vars)
  <2>1. CASE from = to
    <3>1. [q \in Payment |-> Standing(payment'[q])] = [q \in Payment |-> Standing(payment[q])]
      BY <1>5, <2>1
    <3>2. QED
      BY <1>2, <3>1 DEF Promise!vars
  <2>2. CASE from # to
    <3>1. Promise!Pass(p, from, to)
      BY <1>2, <1>5 DEF Promise!Pass
    <3>2. QED
      BY <1>5, <2>2, <3>1 DEF Promise!Next
  <2>3. QED
    BY <2>1, <2>2
<1>6. ASSUME NEW p \in Payment, NEW new \in PaymentRow, InsertPayment(p, new)
      PROVE  [Promise!Next]_(Promise!vars)
  <2>1. payment[p] = Absent /\ payment' = [payment EXCEPT ![p] = new]
    BY <1>6 DEF InsertPayment
  <2>2. Standing(payment[p]) = "intended"
    BY <2>1 DEF Standing
  <2>3. CASE new = Absent
    BY <1>0, <1>4, <2>1, <2>3
  <2>4. CASE new # Absent
    <3> HIDE DEF Passes
    <3>1. Passes(p, Standing(payment[p]), Standing(new))
      BY <1>3, <2>1
    <3>2. Standing(new) \in {"intended", "closed"}
      BY <1>6, <2>4, InsertedPayment
    <3>3. \/ Standing(payment[p]) = Standing(new)
          \/ <<Standing(payment[p]), Standing(new)>> = <<"intended", "closed">>
      BY <2>2, <3>2
    <3>4. QED
      BY <1>5, <3>1, <3>3
  <2>5. QED
    BY <2>3, <2>4
<1>7. ASSUME NEW p \in Payment, CommitPayment(p)
      PROVE  [Promise!Next]_(Promise!vars)
  <2>1. /\ payment[p] # Absent /\ paying[p] # Absent
        /\ payment[p] \in PaymentRow /\ paying[p] \in PaymentRow
        /\ PaymentMoves(payment[p], paying[p])
        /\ payment' = [payment EXCEPT ![p] = paying[p]]
    BY <1>7 DEF CommitPayment, IInv, TypeOK
  <2> HIDE DEF Passes
  <2>2. Passes(p, Standing(payment[p]), Standing(paying[p]))
    BY <1>3, <2>1
  <2>3. QED
    BY <1>5, <2>1, <2>2, StandingMoves
<1>8. QED
  BY <1>4, <1>6, <1>7
  DEF PaymentStep, UpdatePayment, RollbackPayment, Approve, Hold, Review

(***************************************************************************)
(* A reconciliation's new version declares finality, of an executed        *)
(* payment, withdraws, or leaves the verdict alone.                        *)
(***************************************************************************)
LEMMA SettlementPromised ==
  ASSUME IInv, SettlementStep
  PROVE  [Promise!Next]_(Promise!vars)
<1> DEFINE Turns(r, from, to) ==
      /\ Verdict(reconciliation[r]) = from
      /\ [q \in Reconciliation |-> Verdict(reconciliation'[q])] =
            [[q \in Reconciliation |-> Verdict(reconciliation[q])] EXCEPT ![r] = to]
<1>0. reconciliation \in [Reconciliation -> ReconciliationRow \cup {Absent}]
  BY DEF IInv, TypeOK
<1>1. paymentVars' = paymentVars
  BY DEF SettlementStep, paymentVars, InsertReconciliation, UpdateReconciliation,
         CommitReconciliation, RollbackReconciliation, Dispute, Endorse, Judge
<1>2. payment' = payment
  BY <1>1 DEF paymentVars
<1>3. ASSUME NEW r \in Reconciliation, NEW to,
             reconciliation' = [reconciliation EXCEPT ![r] = to]
      PROVE  Turns(r, Verdict(reconciliation[r]), Verdict(to))
  BY <1>0, <1>3
<1>4. CASE reconciliation' = reconciliation
  BY <1>2, <1>4 DEF Promise!vars
<1>5. ASSUME NEW r \in Reconciliation, NEW from, NEW to, Turns(r, from, to),
             \/ from = to
             \/ from \in {"open", "final"} /\ to = "withdrawn"
             \/ /\ from = "open" /\ to = "final"
                /\ \E p \in Payment : Standing(payment[p]) = "executed"
      PROVE  [Promise!Next]_(Promise!vars)
  <2>1. CASE from = to
    <3>1. [q \in Reconciliation |-> Verdict(reconciliation'[q])] =
             [q \in Reconciliation |-> Verdict(reconciliation[q])]
      BY <1>5, <2>1
    <3>2. QED
      BY <1>2, <3>1 DEF Promise!vars
  <2>2. CASE from \in {"open", "final"} /\ to = "withdrawn"
    <3>1. Promise!Withdraw(r)
      BY <1>2, <1>5, <2>2 DEF Promise!Withdraw
    <3>2. QED
      BY <3>1 DEF Promise!Next
  <2>3. CASE /\ from = "open" /\ to = "final"
             /\ \E p \in Payment : Standing(payment[p]) = "executed"
    <3>1. Promise!Declare(r)
      BY <1>2, <1>5, <2>3 DEF Promise!Declare
    <3>2. QED
      BY <3>1 DEF Promise!Next
  <2>4. QED
    BY <1>5, <2>1, <2>2, <2>3
<1>6. ASSUME NEW r \in Reconciliation, NEW new \in ReconciliationRow,
             InsertReconciliation(r, new)
      PROVE  [Promise!Next]_(Promise!vars)
  <2>1. reconciliation[r] = Absent /\ reconciliation' = [reconciliation EXCEPT ![r] = new]
    BY <1>6 DEF InsertReconciliation
  <2>2. Verdict(reconciliation[r]) = "open"
    BY <2>1 DEF Verdict
  <2>3. CASE new = Absent
    BY <1>0, <1>4, <2>1, <2>3
  <2>4. CASE new # Absent
    <3> HIDE DEF Turns
    <3>1. Turns(r, Verdict(reconciliation[r]), Verdict(new))
      BY <1>3, <2>1
    <3>2. Verdict(new) \in {"open", "withdrawn"}
      BY <1>6, <2>4, InsertedReconciliation
    <3>3. \/ Verdict(reconciliation[r]) = Verdict(new)
          \/ Verdict(reconciliation[r]) = "open" /\ Verdict(new) = "withdrawn"
      BY <2>2, <3>2
    <3>4. QED
      BY <1>5, <3>1, <3>3
  <2>5. QED
    BY <2>3, <2>4
<1>7. ASSUME NEW r \in Reconciliation, CommitReconciliation(r)
      PROVE  [Promise!Next]_(Promise!vars)
  <2>1. /\ reconciliation[r] # Absent /\ reconciling[r] # Absent
        /\ reconciliation[r] \in ReconciliationRow /\ reconciling[r] \in ReconciliationRow
        /\ SettlementMoves(reconciliation[r], reconciling[r])
        /\ reconciliation' = [reconciliation EXCEPT ![r] = reconciling[r]]
    BY <1>7 DEF CommitReconciliation, IInv, TypeOK
  <2>2. ASSUME reconciling[r].state = "FINAL"
        PROVE  \E p \in Payment : Standing(payment[p]) = "executed"
    <3>1. Completed(reconciling[r].payment)
      BY <2>1, <2>2 DEF IInv, Supported, SupportedRow, Reconciled
    <3>2. reconciling[r].payment \in Payment
      BY <2>1 DEF ReconciliationRow
    <3>3. Standing(payment[reconciling[r].payment]) = "executed"
      BY <3>1 DEF Completed, Standing
    <3>4. QED
      BY <3>2, <3>3
  <2>3. QED
    BY <1>3, <1>5, <2>1, <2>2, VerdictMoves
<1>8. QED
  BY <1>4, <1>6, <1>7
  DEF SettlementStep, UpdateReconciliation, RollbackReconciliation, Dispute, Endorse, Judge

(***************************************************************************)
(* The triggers of 018 and 021 implement the promise: a settlement becomes *)
(* final only after its payment was executed, a payment is executed only   *)
(* after it was authorized, and what is withdrawn never returns.           *)
(***************************************************************************)
THEOREM TriggersKeepPromise == Spec => ImplementsPromise
<1>1. Init => Promise!Init
  BY DEF Init, Promise!Init, Standing, Verdict
<1>2. IInv /\ [Next]_vars => [Promise!Next]_(Promise!vars)
  <2> SUFFICES ASSUME IInv, [Next]_vars PROVE [Promise!Next]_(Promise!vars)
    OBVIOUS
  <2>1. CASE UNCHANGED vars
    BY <2>1 DEF vars, paymentVars, settlementVars, Promise!vars
  <2>2. QED
    BY <2>1, PaymentPromise, SettlementPromised DEF Next
<1>3. QED
  BY <1>1, <1>2, InvariantHolds, PTL DEF Spec, ImplementsPromise, Promise!Spec
=============================================================================
