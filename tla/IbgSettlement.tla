---------------------------- MODULE IbgSettlement ----------------------------
(***************************************************************************)
(* Payment instructions (018_ibg_payment_orchestration) and the            *)
(* reconciliations that declare them settled (021_ibg_settlement_finality).*)
(* Both tables are moved by UPDATEs of the service role, which BEFORE      *)
(* triggers refuse or let pass.  Rows of payment_state_history are written *)
(* and never read, and are left out; so are the columns no trigger reads.  *)
(*                                                                         *)
(* An UPDATE takes two steps: the triggers run under the row's lock and    *)
(* read the other tables as committed at that moment; the new version and  *)
(* its finality event appear at the commit, before which any other session *)
(* may write those tables.  An UPDATE may set every column at once, so it  *)
(* is a choice of the whole new row.                                       *)
(***************************************************************************)
EXTENDS Integers, FiniteSets

CONSTANTS
    Payment,         \* payment instructions
    Observation,     \* rows of settlement_observations, which never change
    Reconciliation,  \* reconciliation rows
    Actor,           \* approvers
    PaymentRole,     \* roles of a payment approval
    SettlementRole,  \* roles of a settlement approval
    Decision,        \* approval_decision and decision
    Money,           \* an amount of an asset
    ObservedMoney,   \* what an observation saw move
    ObservedStatus,  \* observation_status of each observation
    Compliance,      \* compliance_status
    Dispatch,        \* what an instruction has of what its dispatch needs
    Reviewed,        \* of account and route, those promoted or suspended meanwhile
    MatchStatus,     \* match_status
    Agreement,       \* amount_matches and asset_matches
    ExceptionCount,  \* exception_count
    MaxRequired,     \* bound on required_approvals
    Absent           \* no row, no UPDATE

ASSUME SettlementAssumption ==
    /\ ObservedMoney \in [Observation -> Money]
    /\ ObservedStatus \in [Observation -> {"OBSERVED", "RETURNED", "REVERSED", "REJECTED"}]
    /\ MaxRequired \in Nat
    /\ ExceptionCount \subseteq Nat
    /\ "CLEAR" \in Compliance
    \* provider_reference; and with it production_execution_enabled and a route
    /\ Dispatch \subseteq {"none", "referenced", "ready"}
    /\ Reviewed \subseteq {"account", "route"}
    /\ Decision \subseteq {"APPROVED", "REJECTED", "REVOKED"}

VARIABLES
    payment,         \* payment_instructions
    approvals,       \* payment_approvals
    held,            \* payments with an ACTIVE, unexpired compliance hold
    standing,        \* which of its account and its route are fit for production
    match,           \* settlement_matches
    reconciliation,  \* settlement_reconciliations
    endorsements,    \* settlement_approvals
    disputed,        \* reconciliations with an unresolved settlement exception
    events,          \* the newest row of settlement_finality_events
    paying,          \* the tested, uncommitted UPDATE of each payment
    reconciling      \* the tested, uncommitted UPDATE of each reconciliation

paymentVars == <<payment, approvals, held, standing, paying>>
settlementVars == <<match, reconciliation, endorsements, disputed, events, reconciling>>
vars == <<paymentVars, settlementVars>>

CheckerRole == {"RECONCILIATION_CHECKER", "FINALITY_CHECKER"}

Provider == {"SUBMITTED", "ACCEPTED", "PROCESSING", "COMPLETED"}
Routed == {"READY"} \cup Provider
Advanced == {"APPROVED"} \cup Routed

PaymentState ==
    Advanced \cup {"DRAFT", "PENDING_APPROVAL", "REJECTED", "CANCELLED", "FAILED",
                  "RETURNED", "EXPIRED", "ON_HOLD"}

PaymentTransition == UNION {
    {"DRAFT"}            \X {"PENDING_APPROVAL", "CANCELLED"},
    {"PENDING_APPROVAL"} \X {"APPROVED", "REJECTED", "ON_HOLD", "CANCELLED", "EXPIRED"},
    {"ON_HOLD"}          \X {"PENDING_APPROVAL", "REJECTED", "CANCELLED", "EXPIRED"},
    {"APPROVED"}         \X {"READY", "ON_HOLD", "CANCELLED", "EXPIRED"},
    {"READY"}            \X {"SUBMITTED", "ON_HOLD", "CANCELLED", "EXPIRED"},
    {"SUBMITTED"}        \X {"ACCEPTED", "PROCESSING", "FAILED", "RETURNED"},
    {"ACCEPTED"}         \X {"PROCESSING", "COMPLETED", "FAILED", "RETURNED"},
    {"PROCESSING"}       \X {"COMPLETED", "FAILED", "RETURNED"} }

Reconciled == {"RECONCILED", "FINALITY_PENDING", "FINAL"}
Questioned == {"DISPUTED", "MANUAL_REVIEW", "DUPLICATE"}
SettlementState ==
    Reconciled \cup Questioned \cup {"MATCHED", "PARTIAL", "RETURNED", "REVERSED", "REJECTED"}

SettlementTransition == UNION {
    {"MATCHED"}          \X ({"PARTIAL", "RECONCILED", "REJECTED"} \cup Questioned),
    {"PARTIAL"}          \X {"RECONCILED", "DISPUTED", "MANUAL_REVIEW", "REJECTED"},
    {"RECONCILED"}       \X {"FINALITY_PENDING", "RETURNED", "REVERSED", "DISPUTED"},
    {"FINALITY_PENDING"} \X {"FINAL", "RETURNED", "REVERSED", "DISPUTED", "REJECTED"},
    {"FINAL"}            \X {"RETURNED", "REVERSED"},
    Questioned           \X {"MATCHED", "RECONCILED", "REJECTED"} }

PaymentRow ==
    [state : PaymentState, compliance : Compliance, required : 2..MaxRequired,
     money : Money, dispatch : Dispatch]
\* payment is the one its match named when the row was written.
ReconciliationRow ==
    [state : SettlementState, observation : Observation, payment : Payment,
     money : Money, exceptions : ExceptionCount]
Match == [status : MatchStatus, agrees : Agreement]

FinalityEvent ==
    {e \in [prior : SettlementState, new : SettlementState] :
        <<e.prior, e.new>> \in SettlementTransition}

PaymentApproval == [payment : Payment, actor : Actor, role : PaymentRole, decision : Decision]
Endorsement ==
    [reconciliation : Reconciliation, actor : Actor, role : SettlementRole, decision : Decision]

Init ==
    /\ payment = [p \in Payment |-> Absent]
    /\ approvals = {}
    /\ held = {}
    /\ standing = [p \in Payment |-> {"account", "route"} \ Reviewed]
    /\ match = [pair \in Observation \X Payment |-> Absent]
    /\ reconciliation = [r \in Reconciliation |-> Absent]
    /\ endorsements = {}
    /\ disputed = {}
    /\ events = [r \in Reconciliation |-> Absent]
    /\ paying = [p \in Payment |-> Absent]
    /\ reconciling = [r \in Reconciliation |-> Absent]

-----------------------------------------------------------------------------
\* Payment instructions

ApprovalsOf(p) == {a \in approvals : a.payment = p /\ a.decision = "APPROVED"}

\* validate_payment_execution_gate
ExecutionGate(p, new) ==
    /\ new.state \in Advanced =>
          /\ Cardinality(ApprovalsOf(p)) >= new.required
          /\ new.compliance = "CLEAR"
          /\ p \notin held
    /\ new.state \in Routed => "account" \in standing[p]
    /\ new.state \in Provider => new.dispatch = "ready" /\ "route" \in standing[p]

ProviderReferenced(new) ==
    new.state \in Provider \cup {"RETURNED"} => new.dispatch # "none"

InsertPayment(p, new) ==
    /\ payment[p] = Absent
    /\ ExecutionGate(p, new)
    /\ ProviderReferenced(new)
    /\ payment' = [payment EXCEPT ![p] = new]
    /\ UNCHANGED <<approvals, held, standing, paying, settlementVars>>

\* Mutant: a completed payment may still be returned.
PaymentMovesLate(old, new) ==
    \/ new.state = old.state
    \/ <<old.state, new.state>> \in PaymentTransition
    \/ old.state = "COMPLETED" /\ new.state = "RETURNED"

\* validate_payment_state_transition
PaymentMoves(old, new) ==
    new.state = old.state \/ <<old.state, new.state>> \in PaymentTransition

UpdatePayment(p, new) ==
    /\ payment[p] # Absent
    /\ paying[p] = Absent
    /\ new # payment[p]
    /\ PaymentMoves(payment[p], new)
    /\ ExecutionGate(p, new)
    /\ ProviderReferenced(new)
    /\ paying' = [paying EXCEPT ![p] = new]
    /\ UNCHANGED <<payment, approvals, held, standing, settlementVars>>

CommitPayment(p) ==
    /\ paying[p] # Absent
    /\ payment' = [payment EXCEPT ![p] = paying[p]]
    /\ paying' = [paying EXCEPT ![p] = Absent]
    /\ UNCHANGED <<approvals, held, standing, settlementVars>>

RollbackPayment(p) ==
    /\ paying[p] # Absent
    /\ paying' = [paying EXCEPT ![p] = Absent]
    /\ UNCHANGED <<payment, approvals, held, standing, settlementVars>>

\* One row for each payment, actor and role, never updated.
Approve(p, x, role, d) ==
    /\ payment[p] # Absent
    /\ ~\E a \in approvals : a.payment = p /\ a.actor = x /\ a.role = role
    /\ approvals' =
          approvals \cup {[payment |-> p, actor |-> x, role |-> role, decision |-> d]}
    /\ UNCHANGED <<payment, held, standing, paying, settlementVars>>

\* A hold is imposed, released or expires.
Hold(p) ==
    /\ payment[p] # Absent
    /\ held' \in {held \cup {p}, held \ {p}}
    /\ UNCHANGED <<payment, approvals, standing, paying, settlementVars>>

\* The source account, its custodian, the route's institution or its node are
\* promoted or suspended.
Review(p, part) ==
    /\ standing' \in {[standing EXCEPT ![p] = @ \cup {part}],
                      [standing EXCEPT ![p] = @ \ {part}]}
    /\ UNCHANGED <<payment, approvals, held, paying, settlementVars>>

-----------------------------------------------------------------------------
\* Reconciliations

EndorsementsOf(r) ==
    {a \in endorsements :
        /\ a.reconciliation = r
        /\ a.decision = "APPROVED"
        /\ a.role \in CheckerRole}

MatchOf(new) == match[<<new.observation, new.payment>>]

Reconcilable(new) ==
    /\ MatchOf(new) = [status |-> "MATCHED", agrees |-> TRUE]
    /\ new.money = ObservedMoney[new.observation]
    /\ new.money = payment[new.payment].money
    /\ payment[new.payment].state = "COMPLETED"

\* Mutant: one endorsement is enough.
FinalizableByOne(r, new) ==
    /\ Cardinality(EndorsementsOf(r)) >= 1
    /\ r \notin disputed
    /\ new.exceptions = 0
    /\ ObservedStatus[new.observation] = "OBSERVED"

Finalizable(r, new) ==
    /\ Cardinality(EndorsementsOf(r)) >= 2
    /\ r \notin disputed
    /\ new.exceptions = 0
    /\ ObservedStatus[new.observation] = "OBSERVED"

\* validate_settlement_reconciliation
SettlementGate(r, new) ==
    /\ MatchOf(new) # Absent
    /\ new.state \in Reconciled => Reconcilable(new)
    /\ new.state = "FINAL" => Finalizable(r, new)

InsertReconciliation(r, new) ==
    /\ reconciliation[r] = Absent
    /\ SettlementGate(r, new)
    /\ reconciliation' = [reconciliation EXCEPT ![r] = new]
    /\ UNCHANGED <<match, endorsements, disputed, events, reconciling, paymentVars>>

\* Mutant: a dispute may reopen a final settlement.
SettlementMovesBack(old, new) ==
    \/ new.state = old.state
    \/ <<old.state, new.state>> \in SettlementTransition
    \/ old.state = "FINAL" /\ new.state = "DISPUTED"

\* validate_settlement_transition
SettlementMoves(old, new) ==
    new.state = old.state \/ <<old.state, new.state>> \in SettlementTransition

UpdateReconciliation(r, new) ==
    /\ reconciliation[r] # Absent
    /\ reconciling[r] = Absent
    /\ new # reconciliation[r]
    /\ SettlementMoves(reconciliation[r], new)
    /\ SettlementGate(r, new)
    /\ reconciling' = [reconciling EXCEPT ![r] = new]
    /\ UNCHANGED <<match, reconciliation, endorsements, disputed, events, paymentVars>>

\* Mutant: the AFTER trigger takes NEW for OLD.
RecordedBackwards(last, old, new) ==
    IF new.state = old.state THEN last ELSE [prior |-> new.state, new |-> old.state]

\* The newest finality event after an UPDATE.
Recorded(last, old, new) ==
    IF new.state = old.state THEN last ELSE [prior |-> old.state, new |-> new.state]

CommitReconciliation(r) ==
    /\ reconciling[r] # Absent
    /\ reconciliation' = [reconciliation EXCEPT ![r] = reconciling[r]]
    /\ events' = [events EXCEPT ![r] = Recorded(@, reconciliation[r], reconciling[r])]
    /\ reconciling' = [reconciling EXCEPT ![r] = Absent]
    /\ UNCHANGED <<match, endorsements, disputed, paymentVars>>

RollbackReconciliation(r) ==
    /\ reconciling[r] # Absent
    /\ reconciling' = [reconciling EXCEPT ![r] = Absent]
    /\ UNCHANGED <<match, reconciliation, endorsements, disputed, events, paymentVars>>

Endorse(r, x, role, d) ==
    /\ reconciliation[r] # Absent
    /\ ~\E a \in endorsements : a.reconciliation = r /\ a.actor = x /\ a.role = role
    /\ endorsements' =
          endorsements \cup {[reconciliation |-> r, actor |-> x, role |-> role, decision |-> d]}
    /\ UNCHANGED <<match, reconciliation, disputed, events, reconciling, paymentVars>>

\* An exception is opened, or all of them are resolved, waived or rejected.
Dispute(r) ==
    /\ reconciliation[r] # Absent
    /\ disputed' \in {disputed \cup {r}, disputed \ {r}}
    /\ UNCHANGED <<match, reconciliation, endorsements, events, reconciling, paymentVars>>

\* A match is proposed, judged again, or moved to another observation or payment,
\* where it leaves none; no trigger watches the table.
Judge(o, p, m) ==
    /\ payment[p] # Absent
    /\ match' = [match EXCEPT ![<<o, p>>] = m]
    /\ UNCHANGED <<reconciliation, endorsements, disputed, events, reconciling, paymentVars>>

PaymentStep ==
    \E p \in Payment :
        \/ \E new \in PaymentRow : InsertPayment(p, new) \/ UpdatePayment(p, new)
        \/ CommitPayment(p) \/ RollbackPayment(p) \/ Hold(p)
        \/ \E x \in Actor, role \in PaymentRole, d \in Decision : Approve(p, x, role, d)
        \/ \E part \in Reviewed : Review(p, part)

SettlementStep ==
    \/ \E r \in Reconciliation :
          \/ \E new \in ReconciliationRow :
                InsertReconciliation(r, new) \/ UpdateReconciliation(r, new)
          \/ CommitReconciliation(r) \/ RollbackReconciliation(r) \/ Dispute(r)
          \/ \E x \in Actor, role \in SettlementRole, d \in Decision : Endorse(r, x, role, d)
    \/ \E o \in Observation, p \in Payment, m \in Match \cup {Absent} : Judge(o, p, m)

Next == PaymentStep \/ SettlementStep

Spec == Init /\ [][Next]_vars

-----------------------------------------------------------------------------
\* Properties

\* The abstract standing of an instruction and of a reconciliation.
Standing(row) ==
    IF row = Absent THEN "intended"
    ELSE CASE row.state = "COMPLETED" -> "executed"
           [] row.state \in Advanced \ {"COMPLETED"} -> "authorized"
           [] row.state \in {"DRAFT", "PENDING_APPROVAL", "ON_HOLD"} -> "intended"
           [] OTHER -> "closed"

Verdict(row) ==
    IF row = Absent THEN "open"
    ELSE CASE row.state = "FINAL" -> "final"
           [] row.state \in {"RETURNED", "REVERSED", "REJECTED"} -> "withdrawn"
           [] OTHER -> "open"

\* Rows have their columns' types, an UPDATE is open only on a row that exists,
\* and what it is about to record, or has recorded last, is a move of the state
\* machine.
TypeOK ==
    /\ payment \in [Payment -> PaymentRow \cup {Absent}]
    /\ approvals \subseteq PaymentApproval
    /\ held \subseteq Payment
    /\ standing \in [Payment -> SUBSET {"account", "route"}]
    /\ match \in [Observation \X Payment -> Match \cup {Absent}]
    /\ reconciliation \in [Reconciliation -> ReconciliationRow \cup {Absent}]
    /\ endorsements \subseteq Endorsement
    /\ disputed \subseteq Reconciliation
    /\ events \in [Reconciliation -> FinalityEvent \cup {Absent}]
    /\ paying \in [Payment -> PaymentRow \cup {Absent}]
    /\ reconciling \in [Reconciliation -> ReconciliationRow \cup {Absent}]
    /\ \A p \in Payment : paying[p] # Absent =>
          payment[p] # Absent /\ PaymentMoves(payment[p], paying[p])
    /\ \A r \in Reconciliation : reconciling[r] # Absent =>
          reconciliation[r] # Absent /\ SettlementMoves(reconciliation[r], reconciling[r])

\* An instruction that is approved or further on has the approvals it requires
\* and is cleared, whatever its requirement is raised to or its clearance is
\* changed to meanwhile.
AdvancedIsApproved ==
    \A p \in Payment :
        payment[p] # Absent /\ payment[p].state \in Advanced =>
            /\ Cardinality(ApprovalsOf(p)) >= payment[p].required
            /\ payment[p].compliance = "CLEAR"

\* What is reconciled, awaits finality or is final rests on a payment the
\* provider completed: the one its match named when the row was last tested
\* stays completed, though it was read without a lock.
ReconciledIsCompleted ==
    \A r \in Reconciliation :
        LET row == reconciliation[r] IN
        row # Absent /\ row.state \in Reconciled =>
            payment[row.payment] # Absent /\ payment[row.payment].state = "COMPLETED"

\* A final settlement carries two endorsements of checkers, its newest event is
\* the one that made it final, and its evidence still stands and names the sum
\* it settles.
FinalIsEndorsed ==
    \A r \in Reconciliation :
        LET row == reconciliation[r] IN
        row # Absent /\ row.state = "FINAL" =>
            /\ Cardinality(EndorsementsOf(r)) >= 2
            /\ events[r] = [prior |-> "FINALITY_PENDING", new |-> "FINAL"]
            /\ ObservedStatus[row.observation] = "OBSERVED"
            /\ ObservedMoney[row.observation] = row.money

\* What IBG_06_SETTLEMENT_FINALITY.md says of finality: it takes the approval of
\* a reconciliation checker and of a finality checker.
FinalHasBothCheckers ==
    \A r \in Reconciliation :
        reconciliation[r] # Absent /\ reconciliation[r].state = "FINAL" =>
            \A role \in CheckerRole : \E a \in EndorsementsOf(r) : a.role = role

Promise == INSTANCE SettlementPromise WITH
    instruction <- [p \in Payment |-> Standing(payment[p])],
    verdict <- [r \in Reconciliation |-> Verdict(reconciliation[r])]

\* The tables implement the order of the settlement promise: authorization,
\* then execution, then finality, which only a withdrawal ends.
ImplementsPromise == Promise!Spec
=============================================================================
