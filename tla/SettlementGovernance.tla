------------------------- MODULE SettlementGovernance -------------------------
(***************************************************************************)
(* Settlement instructions of the Capitalization Block, the approval       *)
(* requests, compliance cases and release gate that their trigger reads,   *)
(* and the transactions that write them, under READ COMMITTED: a row is    *)
(* locked by its writer, every SELECT of a trigger sees what is committed  *)
(* at that moment, and none of them locks what it reads.                   *)
(*                                                                         *)
(* Columns that only a CHECK of their own row compares are left out (a     *)
(* write without them fails), and so are the history tables, whose rows    *)
(* are images of the steps.  Triggers forbid to delete a request, a case   *)
(* or an instruction and to change or delete a vote.                       *)
(***************************************************************************)
EXTENDS Naturals, FiniteSets

CONSTANTS
    Instruction, Request, Case, Actor,
    Quota,              \* the values of required_approvals in use
    Decision,           \* the decisions and statuses in use
    RequestStatus,
    CaseStatus,
    Status,
    None

Gate == "PRODUCTION_SETTLEMENT"

\* A row of approval_requests.
RequestRow == [status : RequestStatus, requester : Actor, required : Quota]

\* A row of settlement_instructions.
Row == [status : Status, request : Request \cup {None}, case : Case \cup {None},
        production : BOOLEAN]

\* A write in hand: the new row, what is read next, and the grounds (a history)
\* that held at some moment since it began.
WriteInHand ==
    [row : Row, next : {"approval", "case", "gate", "commit"},
     seen : SUBSET (Request \cup Case \cup {Gate})]

ASSUME GovernanceAssumption ==
    /\ Quota \subseteq Nat \ {0}
    /\ IsFiniteSet(Actor)
    /\ Request \cap Case = {} /\ Gate \notin Request \cup Case
    /\ "OPEN" \in CaseStatus
    /\ RequestStatus \subseteq {"PENDING", "APPROVED", "REJECTED", "EXPIRED", "CANCELLED"}
    /\ CaseStatus \subseteq
        {"OPEN", "IN_REVIEW", "CLEARED", "NOT_REQUIRED", "RESTRICTED", "DENIED", "CLOSED"}
    /\ Status \subseteq
        {"DRAFT", "PENDING_APPROVAL", "APPROVED", "SUBMITTED", "ACCEPTED", "SETTLED",
         "FAILED", "CANCELLED", "REVERSED", "RESTRICTED", "EXPIRED"}
    /\ Decision \subseteq {"APPROVE", "REJECT", "ABSTAIN"}
    /\ None \notin Request \cup Case
    /\ None \notin {"APPROVE", "REJECT", "ABSTAIN"}
    /\ None \notin RequestRow \cup Row \cup WriteInHand \cup [status : Status, production : BOOLEAN]

VARIABLES
    request,        \* approval_requests
    deciding,       \* the row that an open UPDATE gives the request
    votes,          \* approval_actions: one decision of each actor
    voting,         \* the decision that an open transaction inserts
    unexamined,     \* the requests inserted as APPROVED, which no trigger sees,
    granted,        \* the quotas on which each request was approved, and
    filers,         \* the actors that ever stood as its requester (three histories)
    case,           \* compliance_cases.case_status
    gate,           \* release_gates.enabled
    instruction,    \* settlement_instructions
    write           \* the INSERT or UPDATE of an instruction by an open transaction

histories == <<unexamined, granted, filers>>
approvalVars == <<request, deciding, votes, voting, unexamined, granted, filers>>
vars == <<request, deciding, votes, voting, unexamined, granted, filers,
          case, gate, instruction, write>>

Advanced == {"APPROVED", "SUBMITTED", "ACCEPTED", "SETTLED"}

\* Mutant: the case and the gate are read when the instruction is submitted.
UnderWayOnce == {"SUBMITTED"}

UnderWay == {"SUBMITTED", "ACCEPTED", "SETTLED"}

Init ==
    /\ request = [r \in Request |-> None]
    /\ deciding = [r \in Request |-> None]
    /\ unexamined = {}
    /\ granted = [r \in Request |-> {}]
    /\ filers = [r \in Request |-> {}]
    /\ votes = [r \in Request |-> [a \in Actor |-> None]]
    /\ voting = [r \in Request |-> [a \in Actor |-> None]]
    /\ case = [c \in Case |-> "OPEN"]
    /\ gate = FALSE
    /\ instruction = [i \in Instruction |-> None]
    /\ write = [i \in Instruction |-> None]

-----------------------------------------------------------------------------
\* What the trigger of an instruction looks for: the grounds that hold.
Cleared == {"CLEARED", "NOT_REQUIRED"}

Approved(r) == request[r] # None /\ request[r].status = "APPROVED"

Holding ==
    {r \in Request : Approved(r)} \cup {c \in Case : case[c] \in Cleared}
        \cup {g \in {Gate} : gate}

\* The writes in hand have seen the grounds that hold after this step.
Witnessed ==
    write' = [i \in Instruction |->
        IF write[i] = None THEN None ELSE [write[i] EXCEPT !.seen = @ \cup Holding']]

-----------------------------------------------------------------------------
\* approval_requests: the trigger is on UPDATE, so an INSERT may give any row.
InsertRequest(r, row) ==
    /\ request[r] = None
    /\ request' = [request EXCEPT ![r] = row]
    /\ unexamined' = unexamined \cup (IF row.status = "APPROVED" THEN {r} ELSE {})
    /\ filers' = [filers EXCEPT ![r] = @ \cup {row.requester}]
    /\ UNCHANGED <<deciding, votes, voting, granted, case, gate, instruction>>
    /\ Witnessed

\* approval_actions: the trigger reads the request before the row is committed.
BeginVote(r, a, d) ==
    /\ request[r] # None
    /\ request[r].status = "PENDING"
    /\ d # "ABSTAIN" => a # request[r].requester
    /\ votes[r][a] = None /\ voting[r][a] = None
    /\ voting' = [voting EXCEPT ![r][a] = d]
    /\ UNCHANGED <<request, deciding, votes, histories, case, gate, instruction, write>>

EndVote(r, a) ==
    /\ voting[r][a] # None
    /\ votes' \in {votes, [votes EXCEPT ![r][a] = voting[r][a]]}
    /\ voting' = [voting EXCEPT ![r][a] = None]
    /\ UNCHANGED <<request, deciding, histories, case, gate, instruction, write>>

Approvals(r) == {a \in Actor : votes[r][a] = "APPROVE"}
Rejections(r) == {a \in Actor : votes[r][a] = "REJECT"}

\* Mutant: the approvals are not counted.
ApprovableUnopposed(r, quota) == Rejections(r) = {}

Approvable(r, quota) == Cardinality(Approvals(r)) >= quota /\ Rejections(r) = {}

\* An UPDATE of a request, of any of its columns: the trigger counts the votes when
\* the status turns, and compares them with the quota that the UPDATE itself gives.
BeginDecision(r, row) ==
    /\ request[r] # None
    /\ deciding[r] = None /\ row # request[r]
    /\ row.status = "APPROVED" => Approved(r) \/ Approvable(r, row.required)
    /\ row.status = "REJECTED" => request[r].status = "REJECTED" \/ Rejections(r) # {}
    /\ deciding' = [deciding EXCEPT ![r] = row]
    /\ UNCHANGED <<request, votes, voting, histories, case, gate, instruction, write>>

\* The open UPDATE turns the status to APPROVED.
Approving(r) == deciding[r] # None /\ deciding[r].status = "APPROVED" /\ ~Approved(r)

CommitDecision(r) ==
    /\ deciding[r] # None
    /\ request' = [request EXCEPT ![r] = deciding[r]]
    /\ deciding' = [deciding EXCEPT ![r] = None]
    /\ granted' = [granted EXCEPT ![r] =
                     @ \cup (IF Approving(r) THEN {deciding[r].required} ELSE {})]
    /\ filers' = [filers EXCEPT ![r] = @ \cup {deciding[r].requester}]
    /\ UNCHANGED <<votes, voting, unexamined, case, gate, instruction>>
    /\ Witnessed

DropDecision(r) ==
    /\ deciding[r] # None
    /\ deciding' = [deciding EXCEPT ![r] = None]
    /\ UNCHANGED <<request, votes, voting, histories, case, gate, instruction, write>>

-----------------------------------------------------------------------------
SetCase(c, s) ==
    /\ case' = [case EXCEPT ![c] = s]
    /\ UNCHANGED <<approvalVars, gate, instruction>>
    /\ Witnessed

AuthorizeReleaseGate(enabled) ==
    /\ gate' = enabled
    /\ UNCHANGED <<approvalVars, case, instruction>>
    /\ Witnessed

-----------------------------------------------------------------------------
\* settlement_instructions
TransitionAllowed(old, new) ==
    \/ new = old
    \/ old = "DRAFT" /\ new \in {"PENDING_APPROVAL", "CANCELLED"}
    \/ old = "PENDING_APPROVAL" /\ new \in {"APPROVED", "RESTRICTED", "CANCELLED"}
    \/ old = "APPROVED" /\ new \in {"SUBMITTED", "RESTRICTED", "CANCELLED", "EXPIRED"}
    \/ old = "SUBMITTED" /\ new \in {"ACCEPTED", "FAILED", "CANCELLED", "RESTRICTED"}
    \/ old = "ACCEPTED" /\ new \in {"SETTLED", "FAILED", "REVERSED", "RESTRICTED"}
    \/ old = "SETTLED" /\ new = "REVERSED"
    \/ old = "RESTRICTED" /\ new \in {"PENDING_APPROVAL", "APPROVED", "CANCELLED"}

\* An INSERT may give any status; an UPDATE holds the row and follows the table.
BeginWrite(i, row) ==
    /\ write[i] = None
    /\ instruction[i] # None => TransitionAllowed(instruction[i].status, row.status)
    /\ row.request # None => request[row.request] # None
    /\ row.status \in Advanced \cup {"PENDING_APPROVAL"} => row.request # None
    /\ write' = [write EXCEPT ![i] = [row |-> row, next |-> "approval", seen |-> Holding]]
    /\ UNCHANGED <<approvalVars, case, gate, instruction>>

\* The SELECTs of the trigger, in their order; one that fails raises.
Reads(i, this, then) ==
    /\ write[i] # None
    /\ write[i].next = this
    /\ write' = [write EXCEPT ![i].next = then]
    /\ UNCHANGED <<approvalVars, case, gate, instruction>>

ReadApproval(i) ==
    /\ Reads(i, "approval", "case")
    /\ write[i].row.status \in Advanced => Approved(write[i].row.request)

ReadCase(i) ==
    /\ Reads(i, "case", "gate")
    /\ write[i].row.status \in UnderWay =>
        write[i].row.case # None /\ case[write[i].row.case] \in Cleared

ReadGate(i) ==
    /\ Reads(i, "gate", "commit")
    /\ write[i].row.status \in UnderWay /\ write[i].row.production => gate

\* Mutant: the row is kept with what the transaction knew of it.
CommitWriteWhole(i) ==
    /\ write[i] # None
    /\ write[i].next = "commit"
    /\ instruction' = [instruction EXCEPT ![i] = write[i]]
    /\ write' = [write EXCEPT ![i] = None]
    /\ UNCHANGED <<approvalVars, case, gate>>

CommitWrite(i) ==
    /\ write[i] # None
    /\ write[i].next = "commit"
    /\ instruction' = [instruction EXCEPT ![i] = write[i].row]
    /\ write' = [write EXCEPT ![i] = None]
    /\ UNCHANGED <<approvalVars, case, gate>>

FailWrite(i) ==
    /\ write[i] # None
    /\ write' = [write EXCEPT ![i] = None]
    /\ UNCHANGED <<approvalVars, case, gate, instruction>>

-----------------------------------------------------------------------------
ApprovalStep ==
    \E r \in Request :
        \/ \E a \in Actor : EndVote(r, a) \/ \E d \in Decision : BeginVote(r, a, d)
        \/ CommitDecision(r) \/ DropDecision(r)
        \/ \E row \in RequestRow : BeginDecision(r, row) \/ InsertRequest(r, row)

WriteStep ==
    \E i \in Instruction :
        \/ \E row \in Row : BeginWrite(i, row)
        \/ ReadApproval(i) \/ ReadCase(i) \/ ReadGate(i)
        \/ CommitWrite(i) \/ FailWrite(i)

Next ==
    \/ ApprovalStep
    \/ WriteStep
    \/ \E c \in Case, s \in CaseStatus : SetCase(c, s)
    \/ \E enabled \in BOOLEAN : AuthorizeReleaseGate(enabled)

Spec == Init /\ [][Next]_vars

-----------------------------------------------------------------------------
\* Properties

TypeOK ==
    /\ request \in [Request -> RequestRow \cup {None}]
    /\ deciding \in [Request -> RequestRow \cup {None}]
    /\ votes \in [Request -> [Actor -> Decision \cup {None}]]
    /\ voting \in [Request -> [Actor -> Decision \cup {None}]]
    /\ unexamined \subseteq Request
    /\ granted \in [Request -> SUBSET Quota]
    /\ filers \in [Request -> SUBSET Actor]
    /\ case \in [Case -> CaseStatus]
    /\ gate \in BOOLEAN
    /\ instruction \in [Instruction -> Row \cup {None}]
    /\ write \in [Instruction -> WriteInHand \cup {None}]

\* The approvals by actors other than the one that always stood as the requester.
Endorsers(r) == {a \in Approvals(r) : \E q \in filers[r] : q # a}

\* The request of an instruction that is approved or further was approved on some
\* quota, and has approvals for every quota it was ever approved on, none of them by
\* an actor that alone was ever its requester, although the request is read without
\* a lock and may be taken back, given another quota or requester, and approved anew
\* while the instruction moves.  Only of a request inserted as APPROVED does the
\* code ask nothing.
AdvancedIsEndorsed ==
    \A i \in Instruction :
        instruction[i] # None /\ instruction[i].status \in Advanced =>
            LET r == instruction[i].request
            IN  /\ r # None
                /\ r \notin unexamined => granted[r] # {}
                /\ \A quota \in granted[r] : Cardinality(Endorsers(r)) >= quota

\* An approved request has no rejection, if the triggers saw all its rows.
ApprovedIsUnopposed == \A r \in Request \ unexamined : Approved(r) => Rejections(r) = {}

Kept(row) == [status |-> row.status, production |-> row.production]
InstructionsKept ==
    [i \in Instruction |-> IF instruction[i] = None THEN None ELSE Kept(instruction[i])]
Writing == {i \in Instruction : write[i] # None}
WritesSeen == [i \in Instruction |-> IF write[i] = None THEN {} ELSE write[i].seen]

Promise == INSTANCE ReleasePromise WITH
    kept <- InstructionsKept, holding <- Holding, writing <- Writing, seen <- WritesSeen

\* Every write of an instruction rests on an approval, a clearance and an open gate
\* that each held at some moment of that write, and no instruction leaves its end.
ImplementsRelease == Promise!Spec
=============================================================================
