----------------------- MODULE SettlementGovernanceProofs -----------------------
(***************************************************************************)
(* Proofs about SettlementGovernance, for any instructions, requests,      *)
(* cases and actors and any quotas.                                        *)
(***************************************************************************)
EXTENDS SettlementGovernance, FiniteSetTheorems, TLAPS

\* The request has been approved on some quota, or was inserted as approved.
Granted(r) == r \in unexamined \/ granted[r] # {}

\* The request has a quota of approvals by others than its requester.
Met(r, quota) == Cardinality(Endorsers(r)) >= quota

\* Some requester that the request has had is not this actor.
Apart(r, a) == \E q \in filers[r] : q # a

\* Who decides, in a vote or in one that is being inserted, is not the only
\* requester, and nobody votes twice.
VotesApart ==
    \A r \in Request, a \in Actor :
        /\ votes[r][a] \in {"APPROVE", "REJECT"} => Apart(r, a)
        /\ voting[r][a] \in {"APPROVE", "REJECT"} => Apart(r, a)
        /\ voting[r][a] # None => votes[r][a] = None

\* Open UPDATEs are of rows that exist, and the requester on a row is on record.
RequestsFiled ==
    \A r \in Request :
        /\ deciding[r] # None => request[r] # None
        /\ request[r] # None => request[r].requester \in filers[r]

\* A request is approved, or is being approved, on enough approvals.
RequestsGranted ==
    \A r \in Request :
        /\ Approved(r) => Granted(r)
        /\ Approving(r) => Met(r, deciding[r].required)
        /\ \A quota \in granted[r] : Met(r, quota)

\* A write has seen what holds now, and only granted requests among it.
SeenGranted ==
    \A i \in Instruction : write[i] # None =>
        /\ Holding \subseteq write[i].seen
        /\ \A r \in Request \cap write[i].seen : Granted(r)

\* An instruction that advanced did so on a granted request.
AdvancedGranted ==
    \A i \in Instruction : instruction[i] # None /\ instruction[i].status \in Advanced =>
        instruction[i].request \in Request /\ Granted(instruction[i].request)

\* What the trigger has read for a write is among the grounds that it has seen.
Backed(w) ==
    /\ w.row.status \in Advanced => w.row.request # None
    /\ w.row.status \in Advanced /\ w.next # "approval" => w.row.request \in Request \cap w.seen
    /\ w.row.status \in UnderWay /\ w.next \in {"gate", "commit"} => w.row.case \in Case \cap w.seen
    /\ w.row.status \in UnderWay /\ w.row.production /\ w.next = "commit" => Gate \in w.seen

WritesBacked == \A i \in Instruction : write[i] # None => Backed(write[i])

\* The row is locked: what the transition was tested against is still there.
WritesFollow ==
    \A i \in Instruction : write[i] # None /\ instruction[i] # None =>
        TransitionAllowed(instruction[i].status, write[i].row.status)

GovernanceInv ==
    /\ TypeOK
    /\ VotesApart /\ RequestsFiled /\ RequestsGranted
    /\ SeenGranted /\ AdvancedGranted
    /\ WritesBacked /\ WritesFollow

-----------------------------------------------------------------------------
\* The types.
LEMMA InitTyped == Init => TypeOK
<1>1. "OPEN" \in CaseStatus
  BY GovernanceAssumption
<1>2. ASSUME Init PROVE TypeOK
  <2>1. /\ request \in [Request -> RequestRow \cup {None}] /\ unexamined \subseteq Request
        /\ case \in [Case -> CaseStatus]
    BY <1>1, <1>2 DEF Init
  <2>2. /\ votes \in [Request -> [Actor -> Decision \cup {None}]]
        /\ voting \in [Request -> [Actor -> Decision \cup {None}]]
    BY <1>2 DEF Init
  <2>3. /\ deciding \in [Request -> RequestRow \cup {None}]
        /\ granted \in [Request -> SUBSET Quota] /\ filers \in [Request -> SUBSET Actor]
        /\ gate \in BOOLEAN
    BY <1>2 DEF Init
  <2>4. /\ instruction \in [Instruction -> Row \cup {None}]
        /\ write \in [Instruction -> WriteInHand \cup {None}]
    BY <1>2 DEF Init
  <2> QED
    BY <2>1, <2>2, <2>3, <2>4 DEF TypeOK
<1> QED
  BY <1>2

\* The grounds that hold are requests, cases and the gate.
LEMMA HoldingGround == Holding \subseteq Request \cup Case \cup {Gate}
  BY DEF Holding

\* What the open writes have witnessed keeps them of their type.
LEMMA WitnessedTyped ==
  ASSUME TypeOK, Witnessed
  PROVE  write' \in [Instruction -> WriteInHand \cup {None}]
<1>1. Holding' \subseteq Request \cup Case \cup {Gate}
  BY DEF Holding
<1>2. ASSUME NEW w \in WriteInHand
      PROVE  [w EXCEPT !.seen = @ \cup Holding'] \in WriteInHand
  BY <1>1 DEF WriteInHand
<1>3. ASSUME NEW i \in Instruction
      PROVE  (IF write[i] = None THEN None ELSE [write[i] EXCEPT !.seen = @ \cup Holding'])
                \in WriteInHand \cup {None}
  BY <1>2 DEF TypeOK
<1> QED
  BY <1>3 DEF Witnessed

\* Approval steps preserve the types.
LEMMA ApprovalTyped == ASSUME TypeOK, ApprovalStep PROVE TypeOK'
<1> PICK r \in Request :
      \/ \E a \in Actor : EndVote(r, a) \/ \E d \in Decision : BeginVote(r, a, d)
      \/ CommitDecision(r) \/ DropDecision(r)
      \/ \E row \in RequestRow : BeginDecision(r, row) \/ InsertRequest(r, row)
  BY DEF ApprovalStep
<1>1. ASSUME NEW a \in Actor, NEW d \in Decision, BeginVote(r, a, d) PROVE TypeOK'
  <2>1. [voting[r] EXCEPT ![a] = d] \in [Actor -> Decision \cup {None}]
    BY DEF TypeOK
  <2>2. voting' = [voting EXCEPT ![r] = [voting[r] EXCEPT ![a] = d]]
    BY <1>1 DEF BeginVote
  <2> QED
    BY <1>1, <2>1, <2>2 DEF BeginVote, TypeOK, histories
<1>2. ASSUME NEW a \in Actor, EndVote(r, a) PROVE TypeOK'
  <2>1. /\ [voting[r] EXCEPT ![a] = None] \in [Actor -> Decision \cup {None}]
        /\ [votes[r] EXCEPT ![a] = voting[r][a]] \in [Actor -> Decision \cup {None}]
    BY DEF TypeOK
  <2>2. /\ voting' = [voting EXCEPT ![r] = [voting[r] EXCEPT ![a] = None]]
        /\ votes' \in {votes, [votes EXCEPT ![r] = [votes[r] EXCEPT ![a] = voting[r][a]]]}
    BY <1>2 DEF EndVote
  <2>3. /\ voting' \in [Request -> [Actor -> Decision \cup {None}]]
        /\ votes' \in [Request -> [Actor -> Decision \cup {None}]]
    BY <2>1, <2>2 DEF TypeOK
  <2> QED
    BY <1>2, <2>3 DEF EndVote, TypeOK, histories
<1>3. ASSUME NEW row \in RequestRow, BeginDecision(r, row) PROVE TypeOK'
  BY <1>3 DEF BeginDecision, TypeOK, histories
<1>4. CASE CommitDecision(r)
  <2>1. write' \in [Instruction -> WriteInHand \cup {None}]
    BY <1>4, WitnessedTyped DEF CommitDecision
  <2>2. deciding[r] \in RequestRow
    BY <1>4 DEF CommitDecision, TypeOK
  <2>3. deciding[r].required \in Quota /\ deciding[r].requester \in Actor
    BY <2>2 DEF RequestRow
  <2>4. (IF Approving(r) THEN {deciding[r].required} ELSE {}) \in SUBSET Quota
    BY <2>3
  <2>5. granted' \in [Request -> SUBSET Quota] /\ filers' \in [Request -> SUBSET Actor]
    BY <1>4, <2>3, <2>4 DEF CommitDecision, TypeOK
  <2> QED
    BY <1>4, <2>1, <2>2, <2>5 DEF CommitDecision, TypeOK
<1>5. CASE DropDecision(r)
  BY <1>5 DEF DropDecision, TypeOK, histories
<1>6. ASSUME NEW row \in RequestRow, InsertRequest(r, row) PROVE TypeOK'
  <2>1. write' \in [Instruction -> WriteInHand \cup {None}]
    BY <1>6, WitnessedTyped DEF InsertRequest
  <2>2. row.requester \in Actor
    BY DEF RequestRow
  <2> QED
    BY <1>6, <2>1, <2>2 DEF InsertRequest, TypeOK
<1> QED
  BY <1>1, <1>2, <1>3, <1>4, <1>5, <1>6

\* A SELECT of the trigger keeps the write of its type.
LEMMA ReadsTyped ==
  ASSUME TypeOK, NEW i \in Instruction, NEW this,
         NEW then \in {"approval", "case", "gate", "commit"}, Reads(i, this, then)
  PROVE  TypeOK'
<1>1. write[i] \in WriteInHand
  BY DEF Reads, TypeOK
<1>2. [write[i] EXCEPT !.next = then] \in WriteInHand
  BY <1>1 DEF WriteInHand
<1>3. write' = [write EXCEPT ![i] = [write[i] EXCEPT !.next = then]]
  BY DEF Reads
<1>4. write' \in [Instruction -> WriteInHand \cup {None}]
  BY <1>2, <1>3 DEF TypeOK
<1> QED
  BY <1>4 DEF Reads, TypeOK, approvalVars

\* Steps that write an instruction preserve the types.
LEMMA WriteTyped == ASSUME TypeOK, WriteStep PROVE TypeOK'
<1> PICK i \in Instruction :
      \/ \E row \in Row : BeginWrite(i, row)
      \/ ReadApproval(i) \/ ReadCase(i) \/ ReadGate(i)
      \/ CommitWrite(i) \/ FailWrite(i)
  BY DEF WriteStep
<1>1. ASSUME NEW row \in Row, BeginWrite(i, row) PROVE TypeOK'
  <2>1. [row |-> row, next |-> "approval", seen |-> Holding] \in WriteInHand
    BY HoldingGround DEF WriteInHand
  <2> QED
    BY <1>1, <2>1 DEF BeginWrite, TypeOK, approvalVars
<1>2. CASE ReadApproval(i) \/ ReadCase(i) \/ ReadGate(i)
  BY <1>2, ReadsTyped DEF ReadApproval, ReadCase, ReadGate
<1>3. CASE CommitWrite(i)
  <2>1. write[i].row \in Row
    BY <1>3 DEF CommitWrite, TypeOK, WriteInHand
  <2> QED
    BY <1>3, <2>1 DEF CommitWrite, TypeOK, approvalVars
<1>4. CASE FailWrite(i)
  BY <1>4 DEF FailWrite, TypeOK, approvalVars
<1> QED
  BY <1>1, <1>2, <1>3, <1>4

\* Every step preserves the types.
LEMMA NextTyped == ASSUME TypeOK, [Next]_vars PROVE TypeOK'
<1>1. ASSUME NEW c \in Case, NEW s \in CaseStatus, SetCase(c, s) PROVE TypeOK'
  <2>1. write' \in [Instruction -> WriteInHand \cup {None}]
    BY <1>1, WitnessedTyped DEF SetCase
  <2> QED
    BY <1>1, <2>1 DEF SetCase, TypeOK, approvalVars
<1>2. ASSUME NEW enabled \in BOOLEAN, AuthorizeReleaseGate(enabled) PROVE TypeOK'
  <2>1. write' \in [Instruction -> WriteInHand \cup {None}]
    BY <1>2, WitnessedTyped DEF AuthorizeReleaseGate
  <2> QED
    BY <1>2, <2>1 DEF AuthorizeReleaseGate, TypeOK, approvalVars
<1>3. CASE UNCHANGED vars
  BY <1>3 DEF vars, TypeOK
<1> QED
  BY <1>1, <1>2, <1>3, ApprovalTyped, WriteTyped DEF Next

\* Every table keeps its column types.
THEOREM TypeCorrect == Spec => []TypeOK
  BY InitTyped, NextTyped, PTL DEF Spec
-----------------------------------------------------------------------------
\* More approvals, and more requesters, lose no endorser.
LEMMA EndorsersGrow ==
  ASSUME NEW r \in Request, Approvals(r) \subseteq Approvals(r)', filers[r] \subseteq filers'[r],
         NEW quota \in Quota, Met(r, quota)
  PROVE  Met(r, quota)'
<1> DEFINE S == Endorsers(r)
           T == Endorsers(r)'
<1>1. S \subseteq T /\ T \subseteq Actor
  BY DEF Endorsers, Approvals
<1>2. IsFiniteSet(T)
  BY <1>1, GovernanceAssumption, FS_Subset
<1>3. IsFiniteSet(S) /\ Cardinality(S) <= Cardinality(T)
  BY <1>1, <1>2, FS_Subset
<1>4. Cardinality(S) \in Nat /\ Cardinality(T) \in Nat /\ quota \in Nat
  BY <1>2, <1>3, FS_CardinalityType, GovernanceAssumption
<1>5. Cardinality(S) >= quota
  BY DEF Met
<1>6. Cardinality(T) >= quota
  BY <1>3, <1>4, <1>5
<1> QED
  BY <1>6 DEF Met

\* The approvals that a decision counts are all by others.
LEMMA ApprovableMet ==
  ASSUME VotesApart, NEW r \in Request, NEW quota \in Quota, Approvable(r, quota)
  PROVE  Met(r, quota)
<1>1. Endorsers(r) = Approvals(r)
  BY DEF Endorsers, Approvals, VotesApart, Apart
<1> QED
  BY <1>1 DEF Approvable, Met

\* A step that loses no vote, requester, grant or exemption keeps what they gave.
LEMMA GrantsGrow ==
  ASSUME GovernanceInv, unexamined \subseteq unexamined',
         \A r \in Request : /\ Approvals(r) \subseteq Approvals(r)'
                            /\ filers[r] \subseteq filers'[r]
                            /\ granted[r] \subseteq granted'[r]
  PROVE  /\ \A r \in Request : Granted(r) => Granted(r)'
         /\ \A r \in Request, a \in Actor : Apart(r, a) => Apart(r, a)'
         /\ \A r \in Request, quota \in Quota : Met(r, quota) => Met(r, quota)'
<1>1. \A r \in Request : Granted(r) => Granted(r)'
  BY DEF Granted
<1>2. \A r \in Request, a \in Actor : Apart(r, a) => Apart(r, a)'
  BY DEF Apart
<1>3. \A r \in Request, quota \in Quota : Met(r, quota) => Met(r, quota)'
  BY EndorsersGrow
<1> QED
  BY <1>1, <1>2, <1>3

\* Whatever turns in the world of the requests, cases and gate, open writes see it.
LEMMA WorldTurns ==
  ASSUME GovernanceInv, Witnessed, UNCHANGED instruction,
         \A r \in Request : Granted(r) => Granted(r)', RequestsGranted'
  PROVE  SeenGranted' /\ WritesBacked' /\ WritesFollow' /\ AdvancedGranted'
<1>2. ASSUME NEW i \in Instruction, write'[i] # None
      PROVE  /\ write[i] # None /\ write[i] \in WriteInHand
             /\ write'[i] = [write[i] EXCEPT !.seen = @ \cup Holding']
  BY <1>2 DEF Witnessed, GovernanceInv, TypeOK
<1>3. ASSUME NEW i \in Instruction, write'[i] # None
      PROVE  /\ write'[i].seen = write[i].seen \cup Holding'
             /\ write'[i].row = write[i].row /\ write'[i].next = write[i].next
  BY <1>2, <1>3 DEF WriteInHand
<1>4. SeenGranted'
  <2> SUFFICES ASSUME NEW i \in Instruction, write'[i] # None
               PROVE  /\ Holding' \subseteq write'[i].seen
                      /\ \A r \in Request \cap write'[i].seen : Granted(r)'
    BY DEF SeenGranted
  <2>1. \A r \in Request \cap write[i].seen : Granted(r)
    BY <1>2 DEF GovernanceInv, SeenGranted
  <2>2. \A r \in Request \cap Holding' : Approved(r)'
    BY GovernanceAssumption DEF Holding
  <2>3. \A r \in Request \cap Holding' : Granted(r)'
    BY <2>2 DEF RequestsGranted
  <2> QED
    BY <1>3, <2>1, <2>3
<1>5. WritesBacked'
  <2> SUFFICES ASSUME NEW i \in Instruction, write'[i] # None PROVE Backed(write'[i])
    BY DEF WritesBacked, Backed
  <2>1. Backed(write[i])
    BY <1>2 DEF GovernanceInv, WritesBacked
  <2> QED
    BY <1>3, <2>1 DEF Backed
<1>6. WritesFollow'
  BY <1>2, <1>3 DEF GovernanceInv, WritesFollow
<1>7. AdvancedGranted'
  BY DEF GovernanceInv, AdvancedGranted
<1> QED
  BY <1>4, <1>5, <1>6, <1>7

\* A step that shows nothing to the writes keeps what they rest on.
LEMMA WritesRest ==
  ASSUME GovernanceInv, UNCHANGED <<request, case, gate, instruction, write>>,
         \A r \in Request : Granted(r) => Granted(r)'
  PROVE  SeenGranted' /\ WritesBacked' /\ WritesFollow' /\ AdvancedGranted'
<1>1. Holding' = Holding
  BY DEF Holding, Approved
<1>2. SeenGranted' /\ AdvancedGranted'
  BY <1>1 DEF GovernanceInv, SeenGranted, AdvancedGranted
<1>3. WritesBacked' /\ WritesFollow'
  BY DEF GovernanceInv, WritesBacked, WritesFollow
<1> QED
  BY <1>2, <1>3

-----------------------------------------------------------------------------
\* One step of the approvals.
LEMMA ApprovalKeeps == ASSUME GovernanceInv, ApprovalStep PROVE GovernanceInv'
<1>0. TypeOK'
  BY ApprovalTyped DEF GovernanceInv
<1> PICK r \in Request :
      \/ \E a \in Actor : EndVote(r, a) \/ \E d \in Decision : BeginVote(r, a, d)
      \/ CommitDecision(r) \/ DropDecision(r)
      \/ \E row \in RequestRow : BeginDecision(r, row) \/ InsertRequest(r, row)
  BY DEF ApprovalStep
<1>t. TypeOK /\ VotesApart /\ RequestsFiled /\ RequestsGranted
  BY DEF GovernanceInv
<1>n. None # "APPROVE" /\ None # "REJECT" /\ None \notin RequestRow
  BY GovernanceAssumption
<1>q. /\ \A q \in Request : granted[q] \subseteq Quota
      /\ \A q \in Request : deciding[q] # None => deciding[q].required \in Quota
  BY <1>t DEF TypeOK, RequestRow
<1>1. ASSUME NEW a \in Actor, NEW d \in Decision, BeginVote(r, a, d) PROVE GovernanceInv'
  <2>1. UNCHANGED <<request, deciding, votes, unexamined, granted, filers,
                    case, gate, instruction, write>>
    BY <1>1 DEF BeginVote, histories
  <2>2. \A q \in Request, b \in Actor :
          voting'[q][b] = IF q = r /\ b = a THEN d ELSE voting[q][b]
    BY <1>1, <1>t DEF BeginVote, TypeOK
  <2>3. d \in {"APPROVE", "REJECT"} => Apart(r, a)
    BY <1>1, <1>t DEF BeginVote, RequestsFiled, Apart
  <2>4. VotesApart'
    BY <1>1, <1>t, <2>1, <2>2, <2>3 DEF BeginVote, VotesApart, Apart
  <2>5. RequestsFiled' /\ RequestsGranted'
    BY <1>t, <2>1 DEF RequestsFiled, RequestsGranted, Approved, Approving, Granted, Met,
       Endorsers, Approvals
  <2>6. \A q \in Request : Granted(q) => Granted(q)'
    BY <2>1 DEF Granted
  <2> QED
    BY <1>0, <2>1, <2>4, <2>5, <2>6, WritesRest DEF GovernanceInv
<1>2. ASSUME NEW a \in Actor, EndVote(r, a) PROVE GovernanceInv'
  <2>1. UNCHANGED <<request, deciding, unexamined, granted, filers,
                    case, gate, instruction, write>>
    BY <1>2 DEF EndVote, histories
  <2>2. ASSUME NEW q \in Request, NEW b \in Actor
        PROVE  /\ \/ votes'[q][b] = votes[q][b]
                  \/ voting[q][b] # None /\ votes'[q][b] = voting[q][b]
               /\ \/ voting'[q][b] = None
                  \/ voting'[q][b] = voting[q][b] /\ votes'[q][b] = votes[q][b]
    BY <1>2, <1>t DEF EndVote, TypeOK
  <2>3. VotesApart'
    BY <1>n, <1>t, <2>1, <2>2 DEF VotesApart, Apart
  <2>4. \A q \in Request : Approvals(q) \subseteq Approvals(q)'
    BY <1>n, <1>t, <2>2 DEF VotesApart, Approvals
  <2>5. /\ \A q \in Request : Granted(q) => Granted(q)'
        /\ \A q \in Request, quota \in Quota : Met(q, quota) => Met(q, quota)'
    BY <2>1, <2>4, GrantsGrow
  <2>6. RequestsFiled'
    BY <1>t, <2>1 DEF RequestsFiled
  <2>7. RequestsGranted'
    BY <1>t, <1>q, <2>1, <2>5 DEF RequestsGranted, Approved, Approving
  <2> QED
    BY <1>0, <2>1, <2>3, <2>5, <2>6, <2>7, WritesRest DEF GovernanceInv
<1>3. ASSUME NEW row \in RequestRow, BeginDecision(r, row) PROVE GovernanceInv'
  <2>1. UNCHANGED <<request, votes, voting, unexamined, granted, filers,
                    case, gate, instruction, write>>
    BY <1>3 DEF BeginDecision, histories
  <2>2. \A q \in Request : deciding'[q] = IF q = r THEN row ELSE deciding[q]
    BY <1>3, <1>t DEF BeginDecision, TypeOK
  <2>3. VotesApart'
    BY <1>t, <2>1 DEF VotesApart, Apart
  <2>4. RequestsFiled'
    BY <1>3, <1>t, <2>1, <2>2 DEF BeginDecision, RequestsFiled
  <2>5. \A q \in Request : (Granted(q) <=> Granted(q)') /\ (Approved(q) <=> Approved(q)')
    BY <2>1 DEF Granted, Approved
  <2>6. \A q \in Request, quota \in Quota : Met(q, quota) <=> Met(q, quota)'
    BY <2>1 DEF Met, Endorsers, Approvals
  <2>7. row.status = "APPROVED" /\ ~Approved(r) => Met(r, row.required)
    <3>1. row.required \in Quota
      BY DEF RequestRow
    <3> QED
      BY <1>3, <1>t, <3>1, ApprovableMet DEF BeginDecision
  <2>8. ASSUME NEW q \in Request, Approving(q)' PROVE Met(q, deciding[q].required)'
    <3>1. CASE q = r
      <4>1. deciding'[q] = row /\ row.required \in Quota
        BY <2>2, <3>1 DEF RequestRow
      <4> QED
        BY <2>5, <2>6, <2>7, <2>8, <3>1, <4>1 DEF Approving, Met
    <3>2. CASE q # r
      <4>1. deciding'[q] = deciding[q] /\ Approving(q)
        BY <2>2, <2>5, <2>8, <3>2 DEF Approving
      <4> QED
        BY <1>q, <1>t, <2>6, <4>1 DEF RequestsGranted, Approving, Met
    <3> QED
      BY <3>1, <3>2
  <2>9. RequestsGranted'
    BY <1>q, <1>t, <2>1, <2>5, <2>6, <2>8 DEF RequestsGranted, Met
  <2> QED
    BY <1>0, <2>1, <2>3, <2>4, <2>5, <2>9, WritesRest DEF GovernanceInv
<1>4. CASE CommitDecision(r)
  <2> DEFINE new == deciding[r]
  <2>1. /\ new # None /\ new \in RequestRow
        /\ UNCHANGED <<votes, voting, unexamined, instruction>> /\ Witnessed
    BY <1>4, <1>t DEF CommitDecision, TypeOK
  <2>2. \A q \in Request :
          /\ request'[q] = IF q = r THEN new ELSE request[q]
          /\ deciding'[q] = IF q = r THEN None ELSE deciding[q]
          /\ filers'[q] = IF q = r THEN filers[q] \cup {new.requester} ELSE filers[q]
          /\ granted'[q] = IF q = r /\ Approving(r) THEN granted[q] \cup {new.required}
                           ELSE granted[q]
    BY <1>4, <1>t DEF CommitDecision, TypeOK
  <2>3. \A q \in Request : Approvals(q)' = Approvals(q)
    BY <2>1 DEF Approvals
  <2>4. /\ \A q \in Request : Granted(q) => Granted(q)'
        /\ \A q \in Request, b \in Actor : Apart(q, b) => Apart(q, b)'
        /\ \A q \in Request, quota \in Quota : Met(q, quota) => Met(q, quota)'
    BY <2>1, <2>2, <2>3, GrantsGrow
  <2>5. VotesApart'
    BY <1>t, <2>1, <2>4 DEF VotesApart
  <2>6. RequestsFiled'
    BY <1>t, <2>2 DEF RequestsFiled
  <2>7. ASSUME NEW q \in Request, Approved(q)' PROVE Granted(q)'
    <3>1. CASE q # r
      <4>1. request'[q] = request[q]
        BY <2>2, <3>1
      <4>2. Approved(q)
        BY <2>7, <4>1 DEF Approved
      <4> QED
        BY <1>t, <2>4, <4>2 DEF RequestsGranted
    <3>2. CASE q = r /\ Approved(r)
      BY <1>t, <2>4, <3>2 DEF RequestsGranted
    <3>3. CASE q = r /\ ~Approved(r)
      <4>1. new.status = "APPROVED"
        BY <2>2, <2>7, <3>3 DEF Approved
      <4>2. Approving(r)
        BY <2>1, <3>3, <4>1 DEF Approving
      <4> QED
        BY <2>2, <3>3, <4>2 DEF Granted
    <3> QED
      BY <3>1, <3>2, <3>3
  <2>8. ASSUME NEW q \in Request, Approving(q)' PROVE Met(q, deciding[q].required)'
    <3>1. q # r /\ deciding'[q] = deciding[q] /\ request'[q] = request[q]
      BY <2>2, <2>8 DEF Approving
    <3>2. Approving(q)
      BY <2>8, <3>1 DEF Approving, Approved
    <3> QED
      BY <1>q, <1>t, <2>4, <3>1, <3>2 DEF RequestsGranted, Approving, Met
  <2>9. ASSUME NEW q \in Request, NEW quota \in granted'[q] PROVE Met(q, quota)'
    <3>1. CASE quota \in granted[q]
      BY <1>q, <1>t, <2>4, <3>1 DEF RequestsGranted
    <3>2. CASE quota \notin granted[q]
      <4>1. q = r /\ Approving(r) /\ quota = new.required
        BY <2>2, <2>9, <3>2
      <4> QED
        BY <1>q, <1>t, <2>1, <2>4, <4>1 DEF RequestsGranted
    <3> QED
      BY <3>1, <3>2
  <2>10. RequestsGranted'
    BY <2>7, <2>8, <2>9 DEF RequestsGranted, Met
  <2> QED
    BY <1>0, <2>1, <2>4, <2>5, <2>6, <2>10, WorldTurns DEF GovernanceInv
<1>5. CASE DropDecision(r)
  <2>1. UNCHANGED <<request, votes, voting, unexamined, granted, filers,
                    case, gate, instruction, write>>
    BY <1>5 DEF DropDecision, histories
  <2>2. \A q \in Request : deciding'[q] \in {deciding[q], None}
    BY <1>5, <1>t DEF DropDecision, TypeOK
  <2>3. VotesApart' /\ RequestsFiled'
    BY <1>t, <2>1, <2>2 DEF VotesApart, Apart, RequestsFiled
  <2>4. \A q \in Request : (Granted(q) <=> Granted(q)') /\ (Approved(q) <=> Approved(q)')
    BY <2>1 DEF Granted, Approved
  <2>5. \A q \in Request, quota \in Quota : Met(q, quota) <=> Met(q, quota)'
    BY <2>1 DEF Met, Endorsers, Approvals
  <2>6. ASSUME NEW q \in Request, Approving(q)'
        PROVE  Approving(q) /\ deciding'[q] = deciding[q]
    BY <2>2, <2>4, <2>6 DEF Approving
  <2>7. RequestsGranted'
    BY <1>q, <1>t, <2>1, <2>4, <2>5, <2>6 DEF RequestsGranted, Approving
  <2> QED
    BY <1>0, <2>1, <2>3, <2>4, <2>7, WritesRest DEF GovernanceInv
<1>6. ASSUME NEW row \in RequestRow, InsertRequest(r, row) PROVE GovernanceInv'
  <2>1. /\ UNCHANGED <<deciding, votes, voting, granted, instruction>> /\ Witnessed
        /\ request[r] = None /\ unexamined \subseteq unexamined'
    BY <1>6 DEF InsertRequest
  <2>2. \A q \in Request :
          /\ request'[q] = IF q = r THEN row ELSE request[q]
          /\ filers'[q] = IF q = r THEN filers[q] \cup {row.requester} ELSE filers[q]
          /\ q \in unexamined' <=> q \in unexamined \/ (q = r /\ row.status = "APPROVED")
    BY <1>6, <1>t DEF InsertRequest, TypeOK
  <2>3. deciding[r] = None
    BY <1>t, <2>1 DEF RequestsFiled
  <2>4. \A q \in Request : Approvals(q)' = Approvals(q)
    BY <2>1 DEF Approvals
  <2>5. /\ \A q \in Request : Granted(q) => Granted(q)'
        /\ \A q \in Request, b \in Actor : Apart(q, b) => Apart(q, b)'
        /\ \A q \in Request, quota \in Quota : Met(q, quota) => Met(q, quota)'
    BY <2>1, <2>2, <2>4, GrantsGrow
  <2>6. VotesApart'
    BY <1>t, <2>1, <2>5 DEF VotesApart
  <2>7. RequestsFiled'
    BY <1>t, <2>1, <2>2, <2>3 DEF RequestsFiled
  <2>8. ASSUME NEW q \in Request, Approved(q)' PROVE Granted(q)'
    <3>1. CASE q # r
      <4>1. Approved(q)
        BY <2>2, <2>8, <3>1 DEF Approved
      <4> QED
        BY <1>t, <2>5, <4>1 DEF RequestsGranted
    <3>2. CASE q = r
      BY <2>2, <2>8, <3>2 DEF Approved, Granted
    <3> QED
      BY <3>1, <3>2
  <2>9. ASSUME NEW q \in Request, Approving(q)' PROVE Met(q, deciding[q].required)'
    <3>1. q # r /\ deciding'[q] = deciding[q] /\ request'[q] = request[q]
      BY <2>1, <2>2, <2>3, <2>9 DEF Approving
    <3>2. Approving(q)
      BY <2>9, <3>1 DEF Approving, Approved
    <3> QED
      BY <1>q, <1>t, <2>5, <3>1, <3>2 DEF RequestsGranted, Approving, Met
  <2>10. \A q \in Request : \A quota \in granted'[q] : Met(q, quota)'
    BY <1>q, <1>t, <2>1, <2>5 DEF RequestsGranted
  <2>11. RequestsGranted'
    BY <2>8, <2>9, <2>10 DEF RequestsGranted, Met
  <2> QED
    BY <1>0, <2>1, <2>5, <2>6, <2>7, <2>11, WorldTurns DEF GovernanceInv
<1> QED
  BY <1>1, <1>2, <1>3, <1>4, <1>5, <1>6

\* One step of a case or of the gate.
LEMMA WorldKeeps ==
  ASSUME GovernanceInv, TypeOK', Witnessed, UNCHANGED <<approvalVars, instruction>>
  PROVE  GovernanceInv'
<1>1. UNCHANGED <<request, deciding, votes, voting, unexamined, granted, filers>>
  BY DEF approvalVars
<1>2. VotesApart' /\ RequestsFiled' /\ RequestsGranted'
  BY <1>1 DEF GovernanceInv, VotesApart, Apart, RequestsFiled, RequestsGranted, Approved,
     Approving, Granted, Met, Endorsers, Approvals
<1>3. \A r \in Request : Granted(r) => Granted(r)'
  BY <1>1 DEF Granted
<1> QED
  BY <1>2, <1>3, WorldTurns DEF GovernanceInv

-----------------------------------------------------------------------------
\* A step on instructions leaves the world of their grounds alone.
LEMMA WorldStays ==
  ASSUME UNCHANGED <<approvalVars, case, gate>>, GovernanceInv
  PROVE  /\ VotesApart' /\ RequestsFiled' /\ RequestsGranted' /\ Holding' = Holding
         /\ \A r \in Request : Granted(r)' <=> Granted(r)
<1>1. UNCHANGED <<request, deciding, votes, voting, unexamined, granted, filers, case, gate>>
  BY DEF approvalVars
<1>2. VotesApart' /\ RequestsFiled' /\ RequestsGranted'
  BY <1>1 DEF GovernanceInv, VotesApart, Apart, RequestsFiled, RequestsGranted, Approved,
     Approving, Granted, Met, Endorsers, Approvals
<1>3. Holding' = Holding /\ \A r \in Request : Granted(r)' <=> Granted(r)
  BY <1>1 DEF Holding, Approved, Granted
<1> QED
  BY <1>2, <1>3

\* An instruction whose write has been changed to one that has seen as much.
LEMMA ReadKeeps ==
  ASSUME GovernanceInv, NEW i \in Instruction, NEW this,
         NEW then \in {"approval", "case", "gate", "commit"}, Reads(i, this, then),
         Backed([write[i] EXCEPT !.next = then])
  PROVE  GovernanceInv'
<1>1. TypeOK'
  BY ReadsTyped DEF GovernanceInv
<1>2. UNCHANGED <<approvalVars, case, gate, instruction>>
  BY DEF Reads
<1>3. write[i] # None /\ write[i] \in WriteInHand
  BY DEF Reads, GovernanceInv, TypeOK
<1>4. ASSUME NEW j \in Instruction
      PROVE  write'[j] = IF j = i THEN [write[i] EXCEPT !.next = then] ELSE write[j]
  BY DEF Reads, GovernanceInv, TypeOK
<1>5. ASSUME NEW j \in Instruction, write'[j] # None
      PROVE  /\ write[j] # None /\ write'[j].seen = write[j].seen
             /\ write'[j].row = write[j].row
  BY <1>3, <1>4, <1>5 DEF WriteInHand
<1>6. SeenGranted' /\ WritesFollow'
  BY <1>2, <1>5, WorldStays DEF GovernanceInv, SeenGranted, WritesFollow
<1>7. WritesBacked'
  <2> SUFFICES ASSUME NEW j \in Instruction, write'[j] # None PROVE Backed(write'[j])
    BY DEF WritesBacked, Backed
  <2> QED
    BY <1>4 DEF GovernanceInv, WritesBacked
<1>8. AdvancedGranted'
  BY <1>2, WorldStays DEF GovernanceInv, AdvancedGranted
<1> QED
  BY <1>1, <1>2, <1>6, <1>7, <1>8, WorldStays DEF GovernanceInv

\* One step of a write.
LEMMA WriteKeeps == ASSUME GovernanceInv, WriteStep PROVE GovernanceInv'
<1>0. TypeOK /\ TypeOK'
  BY WriteTyped DEF GovernanceInv
<1> PICK i \in Instruction :
      \/ \E row \in Row : BeginWrite(i, row)
      \/ ReadApproval(i) \/ ReadCase(i) \/ ReadGate(i)
      \/ CommitWrite(i) \/ FailWrite(i)
  BY DEF WriteStep
<1>1. ASSUME NEW row \in Row, BeginWrite(i, row) PROVE GovernanceInv'
  <2> DEFINE new == [row |-> row, next |-> "approval", seen |-> Holding]
  <2>1. UNCHANGED <<approvalVars, case, gate, instruction>>
    BY <1>1 DEF BeginWrite
  <2>2. \A j \in Instruction : write'[j] = IF j = i THEN new ELSE write[j]
    BY <1>0, <1>1 DEF BeginWrite, TypeOK
  <2>3. \A r \in Request \cap Holding : Granted(r)
    BY GovernanceAssumption DEF Holding, GovernanceInv, RequestsGranted
  <2>4. SeenGranted'
    BY <2>1, <2>2, <2>3, WorldStays DEF GovernanceInv, SeenGranted
  <2>5. Backed(new)
    BY <1>1 DEF Backed, BeginWrite, UnderWay, Advanced
  <2>6. WritesBacked'
    <3> SUFFICES ASSUME NEW j \in Instruction, write'[j] # None PROVE Backed(write'[j])
      BY DEF WritesBacked, Backed
    <3> QED
      BY <2>2, <2>5 DEF GovernanceInv, WritesBacked
  <2>7. WritesFollow'
    BY <1>1, <2>1, <2>2 DEF GovernanceInv, WritesFollow, BeginWrite
  <2>8. AdvancedGranted'
    BY <2>1, WorldStays DEF GovernanceInv, AdvancedGranted
  <2> QED
    BY <1>0, <2>1, <2>4, <2>6, <2>7, <2>8, WorldStays DEF GovernanceInv
<1>2. CASE ReadApproval(i)
  <2>1. /\ write[i] # None /\ write[i] \in WriteInHand /\ write[i].next = "approval"
        /\ Reads(i, "approval", "case")
    BY <1>0, <1>2 DEF ReadApproval, Reads, TypeOK
  <2>2. Holding \subseteq write[i].seen /\ Backed(write[i])
    BY <2>1 DEF GovernanceInv, SeenGranted, WritesBacked
  <2>3. ASSUME write[i].row.status \in Advanced
        PROVE  write[i].row.request \in Request \cap write[i].seen
    <3>1. Approved(write[i].row.request)
      BY <1>2, <2>3 DEF ReadApproval
    <3>2. write[i].row.request \in Request
      BY <2>1, <2>2, <2>3 DEF Backed, WriteInHand, Row
    <3> QED
      BY <2>2, <3>1, <3>2 DEF Holding
  <2>4. Backed([write[i] EXCEPT !.next = "case"])
    BY <2>1, <2>2, <2>3 DEF Backed, WriteInHand
  <2> QED
    BY <2>1, <2>4, ReadKeeps
<1>3. CASE ReadCase(i)
  <2>1. /\ write[i] # None /\ write[i] \in WriteInHand /\ write[i].next = "case"
        /\ Reads(i, "case", "gate")
    BY <1>0, <1>3 DEF ReadCase, Reads, TypeOK
  <2>2. Holding \subseteq write[i].seen /\ Backed(write[i])
    BY <2>1 DEF GovernanceInv, SeenGranted, WritesBacked
  <2>3. ASSUME write[i].row.status \in UnderWay
        PROVE  write[i].row.case \in Case \cap write[i].seen
    <3>1. write[i].row.case # None /\ case[write[i].row.case] \in Cleared
      BY <1>3, <2>3 DEF ReadCase
    <3>2. write[i].row.case \in Case
      BY <2>1, <3>1 DEF WriteInHand, Row
    <3> QED
      BY <2>2, <3>1, <3>2 DEF Holding
  <2>4. Backed([write[i] EXCEPT !.next = "gate"])
    BY <2>1, <2>2, <2>3 DEF Backed, WriteInHand
  <2> QED
    BY <2>1, <2>4, ReadKeeps
<1>4. CASE ReadGate(i)
  <2>1. /\ write[i] # None /\ write[i] \in WriteInHand /\ write[i].next = "gate"
        /\ Reads(i, "gate", "commit")
    BY <1>0, <1>4 DEF ReadGate, Reads, TypeOK
  <2>2. Holding \subseteq write[i].seen /\ Backed(write[i])
    BY <2>1 DEF GovernanceInv, SeenGranted, WritesBacked
  <2>3. ASSUME write[i].row.status \in UnderWay, write[i].row.production
        PROVE  Gate \in write[i].seen
    BY <1>4, <2>2, <2>3 DEF ReadGate, Holding
  <2>4. Backed([write[i] EXCEPT !.next = "commit"])
    BY <2>1, <2>2, <2>3 DEF Backed, WriteInHand
  <2> QED
    BY <2>1, <2>4, ReadKeeps
<1>5. CASE CommitWrite(i)
  <2>1. /\ write[i] # None /\ write[i] \in WriteInHand /\ write[i].next = "commit"
        /\ UNCHANGED <<approvalVars, case, gate>>
    BY <1>0, <1>5 DEF CommitWrite, TypeOK
  <2>2. \A j \in Instruction :
          /\ write'[j] = IF j = i THEN None ELSE write[j]
          /\ instruction'[j] = IF j = i THEN write[i].row ELSE instruction[j]
    BY <1>0, <1>5 DEF CommitWrite, TypeOK
  <2>3. SeenGranted' /\ WritesFollow'
    BY <2>1, <2>2, WorldStays DEF GovernanceInv, SeenGranted, WritesFollow
  <2>4. WritesBacked'
    <3> SUFFICES ASSUME NEW j \in Instruction, write'[j] # None PROVE Backed(write'[j])
      BY DEF WritesBacked, Backed
    <3> QED
      BY <2>2 DEF GovernanceInv, WritesBacked
  <2>5. AdvancedGranted'
    <3> SUFFICES ASSUME NEW j \in Instruction,
                        instruction'[j] # None, instruction'[j].status \in Advanced
                 PROVE  instruction'[j].request \in Request /\ Granted(instruction'[j].request)
      BY <2>1, WorldStays DEF AdvancedGranted
    <3>1. CASE j = i
      <4>1. write[i].row.request \in Request \cap write[i].seen
        BY <2>1, <2>2, <3>1 DEF GovernanceInv, WritesBacked, Backed
      <4> QED
        BY <2>1, <2>2, <3>1, <4>1 DEF GovernanceInv, SeenGranted
    <3>2. CASE j # i
      BY <2>2, <3>2 DEF GovernanceInv, AdvancedGranted
    <3> QED
      BY <3>1, <3>2
  <2> QED
    BY <1>0, <2>1, <2>3, <2>4, <2>5, WorldStays DEF GovernanceInv
<1>6. CASE FailWrite(i)
  <2>1. UNCHANGED <<approvalVars, case, gate, instruction>>
    BY <1>6 DEF FailWrite
  <2>2. \A j \in Instruction : write'[j] = IF j = i THEN None ELSE write[j]
    BY <1>0, <1>6 DEF FailWrite, TypeOK
  <2>3. SeenGranted' /\ WritesFollow'
    BY <2>1, <2>2, WorldStays DEF GovernanceInv, SeenGranted, WritesFollow
  <2>4. WritesBacked'
    <3> SUFFICES ASSUME NEW j \in Instruction, write'[j] # None PROVE Backed(write'[j])
      BY DEF WritesBacked, Backed
    <3> QED
      BY <2>2 DEF GovernanceInv, WritesBacked
  <2>5. AdvancedGranted'
    BY <2>1, WorldStays DEF GovernanceInv, AdvancedGranted
  <2> QED
    BY <1>0, <2>1, <2>3, <2>4, <2>5, WorldStays DEF GovernanceInv
<1> QED
  BY <1>1, <1>2, <1>3, <1>4, <1>5, <1>6

\* The invariant holds at first and every step preserves it.
THEOREM GovernanceInvariant == Spec => []GovernanceInv
<1>1. Init => GovernanceInv
  <2> SUFFICES ASSUME Init PROVE GovernanceInv
    OBVIOUS
  <2>1. None \notin {"APPROVE", "REJECT"}
    BY GovernanceAssumption
  <2>2. VotesApart /\ RequestsFiled /\ RequestsGranted
    BY <2>1 DEF Init, VotesApart, RequestsFiled, RequestsGranted, Approved, Approving
  <2>3. SeenGranted /\ WritesBacked /\ WritesFollow /\ AdvancedGranted
    BY DEF Init, SeenGranted, WritesBacked, WritesFollow, AdvancedGranted
  <2> QED
    BY <2>2, <2>3, InitTyped DEF GovernanceInv
<1>2. GovernanceInv /\ [Next]_vars => GovernanceInv'
  <2> SUFFICES ASSUME GovernanceInv, [Next]_vars PROVE GovernanceInv'
    OBVIOUS
  <2>0. TypeOK'
    BY NextTyped DEF GovernanceInv
  <2>1. ASSUME NEW c \in Case, NEW s \in CaseStatus, SetCase(c, s) PROVE GovernanceInv'
    BY <2>0, <2>1, WorldKeeps DEF SetCase
  <2>2. ASSUME NEW enabled \in BOOLEAN, AuthorizeReleaseGate(enabled) PROVE GovernanceInv'
    BY <2>0, <2>2, WorldKeeps DEF AuthorizeReleaseGate
  <2>3. CASE UNCHANGED vars
    <3>1. UNCHANGED <<approvalVars, case, gate, instruction, write>>
      BY <2>3 DEF vars, approvalVars
    <3>2. SeenGranted' /\ AdvancedGranted' /\ WritesBacked' /\ WritesFollow'
      BY <3>1, WorldStays DEF GovernanceInv, SeenGranted, AdvancedGranted, WritesBacked,
         WritesFollow
    <3> QED
      BY <2>0, <3>1, <3>2, WorldStays DEF GovernanceInv
  <2> QED
    BY <2>1, <2>2, <2>3, ApprovalKeeps, WriteKeeps DEF Next
<1> QED
  BY <1>1, <1>2, PTL DEF Spec

\* No instruction advances but on a request that was approved on some quota or
\* inserted as APPROVED, and every quota a request was approved on has the approvals
\* of as many actors other than its only requester, whatever is rewritten, taken back
\* and decided anew in the meantime.
THEOREM AdvancedStaysEndorsed == Spec => []AdvancedIsEndorsed
<1>1. GovernanceInv => AdvancedIsEndorsed
  <2> SUFFICES ASSUME GovernanceInv, NEW i \in Instruction, instruction[i] # None,
                      instruction[i].status \in Advanced
               PROVE  LET r == instruction[i].request
                      IN  /\ r # None
                          /\ r \notin unexamined => granted[r] # {}
                          /\ \A quota \in granted[r] : Cardinality(Endorsers(r)) >= quota
    BY DEF AdvancedIsEndorsed
  <2>1. instruction[i].request \in Request /\ Granted(instruction[i].request)
    BY DEF GovernanceInv, AdvancedGranted
  <2>2. instruction[i].request # None
    BY <2>1, GovernanceAssumption
  <2> QED
    BY <2>1, <2>2 DEF Granted, GovernanceInv, RequestsGranted, Met
<1> QED
  BY <1>1, GovernanceInvariant, PTL
-----------------------------------------------------------------------------
\* Steps of the release promise.
LEMMA StutterPromised ==
  ASSUME UNCHANGED <<request, case, gate, instruction, write>>
  PROVE  UNCHANGED Promise!promiseVars
  BY DEF Promise!promiseVars, InstructionsKept, Holding, Approved, Writing, WritesSeen

\* What turns in the world is a turn of the grounds.
LEMMA TurnPromised ==
  ASSUME TypeOK, TypeOK', Witnessed, UNCHANGED instruction
  PROVE  Promise!Next
<1>1. Holding' \in SUBSET Promise!Ground
  BY HoldingGround DEF Holding, Promise!Ground, Promise!Gate, Gate
<1>2. ASSUME NEW i \in Instruction
      PROVE  /\ write'[i] = None <=> write[i] = None
             /\ write[i] # None => write'[i].seen = write[i].seen \cup Holding'
  <2>1. CASE write[i] = None
    BY <2>1 DEF Witnessed
  <2>2. CASE write[i] # None
    <3>1. write[i] \in WriteInHand /\ write'[i] = [write[i] EXCEPT !.seen = @ \cup Holding']
      BY <2>2 DEF Witnessed, TypeOK
    <3>2. [write[i] EXCEPT !.seen = @ \cup Holding'] \in WriteInHand
      BY <3>1, HoldingGround DEF WriteInHand, Holding
    <3> QED
      BY <2>2, <3>1, <3>2, GovernanceAssumption DEF WriteInHand
  <2> QED
    BY <2>1, <2>2
<1>3. Writing' = Writing
  BY <1>2 DEF Writing
<1>4. WritesSeen' = [i \in Instruction |->
                        IF i \in Writing THEN WritesSeen[i] \cup Holding' ELSE {}]
  BY <1>2 DEF Writing, WritesSeen
<1>5. InstructionsKept' = InstructionsKept
  BY DEF InstructionsKept
<1>6. Promise!Turn(Holding')
  BY <1>3, <1>4, <1>5 DEF Promise!Turn
<1> QED
  BY <1>1, <1>6 DEF Promise!Next

\* The end of a write closes it.
LEMMA ClosePromised ==
  ASSUME TypeOK, NEW i \in Instruction, write[i] # None,
         write' = [write EXCEPT ![i] = None], UNCHANGED <<request, case, gate>>
  PROVE  Promise!Close(i)
<1>1. i \in Writing /\ Writing' = Writing \ {i}
  BY DEF Writing, TypeOK
<1>2. WritesSeen' = [WritesSeen EXCEPT ![i] = {}]
  BY DEF WritesSeen, TypeOK
<1>3. Holding' = Holding
  BY DEF Holding, Approved
<1> QED
  BY <1>1, <1>2, <1>3 DEF Promise!Close

\* The table of transitions keeps what has ended, and reaches SETTLED from ACCEPTED.
LEMMA TransitionsFollow ==
  ASSUME NEW old \in Row, NEW new \in Row, TransitionAllowed(old.status, new.status)
  PROVE  Promise!Follows(Kept(old), Kept(new))
  BY DEF TransitionAllowed, Promise!Follows, Promise!Ended, Kept

\* A committed write is one that the promise allows.
LEMMA CommitPromised ==
  ASSUME GovernanceInv, NEW i \in Instruction, CommitWrite(i)
  PROVE  Promise!Next
<1> DEFINE w == write[i]
           new == Kept(w.row)
<1>1. /\ w # None /\ w \in WriteInHand /\ w.next = "commit" /\ w.row \in Row
      /\ instruction \in [Instruction -> Row \cup {None}]
  BY DEF CommitWrite, GovernanceInv, TypeOK, WriteInHand
<1>2. Promise!Close(i)
  BY <1>1, ClosePromised DEF CommitWrite, GovernanceInv, approvalVars
<1>3. Promise!Follows(InstructionsKept[i], new)
  <2>1. CASE instruction[i] = None
    BY <2>1 DEF InstructionsKept, Promise!Follows
  <2>2. CASE instruction[i] # None
    <3>1. Promise!Follows(Kept(instruction[i]), new)
      BY <1>1, <2>2, TransitionsFollow DEF GovernanceInv, WritesFollow
    <3> QED
      BY <2>2, <3>1 DEF InstructionsKept
  <2> QED
    BY <2>1, <2>2
<1>4. Promise!Warranted(WritesSeen[i], new)
  <2>1. WritesSeen[i] = w.seen
    BY <1>1 DEF WritesSeen
  <2>2. Backed(w)
    BY <1>1 DEF GovernanceInv, WritesBacked
  <2> QED
    BY <1>1, <2>1, <2>2 DEF Backed, Promise!Warranted, Promise!Approved, Promise!UnderWay,
       Advanced, UnderWay, Kept, Promise!Gate, Gate
<1>5. InstructionsKept' = [InstructionsKept EXCEPT ![i] = new]
  <2>1. instruction' = [instruction EXCEPT ![i] = w.row] /\ w.row # None
    BY <1>1, GovernanceAssumption DEF CommitWrite
  <2> QED
    BY <1>1, <2>1 DEF InstructionsKept
<1>6. new \in [status : Promise!InstructionStatus, production : BOOLEAN]
  <2>1. w.row.status \in Promise!InstructionStatus
    BY <1>1, GovernanceAssumption DEF Row, Promise!InstructionStatus, Promise!Ended, Promise!Approved,
       Promise!UnderWay
  <2> QED
    BY <1>1, <2>1 DEF Row, Kept
<1> HIDE DEF new
<1> QED
  BY <1>2, <1>3, <1>4, <1>5, <1>6 DEF Promise!Write, Promise!Next

\* A step of a write opens, commits or drops it, or only reads.
LEMMA WritePromised ==
  ASSUME GovernanceInv, WriteStep
  PROVE  [Promise!Next]_(Promise!promiseVars)
<1> PICK i \in Instruction :
      \/ \E row \in Row : BeginWrite(i, row)
      \/ ReadApproval(i) \/ ReadCase(i) \/ ReadGate(i)
      \/ CommitWrite(i) \/ FailWrite(i)
  BY DEF WriteStep
<1>0. TypeOK
  BY DEF GovernanceInv
<1>1. ASSUME NEW row \in Row, BeginWrite(i, row) PROVE Promise!Next
  <2> DEFINE new == [row |-> row, next |-> "approval", seen |-> Holding]
  <2>1. new # None /\ new.seen = Holding
    <3>1. new \in WriteInHand
      BY HoldingGround DEF WriteInHand
    <3> QED
      BY <3>1, GovernanceAssumption
  <2>2. write[i] = None /\ write' = [write EXCEPT ![i] = new]
    BY <1>1 DEF BeginWrite
  <2> HIDE DEF new
  <2>3. i \notin Writing /\ Writing' = Writing \cup {i}
    BY <1>0, <2>1, <2>2 DEF Writing, TypeOK
  <2>4. WritesSeen' = [WritesSeen EXCEPT ![i] = Holding]
    BY <1>0, <2>1, <2>2 DEF WritesSeen, TypeOK
  <2>5. Holding' = Holding /\ InstructionsKept' = InstructionsKept
    BY <1>1 DEF BeginWrite, approvalVars, Holding, Approved, InstructionsKept
  <2>6. Promise!Begin(i)
    BY <2>3, <2>4, <2>5 DEF Promise!Begin
  <2> QED
    BY <2>6 DEF Promise!Next
<1>2. ASSUME NEW this, NEW then \in {"approval", "case", "gate", "commit"},
             Reads(i, this, then)
      PROVE  UNCHANGED Promise!promiseVars
  <2>1. write[i] # None /\ write[i] \in WriteInHand
    BY <1>0, <1>2 DEF Reads, TypeOK
  <2>2. write' = [write EXCEPT ![i] = [write[i] EXCEPT !.next = then]]
    BY <1>2 DEF Reads
  <2>3. /\ [write[i] EXCEPT !.next = then] # None
        /\ [write[i] EXCEPT !.next = then].seen = write[i].seen
    <3>1. [write[i] EXCEPT !.next = then] \in WriteInHand
      BY <2>1 DEF WriteInHand
    <3> QED
      BY <2>1, <3>1, GovernanceAssumption DEF WriteInHand
  <2>4. Writing' = Writing
    BY <1>0, <2>1, <2>2, <2>3 DEF Writing, TypeOK
  <2>5. WritesSeen' = WritesSeen
    BY <1>0, <2>1, <2>2, <2>3 DEF WritesSeen, TypeOK
  <2>6. Holding' = Holding /\ InstructionsKept' = InstructionsKept
    BY <1>2 DEF Reads, approvalVars, Holding, Approved, InstructionsKept
  <2> QED
    BY <2>4, <2>5, <2>6 DEF Promise!promiseVars
<1>3. CASE ReadApproval(i) \/ ReadCase(i) \/ ReadGate(i)
  BY <1>2, <1>3 DEF ReadApproval, ReadCase, ReadGate
<1>4. CASE CommitWrite(i)
  BY <1>4, CommitPromised
<1>5. CASE FailWrite(i)
  <2>1. Promise!Close(i)
    BY <1>0, <1>5, ClosePromised DEF FailWrite, approvalVars
  <2>2. InstructionsKept' = InstructionsKept
    BY <1>5 DEF FailWrite, InstructionsKept
  <2>3. Promise!Abandon(i)
    BY <2>1, <2>2 DEF Promise!Abandon
  <2> QED
    BY <2>3 DEF Promise!Next
<1> QED
  BY <1>1, <1>3, <1>4, <1>5

\* Governance keeps the release promise: what the trigger reads at different moments,
\* without a lock, is still ground for the write it was read for.
THEOREM GovernanceKeepsPromise == Spec => ImplementsRelease
<1>1. Init => Promise!Init
  <2> SUFFICES ASSUME Init PROVE Promise!Init
    OBVIOUS
  <2>1. Holding \subseteq Promise!Ground
    BY HoldingGround DEF Promise!Ground, Promise!Gate, Gate
  <2> QED
    BY <2>1 DEF Init, Promise!Init, InstructionsKept, Writing, WritesSeen
<1>2. GovernanceInv /\ [Next]_vars => [Promise!Next]_(Promise!promiseVars)
  <2> SUFFICES ASSUME GovernanceInv, [Next]_vars
               PROVE  [Promise!Next]_(Promise!promiseVars)
    OBVIOUS
  <2>0. TypeOK /\ TypeOK'
    BY NextTyped DEF GovernanceInv
  <2>1. CASE ApprovalStep
    <3> PICK r \in Request :
          \/ \E a \in Actor : EndVote(r, a) \/ \E d \in Decision : BeginVote(r, a, d)
          \/ CommitDecision(r) \/ DropDecision(r)
          \/ \E row \in RequestRow : BeginDecision(r, row) \/ InsertRequest(r, row)
      BY <2>1 DEF ApprovalStep
    <3>1. CASE CommitDecision(r)
      BY <2>0, <3>1, TurnPromised DEF CommitDecision
    <3>2. CASE \E row \in RequestRow : InsertRequest(r, row)
      BY <2>0, <3>2, TurnPromised DEF InsertRequest
    <3>3. CASE ~CommitDecision(r) /\ ~\E row \in RequestRow : InsertRequest(r, row)
      BY <3>3, StutterPromised DEF EndVote, BeginVote, BeginDecision, DropDecision
    <3> QED
      BY <3>1, <3>2, <3>3
  <2>2. ASSUME NEW c \in Case, NEW s \in CaseStatus, SetCase(c, s) PROVE Promise!Next
    BY <2>0, <2>2, TurnPromised DEF SetCase
  <2>3. ASSUME NEW enabled \in BOOLEAN, AuthorizeReleaseGate(enabled) PROVE Promise!Next
    BY <2>0, <2>3, TurnPromised DEF AuthorizeReleaseGate
  <2>4. CASE UNCHANGED vars
    BY <2>4, StutterPromised DEF vars
  <2> QED
    BY <2>1, <2>2, <2>3, <2>4, WritePromised DEF Next
<1> QED
  BY <1>1, <1>2, GovernanceInvariant, PTL DEF Spec, ImplementsRelease, Promise!Spec
-----------------------------------------------------------------------------
\* No rejection is being inserted while an approval of its request is being decided:
\* what a lock on the request would give, and the code does not take.
RejectionsApart ==
    \A r \in Request : Approving(r) => \A a \in Actor : voting[r][a] # "REJECT"

\* An approval, committed or not, meets no rejection, and once it is committed none
\* is still being inserted.
Unopposed(r) ==
    /\ Approved(r) \/ Approving(r) => \A a \in Actor : votes[r][a] # "REJECT"
    /\ Approved(r) => \A a \in Actor : voting[r][a] # "REJECT"

ApprovalsUnopposed == \A r \in Request \ unexamined : Unopposed(r)

\* One step of the approvals leaves the examined ones unopposed.
LEMMA ApprovalUnopposed ==
  ASSUME TypeOK, RequestsFiled, ApprovalsUnopposed, RejectionsApart, ApprovalStep
  PROVE  ApprovalsUnopposed'
<1> PICK r \in Request :
      \/ \E a \in Actor : EndVote(r, a) \/ \E d \in Decision : BeginVote(r, a, d)
      \/ CommitDecision(r) \/ DropDecision(r)
      \/ \E row \in RequestRow : BeginDecision(r, row) \/ InsertRequest(r, row)
  BY DEF ApprovalStep
<1> SUFFICES ASSUME NEW q \in Request, q \notin unexamined' PROVE Unopposed(q)'
  BY DEF ApprovalsUnopposed
<1>n. None # "REJECT"
  BY GovernanceAssumption
<1>u. Unopposed(q)
  <2>1. unexamined \subseteq unexamined'
    BY DEF EndVote, BeginVote, CommitDecision, DropDecision, BeginDecision, InsertRequest,
       histories
  <2> QED
    BY <2>1 DEF ApprovalsUnopposed
<1>1. ASSUME NEW a \in Actor, NEW d \in Decision, BeginVote(r, a, d) PROVE Unopposed(q)'
  <2>1. /\ UNCHANGED <<request, deciding, votes>>
        /\ \A b \in Actor : voting'[q][b] = voting[q][b] \/ (q = r /\ ~Approved(q))
    BY <1>1 DEF BeginVote, TypeOK, Approved
  <2> QED
    BY <1>u, <2>1 DEF Unopposed, Approved, Approving
<1>2. ASSUME NEW a \in Actor, EndVote(r, a) PROVE Unopposed(q)'
  <2>1. ASSUME NEW b \in Actor
        PROVE  /\ votes'[q][b] \in {votes[q][b], voting[q][b]}
               /\ voting'[q][b] \in {voting[q][b], None}
    BY <1>2 DEF EndVote, TypeOK
  <2>2. Approved(q) \/ Approving(q) => \A b \in Actor : voting[q][b] # "REJECT"
    BY <1>u DEF Unopposed, RejectionsApart
  <2>3. (Approved(q)' <=> Approved(q)) /\ (Approving(q)' <=> Approving(q))
    BY <1>2 DEF EndVote, Approved, Approving
  <2> QED
    BY <1>n, <1>u, <2>1, <2>2, <2>3 DEF Unopposed
<1>3. ASSUME NEW row \in RequestRow, BeginDecision(r, row) PROVE Unopposed(q)'
  <2>1. UNCHANGED <<request, votes, voting>> /\ (Approved(q)' <=> Approved(q))
    BY <1>3 DEF BeginDecision, Approved
  <2>2. deciding'[q] = IF q = r THEN row ELSE deciding[q]
    BY <1>3 DEF BeginDecision, TypeOK
  <2>3. row.status = "APPROVED" /\ ~Approved(r) => \A a \in Actor : votes[r][a] # "REJECT"
    BY <1>3 DEF BeginDecision, Approvable, Rejections
  <2>4. CASE q = r
    BY <1>u, <2>1, <2>2, <2>3, <2>4 DEF Unopposed, Approving
  <2>5. CASE q # r
    BY <1>u, <2>1, <2>2, <2>5 DEF Unopposed, Approving
  <2> QED
    BY <2>4, <2>5
<1>4. CASE CommitDecision(r)
  <2>1. UNCHANGED <<votes, voting>>
    BY <1>4 DEF CommitDecision
  <2>2. /\ request'[q] = IF q = r THEN deciding[r] ELSE request[q]
        /\ deciding'[q] = IF q = r THEN None ELSE deciding[q]
        /\ deciding[r] # None
    BY <1>4 DEF CommitDecision, TypeOK
  <2>3. CASE q = r
    <3>1. ~Approving(q)' /\ (Approved(q)' => Approved(q) \/ Approving(q))
      BY <2>2, <2>3 DEF Approved, Approving
    <3> QED
      BY <1>u, <2>1, <3>1 DEF Unopposed, RejectionsApart
  <2>4. CASE q # r
    <3>1. (Approved(q)' <=> Approved(q)) /\ (Approving(q)' <=> Approving(q))
      BY <2>2, <2>4 DEF Approved, Approving
    <3> QED
      BY <1>u, <2>1, <3>1 DEF Unopposed
  <2> QED
    BY <2>3, <2>4
<1>5. CASE DropDecision(r)
  <2>1. UNCHANGED <<request, votes, voting>> /\ deciding'[q] \in {deciding[q], None}
    BY <1>5 DEF DropDecision, TypeOK
  <2> QED
    BY <1>u, <2>1 DEF Unopposed, Approved, Approving
<1>6. ASSUME NEW row \in RequestRow, InsertRequest(r, row) PROVE Unopposed(q)'
  <2>1. UNCHANGED <<deciding, votes, voting>> /\ deciding[r] = None
    BY <1>6 DEF InsertRequest, RequestsFiled
  <2>2. request'[q] = IF q = r THEN row ELSE request[q]
    BY <1>6 DEF InsertRequest, TypeOK
  <2>3. q = r => row.status # "APPROVED"
    BY <1>6 DEF InsertRequest
  <2> QED
    BY <1>u, <2>1, <2>2, <2>3 DEF Unopposed, Approved, Approving
<1> QED
  BY <1>1, <1>2, <1>3, <1>4, <1>5, <1>6

\* Only the write skew of a rejection and an approval leaves an examined request
\* approved against a rejection: if no rejection is being inserted while its request's
\* approval is decided, neither a decision that is taken back and made anew nor a vote
\* that opens before the request is decided can bring it about.
THEOREM SkewAloneOpposes == Spec /\ []RejectionsApart => []ApprovedIsUnopposed
<1>1. Init => ApprovalsUnopposed
  BY GovernanceAssumption DEF Init, ApprovalsUnopposed, Unopposed, Approved, Approving
<1>2. /\ TypeOK /\ RequestsFiled /\ ApprovalsUnopposed /\ RejectionsApart
      /\ [Next]_vars
      => ApprovalsUnopposed'
  <2> SUFFICES ASSUME TypeOK, RequestsFiled, ApprovalsUnopposed, RejectionsApart, [Next]_vars
               PROVE  ApprovalsUnopposed'
    OBVIOUS
  <2>1. CASE UNCHANGED approvalVars
    BY <2>1 DEF approvalVars, ApprovalsUnopposed, Unopposed, Approved, Approving
  <2>2. CASE ApprovalStep
    BY <2>2, ApprovalUnopposed
  <2>3. ApprovalStep \/ UNCHANGED approvalVars
    BY DEF Next, vars, approvalVars, WriteStep, SetCase, AuthorizeReleaseGate, BeginWrite,
       ReadApproval, ReadCase, ReadGate, Reads, CommitWrite, FailWrite
  <2> QED
    BY <2>1, <2>2, <2>3
<1>3. ApprovalsUnopposed => ApprovedIsUnopposed
  BY DEF ApprovalsUnopposed, Unopposed, ApprovedIsUnopposed, Rejections
<1>4. GovernanceInv => TypeOK /\ RequestsFiled
  BY DEF GovernanceInv
<1> QED
  BY <1>1, <1>2, <1>3, <1>4, GovernanceInvariant, PTL DEF Spec
=============================================================================
