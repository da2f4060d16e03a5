--------------------------- MODULE HeartbeatProofs ---------------------------
(***************************************************************************)
(* Proofs about HeartbeatAssertions, for any credentials, devices,         *)
(* sessions and times: what a trigger found is among the grounds that held *)
(* during the insertion, and stays among them whatever is written later.   *)
(***************************************************************************)
EXTENDS HeartbeatAssertions, TLAPS

\* What the triggers found before they let an INSERT pass on to its phase.
Found(phase) ==
    IF phase = "checked" THEN {"credential", "device"}
    ELSE IF phase = "credited" THEN {"credential"} ELSE {}

Open == [phase : {"begun", "credited", "checked"}, row : Assertion, held : SUBSET Ground]

\* An open INSERT has the grounds that its triggers found, and those of now.
Sound(ins, st, att) ==
    /\ ins.row.expires > ins.row.issued
    /\ Found(ins.phase) \subseteq ins.held
    /\ Grounds(ins.row, st, att) \subseteq ins.held

InsertsSound ==
    /\ insert \in [Session -> {Idle} \cup Open]
    /\ \A s \in Session : insert[s] # Idle => Sound(insert[s], status, attestation)

AssertionsSound ==
    /\ assertions \subseteq [row : Assertion, held : SUBSET Ground]
    /\ \A r \in assertions : r.row.expires > r.row.issued /\ Ground \subseteq r.held

TablesSound == status \in [Credential -> Status] /\ attestation \in [Device -> Attestation]

HeartbeatInv == TablesSound /\ InsertsSound /\ AssertionsSound

-----------------------------------------------------------------------------

LEMMA GroundsType ==
    ASSUME NEW row, NEW st, NEW att
    PROVE  Grounds(row, st, att) \in SUBSET Ground
  BY DEF Grounds, Ground

\* A write of the two tables leaves every INSERT where it is, with the grounds
\* it had and those of now.
LEMMA WitnessKeeps ==
    ASSUME InsertsSound, insert' = Witnessed
    PROVE  InsertsSound'
<1>1. ASSUME NEW s \in Session, insert[s] = Idle
      PROVE  insert'[s] = Idle
  BY <1>1 DEF Witnessed
<1>2. ASSUME NEW s \in Session, insert[s] # Idle
      PROVE  insert'[s] \in Open /\ Sound(insert'[s], status', attestation')
  <2>1. insert[s] \in Open /\ Sound(insert[s], status, attestation)
    BY <1>2 DEF InsertsSound
  <2>2. PICK g \in SUBSET Ground : g = Grounds(insert[s].row, status', attestation')
    BY GroundsType
  <2>3. insert'[s] = [insert[s] EXCEPT !.held = @ \cup g]
    BY <1>2, <2>2 DEF Witnessed
  <2>4. /\ insert'[s] \in Open
        /\ insert'[s].phase = insert[s].phase
        /\ insert'[s].row = insert[s].row
        /\ insert'[s].held = insert[s].held \cup g
    BY <2>1, <2>3 DEF Open
  <2> QED
    BY <2>1, <2>2, <2>4 DEF Sound
<1>3. insert' \in [Session -> {Idle} \cup Open]
  <2>1. \A s \in Session : insert'[s] \in {Idle} \cup Open
    BY <1>1, <1>2
  <2>2. insert' = [s \in Session |-> insert'[s]]
    BY DEF Witnessed
  <2> QED
    BY <2>1, <2>2
<1> QED
  BY <1>1, <1>2, <1>3 DEF InsertsSound

\* One INSERT takes a step, and is sound after it.
LEMMA OneInsertMoves ==
    ASSUME InsertsSound, NEW s \in Session, NEW new,
           insert' = [insert EXCEPT ![s] = new], UNCHANGED <<status, attestation>>,
           \/ new = Idle
           \/ new \in Open /\ Sound(new, status, attestation)
    PROVE  InsertsSound'
<1>1. insert' \in [Session -> {Idle} \cup Open]
  BY DEF InsertsSound
<1>2. ASSUME NEW u \in Session, insert'[u] # Idle
      PROVE  Sound(insert'[u], status', attestation')
  BY <1>2 DEF InsertsSound
<1> QED
  BY <1>1, <1>2 DEF InsertsSound

LEMMA OneInsertEnds ==
    ASSUME InsertsSound, NEW s \in Session,
           insert' = [insert EXCEPT ![s] = Idle], UNCHANGED <<status, attestation>>
    PROVE  InsertsSound'
<1>1. insert' \in [Session -> {Idle} \cup Open]
  BY DEF InsertsSound
<1>2. ASSUME NEW u \in Session, insert'[u] # Idle
      PROVE  Sound(insert'[u], status', attestation')
  BY <1>2 DEF InsertsSound
<1> QED
  BY <1>1, <1>2 DEF InsertsSound

\* Each step keeps the invariant: a trigger lets pass what the grounds at that
\* moment show, and these are among the grounds the INSERT has.
LEMMA HeartbeatStep == HeartbeatInv /\ [Next]_vars => HeartbeatInv'
<1> SUFFICES ASSUME HeartbeatInv, [Next]_vars PROVE HeartbeatInv'
  OBVIOUS
<1> USE DEF HeartbeatInv
<1>1. ASSUME NEW c \in Credential, NEW st \in Status, SetCredential(c, st)
      PROVE  HeartbeatInv'
  <2>1. TablesSound' /\ AssertionsSound'
    BY <1>1 DEF SetCredential, TablesSound, AssertionsSound
  <2> QED
    BY <1>1, <2>1, WitnessKeeps DEF SetCredential
<1>2. ASSUME NEW d \in Device, NEW row \in Attestation, SetAttestation(d, row)
      PROVE  HeartbeatInv'
  <2>1. TablesSound' /\ AssertionsSound'
    BY <1>2 DEF SetAttestation, TablesSound, AssertionsSound
  <2> QED
    BY <1>2, <2>1, WitnessKeeps DEF SetAttestation
<1>3. ASSUME NEW s \in Session, NEW row \in Assertion, Begin(s, row)
      PROVE  HeartbeatInv'
  <2>1. TablesSound' /\ AssertionsSound'
    BY <1>3 DEF Begin, TablesSound, AssertionsSound
  <2>2. InsertsSound'
    <3> DEFINE new == [phase |-> "begun", row |-> row,
                       held |-> Grounds(row, status, attestation)]
    <3>1. new \in Open /\ Sound(new, status, attestation)
      BY <1>3, GroundsType DEF Begin, Open, Sound, Found, Lasts
    <3> HIDE DEF new
    <3>2. insert' = [insert EXCEPT ![s] = new] /\ UNCHANGED <<status, attestation>>
      BY <1>3 DEF Begin, new
    <3> QED
      BY <3>1, <3>2, OneInsertMoves
  <2> QED
    BY <2>1, <2>2
<1>4. ASSUME NEW s \in Session, CheckCredential(s)
      PROVE  HeartbeatInv'
  <2>1. TablesSound' /\ AssertionsSound'
    BY <1>4 DEF CheckCredential, TablesSound, AssertionsSound
  <2>2. InsertsSound'
    <3> DEFINE new == [insert[s] EXCEPT !.phase = "credited"]
    <3>1. /\ insert[s] \in Open /\ Sound(insert[s], status, attestation) /\ insert[s].phase = "begun"
          /\ UNCHANGED <<status, attestation>>
      BY <1>4 DEF CheckCredential, InsertsSound, Idle
    <3>2. CASE Active(insert[s].row)
      <4>1. "credential" \in Grounds(insert[s].row, status, attestation)
        BY <3>2 DEF Grounds, Active
      <4>2. new \in Open /\ Sound(new, status, attestation)
        BY <3>1, <4>1 DEF Open, Sound, Found
      <4>3. insert' = [insert EXCEPT ![s] = new]
        BY <1>4, <3>2 DEF CheckCredential
      <4> HIDE DEF new
      <4> QED
        BY <3>1, <4>2, <4>3, OneInsertMoves
    <3>3. CASE ~Active(insert[s].row)
      <4>1. insert' = [insert EXCEPT ![s] = Idle]
        BY <1>4, <3>3 DEF CheckCredential
      <4> QED
        BY <3>1, <4>1, OneInsertEnds
    <3> QED
      BY <3>2, <3>3
  <2> QED
    BY <2>1, <2>2
<1>5. ASSUME NEW s \in Session, CheckDevice(s)
      PROVE  HeartbeatInv'
  <2>1. TablesSound' /\ AssertionsSound'
    BY <1>5 DEF CheckDevice, TablesSound, AssertionsSound
  <2>2. InsertsSound'
    <3> DEFINE new == [insert[s] EXCEPT !.phase = "checked"]
    <3>1. /\ insert[s] \in Open /\ Sound(insert[s], status, attestation) /\ insert[s].phase = "credited"
          /\ UNCHANGED <<status, attestation>>
      BY <1>5 DEF CheckDevice, InsertsSound, Idle
    <3>2. CASE Covers(insert[s].row)
      <4>1. "device" \in Grounds(insert[s].row, status, attestation)
        BY <3>2 DEF Grounds, Covers
      <4>2. new \in Open /\ Sound(new, status, attestation)
        BY <3>1, <4>1 DEF Open, Sound, Found
      <4>3. insert' = [insert EXCEPT ![s] = new]
        BY <1>5, <3>2 DEF CheckDevice
      <4> HIDE DEF new
      <4> QED
        BY <3>1, <4>2, <4>3, OneInsertMoves
    <3>3. CASE ~Covers(insert[s].row)
      <4>1. insert' = [insert EXCEPT ![s] = Idle]
        BY <1>5, <3>3 DEF CheckDevice
      <4> QED
        BY <3>1, <4>1, OneInsertEnds
    <3> QED
      BY <3>2, <3>3
  <2> QED
    BY <2>1, <2>2
<1>6. ASSUME NEW s \in Session, Commit(s)
      PROVE  HeartbeatInv'
  <2> DEFINE new == [row |-> insert[s].row, held |-> insert[s].held]
  <2>1. /\ insert[s] \in Open
        /\ insert[s].row.expires > insert[s].row.issued
        /\ Ground \subseteq insert[s].held
    BY <1>6 DEF Commit, InsertsSound, Sound, Idle, Found, Ground
  <2>2. AssertionsSound'
    BY <1>6, <2>1 DEF Commit, AssertionsSound, Open
  <2>3. InsertsSound'
    BY <1>6, OneInsertEnds DEF Commit
  <2>4. TablesSound'
    BY <1>6 DEF Commit, TablesSound
  <2> QED
    BY <2>2, <2>3, <2>4
<1>7. ASSUME NEW s \in Session, Rollback(s)
      PROVE  HeartbeatInv'
  <2>1. TablesSound' /\ AssertionsSound'
    BY <1>7 DEF Rollback, TablesSound, AssertionsSound
  <2> QED
    BY <1>7, <2>1, OneInsertEnds DEF Rollback
<1>8. CASE UNCHANGED vars
  BY <1>8 DEF vars, TablesSound, AssertionsSound, InsertsSound, Sound
<1> QED
  BY <1>1, <1>2, <1>3, <1>4, <1>5, <1>6, <1>7, <1>8 DEF Next, WorldStep, InsertStep

LEMMA HeartbeatInit == Init => HeartbeatInv
  BY DEF Init, HeartbeatInv, TablesSound, InsertsSound, AssertionsSound

\* The inductive invariant.
THEOREM HeartbeatInvariant == Spec => []HeartbeatInv
  BY HeartbeatInit, HeartbeatStep, PTL DEF Spec

\* The tables and the open INSERTs keep their types, and no assertion expires
\* before it is issued.
THEOREM HeartbeatTypeCorrect == Spec => []TypeOK
<1>1. HeartbeatInv => TypeOK
  BY DEF HeartbeatInv, TablesSound, InsertsSound, AssertionsSound, Sound, Open, TypeOK
<1> QED
  BY <1>1, HeartbeatInvariant, PTL

\* Every assertion was inserted while its credential was active at one moment and
\* its device trusted, beyond issued_at, at another, for any number of sessions,
\* credentials and devices.
THEOREM AssertionsRest == Spec => []RestsOnEvidence
<1>1. HeartbeatInv => RestsOnEvidence
  BY DEF HeartbeatInv, AssertionsSound, RestsOnEvidence, Ground
<1> QED
  BY <1>1, HeartbeatInvariant, PTL
=============================================================================
