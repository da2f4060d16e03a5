------------------------- MODULE HeartbeatAssertions -------------------------
(***************************************************************************)
(* The insertion of HeartBeat authentication assertions.  Two triggers run *)
(* before it, in the order of their names: one reads the status of the     *)
(* cardiac credential, the next the device attestation.  Neither takes a   *)
(* lock, and the service role may write both tables between the two        *)
(* readings and between the last one and the commit.                       *)
(*                                                                         *)
(* The triggers ask no clock: issued_at and expires_at are columns that    *)
(* the inserter fills in, as are the times of an attestation.              *)
(* Assertions cannot be updated or deleted by the service role.  Rows of   *)
(* the two other tables are there from the start, with any content: a row  *)
(* that nothing refers to yet is as good as absent.                        *)
(***************************************************************************)
EXTENDS Integers, FiniteSets

CONSTANTS
    Credential,     \* rows of cardiac_credentials
    Device,         \* rows of device_attestations
    Session,        \* connections of the service role
    MaxTime,        \* bound on the times that columns hold
    MaxAssertions   \* bound on the assertions: no INSERT begins beyond it

ASSUME HeartbeatAssumption == MaxTime \in Nat /\ MaxAssertions \in Nat

VARIABLES
    status,        \* of each credential
    attestation,   \* the row of each device
    assertions,    \* committed assertions, each with the grounds it had
    insert         \* the INSERT open in each session

vars == <<status, attestation, assertions, insert>>

Time == 0..MaxTime
Status == {"active", "suspended", "revoked"}
Trust == {"trusted", "degraded", "untrusted", "revoked"}

Attestation ==
    {d \in [decision : Trust, evaluated : Time, expires : Time] :
        d.expires > d.evaluated}

\* Mutant: no CHECK on the two times.
AnyLife(row) == TRUE

Lasts(row) == row.expires > row.issued

Assertion ==
    [credential : Credential, device : Device, issued : Time, expires : Time]

Idle == [phase |-> "idle"]

-----------------------------------------------------------------------------
\* What the triggers ask

Active(row) == status[row.credential] = "active"

\* Mutant: a trusted device is enough.
TrustedDevice(row) == attestation[row.device].decision = "trusted"

Covers(row) ==
    /\ attestation[row.device].decision = "trusted"
    /\ attestation[row.device].expires > row.issued

\* What speaks for an assertion when the tables hold st and att.
Grounds(row, st, att) ==
    LET d == att[row.device]
    IN  {g \in {"credential", "device"} :
            \/ g = "credential" /\ st[row.credential] = "active"
            \/ g = "device" /\ d.decision = "trusted" /\ d.expires > row.issued}

\* The open INSERTs, once the tables are written.
Witnessed ==
    [s \in Session |->
        IF insert[s] = Idle THEN Idle
        ELSE [insert[s] EXCEPT !.held =
                 @ \cup Grounds(insert[s].row, status', attestation')]]

-----------------------------------------------------------------------------

Init ==
    /\ status \in [Credential -> Status]
    /\ attestation \in [Device -> Attestation]
    /\ assertions = {}
    /\ insert = [s \in Session |-> Idle]

SetCredential(c, st) ==
    /\ status' = [status EXCEPT ![c] = st]
    /\ UNCHANGED <<attestation, assertions>>
    /\ insert' = Witnessed

SetAttestation(d, row) ==
    /\ attestation' = [attestation EXCEPT ![d] = row]
    /\ UNCHANGED <<status, assertions>>
    /\ insert' = Witnessed

Begin(s, row) ==
    /\ insert[s] = Idle
    /\ Cardinality(assertions) < MaxAssertions
    /\ Lasts(row)
    /\ insert' = [insert EXCEPT ![s] =
                    [phase |-> "begun", row |-> row, held |-> Grounds(row, status, attestation)]]
    /\ UNCHANGED <<status, attestation, assertions>>

\* enforce_assertion_credential_state: a raise ends the INSERT.
CheckCredential(s) ==
    /\ insert[s].phase = "begun"
    /\ insert' = [insert EXCEPT ![s] =
                    IF Active(@.row) THEN [@ EXCEPT !.phase = "credited"] ELSE Idle]
    /\ UNCHANGED <<status, attestation, assertions>>

\* enforce_trusted_device_attestation
CheckDevice(s) ==
    /\ insert[s].phase = "credited"
    /\ insert' = [insert EXCEPT ![s] =
                    IF Covers(@.row) THEN [@ EXCEPT !.phase = "checked"] ELSE Idle]
    /\ UNCHANGED <<status, attestation, assertions>>

Commit(s) ==
    /\ insert[s].phase = "checked"
    /\ assertions' = assertions \cup {[row |-> insert[s].row, held |-> insert[s].held]}
    /\ insert' = [insert EXCEPT ![s] = Idle]
    /\ UNCHANGED <<status, attestation>>

Rollback(s) ==
    /\ insert[s] # Idle
    /\ insert' = [insert EXCEPT ![s] = Idle]
    /\ UNCHANGED <<status, attestation, assertions>>

WorldStep ==
    \/ \E c \in Credential, st \in Status : SetCredential(c, st)
    \/ \E d \in Device, row \in Attestation : SetAttestation(d, row)

InsertStep(s) ==
    \/ \E row \in Assertion : Begin(s, row)
    \/ CheckCredential(s)
    \/ CheckDevice(s)
    \/ Commit(s)
    \/ Rollback(s)

Next == WorldStep \/ \E s \in Session : InsertStep(s)

Spec == Init /\ [][Next]_vars

-----------------------------------------------------------------------------
\* Properties

Ground == {"credential", "device"}

\* The types of the three tables and of the INSERTs in hand; an assertion
\* expires after it is issued.
TypeOK ==
    /\ status \in [Credential -> Status]
    /\ attestation \in [Device -> Attestation]
    /\ assertions \subseteq [row : Assertion, held : SUBSET Ground]
    /\ insert \in [Session ->
          {Idle} \cup [phase : {"begun", "credited", "checked"}, row : Assertion,
                      held : SUBSET Ground]]
    /\ \A r \in assertions : r.row.expires > r.row.issued
    /\ \A s \in Session :
          insert[s] # Idle => insert[s].row.expires > insert[s].row.issued

\* An assertion is there only if its credential was active at a moment of its
\* insertion, and its device trusted, for a time beyond issued_at, at another,
\* whatever is suspended, revoked or evaluated anew between the two triggers
\* and before the commit.
RestsOnEvidence == \A r \in assertions : {"credential", "device"} \subseteq r.held
=============================================================================
