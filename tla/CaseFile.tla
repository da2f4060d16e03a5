------------------------------- MODULE CaseFile -------------------------------
(***************************************************************************)
(* The records that organizations file about one another.  A record is     *)
(* tested once, by itself, when it is made; it names its parent by an id   *)
(* that may belong to nothing and repeats organizations that its parent    *)
(* already named, or names others in their place.                          *)
(***************************************************************************)
EXTENDS OrganizationRecords

CONSTANTS
    Organization,
    Kinds,          \* the kinds of record in use, of those in Schema
    Id,
    Unfiled

VARIABLE file       \* the record under each id

\* An id is not of a kind: it may be given as the parent of any record.  Evidence
\* that is never asked for is left out.
RecordOf(k) ==
    [kind : {k}, under : IF k.under = Root THEN {Root} ELSE Id,
     holds : [k.roles -> Organization], state : k.material \cup {"recorded"},
     evidenced : IF k.material = Never THEN {FALSE} ELSE BOOLEAN]

Record == UNION {RecordOf(k) : k \in Kinds}

Init == file = [i \in Id |-> Unfiled]

Separate(r) == \A pair \in r.kind.apart : r.holds[pair[1]] # r.holds[pair[2]]

Evidenced(r) == r.state \in r.kind.material => r.evidenced

\* __post_init__
Accepts(r) == Separate(r) /\ Evidenced(r)

File(i, r) ==
    /\ file[i] = Unfiled
    /\ Accepts(r)
    /\ file' = [file EXCEPT ![i] = r]

Next == \E i \in Id : file[i] = Unfiled /\ \E r \in Record : File(i, r)

Spec == Init /\ [][Next]_file

-----------------------------------------------------------------------------
\* Properties

Filed == {i \in Id : file[i] # Unfiled}

\* i was filed under the record of its parent's kind that has the id j.
Under(i, j) == file[i].under = j /\ file[i].kind.under = file[j].kind.name

\* What a record keeps apart from a duty is not in the hands of the organization
\* that the record above names for that duty, whatever organization the record
\* itself names for it: who verifies an execution did not execute it.
IndependentOfParent ==
    \A i, j \in Filed : Under(i, j) =>
        \A pair \in file[i].kind.apart :
            pair[1] \in file[j].kind.roles => file[i].holds[pair[2]] # file[j].holds[pair[1]]
=============================================================================
