---------------------------- MODULE ReleasePromise ----------------------------
(***************************************************************************)
(* What settlement governance promises about an instruction: it is only    *)
(* written as approved on an approval, only as under way on an approval    *)
(* and a cleared case, and in production only with the gate open, each of  *)
(* which held at some moment of that very write; a settlement is only ever *)
(* reversed, and an instruction that has ended stays as it is.             *)
(***************************************************************************)
CONSTANTS Instruction, Request, Case, None

VARIABLES
    kept,       \* the status and environment of each instruction
    holding,    \* the grounds that hold now
    writing,    \* the instructions with a write in hand
    seen        \* the grounds that held during it

promiseVars == <<kept, holding, writing, seen>>

Gate == "PRODUCTION_SETTLEMENT"

Ground == Request \cup Case \cup {Gate}

Ended == {"FAILED", "CANCELLED", "REVERSED", "EXPIRED"}
UnderWay == {"SUBMITTED", "ACCEPTED", "SETTLED"}
Approved == {"APPROVED"} \cup UnderWay

\* An instruction may be filed at any status.
Follows(old, new) ==
    old # None =>
        /\ old.status \in Ended => new.status = old.status
        /\ old.status = "SETTLED" => new.status \in {"SETTLED", "REVERSED"}
        /\ new.status = "SETTLED" => old.status \in {"ACCEPTED", "SETTLED"}

Warranted(grounds, new) ==
    /\ new.status \in Approved => grounds \cap Request # {}
    /\ new.status \in UnderWay => grounds \cap Case # {}
    /\ new.status \in UnderWay /\ new.production => Gate \in grounds

Init ==
    /\ kept = [i \in Instruction |-> None]
    /\ holding \subseteq Ground
    /\ writing = {}
    /\ seen = [i \in Instruction |-> {}]

Begin(i) ==
    /\ i \notin writing
    /\ writing' = writing \cup {i}
    /\ seen' = [seen EXCEPT ![i] = holding]
    /\ UNCHANGED <<kept, holding>>

Turn(grounds) ==
    /\ holding' = grounds
    /\ seen' = [i \in Instruction |-> IF i \in writing THEN seen[i] \cup grounds ELSE {}]
    /\ UNCHANGED <<kept, writing>>

Close(i) ==
    /\ i \in writing
    /\ writing' = writing \ {i}
    /\ seen' = [seen EXCEPT ![i] = {}]
    /\ UNCHANGED holding

Write(i, new) ==
    /\ Close(i)
    /\ Follows(kept[i], new)
    /\ Warranted(seen[i], new)
    /\ kept' = [kept EXCEPT ![i] = new]

Abandon(i) == Close(i) /\ UNCHANGED kept

InstructionStatus == Ended \cup Approved \cup {"DRAFT", "PENDING_APPROVAL", "RESTRICTED"}

Next ==
    \/ \E i \in Instruction :
        \/ Begin(i)
        \/ Abandon(i)
        \/ \E new \in [status : InstructionStatus, production : BOOLEAN] : Write(i, new)
    \/ \E grounds \in SUBSET Ground : Turn(grounds)

Spec == Init /\ [][Next]_promiseVars
=============================================================================
