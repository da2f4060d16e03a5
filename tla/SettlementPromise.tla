-------------------------- MODULE SettlementPromise --------------------------
(***************************************************************************)
(* What the institutional banking gateway promises of payments and their   *)
(* finality, without approvals, holds, evidence or UPDATEs: a payment is   *)
(* executed only after it was authorized, a settlement is final only after *)
(* some payment was executed, and both verdicts are ends, save that a      *)
(* settlement, open or final, may be withdrawn for good.                   *)
(***************************************************************************)
CONSTANTS Payment, Reconciliation

VARIABLES
    instruction,  \* intended, authorized, executed or closed
    verdict       \* open, final or withdrawn

vars == <<instruction, verdict>>

Init ==
    /\ instruction = [p \in Payment |-> "intended"]
    /\ verdict = [r \in Reconciliation |-> "open"]

Pass(p, from, to) ==
    /\ instruction[p] = from
    /\ instruction' = [instruction EXCEPT ![p] = to]
    /\ UNCHANGED verdict

Declare(r) ==
    /\ verdict[r] = "open"
    /\ \E p \in Payment : instruction[p] = "executed"
    /\ verdict' = [verdict EXCEPT ![r] = "final"]
    /\ UNCHANGED instruction

Withdraw(r) ==
    /\ verdict[r] \in {"open", "final"}
    /\ verdict' = [verdict EXCEPT ![r] = "withdrawn"]
    /\ UNCHANGED instruction

Next ==
    \/ \E p \in Payment :
          \/ Pass(p, "intended", "authorized") \/ Pass(p, "authorized", "intended")
          \/ Pass(p, "authorized", "executed")
          \/ Pass(p, "intended", "closed") \/ Pass(p, "authorized", "closed")
    \/ \E r \in Reconciliation : Declare(r) \/ Withdraw(r)

Spec == Init /\ [][Next]_vars
=============================================================================
