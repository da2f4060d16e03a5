---------------------------- MODULE TstLifecycle ----------------------------
(***************************************************************************)
(* What the distribution pipeline promises, without its tables.  A request *)
(* may be granted an amount while the grants of its allocation fit the     *)
(* authorized amount; a granted request is paid once, and a payment ends   *)
(* reconciled or held, for good.                                           *)
(***************************************************************************)
EXTENDS Integers, Functions

CONSTANTS Allocation, Distribution, AllocationOf, Authorized, Amount

VARIABLES
    phase,    \* where each distribution stands
    granted   \* the amount granted to it, 0 before

Granted(a) == SumFunctionOnSet(granted, {d \in Distribution : AllocationOf[d] = a})

Init ==
    /\ phase = [d \in Distribution |-> "open"]
    /\ granted = [d \in Distribution |-> 0]

Grant(d, n) ==
    /\ phase[d] = "open"
    /\ Granted(AllocationOf[d]) + n <= Authorized[AllocationOf[d]]
    /\ phase' = [phase EXCEPT ![d] = "approved"]
    /\ granted' = [granted EXCEPT ![d] = n]

Advance(d, from, to) ==
    /\ phase[d] = from
    /\ phase' = [phase EXCEPT ![d] = to]
    /\ UNCHANGED granted

Next ==
    \E d \in Distribution :
        \/ \E n \in Amount : Grant(d, n)
        \/ Advance(d, "approved", "paid")
        \/ \E outcome \in {"reconciled", "held"} : Advance(d, "paid", outcome)

Spec == Init /\ [][Next]_<<phase, granted>>
=============================================================================
