------------------------------ MODULE AuditLog ------------------------------
(***************************************************************************)
(* What the audit trail promises: one log per stewardship entity, to which *)
(* events are added at the end and from which none is ever changed, moved  *)
(* or lost.                                                                *)
(***************************************************************************)
EXTENDS Sequences

CONSTANTS Entity, Content, Time

VARIABLE log

Init == log = [e \in Entity |-> <<>>]

Record(e, c, t) ==
    log' = [log EXCEPT ![e] = Append(@, [content |-> c, occurred |-> t])]

Next == \E e \in Entity, c \in Content, t \in Time : Record(e, c, t)

Spec == Init /\ [][Next]_log
=============================================================================
