----------------------------- MODULE MCTstAudit -----------------------------
(***************************************************************************)
(* Instances of TstAudit for TLC.                                          *)
(***************************************************************************)
EXTENDS TstAudit, TLC

CONSTANTS s1, s2, e1, e2, c1, utc, cet

\* Every content of an event is joined to the same text.
JoinedText(t) == <<t[1], t[2], t[3], t[5]>>

OneZone == [s \in Session |-> utc]
TwoZones == [s \in Session |-> IF s = s1 THEN utc ELSE cet]
=============================================================================
