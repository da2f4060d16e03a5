------------------------------ MODULE MCCaseFile ------------------------------
(***************************************************************************)
(* Instance of CaseFile for TLC: the execution of a determination and its  *)
(* verification.                                                           *)
(***************************************************************************)
EXTENDS CaseFile, TLC

Executions ==
    {k \in Investigation :
        k.name \in {"EnforcementExecutionRecord", "EnforcementExecutionVerification"}}

Symmetric == Permutations(Organization) \cup Permutations(Id)
=============================================================================
