------------------------- MODULE MCSourceCoinLedger -------------------------
(***************************************************************************)
(* Instances of SourceCoinLedger for TLC: two accounts of one organization,*)
(* transfers that compete for one account's coins, cross each other or     *)
(* name one account twice.                                                 *)
(***************************************************************************)
EXTENDS SourceCoinLedger, TLC

CONSTANTS a1, a2, oa, ob, t1, t2, t3, t4, s1, s2

\* Two payments out of a1 that its coins do not both cover, one back, and a
\* transfer from an account to itself.
MCSource == t1 :> a1 @@ t2 :> a1 @@ t3 :> a2 @@ t4 :> a1
MCDestination == t1 :> a2 @@ t2 :> a2 @@ t3 :> a1 @@ t4 :> a1
MCAmount == t1 :> 2 @@ t2 :> 1 @@ t3 :> 1 @@ t4 :> 1
MCType == [t \in Transaction |-> "TRANSFER"]
MCGenesis == a1 :> 2 @@ a2 :> 0

\* One organization owns both accounts, and a status update scans them in the
\* order a payment locks them in, or against it.
OneOwner == a1 :> oa @@ a2 :> oa
MCScanOrder == a1 :> 1 @@ a2 :> 2

Authorization == {<<"CREATED", "AUTHORIZED">>}
AnyMove == Authorization \cup {<<"AUTHORIZED", "CANCELLED">>}
=============================================================================
