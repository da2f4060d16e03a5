------------------------ MODULE EcologyGatewayProofs ------------------------
(***************************************************************************)
(* The store of the Ecology gateway is a function of its audit trail, and  *)
(* so every decision is the one that the trail before it calls for: proved *)
(* for any principals, keys, domains, permissions, limit and length.       *)
(***************************************************************************)
EXTENDS EcologyGateway, FiniteSetTheorems, TLAPS

\* What evaluate keeps in memory is what the trail shows: the keys accepted so
\* far, and for every principal the number of requests accepted.
StoreFollowsTrail ==
    LET next == Len(trail) + 1 IN
    /\ idempotency = {k \in Key : Seen(k, next)}
    /\ \A id \in PrincipalId : principal_counts[id] = Cardinality(AcceptedFor(id, next))

Inv == TypeOK /\ StoreFollowsTrail /\ DecidedByTrail

-----------------------------------------------------------------------------
\* What the trail shows before a record

\* The answer to a request, by the store.
LEMMA RejectionCases ==
    ASSUME GatewayParameters, NEW p, NEW r
    PROVE  LET limited == principal_counts[p.id] >= RateLimit
               seen == r.key # None /\ r.key \in idempotency
               answer == Rejection(p, r)
           IN  /\ answer \in GatewayRejection \cup {None}
               /\ answer = "unauthenticated" <=> ~p.authenticated
               /\ answer = "unauthorized" <=> p.authenticated /\ ~Permits(p, r)
               /\ answer = "rate_limited" <=> Permits(p, r) /\ limited
               /\ answer = "replay" <=> Permits(p, r) /\ ~limited /\ seen
               /\ answer = None <=> Permits(p, r) /\ ~limited /\ ~seen
<1>1. None \notin {"unauthenticated", "unauthorized", "rate_limited", "replay"}
  BY DEF GatewayParameters, GatewayRejection
<1>2. Permits(p, r) => p.authenticated
  BY DEF Permits
<1> QED
  BY <1>1, <1>2 DEF Rejection, GatewayRejection

\* A principal's acceptances before a record of the trail are finitely many.
LEMMA AcceptedFinite ==
    ASSUME NEW id, NEW n \in Nat
    PROVE  IsFiniteSet(AcceptedFor(id, n))
<1>1. IsFiniteSet(1..(n - 1))
  BY FS_Interval
<1>2. AcceptedFor(id, n) \subseteq 1..(n - 1)
  BY DEF AcceptedFor, AcceptedBefore
<1> QED
  BY <1>1, <1>2, FS_Subset

\* A step that appends a record leaves what is before it as it was.
LEMMA PastStays ==
    ASSUME NEW rec, trail \in Seq(AuditRecord), trail' = Append(trail, rec),
           NEW n \in 1..(Len(trail) + 1)
    PROVE  /\ AcceptedBefore(n)' = AcceptedBefore(n)
           /\ \A id : AcceptedFor(id, n)' = AcceptedFor(id, n)
           /\ \A id : AtLimit(id, n)' <=> AtLimit(id, n)
           /\ \A k : Seen(k, n)' <=> Seen(k, n)
<1>1. \A i \in 1..(n - 1) : trail'[i] = trail[i]
  OBVIOUS
<1>2. AcceptedBefore(n)' = AcceptedBefore(n)
  BY <1>1 DEF AcceptedBefore
<1>3. \A i \in AcceptedBefore(n) : trail'[i] = trail[i]
  BY <1>1 DEF AcceptedBefore
<1>4. \A id : AcceptedFor(id, n)' = AcceptedFor(id, n)
  BY <1>2, <1>3 DEF AcceptedFor
<1>5. \A id : AtLimit(id, n)' <=> AtLimit(id, n)
  BY <1>4 DEF AtLimit
<1>6. \A k : Seen(k, n)' <=> Seen(k, n)
  BY <1>2, <1>3 DEF Seen
<1> QED
  BY <1>2, <1>4, <1>5, <1>6

\* An appended record adds itself to what was accepted if it is accepted, and
\* nothing otherwise.
LEMMA PastGrows ==
    ASSUME NEW rec, trail \in Seq(AuditRecord), trail' = Append(trail, rec),
           NEW n, n = Len(trail) + 1
    PROVE  /\ AcceptedBefore(n + 1)' =
                 AcceptedBefore(n) \cup (IF rec.rejection = None THEN {n} ELSE {})
           /\ n \notin AcceptedBefore(n)
           /\ trail'[n] = rec
<1>1. n \in Nat /\ n + 1 - 1 = n /\ 1..n = 1..(n - 1) \cup {n} /\ n \notin 1..(n - 1)
  OBVIOUS
<1>2. trail'[n] = rec /\ \A i \in 1..(n - 1) : trail'[i] = trail[i]
  OBVIOUS
<1> QED
  BY <1>1, <1>2 DEF AcceptedBefore

-----------------------------------------------------------------------------
\* Steps

\* Evaluate keeps the types; a count grows only below the limit.
LEMMA TypeStep == GatewayParameters /\ TypeOK /\ [Next]_vars => TypeOK'
<1> SUFFICES ASSUME GatewayParameters, TypeOK, [Next]_vars PROVE TypeOK'
  OBVIOUS
<1>1. CASE UNCHANGED vars
  BY <1>1 DEF vars, TypeOK
<1>2. ASSUME NEW p \in GatewayPrincipal, NEW r \in GatewayRequest, Evaluate(p, r)
      PROVE  TypeOK'
  <2>1. p.id \in PrincipalId /\ r.key \in Key \cup {None}
    BY DEF GatewayPrincipal, GatewayRequest
  <2>2. idempotency' \subseteq Key
    BY <1>2, <2>1 DEF Evaluate, Consume, TypeOK
  <2>3. principal_counts' \in [PrincipalId -> 0..RateLimit]
    <3>1. CASE Rejection(p, r) = None
      <4>1. principal_counts[p.id] \in 0..RateLimit /\ ~(principal_counts[p.id] >= RateLimit)
        BY <2>1, <3>1, RejectionCases DEF TypeOK
      <4>2. principal_counts[p.id] + 1 \in 0..RateLimit
        BY <4>1 DEF GatewayParameters
      <4> QED
        BY <1>2, <3>1, <4>2 DEF Evaluate, Consume, TypeOK
    <3>2. CASE Rejection(p, r) # None
      BY <1>2, <3>2 DEF Evaluate, Consume, TypeOK
    <3> QED
      BY <3>1, <3>2
  <2>4. trail' \in Seq(AuditRecord)
    <3>1. [principal |-> p, request |-> r, rejection |-> Rejection(p, r)] \in AuditRecord
      BY RejectionCases DEF AuditRecord
    <3> QED
      BY <1>2, <3>1 DEF Evaluate, TypeOK
  <2> QED
    BY <2>2, <2>3, <2>4 DEF TypeOK
<1> QED
  BY <1>1, <1>2 DEF Next

\* The call answers by the store, which is what the trail shows: so the new
\* record, too, is decided by the trail before it, and the store follows.
LEMMA InvStep == GatewayParameters /\ Inv /\ [Next]_vars => Inv'
<1> SUFFICES ASSUME GatewayParameters, Inv, [Next]_vars PROVE Inv'
  OBVIOUS
<1>1. TypeOK'
  BY TypeStep DEF Inv
<1>2. CASE UNCHANGED vars
  <2>1. \A n : AcceptedBefore(n)' = AcceptedBefore(n)
    BY <1>2 DEF vars, AcceptedBefore
  <2>2. /\ \A id, n : AcceptedFor(id, n)' = AcceptedFor(id, n)
        /\ \A id, n : AtLimit(id, n)' <=> AtLimit(id, n)
        /\ \A k, n : Seen(k, n)' <=> Seen(k, n)
    BY <1>2, <2>1 DEF vars, AcceptedFor, AtLimit, Seen
  <2>3. StoreFollowsTrail'
    BY <1>2, <2>2 DEF Inv, StoreFollowsTrail, vars
  <2>4. DecidedByTrail'
    <3>1. \A q, n : CalledFor(q, n)' <=> CalledFor(q, n)
      BY <2>2 DEF CalledFor
    <3> QED
      BY <1>2, <3>1 DEF Inv, DecidedByTrail, vars
  <2> QED
    BY <1>1, <2>3, <2>4 DEF Inv
<1>3. ASSUME NEW p \in GatewayPrincipal, NEW r \in GatewayRequest, Evaluate(p, r)
      PROVE  Inv'
  <2> PICK n : n = Len(trail) + 1
    OBVIOUS
  <2> PICK rec : rec = [principal |-> p, request |-> r, rejection |-> Rejection(p, r)]
    OBVIOUS
  <2>1. /\ trail \in Seq(AuditRecord) /\ trail' = Append(trail, rec)
        /\ n \in Nat /\ Len(trail') = n
    BY <1>3 DEF Inv, TypeOK, Evaluate
  <2>2. p.id \in PrincipalId /\ r.key \in Key \cup {None}
    BY DEF GatewayPrincipal, GatewayRequest
  <2>3. /\ AtLimit(p.id, n) <=> principal_counts[p.id] >= RateLimit
        /\ Seen(r.key, n) <=> r.key # None /\ r.key \in idempotency
    BY <2>2 DEF Inv, StoreFollowsTrail, AtLimit, Seen
  <2>4. DecidedByTrail'
    <3> SUFFICES ASSUME NEW m \in DOMAIN trail', NEW q, q = trail'[m]
                 PROVE  CalledFor(q, m)'
      BY DEF DecidedByTrail, CalledFor
    <3>1. m \in 1..n
      BY <2>1
    <3>2. /\ \A id : AtLimit(id, m)' <=> AtLimit(id, m)
          /\ \A k : Seen(k, m)' <=> Seen(k, m)
      BY <2>1, <3>1, PastStays
    <3>3. CalledFor(q, m)' <=> CalledFor(q, m)
      BY <3>2 DEF CalledFor
    <3>4. CASE m = n
      <4>1. q = rec
        BY <2>1, <3>4
      <4>2. CalledFor(rec, n)
        BY <2>3, RejectionCases DEF CalledFor
      <4> QED
        BY <3>3, <3>4, <4>1, <4>2
    <3>5. CASE m # n
      <4>1. m \in DOMAIN trail /\ q = trail[m]
        BY <2>1, <3>1, <3>5
      <4> QED
        BY <3>3, <4>1 DEF Inv, DecidedByTrail
    <3> QED
      BY <3>4, <3>5
  <2>5. /\ AcceptedBefore(n + 1)' =
              AcceptedBefore(n) \cup (IF Rejection(p, r) = None THEN {n} ELSE {})
        /\ n \notin AcceptedBefore(n)
        /\ trail'[n] = rec
    BY <2>1, PastGrows
  <2>6. \A i \in AcceptedBefore(n) : trail'[i] = trail[i]
    BY <2>1 DEF AcceptedBefore
  <2>7. idempotency' = {k \in Key : Seen(k, n + 1)'}
    <3>1. idempotency = {k \in Key : Seen(k, n)}
      BY DEF Inv, StoreFollowsTrail
    <3>2. CASE Rejection(p, r) = None
      <4>1. idempotency' = idempotency \cup ({r.key} \ {None})
        BY <1>3, <3>2 DEF Evaluate, Consume
      <4>2. \A k : Seen(k, n + 1)' <=> k # None /\ (Seen(k, n) \/ k = r.key)
        BY <2>5, <2>6, <3>2 DEF Seen
      <4> QED
        BY <2>2, <3>1, <4>1, <4>2 DEF GatewayParameters
    <3>3. CASE Rejection(p, r) # None
      <4>1. idempotency' = idempotency
        BY <1>3, <3>3 DEF Evaluate, Consume
      <4>2. \A k : Seen(k, n + 1)' <=> Seen(k, n)
        BY <2>5, <2>6, <3>3 DEF Seen
      <4> QED
        BY <3>1, <4>1, <4>2
    <3> QED
      BY <3>2, <3>3
  <2>8. ASSUME NEW id \in PrincipalId
        PROVE  principal_counts'[id] = Cardinality(AcceptedFor(id, n + 1)')
    <3>1. principal_counts[id] = Cardinality(AcceptedFor(id, n))
      BY DEF Inv, StoreFollowsTrail
    <3>2. CASE Rejection(p, r) = None /\ id = p.id
      <4>1. AcceptedFor(id, n + 1)' = AcceptedFor(id, n) \cup {n}
        BY <2>5, <2>6, <3>2 DEF AcceptedFor
      <4>2. n \notin AcceptedFor(id, n) /\ IsFiniteSet(AcceptedFor(id, n))
        BY <2>1, <2>5, AcceptedFinite DEF AcceptedFor
      <4>3. Cardinality(AcceptedFor(id, n) \cup {n}) = Cardinality(AcceptedFor(id, n)) + 1
        BY <4>2, FS_AddElement
      <4>4. principal_counts'[id] = principal_counts[id] + 1
        BY <1>3, <3>2 DEF Evaluate, Consume, Inv, TypeOK
      <4> QED
        BY <3>1, <4>1, <4>3, <4>4
    <3>3. CASE ~(Rejection(p, r) = None /\ id = p.id)
      <4>1. AcceptedFor(id, n + 1)' = AcceptedFor(id, n)
        BY <2>5, <2>6, <3>3 DEF AcceptedFor
      <4>2. principal_counts'[id] = principal_counts[id]
        BY <1>3, <3>3 DEF Evaluate, Consume, Inv, TypeOK
      <4> QED
        BY <3>1, <4>1, <4>2
    <3> QED
      BY <3>2, <3>3
  <2>9. StoreFollowsTrail'
    BY <2>1, <2>7, <2>8 DEF StoreFollowsTrail
  <2> QED
    BY <1>1, <2>4, <2>9 DEF Inv
<1> QED
  BY <1>2, <1>3 DEF Next

\* The empty store follows from the empty trail.
LEMMA InvInit == GatewayParameters /\ Init => Inv
<1> SUFFICES ASSUME GatewayParameters, Init PROVE Inv
  OBVIOUS
<1>1. TypeOK
  BY DEF GatewayParameters, Init, TypeOK
<1>2. AcceptedBefore(1) = {} /\ Len(trail) + 1 = 1
  BY DEF Init, AcceptedBefore
<1>3. \A id : AcceptedFor(id, 1) = {}
  BY <1>2 DEF AcceptedFor
<1>4. StoreFollowsTrail
  BY <1>2, <1>3, FS_EmptySet DEF Init, StoreFollowsTrail, Seen
<1>5. DecidedByTrail
  BY DEF Init, DecidedByTrail
<1> QED
  BY <1>1, <1>4, <1>5 DEF Inv

\* The inductive invariant.
THEOREM GatewayInvariant ==
    ASSUME GatewayParameters PROVE Spec => []Inv
  BY GatewayParameters, InvInit, InvStep, PTL DEF Spec

\* Store and trail keep their types, and no count passes the limit, for any
\* limit and any number of calls.
THEOREM GatewayTypeCorrect ==
    ASSUME GatewayParameters PROVE Spec => []TypeOK
<1>1. Inv => TypeOK
  BY DEF Inv
<1> QED
  BY <1>1, GatewayParameters, GatewayInvariant, PTL

\* Every decision of evaluate is the one that the audit trail before it calls
\* for: refusals use up nothing and no acceptance is forgotten, for any
\* principals, keys, permissions and limit.
THEOREM TrailDecides ==
    ASSUME GatewayParameters PROVE Spec => []DecidedByTrail
<1>1. Inv => DecidedByTrail
  BY DEF Inv
<1> QED
  BY <1>1, GatewayParameters, GatewayInvariant, PTL

\* The keys and counts in memory are at all times those that the trail shows.
THEOREM StoreIsOfTrail ==
    ASSUME GatewayParameters PROVE Spec => []StoreFollowsTrail
<1>1. Inv => StoreFollowsTrail
  BY DEF Inv
<1> QED
  BY <1>1, GatewayParameters, GatewayInvariant, PTL
=============================================================================
