--------------------------- MODULE EcologyGateway ---------------------------
(***************************************************************************)
(* The Ecology gateway's security: well-formed requests are evaluated one  *)
(* after another, for principals that the caller presents with each of     *)
(* them, against a store of idempotency keys and a count of what was       *)
(* accepted for every principal.  The store is in the memory of one        *)
(* process; evaluate runs to its end before the next call begins.          *)
(*                                                                         *)
(* A request whose construction raises never reaches the gateway.  Request *)
(* and correlation identifiers, times, subjects and attributes decide      *)
(* nothing and are left out; the keys are what blank-trimming leaves.      *)
(***************************************************************************)
EXTENDS Integers, Sequences, FiniteSets

CONSTANTS
    PrincipalId,   \* identifiers of callers
    Target,        \* the domains that requests are addressed to
    Key,           \* idempotency keys
    None,          \* no key; no rejection
    Permission,    \* the permissions principals are presented with:
                   \* sets of <<domain, action>>
    RateLimit      \* requests accepted for one principal

Domain == {"setc", "source_block", "wim", "cruds", "hei", "gsc", "rgl",
           "capitalization", "source_coin", "external_authority"}

VARIABLES
    idempotency,       \* keys of accepted requests
    principal_counts,  \* accepted requests of each principal
    trail              \* the audit records, each with the call it answers

vars == <<idempotency, principal_counts, trail>>

Material == {"request_market_workflow", "request_capital_review",
             "request_settlement", "request_institutional_review",
             "request_logistics_review", "request_provenance_review",
             "submit_regenerative_proposal"}

Action == Material \cup {"register_reference"}

\* What a domain may be asked for besides the registration of a reference.
\* The read-only universe, cruds, may be asked for nothing at all.
Asked(d) ==
    CASE d = "wim"            -> {"request_market_workflow"}
      [] d = "capitalization" -> {"request_capital_review", "submit_regenerative_proposal"}
      [] d = "source_coin"    -> {"request_settlement"}
      [] d = "hei"            -> {"request_institutional_review", "submit_regenerative_proposal"}
      [] d \in {"gsc", "rgl"} -> {"request_logistics_review"}
      [] d \in {"setc", "source_block"} -> {"request_provenance_review"}
      [] OTHER                -> {}

AllowedActions(d) ==
    IF d = "cruds" THEN {} ELSE Asked(d) \cup {"register_reference"}

GatewayRequest ==
    {r \in [domain : Target, action : Action, key : Key \cup {None}] :
        /\ r.action \in AllowedActions(r.domain)
        /\ r.action \in Material => r.key # None}

GatewayPrincipal ==
    [id : PrincipalId, authenticated : BOOLEAN, permissions : Permission]

GatewayRejection == {"unauthenticated", "unauthorized", "rate_limited", "replay"}

\* What the constants may be; the theorems name it as a hypothesis.
GatewayParameters ==
    /\ RateLimit \in Nat \ {0}
    /\ Target \subseteq Domain
    /\ None \notin Key \cup GatewayRejection

Permits(p, r) ==
    /\ p.authenticated
    /\ <<r.domain, r.action>> \in p.permissions
    /\ r.action \in AllowedActions(r.domain)

-----------------------------------------------------------------------------

Init ==
    /\ idempotency = {}
    /\ principal_counts = [id \in PrincipalId |-> 0]
    /\ trail = <<>>

Rejection(p, r) ==
    IF ~p.authenticated THEN "unauthenticated"
    ELSE IF ~Permits(p, r) THEN "unauthorized"
    ELSE IF principal_counts[p.id] >= RateLimit THEN "rate_limited"
    ELSE IF r.key # None /\ r.key \in idempotency THEN "replay"
    ELSE None

Consume(p, r) ==
    IF Rejection(p, r) = None
    THEN /\ principal_counts' = [principal_counts EXCEPT ![p.id] = @ + 1]
         /\ idempotency' = idempotency \cup ({r.key} \ {None})
    ELSE UNCHANGED <<principal_counts, idempotency>>

Evaluate(p, r) ==
    /\ Consume(p, r)
    /\ trail' = Append(trail, [principal |-> p, request |-> r,
                               rejection |-> Rejection(p, r)])

Next == \E p \in GatewayPrincipal, r \in GatewayRequest : Evaluate(p, r)

Spec == Init /\ [][Next]_vars

-----------------------------------------------------------------------------
\* Properties

AuditRecord ==
    [principal : GatewayPrincipal, request : GatewayRequest,
     rejection : GatewayRejection \cup {None}]

\* The types of the store and of the audit trail.
TypeOK ==
    /\ idempotency \subseteq Key
    /\ principal_counts \in [PrincipalId -> 0..RateLimit]
    /\ trail \in Seq(AuditRecord)

\* What the trail shows accepted before its n-th record.
AcceptedBefore(n) == {i \in 1..(n - 1) : trail[i].rejection = None}

AcceptedFor(id, n) == {i \in AcceptedBefore(n) : trail[i].principal.id = id}

AtLimit(id, n) == Cardinality(AcceptedFor(id, n)) >= RateLimit

Seen(k, n) == k # None /\ \E i \in AcceptedBefore(n) : trail[i].request.key = k

\* The answer that the records before the n-th call for.
CalledFor(rec, n) ==
    LET p == rec.principal
        r == rec.request
        limited == AtLimit(p.id, n)
        seen == Seen(r.key, n)
    IN  /\ rec.rejection = "unauthenticated" <=> ~p.authenticated
        /\ rec.rejection = "unauthorized" <=> p.authenticated /\ ~Permits(p, r)
        /\ rec.rejection = "rate_limited" <=> Permits(p, r) /\ limited
        /\ rec.rejection = "replay" <=> Permits(p, r) /\ ~limited /\ seen
        /\ rec.rejection = None <=> Permits(p, r) /\ ~limited /\ ~seen

\* Every decision is the one that the earlier records call for: a request is
\* accepted unless its principal is not known or not permitted, has had its
\* share of acceptances, or brings a key that was accepted before, for
\* whomever it was.  What is refused, in any number and for any reason, uses up
\* neither a share nor a key, so no later decision depends on it.
DecidedByTrail == \A n \in DOMAIN trail : CalledFor(trail[n], n)
=============================================================================
