------------------------------ MODULE TstAudit ------------------------------
(***************************************************************************)
(* The append-only audit trail of tst_evidence_audit_integrity_006.        *)
(* append_audit_event reads the clock when it is entered, waits for the    *)
(* advisory lock of its entity, reads the last event of the chain, and     *)
(* inserts the next one with a digest over its own columns and the digest  *)
(* before it.  Sessions interleave between these statements under READ     *)
(* COMMITTED and may be cut off at each; rows become visible, and the      *)
(* advisory lock is released, when the transaction ends.                   *)
(*                                                                         *)
(* Nothing is assumed of Hash: different rows may give one text, as free   *)
(* columns are joined with a separator they may contain, and the row's own *)
(* identity is not part of it.  UNIQUE (entity, event_hash) is left out:   *)
(* the texts of one entity begin with different sequence numbers, so it    *)
(* refuses a row only when SHA-256 itself collides.  The text of a         *)
(* timestamptz depends on the time zone setting of the session that        *)
(* renders it.                                                             *)
(***************************************************************************)
EXTENDS Integers, FiniteSets

CONSTANTS
    Session,    \* connections of the service role
    Entity,     \* stewardship entities
    Content,    \* actor, action, object, correlation and payload of an event
    Zone,       \* UTC offsets of the time zone settings in use
    ZoneOf,     \* the setting of each session
    Hash(_),    \* the SHA-256 of the text that the columns are joined to
    Nobody,     \* no session
    NoHash,     \* a NULL previous_hash
    MaxClock,   \* bound on the clock
    MaxEvents   \* bound on the events of an entity: no call is made beyond it

ASSUME AuditAssumption ==
    /\ ZoneOf \in [Session -> Zone]
    /\ Nobody \notin Session
    /\ MaxClock \in Nat
    /\ MaxEvents \in Nat

VARIABLES
    clock,     \* clock_timestamp()
    events,    \* committed rows of tst.audit_events
    lock,      \* the session that holds each entity's advisory lock
    append     \* the append_audit_event call open in each session

vars == <<clock, events, lock, append>>

Time == 0..MaxClock
Phase == {"idle", "entered", "locked", "read", "inserted"}

Idle == [phase |-> "idle"]

-----------------------------------------------------------------------------
\* The chain of an entity

EventsOf(e) == {r \in events : r.entity = e}

\* ORDER BY sequence_no DESC LIMIT 1, with COALESCE(seq, 0).
Last(S) ==
    IF S = {} THEN [sequence |-> 0, hash |-> NoHash]
              ELSE CHOOSE q \in S : \A r \in S : r.sequence <= q.sequence

\* Mutant: the tail is looked for in the whole table.
TailOfTable(e) == Last(events)

ChainTail(e) == Last(EventsOf(e))

Text(t, z) == <<t, z>>

Digest(e, n, text, c, prev) == Hash(<<e, n, text, c, prev>>)

\* The row a call inserts after the event q.
Row(call, z, q) ==
    LET n == q.sequence + 1 IN
    [entity |-> call.entity, sequence |-> n, occurred |-> call.ts,
     content |-> call.content, previous |-> q.hash,
     hash |-> Digest(call.entity, n, Text(call.ts, z), call.content, q.hash)]

\* verify_audit_chain, called in a session with time zone z.
VerifyAuditChain(e, z) ==
    \A r \in EventsOf(e) :
        /\ r.previous = Last({q \in EventsOf(e) : q.sequence < r.sequence}).hash
        /\ r.hash = Digest(e, r.sequence, Text(r.occurred, z), r.content, r.previous)

-----------------------------------------------------------------------------
\* append_audit_event

Init ==
    /\ clock = 0
    /\ events = {}
    /\ lock = [e \in Entity |-> Nobody]
    /\ append = [s \in Session |-> Idle]

Tick ==
    /\ clock < MaxClock
    /\ clock' = clock + 1
    /\ UNCHANGED <<events, lock, append>>

Enter(s, e, c) ==
    /\ append[s] = Idle
    /\ Cardinality(EventsOf(e)) < MaxEvents
    /\ append' = [append EXCEPT ![s] =
                    [phase |-> "entered", entity |-> e, content |-> c, ts |-> clock]]
    /\ UNCHANGED <<clock, events, lock>>

\* Mutant: no advisory lock.
LockAnyway(s) == TRUE

LockFree(s) == lock[append[s].entity] \in {Nobody, s}

Lock(s) ==
    /\ append[s].phase = "entered"
    /\ LockFree(s)
    /\ lock' = [lock EXCEPT ![append[s].entity] = s]
    /\ append' = [append EXCEPT ![s].phase = "locked"]
    /\ UNCHANGED <<clock, events>>

\* The tail read is kept with the call.
ReadTail(s) ==
    LET call == append[s] IN
    /\ call.phase = "locked"
    /\ append' = [append EXCEPT ![s] =
                    [phase |-> "read", entity |-> call.entity, content |-> call.content,
                     ts |-> call.ts, row |-> Row(call, ZoneOf[s], ChainTail(call.entity))]]
    /\ UNCHANGED <<clock, events, lock>>

\* UNIQUE (stewardship_entity_id, sequence_no): an INSERT waits for an open
\* transaction that entered the same key and raises if a committed row has it.
SameKey(q, r) == q.entity = r.entity /\ q.sequence = r.sequence

KeyPending(s) ==
    \E t \in Session \ {s} :
        append[t].phase = "inserted" /\ SameKey(append[t].row, append[s].row)

KeyTaken(s) == \E r \in events : SameKey(r, append[s].row)

\* The transaction ends: its advisory lock is released with it.
Unlocked(s) == [e \in Entity |-> IF lock[e] = s THEN Nobody ELSE lock[e]]

\* Mutant: occurred_at is left to its DEFAULT, a later reading of the clock.
InsertStamped(s) ==
    /\ append[s].phase = "read"
    /\ ~KeyPending(s)
    /\ append' = [append EXCEPT ![s].phase = "inserted", ![s].row.occurred = clock]
    /\ UNCHANGED <<clock, events, lock>>

\* The insertion, or the raise that ends the transaction.
Insert(s) ==
    /\ append[s].phase = "read"
    /\ ~KeyPending(s)
    /\ append' = [append EXCEPT ![s] =
                    IF KeyTaken(s) THEN Idle ELSE [@ EXCEPT !.phase = "inserted"]]
    /\ lock' = IF KeyTaken(s) THEN Unlocked(s) ELSE lock
    /\ UNCHANGED <<clock, events>>

Commit(s) ==
    /\ append[s].phase = "inserted"
    /\ events' = events \cup {append[s].row}
    /\ append' = [append EXCEPT ![s] = Idle]
    /\ lock' = Unlocked(s)
    /\ UNCHANGED clock

\* Mutant: the lock belongs to the connection and survives the transaction.
RollbackLocked(s) ==
    /\ append[s] # Idle
    /\ append' = [append EXCEPT ![s] = Idle]
    /\ UNCHANGED <<clock, events, lock>>

\* A lost connection, a cancelled statement or a raise later in the caller.
Rollback(s) ==
    /\ append[s] # Idle
    /\ append' = [append EXCEPT ![s] = Idle]
    /\ lock' = Unlocked(s)
    /\ UNCHANGED <<clock, events>>

Step(s) == Lock(s) \/ ReadTail(s) \/ Insert(s) \/ Commit(s)

Next ==
    \/ Tick
    \/ \E s \in Session :
          \/ \E e \in Entity, c \in Content : Enter(s, e, c)
          \/ Step(s)
          \/ Rollback(s)

Spec == Init /\ [][Next]_vars

\* The server runs every statement and grants the lock to each waiter in turn.
FairSpec == Spec /\ \A s \in Session : SF_vars(Step(s))

-----------------------------------------------------------------------------
\* Properties

Event(r) ==
    /\ DOMAIN r = {"entity", "sequence", "occurred", "content", "previous", "hash"}
    /\ r.entity \in Entity /\ r.content \in Content
    /\ r.occurred \in Time /\ r.sequence \in Nat \ {0}

OpenCall(s) ==
    /\ \/ /\ DOMAIN append[s] = {"phase", "entity", "content", "ts"}
          /\ append[s].phase \in {"entered", "locked"}
       \/ /\ DOMAIN append[s] = {"phase", "entity", "content", "ts", "row"}
          /\ append[s].phase \in {"read", "inserted"}
          /\ Event(append[s].row)
    /\ append[s].entity \in Entity
    /\ append[s].content \in Content
    /\ append[s].ts \in Time

\* The types of the tables and calls; an entity's lock is held by exactly the
\* call that passed it, and by no call that ended.
TypeOK ==
    /\ clock \in Time
    /\ \A r \in events : Event(r)
    /\ DOMAIN append = Session
    /\ \A s \in Session : append[s] = Idle \/ OpenCall(s)
    /\ lock \in [Entity -> Session \cup {Nobody}]
    /\ \A s \in Session, e \in Entity :
          lock[e] = s <=> /\ append[s].phase \in {"locked", "read", "inserted"}
                          /\ append[s].entity = e

\* What an append read of the chain is still its tail when it inserts and when
\* it commits, however many sessions append: no append is ever refused by the
\* UNIQUE constraint, and none follows an event that was never committed.
TailCurrent ==
    \A s \in Session :
        append[s].phase \in {"read", "inserted"} =>
            append[s].row = Row(append[s], ZoneOf[s], ChainTail(append[s].entity))

\* verify_audit_chain accepts the chain of every entity in every session,
\* with appends of other sessions open or cut off at any statement.
ChainVerifies == \A e \in Entity, s \in Session : VerifyAuditChain(e, ZoneOf[s])

\* Every append ends: the lock is never left behind by a call that failed.
AppendsReturn == \A s \in Session : append[s] # Idle ~> append[s] = Idle

\* The rows, at the places their sequence numbers name, are an append-only log
\* without a gap.
LogOf(e) ==
    [n \in 1..Cardinality(EventsOf(e)) |->
       IF \E q \in EventsOf(e) : q.sequence = n
       THEN LET r == CHOOSE q \in EventsOf(e) : q.sequence = n
            IN  [content |-> r.content, occurred |-> r.occurred]
       ELSE NoHash]

Log == INSTANCE AuditLog WITH log <- [e \in Entity |-> LogOf(e)]

ImplementsAuditLog == Log!Spec
=============================================================================
