--------------------------- MODULE TstAuditProofs ---------------------------
(***************************************************************************)
(* Proofs about the audit trail: an append never loses its place to        *)
(* another, the committed rows are an append-only log, and the chain       *)
(* verifies wherever the sessions of the server agree on the time zone,    *)
(* for every number of sessions and entities.                              *)
(***************************************************************************)
EXTENDS TstAudit, FiniteSetTheorems, SequenceTheorems, TLAPS

\* Every entity that has events has a last one, which holds as events only
\* ever follow it.
LastExists ==
    \A e \in Entity :
        EventsOf(e) # {} =>
            \E q \in EventsOf(e) : \A r \in EventsOf(e) : r.sequence <= q.sequence

\* The event chosen as the last of a set that has one bounds the set.
LEMMA LastBounds ==
    ASSUME NEW S, S # {}, \E q \in S : \A r \in S : r.sequence <= q.sequence
    PROVE  Last(S) \in S /\ \A r \in S : r.sequence <= Last(S).sequence
BY DEF Last

\* The tail of a chain is a natural number no sequence number exceeds.
LEMMA TailBounds ==
    ASSUME TypeOK, LastExists, NEW e \in Entity
    PROVE  /\ ChainTail(e).sequence \in Nat
           /\ \A r \in EventsOf(e) : r.sequence <= ChainTail(e).sequence
<1>1. CASE EventsOf(e) = {}
  BY <1>1 DEF ChainTail, Last
<1>2. CASE EventsOf(e) # {}
  <2>1. Last(EventsOf(e)) \in EventsOf(e)
        /\ \A r \in EventsOf(e) : r.sequence <= Last(EventsOf(e)).sequence
    BY <1>2, LastBounds DEF LastExists
  <2> QED BY <2>1 DEF ChainTail, EventsOf, TypeOK, Event
<1> QED BY <1>1, <1>2

\* The row built after an entity's tail is a well-formed event of the entity.
LEMMA RowIsEvent ==
    ASSUME TypeOK, LastExists, NEW call, NEW z,
           call.entity \in Entity, call.content \in Content, call.ts \in Time
    PROVE  Event(Row(call, z, ChainTail(call.entity)))
<1>1. ChainTail(call.entity).sequence \in Nat
  BY TailBounds
<1> QED BY <1>1 DEF Event, Row

\* Type correctness is inductive next to the existence of last events.
LEMMA TypeStep == TypeOK /\ LastExists /\ [Next]_vars => TypeOK'
<1> SUFFICES ASSUME TypeOK, LastExists, [Next]_vars PROVE TypeOK'
  OBVIOUS
<1> USE AuditAssumption
<1>1. CASE Tick
  BY <1>1 DEF Tick, TypeOK, OpenCall, Event, Time
<1>2. ASSUME NEW s \in Session, NEW e \in Entity, NEW c \in Content, Enter(s, e, c)
      PROVE  TypeOK'
  BY <1>2 DEF Enter, TypeOK, OpenCall, Event, Idle
<1>3. ASSUME NEW s \in Session, Lock(s) PROVE TypeOK'
  BY <1>3 DEF Lock, LockFree, TypeOK, OpenCall, Event, Idle
<1>4. ASSUME NEW s \in Session, ReadTail(s) PROVE TypeOK'
  <2>1. Event(Row(append[s], ZoneOf[s], ChainTail(append[s].entity)))
    BY <1>4, RowIsEvent DEF ReadTail, TypeOK, OpenCall, Idle
  <2> QED BY <1>4, <2>1 DEF ReadTail, TypeOK, OpenCall, Idle
<1>5. ASSUME NEW s \in Session, Insert(s) PROVE TypeOK'
  BY <1>5 DEF Insert, Unlocked, TypeOK, OpenCall, Event, Idle
<1>6. ASSUME NEW s \in Session, Commit(s) PROVE TypeOK'
  <2>1. Event(append[s].row)
    BY <1>6 DEF Commit, TypeOK, OpenCall, Idle
  <2>2. \A r \in events' : Event(r)
    BY <1>6, <2>1 DEF Commit, TypeOK
  <2>3. DOMAIN append' = Session /\ \A t \in Session : append'[t] = Idle \/ OpenCall(t)'
    BY <1>6 DEF Commit, TypeOK, OpenCall
  <2>4. /\ lock' \in [Entity -> Session \cup {Nobody}]
        /\ \A t \in Session, e \in Entity :
              lock'[e] = t <=> /\ append'[t].phase \in {"locked", "read", "inserted"}
                               /\ append'[t].entity = e
    BY <1>6 DEF Commit, Unlocked, TypeOK, Idle
  <2> QED BY <1>6, <2>2, <2>3, <2>4 DEF Commit, TypeOK
<1>7. ASSUME NEW s \in Session, Rollback(s) PROVE TypeOK'
  BY <1>7 DEF Rollback, Unlocked, TypeOK, OpenCall, Event, Idle
<1>8. CASE UNCHANGED vars
  BY <1>8 DEF vars, TypeOK, OpenCall, Event
<1> QED BY <1>1, <1>2, <1>3, <1>4, <1>5, <1>6, <1>7, <1>8 DEF Next, Step

\* What the commit of a session that read the tail of e does to the chains.
LEMMA CommitExtends ==
    ASSUME TypeOK, LastExists, TailCurrent, NEW s \in Session, Commit(s),
           NEW CONSTANT e, NEW CONSTANT row, e = append[s].entity, row = append[s].row
    PROVE  /\ e \in Entity /\ row.entity = e /\ row.sequence \in Nat
           /\ row.sequence = ChainTail(e).sequence + 1
           /\ \A r \in EventsOf(e) : r.sequence < row.sequence
           /\ EventsOf(e)' = EventsOf(e) \cup {row}
           /\ \A o \in Entity \ {e} : EventsOf(o)' = EventsOf(o)
<1>1. e \in Entity /\ row = Row(append[s], ZoneOf[s], ChainTail(e))
  BY DEF Commit, TypeOK, OpenCall, Idle, TailCurrent
<1>2. row.entity = e /\ row.sequence = ChainTail(e).sequence + 1
  BY <1>1 DEF Row
<1>3. ChainTail(e).sequence \in Nat /\ \A r \in EventsOf(e) : r.sequence <= ChainTail(e).sequence
  BY <1>1, TailBounds
<1>4. \A r \in EventsOf(e) : r.sequence < row.sequence
  BY <1>2, <1>3 DEF EventsOf, TypeOK, Event
<1>5. events' = events \cup {row}
  BY DEF Commit
<1>6. EventsOf(e)' = EventsOf(e) \cup {row}
  BY <1>2, <1>5 DEF EventsOf
<1>7. \A o \in Entity \ {e} : EventsOf(o)' = EventsOf(o)
  BY <1>2, <1>5 DEF EventsOf
<1>8. row.sequence \in Nat
  BY <1>2, <1>3
<1> QED BY <1>1, <1>2, <1>4, <1>6, <1>7, <1>8

\* Events are only ever added after the last one.
LEMMA LastStep == TypeOK /\ LastExists /\ TailCurrent /\ [Next]_vars => LastExists'
<1> SUFFICES ASSUME TypeOK, LastExists, TailCurrent, [Next]_vars PROVE LastExists'
  OBVIOUS
<1>1. ASSUME NEW s \in Session, Commit(s) PROVE LastExists'
  <2>0. PICK e, row : e = append[s].entity /\ row = append[s].row
    OBVIOUS
  <2>1. /\ row.sequence \in Nat
        /\ \A r \in EventsOf(e) : r.sequence < row.sequence
        /\ EventsOf(e)' = EventsOf(e) \cup {row}
        /\ \A o \in Entity \ {e} : EventsOf(o)' = EventsOf(o)
    BY <1>1, <2>0, CommitExtends
  <2> SUFFICES ASSUME NEW o \in Entity, EventsOf(o)' # {}
               PROVE  \E q \in EventsOf(o)' : \A r \in EventsOf(o)' : r.sequence <= q.sequence
    BY DEF LastExists
  <2>2. CASE o = e
    <3>1. \A r \in EventsOf(e) : r.sequence \in Nat
      BY DEF EventsOf, TypeOK, Event
    <3>2. \A r \in EventsOf(e)' : r.sequence <= row.sequence
      BY <2>1, <3>1
    <3>3. row \in EventsOf(e)'
      BY <2>1
    <3> QED BY <2>2, <3>2, <3>3
  <2>3. CASE o # e
    BY <2>1, <2>3 DEF LastExists
  <2> QED BY <2>2, <2>3
<1>2. CASE UNCHANGED events
  BY <1>2 DEF LastExists, EventsOf
<1> QED BY <1>1, <1>2 DEF Next, Step, Tick, Enter, Lock, ReadTail, Insert, Rollback, vars

\* A commit changes the tail of an entity whose lock no other call holds.
LEMMA TailStep == TypeOK /\ LastExists /\ TailCurrent /\ [Next]_vars => TailCurrent'
<1> SUFFICES ASSUME TypeOK, LastExists, TailCurrent, [Next]_vars PROVE TailCurrent'
  OBVIOUS
<1>0. \A e : events' = events => ChainTail(e)' = ChainTail(e)
  BY DEF ChainTail, EventsOf
<1>1. ASSUME NEW s \in Session, NEW e \in Entity, NEW c \in Content, Enter(s, e, c)
      PROVE  TailCurrent'
  BY <1>1, <1>0 DEF Enter, TailCurrent, TypeOK, Row
<1>2. ASSUME NEW s \in Session, Lock(s) PROVE TailCurrent'
  BY <1>2, <1>0 DEF Lock, TailCurrent, TypeOK, OpenCall, Idle, Row
<1>3. ASSUME NEW s \in Session, ReadTail(s) PROVE TailCurrent'
  BY <1>3, <1>0 DEF ReadTail, TailCurrent, TypeOK, OpenCall, Idle, Row
<1>4. ASSUME NEW s \in Session, Insert(s) PROVE TailCurrent'
  BY <1>4, <1>0 DEF Insert, TailCurrent, TypeOK, OpenCall, Idle, Row
<1>5. ASSUME NEW s \in Session, Rollback(s) PROVE TailCurrent'
  BY <1>5, <1>0 DEF Rollback, TailCurrent, TypeOK, OpenCall, Idle, Row
<1>6. ASSUME NEW s \in Session, Commit(s) PROVE TailCurrent'
  <2> SUFFICES ASSUME NEW t \in Session, (append[t].phase \in {"read", "inserted"})'
               PROVE  (append[t].row = Row(append[t], ZoneOf[t], ChainTail(append[t].entity)))'
    BY DEF TailCurrent
  <2>1. t # s /\ append'[t] = append[t]
    BY <1>6 DEF Commit, Idle, TypeOK
  <2>2. append[t].entity \in Entity /\ append[t].entity # append[s].entity
    BY <1>6, <2>1 DEF Commit, TypeOK, OpenCall, Idle
  <2>3. PICK e, f, row : e = append[s].entity /\ row = append[s].row /\ f = append[t].entity
    OBVIOUS
  <2>4. EventsOf(f)' = EventsOf(f)
    BY <1>6, <2>2, <2>3, CommitExtends
  <2>5. append[t].row = Row(append[t], ZoneOf[t], ChainTail(append[t].entity))
    BY <2>1 DEF TailCurrent
  <2> QED BY <2>1, <2>3, <2>4, <2>5 DEF Row, ChainTail
<1>7. CASE Tick \/ UNCHANGED vars
  BY <1>7, <1>0 DEF Tick, vars, TailCurrent
<1> QED BY <1>1, <1>2, <1>3, <1>4, <1>5, <1>6, <1>7 DEF Next, Step

IInv == TypeOK /\ LastExists /\ TailCurrent

\* The inductive invariant of the audit trail.
LEMMA AuditInvariant == Spec => []IInv
<1>1. Init => IInv
  BY AuditAssumption DEF Init, IInv, TypeOK, LastExists, TailCurrent, EventsOf, Time, Idle
<1>2. IInv /\ [Next]_vars => IInv'
  BY TypeStep, LastStep, TailStep DEF IInv
<1> QED BY <1>1, <1>2, PTL DEF Spec

\* Tables and calls keep their types, and an entity's advisory lock is held by
\* exactly the call that passed it.
THEOREM AuditTypeCorrect == Spec => []TypeOK
BY AuditInvariant, PTL DEF IInv

\* What append_audit_event read of the chain is still its tail when it commits,
\* for every number of sessions and entities: no append is refused.
THEOREM TailStaysCurrent == Spec => []TailCurrent
BY AuditInvariant, PTL DEF IInv

-----------------------------------------------------------------------------
\* No call that is about to insert finds its sequence number taken, by a row
\* that is there or one that is on its way.
NoCollision ==
    \A s \in Session : append[s].phase = "read" => ~KeyPending(s) /\ ~KeyTaken(s)

\* The UNIQUE constraint that append_audit_event could raise at, or wait for,
\* never meets a second row of its key: the advisory lock alone orders appends.
THEOREM AppendsNeverCollide == Spec => []NoCollision
<1>1. IInv => NoCollision
  <2> SUFFICES ASSUME IInv, NEW s \in Session, append[s].phase = "read"
               PROVE  ~KeyPending(s) /\ ~KeyTaken(s)
    BY DEF NoCollision
  <2>1. PICK e, row : e = append[s].entity /\ row = append[s].row
    OBVIOUS
  <2>2. e \in Entity /\ row = Row(append[s], ZoneOf[s], ChainTail(e))
    BY <2>1 DEF IInv, TypeOK, OpenCall, Idle, TailCurrent
  <2>3. row.entity = e /\ row.sequence = ChainTail(e).sequence + 1
    BY <2>1, <2>2 DEF Row
  <2>4. ~KeyTaken(s)
    <3>1. \A r \in EventsOf(e) : r.sequence # row.sequence
      BY <2>2, <2>3, TailBounds DEF IInv, EventsOf, TypeOK, Event
    <3> QED
      BY <2>1, <2>3, <3>1 DEF KeyTaken, SameKey, EventsOf
  <2>5. ASSUME NEW t \in Session \ {s}, append[t].phase = "inserted" PROVE append[t].row.entity # e
    <3>1. lock[e] = s
      BY <2>1, <2>2 DEF IInv, TypeOK
    <3>2. append[t].entity # e
      BY <2>2, <2>5, <3>1 DEF IInv, TypeOK
    <3>3. append[t].row = Row(append[t], ZoneOf[t], ChainTail(append[t].entity))
      BY <2>5 DEF IInv, TailCurrent
    <3> QED
      BY <3>2, <3>3 DEF Row
  <2>6. ~KeyPending(s)
    BY <2>1, <2>3, <2>5 DEF KeyPending, SameKey
  <2> QED
    BY <2>4, <2>6
<1> QED
  BY <1>1, AuditInvariant, PTL

-----------------------------------------------------------------------------
\* Every event names the digest of the event before it, and its own digest is
\* what the session that appended it computed in its time zone.
Linked(e) ==
    \A r \in EventsOf(e) :
        /\ r.previous = Last({q \in EventsOf(e) : q.sequence < r.sequence}).hash
        /\ \E s \in Session :
              r.hash = Digest(e, r.sequence, Text(r.occurred, ZoneOf[s]), r.content, r.previous)

ChainLinked == \A e \in Entity : Linked(e)

\* A commit keeps the chain linked: the events before an old one are the same,
\* those before the new one are all the old ones.
LEMMA LinkStep ==
    ASSUME IInv, ChainLinked, [Next]_vars
    PROVE  ChainLinked'
<1>1. ASSUME NEW s \in Session, Commit(s) PROVE ChainLinked'
  <2>0. PICK e, row : e = append[s].entity /\ row = append[s].row
    OBVIOUS
  <2>1. /\ e \in Entity /\ row.entity = e /\ row.sequence \in Nat
        /\ \A r \in EventsOf(e) : r.sequence < row.sequence
        /\ EventsOf(e)' = EventsOf(e) \cup {row}
        /\ \A o \in Entity \ {e} : EventsOf(o)' = EventsOf(o)
    BY <1>1, <2>0, CommitExtends DEF IInv
  <2> SUFFICES ASSUME NEW o \in Entity PROVE Linked(o)'
    BY DEF ChainLinked
  <2>2. CASE o # e
    BY <2>1, <2>2 DEF ChainLinked, Linked
  <2>3. CASE o = e
    <3>1. \A r \in EventsOf(e) : r.sequence \in Nat
      BY DEF EventsOf, IInv, TypeOK, Event
    <3>2. \A r \in EventsOf(e) :
            {q \in EventsOf(e)' : q.sequence < r.sequence} =
            {q \in EventsOf(e) : q.sequence < r.sequence}
      BY <2>1, <3>1
    <3>3. {q \in EventsOf(e)' : q.sequence < row.sequence} = EventsOf(e)
      BY <2>1, <3>1
    <3>4. /\ row.previous = ChainTail(e).hash
          /\ row.hash = Digest(e, row.sequence, Text(row.occurred, ZoneOf[s]),
                               row.content, row.previous)
      <4>1. row = Row(append[s], ZoneOf[s], ChainTail(e))
        BY <1>1, <2>0 DEF IInv, TailCurrent, Commit
      <4> QED BY <4>1, <2>0 DEF Row
    <3>5. Linked(e)
      BY <2>1 DEF ChainLinked
    <3>6. \A r \in EventsOf(e) :
            /\ r.previous = Last({q \in EventsOf(e)' : q.sequence < r.sequence}).hash
            /\ \E t \in Session :
                  r.hash = Digest(e, r.sequence, Text(r.occurred, ZoneOf[t]),
                                  r.content, r.previous)
      BY <3>2, <3>5 DEF Linked
    <3>7. row.previous = Last({q \in EventsOf(e)' : q.sequence < row.sequence}).hash
      BY <3>3, <3>4 DEF ChainTail
    <3> QED BY <2>1, <2>3, <3>4, <3>6, <3>7 DEF Linked
  <2> QED BY <2>2, <2>3
<1>2. CASE UNCHANGED events
  BY <1>2 DEF ChainLinked, Linked, EventsOf
<1> QED BY <1>1, <1>2 DEF Next, Step, Tick, Enter, Lock, ReadTail, Insert, Rollback, vars

\* Whatever time zones the sessions use, no link of a chain ever breaks: where
\* verify_audit_chain refuses a chain, it is for the zone it renders times in.
THEOREM ChainStaysLinked == Spec => []ChainLinked
<1>1. Init => ChainLinked
  BY DEF Init, ChainLinked, Linked, EventsOf
<1>2. IInv /\ ChainLinked /\ [Next]_vars => ChainLinked'
  BY LinkStep
<1> QED BY <1>1, <1>2, AuditInvariant, PTL DEF Spec

ZonesAgree == \A s, t \in Session : ZoneOf[s] = ZoneOf[t]

\* Where all sessions share a time zone setting, verify_audit_chain accepts
\* every chain in every state, whatever appends are open or cut off.
THEOREM ChainAlwaysVerifies ==
    ASSUME ZonesAgree
    PROVE  Spec => []ChainVerifies
<1>1. ChainLinked => ChainVerifies
  <2> SUFFICES ASSUME ChainLinked, NEW e \in Entity, NEW t \in Session
               PROVE  VerifyAuditChain(e, ZoneOf[t])
    BY DEF ChainVerifies
  <2>1. \A s \in Session : ZoneOf[s] = ZoneOf[t]
    BY DEF ZonesAgree
  <2> QED
    BY <2>1 DEF ChainLinked, Linked, VerifyAuditChain
<1> QED BY <1>1, ChainStaysLinked, PTL

-----------------------------------------------------------------------------
\* The refinement.  A chain of n events is numbered from 1 to n, each number
\* once.
Numbered(S) ==
    /\ IsFiniteSet(S)
    /\ \A r \in S : r.sequence \in 1..Cardinality(S)
    /\ \A q, r \in S : q.sequence = r.sequence => q = r
    /\ \A n \in 1..Cardinality(S) : \E q \in S : q.sequence = n

ChainsNumbered == \A e \in Entity : Numbered(EventsOf(e))

Entry(r) == [content |-> r.content, occurred |-> r.occurred]

LogIn(S) ==
    [n \in 1..Cardinality(S) |->
       IF \E q \in S : q.sequence = n
       THEN LET r == CHOOSE q \in S : q.sequence = n
            IN  [content |-> r.content, occurred |-> r.occurred]
       ELSE NoHash]

LEMMA LogIsLogIn == \A e : LogOf(e) = LogIn(EventsOf(e))
BY DEF LogOf, LogIn

\* An event stands at the place its sequence number names.
LEMMA LogAt ==
    ASSUME NEW S, Numbered(S), NEW r \in S
    PROVE  r.sequence \in 1..Cardinality(S) /\ LogIn(S)[r.sequence] = Entry(r)
<1>1. r.sequence \in 1..Cardinality(S)
  BY DEF Numbered
<1>2. (CHOOSE q \in S : q.sequence = r.sequence) = r
  BY DEF Numbered
<1> QED
  BY <1>1, <1>2 DEF LogIn, Entry

LEMMA LogIsSequence ==
    ASSUME NEW S, Numbered(S), NEW X, \A r \in S : Entry(r) \in X
    PROVE  LogIn(S) \in Seq(X) /\ Len(LogIn(S)) = Cardinality(S)
<1>1. Cardinality(S) \in Nat
  BY FS_CardinalityType DEF Numbered
<1>2. ASSUME NEW n \in 1..Cardinality(S) PROVE LogIn(S)[n] \in X
  <2>1. PICK r \in S : r.sequence = n
    BY DEF Numbered
  <2> QED
    BY <2>1, LogAt
<1>3. DOMAIN LogIn(S) = 1..Cardinality(S) /\ LogIn(S) = [n \in 1..Cardinality(S) |-> LogIn(S)[n]]
  BY DEF LogIn
<1>4. LogIn(S) \in [1..Cardinality(S) -> X]
  BY <1>2, <1>3
<1>5. LogIn(S) \in Seq(X)
  BY <1>1, <1>4, SeqDef
<1> QED
  BY <1>1, <1>3, <1>5, LenProperties

\* An event with the next number is one more entry at the end.
LEMMA LogExtends ==
    ASSUME NEW S, Numbered(S), NEW row, row.sequence = Cardinality(S) + 1
    PROVE  /\ Numbered(S \cup {row})
           /\ LogIn(S \cup {row}) = Append(LogIn(S), Entry(row))
<1> DEFINE T == S \cup {row}
           X == {Entry(r) : r \in T}
<1>1. Cardinality(S) \in Nat
  BY FS_CardinalityType DEF Numbered
<1>2. row \notin S
  BY <1>1 DEF Numbered
<1>3. IsFiniteSet(T) /\ Cardinality(T) = Cardinality(S) + 1
  BY <1>2, FS_AddElement DEF Numbered
<1>4. Numbered(T)
  <2>1. \A r \in T : r.sequence \in 1..Cardinality(T)
    BY <1>1, <1>3 DEF Numbered
  <2>2. \A q, r \in T : q.sequence = r.sequence => q = r
    BY <1>1 DEF Numbered
  <2>3. ASSUME NEW n \in 1..Cardinality(T) PROVE \E q \in T : q.sequence = n
    <3>1. n \in 1..Cardinality(S) \/ n = row.sequence
      BY <1>1, <1>3
    <3> QED
      BY <3>1 DEF Numbered
  <2> HIDE DEF T
  <2> QED
    BY <1>3, <2>1, <2>2, <2>3 DEF Numbered
<1>5. /\ LogIn(S) \in Seq(X) /\ Len(LogIn(S)) = Cardinality(S)
      /\ LogIn(T) \in Seq(X) /\ Len(LogIn(T)) = Cardinality(S) + 1
  BY <1>3, <1>4, LogIsSequence
<1>6. /\ Append(LogIn(S), Entry(row)) \in Seq(X)
      /\ Len(Append(LogIn(S), Entry(row))) = Cardinality(S) + 1
      /\ \A n \in 1..Cardinality(S) : Append(LogIn(S), Entry(row))[n] = LogIn(S)[n]
      /\ Append(LogIn(S), Entry(row))[Cardinality(S) + 1] = Entry(row)
  BY <1>5, AppendProperties
<1>7. ASSUME NEW n \in 1..(Cardinality(S) + 1)
      PROVE  LogIn(T)[n] = Append(LogIn(S), Entry(row))[n]
  <2>1. CASE n = Cardinality(S) + 1
    BY <1>4, <1>6, <2>1, LogAt
  <2>2. CASE n \in 1..Cardinality(S)
    <3>1. PICK r \in S : r.sequence = n
      BY <2>2 DEF Numbered
    <3>2. LogIn(T)[n] = Entry(r) /\ LogIn(S)[n] = Entry(r)
      BY <1>4, <3>1, LogAt
    <3> QED
      BY <1>6, <2>2, <3>2
  <2>3. n = Cardinality(S) + 1 \/ n \in 1..Cardinality(S)
    BY ONLY <1>1, n \in 1..(Cardinality(S) + 1)
  <2> QED
    BY <2>1, <2>2, <2>3
<1> HIDE DEF T, X
<1>8. LogIn(T) = Append(LogIn(S), Entry(row))
  BY <1>5, <1>6, <1>7, SeqEqual
<1> QED
  BY <1>4, <1>8 DEF T

\* The tail of a chain has the number of its events.
LEMMA TailCounts ==
    ASSUME TypeOK, LastExists, ChainsNumbered, NEW e \in Entity
    PROVE  ChainTail(e).sequence = Cardinality(EventsOf(e))
<1>0. IsFiniteSet(EventsOf(e)) /\ Cardinality(EventsOf(e)) \in Nat
  BY FS_CardinalityType DEF ChainsNumbered, Numbered
<1>1. CASE EventsOf(e) = {}
  BY <1>1, FS_EmptySet DEF ChainTail, Last
<1>2. CASE EventsOf(e) # {}
  <2>1. ChainTail(e) \in EventsOf(e)
    BY <1>2, LastBounds DEF LastExists, ChainTail
  <2>2. ChainTail(e).sequence \in 1..Cardinality(EventsOf(e))
    BY <2>1 DEF ChainsNumbered, Numbered
  <2>3. Cardinality(EventsOf(e)) \in 1..Cardinality(EventsOf(e))
    BY <1>0, <2>2
  <2>4. PICK q \in EventsOf(e) : q.sequence = Cardinality(EventsOf(e))
    BY <2>3 DEF ChainsNumbered, Numbered
  <2>5. q.sequence <= ChainTail(e).sequence
    BY TailBounds
  <2> QED
    BY <1>0, <2>2, <2>4, <2>5
<1> QED
  BY <1>1, <1>2

\* What a step does to the logs: a commit records one entry, nothing else does
\* anything.
LEMMA StepRecords ==
    ASSUME IInv, ChainsNumbered, [Next]_vars
    PROVE  ChainsNumbered' /\ [Log!Next]_([e \in Entity |-> LogOf(e)])
<1>1. ASSUME NEW s \in Session, Commit(s)
      PROVE  ChainsNumbered' /\ [Log!Next]_([e \in Entity |-> LogOf(e)])
  <2>0. PICK e, row : e = append[s].entity /\ row = append[s].row
    OBVIOUS
  <2>1. /\ e \in Entity /\ row.sequence = ChainTail(e).sequence + 1
        /\ EventsOf(e)' = EventsOf(e) \cup {row}
        /\ \A o \in Entity \ {e} : EventsOf(o)' = EventsOf(o)
    BY <1>1, <2>0, CommitExtends DEF IInv
  <2>2. row.content \in Content /\ row.occurred \in Time
    BY <1>1, <2>0 DEF Commit, IInv, TypeOK, OpenCall, Event, Idle
  <2>3. row.sequence = Cardinality(EventsOf(e)) + 1
    BY <2>1, TailCounts DEF IInv
  <2>4. /\ Numbered(EventsOf(e)')
        /\ LogIn(EventsOf(e)') = Append(LogIn(EventsOf(e)), Entry(row))
    BY <2>1, <2>3, LogExtends DEF ChainsNumbered
  <2>5. ChainsNumbered'
    BY <2>1, <2>4 DEF ChainsNumbered
  <2>6. /\ LogOf(e)' = Append(LogOf(e), Entry(row))
        /\ \A o \in Entity \ {e} : LogOf(o)' = LogOf(o)
    <3>1. LogOf(e)' = LogIn(EventsOf(e)') /\ LogOf(e) = LogIn(EventsOf(e))
      BY LogIsLogIn DEF LogOf, LogIn
    <3>2. \A o \in Entity \ {e} : LogOf(o)' = LogOf(o)
      BY <2>1 DEF LogOf
    <3> QED
      BY <2>4, <3>1, <3>2
  <2>7. Log!Record(e, row.content, row.occurred)
    BY <2>1, <2>6 DEF Log!Record, Entry
  <2> QED
    BY <2>1, <2>2, <2>5, <2>7 DEF Log!Next
<1>2. CASE UNCHANGED events
  BY <1>2 DEF ChainsNumbered, EventsOf, LogOf
<1> QED
  BY <1>1, <1>2 DEF Next, Step, Tick, Enter, Lock, ReadTail, Insert, Rollback, vars

\* The committed rows are an append-only log without a gap for each entity,
\* whatever appends are open, raise or are cut off.
THEOREM TrailIsLog == Spec => ImplementsAuditLog
<1>1. Init => ChainsNumbered /\ Log!Init
  <2> SUFFICES ASSUME Init PROVE ChainsNumbered /\ Log!Init
    OBVIOUS
  <2>1. \A e \in Entity : EventsOf(e) = {}
    BY DEF Init, EventsOf
  <2>2. Numbered({})
    BY FS_EmptySet DEF Numbered
  <2>3. LogIn({}) = <<>>
    BY FS_EmptySet DEF LogIn
  <2>4. \A e \in Entity : LogOf(e) = <<>>
    BY <2>1, <2>3, LogIsLogIn
  <2> QED
    BY <2>1, <2>2, <2>4 DEF ChainsNumbered, Log!Init
<1>2. IInv /\ ChainsNumbered /\ [Next]_vars =>
         ChainsNumbered' /\ [Log!Next]_([e \in Entity |-> LogOf(e)])
  BY StepRecords
<1> QED
  BY <1>1, <1>2, AuditInvariant, PTL DEF Spec, ImplementsAuditLog, Log!Spec
=============================================================================
