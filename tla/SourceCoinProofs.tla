-------------------------- MODULE SourceCoinProofs --------------------------
(***************************************************************************)
(* Proofs about SourceCoinLedger, for any accounts, transactions and       *)
(* number of sessions, under deadlock aborts, lost connections and         *)
(* retries: the locks a call holds keep what it tested true until it       *)
(* commits, so a transaction settles once, never for a frozen account and  *)
(* never for more than is there, and the sessions implement CoinLedger.    *)
(***************************************************************************)
EXTENDS SourceCoinLedger, FiniteSums

ColumnsOK ==
    /\ transactions \in [Transaction -> TransactionStatus]
    /\ events \subseteq [sequence : Nat, transaction : Transaction]
    /\ nextSequence \in Nat
    /\ account \in [Account -> AccountStatus]
    /\ wallet \in [Account -> AccountStatus]
    /\ answers \in [Transaction -> SUBSET Nat]

SessionsOK ==
    /\ session \in [Session -> SessionRecord]
    /\ \A s \in Session : PlaceOK(s)
    /\ LocksExclude

Inv == ColumnsOK /\ SessionsOK /\ TestsHold /\ SettledOnce

-----------------------------------------------------------------------------
\* Places and rows

\* The tail of places a call has yet to go through, spelt out.
LEMMA Places ==
    /\ From("source") = {"source", "destination", "balance", "insert", "commit"}
    /\ From("destination") = {"destination", "balance", "insert", "commit"}
    /\ From("balance") = {"balance", "insert", "commit"}
BY DEF From

\* A session with no call open is told apart from every call, and so are the
\* calls of the two functions.
LEMMA CallsDiffer ==
    /\ NoCall \notin Call
    /\ ExecuteCall \cap ApplyCall = {}
    /\ \A c \in ExecuteCall : c.transaction \in Transaction
    /\ \A c \in ApplyCall : c.status \in AppliedStatus
<1>1. NoCall \notin ExecuteCall
  BY CallsAssumption, SMT DEF ExecuteCall
<1>2. NoCall \notin ApplyCall
  BY CallsAssumption, SMT DEF ApplyCall
<1>3. ExecuteCall \cap ApplyCall = {}
  BY DEF ExecuteCall, ApplyCall
<1>4. \A c \in ExecuteCall : c.transaction \in Transaction
  BY DEF ExecuteCall
<1>5. \A c \in ApplyCall : c.status \in AppliedStatus
  BY DEF ApplyCall
<1> QED
  BY <1>1, <1>2, <1>3, <1>4, <1>5 DEF Call

\* Ending a call releases its rows and disturbs no other session.
LEMMA EndsKeepsSessions ==
    ASSUME SessionsOK, NEW s \in Session, Ends(s)
    PROVE  /\ SessionsOK'
           /\ session'[s].at = "idle"
           /\ \A u \in Session \ {s} : session'[u] = session[u]
<1>1. session'[s] = IdleSession /\ \A u \in Session \ {s} : session'[u] = session[u]
  BY DEF SessionsOK, Ends
<1>2. session' \in [Session -> SessionRecord]
  <2>1. IdleSession \in SessionRecord
    BY DEF IdleSession, SessionRecord, Place
  <2> QED
    BY <2>1 DEF SessionsOK, Ends
<1>3. ASSUME NEW u \in Session PROVE PlaceOK(u)'
  <2>1. CASE u = s
    BY <1>1, <2>1, Places DEF PlaceOK, IdleSession, ExecutePlace
  <2>2. CASE u # s
    BY <1>1, <2>2 DEF SessionsOK, PlaceOK
  <2> QED BY <2>1, <2>2
<1>4. LocksExclude'
  BY <1>1 DEF SessionsOK, LocksExclude, IdleSession
<1> QED
  BY <1>1, <1>2, <1>3, <1>4 DEF SessionsOK, IdleSession

\* A statement that locks the row it wants, granted, keeps every lock
\* exclusive, and leaves every other session alone.
LEMMA AdvancesLocks ==
    ASSUME SessionsOK, NEW s \in Session, NEW p \in Place, Granted(s),
           Wanted(s) \in Row \cup {NoRow}, Advances(s, p)
    PROVE  /\ session' \in [Session -> SessionRecord]
           /\ LocksExclude'
           /\ session'[s].at = p
           /\ session'[s].call = session[s].call
           /\ session'[s].held = session[s].held \cup ({Wanted(s)} \ {NoRow})
           /\ \A u \in Session \ {s} : session'[u] = session[u]
<1> DEFINE h == session[s].held \cup ({Wanted(s)} \ {NoRow})
<1>1. session[s] \in SessionRecord
  BY DEF SessionsOK
<1>2. session' = [session EXCEPT ![s] = [session[s] EXCEPT !.at = p, !.held = h]]
  BY DEF Advances, SessionsOK
<1>3. h \in SUBSET Row
  BY <1>1 DEF SessionRecord
<1>4. [session[s] EXCEPT !.at = p, !.held = h] \in SessionRecord
  BY <1>1, <1>3 DEF SessionRecord
<1>5. session' \in [Session -> SessionRecord]
  BY <1>2, <1>4 DEF SessionsOK
<1>6. /\ session'[s] = [session[s] EXCEPT !.at = p, !.held = h]
      /\ \A u \in Session \ {s} : session'[u] = session[u]
  BY <1>2 DEF SessionsOK
<1>7. session'[s].at = p /\ session'[s].call = session[s].call /\ session'[s].held = h
  BY <1>1, <1>6 DEF SessionRecord
<1>8. ASSUME NEW u \in Session \ {s} PROVE h \cap session[u].held = {}
  BY DEF Granted, WaitsFor, SessionsOK, LocksExclude
<1>9. LocksExclude'
  BY <1>6, <1>7, <1>8 DEF LocksExclude, SessionsOK
<1> QED
  BY <1>5, <1>6, <1>7, <1>9

-----------------------------------------------------------------------------
\* What a call has tested

Tested(s) ==
    LET t == session[s].call.transaction IN
    /\ session[s].at \in From("source") => EventsOf(t) = {} /\ Executable(t)
    /\ session[s].at \in From("balance") => Eligible(t)

LEMMA TestsOfAll == TestsHold <=> \A s \in Session : Tested(s)
BY DEF TestsHold, Tested

\* The accounts of a transaction that may be executed are accounts.
LEMMA ExecutableAccounts ==
    ASSUME NEW t \in Transaction, Executable(t)
    PROVE  SourceOf[t] \in Account /\ DestinationOf[t] \in Account
BY LedgerAssumption DEF Executable

\* A step that writes no table and moves only the session s keeps the
\* invariant if s keeps its own part of it.
LEMMA ReadingKeeps ==
    ASSUME Inv, NEW s \in Session, UNCHANGED <<tables, answers>>,
           nextSequence' \in Nat, SessionsOK', Tested(s)',
           \A u \in Session \ {s} : session'[u] = session[u]
    PROVE  Inv'
<1>1. ColumnsOK'
  BY DEF Inv, ColumnsOK, tables
<1>2. SettledOnce'
  BY DEF Inv, SettledOnce, tables, EventsOf, SequencesOf
<1>3. ASSUME NEW u \in Session \ {s} PROVE Tested(u)'
  <2>1. Tested(u) /\ session'[u] = session[u]
    BY TestsOfAll DEF Inv
  <2> QED
    BY <2>1 DEF Tested, EventsOf, Executable, Eligible, tables
<1>4. (\A u \in Session : Tested(u))'
  BY <1>3
<1>5. TestsHold'
  BY <1>4 DEF TestsHold, Tested
<1> QED
  BY <1>1, <1>2, <1>5 DEF Inv

\* A call that ends without a write.
LEMMA EndingKeeps ==
    ASSUME Inv, NEW s \in Session, UNCHANGED <<tables, answers, nextSequence>>, Ends(s)
    PROVE  Inv'
<1>1. /\ SessionsOK' /\ session'[s].at = "idle"
      /\ \A u \in Session \ {s} : session'[u] = session[u]
  BY EndsKeepsSessions DEF Inv
<1>2. Tested(s)'
  BY <1>1, Places DEF Tested
<1>3. nextSequence' \in Nat
  BY DEF Inv, ColumnsOK
<1> QED
  BY <1>1, <1>2, <1>3, ReadingKeeps

\* The transaction, and the rows held, of a session inside
\* execute_authorized_transaction.
LEMMA Executing ==
    ASSUME Inv, NEW s \in Session, session[s].at \in ExecutePlace
    PROVE  /\ session[s].call \in ExecuteCall
           /\ session[s].call.transaction \in Transaction
           /\ session[s] \in SessionRecord
           /\ Tested(s)
           /\ PlaceOK(s)
<1>1. PlaceOK(s) /\ session[s] \in SessionRecord
  BY DEF Inv, SessionsOK
<1>2. session[s].call \in ExecuteCall
  BY <1>1 DEF PlaceOK
<1> QED
  BY <1>1, <1>2, CallsDiffer, TestsOfAll DEF Inv

-----------------------------------------------------------------------------
\* One lemma for each action

LEMMA BeginKeeps ==
    ASSUME Inv, NEW s \in Session, NEW c \in Call, Begin(s, c)
    PROVE  Inv'
<1> DEFINE p == IF c.function = "execute" THEN "transaction" ELSE "accounts"
<1>1. session[s].call = NoCall /\ PlaceOK(s) /\ session[s] \in SessionRecord
  BY DEF Begin, Busy, Inv, SessionsOK
<1>2. session[s].at = "idle" /\ session[s].held = {}
  BY <1>1 DEF PlaceOK
<1>3. session' = [session EXCEPT ![s] = [session[s] EXCEPT !.call = c, !.at = p]]
  BY DEF Begin, Inv, SessionsOK
<1>4. [session[s] EXCEPT !.call = c, !.at = p] \in SessionRecord
  BY <1>1 DEF SessionRecord, Place, ExecutePlace
<1>5. /\ session' \in [Session -> SessionRecord]
      /\ session'[s] = [session[s] EXCEPT !.call = c, !.at = p]
      /\ \A u \in Session \ {s} : session'[u] = session[u]
  BY <1>3, <1>4 DEF Inv, SessionsOK
<1>6. session'[s].call = c /\ session'[s].at = p /\ session'[s].held = {}
  BY <1>1, <1>2, <1>5 DEF SessionRecord
<1>7. \/ c \in ExecuteCall /\ p = "transaction"
      \/ c \in ApplyCall /\ p = "accounts"
  BY DEF Call, ExecuteCall, ApplyCall
<1>8. PlaceOK(s)'
  BY <1>6, <1>7, Places, CallsDiffer DEF PlaceOK, ExecutePlace
<1>9. ASSUME NEW u \in Session \ {s} PROVE PlaceOK(u)'
  BY <1>5 DEF PlaceOK, Inv, SessionsOK
<1>10. LocksExclude'
  BY <1>5, <1>6 DEF LocksExclude, Inv, SessionsOK
<1>11. SessionsOK'
  BY <1>5, <1>8, <1>9, <1>10 DEF SessionsOK
<1>12. Tested(s)'
  BY <1>6, Places DEF Tested
<1>13. UNCHANGED <<tables, answers>> /\ nextSequence' \in Nat
  BY DEF Begin, Inv, ColumnsOK
<1> QED
  BY <1>5, <1>11, <1>12, <1>13, ReadingKeeps

\* A statement of execute_authorized_transaction that goes on to p, where the
\* call then holds what p asks for and has tested what p says.
LEMMA ExecuteAdvances ==
    ASSUME Inv, NEW s \in Session, session[s].at \in ExecutePlace,
           NEW p \in ExecutePlace, p # "transaction", Granted(s), Advances(s, p),
           Wanted(s) \in Row \cup {NoRow}, UNCHANGED <<tables, answers, nextSequence>>,
           LET t == session[s].call.transaction
               h == session[s].held \cup ({Wanted(s)} \ {NoRow})
           IN  /\ p \in From("source") =>
                     TransactionRow(t) \in h /\ EventsOf(t) = {} /\ Executable(t)
               /\ p \in From("destination") => AccountRow(SourceOf[t]) \in h
               /\ p \in From("balance") => AccountRow(DestinationOf[t]) \in h /\ Eligible(t)
    PROVE  Inv'
<1>1. session[s].call \in ExecuteCall
  BY Executing
<1>2. p \in Place
  BY DEF Place
<1>3. SessionsOK
  BY DEF Inv
<1>4. /\ session' \in [Session -> SessionRecord]
      /\ LocksExclude'
      /\ session'[s].at = p
      /\ session'[s].call = session[s].call
      /\ session'[s].held = session[s].held \cup ({Wanted(s)} \ {NoRow})
      /\ \A u \in Session \ {s} : session'[u] = session[u]
  BY <1>2, <1>3, AdvancesLocks
<1>5. session[s].call # NoCall /\ session[s].call \notin ApplyCall
  BY <1>1, CallsDiffer DEF Call
<1>6. PlaceOK(s)'
  BY <1>1, <1>4, <1>5, Places DEF PlaceOK, ExecutePlace
<1>7. ASSUME NEW u \in Session \ {s} PROVE PlaceOK(u)'
  BY <1>3, <1>4 DEF PlaceOK, SessionsOK
<1>8. SessionsOK'
  BY <1>4, <1>6, <1>7 DEF SessionsOK
<1>9. Tested(s)'
  BY <1>4, Places DEF Tested, EventsOf, Executable, Eligible, tables, ExecutePlace
<1>10. nextSequence' \in Nat
  BY DEF Inv, ColumnsOK
<1> QED
  BY <1>4, <1>8, <1>9, <1>10, ReadingKeeps

\* The event looked up is the answer everyone else got.
LEMMA LockTransactionKeeps ==
    ASSUME Inv, NEW s \in Session, LockTransaction(s)
    PROVE  Inv'
<1> DEFINE t == session[s].call.transaction
<1>1. session[s].at = "transaction" /\ Granted(s)
  BY DEF LockTransaction, At
<1>2. session[s].at \in ExecutePlace
  BY <1>1 DEF ExecutePlace
<1>3. t \in Transaction
  BY <1>2, Executing
<1>4. answers' = [answers EXCEPT ![t] = @ \cup SequencesOf(t)]
  BY DEF LockTransaction
<1>5. answers[t] = SequencesOf(t)
  BY <1>3 DEF Inv, SettledOnce
<1>6. answers' = answers
  BY <1>3, <1>4, <1>5 DEF Inv, ColumnsOK
<1>7. UNCHANGED <<tables, answers, nextSequence>>
  BY <1>6 DEF LockTransaction
<1>8. CASE EventsOf(t) = {} /\ Executable(t) /\ Advances(s, "source")
  <2>1. Wanted(s) = TransactionRow(t)
    BY <1>1 DEF Wanted
  <2>2. Wanted(s) \in Row /\ TransactionRow(t) # NoRow
    BY <1>3, <2>1 DEF Row, TransactionRow, NoRow
  <2>3. TransactionRow(t) \in session[s].held \cup ({Wanted(s)} \ {NoRow})
    BY <2>1, <2>2
  <2> QED
    BY <1>1, <1>2, <1>7, <1>8, <2>2, <2>3, Places, ExecuteAdvances DEF ExecutePlace
<1>9. CASE Ends(s)
  BY <1>7, <1>9, EndingKeeps
<1> QED
  BY <1>8, <1>9 DEF LockTransaction

LEMMA LockSourceKeeps ==
    ASSUME Inv, NEW s \in Session, LockSource(s)
    PROVE  Inv'
<1> DEFINE t == session[s].call.transaction
<1>1. session[s].at = "source" /\ Granted(s) /\ Advances(s, "destination")
  BY DEF LockSource, At
<1>2. session[s].at \in ExecutePlace
  BY <1>1 DEF ExecutePlace
<1>3. t \in Transaction /\ Tested(s) /\ PlaceOK(s)
  BY <1>2, Executing
<1>4. EventsOf(t) = {} /\ Executable(t) /\ TransactionRow(t) \in session[s].held
  BY <1>1, <1>3, Places DEF Tested, PlaceOK
<1>5. Wanted(s) = AccountRow(SourceOf[t])
  BY <1>1 DEF Wanted
<1>6. Wanted(s) \in Row /\ AccountRow(SourceOf[t]) # NoRow
  BY <1>3, <1>4, <1>5, ExecutableAccounts DEF Row, AccountRow, NoRow
<1>7. UNCHANGED <<tables, answers, nextSequence>>
  BY DEF LockSource
<1> QED
  BY <1>1, <1>2, <1>4, <1>5, <1>6, <1>7, Places, ExecuteAdvances DEF ExecutePlace

LEMMA LockDestinationKeeps ==
    ASSUME Inv, NEW s \in Session, LockDestination(s)
    PROVE  Inv'
<1> DEFINE t == session[s].call.transaction
<1>1. session[s].at = "destination" /\ Granted(s)
  BY DEF LockDestination, At
<1>2. session[s].at \in ExecutePlace
  BY <1>1 DEF ExecutePlace
<1>3. t \in Transaction /\ Tested(s) /\ PlaceOK(s)
  BY <1>2, Executing
<1>4. /\ EventsOf(t) = {} /\ Executable(t)
      /\ {TransactionRow(t), AccountRow(SourceOf[t])} \subseteq session[s].held
  BY <1>1, <1>3, Places DEF Tested, PlaceOK
<1>5. Wanted(s) = AccountRow(DestinationOf[t])
  BY <1>1 DEF Wanted
<1>6. Wanted(s) \in Row /\ AccountRow(DestinationOf[t]) # NoRow
  BY <1>3, <1>4, <1>5, ExecutableAccounts DEF Row, AccountRow, NoRow
<1>7. UNCHANGED <<tables, answers, nextSequence>>
  BY DEF LockDestination
<1>8. CASE Eligible(t) /\ Advances(s, "balance")
  BY <1>1, <1>2, <1>4, <1>5, <1>6, <1>7, <1>8, Places, ExecuteAdvances DEF ExecutePlace
<1>9. CASE Ends(s)
  BY <1>7, <1>9, EndingKeeps
<1> QED
  BY <1>8, <1>9 DEF LockDestination

LEMMA CheckBalanceKeeps ==
    ASSUME Inv, NEW s \in Session, CheckBalance(s)
    PROVE  Inv'
<1> DEFINE t == session[s].call.transaction
<1>1. session[s].at = "balance" /\ Granted(s)
  BY DEF CheckBalance, At
<1>2. session[s].at \in ExecutePlace
  BY <1>1 DEF ExecutePlace
<1>3. t \in Transaction /\ Tested(s) /\ PlaceOK(s)
  BY <1>2, Executing
<1>4. /\ EventsOf(t) = {} /\ Executable(t) /\ Eligible(t)
      /\ {TransactionRow(t), AccountRow(SourceOf[t]), AccountRow(DestinationOf[t])}
            \subseteq session[s].held
  BY <1>1, <1>3, Places DEF Tested, PlaceOK
<1>5. Wanted(s) = NoRow
  BY <1>1 DEF Wanted
<1>6. UNCHANGED <<tables, answers, nextSequence>>
  BY DEF CheckBalance
<1>7. CASE Advances(s, "insert")
  BY <1>1, <1>2, <1>4, <1>5, <1>6, <1>7, Places, ExecuteAdvances DEF ExecutePlace
<1>8. CASE Ends(s)
  BY <1>6, <1>8, EndingKeeps
<1> QED
  BY <1>7, <1>8 DEF CheckBalance

LEMMA InsertEventKeeps ==
    ASSUME Inv, NEW s \in Session, InsertEvent(s)
    PROVE  Inv'
<1> DEFINE t == session[s].call.transaction
           r == [session[s] EXCEPT !.at = "commit", !.sequence = nextSequence]
<1>1. session[s].at = "insert"
  BY DEF InsertEvent, At
<1>2. session[s].at \in ExecutePlace
  BY <1>1 DEF ExecutePlace
<1>3. t \in Transaction /\ Tested(s) /\ PlaceOK(s) /\ session[s] \in SessionRecord
  BY <1>2, Executing
<1>4. session' = [session EXCEPT ![s] = r]
  BY DEF InsertEvent, Inv, SessionsOK
<1>5. nextSequence \in Nat /\ nextSequence' \in Nat
  BY DEF InsertEvent, Inv, ColumnsOK
<1>6. r \in SessionRecord
  BY <1>3, <1>5 DEF SessionRecord, Place, ExecutePlace
<1>7. /\ session' \in [Session -> SessionRecord]
      /\ session'[s] = r
      /\ \A u \in Session \ {s} : session'[u] = session[u]
  BY <1>4, <1>6 DEF Inv, SessionsOK
<1>8. /\ session'[s].at = "commit" /\ session'[s].call = session[s].call
      /\ session'[s].held = session[s].held
  BY <1>3, <1>7 DEF SessionRecord
<1>9. PlaceOK(s)'
  BY <1>1, <1>3, <1>8, Places DEF PlaceOK, ExecutePlace
<1>10. ASSUME NEW u \in Session \ {s} PROVE PlaceOK(u)'
  BY <1>7 DEF PlaceOK, Inv, SessionsOK
<1>11. LocksExclude'
  BY <1>7, <1>8 DEF LocksExclude, Inv, SessionsOK
<1>12. SessionsOK'
  BY <1>7, <1>9, <1>10, <1>11 DEF SessionsOK
<1>13. UNCHANGED <<tables, answers>>
  BY DEF InsertEvent
<1>14. Tested(s)'
  BY <1>1, <1>3, <1>8, <1>13, Places
     DEF Tested, EventsOf, Executable, Eligible, tables
<1> QED
  BY <1>5, <1>7, <1>12, <1>13, <1>14, ReadingKeeps

\* The lock of the transaction's row is the committing call's alone.
LEMMA CommitExecutionKeeps ==
    ASSUME Inv, NEW s \in Session, CommitExecution(s)
    PROVE  /\ Inv'
           /\ \A e \in events' \ events : Eligible(e.transaction)
<1>1. session[s].at = "commit" /\ Ends(s)
  BY DEF CommitExecution, At
<1>2. session[s].at \in ExecutePlace
  BY <1>1 DEF ExecutePlace
<1>0. PICK t \in Transaction : t = session[s].call.transaction
  BY <1>2, Executing
<1>3. t \in Transaction /\ Tested(s) /\ PlaceOK(s) /\ session[s] \in SessionRecord
  BY <1>2, Executing
<1>00. PICK n \in Nat : n = session[s].sequence
  BY <1>3 DEF SessionRecord
<1> DEFINE new == [sequence |-> n, transaction |-> t]
<1>4. /\ EventsOf(t) = {} /\ Executable(t) /\ Eligible(t)
      /\ TransactionRow(t) \in session[s].held 
  BY <1>0, <1>1, <1>3, Places DEF Tested, PlaceOK
<1>5. /\ events' = events \cup {new}
      /\ transactions' = [transactions EXCEPT ![t] = "SETTLED"]
      /\ answers' = [answers EXCEPT ![t] = @ \cup {n}]
      /\ UNCHANGED <<nextSequence, account, wallet>>
  BY <1>0, <1>00 DEF CommitExecution
<1>6. ColumnsOK'
  BY <1>3, <1>4, <1>5 DEF Inv, ColumnsOK, TransactionStatus
<1>7. SessionsOK' /\ session'[s].at = "idle" /\ \A u \in Session \ {s} : session'[u] = session[u]
  BY <1>1, EndsKeepsSessions DEF Inv
<1>8. EventsOf(t)' = {new} /\ \A v \in Transaction \ {t} : EventsOf(v)' = EventsOf(v)
  <2>1. EventsOf(t)' = {e \in events : e.transaction = t} \cup {new}
    BY <1>5 DEF EventsOf
  <2>2. EventsOf(t)' = {new}
    BY <1>4, <2>1 DEF EventsOf
  <2>3. ASSUME NEW v \in Transaction \ {t} PROVE EventsOf(v)' = EventsOf(v)
    BY <1>5 DEF EventsOf
  <2> QED
    BY <2>2, <2>3
<1>9. SettledOnce'
  <2>1. \A e, f \in events' : e.transaction = f.transaction => e = f
    BY <1>4, <1>5 DEF EventsOf, Inv, SettledOnce
  <2>2. answers[t] = {}
    BY <1>3, <1>4 DEF Inv, SettledOnce, SequencesOf
  <2>3. transactions'[t] = "SETTLED" /\ EventsOf(t)' # {}
    BY <1>3, <1>5, <1>8 DEF Inv, ColumnsOK
  <2>4. answers'[t] = {n} /\ SequencesOf(t)' = {n}
    BY <1>3, <1>5, <1>8, <2>2 DEF Inv, ColumnsOK, SequencesOf
  <2>5. ASSUME NEW v \in Transaction \ {t}
        PROVE  /\ transactions'[v] = "SETTLED" <=> EventsOf(v)' # {}
               /\ answers'[v] = SequencesOf(v)'
    <3>1. transactions'[v] = transactions[v] /\ answers'[v] = answers[v]
      BY <1>3, <1>5 DEF Inv, ColumnsOK
    <3> QED
      BY <1>8, <3>1 DEF Inv, SettledOnce, SequencesOf
  <2> QED
    BY <1>8, <2>1, <2>3, <2>4, <2>5 DEF SettledOnce
<1>10. ASSUME NEW u \in Session PROVE Tested(u)'
  <2>1. CASE u = s
    BY <1>7, <2>1, Places DEF Tested
  <2>2. CASE u # s /\ session[u].at \in From("source")
    <3> DEFINE v == session[u].call.transaction
    <3>1. session[u].at \in ExecutePlace
      BY <2>2, Places DEF ExecutePlace
    <3>2. v \in Transaction /\ Tested(u) /\ PlaceOK(u)
      BY <3>1, Executing
    <3>3. TransactionRow(v) \in session[u].held
      BY <2>2, <3>2 DEF PlaceOK
    <3>4. v # t
      BY <1>4, <2>2, <3>3 DEF Inv, SessionsOK, LocksExclude
    <3>5. session'[u] = session[u] /\ EventsOf(v)' = EventsOf(v) /\ transactions'[v] = transactions[v]
      BY <1>3, <1>5, <1>7, <1>8, <2>2, <3>2, <3>4 DEF Inv, ColumnsOK
    <3> QED
      BY <1>5, <3>2, <3>5 DEF Tested, Executable, Eligible
  <2>3. CASE u # s /\ session[u].at \notin From("source")
    BY <1>7, <2>3, Places DEF Tested
  <2> QED BY <2>1, <2>2, <2>3
<1>11. TestsHold'
  BY <1>10 DEF TestsHold, Tested
<1> QED
  BY <1>4, <1>5, <1>6, <1>7, <1>9, <1>11 DEF Inv

\* An UPDATE that has rows to lock meets next one that no other comes before.
LEMMA NextAccountToLock ==
    ASSUME NEW s \in Session, ToLock(s) # {}
    PROVE  /\ NextAccount(s) \in ToLock(s)
           /\ \A b \in ToLock(s) : ScanOrder[NextAccount(s)] <= ScanOrder[b]
<1> DEFINE places == {ScanOrder[a] : a \in ToLock(s)}
<1>1. ToLock(s) \subseteq Account
  BY DEF ToLock, OwnedBy
<1>2. places \subseteq Nat /\ places # {}
  BY <1>1, LedgerAssumption
<1> HIDE DEF places
<1>3. PICK m \in places : \A k \in places : <<k, m>> \notin OpToRel(<, Nat)
  BY <1>2, WFMin, NatLessThanWellFounded, Zenon
<1>4. \A k \in places : k \in Nat /\ m \in Nat /\ ~(k < m)
  BY <1>2, <1>3, Zenon DEF OpToRel
<1>5. \A k \in places : m <= k
  BY <1>4
<1>6. PICK a \in ToLock(s) : m = ScanOrder[a]
  BY <1>3 DEF places
<1>7. \A b \in ToLock(s) : ScanOrder[a] <= ScanOrder[b]
  BY <1>5, <1>6 DEF places
<1> QED
  BY <1>6, <1>7 DEF NextAccount

LEMMA LockAccountKeeps ==
    ASSUME Inv, NEW s \in Session, LockAccount(s)
    PROVE  Inv'
<1>1. /\ session[s].at = "accounts" /\ Granted(s) /\ ToLock(s) # {}
      /\ Advances(s, "accounts") /\ UNCHANGED <<tables, answers, nextSequence>>
  BY DEF LockAccount, At
<1>2. SessionsOK /\ "accounts" \in Place
  BY DEF Inv, Place
<1>3. Wanted(s) \in Row
  BY <1>1, NextAccountToLock DEF Wanted, Row, ToLock, OwnedBy
<1>4. /\ session' \in [Session -> SessionRecord]
      /\ LocksExclude'
      /\ session'[s].at = "accounts"
      /\ session'[s].call = session[s].call
      /\ \A u \in Session \ {s} : session'[u] = session[u]
  BY <1>1, <1>2, <1>3, AdvancesLocks
<1>5. PlaceOK(s)'
  BY <1>1, <1>2, <1>4, Places DEF PlaceOK, SessionsOK, ExecutePlace
<1>6. ASSUME NEW u \in Session \ {s} PROVE PlaceOK(u)'
  BY <1>2, <1>4 DEF PlaceOK, SessionsOK
<1>7. SessionsOK'
  BY <1>4, <1>5, <1>6 DEF SessionsOK
<1>8. Tested(s)'
  BY <1>4, Places DEF Tested
<1>9. nextSequence' \in Nat
  BY <1>1 DEF Inv, ColumnsOK
<1> QED
  BY <1>1, <1>4, <1>7, <1>8, <1>9, ReadingKeeps

\* A call that tested an account holds its row, so the update that holds the
\* rows of all accounts it changes changes none of them.
LEMMA CommitStatusKeeps ==
    ASSUME Inv, NEW s \in Session, CommitStatus(s)
    PROVE  Inv'
<1>1. session[s].at = "accounts" /\ ToLock(s) = {} /\ Ends(s)
  BY DEF CommitStatus, At
<1>2. PlaceOK(s) /\ session[s] \in SessionRecord
  BY DEF Inv, SessionsOK
<1>3. session[s].call \in ApplyCall
  BY <1>1, <1>2 DEF PlaceOK
<1>4. PICK c \in ApplyCall : c = session[s].call
  BY <1>3
<1>5. c.status \in AccountStatus
  BY CallsDiffer, MovesAssumption
<1> DEFINE Applied(status) == [a \in Account |-> IF a \in OwnedBy(c.organization)
                                                 THEN c.status ELSE status[a]]
<1>6. /\ account' = Applied(account) /\ wallet' = Applied(wallet)
      /\ UNCHANGED <<transactions, events, nextSequence, answers>>
  BY <1>4 DEF CommitStatus
<1>7. ColumnsOK'
  BY <1>5, <1>6 DEF Inv, ColumnsOK
<1>8. /\ SessionsOK' /\ session'[s].at = "idle"
      /\ \A u \in Session \ {s} : session'[u] = session[u]
  BY <1>1, EndsKeepsSessions DEF Inv
<1>9. SettledOnce'
  BY <1>6 DEF Inv, SettledOnce, EventsOf, SequencesOf
<1>10. \A a \in OwnedBy(c.organization) : AccountRow(a) \in session[s].held
  BY <1>1, <1>4 DEF ToLock, OwnedBy
<1>11. ASSUME NEW u \in Session PROVE Tested(u)'
  <2>1. CASE u = s
    BY <1>8, <2>1, Places DEF Tested
  <2>2. CASE u # s /\ session[u].at \in From("source")
    <3>1. session[u].at \in ExecutePlace
      BY <2>2, Places DEF ExecutePlace
    <3>2. PICK v \in Transaction : v = session[u].call.transaction
      BY <3>1, Executing
    <3>3. Tested(u) /\ PlaceOK(u) /\ session'[u] = session[u]
      BY <1>8, <2>2, <3>1, Executing
    <3>4. EventsOf(v)' = {} /\ Executable(v)'
      BY <1>6, <2>2, <3>2, <3>3 DEF Tested, EventsOf, Executable
    <3>5. ASSUME session[u].at \in From("balance") PROVE Eligible(v)'
      <4>1. Eligible(v) /\ Executable(v)
        BY <2>2, <3>2, <3>3, <3>5 DEF Tested
      <4>2. SourceOf[v] \in Account /\ DestinationOf[v] \in Account
        BY <4>1, ExecutableAccounts
      <4>3. /\ AccountRow(SourceOf[v]) \in session[u].held
            /\ AccountRow(DestinationOf[v]) \in session[u].held
        BY <3>2, <3>3, <3>5, Places DEF PlaceOK
      <4>4. SourceOf[v] \notin OwnedBy(c.organization) /\ DestinationOf[v] \notin OwnedBy(c.organization)
        BY <1>10, <2>2, <4>3 DEF Inv, SessionsOK, LocksExclude
      <4> QED
        BY <1>6, <4>1, <4>2, <4>4 DEF Eligible
    <3> QED
      BY <3>2, <3>3, <3>4, <3>5 DEF Tested
  <2>3. CASE u # s /\ session[u].at \notin From("source")
    BY <1>8, <2>3, Places DEF Tested
  <2> QED BY <2>1, <2>2, <2>3
<1>12. TestsHold'
  BY <1>11 DEF TestsHold, Tested
<1> QED
  BY <1>7, <1>8, <1>9, <1>12 DEF Inv

\* The server's status updates wait for the calls that hold the row.
LEMMA MoveTransactionKeeps ==
    ASSUME Inv, NEW t \in Transaction, NEW status \in TransactionStatus,
           MoveTransaction(t, status)
    PROVE  Inv'
<1>1. /\ <<transactions[t], status>> \in TransactionMoves
      /\ \A s \in Session : TransactionRow(t) \notin session[s].held
      /\ transactions' = [transactions EXCEPT ![t] = status]
      /\ UNCHANGED <<events, account, wallet, nextSequence, answers, session>>
  BY DEF MoveTransaction
<1>2. transactions[t] # "SETTLED" /\ status # "SETTLED"
  BY <1>1, MovesAssumption
<1>3. ColumnsOK'
  BY <1>1 DEF Inv, ColumnsOK
<1>4. SessionsOK'
  BY <1>1 DEF Inv, SessionsOK, PlaceOK, LocksExclude
<1>5. SettledOnce'
  BY <1>1, <1>2 DEF Inv, ColumnsOK, SettledOnce, EventsOf, SequencesOf
<1>6. ASSUME NEW u \in Session PROVE Tested(u)'
  <2>1. CASE session[u].at \in From("source")
    <3>1. session[u].at \in ExecutePlace
      BY <2>1, Places DEF ExecutePlace
    <3>2. PICK v \in Transaction : v = session[u].call.transaction
      BY <3>1, Executing
    <3>3. Tested(u) /\ PlaceOK(u)
      BY <3>1, Executing
    <3>4. v # t
      BY <1>1, <2>1, <3>2, <3>3 DEF PlaceOK
    <3>5. transactions'[v] = transactions[v]
      BY <1>1, <3>4 DEF Inv, ColumnsOK
    <3> QED
      BY <1>1, <3>2, <3>3, <3>5 DEF Tested, EventsOf, Executable, Eligible
  <2>2. CASE session[u].at \notin From("source")
    BY <1>1, <2>2, Places DEF Tested
  <2> QED BY <2>1, <2>2
<1>7. TestsHold'
  BY <1>6 DEF TestsHold, Tested
<1> QED
  BY <1>3, <1>4, <1>5, <1>7 DEF Inv

-----------------------------------------------------------------------------
\* The theorems

LEMMA InitInv == Init => Inv
<1> SUFFICES ASSUME Init PROVE Inv
  OBVIOUS
<1>1. ColumnsOK
  BY DEF Init, ColumnsOK, TransactionStatus, AccountStatus
<1>2. SessionsOK
  <2>1. session \in [Session -> SessionRecord]
    BY DEF Init, IdleSession, SessionRecord, Place
  <2>2. ASSUME NEW s \in Session PROVE PlaceOK(s)
    BY Places DEF Init, IdleSession, PlaceOK, ExecutePlace
  <2>3. LocksExclude
    BY DEF Init, IdleSession, LocksExclude
  <2> QED
    BY <2>1, <2>2, <2>3 DEF SessionsOK
<1>3. TestsHold
  BY Places DEF Init, IdleSession, TestsHold
<1>4. SettledOnce
  BY DEF Init, SettledOnce, EventsOf, SequencesOf
<1> QED
  BY <1>1, <1>2, <1>3, <1>4 DEF Inv

\* Every step keeps the invariant, and adds an event only between accounts
\* that are ACTIVE in the state it is added in.
LEMMA NextInv ==
    ASSUME Inv, [Next]_vars
    PROVE  /\ Inv'
           /\ \A e \in events' \ events : Eligible(e.transaction)
<1>1. ASSUME NEW s \in Session, NEW c \in Call, Begin(s, c)
      PROVE  Inv' /\ events' = events
  BY <1>1, BeginKeeps DEF Begin, tables
<1>2. ASSUME NEW s \in Session, LockTransaction(s)
      PROVE  Inv' /\ events' = events
  BY <1>2, LockTransactionKeeps DEF LockTransaction, tables
<1>3. ASSUME NEW s \in Session, LockSource(s)
      PROVE  Inv' /\ events' = events
  BY <1>3, LockSourceKeeps DEF LockSource, tables
<1>4. ASSUME NEW s \in Session, LockDestination(s)
      PROVE  Inv' /\ events' = events
  BY <1>4, LockDestinationKeeps DEF LockDestination, tables
<1>5. ASSUME NEW s \in Session, CheckBalance(s)
      PROVE  Inv' /\ events' = events
  BY <1>5, CheckBalanceKeeps DEF CheckBalance, tables
<1>6. ASSUME NEW s \in Session, InsertEvent(s)
      PROVE  Inv' /\ events' = events
  BY <1>6, InsertEventKeeps DEF InsertEvent, tables
<1>7. ASSUME NEW s \in Session, CommitExecution(s)
      PROVE  Inv' /\ \A e \in events' \ events : Eligible(e.transaction)
  BY <1>7, CommitExecutionKeeps
<1>8. ASSUME NEW s \in Session, LockAccount(s)
      PROVE  Inv' /\ events' = events
  BY <1>8, LockAccountKeeps DEF LockAccount, tables
<1>9. ASSUME NEW s \in Session, CommitStatus(s)
      PROVE  Inv' /\ events' = events
  BY <1>9, CommitStatusKeeps DEF CommitStatus
<1>10. ASSUME NEW s \in Session, DeadlockAbort(s)
       PROVE  Inv' /\ events' = events
  BY <1>10, EndingKeeps DEF DeadlockAbort, tables
<1>11. ASSUME NEW s \in Session, Disconnect(s)
       PROVE  Inv' /\ events' = events
  BY <1>11, EndingKeeps DEF Disconnect, tables
<1>12. ASSUME NEW t \in Transaction, NEW status \in TransactionStatus,
              MoveTransaction(t, status)
       PROVE  Inv' /\ events' = events
  BY <1>12, MoveTransactionKeeps DEF MoveTransaction
<1>13. CASE UNCHANGED vars
  <2>1. UNCHANGED <<tables, nextSequence, answers, session>>
    BY <1>13 DEF vars
  <2>2. events' = events
    BY <2>1 DEF tables
  <2>3. Inv'
    BY <2>1 DEF tables, Inv, ColumnsOK, SessionsOK, PlaceOK, LocksExclude, TestsHold,
                EventsOf, Executable, Eligible, SettledOnce, SequencesOf
  <2> QED
    BY <2>2, <2>3
<1> QED
  BY <1>1, <1>2, <1>3, <1>4, <1>5, <1>6, <1>7, <1>8, <1>9, <1>10, <1>11, <1>12, <1>13
     DEF Next, Step, ExecuteStep, ApplyStep

LEMMA AlwaysInv == Spec => []Inv
<1>1. Inv /\ [Next]_vars => Inv'
  BY NextInv
<1> QED
  BY <1>1, InitInv, PTL DEF Spec

\* The rows keep their types, every call holds the row locks it has passed,
\* and no row is locked twice, for any number of sessions.
THEOREM LocksStayExclusive == Spec => []TypeOK
<1>1. Inv => TypeOK
  BY DEF Inv, ColumnsOK, SessionsOK, TypeOK
<1> QED
  BY <1>1, AlwaysInv, PTL

\* What execute_authorized_transaction tested after it locked a row is still
\* true when it commits.
THEOREM TestsKeepHolding == Spec => []TestsHold
<1>1. Inv => TestsHold
  BY DEF Inv
<1> QED
  BY <1>1, AlwaysInv, PTL

\* However many callers run, lose their connection and retry, a transaction
\* has one event at most, and all its callers get that event's sequence.
THEOREM RetriesSettleOnce == Spec => []SettledOnce
<1>1. Inv => SettledOnce
  BY DEF Inv
<1> QED
  BY <1>1, AlwaysInv, PTL

\* A freeze that has committed stops every transfer that has not.
THEOREM FreezesHold == Spec => FrozenNeverMoves
<1>1. Inv /\ [Next]_vars => [\A e \in events' \ events : Eligible(e.transaction)]_vars
  BY NextInv
<1> QED
  BY <1>1, AlwaysInv, PTL DEF Spec, FrozenNeverMoves
-----------------------------------------------------------------------------
\* Balances

LEMMA SignedAmounts ==
    ASSUME NEW t \in Transaction
    PROVE  /\ \A a : SignedAmount(a, t) \in Int
           /\ \A a : a \notin {SourceOf[t], DestinationOf[t]} => SignedAmount(a, t) = 0
           /\ \A a : a # SourceOf[t] => SignedAmount(a, t) >= 0
           /\ SourceOf[t] # DestinationOf[t] =>
                 /\ SignedAmount(SourceOf[t], t) = -AmountOf[t]
                 /\ SignedAmount(DestinationOf[t], t) = AmountOf[t]
<1>1. AmountOf[t] \in Nat
  BY LedgerAssumption
<1>2. ASSUME NEW a PROVE SignedAmount(a, t) \in {0, AmountOf[t], -AmountOf[t]}
  BY DEF SignedAmount
<1>3. ASSUME NEW a, a # SourceOf[t]
      PROVE  SignedAmount(a, t) = IF DestinationOf[t] = a THEN AmountOf[t] ELSE 0
  BY <1>3 DEF SignedAmount
<1>4. ASSUME SourceOf[t] # DestinationOf[t]
      PROVE  SignedAmount(SourceOf[t], t) = -AmountOf[t]
  BY <1>4 DEF SignedAmount
<1> QED
  BY <1>1, <1>2, <1>3, <1>4

\* A set of events whose transactions are rows of the table.
Events(E) == IsFiniteSet(E) /\ \A e \in E : e.transaction \in Transaction

LEMMA BalanceType ==
    ASSUME NEW a \in Account, NEW E, Events(E)
    PROVE  BalanceAfter(a, E) \in Int
<1> DEFINE f == [e \in E |-> SignedAmount(a, e.transaction)]
<1>1. SumFunction(f) \in Int
  <2>1. IsFiniteSet(DOMAIN f) /\ \A e \in DOMAIN f : f[e] \in Int
    BY SignedAmounts DEF Events
  <2> HIDE DEF f
  <2> QED
    BY <2>1, SumOfType
<1>2. Genesis[a] \in Int
  BY LedgerAssumption
<1> QED
  BY <1>1, <1>2 DEF BalanceAfter

LEMMA BalanceOfNone == \A a \in Account : BalanceAfter(a, {}) = Genesis[a]
<1> SUFFICES ASSUME NEW a \in Account PROVE BalanceAfter(a, {}) = Genesis[a]
  OBVIOUS
<1> DEFINE f == [e \in {} |-> SignedAmount(a, e.transaction)]
<1>1. SumFunction(f) = 0
  BY SumOfNone
<1>2. Genesis[a] \in Int
  BY LedgerAssumption
<1> QED
  BY <1>1, <1>2 DEF BalanceAfter

\* One event more adds its amount.
LEMMA BalanceGrows ==
    ASSUME NEW a \in Account, NEW E, Events(E), NEW x, x \notin E,
           x.transaction \in Transaction
    PROVE  BalanceAfter(a, E \cup {x}) = BalanceAfter(a, E) + SignedAmount(a, x.transaction)
<1> DEFINE f == [e \in E |-> SignedAmount(a, e.transaction)]
           g == [e \in E \cup {x} |-> SignedAmount(a, e.transaction)]
<1>1. /\ IsFiniteSet(DOMAIN f) /\ x \notin DOMAIN f /\ DOMAIN g = DOMAIN f \cup {x}
      /\ \A e \in DOMAIN f : f[e] \in Int /\ g[e] = f[e]
      /\ g[x] = SignedAmount(a, x.transaction) /\ g[x] \in Int
  BY SignedAmounts DEF Events
<1>2. BalanceAfter(a, E) = Genesis[a] + SumFunction(f)
  BY DEF BalanceAfter
<1>3. BalanceAfter(a, E \cup {x}) = Genesis[a] + SumFunction(g)
  BY DEF BalanceAfter
<1>4. Genesis[a] \in Int
  BY LedgerAssumption
<1> HIDE DEF f, g
<1>5. SumFunction(g) = SumFunction(f) + g[x]
  BY <1>1, SumOfAdded
<1>6. SumFunction(f) \in Int
  BY <1>1, SumOfType
<1> QED
  BY <1>1, <1>2, <1>3, <1>4, <1>5, <1>6

\* Events that do not touch the account do not matter.
LEMMA BalanceOfPart ==
    ASSUME NEW a \in Account, NEW E, Events(E), NEW D \in SUBSET E,
           \A e \in E \ D : SignedAmount(a, e.transaction) = 0
    PROVE  BalanceAfter(a, D) = BalanceAfter(a, E)
<1> DEFINE f == [e \in E |-> SignedAmount(a, e.transaction)]
           g == [e \in D |-> SignedAmount(a, e.transaction)]
<1>1. /\ IsFiniteSet(DOMAIN f) /\ DOMAIN g \subseteq DOMAIN f
      /\ \A e \in DOMAIN f : f[e] \in Int
      /\ \A e \in DOMAIN g : g[e] = f[e]
      /\ \A e \in DOMAIN f \ DOMAIN g : f[e] = 0
  BY SignedAmounts DEF Events
<1>2. SumFunction(g) = SumFunction(f)
  <2> HIDE DEF f, g
  <2> QED
    BY <1>1, SumOfPart
<1> QED
  BY <1>2 DEF BalanceAfter

-----------------------------------------------------------------------------
\* Money

\* An event is of two accounts, and has a number that was handed out.
Booked(e) ==
    /\ e.sequence < nextSequence
    /\ {SourceOf[e.transaction], DestinationOf[e.transaction]} \subseteq Account
    /\ SourceOf[e.transaction] # DestinationOf[e.transaction]

\* A call that tested the balance has it until it commits, and no event of the
\* account has a later number than the call's own.
Covered(s) ==
    LET t == session[s].call.transaction IN
    /\ session[s].at \in {"insert", "commit"} => Funded(t)
    /\ session[s].at = "commit" =>
          /\ session[s].sequence < nextSequence
          /\ \A e \in events : SignedAmount(SourceOf[t], e.transaction) # 0 =>
                                  e.sequence < session[s].sequence

MoneyInv ==
    /\ IsFiniteSet(events)
    /\ \A e \in events : Booked(e)
    /\ \A s \in Session : Covered(s)
    /\ ReplayNeverOverdraws
    /\ SupplyConserved

LEMMA EventsAreEvents ==
    ASSUME Inv, MoneyInv
    PROVE  \A E \in SUBSET events : Events(E)
BY FS_Subset DEF Inv, ColumnsOK, MoneyInv, Events

LEMMA MoneyInit == Init => MoneyInv
<1> SUFFICES ASSUME Init PROVE MoneyInv
  OBVIOUS
<1>1. events = {} /\ nextSequence = 1 /\ IsFiniteSet(events)
  BY FS_EmptySet DEF Init
<1>2. \A s \in Session : Covered(s)
  BY DEF Init, IdleSession, Covered
<1>3. ReplayNeverOverdraws
  <2>1. ASSUME NEW n \in 1..nextSequence, NEW a \in Account
        PROVE  BalanceAfter(a, {e \in events : e.sequence <= n}) >= 0
    <3>1. {e \in events : e.sequence <= n} = {}
      BY <1>1
    <3>2. BalanceAfter(a, {}) >= 0
      <4>1. BalanceAfter(a, {}) = Genesis[a] /\ Genesis[a] \in Nat
        BY BalanceOfNone, LedgerAssumption
      <4> QED
        BY <4>1
    <3> QED
      BY <3>1, <3>2, Zenon
  <2> QED
    BY <2>1 DEF ReplayNeverOverdraws
<1>4. SupplyConserved
  <2>1. \A a \in Account : AccountBalance(a) = Genesis[a]
    BY <1>1, BalanceOfNone DEF AccountBalance
  <2>2. [a \in Account |-> AccountBalance(a)] = Genesis
    BY <2>1, LedgerAssumption
  <2> QED
    BY <2>2 DEF SupplyConserved
<1> QED
  BY <1>1, <1>2, <1>3, <1>4 DEF MoneyInv

\* A step that adds no event and draws no number; at most a call tests its
\* balance.
LEMMA QuietKeepsMoney ==
    ASSUME MoneyInv, UNCHANGED <<events, nextSequence>>,
           \A s \in Session : \/ session'[s] = session[s]
                               \/ session'[s].at \notin {"insert", "commit"}
                               \/ /\ session'[s].at = "insert"
                                  /\ Funded(session'[s].call.transaction)
    PROVE  MoneyInv'
<1>1. \A a, E : BalanceAfter(a, E)' = BalanceAfter(a, E)
  BY DEF BalanceAfter, SignedAmount
<1>2. \A t : Funded(t)' <=> Funded(t)
  BY DEF Funded, AccountBalance, BalanceAfter, SignedAmount
<1>3. ASSUME NEW s \in Session PROVE Covered(s)'
  <2>1. Covered(s)
    BY DEF MoneyInv
  <2>2. \A a, t : SignedAmount(a, t)' = SignedAmount(a, t)
    BY DEF SignedAmount
  <2>3. CASE session'[s] = session[s]
    BY <1>2, <2>1, <2>2, <2>3 DEF Covered
  <2>4. CASE session'[s].at \notin {"insert", "commit"}
    BY <2>4 DEF Covered
  <2>5. CASE session'[s].at = "insert" /\ Funded(session'[s].call.transaction)
    BY <1>2, <2>5 DEF Covered
  <2> QED
    BY <2>3, <2>4, <2>5
<1>4. (\A s \in Session : Covered(s))'
  BY <1>3
<1>5. ReplayNeverOverdraws'
  BY DEF MoneyInv, ReplayNeverOverdraws, BalanceAfter, SignedAmount
<1>6. SupplyConserved'
  BY DEF MoneyInv, SupplyConserved, AccountBalance, BalanceAfter, SignedAmount
<1> QED
  BY <1>4, <1>5, <1>6 DEF MoneyInv, Booked

\* The number drawn is later than that of every event there is.
LEMMA InsertKeepsMoney ==
    ASSUME Inv, MoneyInv, NEW s \in Session, InsertEvent(s)
    PROVE  MoneyInv'
<1>1. /\ session[s].at = "insert" /\ session[s] \in SessionRecord /\ Covered(s)
      /\ UNCHANGED events /\ nextSequence' = nextSequence + 1 /\ nextSequence \in Nat
  BY DEF InsertEvent, At, tables, MoneyInv, Inv, SessionsOK, ColumnsOK
<1>2. /\ session'[s].at = "commit" /\ session'[s].sequence = nextSequence
      /\ session'[s].call = session[s].call
      /\ \A u \in Session \ {s} : session'[u] = session[u]
  <2>1. session' = [session EXCEPT ![s] =
                      [session[s] EXCEPT !.at = "commit", !.sequence = nextSequence]]
    BY DEF InsertEvent, Inv, SessionsOK
  <2>2. session'[s] = [session[s] EXCEPT !.at = "commit", !.sequence = nextSequence]
    BY <2>1 DEF Inv, SessionsOK
  <2>3. \A u \in Session \ {s} : session'[u] = session[u]
    BY <2>1 DEF Inv, SessionsOK
  <2> QED
    BY <1>1, <2>2, <2>3 DEF SessionRecord
<1>3. \A e \in events : e.sequence \in Nat /\ e.sequence < nextSequence
  BY DEF MoneyInv, Booked, Inv, ColumnsOK
<1>4. \A t : Funded(t)' <=> Funded(t)
  BY <1>1 DEF Funded, AccountBalance, BalanceAfter, SignedAmount
<1>5. Covered(s)'
  <2>1. Funded(session[s].call.transaction)
    BY <1>1 DEF Covered
  <2> QED
    BY <1>1, <1>2, <1>3, <1>4, <2>1 DEF Covered
<1>6. ASSUME NEW u \in Session \ {s} PROVE Covered(u)'
  <2>1. Covered(u) /\ session'[u] = session[u] /\ session[u].sequence \in Nat
    BY <1>2 DEF MoneyInv, Inv, SessionsOK, SessionRecord
  <2>2. \A a, t : SignedAmount(a, t)' = SignedAmount(a, t)
    BY DEF SignedAmount
  <2> QED
    BY <1>1, <1>4, <2>1, <2>2 DEF Covered
<1>7. (\A u \in Session : Covered(u))'
  BY <1>5, <1>6
<1>8. ReplayNeverOverdraws'
  <2>1. ASSUME NEW n \in 1..nextSequence', NEW a \in Account
        PROVE  BalanceAfter(a, {e \in events : e.sequence <= n}) >= 0
    <3>1. CASE n \in 1..nextSequence
      BY <3>1 DEF MoneyInv, ReplayNeverOverdraws
    <3>2. CASE n = nextSequence + 1 /\ nextSequence >= 1
      <4>1. {e \in events : e.sequence <= n} = {e \in events : e.sequence <= nextSequence}
        BY <1>1, <1>3, <3>2
      <4>2. nextSequence \in 1..nextSequence
        BY <1>1, <3>2
      <4> QED
        BY <4>1, <4>2 DEF MoneyInv, ReplayNeverOverdraws
    <3>3. CASE nextSequence = 0
      <4>1. {e \in events : e.sequence <= n} = {}
        BY <1>3, <3>3
      <4>2. BalanceAfter(a, {}) >= 0
        <5>1. BalanceAfter(a, {}) = Genesis[a] /\ Genesis[a] \in Nat
          BY BalanceOfNone, LedgerAssumption
        <5> QED
          BY <5>1
      <4> QED
        BY <4>1, <4>2, Zenon
    <3> QED
      BY <1>1, <3>1, <3>2, <3>3
  <2> QED
    BY <1>1, <2>1 DEF ReplayNeverOverdraws, BalanceAfter, SignedAmount
<1>9. SupplyConserved'
  BY <1>1 DEF MoneyInv, SupplyConserved, AccountBalance, BalanceAfter, SignedAmount
<1>10. \A e \in events' : Booked(e)'
  BY <1>1, <1>3 DEF MoneyInv, Booked
<1>11. IsFiniteSet(events')
  BY <1>1 DEF MoneyInv
<1> QED
  BY <1>7, <1>8, <1>9, <1>10, <1>11 DEF MoneyInv

\* What a call knows when it commits: it has no event yet, holds both accounts,
\* and the balance it tested is there.
LEMMA CommitKnows ==
    ASSUME Inv, MoneyInv, NEW s \in Session, CommitExecution(s)
    PROVE  \E t \in Transaction, n \in Nat :
              /\ t = session[s].call.transaction /\ n = session[s].sequence /\ n < nextSequence
              /\ events' = events \cup {[sequence |-> n, transaction |-> t]}
              /\ EventsOf(t) = {} /\ Eligible(t) /\ Funded(t)
              /\ {SourceOf[t], DestinationOf[t]} \subseteq Account
              /\ SourceOf[t] # DestinationOf[t]
              /\ \A e \in events : SignedAmount(SourceOf[t], e.transaction) # 0 => e.sequence < n
              /\ \A a \in {SourceOf[t], DestinationOf[t]} : AccountRow(a) \in session[s].held
<1>1. session[s].at = "commit" /\ session[s].at \in ExecutePlace
  BY DEF CommitExecution, At, ExecutePlace
<1>2. PICK t \in Transaction : t = session[s].call.transaction
  BY <1>1, Executing
<1>3. Tested(s) /\ PlaceOK(s) /\ session[s] \in SessionRecord /\ Covered(s)
  BY <1>1, Executing DEF MoneyInv
<1>4. PICK n \in Nat : n = session[s].sequence
  BY <1>3 DEF SessionRecord
<1>5. events' = events \cup {[sequence |-> n, transaction |-> t]}
  BY <1>2, <1>4 DEF CommitExecution
<1>6. /\ EventsOf(t) = {} /\ Executable(t) /\ Eligible(t)
      /\ \A a \in {SourceOf[t], DestinationOf[t]} : AccountRow(a) \in session[s].held
  BY <1>1, <1>2, <1>3, Places DEF Tested, PlaceOK
<1>7. /\ Funded(t) /\ n < nextSequence
      /\ \A e \in events : SignedAmount(SourceOf[t], e.transaction) # 0 => e.sequence < n
  BY <1>1, <1>2, <1>3, <1>4 DEF Covered
<1>8. {SourceOf[t], DestinationOf[t]} \subseteq Account /\ SourceOf[t] # DestinationOf[t]
  BY <1>6, ExecutableAccounts DEF Executable
<1> QED
  BY <1>2, <1>4, <1>5, <1>6, <1>7, <1>8

LEMMA CommitBalances ==
    ASSUME Inv, MoneyInv, NEW t \in Transaction, NEW n \in Nat, EventsOf(t) = {},
           events' = events \cup {[sequence |-> n, transaction |-> t]}
    PROVE  /\ [sequence |-> n, transaction |-> t] \notin events
           /\ \A a \in Account : /\ AccountBalance(a) \in Int
                                 /\ AccountBalance(a)' = AccountBalance(a) + SignedAmount(a, t)
<1> DEFINE new == [sequence |-> n, transaction |-> t]
<1>1. new \notin events /\ new.transaction = t
  BY DEF EventsOf
<1>2. Events(events)
  BY EventsAreEvents
<1>3. ASSUME NEW a \in Account
      PROVE  /\ AccountBalance(a) \in Int
             /\ AccountBalance(a)' = AccountBalance(a) + SignedAmount(a, t)
  <2>1. BalanceAfter(a, events) \in Int
    BY <1>2, BalanceType
  <2>2. BalanceAfter(a, events \cup {new}) = BalanceAfter(a, events) + SignedAmount(a, t)
    <3> HIDE DEF new
    <3> QED
      BY <1>1, <1>2, BalanceGrows
  <2>3. AccountBalance(a)' = BalanceAfter(a, events \cup {new})
    BY DEF AccountBalance, BalanceAfter, SignedAmount
  <2> QED
    BY <2>1, <2>2, <2>3 DEF AccountBalance
<1> QED
  BY <1>1, <1>3

\* A transfer moves what it takes, so the sum of the balances stays.
LEMMA CommitKeepsSupply ==
    ASSUME Inv, MoneyInv, NEW t \in Transaction,
           {SourceOf[t], DestinationOf[t]} \subseteq Account, SourceOf[t] # DestinationOf[t],
           \A a \in Account : /\ AccountBalance(a) \in Int
                             /\ AccountBalance(a)' = AccountBalance(a) + SignedAmount(a, t)
    PROVE  SupplyConserved'
<1> DEFINE f == [a \in Account |-> AccountBalance(a)]
           g == [a \in Account |-> IF a = SourceOf[t] THEN AccountBalance(a) - AmountOf[t]
                                                       ELSE AccountBalance(a)]
           h == [a \in Account |-> AccountBalance(a)']
<1>1. /\ AmountOf[t] \in Int
      /\ SignedAmount(SourceOf[t], t) = -AmountOf[t]
      /\ SignedAmount(DestinationOf[t], t) = AmountOf[t]
      /\ \A a : a \notin {SourceOf[t], DestinationOf[t]} => SignedAmount(a, t) = 0
  BY SignedAmounts, LedgerAssumption
<1>2. IsFiniteSet(Account)
  BY LedgerAssumption
<1>3. \A a \in Account : f[a] \in Int /\ g[a] \in Int
  BY <1>1
<1>4. \A a \in Account : h[a] = IF a = SourceOf[t] THEN f[a] - AmountOf[t]
                                ELSE IF a = DestinationOf[t] THEN f[a] + AmountOf[t]
                                ELSE f[a]
  BY <1>1
<1>5. /\ g[SourceOf[t]] = f[SourceOf[t]] - AmountOf[t]
      /\ \A a \in Account \ {SourceOf[t]} : g[a] = f[a]
      /\ h[DestinationOf[t]] = g[DestinationOf[t]] + AmountOf[t]
      /\ \A a \in Account \ {DestinationOf[t]} : h[a] = g[a]
      /\ h[DestinationOf[t]] \in Int
  BY <1>1, <1>3, <1>4
<1>6. DOMAIN f = Account /\ DOMAIN g = Account /\ DOMAIN h = Account
  OBVIOUS
<1> HIDE DEF f, g, h
<1>7. SumFunction(g) = SumFunction(f) - f[SourceOf[t]] + g[SourceOf[t]]
  BY <1>2, <1>3, <1>5, <1>6, SumOfChanged
<1>8. SumFunction(h) = SumFunction(g) - g[DestinationOf[t]] + h[DestinationOf[t]]
  BY <1>2, <1>3, <1>5, <1>6, SumOfChanged
<1>9. SumFunction(f) \in Int /\ SumFunction(g) \in Int
  BY <1>2, <1>3, <1>6, SumOfType
<1>10. SumFunction(h) = SumFunction(f)
  <2>1. f[SourceOf[t]] \in Int /\ g[DestinationOf[t]] \in Int
    BY <1>3
  <2> QED
    BY <1>1, <1>5, <1>7, <1>8, <1>9, <2>1
<1>11. SumFunction(f) = SumFunction(Genesis)
  BY DEF MoneyInv, SupplyConserved, f
<1> QED
  BY <1>10, <1>11 DEF SupplyConserved, f, h

\* A credit never hurts a replay; a debit was covered by the whole balance, and
\* nothing of the account comes after it.
LEMMA CommitKeepsReplay ==
    ASSUME Inv, MoneyInv, NEW t \in Transaction, NEW n \in Nat, EventsOf(t) = {},
           events' = events \cup {[sequence |-> n, transaction |-> t]},
           UNCHANGED nextSequence, Funded(t), SourceOf[t] # DestinationOf[t],
           \A e \in events : SignedAmount(SourceOf[t], e.transaction) # 0 => e.sequence < n
    PROVE  ReplayNeverOverdraws'
<1> DEFINE new == [sequence |-> n, transaction |-> t]
           Until(m) == {e \in events : e.sequence <= m}
<1>1. new \notin events /\ new.transaction = t
  BY CommitBalances
<1>2. ASSUME NEW m \in 1..nextSequence, NEW a \in Account
      PROVE  BalanceAfter(a, {e \in events' : e.sequence <= m}) >= 0
  <2>1. BalanceAfter(a, Until(m)) >= 0
    BY DEF MoneyInv, ReplayNeverOverdraws
  <2>2. Events(Until(m)) /\ Events(events)
    BY EventsAreEvents
  <2>3. BalanceAfter(a, Until(m)) \in Int
    BY <2>2, BalanceType
  <2>4. CASE n > m
    <3>1. {e \in events' : e.sequence <= m} = Until(m)
      BY <2>4
    <3> QED
      BY <2>1, <3>1, Zenon
  <2>5. CASE n <= m
    <3>1. {e \in events' : e.sequence <= m} = Until(m) \cup {new}
      BY <2>5
    <3>2. BalanceAfter(a, Until(m) \cup {new}) = BalanceAfter(a, Until(m)) + SignedAmount(a, t)
      <4>1. new \notin Until(m)
        BY <1>1
      <4> HIDE DEF new, Until
      <4> QED
        BY <1>1, <2>2, <4>1, BalanceGrows
    <3>3. SignedAmount(a, t) \in Int
      BY SignedAmounts
    <3>4. BalanceAfter(a, Until(m)) + SignedAmount(a, t) >= 0
      <4>1. CASE a # SourceOf[t]
        BY <2>1, <2>3, <3>3, <4>1, SignedAmounts
      <4>2. CASE a = SourceOf[t]
        <5>1. \A e \in events \ Until(m) : SignedAmount(a, e.transaction) = 0
          <6>1. \A e \in events : e.sequence \in Nat
            BY DEF Inv, ColumnsOK
          <6>2. m \in Nat
            BY DEF Inv, ColumnsOK
          <6> QED
            BY <2>5, <4>2, <6>1, <6>2
        <5>2. BalanceAfter(a, Until(m)) = BalanceAfter(a, events)
          <6>1. Until(m) \in SUBSET events
            OBVIOUS
          <6> HIDE DEF Until
          <6> QED
            BY <2>2, <5>1, <6>1, BalanceOfPart
        <5>3. AmountOf[t] <= BalanceAfter(a, events)
          BY <4>2 DEF Funded, AccountBalance
        <5>4. SignedAmount(a, t) = -AmountOf[t] /\ AmountOf[t] \in Nat
          BY <4>2, SignedAmounts, LedgerAssumption
        <5> HIDE DEF Until
        <5> QED
          BY <2>3, <5>2, <5>3, <5>4
      <4> QED
        BY <4>1, <4>2
    <3> QED
      BY <3>1, <3>2, <3>4, Zenon
  <2> QED
    <3>1. n \in Int /\ m \in Int
      BY DEF Inv, ColumnsOK
    <3> QED
      BY <2>4, <2>5, <3>1
<1> QED
  BY <1>2 DEF ReplayNeverOverdraws, BalanceAfter, SignedAmount

\* The other calls hold other accounts.
LEMMA CommitKeepsCovered ==
    ASSUME Inv, MoneyInv, NEW s \in Session, CommitExecution(s),
           NEW t \in Transaction, NEW n \in Nat, EventsOf(t) = {},
           events' = events \cup {[sequence |-> n, transaction |-> t]},
           \A a \in {SourceOf[t], DestinationOf[t]} : AccountRow(a) \in session[s].held,
           NEW u \in Session
    PROVE  Covered(u)'
<1>1. /\ session'[s].at = "idle" /\ UNCHANGED nextSequence
      /\ \A v \in Session \ {s} : session'[v] = session[v]
  BY EndsKeepsSessions DEF CommitExecution, Inv
<1>2. CASE u = s
  BY <1>1, <1>2 DEF Covered
<1>3. CASE u # s /\ session[u].at \notin {"insert", "commit"}
  BY <1>1, <1>3 DEF Covered
<1>4. CASE u # s /\ session[u].at \in {"insert", "commit"}
  <2>1. session[u].at \in ExecutePlace
    BY <1>4 DEF ExecutePlace
  <2>2. PICK v \in Transaction : v = session[u].call.transaction
    BY <2>1, Executing
  <2>3. Covered(u) /\ Tested(u) /\ PlaceOK(u) /\ session'[u] = session[u]
    BY <1>1, <1>4, <2>1, Executing DEF MoneyInv
  <2>4. PICK a \in Account : a = SourceOf[v]
    BY <1>4, <2>2, <2>3, Places, ExecutableAccounts DEF Tested
  <2>5. AccountRow(a) \in session[u].held
    BY <1>4, <2>2, <2>3, <2>4, Places DEF PlaceOK
  <2>6. a \notin {SourceOf[t], DestinationOf[t]}
    BY <1>4, <2>5 DEF Inv, SessionsOK, LocksExclude
  <2>7. SignedAmount(a, t) = 0
    BY <2>6, SignedAmounts
  <2>8. AccountBalance(a)' = AccountBalance(a)
    <3>1. AccountBalance(a) \in Int /\ AccountBalance(a)' = AccountBalance(a) + SignedAmount(a, t)
      BY CommitBalances
    <3> QED
      BY <2>7, <3>1
  <2>9. Funded(v)'
    BY <1>4, <2>2, <2>3, <2>4, <2>8 DEF Covered, Funded
  <2>10. ASSUME session[u].at = "commit", NEW e \in events',
                SignedAmount(SourceOf[v], e.transaction) # 0
         PROVE  e.sequence < session[u].sequence
    <3>1. e.transaction # t
      BY <2>4, <2>7, <2>10
    <3>2. e \in events
      BY <2>10, <3>1
    <3> QED
      BY <2>2, <2>3, <2>10, <3>2 DEF Covered
  <2> QED
    BY <1>1, <1>4, <2>2, <2>3, <2>9, <2>10 DEF Covered, SignedAmount
<1> QED
  BY <1>2, <1>3, <1>4

LEMMA CommitKeepsMoney ==
    ASSUME Inv, MoneyInv, NEW s \in Session, CommitExecution(s)
    PROVE  MoneyInv'
<1>1. PICK t \in Transaction, n \in Nat :
        /\ n < nextSequence
        /\ events' = events \cup {[sequence |-> n, transaction |-> t]}
        /\ EventsOf(t) = {} /\ Funded(t)
        /\ {SourceOf[t], DestinationOf[t]} \subseteq Account
        /\ SourceOf[t] # DestinationOf[t]
        /\ \A e \in events : SignedAmount(SourceOf[t], e.transaction) # 0 => e.sequence < n
        /\ \A a \in {SourceOf[t], DestinationOf[t]} : AccountRow(a) \in session[s].held
  BY CommitKnows
<1>2. UNCHANGED nextSequence
  BY DEF CommitExecution
<1>3. IsFiniteSet(events')
  BY <1>1, FS_AddElement DEF MoneyInv
<1>4. \A e \in events' : Booked(e)'
  BY <1>1, <1>2 DEF MoneyInv, Booked
<1>5. (\A u \in Session : Covered(u))'
  BY <1>1, CommitKeepsCovered
<1>6. ReplayNeverOverdraws'
  BY <1>1, <1>2, CommitKeepsReplay
<1>7. SupplyConserved'
  <2>1. \A a \in Account : /\ AccountBalance(a) \in Int
                          /\ AccountBalance(a)' = AccountBalance(a) + SignedAmount(a, t)
    BY <1>1, CommitBalances
  <2> QED
    BY <1>1, <2>1, CommitKeepsSupply
<1> QED
  BY <1>3, <1>4, <1>5, <1>6, <1>7 DEF MoneyInv

\* Where a call is after its statement.
LEMMA AfterStatement ==
    ASSUME Inv, NEW s \in Session
    PROVE  /\ Ends(s) => /\ session'[s].at = "idle"
                         /\ \A u \in Session \ {s} : session'[u] = session[u]
           /\ \A p : Advances(s, p) => /\ session'[s].at = p
                                       /\ session'[s].call = session[s].call
                                       /\ session'[s].held =
                                            session[s].held \cup ({Wanted(s)} \ {NoRow})
                                       /\ \A u \in Session \ {s} : session'[u] = session[u]
<1>1. session \in [Session -> SessionRecord] /\ session[s] \in SessionRecord
  BY DEF Inv, SessionsOK
<1>2. ASSUME Ends(s)
      PROVE  /\ session'[s].at = "idle"
             /\ \A u \in Session \ {s} : session'[u] = session[u]
  BY <1>2, EndsKeepsSessions DEF Inv
<1>3. ASSUME NEW p, Advances(s, p)
      PROVE  /\ session'[s].at = p /\ session'[s].call = session[s].call
             /\ session'[s].held = session[s].held \cup ({Wanted(s)} \ {NoRow})
             /\ \A u \in Session \ {s} : session'[u] = session[u]
  <2> DEFINE h == session[s].held \cup ({Wanted(s)} \ {NoRow})
  <2>1. session' = [session EXCEPT ![s] = [session[s] EXCEPT !.at = p, !.held = h]]
    BY <1>1, <1>3 DEF Advances
  <2>2. session'[s] = [session[s] EXCEPT !.at = p, !.held = h]
    BY <1>1, <2>1
  <2>3. \A u \in Session \ {s} : session'[u] = session[u]
    BY <1>1, <2>1
  <2> QED
    BY <1>1, <2>2, <2>3 DEF SessionRecord
<1> QED
  BY <1>2, <1>3

\* Every step keeps the invariant of the money.
LEMMA NextMoney ==
    ASSUME Inv, MoneyInv, [Next]_vars
    PROVE  MoneyInv'
<1> DEFINE Quiet == /\ UNCHANGED <<events, nextSequence>>
                    /\ \A s \in Session : \/ session'[s] = session[s]
                                           \/ session'[s].at \notin {"insert", "commit"}
                                           \/ /\ session'[s].at = "insert"
                                              /\ Funded(session'[s].call.transaction)
<1>1. ASSUME NEW s \in Session, NEW c \in Call, Begin(s, c) PROVE Quiet
  <2>1. /\ session'[s].at \in {"transaction", "accounts"}
        /\ \A u \in Session \ {s} : session'[u] = session[u]
    <3>1. session \in [Session -> SessionRecord] /\ session[s] \in SessionRecord
      BY DEF Inv, SessionsOK
    <3> DEFINE p == IF c.function = "execute" THEN "transaction" ELSE "accounts"
    <3>2. session' = [session EXCEPT ![s] = [session[s] EXCEPT !.call = c, !.at = p]]
      BY <1>1, <3>1 DEF Begin
    <3>3. session'[s] = [session[s] EXCEPT !.call = c, !.at = p]
      BY <3>1, <3>2
    <3>4. session'[s].at = p
      BY <3>1, <3>3 DEF SessionRecord
    <3> QED
      BY <3>1, <3>2, <3>4
  <2> QED
    BY <1>1, <2>1 DEF Begin, tables
<1>2. ASSUME NEW s \in Session,
             \/ LockTransaction(s)
             \/ LockSource(s)
             \/ LockDestination(s)
             \/ LockAccount(s)
             \/ CommitStatus(s)
             \/ DeadlockAbort(s)
             \/ Disconnect(s)
      PROVE  Quiet
  <2>1. UNCHANGED <<events, nextSequence>>
    BY <1>2 DEF LockTransaction, LockSource, LockDestination, LockAccount, CommitStatus,
                DeadlockAbort, Disconnect, tables
  <2>2. Ends(s) \/ \E p \in {"source", "destination", "balance", "accounts"} : Advances(s, p)
    BY <1>2 DEF LockTransaction, LockSource, LockDestination, LockAccount, CommitStatus,
                DeadlockAbort, Disconnect
  <2> QED
    BY <2>1, <2>2, AfterStatement
<1>3. ASSUME NEW s \in Session, CheckBalance(s) PROVE Quiet
  <2>1. UNCHANGED <<events, nextSequence>>
    BY <1>3 DEF CheckBalance, tables
  <2>2. Ends(s) \/ (Advances(s, "insert") /\ Funded(session[s].call.transaction))
    BY <1>3 DEF CheckBalance
  <2>3. CASE Ends(s)
    BY <2>1, <2>3, AfterStatement
  <2>4. CASE Advances(s, "insert") /\ Funded(session[s].call.transaction)
    <3>1. /\ session'[s].at = "insert" /\ session'[s].call = session[s].call
          /\ \A u \in Session \ {s} : session'[u] = session[u]
      BY <2>4, AfterStatement
    <3> QED
      BY <2>1, <2>4, <3>1
  <2> QED
    BY <2>2, <2>3, <2>4
<1>4. ASSUME NEW t \in Transaction, NEW status \in TransactionStatus, MoveTransaction(t, status)
      PROVE  Quiet
  BY <1>4 DEF MoveTransaction
<1>5. ASSUME UNCHANGED vars PROVE Quiet
  <2>1. UNCHANGED tables /\ UNCHANGED nextSequence /\ UNCHANGED session
    BY <1>5 DEF vars
  <2> QED
    BY <2>1 DEF tables
<1>6. Quiet => MoneyInv'
  BY QuietKeepsMoney
<1> HIDE DEF Quiet
<1> QED
  BY <1>1, <1>2, <1>3, <1>4, <1>5, <1>6, InsertKeepsMoney, CommitKeepsMoney
     DEF Next, Step, ExecuteStep, ApplyStep

LEMMA AlwaysMoney == Spec => [](Inv /\ MoneyInv)
<1>1. Init => Inv /\ MoneyInv
  BY InitInv, MoneyInit
<1>2. Inv /\ MoneyInv /\ [Next]_vars => (Inv /\ MoneyInv)'
  BY NextInv, NextMoney
<1> QED
  BY <1>1, <1>2, PTL DEF Spec

\* Replayed in the order of its numbers, whatever order the events committed
\* in, the ledger never takes an account below zero.
THEOREM ReplaysStayCovered == Spec => []ReplayNeverOverdraws
<1>1. Inv /\ MoneyInv => ReplayNeverOverdraws
  BY DEF MoneyInv
<1> QED
  BY <1>1, AlwaysMoney, PTL

\* The balances always add up to the genesis allocation.
THEOREM SupplyStays == Spec => []SupplyConserved
<1>1. Inv /\ MoneyInv => SupplyConserved
  BY DEF MoneyInv
<1> QED
  BY <1>1, AlwaysMoney, PTL

-----------------------------------------------------------------------------
\* The refinement

balanceMap == [a \in Account |-> AccountBalance(a)]
settledMap == {t \in Transaction : EventsOf(t) # {}}
openMap == {a \in Account : account[a] = "ACTIVE"}

LEMMA LedgerInit == Init => Ledger!Init
<1> SUFFICES ASSUME Init PROVE Ledger!Init
  OBVIOUS
<1>1. \A a \in Account : AccountBalance(a) = Genesis[a]
  BY BalanceOfNone DEF Init, AccountBalance
<1>2. balanceMap = Genesis
  BY <1>1, LedgerAssumption DEF balanceMap
<1>3. settledMap = {}
  BY DEF Init, settledMap, EventsOf
<1>4. openMap = Account
  BY DEF Init, openMap
<1> QED
  BY <1>2, <1>3, <1>4 DEF Ledger!Init, balanceMap, settledMap, openMap

\* A commit is the transfer, at the instant its event becomes visible.
LEMMA CommitIsTransfer ==
    ASSUME Inv, MoneyInv, NEW s \in Session, CommitExecution(s)
    PROVE  \E t \in Transaction : Ledger!Transfer(t)
<1>1. PICK t \in Transaction, n \in Nat :
        /\ events' = events \cup {[sequence |-> n, transaction |-> t]}
        /\ EventsOf(t) = {} /\ Eligible(t) /\ Funded(t)
        /\ {SourceOf[t], DestinationOf[t]} \subseteq Account
        /\ SourceOf[t] # DestinationOf[t]
  BY CommitKnows
<1>2. \A a \in Account : /\ AccountBalance(a) \in Int
                        /\ AccountBalance(a)' = AccountBalance(a) + SignedAmount(a, t)
  BY <1>1, CommitBalances
<1>3. balanceMap' = [balanceMap EXCEPT ![SourceOf[t]] = @ - AmountOf[t],
                                       ![DestinationOf[t]] = @ + AmountOf[t]]
  <2>0. PICK b \in [Account -> Int] : b = balanceMap
    BY <1>2 DEF balanceMap
  <2> DEFINE f == [b EXCEPT ![SourceOf[t]] = @ - AmountOf[t],
                            ![DestinationOf[t]] = @ + AmountOf[t]]
  <2>1. /\ SignedAmount(SourceOf[t], t) = -AmountOf[t]
        /\ SignedAmount(DestinationOf[t], t) = AmountOf[t]
        /\ \A a : a \notin {SourceOf[t], DestinationOf[t]} => SignedAmount(a, t) = 0
        /\ AmountOf[t] \in Int
    BY <1>1, SignedAmounts, LedgerAssumption
  <2>2. ASSUME NEW a \in Account PROVE AccountBalance(a)' = f[a]
    <3>1. b[a] = AccountBalance(a)
      BY <2>0 DEF balanceMap
    <3> QED
      BY <1>1, <1>2, <2>1, <3>1
  <2>3. balanceMap' = [a \in Account |-> AccountBalance(a)']
    BY DEF balanceMap
  <2>4. f = [a \in Account |-> f[a]]
    OBVIOUS
  <2>5. balanceMap' = f
    <3> HIDE DEF f
    <3> QED
      BY <2>2, <2>3, <2>4
  <2> QED
    BY <2>0, <2>5
<1>4. settledMap' = settledMap \cup {t} /\ t \notin settledMap
  <2>1. [sequence |-> n, transaction |-> t] \in EventsOf(t)'
    BY <1>1 DEF EventsOf
  <2>2. \A v \in Transaction \ {t} : EventsOf(v)' = EventsOf(v)
    BY <1>1 DEF EventsOf
  <2> QED
    BY <1>1, <2>1, <2>2 DEF settledMap
<1>5. openMap' = openMap /\ {SourceOf[t], DestinationOf[t]} \subseteq openMap
  BY <1>1 DEF CommitExecution, openMap, Eligible
<1>6. AmountOf[t] <= balanceMap[SourceOf[t]]
  BY <1>1 DEF Funded, balanceMap
<1> QED
  BY <1>3, <1>4, <1>5, <1>6 DEF Ledger!Transfer, balanceMap, settledMap, openMap

\* Every other step leaves the balances and at most opens or closes accounts.
LEMMA OthersGovern ==
    ASSUME UNCHANGED events
    PROVE  Ledger!Govern
<1>1. balanceMap' = balanceMap
  BY DEF balanceMap, AccountBalance, BalanceAfter, SignedAmount
<1>2. settledMap' = settledMap /\ openMap' \in SUBSET Account
  BY DEF settledMap, openMap, EventsOf
<1> QED
  BY <1>1, <1>2 DEF Ledger!Govern, balanceMap, settledMap, openMap

LEMMA LedgerNext ==
    ASSUME Inv, MoneyInv, [Next]_vars
    PROVE  Ledger!Next
<1>1. (\E s \in Session : CommitExecution(s)) \/ UNCHANGED events
  BY DEF Next, Step, ExecuteStep, ApplyStep, Begin, LockTransaction, LockSource,
         LockDestination, CheckBalance, InsertEvent, LockAccount, CommitStatus,
         DeadlockAbort, Disconnect, MoveTransaction, vars, tables
<1> QED
  BY <1>1, CommitIsTransfer, OthersGovern DEF Ledger!Next

\* The sessions, with their locks, retries and aborts, do to the balances what
\* the atomic ledger does.
THEOREM SessionsKeepLedger == Spec => ImplementsCoinLedger
<1>1. Inv /\ MoneyInv /\ [Next]_vars =>
         [Ledger!Next]_<<[a \in Account |-> AccountBalance(a)],
                         {t \in Transaction : EventsOf(t) # {}},
                         {a \in Account : account[a] = "ACTIVE"}>>
  BY LedgerNext
<1> QED
  BY <1>1, LedgerInit, AlwaysMoney, PTL DEF Spec, ImplementsCoinLedger, Ledger!Spec
-----------------------------------------------------------------------------
\* Waits in a circle

\* Every payment locks its accounts in the order in which an update scans them.
LocksOrdered ==
    /\ \A a, b \in Account : ScanOrder[a] = ScanOrder[b] => a = b
    /\ \A t \in Transaction :
          SourceOf[t] \in Account /\ DestinationOf[t] \in Account /\ SourceOf[t] # DestinationOf[t]
          => ScanOrder[SourceOf[t]] < ScanOrder[DestinationOf[t]]

\* A call that has a row to lock holds only rows that come before it.
Ascends(s) ==
    LET t == session[s].call.transaction
        held == session[s].held
    IN  /\ session[s].at = "source" => held \subseteq {TransactionRow(t)}
        /\ session[s].at = "destination" =>
              held \subseteq {TransactionRow(t), AccountRow(SourceOf[t])}
        /\ session[s].at = "accounts" => \A row \in held : \E a \in Account :
              row = AccountRow(a) /\ \A b \in ToLock(s) : ScanOrder[a] < ScanOrder[b]

AllAscend == \A s \in Session : Ascends(s)

\* A step of the session s alone.
LEMMA OneAscends ==
    ASSUME AllAscend, NEW s \in Session, Ascends(s)',
           \A u \in Session \ {s} : session'[u] = session[u]
    PROVE  AllAscend'
<1> SUFFICES ASSUME NEW u \in Session \ {s} PROVE Ascends(u)'
  BY DEF AllAscend
<1>1. Ascends(u) /\ session'[u] = session[u]
  BY DEF AllAscend
<1> QED
  BY <1>1 DEF Ascends, ToLock

\* A call that opens holds nothing.
LEMMA BeginAscends ==
    ASSUME Inv, AllAscend, NEW s \in Session, NEW c \in Call, Begin(s, c)
    PROVE  AllAscend'
<1>1. session \in [Session -> SessionRecord] /\ session[s] \in SessionRecord /\ PlaceOK(s)
  BY DEF Inv, SessionsOK
<1>2. session[s].held = {}
  BY <1>1 DEF Begin, Busy, PlaceOK
<1> DEFINE p == IF c.function = "execute" THEN "transaction" ELSE "accounts"
<1>3. session' = [session EXCEPT ![s] = [session[s] EXCEPT !.call = c, !.at = p]]
  BY <1>1 DEF Begin
<1>4. /\ session'[s] = [session[s] EXCEPT !.call = c, !.at = p]
      /\ \A u \in Session \ {s} : session'[u] = session[u]
  BY <1>1, <1>3
<1>5. session'[s].at = p /\ session'[s].held = {}
  BY <1>1, <1>2, <1>4 DEF SessionRecord
<1>6. Ascends(s)'
  BY <1>5 DEF Ascends
<1> QED
  BY <1>4, <1>6, OneAscends

\* A statement of a call locks a row that comes after those it holds.
LEMMA StepAscends ==
    ASSUME LocksOrdered, Inv, AllAscend, NEW s \in Session, Step(s)
    PROVE  AllAscend'
<1> DEFINE t == session[s].call.transaction
           Still == /\ session'[s].at \notin {"source", "destination", "accounts"}
                    /\ \A u \in Session \ {s} : session'[u] = session[u]
<1>0. /\ session \in [Session -> SessionRecord] /\ session[s] \in SessionRecord
      /\ PlaceOK(s) /\ Ascends(s)
  BY DEF Inv, SessionsOK, AllAscend
<1>1. ASSUME Still PROVE AllAscend'
  <2>1. Ascends(s)'
    BY <1>1 DEF Ascends
  <2> QED
    BY <1>1, <2>1, OneAscends
<1>2. ASSUME Ends(s) PROVE AllAscend'
  BY <1>1, <1>2, AfterStatement
<1>3. CASE LockTransaction(s)
  <2>1. CASE Ends(s)
    BY <1>2, <2>1
  <2>2. CASE Advances(s, "source")
    <3>1. session[s].held = {} /\ Wanted(s) = TransactionRow(t)
      BY <1>0, <1>3 DEF LockTransaction, At, PlaceOK, Wanted
    <3>2. /\ session'[s].at = "source" /\ session'[s].call = session[s].call
          /\ session'[s].held \subseteq {TransactionRow(t)}
          /\ \A u \in Session \ {s} : session'[u] = session[u]
      BY <2>2, <3>1, AfterStatement
    <3>3. Ascends(s)'
      BY <3>2 DEF Ascends
    <3> QED
      BY <3>2, <3>3, OneAscends
  <2> QED
    BY <1>3, <2>1, <2>2 DEF LockTransaction
<1>4. CASE LockSource(s)
  <2>1. /\ session[s].held \subseteq {TransactionRow(t)}
        /\ Wanted(s) = AccountRow(SourceOf[t])
        /\ Advances(s, "destination")
    BY <1>0, <1>4 DEF LockSource, At, Ascends, Wanted
  <2>2. /\ session'[s].at = "destination" /\ session'[s].call = session[s].call
        /\ session'[s].held \subseteq {TransactionRow(t), AccountRow(SourceOf[t])}
        /\ \A u \in Session \ {s} : session'[u] = session[u]
    BY <2>1, AfterStatement
  <2>3. Ascends(s)'
    BY <2>2 DEF Ascends
  <2> QED
    BY <2>2, <2>3, OneAscends
<1>5. CASE LockDestination(s) \/ CheckBalance(s)
  BY <1>1, <1>2, <1>5, AfterStatement DEF LockDestination, CheckBalance
<1>6. CASE InsertEvent(s)
  <2>1. session' = [session EXCEPT ![s] = [session[s] EXCEPT !.at = "commit", !.sequence = nextSequence]]
    BY <1>0, <1>6 DEF InsertEvent
  <2>2. session'[s].at = "commit" /\ \A u \in Session \ {s} : session'[u] = session[u]
    BY <1>0, <2>1 DEF SessionRecord
  <2> QED
    BY <1>1, <2>2
<1>7. CASE CommitExecution(s) \/ CommitStatus(s)
  BY <1>2, <1>7 DEF CommitExecution, CommitStatus
<1>8. CASE LockAccount(s)
  <2> DEFINE n == NextAccount(s)
  <2>1. /\ session[s].at = "accounts" /\ ToLock(s) # {}
        /\ Advances(s, "accounts")
    BY <1>8 DEF LockAccount, At
  <2>2. n \in ToLock(s) /\ n \in Account /\ \A b \in ToLock(s) : ScanOrder[n] <= ScanOrder[b]
    BY <2>1, NextAccountToLock DEF ToLock, OwnedBy
  <2>3. Wanted(s) = AccountRow(n)
    BY <2>1 DEF Wanted
  <2>4. AccountRow(n) # NoRow
    BY DEF AccountRow, NoRow
  <2>5. /\ session'[s].at = "accounts" /\ session'[s].call = session[s].call
        /\ session'[s].held = session[s].held \cup {AccountRow(n)}
        /\ \A u \in Session \ {s} : session'[u] = session[u]
    BY <2>1, <2>3, <2>4, AfterStatement
  <2>6. ToLock(s)' \subseteq ToLock(s) \ {n}
    BY <2>5 DEF ToLock
  <2>7. ASSUME NEW b \in ToLock(s)' PROVE ScanOrder[n] < ScanOrder[b]
    <3>1. b \in ToLock(s) /\ b # n
      BY <2>6
    <3>2. b \in Account /\ ScanOrder[b] # ScanOrder[n] /\ ScanOrder[n] <= ScanOrder[b]
      BY <2>2, <3>1 DEF LocksOrdered, ToLock, OwnedBy
    <3> QED
      BY <2>2, <3>2, LedgerAssumption
  <2>8. ASSUME NEW row \in session[s].held
        PROVE  \E a \in Account : row = AccountRow(a) /\ \A b \in ToLock(s)' : ScanOrder[a] < ScanOrder[b]
    BY <1>0, <2>1, <2>6 DEF Ascends
  <2>9. Ascends(s)'
    BY <2>2, <2>5, <2>7, <2>8 DEF Ascends
  <2> QED
    BY <2>5, <2>9, OneAscends
<1> QED
  BY <1>3, <1>4, <1>5, <1>6, <1>7, <1>8 DEF Step, ExecuteStep, ApplyStep

\* Where a row comes: the transactions' before the accounts'.
LockRank(row) == IF row[1] = "account" THEN ScanOrder[row[2]] + 1 ELSE 0

\* What a session holds while it waits comes before what it waits for.
LEMMA HeldBefore ==
    ASSUME LocksOrdered, Inv, AllAscend, NEW s \in Session, Wanted(s) # NoRow,
           NEW row \in session[s].held
    PROVE  LockRank(row) < LockRank(Wanted(s))
<1> DEFINE c == session[s].call
           t == c.transaction
<1>1. PlaceOK(s) /\ Ascends(s) /\ Tested(s)
  BY TestsOfAll DEF Inv, SessionsOK, AllAscend
<1>2. /\ \A x : LockRank(TransactionRow(x)) = 0
      /\ \A x \in Account : LockRank(AccountRow(x)) = ScanOrder[x] + 1
      /\ \A x \in Account : ScanOrder[x] \in Nat
  BY LedgerAssumption DEF LockRank, TransactionRow, AccountRow
<1>3. CASE session[s].at = "transaction"
  BY <1>1, <1>3 DEF PlaceOK
<1>4. CASE session[s].at \in {"source", "destination"}
  <2>1. c \in ExecuteCall /\ t \in Transaction
    BY <1>1, <1>4, CallsDiffer DEF PlaceOK, ExecutePlace
  <2>2. Executable(t)
    BY <1>1, <1>4, Places DEF Tested
  <2>3. SourceOf[t] \in Account /\ DestinationOf[t] \in Account /\ SourceOf[t] # DestinationOf[t]
    BY <2>1, <2>2, ExecutableAccounts DEF Executable
  <2>4. ScanOrder[SourceOf[t]] < ScanOrder[DestinationOf[t]]
    BY <2>1, <2>3 DEF LocksOrdered
  <2>5. CASE session[s].at = "source"
    <3>1. Wanted(s) = AccountRow(SourceOf[t]) /\ row = TransactionRow(t)
      BY <1>1, <2>5 DEF Wanted, Ascends
    <3> QED
      BY <1>2, <2>3, <3>1
  <2>6. CASE session[s].at = "destination"
    <3>1. /\ Wanted(s) = AccountRow(DestinationOf[t])
          /\ row \in {TransactionRow(t), AccountRow(SourceOf[t])}
      BY <1>1, <2>6 DEF Wanted, Ascends
    <3> QED
      BY <1>2, <2>3, <2>4, <3>1
  <2> QED
    BY <1>4, <2>5, <2>6
<1>5. CASE session[s].at = "accounts"
  <2>1. ToLock(s) # {} /\ Wanted(s) = AccountRow(NextAccount(s))
    BY <1>5 DEF Wanted
  <2>2. NextAccount(s) \in ToLock(s) /\ NextAccount(s) \in Account
    BY <2>1, NextAccountToLock DEF ToLock, OwnedBy
  <2>3. PICK a \in Account : row = AccountRow(a) /\ \A b \in ToLock(s) : ScanOrder[a] < ScanOrder[b]
    BY <1>1, <1>5 DEF Ascends
  <2> QED
    BY <1>2, <2>1, <2>2, <2>3
<1> QED
  BY <1>3, <1>4, <1>5 DEF Wanted

\* The server aborts a call only where a payment locks its accounts against the order
\* of a scan, or of another payment: if every payment locks the account first that the
\* scan meets first, no sessions ever wait for each other in a circle, however many run
\* and whatever they call.
THEOREM OrderedLocksNeverCycle ==
    ASSUME LocksOrdered
    PROVE  Spec => [](\A S \in SUBSET Session : WaitCycle(S) => S = {})
<1>1. Init => AllAscend
  BY DEF Init, AllAscend, Ascends, IdleSession
<1>2. Inv /\ AllAscend /\ [Next]_vars => AllAscend'
  <2> SUFFICES ASSUME Inv, AllAscend, [Next]_vars PROVE AllAscend'
    OBVIOUS
  <2>1. ASSUME NEW s \in Session, NEW c \in Call, Begin(s, c) PROVE AllAscend'
    BY <2>1, BeginAscends
  <2>2. ASSUME NEW s \in Session, Step(s) PROVE AllAscend'
    BY <2>2, StepAscends
  <2>3. ASSUME NEW s \in Session, DeadlockAbort(s) \/ Disconnect(s) PROVE AllAscend'
    <3>1. session'[s].at = "idle" /\ \A u \in Session \ {s} : session'[u] = session[u]
      BY <2>3, AfterStatement DEF DeadlockAbort, Disconnect
    <3>2. Ascends(s)'
      BY <3>1 DEF Ascends
    <3> QED
      BY <3>1, <3>2, OneAscends
  <2>4. CASE UNCHANGED session
    BY <2>4 DEF AllAscend, Ascends, ToLock
  <2>5. ASSUME NEW t \in Transaction, NEW status \in TransactionStatus, MoveTransaction(t, status)
        PROVE  UNCHANGED session
    BY <2>5 DEF MoveTransaction
  <2>6. UNCHANGED vars => UNCHANGED session
    BY DEF vars
  <2> QED
    BY <2>1, <2>2, <2>3, <2>4, <2>5, <2>6 DEF Next
<1>3. Inv /\ AllAscend => \A S \in SUBSET Session : WaitCycle(S) => S = {}
  <2> SUFFICES ASSUME Inv, AllAscend, NEW S \in SUBSET Session, WaitCycle(S), S # {}
               PROVE  FALSE
    OBVIOUS
  <2> DEFINE ranks == {LockRank(Wanted(s)) : s \in S}
  <2>1. ASSUME NEW s \in S PROVE LockRank(Wanted(s)) \in Nat /\ Wanted(s) # NoRow
    <3>1. PICK u \in S : WaitsFor(s, u)
      BY DEF WaitCycle
    <3>2. Wanted(s) # NoRow /\ Wanted(s) \in Row
      BY <3>1 DEF WaitsFor, Inv, SessionsOK, SessionRecord
    <3>3. LockRank(Wanted(s)) \in Nat
      BY <3>2, LedgerAssumption DEF Row, LockRank, TransactionRow, AccountRow
    <3> QED
      BY <3>2, <3>3
  <2>2. ranks \subseteq Nat /\ ranks # {}
    BY <2>1
  <2> HIDE DEF ranks
  <2>3. PICK m \in ranks : \A k \in ranks : <<k, m>> \notin OpToRel(<, Nat)
    BY <2>2, WFMin, NatLessThanWellFounded, Zenon
  <2>4. \A k \in ranks : k \in Nat /\ m \in Nat /\ ~(k < m)
    BY <2>2, <2>3, Zenon DEF OpToRel
  <2>5. PICK s \in S : m = LockRank(Wanted(s))
    BY <2>3 DEF ranks
  <2>6. PICK u \in S : WaitsFor(u, s)
    BY DEF WaitCycle
  <2>7. LockRank(Wanted(u)) < LockRank(Wanted(s))
    BY <2>1, <2>6, HeldBefore DEF WaitsFor
  <2>8. LockRank(Wanted(u)) \in ranks
    BY DEF ranks
  <2> QED
    BY <2>4, <2>5, <2>7, <2>8
<1> QED
  BY <1>1, <1>2, <1>3, AlwaysInv, PTL DEF Spec
=============================================================================
