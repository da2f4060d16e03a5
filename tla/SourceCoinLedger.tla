-------------------------- MODULE SourceCoinLedger --------------------------
(***************************************************************************)
(* The Source Coin ledger in the database: sessions that run               *)
(* execute_authorized_transaction and apply_organization_economic_status   *)
(* under READ COMMITTED, statement by statement.                           *)
(*                                                                         *)
(* A statement that locks a row waits until no other open transaction      *)
(* holds it and then sees the row's newest version; a plain read sees what *)
(* is committed at that moment.  Writes become visible, and row locks are  *)
(* released, when the transaction ends.  The server aborts a session of a  *)
(* cycle of waits.  A client that lost the answer calls again.             *)
(***************************************************************************)
EXTENDS Integers, FiniteSets, Functions

CONSTANTS
    Account, Organization, Transaction, Session,
    OwnerOf,           \* accounts.organization_id, and that of the account's wallet
    TypeOf,            \* transactions.transaction_type
    SourceOf,          \* transactions.source_account_id
    DestinationOf,     \* transactions.destination_account_id
    AmountOf,          \* transactions.amount_minor
    NoAccount,         \* a NULL account
    Genesis,           \* what earlier events, left out of events, gave each account
    ScanOrder,         \* the place of each account in the scan of an UPDATE
    TransactionMoves,  \* status updates the server makes on transactions
    AppliedStatus,     \* the statuses organizations are given
    NoCall,            \* a session with no call open
    MaxSequence        \* bound: no connection is lost once the identity passed it

AccountStatus == {"ACTIVE", "SUSPENDED", "FROZEN", "CLOSED"}
TransactionType ==
    {"TRANSFER", "MINT", "BURN", "TREASURY_ALLOCATION", "SETTLEMENT", "REWARD"}
TransactionStatus ==
    {"CREATED", "VALIDATED", "AUTHORIZED", "EXECUTING", "SETTLED", "REJECTED",
     "FAILED", "CANCELLED"}

ASSUME LedgerAssumption ==
    /\ OwnerOf \in [Account -> Organization]
    /\ TypeOf \in [Transaction -> TransactionType]
    /\ SourceOf \in [Transaction -> Account \cup {NoAccount}]
    /\ DestinationOf \in [Transaction -> Account \cup {NoAccount}]
    /\ AmountOf \in [Transaction -> Nat \ {0}]
    /\ Genesis \in [Account -> Nat]
    /\ ScanOrder \in [Account -> Nat]
    /\ NoAccount \notin Account
    /\ MaxSequence \in Nat
    /\ IsFiniteSet(Account)

\* Nothing but execute_authorized_transaction settles, and nothing unsettles.
ASSUME MovesAssumption ==
    /\ TransactionMoves \subseteq
         (TransactionStatus \ {"SETTLED"}) \X (TransactionStatus \ {"SETTLED"})
    /\ AppliedStatus \subseteq AccountStatus

ASSUME CallsAssumption ==
    /\ \A t \in Transaction : NoCall # [function |-> "execute", transaction |-> t]
    /\ \A o \in Organization, s \in AppliedStatus :
          NoCall # [function |-> "apply", organization |-> o, status |-> s]

VARIABLES
    transactions,   \* status of each row of transactions
    events,         \* committed rows of ledger_events
    nextSequence,   \* the identity of ledger_sequence
    account,        \* status of each account
    wallet,         \* status of the wallet bound to each account
    answers,        \* the sequences returned to the callers of each transaction
    session         \* per session: call, place, row locks, ledger_sequence

tables == <<transactions, events, account, wallet>>
vars == <<tables, nextSequence, answers, session>>

ExecuteCall == [function : {"execute"}, transaction : Transaction]
ApplyCall == [function : {"apply"}, organization : Organization, status : AppliedStatus]
Call == ExecuteCall \cup ApplyCall

ExecutePlace == {"transaction", "source", "destination", "balance", "insert", "commit"}
Place == ExecutePlace \cup {"idle", "accounts"}

TransactionRow(t) == <<"transaction", t>>
AccountRow(a) == <<"account", a>>
NoRow == <<"none">>
Row == {TransactionRow(t) : t \in Transaction} \cup {AccountRow(a) : a \in Account}

IdleSession == [call |-> NoCall, at |-> "idle", held |-> {}, sequence |-> 0]

Init ==
    /\ transactions = [t \in Transaction |-> "CREATED"]
    /\ events = {}
    /\ nextSequence = 1
    /\ account = [a \in Account |-> "ACTIVE"]
    /\ wallet = [a \in Account |-> "ACTIVE"]
    /\ answers = [t \in Transaction |-> {}]
    /\ session = [s \in Session |-> IdleSession]

-----------------------------------------------------------------------------
\* What the statements read

EventsOf(t) == {e \in events : e.transaction = t}
SequencesOf(t) == {e.sequence : e \in EventsOf(t)}

\* account_balance: the CASE tries the destination first.
SignedAmount(a, t) ==
    CASE DestinationOf[t] = a -> AmountOf[t]
      [] SourceOf[t] = a /\ DestinationOf[t] # a -> -AmountOf[t]
      [] OTHER -> 0

BalanceAfter(a, E) ==
    Genesis[a] + SumFunction([e \in E |-> SignedAmount(a, e.transaction)])

AccountBalance(a) == BalanceAfter(a, events)

\* Mutant: a transaction may name one account twice.
ExecutableToItself(t) ==
    /\ transactions[t] = "AUTHORIZED"
    /\ TypeOf[t] \notin {"MINT", "BURN"}
    /\ NoAccount \notin {SourceOf[t], DestinationOf[t]}

Executable(t) ==
    /\ transactions[t] = "AUTHORIZED"
    /\ TypeOf[t] \notin {"MINT", "BURN"}
    /\ NoAccount \notin {SourceOf[t], DestinationOf[t]}
    /\ SourceOf[t] # DestinationOf[t]

Eligible(t) == account[SourceOf[t]] = "ACTIVE" /\ account[DestinationOf[t]] = "ACTIVE"

Funded(t) == AmountOf[t] <= AccountBalance(SourceOf[t])

-----------------------------------------------------------------------------
\* Row locks

OwnedBy(o) == {a \in Account : OwnerOf[a] = o}

\* The account rows an UPDATE has yet to lock, and the first of them it scans.
ToLock(s) ==
    {a \in OwnedBy(session[s].call.organization) : AccountRow(a) \notin session[s].held}

NextAccount(s) ==
    CHOOSE a \in ToLock(s) : \A b \in ToLock(s) : ScanOrder[a] <= ScanOrder[b]

\* Mutants: the transaction's row, or the accounts', is read without FOR UPDATE.
WantedButTransaction(s) ==
    CASE session[s].at = "source" -> AccountRow(SourceOf[session[s].call.transaction])
      [] session[s].at = "destination" -> AccountRow(DestinationOf[session[s].call.transaction])
      [] session[s].at = "accounts" /\ ToLock(s) # {} -> AccountRow(NextAccount(s))
      [] OTHER -> NoRow

WantedButAccounts(s) ==
    CASE session[s].at = "transaction" -> TransactionRow(session[s].call.transaction)
      [] session[s].at = "accounts" /\ ToLock(s) # {} -> AccountRow(NextAccount(s))
      [] OTHER -> NoRow

\* The row the session's next statement locks.
Wanted(s) ==
    CASE session[s].at = "transaction" -> TransactionRow(session[s].call.transaction)
      [] session[s].at = "source" -> AccountRow(SourceOf[session[s].call.transaction])
      [] session[s].at = "destination" -> AccountRow(DestinationOf[session[s].call.transaction])
      [] session[s].at = "accounts" /\ ToLock(s) # {} -> AccountRow(NextAccount(s))
      [] OTHER -> NoRow

WaitsFor(s, t) == s # t /\ Wanted(s) # NoRow /\ Wanted(s) \in session[t].held

\* Mutant: the rows are locked FOR SHARE.
GrantedShared(s) == TRUE

Granted(s) == \A t \in Session : ~WaitsFor(s, t)

\* Everyone in the set waits for one of it and is waited for by one of it.
WaitCycle(S) ==
    \A s \in S : /\ \E t \in S : WaitsFor(s, t)
                 /\ \E t \in S : WaitsFor(t, s)

-----------------------------------------------------------------------------
\* Sessions

Busy(s) == session[s].call # NoCall

Ends(s) == session' = [session EXCEPT ![s] = IdleSession]

\* The statement locks its row and the call goes on to the place p.
Advances(s, p) ==
    session' = [session EXCEPT ![s].at = p, ![s].held = @ \cup ({Wanted(s)} \ {NoRow})]

At(s, p) == session[s].at = p /\ Granted(s)

Begin(s, c) ==
    /\ ~Busy(s)
    /\ session' = [session EXCEPT ![s].call = c,
                     ![s].at = IF c.function = "execute" THEN "transaction" ELSE "accounts"]
    /\ UNCHANGED <<tables, nextSequence, answers>>

\* Mutant: no look for an event of the transaction.
LockUnasked(s) ==
    LET t == session[s].call.transaction IN
    /\ At(s, "transaction")
    /\ IF transactions[t] \in {"AUTHORIZED", "SETTLED"} /\ SourceOf[t] # DestinationOf[t]
       THEN Advances(s, "source") ELSE Ends(s)
    /\ UNCHANGED <<tables, nextSequence, answers>>

\* The transaction is locked; its event, if any, is the answer; otherwise the
\* call goes on or raises.
LockTransaction(s) ==
    LET t == session[s].call.transaction IN
    /\ At(s, "transaction")
    /\ IF EventsOf(t) = {} /\ Executable(t) THEN Advances(s, "source") ELSE Ends(s)
    /\ answers' = [answers EXCEPT ![t] = @ \cup SequencesOf(t)]
    /\ UNCHANGED <<tables, nextSequence>>

LockSource(s) ==
    /\ At(s, "source")
    /\ Advances(s, "destination")
    /\ UNCHANGED <<tables, nextSequence, answers>>

LockDestination(s) ==
    /\ At(s, "destination")
    /\ IF Eligible(session[s].call.transaction) THEN Advances(s, "balance") ELSE Ends(s)
    /\ UNCHANGED <<tables, nextSequence, answers>>

\* Mutant: a call without funds waits for them.
WaitForFunds(s) ==
    /\ At(s, "balance")
    /\ Funded(session[s].call.transaction)
    /\ Advances(s, "insert")
    /\ UNCHANGED <<tables, nextSequence, answers>>

CheckBalance(s) ==
    /\ At(s, "balance")
    /\ IF Funded(session[s].call.transaction) THEN Advances(s, "insert") ELSE Ends(s)
    /\ UNCHANGED <<tables, nextSequence, answers>>

\* The identity counts on whatever becomes of the transaction.
InsertEvent(s) ==
    /\ At(s, "insert")
    /\ session' = [session EXCEPT ![s].at = "commit", ![s].sequence = nextSequence]
    /\ nextSequence' = nextSequence + 1
    /\ UNCHANGED <<tables, answers>>

CommitExecution(s) ==
    LET t == session[s].call.transaction IN
    /\ At(s, "commit")
    /\ events' = events \cup {[sequence |-> session[s].sequence, transaction |-> t]}
    /\ transactions' = [transactions EXCEPT ![t] = "SETTLED"]
    /\ answers' = [answers EXCEPT ![t] = @ \cup {session[s].sequence}]
    /\ Ends(s)
    /\ UNCHANGED <<nextSequence, account, wallet>>

\* UPDATE accounts, one row after another.
LockAccount(s) ==
    /\ At(s, "accounts")
    /\ ToLock(s) # {}
    /\ Advances(s, "accounts")
    /\ UNCHANGED <<tables, nextSequence, answers>>

\* The wallets' rows are only written by calls that hold the accounts' rows.
CommitStatus(s) ==
    LET c == session[s].call
        Applied(status) == [a \in Account |-> IF a \in OwnedBy(c.organization)
                                              THEN c.status ELSE status[a]]
    IN  /\ At(s, "accounts")
        /\ ToLock(s) = {}
        /\ account' = Applied(account)
        /\ wallet' = Applied(wallet)
        /\ Ends(s)
        /\ UNCHANGED <<transactions, events, nextSequence, answers>>

\* deadlock_timeout: the server raises in a session of a cycle of waits.
DeadlockAbort(s) ==
    /\ \E S \in SUBSET Session : s \in S /\ WaitCycle(S)
    /\ Ends(s)
    /\ UNCHANGED <<tables, nextSequence, answers>>

\* A lost connection or a cancelled statement.
Disconnect(s) ==
    /\ Busy(s)
    /\ nextSequence <= MaxSequence
    /\ Ends(s)
    /\ UNCHANGED <<tables, nextSequence, answers>>

-----------------------------------------------------------------------------
\* The server's own writes

MoveTransaction(t, status) ==
    /\ <<transactions[t], status>> \in TransactionMoves
    /\ \A s \in Session : TransactionRow(t) \notin session[s].held
    /\ transactions' = [transactions EXCEPT ![t] = status]
    /\ UNCHANGED <<events, account, wallet, nextSequence, answers, session>>

ExecuteStep(s) ==
    \/ LockTransaction(s)
    \/ LockSource(s)
    \/ LockDestination(s)
    \/ CheckBalance(s)
    \/ InsertEvent(s)
    \/ CommitExecution(s)

ApplyStep(s) == LockAccount(s) \/ CommitStatus(s)

Step(s) == ExecuteStep(s) \/ ApplyStep(s)

Next ==
    \/ \E s \in Session :
          \/ \E c \in Call : Begin(s, c)
          \/ Step(s)
          \/ DeadlockAbort(s)
          \/ Disconnect(s)
    \/ \E t \in Transaction, status \in TransactionStatus : MoveTransaction(t, status)

Spec == Init /\ [][Next]_vars

\* The server runs every statement, hands a contended row to each waiter in
\* turn, and looks for a cycle whenever a wait grows long.
FairSpec ==
    Spec /\ \A s \in Session : SF_vars(Step(s)) /\ WF_vars(DeadlockAbort(s))

-----------------------------------------------------------------------------
\* Properties

SessionRecord ==
    [call : Call \cup {NoCall}, at : Place, held : SUBSET Row, sequence : Nat]

\* The places of a call from p on.
From(p) ==
    CASE p = "source" -> {"source", "destination", "balance", "insert", "commit"}
      [] p = "destination" -> {"destination", "balance", "insert", "commit"}
      [] p = "balance" -> {"balance", "insert", "commit"}

\* A session holds the rows its call has passed.
PlaceOK(s) ==
    LET c == session[s].call
        at == session[s].at
        held == session[s].held
    IN  /\ at = "idle" <=> c = NoCall
        /\ at \in ExecutePlace => c \in ExecuteCall
        /\ at = "accounts" => c \in ApplyCall
        /\ at \in {"idle", "transaction"} => held = {}
        /\ at \in From("source") => TransactionRow(c.transaction) \in held
        /\ at \in From("destination") => AccountRow(SourceOf[c.transaction]) \in held
        /\ at \in From("balance") => AccountRow(DestinationOf[c.transaction]) \in held

\* No row is locked by two sessions.
LocksExclude ==
    \A s, t \in Session : s # t => session[s].held \cap session[t].held = {}

\* The columns keep their types, every call holds the rows it has passed, and
\* no row is locked by two sessions.
TypeOK ==
    /\ transactions \in [Transaction -> TransactionStatus]
    /\ events \subseteq [sequence : Nat, transaction : Transaction]
    /\ nextSequence \in Nat
    /\ account \in [Account -> AccountStatus]
    /\ wallet \in [Account -> AccountStatus]
    /\ answers \in [Transaction -> SUBSET Nat]
    /\ session \in [Session -> SessionRecord]
    /\ \A s \in Session : PlaceOK(s)
    /\ LocksExclude

\* What a call tested under a row lock still holds when it commits: nobody
\* settled, cancelled or froze anything behind its back.
TestsHold ==
    \A s \in Session :
        LET t == session[s].call.transaction IN
        /\ session[s].at \in From("source") => EventsOf(t) = {} /\ Executable(t)
        /\ session[s].at \in From("balance") => Eligible(t)

\* A transaction is SETTLED exactly when the ledger has one event of it,
\* whatever retries run side by side, and everyone who called it, the caller
\* that settled it and those that retried, got the sequence of that event.
SettledOnce ==
    /\ \A e, f \in events : e.transaction = f.transaction => e = f
    /\ \A t \in Transaction : /\ transactions[t] = "SETTLED" <=> EventsOf(t) # {}
                              /\ answers[t] = SequencesOf(t)

\* The ledger replayed in the order of its sequence numbers, as a projection or
\* an audit reads it, never takes an account below zero, although events commit
\* in another order than they got their numbers in.
ReplayNeverOverdraws ==
    \A n \in 1..nextSequence, a \in Account :
        BalanceAfter(a, {e \in events : e.sequence <= n}) >= 0

\* Transfers neither make nor destroy coins: the balances derived from the
\* events always add up to the genesis allocation.
SupplyConserved ==
    SumFunction([a \in Account |-> AccountBalance(a)]) = SumFunction(Genesis)

\* No event of an account that is not ACTIVE is ever added: a freeze that has
\* committed stops every transfer that has not.
FrozenNeverMoves ==
    [][\A e \in events' \ events : Eligible(e.transaction)]_vars

\* Every call ends, those the server aborts to break a cycle of waits included.
CallsEnd == \A s \in Session : Busy(s) ~> ~Busy(s)

\* The sessions implement the atomic ledger.
Ledger ==
    INSTANCE CoinLedger WITH
        balance <- [a \in Account |-> AccountBalance(a)],
        settled <- {t \in Transaction : EventsOf(t) # {}},
        open <- {a \in Account : account[a] = "ACTIVE"}

ImplementsCoinLedger == Ledger!Spec
=============================================================================
