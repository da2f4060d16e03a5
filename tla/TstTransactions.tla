--------------------------- MODULE TstTransactions ---------------------------
(***************************************************************************)
(* The functions of TstDistribution as the database runs them: sessions    *)
(* whose statements interleave under READ COMMITTED.  A statement that     *)
(* takes a row lock (SELECT ... FOR UPDATE, an UPDATE, or the entry an     *)
(* INSERT makes in a unique index) waits until no other open transaction   *)
(* holds it and then tests the row's newest version; a statement that only *)
(* reads tests the committed tables of that moment, and nothing keeps them *)
(* so.  Writes become visible at the commit.  A session may be cut off at  *)
(* any statement, and a client that lost the answer may call again.        *)
(***************************************************************************)
EXTENDS TstDistribution, Sequences

CONSTANTS
    Session,   \* concurrent connections of the service role
    Call,      \* the calls clients make
    NoCall     \* a session with no call open

VARIABLE session    \* per session: the open call and the statements done of it

transactionVars == <<vars, session>>

Function == {"submit", "approve", "release", "execute", "confirm", "reconcile"}

ASSUME CallsAssumption ==
    /\ Call \subseteq [function : Function, distribution : Distribution,
                       participant : Participant, amount : Amount, key : Key,
                       reported : Amount \cup {0}, settled : Amount \cup {0}]
    /\ NoCall \notin Call

IdleSession == [call |-> NoCall, done |-> 0]

Busy(s) == session[s].call # NoCall

-----------------------------------------------------------------------------
\* What each statement of a function locks and tests.

DistributionRow(d) == <<"distribution", d>>
AllocationRow(d) == <<"allocation", AllocationOf[d]>>
PaymentRow(d) == <<"payment", d>>
KeyEntry(k) == <<"idempotency_key", k>>
NoRow == <<"unlocked">>     \* a plain read

\* Mutant: approve reads the allocation without FOR UPDATE.
RowsWithSharedCapacity(c) ==
    LET d == c.distribution IN
    CASE c.function = "submit"    -> <<DistributionRow(d), AllocationRow(d), NoRow>>
      [] c.function = "approve"   -> <<DistributionRow(d), NoRow, NoRow>>
      [] c.function = "release"   -> <<DistributionRow(d)>>
      [] c.function = "execute"   -> <<DistributionRow(d), NoRow, KeyEntry(c.key)>>
      [] c.function = "confirm"   -> <<PaymentRow(d), DistributionRow(d)>>
      [] c.function = "reconcile" -> <<PaymentRow(d), DistributionRow(d), AllocationRow(d)>>

\* Mutant: a reconciliation that finds nothing settled takes the distribution,
\* which it will put on HOLD, before the payment.
RowsHoldingFirst(c) ==
    LET d == c.distribution IN
    CASE c.function = "submit"    -> <<DistributionRow(d), AllocationRow(d), NoRow>>
      [] c.function = "approve"   -> <<DistributionRow(d), AllocationRow(d), NoRow>>
      [] c.function = "release"   -> <<DistributionRow(d)>>
      [] c.function = "execute"   -> <<DistributionRow(d), NoRow, KeyEntry(c.key)>>
      [] c.function = "confirm"   -> <<PaymentRow(d), DistributionRow(d)>>
      [] c.function = "reconcile" ->
            IF c.settled = 0
            THEN <<DistributionRow(d), PaymentRow(d), AllocationRow(d)>>
            ELSE <<PaymentRow(d), DistributionRow(d), AllocationRow(d)>>

\* The rows of a call's statements, in order.
Rows(c) ==
    LET d == c.distribution IN
    CASE c.function = "submit"    -> <<DistributionRow(d), AllocationRow(d), NoRow>>
      [] c.function = "approve"   -> <<DistributionRow(d), AllocationRow(d), NoRow>>
      [] c.function = "release"   -> <<DistributionRow(d)>>
      [] c.function = "execute"   -> <<DistributionRow(d), NoRow, KeyEntry(c.key)>>
      [] c.function = "confirm"   -> <<PaymentRow(d), DistributionRow(d)>>
      [] c.function = "reconcile" -> <<PaymentRow(d), DistributionRow(d), AllocationRow(d)>>

\* What each of them tests; the function raises where a test fails.
SubmitTest(d, i) ==
    \/ i = 1 /\ Submittable(d)
    \/ i = 2 /\ RequestFits(d)
    \/ i = 3 /\ BeneficiaryOf[d] \in eligible

ApproveTest(d, p, n, i) ==
    \/ i = 1 /\ Approvable(d, p, n)
    \/ i = 2 /\ ApprovalFits(d, n)
    \/ i = 3 /\ FundCovers(AllocationOf[d], n)

ReleaseTest(d) == Releasable(d)

ExecuteTest(d, p, k, i) ==
    \/ i = 1 /\ Executable(d, p)
    \/ i = 2 /\ BeneficiaryOf[d] \in payable
    \/ i = 3 /\ PaymentUnique(d, k)

ConfirmTest(d, i) == i = 1 => Settleable(d)

ReconcileTest(d, p, l, s, i) ==
    /\ i = 1 => Reconcilable(d, p)
    /\ i = 3 => Unreconciled(d) /\ (Matches(d, l, s) => DisbursementFits(d))

Test(c, i) ==
    LET d == c.distribution
        p == c.participant
    IN  \/ c.function = "submit" /\ SubmitTest(d, i)
        \/ c.function = "approve" /\ ApproveTest(d, p, c.amount, i)
        \/ c.function = "release" /\ ReleaseTest(d)
        \/ c.function = "execute" /\ ExecuteTest(d, p, c.key, i)
        \/ c.function = "confirm" /\ ConfirmTest(d, i)
        \/ c.function = "reconcile" /\ ReconcileTest(d, p, c.reported, c.settled, i)

Effect(c) ==
    \/ c.function = "submit" /\ Submitted(c.distribution)
    \/ c.function = "approve" /\ Approved(c.distribution, c.participant, c.amount)
    \/ c.function = "release" /\ Released(c.distribution)
    \/ c.function = "execute" /\ Executed(c.distribution, c.participant, c.key)
    \/ c.function = "confirm" /\ Settled(c.distribution)
    \/ c.function = "reconcile" /\
         ReconciledBy(c.distribution, c.participant, c.reported, c.settled)

-----------------------------------------------------------------------------
\* Sessions

\* The statements a session has done, and the rows they left locked.
Done(s) == 1..session[s].done

Holds(s) == {Rows(session[s].call)[i] : i \in Done(s)} \ {NoRow}

Held(row) == \E s \in Session : row \in Holds(s)

\* The next statement of s is to lock a row that t has locked.
WaitsFor(s, t) ==
    LET c == session[s].call
        i == session[s].done + 1
    IN  /\ s # t
        /\ Busy(s)
        /\ i \in DOMAIN Rows(c)
        /\ Rows(c)[i] \in Holds(t)

Begin(s, c) ==
    /\ ~Busy(s)
    /\ session' = [session EXCEPT ![s] = [call |-> c, done |-> 0]]
    /\ UNCHANGED vars

\* Mutant: a raise leaves the transaction open.
RunHolding(s) ==
    LET c == session[s].call
        i == session[s].done + 1
    IN  /\ Busy(s)
        /\ i \in DOMAIN Rows(c)
        /\ \A t \in Session : ~WaitsFor(s, t)
        /\ session' = [session EXCEPT ![s].done = IF Test(c, i) THEN i ELSE @]
        /\ UNCHANGED vars

\* The next statement: it waits for its row, then goes on or raises, which
\* rolls the transaction back and frees its rows.
Run(s) ==
    LET c == session[s].call
        i == session[s].done + 1
    IN  /\ Busy(s)
        /\ i \in DOMAIN Rows(c)
        /\ \A t \in Session : ~WaitsFor(s, t)
        /\ session' = [session EXCEPT ![s] =
                         IF Test(c, i) THEN [call |-> c, done |-> i] ELSE IdleSession]
        /\ UNCHANGED vars

Commit(s) ==
    /\ Busy(s)
    /\ session[s].done = Len(Rows(session[s].call))
    /\ Effect(session[s].call)
    /\ session' = [session EXCEPT ![s] = IdleSession]

\* Mutant: the connection goes back to the pool with its statements counted.
RollbackKeepingPlace(s) ==
    /\ Busy(s)
    /\ session' = [session EXCEPT ![s].call = NoCall]
    /\ UNCHANGED vars

\* A lost connection, a cancelled statement or a server restart.
Rollback(s) ==
    /\ Busy(s)
    /\ session' = [session EXCEPT ![s] = IdleSession]
    /\ UNCHANGED vars

\* The service role's own writes are single statements.  They wait for the row
\* they update, or, through the foreign key, for the row they refer to.
TableWrite ==
    /\ \/ \E d \in Distribution, p \in Participant, n \in Amount :
             ~Held(AllocationRow(d)) /\ InsertDistribution(d, p, n)
       \/ \E c \in Contribution, s \in ContributionStatus : MoveContribution(c, s)
       \/ \E a \in Allocation, s \in AllocationStatus :
             ~Held(<<"allocation", a>>) /\ MoveAllocation(a, s)
       \/ \E b \in Beneficiary : ReviewBeneficiary(b) \/ ReviewDestination(b)
    /\ UNCHANGED session

TransactionsInit == Init /\ session = [s \in Session |-> IdleSession]

SessionStep(s) == (\E c \in Call : Begin(s, c)) \/ Run(s) \/ Commit(s) \/ Rollback(s)

TransactionsNext == TableWrite \/ \E s \in Session : SessionStep(s)

TransactionsSpec == TransactionsInit /\ [][TransactionsNext]_transactionVars

\* The server runs every statement and hands a contended row to each waiter in
\* turn, so a wait that can end again and again does end.
ServerFairness ==
    \A s \in Session : SF_transactionVars(Run(s)) /\ WF_transactionVars(Commit(s))

FairTransactionsSpec == TransactionsSpec /\ ServerFairness

-----------------------------------------------------------------------------
\* Properties

SessionsTypeOK ==
    /\ session \in [Session -> [call : Call \cup {NoCall}, done : 0..3]]
    /\ \A s \in Session : ~Busy(s) => session[s] = IdleSession

\* What a transaction tested under a row lock still holds when it commits, in
\* whatever order other sessions and the service role's own writes ran since.
LockedTestsHold ==
    \A s \in Session : \A i \in Done(s) :
        Rows(session[s].call)[i] # NoRow => Test(session[s].call, i)

\* Sessions never wait on one another in a circle: of any that wait, one waits
\* for none of the others.  Calls of different functions, retries and keys
\* lock payment, distribution, and allocation or key in that order, so no
\* caller is ever raised at as the victim of a deadlock.
NoDeadlock ==
    \A S \in (SUBSET Session) \ {{}} : \E s \in S : \A t \in S : ~WaitsFor(s, t)

\* Every call ends: it commits or raises, and no wait for a row is for ever.
CallsReturn == \A s \in Session : Busy(s) ~> ~Busy(s)
=============================================================================
