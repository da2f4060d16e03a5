# A verification project for SIOS

The repository holds a family of ledgers and registries whose behaviour is written
mostly in PostgreSQL: tables with CHECK and UNIQUE constraints, plpgsql functions that
move their rows, and triggers that refuse a move. Around them stand Python packages of
frozen dataclasses, a frontend, deployment templates and CI jobs. What can go wrong, and
what no unit test of the repository reaches, is what happens when calls meet: two
transactions on one fund, a retry after a lost answer, a row read without a lock, a
status that a later function overwrites. That is what the modules here describe.

Every definition that stands for code is listed in `PROJECT.json` under `map`, with the
lines it translates. Paths below are those of the repository; a bare number such as
`005` names the migration whose file name ends in it.

## 1. Inventory

### 1.1 Parts with functions or triggers that move state

| Part | State | Operations | Hard behaviour | What makes it correct |
|---|---|---|---|---|
| **TST stewardship ledger and distribution pipeline** (`supabase/migrations/20260823092000_…_003`, `20260823094000_…_005`) | contributions, allocations with running totals, distributions, approvals, payments, reconciliations | `submit_distribution`, `approve_distribution`, `release_to_treasury`, `execute_payment`, `confirm_payment_settlement`, `complete_reconciliation`, the capacity trigger, plain writes of the service role | row locks beside unlocked reads; retries; segregation of duties over calls days apart; running totals kept in two UPDATEs | totals are the sums they stand for; duties stay apart; one payment per distribution and key; the status of a distribution agrees with the rows of the other functions; a fund is not overcommitted |
| **TST audit trail** (`20260823095000_…_006`) | `audit_events`, a hash chain per entity | `append_audit_event`, `verify_audit_chain` | an advisory lock; a caller rolled back at any statement; a digest over rendered text | chain verifies in every state and session; no append is refused or lost |
| **Source Coin ledger** (`setc/migrations/004`, `005`) | transactions, `ledger_events` with an identity column, account and wallet status | `execute_authorized_transaction`, `account_balance`, `apply_organization_economic_status`, append-only triggers | three row locks in an order that can cross; deadlock aborts; lost answers; identities handed out before the commit | a transaction settles once; no overdraft, whatever order events are replayed in; a freeze holds; supply is constant |
| **Institutional banking gateway** (`setc/capitalization/migrations/018`, `021`) | payment instructions, approvals, holds, observations, matches, reconciliations, endorsements, exceptions, finality events | INSERT and UPDATE of both tables through their state, gate and history triggers; approvals; holds; judgements of matches | gates read other tables without locks; one UPDATE may set any column; a final settlement may be withdrawn | executed only once authorized, final only on an executed payment and two endorsements, and withdrawn for good |
| TST beneficiary governance (`20260823093000_…_004`) | beneficiaries, reviews, conflict disclosures, recusals, independent approvals | writes of these rows, `enforce_independent_approval_integrity`, `beneficiary_is_distribution_eligible` | eligibility may lapse between submission and payment; a conflict disclosed after an independent approval | no payment is submitted for a beneficiary that is not eligible, or on a conflicted approval |
| TST reporting, assurance, oversight (`007`, `008`) | reporting periods, statements, attestations, assurance packages, findings | `issue_assurance_package`, which closes a period; closing a finding | readiness computed over a moving pipeline without locks | a CLOSED period has no unresolved distribution |
| Liquidity (`setc/capitalization/migrations/019`) | observations, reservations, limits and overrides, forecasts | reserving, renewing, expiring, releasing; `payment_funding_eligible` | availability computed over other reservations; expiry by the clock | live reservations never exceed the newest observation |
| **Settlement governance** (`setc/capitalization/migrations/014`) | approval requests and votes, compliance cases, the release gate, settlement instructions | `validate_approval_action`, `validate_approval_request_status`, `validate_settlement_instruction`, `authorize_release_gate`, plain writes of the service role | three tables read one after another without locks; a trigger on UPDATE only; votes are append-only, but a request's quota and requester may be rewritten at any time | an instruction advances on the approvals that every approval of its request asked for, and each write rests on grounds that held while it ran |
| Trade finance, certification (`020`, `022`) | instruments, claims, certificates | state and gate triggers | the gates' reads are unlocked | as for `018` and `021` |
| Constitutional gates and assessments (`v28` … `v38`) | append-only assessments, reviews, gateway decisions | inserting rows, superseding them, a readiness evaluation | two reviewers supersede one row at once | one final status per assessment |
| Post-quantum control plane (`20260825…`, `20260831205453`) | inventory, scores, providers, hybrid evidence | commissioning, a protection gate over signatures, keys and authorizations | a later refusal in an append-only table | the newest decision counts |
| **Ecology gateway** (`setc/ecology/gateway.py`, `gateway_security.py`) | a set of idempotency keys and a counter per principal, in memory | making a request, `evaluate` | neither is ever reset, and both decide for every later call, whatever principal it is for | every decision is the one that the audit records before it call for |
| **HeartBeat assertions** (`supabase/migrations/*_setc_heartbeat_*`) | cardiac credentials, device attestations, authentication assertions | inserting an assertion through its two triggers; the service role's writes of the other two tables | the triggers read one after another, without locks and before the commit; times are columns that the writer fills in | an assertion rests on a credential and a device that satisfied their triggers while it was inserted |
| **Organization case files** (27 files of `setc/organizations`) | records of 193 kinds, each filed under the id of another | making a record: `__post_init__` raises or the record stands | each record is tested by itself and restates what its parent named; parents may come later or never | who holds a duty of a record does not hold the duty it is kept apart from in the record above |

### 1.2 Registries and pure code

| Part | What it is |
|---|---|
| TST foundation, identity and roles (`001`, `002`) | reference tables and role assignments; no function moves them |
| Programme and organization migrations of SETC | table definitions with CHECKs |
| Capitalization registries (`012`, `013`, `015`–`017`) and `setc/capitalization/*.py` | relationships, nodes, accounts, routes; triggers that guard one row; one projection refresh; value types and a table of transitions that only tests call |
| HeartBeat evidence and policy types (`setc/heartbeat`, `src/sourceenergy_one/*heartbeat*`) | frozen records and tests of one record against a caller's context; no code hands the result of one to the next, and an assertion may be decided on any number of times |
| Ecology regenerative allocation (`setc/ecology/allocation.py`) | one pure function over decimals |
| The other files of the organization registry, fashion and workforce, SourceEnergy One, release assurance | frozen dataclasses and predicates over them |
| CRUDS universe and its frontend | a read-only public projection and its pages |
| Decentralized Health Network | schema baselines: identities, consents, attestations, anchors |
| Higher education and innovation builds | registries whose triggers test one row against the status of rows it refers to, the pattern `IbgSettlement` has |
| Insurance platform | domain tables moved by single-row writes |
| CVI and DPOT trace intelligence | control-plane rows and a read-only query |
| Infrastructure, delivery workflows, stewardship SSR tools | templates, CI jobs, import and export scripts |

### 1.3 How the parts interact

The TST pipeline reads beneficiary eligibility and verified destinations from `004` and
roles from `001`/`002`. The closing functions of `007` and `008` read the pipeline and the
audit trail of `006` and append to the trail in their own transaction. The Source Coin ledger
takes account standing from the organization registry through
`apply_organization_economic_status`. Of the banking gateway, `018` reads accounts,
routes and nodes of `013`/`017`, and `021` reads the payments of `018`; `019` reserves
liquidity for those payments. `014` keeps instructions of its own and shares no row with
`018`. These parts share one database, so every interaction is a row that one part writes
and another reads, locked or not. The triggers of HeartBeat
read in the same way. The case files are Python that keeps nothing: a record is made from what
its caller says of the others. The Ecology gateway keeps its keys and counts in the
memory of one process, and nothing else reads them.

What the database does is common to all of it and is modelled alike in every module:
READ COMMITTED (a statement sees what was committed when it began), row locks held until
the transaction ends, a lock awaited and the row's newest version then re-read, writes
visible at the commit, and any session cut off between two statements.

### 1.4 Hazards

`PROJECT.json` lists 40 of them at their lines, with the properties that would catch
each. Those without a property carry the reason; section 8 gives the observations made
while modelling that belong to no property.

## 2. How the project was built

In this order, the parts that move money first:

1. `TstDistribution` (one function, one step), then `TstTransactions` over it (one
   statement, one step), both against the abstract `TstLifecycle`.
2. `TstAudit` against `AuditLog`.
3. `SourceCoinLedger` against `CoinLedger`.
4. `IbgSettlement` against `SettlementPromise`.
5. `HeartbeatAssertions`.
6. `OrganizationRecords`, the tables of record kinds, and `CaseFile` over them.
7. `SettlementGovernance` against `ReleasePromise`.
8. `EcologyGateway`.
9. Theorems about each of them but 6.

Open, should the project be taken further: the liquidity reservations of `019`; the closing of a
reporting period over `TstDistribution` and `TstAudit`; the append-only assessments of
`v37_1`.

## 3. Modules

| Module | Models | Composes |
|---|---|---|
| `TstLifecycle` | abstract: request, grant within the allocation, pay once, outcome for good | |
| `TstDistribution` | tables, functions and capacity trigger of `003` and `005` | `TstLifecycle` (refined) |
| `TstTransactions` | the same functions as interleaved statements with row locks | extends `TstDistribution` |
| `AuditLog` | abstract: one append-only log per entity | |
| `TstAudit` | `append_audit_event`, `verify_audit_chain` | `AuditLog` (refined) |
| `CoinLedger` | abstract: an atomic transfer between open accounts | |
| `SourceCoinLedger` | execution, organization status, retries, deadlocks | `CoinLedger` (refined) |
| `SettlementPromise` | abstract: authorized, executed, final, withdrawn | |
| `IbgSettlement` | payment instructions and settlement reconciliations | `SettlementPromise` (refined) |
| `HeartbeatAssertions` | the insertion of an assertion through its two triggers, trigger by trigger | |
| `OrganizationRecords` | the kinds of record of 27 files: what each is filed under, names and keeps apart | |
| `CaseFile` | the filing of such records | extends `OrganizationRecords` |
| `ReleasePromise` | abstract: a write is made on grounds seen while it ran; what has ended stays | |
| `SettlementGovernance` | requests, votes, cases, gate and instructions of `014`, their triggers statement by statement | `ReleasePromise` (refined) |
| `EcologyGateway` | well-formed requests and the security gateway's `evaluate` | |
| `FiniteSums` | lemmas on the sums over finite sets that the totals and balances are | extended by `TstDistributionProofs` and `SourceCoinProofs` |
| `TstDistributionProofs`, `TstAuditProofs`, `SourceCoinProofs`, `IbgSettlementProofs`, `HeartbeatProofs`, `SettlementGovernanceProofs`, `EcologyGatewayProofs` | theorems and lemmas | extend the module they are about; the first, `TstTransactions` |
| `MCTstDistribution`, `MCTstTransactions`, `MCTstAudit`, `MCSourceCoinLedger`, `MCIbgSettlement`, `MCHeartbeatAssertions`, `MCCaseFile`, `MCSettlementGovernance` | instances for TLC | extend theirs |

Definitions marked `Mutant` in a comment are faulty versions of the definition beside
them, as a change to the code might introduce them. No specification uses one; each shows
that a property fails when the code is wrong in that way.

### 3.1 The TST pipeline

`TstDistribution` keeps one function from keys to rows for each table. A row that was
never inserted has status `"NONE"`. `payment` and `reconciliation` are indexed by the
distribution because the tables have UNIQUE constraints on it. Each function of `005` is
one action with the function's name, the conjunction of named guards (one for each row
or read the function depends on: `Approvable`, `ApprovalFits`, `FundCovers`) and one
effect (`Approved`). A guard that fails is a RAISE: the transaction is rolled back, so
there is no step. The CHECK and UNIQUE constraints are guards as well
(`DisbursementFits`, `PaymentUnique`). The trigger `enforce_allocation_capacity` is
`FundCovers`, called where its UPDATE OF columns make it fire, by `ApproveDistribution`;
it does not fire on a status UPDATE, so `MoveAllocation` does not call it. The service
role's own writes are actions too: drafts, contribution and allocation status,
eligibility, destinations.

`TstTransactions` opens the functions into their statements. `Rows(call)` lists, per
function, the row each statement locks (or `NoRow` for a plain read or INSERT), and
`Test(call, i)` what it tests. `Run` executes the next statement when no other session
holds its row; a failed test ends the transaction. `Commit` applies the function's effect
and frees the rows, `Rollback` may come at any time, and `TableWrite` is the service
role's writes, which wait for the same rows. An entry of the unique index on
idempotency keys is a row to be locked like any other, since an INSERT of a key waits for
an uncommitted one.

### 3.2 The audit trail

`append` is what each session has done of a call: entered (the clock is read before the
lock is awaited), locked, read (tail and digest), inserted; a commit makes the row
visible and frees the lock. `Digest` is `Hash` of what is hashed, including `Text`, the
timestamp as the session's time zone setting renders it. Nothing is assumed of `Hash`: the columns
are joined with `|`, which free text may hold, and the row's own identity is not hashed, so different
rows may well have one digest. The runs join every content to the same text; the proofs
hold for any function. `VerifyAuditChain(e, zone)` is
the loop of `verify_audit_chain`, run by a session with that setting.

### 3.3 The Source Coin ledger

`session[s]` holds the open call, the statement it stands at, the rows it holds and the
sequence number it drew. `AccountBalance` is derived from the committed events, as in the
code. `InsertEvent` draws the number, `CommitExecution` makes event and status visible
together. `DeadlockAbort` is enabled for a session in a cycle of waits (`WaitCycle`),
`Disconnect` for any; a retry is another `Begin` with the same transaction.
`apply_organization_economic_status` locks the accounts it updates one by one, in
`ScanOrder`. `Genesis` stands for earlier events, which are left out of `events`: the code's balance
is the sum of the events alone. No statement of these functions reads the emergency state, so it is no part of
the module.

### 3.4 The banking gateway

An UPDATE may set every column at once, so `UpdatePayment(p, new)` and
`UpdateReconciliation(r, new)` choose the whole new row, subject to the state machine
(`PaymentMoves`, `SettlementMoves`) and the gates (`ExecutionGate`, `SettlementGate`),
which read the other tables as committed. The new version waits in `paying` or
`reconciling`, and `CommitPayment`, `CommitReconciliation` publish it; in between, approvals, holds,
matches, exceptions and the other table may change. `Recorded` is what the history
trigger writes. `reconciliation[r].payment` is the payment the match named when the row
was written: the match itself may be judged anew, or moved, at any time.

### 3.5 HeartBeat assertions

`insert[s]` is the INSERT that a session has open: the row, how many of its two triggers have let
it pass, and the grounds that held at some moment since it began (a history). `CheckCredential` and
`CheckDevice` are the triggers, in the order of their names; a raise ends the INSERT, as does
`Rollback` at any moment. In between, `SetCredential` and `SetAttestation` are the service role's
writes of the other two tables. `issued` and `expires` are columns like any other: no trigger
asks the clock, so the inserter may give any time. An assertion is kept with the grounds it had.

### 3.6 The case files

`OrganizationRecords` says of each of 193 dataclasses which kind it is filed under,
which organizations it names in which role, which two roles its `__post_init__` keeps
apart, and in which states it must hold evidence. `CaseFile` has a single action,
`File(i, r)`: a record that its own test accepts is filed under any free id and names any
id as its parent, filed or not. What a record's test says of its own amounts, currencies, numbers,
periods and texts is left out of the table (`finance_treasury`, `foundations` and others have such
tests): a record that fails it is never made, and the properties speak of organizations.

### 3.7 Settlement governance

A write of an instruction is four steps after it begins: the trigger reads the request, the case and the gate
(`ReadApproval`, `ReadCase`, `ReadGate`), then `CommitWrite`; `FailWrite` may come at any
moment. The row is locked, so the transition tested at the beginning still applies; what is
read is not. A vote and a decision are two steps each, the trigger and the commit
(`BeginVote`/`EndVote`, `BeginDecision`/`CommitDecision` or `DropDecision`), and the two do not wait for one
another: a foreign key's lock is compatible with an UPDATE of the status. Votes are append-only,
as a trigger sees to. A request is not: one UPDATE may give it another status, `required_approvals` and
`requested_by_actor` at once, or these two alone at any later time, and the trigger counts only when the status
turns. So `BeginDecision(r, row)` takes a whole row. `InsertRequest` may give any row, since the trigger is
on UPDATE. Three histories remember what the row itself forgets: `unexamined` the requests
that were inserted as APPROVED, `granted` the quotas a request was approved on, `filers` the
actors that stood as its requester. The history `seen` of a write in hand
collects the grounds that held since it began, and is what `ReleasePromise` speaks of.

### 3.8 The Ecology gateway

`GatewayRequest` is the set of requests whose construction does not raise: an action that the target
domain may be asked for, with a key where the action is material. `Evaluate` is one call of `evaluate`, for any
principal the caller presents: `Rejection` is its chain of tests in their order, `Consume` what an
accepted request uses up. `trail` is the audit records that the calls returned, each with the call
it answers. A call runs to its end before the next begins.

## 4. Runs

| Run | Question | Outcome |
|---|---|---|
| `tst_pipeline` | two requests compete for one allocation larger than its fund's receipts, three participants who each hold all roles | all properties hold |
| `tst_transactions` | the statements of two sessions interleave over two requests of one allocation | what was tested under a lock holds at the commit; no circle of waits; still implements `TstLifecycle`; every call ends |
| `tst_write_skew` | two approvals on two allocations of one fund at once | `FundSolvent` violated |
| `tst_audit` | two sessions append to two chains and are cut off anywhere | all properties hold |
| `tst_audit_zones` | the sessions' time zones differ | `ChainVerifies` violated |
| `sc_ledger` | competing, crossing and self transfers with retries, freezes, cancellations | all properties hold |
| `ibg_settlement` | one payment and one reconciliation through every state, other writes between trigger and commit | all properties hold |
| `ibg_checkers` | which approvals make a settlement FINAL? | `FinalHasBothCheckers` violated |
| `heartbeat_assertions` | two sessions insert while the credential is suspended and the device evaluated anew | all properties hold |
| `case_file_verifier` | an execution and its verification name different executors | `IndependentOfParent` violated |
| `settlement_governance` | one instruction, request, case and gate, with every trigger's reads apart from its commit and the request's quota and requester rewritten | all properties hold |
| `settlement_rejection` | a rejection races the approval | `ApprovedIsUnopposed` violated |

What the properties say:

- `DutiesSegregated`: no payment is approved by its initiator, executed by its approver or
  reconciled by its executor, and each of them held the role at the time.
- `PipelineConsistent`: the status of a distribution says exactly which approval,
  payment and reconciliation rows exist and what they contain.
- `CommitmentsAreApprovals`, `DisbursementsAreReconciliations`: the running totals are the
  sums over the rows. `SettledCanBeBooked`: the CHECK on the totals never refuses to book
  money that already left.
- `FundSolvent`: commitments stay within receipts while nothing is reversed or closed.
- `ImplementsLifecycle`, `ImplementsAuditLog`, `ImplementsCoinLedger`, `ImplementsPromise`,
  `ImplementsRelease`: refinement of the abstract specifications.
- `LockedTestsHold`, `TestsHold`: what a call tested under a row lock is still true in
  every later state until it ends. `TailCurrent`: the same for the advisory lock.
- `SettledOnce`: one event per settled transaction, and every caller was told its number.
  `ReplayNeverOverdraws`: no prefix of the events in sequence order has a negative
  balance. `SupplyConserved`, `FrozenNeverMoves` as their names say.
- `ReconciledIsCompleted`, `FinalIsEndorsed`, and `AdvancedIsApproved`, which no run checks: what a trigger tested
  before the commit holds after it, in every later state.
- `RestsOnEvidence`: an assertion is there only if its credential was active at some moment of the
  insertion, and its device trusted for a time beyond `issued_at` at another.
- `IndependentOfParent`: who has a duty in a record is not who has, in the record above, the duty that
  the record keeps it apart from. The code does not see to it.
- `AdvancedIsEndorsed`: the request of an instruction that is approved or further was once
  approved, and has as many approvals as any quota it was ever approved on, none of them by an actor
  that alone was ever its requester; of a request inserted as APPROVED nothing is said of the first.
  It speaks of the quotas and requesters of the past because those of the present may be
  rewritten after the fact.
- `DecidedByTrail`, which no run checks: every decision of the Ecology gateway is the one that its earlier
  records call for.
- `NoDeadlock`: of any sessions that wait for rows, one waits for none of the others, so the
  server never aborts a function of the pipeline to break a circle of waits.
- `CallsReturn`, `AppendsReturn`, `CallsEnd`: liveness.

## 5. Bounds, and why they are enough

- `tst_pipeline`: one fund with receipts 2, one allocation authorized for 3, two
  distributions, amounts 1 and 2, three participants (the least that lets segregation
  succeed and fail), two idempotency keys. Both the authorized amount and the fund can
  refuse an approval, a requested amount can be cut, and requests can compete.
  Participants and keys are symmetric: every participant has all roles, so nothing tells
  them apart. The refinement checked has no fairness, which keeps symmetry sound.
- `tst_transactions`: two sessions, since every conflict the locks prevent is between two
  holders of one row; two distributions, one allocation of 1, so that one approval must
  fail; two officers for the three duties and one key, as roles and retries are the subject of
  `tst_pipeline`. There is no symmetry in it, as it checks liveness; a cycle of waits would need
  two calls that share two rows, so two calls on d1, and every function may be called on d1:
  that is why two sessions are enough for `NoDeadlock` here; section 7 proves it for any number.
- `tst_write_skew`: receipts of 1 under two allocations of 1 each.
- `tst_audit`: two sessions, two entities, a clock up to 2 and up to two events per
  entity, so that events of the same and of different instants follow each other. Beyond
  `MaxEvents` no call is made and the clock stops at `MaxClock`: the run ends there, and deadlock is
  not checked in it. `tst_audit_zones` needs one event and two settings.
- `sc_ledger`: account a1 starts with 2; transfers of 2 and 1 out of it compete, one of 1
  comes back, one names a1 twice. `MaxSequence` bounds lost connections, which alone would
  draw numbers for ever.
- `ibg_settlement`: one payment, observation and reconciliation, two actors, a requirement
  of up to two approvals, one sum, and a route that is promoted and suspended. In it the two sums of
  `FinalIsEndorsed` cannot differ, and no match disagrees: the theorems of section 7 cover
  differing sums, disagreeing matches, returned observations and several rows. Nor is the
  requirement raised or the clearance changed in it; an instance with both has no end within
  reach, so `AdvancedIsApproved` is left to the proof, which has every requirement and clearance.
- `heartbeat_assertions`: one credential and one device, which any number of writes may change
  between the steps of either INSERT; times 0 to 2, so that a device's evidence may end before, at and
  after an assertion's time of issue; two assertions, after which no INSERT begins.
- `case_file_verifier`: two ids, two organizations, the execution record and its verification. The
  run ends when both ids are used, so deadlock is not checked in it.
- `settlement_governance`: one of each row, two actors, either of whom may be requester or
  approver, and quotas 1 and 2, so that a quota can be raised after it was met and lowered before it
  is. Of the statuses two are kept that need every ground, with the move between them; an
  instruction may be inserted in either. Ended instructions and rejections are not in it:
  `settlement_rejection` has three actors and all decisions and outcomes of a request, and no
  instruction, and the proofs have them all.
- `EcologyGateway` has no run: its theorems cover every instance, without an assumption that an instance
  could fail other than `GatewayParameters`, which is a hypothesis of each.

State counts found by TLC:

| Run | Distinct states | Depth |
|---|---|---|
| `tst_pipeline` | 621 312 | 20 |
| `tst_transactions` | 110 080 | 44 |
| `tst_audit` | 34 589 | 33 |
| `sc_ledger` | 59 280 | 42 |
| `ibg_settlement` | 268 162 | 27 |
| `heartbeat_assertions` | 27 388 | 15 |
| `settlement_governance` | 592 164 | 30 |

## 6. Fairness

Only `tst_transactions`, `tst_audit` and `sc_ledger` assume any. Each session's next
statement has strong fairness: a server executes every statement it was sent, and a
contended lock is handed to its waiters in the order they queued, so a waiter that could
be served again and again is served. A commit has weak fairness for the same reason. In the
Source Coin ledger `DeadlockAbort` has weak fairness: PostgreSQL looks for a cycle when a
wait exceeds `deadlock_timeout`, and the cycle stays until it does. Nothing is assumed of
clients: they need not call, retry or stop, and connections need not be lost.

## 7. Proofs

The theorems hold for every value of the constants that satisfies the ASSUMEs of the
module: any number of rows, participants, sessions, amounts and status moves.

- **`TstDistributionProofs`.** `TypeCorrect`; `PipelineStaysConsistent` and
  `DutiesStaySegregated` from `RowsInv`, which conjoins the four parts
  (`ApprovalRecorded`, `PaymentAgrees`, `ReconciliationAgrees`, `Segregated`) for every
  distribution. They need each other: that the executor is not the approver survives only
  because a distribution with a payment has a status from which no approval is possible,
  and that is `PaymentAgrees`. `PipelineInv` adds
  `Totals`, that the two running totals are the sums over the rows: an approval adds one
  row to one sum and its amount to the total, and the consistency of the rows says that it was
  not in the sum before. From it follow `CommitmentsStayApprovals`,
  `DisbursementsStayReconciliations`, `SettledStaysBookable` (a payment that is not yet
  booked is one of the commitments, and none of the disbursements) and `PipelineKeepsLifecycle`, the
  refinement of `TstLifecycle`: the guard on the total is the abstract guard on the sum.
  `FundsStaySolvent` has the hypothesis `MovesFinal`: no status move revives a closed
  allocation, starts one that was never live, or takes a receipt back without reversing it. Without it
  closing and reopening an allocation would commit the same receipts twice.
  `PipelineKeepsHistory` adds what no step may do: an allocation's totals stay within each other and
  within what was authorized, and who asked for, approved, executed and reconciled how much is
  never rewritten (`HistoryKept`, a step property of every function and table write).
- **`TstDistributionProofs`, on `TstTransactions`.** `TransactionsInv` adds to `PipelineInv` that a session has done
  statements of its own call (`SessionsOK`), that no row is locked twice (`LocksAlone`) and that the
  tests of the locked rows hold (`TestsPassed`, the same as `LockedTestsHold`). A commit writes
  rows that its session has locked (`CommitWritesLocked`); the one exception is the payment that is
  inserted, and a session that has a payment's row locked found one there. So no test of
  another session is disturbed (`SessionsTypeCorrect`, `LocksKeepTests`), and a commit is a step
  `LockedNext`: the function with the tests of its locked rows, without what it read
  unlocked. The lemmas on the atomic functions are about that step, and so carry over:
  `SessionsKeepPipeline`, `SessionsKeepLifecycle`, `SessionsKeepHistory`.
  `SessionsNeverDeadlock` ranks the rows: every function locks payment before
  distribution before allocation or key (`RowsAscend`), so each wait in a chain of waits is for
  a row of a later kind (`WaitsAscend`), and there are three kinds.
- **`TstDistributionProofs`, on what is read without a lock.** The balance of the fund is not a locked
  row, and `tst_write_skew` shows what becomes of it. Four theorems say how far that goes.
  `FreshReadsSerialize`: if the unlocked reads of a call (eligibility, destination, key, balance)
  are still so when it commits, the interleaved functions implement the atomic pipeline, step by step.
  `SkewAloneOvercommits`: as long as no two approvals have both read the balance of one fund
  before either commits (`BalancesReadApart`), every interleaving keeps `FundSolvent`; the
  invariant is that what a session has read still covers its approval (`BalancesCover`).
  `LoneAllocationsStaySolvent`: where every fund has one allocation, the lock on its row is a
  lock on the fund and the hypothesis holds by itself. `EachAllocationStaysFunded`: whatever goes stale, no
  single allocation outgrows the receipts of its fund, so the skew overcommits only by
  adding several. The last three assume `MovesFinal`, as `FundsStaySolvent` does.
- **`TstAuditProofs`.** `IInv` is types, `LastExists` (each non-empty chain has a last
  event) and `TailCurrent`. The lock is held by exactly the call that passed it, so no
  other append to the entity commits between a read of the tail and the commit.
  `AuditTypeCorrect`, `TailStaysCurrent` follow, and `AppendsNeverCollide`: the UNIQUE
  constraint behind the lock never meets a second row of its key. `ChainStaysLinked`: in whatever zones
  the sessions write, every event names the digest of the event before it. `ChainAlwaysVerifies`
  adds `ZonesAgree`, that the sessions share a time zone setting, and the run `tst_audit_zones`
  shows it is needed: a zone is the only way for a chain to be refused. `TrailIsLog` is the refinement of `AuditLog`: a chain is numbered from 1 without a
  gap (`Numbered`), so the tail has the number of its events and a commit adds one entry at
  the end (`LogExtends`).
- **`SourceCoinProofs`.** `Inv` is the columns' types, the sessions (a call holds the rows
  of the statements it passed, no row is held twice), `TestsHold` and `SettledOnce`. The
  argument: every writer of a row that a call tested holds that row's lock, and the call
  has it. `LocksStayExclusive`, `TestsKeepHolding`, `RetriesSettleOnce`, `FreezesHold`.
  `MoneyInv` adds that the events are finitely many and each is numbered below the next
  number (`Booked`), that a call past `Funded` is still covered and, once it has its own number, that
  every event that moves its source has a lower one (`Covered`), and the two sums. A balance that
  covers one transfer keeps doing so because every other event on that account waits for its
  row. So although numbers may be handed out against the order of the commits, on
  one account they agree with it, and a replay meets the balance the call tested. Hence
  `ReplaysStayCovered`, `SupplyStays`, and `SessionsKeepLedger`, the refinement of `CoinLedger`.
  `OrderedLocksNeverCycle` tells where the server's deadlock aborts come from: under `LocksOrdered`
  (each payment locks first the account that the scan of a status update meets first) what a session
  holds comes before what it waits for (`Ascends`, `HeldBefore`), and a circle of waits has no
  first row. The instance of `sc_ledger` has a crossing payment, does not satisfy it, and aborts calls.
- **`FiniteSums`.** What the totals and balances rest on: the sum of nothing is 0, one element more
  adds its value, a change at one element changes the sum by as much, a part of natural
  numbers adds up to no more than the whole. The library defines the sum by a recursion over an
  element chosen from the set, and its induction theorems take an operator that
  no installed prover can instantiate; the lemmas argue instead from a smallest
  counterexample, which exists because the strict subsets of a finite set are well-founded.
- **`IbgSettlementProofs`.** `IInv` is types, `Tables` (finite, and references to rows
  that exist), `PaymentsTested`, `Supported`, `Endorsed`. Each of the last three speaks of
  the committed row and of the new version of an open UPDATE; it survives the other
  tables' changes because approvals are only added and no move leads out of COMPLETED. Hence
  `SettlementTypeCorrect`, `AdvancedStaysApproved`, `ReconciledStaysCompleted`,
  `FinalStaysEndorsed`, and the refinement `TriggersKeepPromise`. Three more say exactly what the
  count of two endorsements and the unlocked sums are worth. `FinalStaysTwofold`: behind a FINAL
  settlement there are two actors, or one who endorsed it in both checker roles, because a role is
  endorsed once by each actor. `SeparateRolesCheckTwice`: if no role were endorsed twice, the count
  would be the approval of both checkers, which `ibg_checkers` finds missing. `KeptSumsAgree`: if
  completed instructions keep their sum, what is reconciled or final names it in every later state.
- **`HeartbeatProofs`.** `HeartbeatInv` is the tables' types, `InsertsSound` (an open INSERT
  has among its grounds what its triggers found, and what holds now) and `AssertionsSound` (an
  assertion has both grounds). The second is what makes a trigger's answer last: the credential may be
  suspended a moment later, but that it was active while the INSERT ran stays so.
  `HeartbeatTypeCorrect` and `AssertionsRest` follow.
- **`EcologyGatewayProofs`.** The invariant is `StoreFollowsTrail`: the keys in memory are those of
  the accepted records, and a principal's count is the number of records accepted for it. So what
  `Rejection` finds in the store is what the trail shows, and since an appended record changes
  nothing of what was before the others (`PastStays`), earlier decisions stay right.
  `GatewayTypeCorrect`, `TrailDecides`, `StoreIsOfTrail`.
- **`SettlementGovernanceProofs`.** `GovernanceInv` is types, `VotesApart` (no deciding vote, inserted
  or being inserted, is by an actor that alone was requester), `RequestsFiled` (who is requester is
  on record), `RequestsGranted` (a request that is APPROVED was granted, and it has the approvals of
  every quota it was granted on, the one being decided included), `SeenGranted` (so was every
  request that an open write saw as a ground), `AdvancedGranted`, `WritesBacked` (the grounds read
  so far are among those seen) and `WritesFollow` (an open write is a legal transition of the
  committed row, which its lock keeps in place). They need each other: a request may leave APPROVED, or get
  another quota, between the read and the commit, and only what the write saw and the
  histories remember that it was approved and on what; that its approvals are still there
  follows from votes being append-only. `TypeCorrect`, `AdvancedStaysEndorsed`, and the
  refinement `GovernanceKeepsPromise`. `SkewAloneOpposes` is about the violated `ApprovedIsUnopposed`: it holds
  if no rejection is being inserted while its request's approval is decided (`RejectionsApart`). The
  invariant `Unopposed` also needs that nothing opens a rejection of an approved request.

Assumptions on constants are the columns' types and references (`ReferencesAssumption`,
`RowsAssumption`, `AmountsAssumption`, `MovesAssumption`, `AuditAssumption`, `LedgerAssumption`,
`CallsAssumption`, `SettlementAssumption`, `HeartbeatAssumption`,
`GovernanceAssumption`, and the hypothesis `GatewayParameters`), and that the tables summed over are finite. The one with content is that
`TransactionMoves` neither reaches nor leaves SETTLED: only the function settles.

The theorems with a hypothesis about behaviours (`SkewAloneOvercommits`, `FreshReadsSerialize`,
`SeparateRolesCheckTwice`, `KeptSumsAgree`, `SkewAloneOpposes`) do not say that the code meets it: the
violating runs show that it does not. They say that nothing else is wrong, and what a lock or a constraint
there would buy. Each hypothesis leaves the interesting behaviours in: calls still interleave, fail
and retry, and only the overlap, the repeated role or the rewriting it names is ruled out.

Only model-checked: all liveness (`CallsReturn`, `AppendsReturn`, `CallsEnd`), because the provers
have no rule for fairness. `FundSolvent` is proved under `MovesFinal`, which the instance of
`tst_pipeline` satisfies. Only proved: `AdvancedIsApproved`, all of `EcologyGateway`, and the theorems
above whose statement is no property of a run. The case files have a run and no theorem: what one would
say of them, that a record satisfies its own test, is what its guard says.

## 8. Findings and observations

Five runs disagree with a line of the repository; `PROJECT.json` quotes each.

1. `tst_write_skew`. The capacity trigger sums the other allocations of a fund without a
   lock. Two approvals at once each see the balance without the other, and the fund ends
   overcommitted, which the trigger's own error message rules out. It is the only way there
   (`SkewAloneOvercommits`), and it takes two allocations of one fund (`LoneAllocationsStaySolvent`).
2. `tst_audit_zones`. The digest covers `occurred_at::text`, which depends on the
   session's time zone, so a chain written under one setting fails under another. Its links hold all the
   same (`ChainStaysLinked`): what fails is the recomputation of a digest.
3. `ibg_checkers`. Finality counts two approvals over both checker roles together, so
   two of one role suffice; the document asks for both. A constraint of one
   endorsement per role would do (`SeparateRolesCheckTwice`).
4. `settlement_rejection`. The trigger on votes and the trigger on decisions each read what
   the other transaction has not committed, so a REJECT and the approval it should prevent
   both commit. Nothing else leaves an examined request so (`SkewAloneOpposes`).
5. `case_file_verifier`. The verification of an execution compares its verifier with the
   executor that the verification itself names, so an organization verifies what it executed
   by naming another; a test's name asks for an independent verifier.

Observations made on the way; those that bite are among the hazards:

- Closing an allocation that paid out returns its commitment to the fund, as only live
  allocations are summed; hence the condition in `FundSolvent`.
- An EXCEPTION leaves a distribution on HOLD for ever and its commitment booked.
- A hold imposed between the trigger and the commit of an UPDATE does not stop it.
- A match may be rejected or moved, and an exception opened, after FINAL.
- `amount` and `asset_code` of an instruction may be rewritten after approval, and no
  trigger compares them with what was approved or settled.
- A NULL `institution_id` defeats the unique index on external observations.
- `occurred_at` may run against `sequence_no`, as the clock is read before the lock.
- `complete_reconciliation` refuses the executor only; the approver or the initiator may
  reconcile.
- The function that executes Source Coin transactions never reads the emergency state, so an
  authorized transaction settles under PAUSED, which the threat model says blocks execution
  (`setc/source_coin/THREAT_MODEL.md:45`).
- A settlement request inserted as APPROVED meets no trigger. `required_approvals` may be raised beyond
  the approvals of a request that is APPROVED, and `requested_by_actor` rewritten to one whose vote is in: the
  trigger counts when the status turns and compares no requester.
- An instruction that is ACCEPTED may be RESTRICTED, APPROVED and SUBMITTED again.
- The organization a proceeding is about may make the determination in it.
- A HeartBeat assertion may be dated before its device was evaluated: the trigger compares the end
  of the evidence with `issued_at`, and not its beginning.
- Each policy decision of HeartBeat is made from a context that its caller fills in; nothing keeps
  two decisions from being made on one assertion, and the contract of the broker has such a pair.
- The Ecology gateway tests the limit before the key: a principal at its limit that retries an accepted request
  learns that it is limited, not that the request went through. A key used by one principal
  is a replay for all. Keys and counts are lost with the process.
- A regenerative allocation rounds each product, each quotient and the sum it tests, so
  lines of 1/6, 1/6 and 2/3 come to more than what is available and pass; and the cap of a category
  is applied to each line, so two candidates of one category may get twice the cap.

## 9. Not modelled

- Parts listed as not modelled in `PROJECT.json`, each with its reason.
- Of the modelled parts: `calculate_tithe` (a pure SELECT); entities and currencies, of
  which each instance has one; participants that are not ACTIVE; evidence documents and
  their identity trigger (a check of one row against its older version); the treasury, compliance,
  incentive and release tables of Source Coin; `payment_state_history` (written, never
  read); columns no trigger or function reads; deletions by the service role, which no
  function performs.
- Direct writes of the service role to columns that functions manage, although its grants allow
  them: a distribution's status, a payment to FAILED, RETURNED or REVERSED, a reconciliation to REOPENED, the
  running totals. The properties say what the functions keep among themselves, and
  would say nothing of a table written past them.
- The Python types of HeartBeat as a chain: no code composes them, and the order in which a
  broker would is a document's. Of its database, the event stream, the audit attestations
  and the continuity table; of settlement governance, the
  deletion of requests, cases and instructions, and the history and outbox tables of `014`.
- Overflow of bigint and numeric columns: a call that overflows raises and changes nothing.
- Whether a digest tells rows apart: nothing is assumed of it, and nothing that would rest on it is claimed.
- Row-level security and grants: only the service role reaches the functions.

## 10. Running it

In this directory, `tlc -workers 2 -config tst_pipeline.cfg MCTstDistribution` checks a
run (module and file of each run are in `PROJECT.json`), and `tlapm TstAuditProofs.tla`
checks the proofs of a module.
