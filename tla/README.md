# EDUstell: verification project

EDUstell lets a parent open a savings vault for a child, lets family and friends
contribute to it, and pays schools from it. Donors also fund scholarship pools
that families apply to. The service is a Rust workspace: `apps/api` (axum
routes), `crates/application` (use cases), `crates/domain` (rules),
`crates/infrastructure` (Postgres through sqlx) and `crates/blockchain`. All
money is an `i64` of minor units in `BIGINT` columns with `CHECK (.. >= 0)`.

This directory holds TLA+ modules that model how money and statuses move, TLC
configurations that check them on small instances, and proofs for TLAPS that
hold for every instance. What the code is exposed to, line by line, is listed
under `hazards` in `PROJECT.json`; which lines each definition stands for is
listed there under `map`.

## How a request runs, and why that is hard

Every use case that changes money works in two parts:

1. It reads committed rows through the connection pool, **without a transaction
   and without locks**, and validates what it read (role, status transition,
   available funds).
2. It calls one workflow method of `persistence/repos.rs`, which opens a
   transaction, locks rows with `SELECT .. FOR UPDATE`, and writes.

Between the two parts any number of other requests commit, and the request may
be lost: the client disconnects or the process restarts. What the second part
re-checks under its locks is much less than what the first part validated:
`settle_with_audit` and `transition_with_audit` compare the locked status with
the *target* status only, and the scholarship workflows compare nothing at all.
So the questions a unit test hardly reaches are: which promises survive any
interleaving, which need a discipline of the people who use the service, and
which discipline exactly.

Authentication, KYC reviews, savings records, on-chain submissions and the
dispatch of notifications use no transaction at all: each statement (or call of
the network) takes effect on its own, and a task may be lost between any two.

## Inventory

| Component | State | Operations | Interacts with | Hard behaviour | Modelled by |
|---|---|---|---|---|---|
| Contributions (`application/contributions.rs`, `domain/contributions.rs`) | `contributions`, `vault_ledger_entries`, `savings_vaults.total_contributed_minor`, `audit_logs` | record intent under an idempotency key; confirm, fail, reverse | shares the vault row with payouts; notifies after commit | stale status, racing settlements of one vault, retried intents, partial roll-back, overflow | `Contributions`, `ContributionBook` |
| Payouts (`application/payouts.rs`, `domain/payouts.rs`) | `payout_requests`, `locked_amount_minor`, `total_disbursed_minor`, `audit_logs` | create under a key; under review, approve, reject, processing, complete, fail | reads milestones, schools and the vault; notifies after commit | stale status, stale funds, releasing more than is reserved, retried creations | `Payouts`, `PayoutBook` |
| Vault balance (`update_vault_totals`, `update_vault_locked_and_disbursed`, the `find_.._for_update` reads, `db/pool.rs`) | one `savings_vaults` row, its lock, the connection pool | locked and rewritten by both components above | both | each side rewrites its columns from what it read; lock order, dying lock holders, an exhausted pool | `VaultRows`, `VaultMoney`, `VaultLocks` |
| Scholarship pools (`application/scholarships.rs`, `domain/scholarships.rs`) | `scholarship_pools`, `donor_contributions`, `scholarship_applications`, `scholarship_awards` | create, fund, apply, approve, reject, disburse, revoke | notifies after commit | absolute balance computed from an unlocked read, repeated revocation, double decisions | `ScholarshipPools` |
| Authentication sessions (`application/auth.rs`, `infrastructure/auth`) | `users`, `refresh_tokens`, `email_verification_tokens` | register, login, refresh, logout, begin and finish email verification | every route through the access token, which is not checked against a session | concurrent refresh, several statements without a transaction | `AuthSessions` |
| On-chain contributions (`application/blockchain.rs`, `crates/blockchain`) | `blockchain_transaction_records`, `external_references`, `wallet_accounts` | provision a wallet, submit, reconcile | the Stellar gateway; settles contributions; no route calls it | sent before it is recorded, ambiguous errors, overlapping reconciliations | `OnchainContributions` |
| Notifications (`application/notifications.rs` and the routes that dispatch) | `notifications`, `notification_preferences` | dispatch, list, mark read, change preferences | called by routes after the commit | lost or repeated around the commit, preferences changed meanwhile | `Notifications` |
| Schools (`application/schools.rs`) | `schools.verification_status` | create, search, verify | payouts and credentials read the status | status withdrawn while it is relied on | `Records`; `Payouts` |
| KYC (`application/kyc.rs`), savings records (`application/savings.rs`) | `kyc_profiles`; `savings_plans`, `milestones`, `vault_contributors` | review; create plan, milestone, contributor | audit log; no route calls them | read, write and audit are separate calls | `Records` |
| Credentials (`application/credentials.rs`) | `achievement_credentials` | issue, get, list | schools, child profiles | a school checked before the insert; lists put together from several statements | `Records` |
| Audit log (`application/audit.rs`) | `audit_logs` | append, list, search | every component above | entries without their write, writes without their entry, order of entries | with each component |
| Rate limiter (`middleware/rate_limit.rs`) | one counter window per client | count, refuse, reset | in front of the auth routes | none: one critical section per request | not modelled |
| HTTP layer, TypeScript helper | none | - | - | - | not modelled |

What makes each component correct:

- *Contributions*: no settlement of a vault is lost to another; the ledger
  replays to the balance; status, ledger and audit rows stand or fall together;
  one contribution per key, and every answer names it; statuses move along
  `validate_transition`.
- *Payouts*: what is reserved or paid was approved, what is paid was completed;
  a vault's columns are the sums of its payouts by status; a vault is never
  overdrawn; one payout per key.
- *Vault balance*: neither side overwrites the other; what is spent once came in.
- *Pools*: every donated unit is available or awarded; an application is decided
  once and its status is what its award says; a disbursed award is not revoked.
- *Sessions*: a login has one live session however it is refreshed, a login that
  is over stays over, no account is verified without a used-up token.
- *Locks*: the transactions behave as if they were atomic, and each one ends.
- *On-chain*: the record never says more than the network and the contribution
  do; nothing is on the network that neither a record nor a task nor a client left
  unsure knows of; a client that is told its submission was refused may believe it.
- *Notifications*: nothing is announced that did not happen; a channel that
  stays off is not used.
- *Records*: an audit trail ends in the state of its row; a credential was issued
  for a school that had been verified; a list shows only what its reader may get,
  and all of it that was there when the request came in, up to the cut of the
  platform admin's list.

## Modules

| Module | What it is |
|---|---|
| `VaultRows` | the balance columns of a `savings_vaults` row and the two SQL helpers that rewrite them |
| `Contributions` | intents and settlements: `BeginIntent`/`InsertIntent`/`InsertConflict`/`ReplayIntent`, `BeginSettle`, `SettleConfirmed`/`SettleReversed`/`SettleFailed`/`SettleRolledBack`, `Lost` |
| `ContributionBook` | the abstract promise: one contribution per key, settled in one step together with the vault total |
| `Payouts` | creation and the six decisions: `BeginCreate`/`InsertRequest`/`InsertConflict`, `BeginReview`, `CheckReview`, `DecideApproved`/`DecideCompleted`/`DecideFailed`/`DecideOther`/`DecideRolledBack`, `VerifySchool`, `Lost` |
| `PayoutBook` | the abstract promise: one payout per key, decided in one step that also holds, pays or lets go the whole amount |
| `VaultMoney` | `Contributions` and `Payouts` instantiated on the same `vault` variable |
| `VaultLocks` | `VaultMoney` with its transactions taken apart: `OpenTx`, `LockRow`, `LockVault`, `CommitSettlement`/`CommitDecision`/`RollBack`, `Lost`, `Abort`; the pool of connections and the row locks |
| `ScholarshipPools` | pools, donations, applications and awards: `BeginApprove`/`BeginReject`/`BeginDisburse`/`BeginRevoke`, `ReadPool`, `CommitDecision`/`CommitMove`, `FundPool`, `Apply`, `CreatePool`, `Lost` |
| `AuthSessions` | accounts, refresh sessions and verification tokens, one action per statement: `BeginRegister`/`CreateUser`/`EmailTaken`/`RecordRegistered`, `Login`, `IssueSession`, `BeginRefresh`/`RevokeOld`/`LoadUser`, `Logout`, `BeginMail`/`StoreMail`, `BeginVerify`/`ConsumeMail`/`MarkVerified`, `Lost`, expiry, `SetStatus` (external) |
| `OnchainContributions` | one action per call: `BeginSubmit`/`Send`/`SendFails`/`StoreRecord`/`RecordConflict`, `AttachReference`/`AuditReference`, `Provision`/`StoreWallet`, `BeginReconcile`/`Lookup`/`ReadSettlement`/`SettlementRefused`/`CommitSettlement`/`UpdateRecord`, `BeginAdmin`; the network as `Decide` (external) |
| `Notifications` | `Decide`/`Commit`/`Repeat`/`MoveSilently` for what the routes do, then `ReadPreference`/`StoreNotification`/`SendEmail`, `MarkRead`, `BeginUpsert`/`Upsert`, `DispatchLost`. Its tasks (`doing`), empty row and specification (`NoticeSpec`) have names of their own because `AccountsProofs` extends it beside `AuthSessions` |
| `Records` | `CreateSchool`/`BeginVerify`/`Verify`; `BeginReview`/`Upsert`/`RecordAudit`; `CreatePlan`, `CreateMilestone`, `AddContributor` with `InsertPlan`, `InsertMilestone`, `InsertContributor`, `InsertRefused`; `BeginIssue`/`StoreCredential`, `BeginList`/`RunQuery`/`AnswerList` |
| `MCContributions`, `MCPayouts`, `MCVaultMoney`, `MCVaultLocks`, `MCScholarshipPools`, `MCAuthSessions`, `MCOnchainContributions`, `MCNotifications`, `MCRecords` | small instances for TLC |
| `ContributionsProofs`, `PayoutsProofs`, `VaultProofs`, `AccountsProofs`, `ScholarshipPoolsProofs`, `OnchainContributionsProofs`, `RecordsProofs` | theorems and proofs (`VaultProofs` is about `VaultMoney` and `VaultLocks`, `AccountsProofs` about `AuthSessions` and `Notifications`: who may act for an account, and what it is told) |
| `FiniteSums` | lemmas about sums over finite sets, for the theorems about money |

State corresponds to tables: `contribution`, `payout`, `pool`, `award` and so on
are functions from ids to rows (`NoRow` before the insert), `ledger` and `audit`
are the append-only tables as sequences per vault or per row, reduced to the
columns the properties read. `req[r]` is what request task `r` remembers of its
reads while it has not yet run its transaction; it is what becomes stale.

Actions correspond to code as follows. A `Begin..` action is the use case up to
its last validation; `CheckReview` and `ReadPool` are later unlocked reads of
the same use case, separate because other requests commit in between. The
`Settle..`, `Decide..`, `Insert..` and `Commit..` actions are one transaction
each, with every write it makes (row, vault, ledger, audit); `VaultLocks` shows
that this is what the statements inside amount to. `..RolledBack` and
`InsertConflict` are its early returns and refused constraints, `Lost` a task
that dies before its transaction. A request whose validation fails answers with
an error and changes nothing, so it is no step; in the two modules where a later
read can fail (`CheckReview`, `ReadPool`) the task ends by `Lost`. Overflow is
modelled by `Fits`: a sum above `MaxMinor` either panics or wraps to a negative
number that the column's `CHECK` refuses, and either way the transaction is
rolled back.

The definitions commented *a mistake the runs must notice* are variants of the
definition that follows them (a dropped check, a stale value written); replacing
the definition by its variant must violate the property named under `mutants`
in `PROJECT.json`. They are not part of any specification.

## Specifications: what the code does, and which discipline it needs

`Spec` is the code with no assumption on who calls it when. Several promises do
not survive it, so each module also states the weakest discipline we found under
which they hold:

- `Contributions!DisciplinedSpec`: no two tasks settle one contribution at once.
- `Payouts!ReviewedSpec`: no two tasks review one payout at once.
- `Payouts!SerialSpec` (`OneApproverPerVault`): no two approvals of one vault are
  between their check of the funds and their commit. `VaultMoney!SerialSpec` asks
  for all three.
- `ScholarshipPools`: `OneAtATime`, tasks and donations of one pool do not
  overlap, and `NoRepeats`, nothing is revoked twice. Here the discipline is not a
  specification of its own: the history variable `careful` says whether every
  step so far kept it, `Spec` allows every step, and the properties that need the
  discipline are stated of the states in which `careful` still holds. What
  happens without it is in the same state space: a donation that commits between
  a decision's read and its write is overwritten, and revoking an award twice
  returns its amount twice.
- `Records`: `disturbed` names the subjects whose reviews overlapped or whose
  audit entry was lost; their trails may end elsewhere than their rows.

The disciplines restrict which tasks overlap, never what a task does. A property that
needs one says nothing of the overlaps it excludes: the notes under `hazards` in
`PROJECT.json` say which these are, and which property covers the hazard all the same.

`OnchainContributions` keeps two histories of its own: `sent`, what has gone to the
network, and `unsure`, the contributions and keys whose client was answered neither
with a record nor with a refusal, or not at all. The transaction is sent before its
record exists, so a lost task, an ambiguous error or the UNIQUE constraint leaves it
on the network without a record; `SentIsKnown` says that this never happens behind
the back of a client, in particular not when a second key loses the race for the one
record of a contribution.

## Runs

| Run | Specification and instance | Shows |
|---|---|---|
| `contributions_race` | `Spec`: 1 vault, 2 contributions, 2 keys, 3 tasks, bodies that each check refuses | types (no balance leaves 0..`MaxMinor`), the ledger replays to the balance, status, ledger and audit rows stand or fall together, repeated intents get one answer |
| `contributions_disciplined` | `DisciplinedSpec`: 2 vaults, 2 contributions, 3 tasks, totals that overflow | totals are the sums of the confirmed contributions, audit rows chain, statuses move legally, the tasks implement `ContributionBook` |
| `payouts_race` | `Spec` up to `MaxDecisions` audit rows per payout: 1 vault that can pay one of 2 payouts, 2 tasks | no column goes negative, money follows the audited decisions, one payout per key |
| `payouts_reviewed` | `ReviewedSpec`: 2 vaults, 2 payouts, bodies that each check refuses | columns are sums by status, audit rows chain, the tasks implement `PayoutBook` (and so move statuses legally) |
| `payouts_overdrawn` | `ReviewedSpec`; violation | two overlapping approvals reserve more than the vault has |
| `vault_money` | `SerialSpec`: 2 contributions and 2 payouts of one vault, 1 settling and 2 deciding tasks | neither side overwrites the other's columns, versions count the writes, what is spent was once confirmed |
| `vault_locks` | `LockSpec`: the vault of `vault_money` with one contribution, one payout, three tasks and two connections; no symmetry | the transactions, statement by statement and with tasks dying while they hold locks, implement `VaultMoney`; every transaction ends and every task that needs one is answered |
| `pools` | `Spec`: 2 pools, 2 applications, 2 donations, 2 tasks | stored balances stay in range and an application's status is its last award's although reads are stale; while `careful`, every donated unit is available or awarded, one decision per application, disbursed awards stay |
| `auth_sessions` | `Spec`: 1 account, 3 sessions, 1 token, 2 tasks | a login has one live session unless two refreshes of one session overlapped; once over it stays over; a verified account used up a token |
| `onchain` | `Spec`: 1 contribution, 2 keys, 1 wallet, 2 tasks, every provider error | records agree with the network and with the contribution's history, references name rows that exist, what was sent is known to a record, a task or a client left unsure, an answer that denies the submission is true |
| `notifications` | `Spec`: 1 parent with a contribution and a payout, 2 preferences, 1 notification, 2 tasks | nothing is announced before its commit or to anyone else, channels that stay off are not used, racing first upserts leave one row |
| `records` | `Spec`: 1 school, 1 KYC profile, 2 savings records, 2 credentials, 4 users, 2 tasks | trails end in the state of their row unless disturbed, credentials are issued for schools that were verified, lists agree with what may be read |

`payouts_overdrawn` expects a violation: it checks a sentence of the tests and
documents (quoted under `findings`) that the code does not keep.

### Bounds

Two rows of a kind are enough for what the properties relate: settlements or
decisions of *different* rows that share a balance, and of the *same* row.
Three tasks (two where the state space demands it) allow two stale tasks and one
that makes them stale; every race here is between a read and one commit.
`MaxMinor` is chosen so that the amounts of one instance overflow it and so that
funds suffice for one payout and not for two. Amounts are 1 and 2 (1 in `pools`), and
0 or a negative one where the code must refuse it (in `pools` two donations fill a
pool, and the second overflows it when an award of the first was revoked twice). Ids
are the only bound on rows: when they are used up, nothing more is inserted. `MaxDecisions` (in `MCPayouts`)
bounds the audit rows of a payout, because stale decisions can drive a payout in
circles; 6 covers one full life (created, reviewed, approved, processing,
completed) with a stale decision in it. Keys, ids and tasks are interchangeable,
hence the symmetry sets; the properties checked under symmetry are safety
properties, and `vault_locks`, which checks a liveness property, declares none.
Its two connections are fewer than its three tasks, so that the pool is exhausted
by tasks that hold locks, by a task that waits for one and by abandoned
transactions; the order of the locks and the one connection per transaction are
what matters, not how many connections there are.

In `records`, `part` picks at the start which part of the program is at work
(schools with credentials, KYC reviews, savings records): they share no rows, so
nothing is lost by not interleaving them. `MaxStamps` = 3 audit entries for one
subject let a second and a third review overlap one that is under way. `Recent` =
1 is less than the two credentials, so that the cut of the admin's list happens.

Deadlock is checked except in `pools` and `records`, where ids, keys and stamps
are used up and nothing is left to do.

### Fairness

Only `VaultLocks` assumes any: `SF_lockVars(Progress(t))` for every task `t`.
`Progress(t)` is what the connection pool and the database do for a task that has
validated its request: give it a connection, give it a row lock, execute its
commit or rollback, roll back the transaction it abandoned. sqlx hands out
connections and PostgreSQL hands out row locks in the order in which they were
asked for, so a task is not passed over for ever although the connection or the
lock it needs is free only from time to time: that is strong fairness of the
task's own progress. Nothing is assumed of clients (no request has to arrive, no
`Begin..` has to happen) nor of failures (`Lost` may happen always or never).

Everything else is safety: a request may be lost at any point and nothing in the
code retries it, so no other operation has to finish. In particular nothing makes
a reconciliation or a notification happen.

### Refinement

`ImplementsBook`: `Contributions` under its discipline implements
`ContributionBook`, and `Payouts` under its own implements `PayoutBook`. A key is
mapped to the row stored under it (`Shown`), a vault to its columns; tasks and audit
rows are hidden. `PayoutBook` has no failure that releases nothing, so the
refinement also says that this branch of `transition_with_audit` is not taken.
`ImplementsVaultMoney`: `VaultLocks` implements `VaultMoney`
with the identity mapping, the open transactions being hidden; since a
transaction's writes become visible at its commit, the commit is the step that
maps to the atomic transaction and everything before it stutters. It fails when
one locking read loses its `FOR UPDATE` (the mutant `ReadRow`).

## Proofs

The theorems hold for any constants that satisfy the assumptions of the modules,
in particular for every number of rows and of concurrent tasks:

| Assumption | What it says |
|---|---|
| `MaxMinorAssumption` | the largest `i64` is positive |
| `ContributionsAssumption`, `PayoutsAssumption`, `VaultMoneyAssumption`, `ScholarshipPoolsAssumption` | bodies name existing vaults, milestones, schools or pools, amounts are `i64` (of either sign) |
| `RowsAssumption`, the last conjuncts of the ones above, `NoneAssumption` | `NoRow` and `None` are no rows, also not as the books show them; the pools' tasks are finitely many |
| `VaultLocksAssumption` | there is a connection, and a task or an id is of one side only |
| `OnchainAssumption` | wallets are not contributions, `None` is no wallet, hash or record; *not* that different keys have different hashes |
| `RecordsAssumption` | users have a role, children and vaults an owner, subjects of different kinds differ, there are finitely many credentials |

TLC evaluates each of them on the instance of a run. The theorems about
`Notifications` assume nothing of its constants.

| Theorem | Statement |
|---|---|
| `ContributionsProofs!TypeCorrect` | `Spec => []TypeOK` |
| `ContributionsProofs!LedgerExact` | `Spec => []LedgerReplaysBalance` |
| `ContributionsProofs!KeysAreIdempotent` | `Spec => []IdempotentReplies` |
| `ContributionsProofs!StatusIsBooked` | `Spec => []StatusMatchesLedger` |
| `ContributionsProofs!MovesAreAudited` | `Spec => []AuditMatchesLedger` |
| `ContributionsProofs!DisciplinedMovesAreLegal` | `DisciplinedSpec => LegalMovesOnly` |
| `ContributionsProofs!AuditTrailsAreHistories` | `DisciplinedSpec => []AuditChains` |
| `ContributionsProofs!TotalsAreSums` | `DisciplinedSpec => []TotalIsConfirmedSum` |
| `ContributionsProofs!BookImplemented` | `DisciplinedSpec => ImplementsBook` |
| `PayoutsProofs!TypeCorrect` | `Spec => []TypeOK` |
| `PayoutsProofs!KeysAreIdempotent` | `Spec => []OnePayoutPerKey` |
| `PayoutsProofs!MoneyIsDecided` | `Spec => []MoneyFollowsDecisions` |
| `PayoutsProofs!AuditTrailsAreHistories` | `ReviewedSpec => []AuditChains` |
| `PayoutsProofs!ReviewedMovesAreLegal` | `ReviewedSpec => LegalMovesOnly` |
| `PayoutsProofs!BalancesAreStatuses` | `ReviewedSpec => []BalancesMatchStatuses` |
| `PayoutsProofs!BookImplemented` | `ReviewedSpec => ImplementsBook` |
| `PayoutsProofs!SerialApprovalsNeverOverdraw` | `SerialSpec => []NeverOverdrawn` |
| `VaultProofs!LedgerExact` | `Spec => []LedgerReplaysBalance`, of `VaultMoney` |
| `VaultProofs!MoneyIsDecided` | `Spec => []MoneyFollowsDecisions`, of `VaultMoney` |
| `VaultProofs!VersionsAreWrites` | `Spec => []VersionCountsWrites` |
| `VaultProofs!SpentWasConfirmed` | `SerialSpec => []PaidFromConfirmed` |
| `VaultProofs!ColumnsAreRows` | `SerialSpec => [](Contributing!TotalIsConfirmedSum /\ Paying!BalancesMatchStatuses)` |
| `VaultProofs!VersionsAreExact` | `SerialSpec => []ExactVersions` |
| `VaultProofs!TrailsAreHistories` | `SerialSpec => [](Contributing!AuditChains /\ Paying!AuditChains)` |
| `VaultProofs!MovesAreLegal` | `SerialSpec => Contributing!LegalMovesOnly /\ Paying!LegalMovesOnly` |
| `VaultProofs!VaultKeepsTheBooks` | `SerialSpec => Contributing!ImplementsBook /\ Paying!ImplementsBook` |
| `VaultProofs!LocksImplementVaultMoney` | `LockSpec => ImplementsVaultMoney` |
| `VaultProofs!LocksKeepTheBooks` | `LockSpec => [](LedgerReplaysBalance /\ MoneyFollowsDecisions /\ VersionCountsWrites)` |
| `VaultProofs!LocksKeepSerialBooks` | `LockSpec /\ []SerialTasks =>` `[](PaidFromConfirmed /\ Contributing!TotalIsConfirmedSum /\ Paying!BalancesMatchStatuses)` and both `ImplementsBook` |
| `AccountsProofs!TypeCorrect` | `Spec => []TypeOK` |
| `AccountsProofs!OneLiveAlways` | `Spec => []OneLiveSessionUnlessForked` |
| `AccountsProofs!EndedAlways` | `Spec => EndedStaysEnded` |
| `AccountsProofs!VerifiedAlways` | `Spec => []VerifiedByMail` |
| `AccountsProofs!AnnouncementsAreTrue` | `NoticeSpec => []AnnouncedAfterCommit` |
| `AccountsProofs!SwitchedOffStaysSilent` | `NoticeSpec => []PreferencesRespected` |
| `AccountsProofs!OneRowPerType` | `NoticeSpec => []OnePreferencePerType` |
| `ScholarshipPoolsProofs!TypeCorrect` | `Spec => []TypeOK` |
| `ScholarshipPoolsProofs!LastDecisionStands` | `Spec => []StatusIsLastDecision` |
| `ScholarshipPoolsProofs!DecisionsAreFinal` | `Spec => []DecidedOnce` |
| `ScholarshipPoolsProofs!AwardsMoveForward` | `Spec => AwardMovesOnly` |
| `ScholarshipPoolsProofs!MoneyConserved` | `Spec => []Conserved` |
| `OnchainContributionsProofs!RecordsFollowTheNetwork` | `Spec => []SettledAsTheNetworkSays` |
| `OnchainContributionsProofs!ReferencesAreNamed` | `Spec => []ReferencesNameRows` |
| `OnchainContributionsProofs!DenialsAreTrue` | `Spec => []DefiniteAnswers` |
| `OnchainContributionsProofs!SendsAreKnown` | `Spec => []SentIsKnown` |
| `RecordsProofs!TrailsEndInTheirRows` | `Spec => []TrailEndsInRow` |
| `RecordsProofs!SchoolsStandForCredentials` | `Spec => []IssuedForVerifiedSchools` |
| `RecordsProofs!ListsAgreeWithGet` | `Spec => []ListsWhatMayBeRead` |

*Types.* `TypeOK` is not inductive: a column stays non-negative only because
amounts are positive, and a task's row exists only because ids are never freed.
`TypeInv` adds that (`TasksSound`, `AmountsPositive`); its step is proved action
by action.

*Ledger.* `LedgerReplaysBalance` is inductive given `TypeInv`. `ReplaysAppend`
shows that appending an entry whose balance is the old total plus its signed
amount replays to the new one; `MoneyMove` that both settlements append such an
entry, because total and entry come from the row read under the lock. No
discipline is used.

*Keys.* Uniqueness is inductive because the insert is guarded by the unique
constraint; that every answer names the stored row needs in addition that an
acknowledged id stays under its key (`AcksStored`).

*Legal moves.* The argument is that a read does not go stale. `ReadsStillHold`
says that the status a task carries is still the status of its row; it is
inductive only under the discipline, since no other task may move that row.
With it, the pair a task carries, validated when it was read, is the pair that
is committed. For audit trails `AuditUpToDate` says the last audit row names the
present status; with `ReadsStillHold` the next row continues it.

*Sums.* The properties about money sum a table of amounts with `SumFunction` of the
community modules. `FiniteSums` proves what a sum does when one row is inserted,
removed or changed (`TableInsert`, `TableDelete`, `TableUpdate`), for every
finite table: the recursive function that defines the sum exists, and the order in
which it takes the rows does not matter, because a *smallest* set for which it did
not exist, or did matter, leads to a contradiction. A table being finite is part
of the invariants (`RowsFinite`): each step inserts at most one row. Totals
(`SumInv`), balances by status and audited decisions (`MoneyInv`) then follow
transaction by transaction. `MoneyFollowsDecisions` uses no discipline: a
transaction that commits appends the decision whose money it moves, however stale
the status it decided from.

*Books and trails.* `StatusMatchesLedger` and `AuditMatchesLedger` are inductive
together (`BooksInv`): a transaction appends to both or to neither, the entries of
other contributions do not change rank, and every entry belongs to a stored
contribution (`EntriesKnown`), so a fresh one has none. No discipline is used.

*Book refinement.* Under the discipline a settlement that commits is
`ContributionBook`'s step of one contribution: `ReadsStillHold` gives its guard, the
transaction's effect its new status and total. Inserts map to its insertion and
all other steps stutter. Payouts map to `PayoutBook` in the same way, with one more
fact: a decision to fail must find its reservation. `FailureReleases` gets it from
`BalancesMatchStatuses`: the payout is processing, so its amount is one of the terms of
what the vault has reserved, and the other terms are not negative. So the refinement
rests on the theorem about sums, and neither can do without the discipline.

*Approvals.* `NeverOverdrawn` is not inductive even when approvals do not overlap.
`SerialInv` adds that the approval under way still finds its amount available. It does
because, of all transactions, only the commit of an approval takes from what is
available (`AvailableStep`: completing moves an amount from one column to the other,
failing gives it back), and nobody else is approving from that vault.

*Vault.* `VaultProofs` instantiates both components' proofs. Each side's step
keeps its own invariants by its own lemmas, and leaves alone the columns, ledger
or decisions the other side's are about, because the two `UPDATE`s write the
columns they were given from the row under the lock. What may be spent needs
`ApprovalsCovered`: an approval that has passed `ensure_available_funds`
still fits into what was ever confirmed, since nobody else approves from that vault
and reversals do not reduce what was *ever* confirmed.

What each side promises under its discipline holds on the shared vaults too
(`BothBooks`): a step of its own is a step as its own proofs have it, and the other
side's leaves its rows, tasks and columns alone (`ContributionBooksKept`,
`PayoutBooksKept`). For the books that means that a step of one side is a stutter of
the other's (`BothBooksFollow`), so both refinements hold at once. And since every
failure then has its reservation to release, the bounds of `VersionCountsWrites` close:
`ExactVersions` says that the version is the number of ledger entries and of decisions
that approved, completed or failed a payout.

*Locks.* `LockInv` says that what a transaction read is still in the rows, because
it holds their locks (`TxSound`) and nobody else does (`Exclusive`). So a commit,
computed from what was read, is the atomic step of `VaultMoney`, and opening,
locking, dying and rolling back stutter. The theorem is the safety refinement;
`LocksKeepTheBooks` carries the books' theorems over to it, and `LocksKeepSerialBooks`
those that need the disciplines, which are then asked of the tasks that work statement
by statement (`SerialTasks`).

*Sessions.* One live session is not inductive: between `revoke_refresh_session`
and `issue_session` a login has none and a task owes it one. `OneClaim` counts
both: of live sessions and tasks that have ended the last session of a login and
still have to store the next, an unforked login has at most one. A task that
rotates a live session becomes such a claim when that session ends, by its own
step or by a logout (`EndingOne`); that it is the only one to do so is
`OneRefresher`: two tasks that rotate one session forked it. `VerifiedByMail`
needs `MarksConsumed`, that a task about to mark an account has consumed its
token. The history variables `login` and `forked` record which login a session
continues and which sessions two overlapping tasks refreshed; no action reads
them.

*Notifications.* That nothing is announced before its commit is inductive once the
event a dispatch carries is known to be committed too (`AnnouncedInv`), and what was
committed stays so. A channel that stays off is not used because of `ChannelsInv`: as
long as it has been off ever since the decision, it is off in the preference the
dispatch has still to read, and is not among the channels it has set out to use. That
needs one row per user and type (`PreferencesInv`): an upsert replaces whatever the
unique index finds under its user and type, however old the read is that chose the
row's id.

*Pools.* `TypeInv` and `LastDecision` (the last award of an application, named
by its index, agrees with its status) hold whatever interleaves: a rejected award
is never moved because `Sound` says so of every task that carries one, and no
step undoes it (`Keeps`). What needs the discipline is `CarefulInv`: while
`careful`, no two tasks work on one pool (`Alone`), what each task validated still
holds (`TasksValid`), and an application has at most one award (`Once`). It is
inductive because the other tasks work on other pools, hence on other
applications and awards (`Others`). `MoneyInv` adds that the balance a careful task
has read is still the pool's (`BalancesRead`); the absolute value it writes is then
the stored balance plus or minus the amount of the award it moves.

*On-chain.* One invariant carries all four theorems: records, references and what
tasks carry say no more than what has happened (`Happened`, `Names`, `Said`,
`SameRecord`). What has happened stays so (`Grows`): the network does not
change a success or a rejection, a record keeps its key and hash, a
contribution's history grows. So what other tasks carry stays sound (`Stable`),
and each action answers only for what it stores itself. `SentIsKnown` is a part of the
invariant: a record that names a transaction keeps naming it, so only the task that
carries what it sent can drop it, and then it stores the record or leaves its client
unsure (`KnownStep`, `LeavesUnsure`).

*Records.* A trail ends in the state of its row except while a task still owes the
entry: `TrailInv` says, of each undisturbed subject, that at most one task writes
it (`Alone`), that this task carries the state the row has or had (`TaskFits`), and
that without such a task the newest entry is about the row. A verification is
stamped when it begins, so `TaskFits` also places its stamp after the newest
entry. `IssuersInv` carries what was validated from the check to the insert
(`verified` only grows). `ListsInv` says that a credential that was there when the
request came in has been found or is covered by a query that is left (`Covers`),
and that every query that is left is permitted to its reader (`Permitted`), which is
what makes a list agree with `get_credential`.

Only model-checked is `Answered` (`VaultLocks`): liveness under strong fairness, whose
meaning rests on ENABLED, which the prover does not handle. Every invariant and action
property of a passing run is proved, and so is every refinement.

`NeverOverdrawn` is violated by overlapping approvals (`payouts_overdrawn`); what holds
without them is `SerialApprovalsNeverOverdraw` for a vault with a fixed total and, with
contributions reversed in between, `SpentWasConfirmed`.

## Not modelled

- The rate limiter: every request takes one mutex, counts and leaves, and the
  window only depends on the clock. There is no second step to interleave with.
- The HTTP layer and the TypeScript helper: routing, decoding, error mapping and
  types, with no state of their own; listings and searches other than the
  credential list, which is put together from several statements.
- Rendering: notification texts, emails, credential pages, the redaction of audit
  metadata. The email sender of the program drops what it is given.
- Milestone and KYC reminders (nothing calls them) and the ingestion of chain
  events (a stub that returns nothing).
- Access tokens, password hashes and token digests: a token is the row it names.
- Data no property tells apart: references, notes, metadata, request ids,
  timestamps (except the order of audit entries), milestones' own amounts, and
  the currency beyond equality.
- A milestone's status never changes in a route, nor does a pool's status,
  restriction or currency: they are constants of the models.
- KYC, savings and on-chain use cases are library code without a route; they are
  modelled as the functions stand, with any caller they admit.

## Plan

What would come next, in this order:

1. Fewer repeated arguments: the lemmas that `ContributionsProofs` and
   `PayoutsProofs` state alike about a row that is inserted, moved or shown under
   its key.
2. An abstract specification of the scholarship pools, implemented while `careful`.
3. What a forked refresh leads to, and what an account that is suspended during
   its verification is left with (`docs/security.md:12`).
