---------------------------- MODULE Contributions ----------------------------
(***************************************************************************)
(* The life of a contribution: a client records an intent under an         *)
(* idempotency key, platform admins settle it, and every settlement that   *)
(* moves money updates the vault row and appends a vault_ledger_entries    *)
(* row in one transaction.                                                 *)
(*                                                                         *)
(* Every HTTP request is a task that works in two steps.  The use case     *)
(* first reads committed rows through the pool, without a transaction and  *)
(* without locks, and validates what it read; then it calls a workflow     *)
(* method that runs one transaction with the rows locked.  What the second *)
(* step knows of the first is kept in req[r].  Between the two steps other *)
(* requests commit, and the task may be lost (client gone, process         *)
(* restarted): that is Lost.  The transaction itself is atomic here.       *)
(*                                                                         *)
(* Requests that fail validation answer with an error and change no row;   *)
(* they are not steps.                                                     *)
(***************************************************************************)
EXTENDS VaultRows, Sequences, FiniteSetsExt

CONSTANTS
  Users,              \* rows of users
  RoleOf,             \* role carried by a user's access token
  Vaults,             \* rows of savings_vaults
  VaultOwner,         \* savings_vaults.owner_user_id
  VaultCurrency,      \* savings_vaults.currency
  VaultContributors,  \* vault_contributors, as a set of users per vault
  Keys,               \* idempotency keys clients choose
  Intents,            \* bodies of POST /vaults/{id}/contributions with their caller
  Ids,                \* fresh contribution ids; bounds the rows of a run
  Requests,           \* tasks that may be in flight at once
  NoRow               \* no contribution has this id yet

ASSUME ContributionsAssumption ==
  /\ VaultContributors \in [Vaults -> SUBSET Users]
  /\ \A in \in Intents : in.vault \in Vaults /\ in.amount \in Int
  /\ \A in \in Intents : in.amount <= MaxMinor
  /\ NoRow \notin [intent : Intents, key : Keys,
                   status : {"Pending", "Confirmed", "Failed", "Reversed"}]
  /\ NoRow \notin [intent : Intents, status : {"Pending", "Confirmed", "Failed", "Reversed"}]

VARIABLES
  vault,         \* balance columns of every savings_vaults row
  contribution,  \* contributions table
  ledger,        \* vault_ledger_entries of every vault, oldest first
  audit,         \* audit_logs of every contribution: the statuses they name
  req,           \* what each task carries from its read to its transaction
  acked          \* history: the ids answered to clients, per idempotency key

vars == <<vault, contribution, ledger, audit, req, acked>>

-----------------------------------------------------------------------------
(* Statuses and rules (crates/domain/src/contributions.rs).                *)

Statuses == {"Pending", "Confirmed", "Failed", "Reversed"}

\* ContributionTransition::target_status: Confirm, Fail, Reverse.
Targets == {"Confirmed", "Failed", "Reversed"}

\* validate_transition, the pairs with from # to; from = to is also accepted.
LegalMoves ==
  {<<"Pending", "Confirmed">>, <<"Pending", "Failed">>, <<"Confirmed", "Reversed">>}

CanSettle(user) == RoleOf[user] = "PlatformAdmin"

\* can_view_or_fund_vault
CanFund(user, v) ==
  \/ user = VaultOwner[v] /\ RoleOf[user] = "Parent"
  \/ user \in VaultContributors[v] /\ RoleOf[user] \in {"Contributor", "Parent"}

\* What record_contribution_intent checks of the body before it looks for an
\* earlier row with the same key.
Acceptable(in) ==
  /\ RoleOf[in.contributor] \in {"Parent", "Contributor"}
  /\ in.amount > 0
  /\ CanFund(in.contributor, in.vault)
  /\ in.currency = VaultCurrency[in.vault]

-----------------------------------------------------------------------------
(* Types.                                                                  *)

ContributionRow == [intent : Intents, key : Keys, status : Statuses]

EntryTypes == {"Confirmed", "Reversed"}

LedgerEntry == [id : Ids, type : EntryTypes, amount : Minor, balanceAfter : Minor]

\* contribution_status_changed names both statuses; contribution_recorded only
\* the new one, and its "from" is "None".
AuditEntry == [from : Statuses \cup {"None"}, to : Statuses]

Idle == [op |-> "idle"]
Creating == [op : {"create"}, key : Keys, intent : Intents]
Settling == [op : {"settle"}, id : Ids, from : Statuses, to : Targets]
RequestState == {Idle} \cup Creating \cup Settling

TypeOK ==
  /\ vault \in [Vaults -> VaultRow]
  /\ contribution \in [Ids -> ContributionRow \cup {NoRow}]
  /\ ledger \in [Vaults -> Seq(LedgerEntry)]
  /\ audit \in [Ids -> Seq(AuditEntry)]
  /\ req \in [Requests -> RequestState]
  /\ acked \in [Keys -> SUBSET Ids]

Recorded == {id \in Ids : contribution[id] # NoRow}
WithKey(k) == {id \in Recorded : contribution[id].key = k}
VaultOf(id) == contribution[id].intent.vault
AmountOf(id) == contribution[id].intent.amount

-----------------------------------------------------------------------------
Init ==
  /\ vault = [v \in Vaults |-> NewVault]
  /\ contribution = [id \in Ids |-> NoRow]
  /\ ledger = [v \in Vaults |-> << >>]
  /\ audit = [id \in Ids |-> << >>]
  /\ req = [r \in Requests |-> Idle]
  /\ acked = [k \in Keys |-> {}]

(* record_contribution_intent.  A key that is already used answers the     *)
(* stored row when the intent is the same; a different intent is a 409 and *)
(* changes nothing.  An unused key goes on to the insert.                  *)

ReplayIntent(r, k, in) ==
  /\ req[r] = Idle
  /\ Acceptable(in)
  /\ \E id \in WithKey(k) :
       /\ contribution[id].intent = in
       /\ acked' = [acked EXCEPT ![k] = @ \cup {id}]
  /\ UNCHANGED <<vault, contribution, ledger, audit, req>>

BeginIntent(r, k, in) ==
  /\ req[r] = Idle
  /\ Acceptable(in)
  /\ WithKey(k) = {}
  /\ req' = [req EXCEPT ![r] = [op |-> "create", key |-> k, intent |-> in]]
  /\ UNCHANGED <<vault, contribution, ledger, audit, acked>>

\* A mistake the runs must notice: no UNIQUE constraint.
InsertDuplicate(r, id) ==
  /\ req[r].op = "create"
  /\ contribution[id] = NoRow
  /\ contribution' = [contribution EXCEPT ![id] =
       [intent |-> req[r].intent, key |-> req[r].key, status |-> "Pending"]]
  /\ audit' = [audit EXCEPT ![id] = Append(@, [from |-> "None", to |-> "Pending"])]
  /\ acked' = [acked EXCEPT ![req[r].key] = @ \cup {id}]
  /\ req' = [req EXCEPT ![r] = Idle]
  /\ UNCHANGED <<vault, ledger>>

\* create_intent_with_audit: the row and its audit row in one transaction.
InsertIntent(r, id) ==
  /\ req[r].op = "create"
  /\ WithKey(req[r].key) = {}
  /\ contribution[id] = NoRow
  /\ contribution' = [contribution EXCEPT ![id] =
       [intent |-> req[r].intent, key |-> req[r].key, status |-> "Pending"]]
  /\ audit' = [audit EXCEPT ![id] = Append(@, [from |-> "None", to |-> "Pending"])]
  /\ acked' = [acked EXCEPT ![req[r].key] = @ \cup {id}]
  /\ req' = [req EXCEPT ![r] = Idle]
  /\ UNCHANGED <<vault, ledger>>

\* The UNIQUE constraint on idempotency_key refuses the insert: a 409.
InsertConflict(r) ==
  /\ req[r].op = "create"
  /\ WithKey(req[r].key) # {}
  /\ req' = [req EXCEPT ![r] = Idle]
  /\ UNCHANGED <<vault, contribution, ledger, audit, acked>>

(* settle_contribution.  A row that already has the target status is       *)
(* answered from the read and changes nothing.                             *)

\* A mistake the runs must notice: validate_transition is not called.
BeginSettleUnvalidated(r, id, target) ==
  /\ req[r] = Idle
  /\ \E actor \in Users : CanSettle(actor)
  /\ id \in Recorded
  /\ contribution[id].status # target
  /\ req' = [req EXCEPT ![r] =
       [op |-> "settle", id |-> id, from |-> contribution[id].status, to |-> target]]
  /\ UNCHANGED <<vault, contribution, ledger, audit, acked>>

BeginSettle(r, id, target) ==
  /\ req[r] = Idle
  /\ \E actor \in Users : CanSettle(actor)
  /\ id \in Recorded
  /\ <<contribution[id].status, target>> \in LegalMoves
  /\ req' = [req EXCEPT ![r] =
       [op |-> "settle", id |-> id, from |-> contribution[id].status, to |-> target]]
  /\ UNCHANGED <<vault, contribution, ledger, audit, acked>>

(* settle_with_audit, after SELECT .. FOR UPDATE of the contribution and   *)
(* of its vault.  Under the locks the row's status is compared with the    *)
(* target only; the transition is not validated again.                     *)

Holds(r, target) == req[r].op = "settle" /\ req[r].to = target

MustMove(r) == contribution[req[r].id].status # req[r].to

\* A mistake the runs must notice: the audit row assumes a pending row.
CommitStatusFromPending(r) ==
  LET id == req[r].id IN
  /\ contribution' = [contribution EXCEPT ![id].status = req[r].to]
  /\ audit' = [audit EXCEPT ![id] = Append(@, [from |-> "Pending", to |-> req[r].to])]
  /\ req' = [req EXCEPT ![r] = Idle]
  /\ UNCHANGED acked

\* The writes every branch that commits makes: the status and the audit row,
\* whose "from" is the status the use case read.
CommitStatus(r) ==
  LET id == req[r].id IN
  /\ contribution' = [contribution EXCEPT ![id].status = req[r].to]
  /\ audit' = [audit EXCEPT ![id] = Append(@, [from |-> req[r].from, to |-> req[r].to])]
  /\ req' = [req EXCEPT ![r] = Idle]
  /\ UNCHANGED acked

\* Mistakes the runs must notice: the entry records the balance of the row that
\* was read, not of the one returned by the update; only confirmations are booked.
MoveMoneyOldBalance(r, total) ==
  LET id == req[r].id
      v == VaultOf(id)
  IN
  /\ vault' = [vault EXCEPT ![v] = WithContributed(@, total)]
  /\ ledger' = [ledger EXCEPT ![v] = Append(@,
       [id |-> id, type |-> req[r].to, amount |-> AmountOf(id),
        balanceAfter |-> vault[v].contributed])]

MoveMoneyUnbooked(r, total) ==
  LET id == req[r].id
      v == VaultOf(id)
  IN
  /\ vault' = [vault EXCEPT ![v] = WithContributed(@, total)]
  /\ IF req[r].to = "Reversed" THEN UNCHANGED ledger
     ELSE ledger' = [ledger EXCEPT ![v] = Append(@,
       [id |-> id, type |-> req[r].to, amount |-> AmountOf(id), balanceAfter |-> total])]

MoveMoney(r, total) ==
  LET id == req[r].id
      v == VaultOf(id)
  IN
  /\ vault' = [vault EXCEPT ![v] = WithContributed(@, total)]
  /\ ledger' = [ledger EXCEPT ![v] = Append(@,
       [id |-> id, type |-> req[r].to, amount |-> AmountOf(id), balanceAfter |-> total])]

TotalBefore(r) == vault[VaultOf(req[r].id)].contributed

SettleConfirmed(r) ==
  /\ Holds(r, "Confirmed")
  /\ MustMove(r)
  /\ Fits(TotalBefore(r) + AmountOf(req[r].id))
  /\ MoveMoney(r, TotalBefore(r) + AmountOf(req[r].id))
  /\ CommitStatus(r)

\* Mistakes the runs must notice: the balance is not compared with the amount;
\* the amount is not taken back.
SettleReversedUnchecked(r) ==
  /\ Holds(r, "Reversed")
  /\ MustMove(r)
  /\ MoveMoney(r, TotalBefore(r) - AmountOf(req[r].id))
  /\ CommitStatus(r)

SettleReversedKeepsTotal(r) ==
  /\ Holds(r, "Reversed")
  /\ MustMove(r)
  /\ MoveMoney(r, TotalBefore(r))
  /\ CommitStatus(r)

SettleReversed(r) ==
  /\ Holds(r, "Reversed")
  /\ MustMove(r)
  /\ TotalBefore(r) >= AmountOf(req[r].id)
  /\ MoveMoney(r, TotalBefore(r) - AmountOf(req[r].id))
  /\ CommitStatus(r)

SettleFailed(r) ==
  /\ Holds(r, "Failed")
  /\ MustMove(r)
  /\ CommitStatus(r)
  /\ UNCHANGED <<vault, ledger>>

\* Mistakes the runs must notice: the audit row survives the roll-back; so does
\* the status when the vault could not be written.
SettleRolledBackAudited(r) ==
  /\ req[r].op = "settle"
  /\ ~MustMove(r)
  /\ audit' = [audit EXCEPT ![req[r].id] = Append(@, [from |-> req[r].from, to |-> req[r].to])]
  /\ req' = [req EXCEPT ![r] = Idle]
  /\ UNCHANGED <<vault, contribution, ledger, acked>>

SettleHalfRolledBack(r) ==
  /\ Holds(r, "Confirmed")
  /\ ~Fits(TotalBefore(r) + AmountOf(req[r].id))
  /\ CommitStatus(r)
  /\ UNCHANGED <<vault, ledger>>

\* The transaction ends without a write: the row already has the target
\* status, the sum does not fit, or the reversal would go below zero.
SettleRolledBack(r) ==
  /\ req[r].op = "settle"
  /\ \/ ~MustMove(r)
     \/ Holds(r, "Confirmed") /\ ~Fits(TotalBefore(r) + AmountOf(req[r].id))
     \/ Holds(r, "Reversed") /\ TotalBefore(r) < AmountOf(req[r].id)
  /\ req' = [req EXCEPT ![r] = Idle]
  /\ UNCHANGED <<vault, contribution, ledger, audit, acked>>

\* The task dies between its two steps.  (A task that dies inside the
\* transaction rolls back, which is the same; one that dies after the commit
\* loses the answer, which acked over-approximates.)
Lost(r) ==
  /\ req[r] # Idle
  /\ req' = [req EXCEPT ![r] = Idle]
  /\ UNCHANGED <<vault, contribution, ledger, audit, acked>>

Next ==
  \E r \in Requests :
    \/ \E k \in Keys, in \in Intents : ReplayIntent(r, k, in) \/ BeginIntent(r, k, in)
    \/ \E id \in Ids : InsertIntent(r, id)
    \/ InsertConflict(r)
    \/ \E id \in Ids, target \in Targets : BeginSettle(r, id, target)
    \/ SettleConfirmed(r)
    \/ SettleReversed(r)
    \/ SettleFailed(r)
    \/ SettleRolledBack(r)
    \/ Lost(r)

Spec == Init /\ [][Next]_vars

(* The discipline the code leaves to its operators: no two tasks settle    *)
(* the same contribution at the same time.  Everything else still          *)
(* interleaves, in particular settlements of one vault's contributions.    *)

OneSettlerEach ==
  \A r, s \in Requests :
    r # s /\ req[r].op = "settle" /\ req[s].op = "settle" => req[r].id # req[s].id

DisciplinedNext == Next /\ OneSettlerEach'

DisciplinedSpec == Init /\ [][DisciplinedNext]_vars

-----------------------------------------------------------------------------
(* Properties under any interleaving.                                      *)

Signed(entry) == IF entry.type = "Confirmed" THEN entry.amount ELSE -entry.amount

BalanceBefore(entries, i) == IF i = 1 THEN 0 ELSE entries[i - 1].balanceAfter

\* Booking the entries one after the other on an empty vault gives every
\* running balance they record, and ends at total.
Replays(entries, total) ==
  /\ \A i \in 1 .. Len(entries) :
       entries[i].balanceAfter = BalanceBefore(entries, i) + Signed(entries[i])
  /\ total = BalanceBefore(entries, Len(entries) + 1)

\* Replaying a vault's ledger reproduces every running balance it recorded
\* and ends at the balance of the row: whatever settlements race, none is
\* lost and none is booked on a stale total (settle_with_audit).
LedgerReplaysBalance == \A v \in Vaults : Replays(ledger[v], vault[v].contributed)

EntriesOf(id) == {i \in 1 .. Len(ledger[VaultOf(id)]) : ledger[VaultOf(id)][i].id = id}

\* The last ledger entry of a contribution names its status when that status
\* is one that moves money, and a pending one has never moved any: the status
\* update and the ledger insert of settle_with_audit stand or fall together.
StatusMatchesLedger ==
  \A id \in Recorded :
    /\ contribution[id].status = "Pending" => EntriesOf(id) = {}
    /\ contribution[id].status \in EntryTypes =>
         \E i \in EntriesOf(id) :
           /\ ledger[VaultOf(id)][i].type = contribution[id].status
           /\ \A j \in EntriesOf(id) : j <= i

\* The audit rows of a contribution that report a money-moving status.
MovesOf(id) == {i \in 1 .. Len(audit[id]) : audit[id][i].to \in EntryTypes}

Rank(i, S) == Cardinality({j \in S : j <= i})

\* They are, in order, exactly its ledger entries (there are as many, and the
\* n-th of each name one status): a settlement that rolls back leaves no audit
\* row and one that commits leaves one.
AuditMatchesLedger ==
  \A id \in Recorded :
    /\ Cardinality(MovesOf(id)) = Cardinality(EntriesOf(id))
    /\ \A i \in MovesOf(id), j \in EntriesOf(id) :
         Rank(i, MovesOf(id)) = Rank(j, EntriesOf(id))
           => audit[id][i].to = ledger[VaultOf(id)][j].type

\* However often, and however concurrently, a client repeats a request under
\* one idempotency key, all successful answers name the same contribution and
\* no second row exists (record_contribution_intent and the UNIQUE column).
IdempotentReplies ==
  \A k \in Keys :
    /\ acked[k] \subseteq WithKey(k)
    /\ Cardinality(WithKey(k)) <= 1

-----------------------------------------------------------------------------
(* Properties under the discipline.                                        *)

\* A status only moves along validate_transition.
LegalMovesOnly ==
  [][\A id \in Recorded :
       contribution'[id].status # contribution[id].status
         => <<contribution[id].status, contribution'[id].status>> \in LegalMoves]_contribution

ConfirmedOf(v) ==
  {id \in Recorded : VaultOf(id) = v /\ contribution[id].status = "Confirmed"}

\* A vault's total is the sum of its confirmed contributions.
TotalIsConfirmedSum ==
  \A v \in Vaults :
    vault[v].contributed = SumFunction([id \in ConfirmedOf(v) |-> AmountOf(id)])

\* The audit rows of a contribution read as its history: each starts from the
\* status the one before it ended in.
AuditChains ==
  \A id \in Ids : \A i \in 2 .. Len(audit[id]) : audit[id][i].from = audit[id][i - 1].to

\* The contribution a key stands for.
Shown(k) ==
  IF WithKey(k) = {} THEN NoRow
  ELSE LET id == CHOOSE i \in WithKey(k) : TRUE
       IN [intent |-> contribution[id].intent, status |-> contribution[id].status]

Book == INSTANCE ContributionBook WITH
  book <- [k \in Keys |-> Shown(k)],
  total <- [v \in Vaults |-> vault[v].contributed]

\* To an observer of keys, statuses and totals, disciplined tasks are
\* indistinguishable from contributions settled atomically: the read step, the
\* UNIQUE key, the row locks and the roll-backs together implement the book.
ImplementsBook == Book!BookSpec

=============================================================================
