------------------------------- MODULE Payouts -------------------------------
(***************************************************************************)
(* Payout requests against a vault: a parent asks for money to be sent to  *)
(* a school, platform admins review the request, and the decisions that    *)
(* reserve, pay or release money rewrite the vault's locked and disbursed  *)
(* columns in the transaction that changes the status.                     *)
(*                                                                         *)
(* As in Contributions a request is a task: it reads committed rows        *)
(* without locks, validates them, and then runs one transaction that holds *)
(* the payout row and the vault row.  A review reads the payout first and  *)
(* the school and the vault afterwards, so it works in three steps.        *)
(* (School and vault are read one after the other too; nothing relates the *)
(* two rows, and a school may be re-verified at any time, so reading them  *)
(* together loses no behaviour of the vault or of a payout.  Creating a    *)
(* request reads everything in one step: its insert locks no money and     *)
(* checks the key again.)                                                  *)
(*                                                                         *)
(* Money enters a vault through Contributions; here a vault starts with    *)
(* the total it has Funded.  No route changes a milestone, so its vault    *)
(* and whether its status is payable are constants.                        *)
(***************************************************************************)
EXTENDS VaultRows, Sequences, FiniteSetsExt

CONSTANTS
  Users,              \* rows of users
  RoleOf,             \* role carried by a user's access token
  Vaults,             \* rows of savings_vaults
  VaultOwner,         \* savings_vaults.owner_user_id
  VaultCurrency,      \* savings_vaults.currency
  Funded,             \* savings_vaults.total_contributed_minor at the start
  Milestones,         \* rows of milestones
  MilestoneVault,     \* milestones.vault_id
  PayableMilestones,  \* those whose status is planned, funded or partially paid
  Schools,            \* rows of schools
  Keys,               \* idempotency keys clients choose
  Bodies,             \* bodies of POST /vaults/{id}/payouts with their caller
  Ids,                \* fresh payout ids; bounds the rows of a run
  Requests,           \* tasks that may be in flight at once
  NoRow               \* no payout has this id yet

ASSUME PayoutsAssumption ==
  /\ Funded \in [Vaults -> Minor]
  /\ \A b \in Bodies :
       b.vault \in Vaults /\ b.milestone \in Milestones /\ b.school \in Schools
  /\ \A b \in Bodies : b.amount \in Int /\ b.amount <= MaxMinor
  /\ NoRow \notin [body : Bodies, key : Keys,
                   status : {"Pending", "UnderReview", "Approved", "Rejected",
                             "Processing", "Completed", "Failed"}]
  /\ NoRow \notin [body : Bodies,
                   status : {"Pending", "UnderReview", "Approved", "Rejected",
                             "Processing", "Completed", "Failed"}]

VARIABLES
  vault,   \* balance columns of every savings_vaults row
  payout,  \* payout_requests table
  school,  \* schools.verification_status
  audit,   \* audit_logs of every payout: the statuses they name
  req      \* what each task carries from its reads to its transaction

vars == <<vault, payout, school, audit, req>>

-----------------------------------------------------------------------------
(* Statuses and rules (crates/domain/src/payouts.rs).                      *)

Statuses ==
  {"Pending", "UnderReview", "Approved", "Rejected", "Processing", "Completed", "Failed"}

\* PayoutTransition::target_status
Targets == Statuses \ {"Pending"}

\* validate_transition, the pairs with from # to; from = to is also accepted.
LegalMoves ==
  {<<"Pending", "UnderReview">>, <<"Pending", "Rejected">>, <<"UnderReview", "Approved">>,
   <<"UnderReview", "Rejected">>, <<"Approved", "Processing">>,
   <<"Processing", "Completed">>, <<"Processing", "Failed">>}

SchoolStatuses == {"Pending", "Verified", "Rejected"}

\* The decisions that review_transition allows for a verified school only.
NeedsVerifiedSchool == {"Approved", "Processing", "Completed", "Failed"}

CanReview(user) == RoleOf[user] = "PlatformAdmin"

\* ensure_available_funds
FundsSuffice(v, amount) == Available(vault[v]) >= amount

\* What create_payout_request checks after it found the key unused.
Acceptable(b) ==
  /\ RoleOf[b.requester] = "Parent"
  /\ b.amount > 0
  /\ b.requester = VaultOwner[b.vault]
  /\ MilestoneVault[b.milestone] = b.vault
  /\ b.milestone \in PayableMilestones
  /\ b.currency = VaultCurrency[b.vault]
  /\ school[b.school] = "Verified"
  /\ FundsSuffice(b.vault, b.amount)

-----------------------------------------------------------------------------
(* Types.                                                                  *)

PayoutRow == [body : Bodies, key : Keys, status : Statuses]

AuditEntry == [from : Statuses \cup {"None"}, to : Statuses]

Idle == [op |-> "idle"]
Creating == [op : {"create"}, key : Keys, body : Bodies]
Reviewing == [op : {"review"}, id : Ids, from : Statuses, to : Targets]
Deciding == [op : {"decide"}, id : Ids, from : Statuses, to : Targets]
RequestState == {Idle} \cup Creating \cup Reviewing \cup Deciding

TypeOK ==
  /\ vault \in [Vaults -> VaultRow]
  /\ payout \in [Ids -> PayoutRow \cup {NoRow}]
  /\ school \in [Schools -> SchoolStatuses]
  /\ audit \in [Ids -> Seq(AuditEntry)]
  /\ req \in [Requests -> RequestState]

Recorded == {id \in Ids : payout[id] # NoRow}
WithKey(k) == {id \in Recorded : payout[id].key = k}
VaultOf(id) == payout[id].body.vault
AmountOf(id) == payout[id].body.amount

\* A vault that one settled contribution of this amount, if any, has funded.
FundedVault(total) ==
  IF total = 0 THEN NewVault ELSE WithContributed(NewVault, total)

-----------------------------------------------------------------------------
Init ==
  /\ vault = [v \in Vaults |-> FundedVault(Funded[v])]
  /\ payout = [id \in Ids |-> NoRow]
  /\ school = [s \in Schools |-> "Pending"]
  /\ audit = [id \in Ids |-> << >>]
  /\ req = [r \in Requests |-> Idle]

\* verify_school: an admin sets any status, whatever the current one is.
VerifySchool(s, status) ==
  /\ \E actor \in Users : CanReview(actor)
  /\ school' = [school EXCEPT ![s] = status]
  /\ UNCHANGED <<vault, payout, audit, req>>

(* create_payout_request.  A key that is already used is answered from the *)
(* stored row or refused, and changes nothing.                             *)

BeginCreate(r, k, b) ==
  /\ req[r] = Idle
  /\ WithKey(k) = {}
  /\ Acceptable(b)
  /\ req' = [req EXCEPT ![r] = [op |-> "create", key |-> k, body |-> b]]
  /\ UNCHANGED <<vault, payout, school, audit>>

\* A mistake the runs must notice: no unique index.
InsertDuplicate(r, id) ==
  /\ req[r].op = "create"
  /\ payout[id] = NoRow
  /\ payout' = [payout EXCEPT ![id] =
       [body |-> req[r].body, key |-> req[r].key, status |-> "Pending"]]
  /\ audit' = [audit EXCEPT ![id] = Append(@, [from |-> "None", to |-> "Pending"])]
  /\ req' = [req EXCEPT ![r] = Idle]
  /\ UNCHANGED <<vault, school>>

\* create_request_with_audit: the row and its audit row in one transaction.
InsertRequest(r, id) ==
  /\ req[r].op = "create"
  /\ WithKey(req[r].key) = {}
  /\ payout[id] = NoRow
  /\ payout' = [payout EXCEPT ![id] =
       [body |-> req[r].body, key |-> req[r].key, status |-> "Pending"]]
  /\ audit' = [audit EXCEPT ![id] = Append(@, [from |-> "None", to |-> "Pending"])]
  /\ req' = [req EXCEPT ![r] = Idle]
  /\ UNCHANGED <<vault, school>>

\* The unique index on idempotency_key refuses the insert.
InsertConflict(r) ==
  /\ req[r].op = "create"
  /\ WithKey(req[r].key) # {}
  /\ req' = [req EXCEPT ![r] = Idle]
  /\ UNCHANGED <<vault, payout, school, audit>>

(* review_transition.  A payout that already has the target status is      *)
(* answered from the read.                                                 *)

\* A mistake the runs must notice: validate_transition is not called.
BeginReviewUnvalidated(r, id, target) ==
  /\ req[r] = Idle
  /\ \E actor \in Users : CanReview(actor)
  /\ id \in Recorded
  /\ payout[id].status # target
  /\ req' = [req EXCEPT ![r] =
       [op |-> "review", id |-> id, from |-> payout[id].status, to |-> target]]
  /\ UNCHANGED <<vault, payout, school, audit>>

BeginReview(r, id, target) ==
  /\ req[r] = Idle
  /\ \E actor \in Users : CanReview(actor)
  /\ id \in Recorded
  /\ <<payout[id].status, target>> \in LegalMoves
  /\ req' = [req EXCEPT ![r] =
       [op |-> "review", id |-> id, from |-> payout[id].status, to |-> target]]
  /\ UNCHANGED <<vault, payout, school, audit>>

\* A mistake the runs must notice: the funds are not checked again.
CheckReviewUnfunded(r) ==
  LET body == payout[req[r].id].body IN
  /\ req[r].op = "review"
  /\ req[r].to \in NeedsVerifiedSchool => school[body.school] = "Verified"
  /\ req' = [req EXCEPT ![r] =
       [op |-> "decide", id |-> req[r].id, from |-> req[r].from, to |-> req[r].to]]
  /\ UNCHANGED <<vault, payout, school, audit>>

\* The milestone was payable and in this vault when the request was created
\* and still is; the school and the funds are checked again.
CheckReview(r) ==
  LET body == payout[req[r].id].body IN
  /\ req[r].op = "review"
  /\ req[r].to \in NeedsVerifiedSchool => school[body.school] = "Verified"
  /\ req[r].to = "Approved" => FundsSuffice(body.vault, body.amount)
  /\ req' = [req EXCEPT ![r] =
       [op |-> "decide", id |-> req[r].id, from |-> req[r].from, to |-> req[r].to]]
  /\ UNCHANGED <<vault, payout, school, audit>>

(* transition_with_audit, after SELECT .. FOR UPDATE of the payout and of  *)
(* its vault.  Under the locks the row's status is compared with the       *)
(* target only; neither the transition nor the funds are checked again.    *)

Decides(r, targets) ==
  /\ req[r].op = "decide"
  /\ req[r].to \in targets
  /\ payout[req[r].id].status # req[r].to

RowOf(r) == vault[VaultOf(req[r].id)]
Asked(r) == AmountOf(req[r].id)

\* A mistake the runs must notice: the audit row assumes a pending row.
CommitStatusFromPending(r) ==
  LET id == req[r].id IN
  /\ payout' = [payout EXCEPT ![id].status = req[r].to]
  /\ audit' = [audit EXCEPT ![id] = Append(@, [from |-> "Pending", to |-> req[r].to])]
  /\ req' = [req EXCEPT ![r] = Idle]
  /\ UNCHANGED school

\* The writes every branch that commits makes.
CommitStatus(r) ==
  LET id == req[r].id IN
  /\ payout' = [payout EXCEPT ![id].status = req[r].to]
  /\ audit' = [audit EXCEPT ![id] = Append(@, [from |-> req[r].from, to |-> req[r].to])]
  /\ req' = [req EXCEPT ![r] = Idle]
  /\ UNCHANGED school

WriteVault(r, locked, disbursed) ==
  vault' = [vault EXCEPT ![VaultOf(req[r].id)] = WithLockedAndDisbursed(@, locked, disbursed)]

DecideApproved(r) ==
  /\ Decides(r, {"Approved"})
  /\ Fits(RowOf(r).locked + Asked(r))
  /\ WriteVault(r, RowOf(r).locked + Asked(r), RowOf(r).disbursed)
  /\ CommitStatus(r)

\* Mistakes the runs must notice: the underflow is not refused; the reservation
\* is kept although the money is paid.
DecideCompletedUnchecked(r) ==
  /\ Decides(r, {"Completed"})
  /\ Fits(RowOf(r).disbursed + Asked(r))
  /\ WriteVault(r, RowOf(r).locked - Asked(r), RowOf(r).disbursed + Asked(r))
  /\ CommitStatus(r)

DecideCompletedKeepsLock(r) ==
  /\ Decides(r, {"Completed"})
  /\ RowOf(r).locked >= Asked(r)
  /\ Fits(RowOf(r).disbursed + Asked(r))
  /\ WriteVault(r, RowOf(r).locked, RowOf(r).disbursed + Asked(r))
  /\ CommitStatus(r)

DecideCompleted(r) ==
  /\ Decides(r, {"Completed"})
  /\ RowOf(r).locked >= Asked(r)
  /\ Fits(RowOf(r).disbursed + Asked(r))
  /\ WriteVault(r, RowOf(r).locked - Asked(r), RowOf(r).disbursed + Asked(r))
  /\ CommitStatus(r)

\* A mistake the runs must notice: failing releases nothing.
DecideFailedKeepsLock(r) ==
  /\ Decides(r, {"Failed"})
  /\ CommitStatus(r)
  /\ UNCHANGED vault

\* Failing releases the reserved money if that much is reserved at all.
DecideFailed(r) ==
  /\ Decides(r, {"Failed"})
  /\ \/ RowOf(r).locked >= Asked(r)
        /\ WriteVault(r, RowOf(r).locked - Asked(r), RowOf(r).disbursed)
     \/ RowOf(r).locked < Asked(r) /\ UNCHANGED vault
  /\ CommitStatus(r)

\* Rejecting releases nothing: a rejected payout is expected to hold nothing.
DecideOther(r) ==
  /\ Decides(r, {"UnderReview", "Rejected", "Processing"})
  /\ CommitStatus(r)
  /\ UNCHANGED vault

\* The transaction ends without a write: the row already has the target
\* status, the sum does not fit, or less is reserved than is to be paid.
DecideRolledBack(r) ==
  /\ req[r].op = "decide"
  /\ \/ payout[req[r].id].status = req[r].to
     \/ req[r].to = "Approved" /\ ~Fits(RowOf(r).locked + Asked(r))
     \/ req[r].to = "Completed" /\ RowOf(r).locked < Asked(r)
     \/ req[r].to = "Completed" /\ ~Fits(RowOf(r).disbursed + Asked(r))
  /\ req' = [req EXCEPT ![r] = Idle]
  /\ UNCHANGED <<vault, payout, school, audit>>

\* The task ends between two steps: the client is gone, the process restarted,
\* or CheckReview found the school or the funds wanting.
Lost(r) ==
  /\ req[r] # Idle
  /\ req' = [req EXCEPT ![r] = Idle]
  /\ UNCHANGED <<vault, payout, school, audit>>

Next ==
  \/ \E s \in Schools, status \in SchoolStatuses : VerifySchool(s, status)
  \/ \E r \in Requests :
       \/ \E k \in Keys, b \in Bodies : BeginCreate(r, k, b)
       \/ \E id \in Ids : InsertRequest(r, id)
       \/ InsertConflict(r)
       \/ \E id \in Ids, target \in Targets : BeginReview(r, id, target)
       \/ CheckReview(r)
       \/ DecideApproved(r)
       \/ DecideCompleted(r)
       \/ DecideFailed(r)
       \/ DecideOther(r)
       \/ DecideRolledBack(r)
       \/ Lost(r)

Spec == Init /\ [][Next]_vars

(* Disciplines the code leaves to its operators: at most one task reviews  *)
(* a payout; and at most one approval per vault is between its check of    *)
(* the funds and its transaction.                                          *)

OneReviewerEach ==
  \A r, s \in Requests :
    r # s /\ {req[r].op, req[s].op} \subseteq {"review", "decide"} => req[r].id # req[s].id

Approving(r, v) == req[r].op = "decide" /\ req[r].to = "Approved" /\ VaultOf(req[r].id) = v

OneApproverPerVault ==
  \A v \in Vaults : \A r, s \in Requests : Approving(r, v) /\ Approving(s, v) => r = s

ReviewedNext == Next /\ OneReviewerEach'
ReviewedSpec == Init /\ [][ReviewedNext]_vars

SerialNext == Next /\ OneApproverPerVault'
SerialSpec == Init /\ [][SerialNext]_vars

-----------------------------------------------------------------------------
(* Properties under any interleaving.                                      *)

OfVault(v) == {id \in Recorded : VaultOf(id) = v}

\* How often the audit rows of a payout name a status.
Times(id, status) == Cardinality({i \in 1 .. Len(audit[id]) : audit[id][i].to = status})

\* How much the audit rows naming a status say was decided for a vault.
Decided(v, status) == SumFunction([id \in OfVault(v) |-> AmountOf(id) * Times(id, status)])

\* Every minor unit of a vault that is reserved or paid was approved by an
\* audited decision, every unit paid by an audited completion, and what was
\* approved is still reserved or paid unless a decision failed: balances and
\* audit trail are written together, whatever decisions race
\* (transition_with_audit).
MoneyFollowsDecisions ==
  \A v \in Vaults :
    /\ vault[v].disbursed = Decided(v, "Completed")
    /\ vault[v].locked + vault[v].disbursed <= Decided(v, "Approved")
    /\ vault[v].locked + vault[v].disbursed >= Decided(v, "Approved") - Decided(v, "Failed")

\* Racing requests under one idempotency key create one payout
\* (create_payout_request with the unique index).
OnePayoutPerKey == \A k \in Keys : Cardinality(WithKey(k)) <= 1

-----------------------------------------------------------------------------
(* Properties when at most one task reviews a payout.                      *)

\* A status only moves along validate_transition.
LegalMovesOnly ==
  [][\A id \in Recorded :
       payout'[id].status # payout[id].status
         => <<payout[id].status, payout'[id].status>> \in LegalMoves]_payout

SumOf(v, statuses) ==
  SumFunction([id \in {i \in OfVault(v) : payout[i].status \in statuses} |-> AmountOf(id)])

\* A vault has reserved what its approved and processing payouts ask for and
\* has paid what its completed ones asked for.
BalancesMatchStatuses ==
  \A v \in Vaults :
    /\ vault[v].locked = SumOf(v, {"Approved", "Processing"})
    /\ vault[v].disbursed = SumOf(v, {"Completed"})

\* The audit rows of a payout read as its history.
AuditChains ==
  \A id \in Ids : \A i \in 2 .. Len(audit[id]) : audit[id][i].from = audit[id][i - 1].to

\* The payout a key stands for.
Shown(k) ==
  IF WithKey(k) = {} THEN NoRow
  ELSE LET id == CHOOSE i \in WithKey(k) : TRUE
       IN [body |-> payout[id].body, status |-> payout[id].status]

Book == INSTANCE PayoutBook WITH
  book <- [k \in Keys |-> Shown(k)],
  held <- [v \in Vaults |-> vault[v].locked],
  paid <- [v \in Vaults |-> vault[v].disbursed]

\* To an observer of keys, statuses and reserved and paid money, tasks that
\* review a payout one at a time are indistinguishable from decisions made
\* atomically along validate_transition; in particular a failure always has
\* its reservation to release, although transition_with_audit provides for
\* one that has not.
ImplementsBook == Book!BookSpec

-----------------------------------------------------------------------------
(* What the tests say of a vault whatever the interleaving.                *)

\* Reserved and paid money never exceeds what was contributed
\* (payout_must_not_exceed_available_balance in crates/domain/src/payouts.rs).
NeverOverdrawn == \A v \in Vaults : Available(vault[v]) >= 0
=============================================================================
