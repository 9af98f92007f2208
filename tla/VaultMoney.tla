----------------------------- MODULE VaultMoney ------------------------------
(***************************************************************************)
(* Contributions and payouts on the same savings_vaults rows.  The two     *)
(* components share nothing else: settle_with_audit writes the contributed *)
(* column and transition_with_audit the locked and disbursed columns, each *)
(* holding the row lock, each from the row it read under that lock.        *)
(***************************************************************************)
EXTENDS VaultRows, Sequences, FiniteSetsExt

CONSTANTS
  Users, RoleOf, Vaults, VaultOwner, VaultCurrency, VaultContributors,
  Intents, ContributionKeys, ContributionIds, ContributionTasks,
  Milestones, MilestoneVault, PayableMilestones, Schools,
  Bodies, PayoutKeys, PayoutIds, PayoutTasks,
  NoRow

VARIABLES
  vault,
  contribution, ledger, contributionAudit, contributionReq, acked,
  payout, school, payoutAudit, payoutReq

Contributing == INSTANCE Contributions WITH
  Keys <- ContributionKeys, Ids <- ContributionIds, Requests <- ContributionTasks,
  audit <- contributionAudit, req <- contributionReq

Paying == INSTANCE Payouts WITH
  Keys <- PayoutKeys, Ids <- PayoutIds, Requests <- PayoutTasks,
  Funded <- [v \in Vaults |-> 0],
  audit <- payoutAudit, req <- payoutReq

\* What the two components assume of the constants they share.
ASSUME VaultMoneyAssumption ==
  /\ VaultContributors \in [Vaults -> SUBSET Users]
  /\ \A in \in Intents : in.vault \in Vaults /\ in.amount \in Int /\ in.amount <= MaxMinor
  /\ \A b \in Bodies :
       /\ b.vault \in Vaults /\ b.milestone \in Milestones /\ b.school \in Schools
       /\ b.amount \in Int /\ b.amount <= MaxMinor
  /\ NoRow \notin Contributing!ContributionRow
  /\ NoRow \notin [intent : Intents, status : Contributing!Statuses]
  /\ NoRow \notin Paying!PayoutRow
  /\ NoRow \notin [body : Bodies, status : Paying!Statuses]

contributionRows == <<contribution, ledger, contributionAudit, contributionReq, acked>>
payoutRows == <<payout, school, payoutAudit, payoutReq>>

vars == <<vault, contributionRows, payoutRows>>

Init == Contributing!Init /\ Paying!Init

Next ==
  \/ Contributing!Next /\ UNCHANGED payoutRows
  \/ Paying!Next /\ UNCHANGED contributionRows

Spec == Init /\ [][Next]_vars

\* Approvals of one vault do not overlap and at most one task handles a
\* contribution or a payout; contributions still race with payouts.
SerialNext ==
  /\ Next
  /\ Contributing!OneSettlerEach'
  /\ Paying!OneReviewerEach'
  /\ Paying!OneApproverPerVault'

SerialSpec == Init /\ [][SerialNext]_vars

-----------------------------------------------------------------------------
(* The two sides keep their books on the shared row although each writes   *)
(* it without knowing of the other: the contributed column still replays   *)
(* the ledger, the other two still follow the audited decisions, and no    *)
(* more is spent than came in.                                             *)

\* settle_with_audit is never overwritten by transition_with_audit.
LedgerReplaysBalance == Contributing!LedgerReplaysBalance

\* transition_with_audit is never overwritten by settle_with_audit.
MoneyFollowsDecisions == Paying!MoneyFollowsDecisions

Decisions(v, status) == SumFunction([id \in Paying!OfVault(v) |-> Paying!Times(id, status)])

\* The version counts the transactions that wrote the row, of either side: the
\* ledger entries, and the approvals, completions and failures that released
\* money.  (A failure may have had nothing to release.)
VersionCountsWrites ==
  \A v \in Vaults :
    LET least == Len(ledger[v]) + Decisions(v, "Approved") + Decisions(v, "Completed")
    IN vault[v].version \in least .. least + Decisions(v, "Failed")

Confirmations(v) == {i \in 1 .. Len(ledger[v]) : ledger[v][i].type = "Confirmed"}

EverConfirmed(v) == SumFunction([i \in Confirmations(v) |-> ledger[v][i].amount])

\* What is reserved or paid never exceeds what was ever confirmed, even when
\* contributions are reversed between the check of the funds and the approval:
\* overdrawing a vault takes a reversal or two overlapping approvals.
PaidFromConfirmed ==
  \A v \in Vaults : vault[v].locked + vault[v].disbursed <= EverConfirmed(v)
=============================================================================
