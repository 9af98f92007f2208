----------------------------- MODULE VaultProofs -----------------------------
(***************************************************************************)
(* Theorems about VaultMoney and VaultLocks: contributions and payouts on  *)
(* the same vault rows, as atomic transactions and statement by statement. *)
(*                                                                         *)
(* What each side keeps by itself is proved in ContributionsProofs and     *)
(* PayoutsProofs; their lemmas are used here through the instances CP and  *)
(* PP, of which VaultMoneyAssumption gives the assumptions.  The instances *)
(* that VaultMoney makes, Contributing and Paying, define the same; the    *)
(* lemmas whose names begin with Same say so.  It remains to show that a   *)
(* step of one side leaves alone what the other side's invariants are      *)
(* about: the columns, the ledger, the decisions and the versions.         *)
(*                                                                         *)
(* For VaultLocks the invariant says that what a transaction has read      *)
(* still stands, because it holds the locks of both rows; so its commit is *)
(* the atomic step of VaultMoney and every other statement a stutter.      *)
(***************************************************************************)
EXTENDS VaultLocks, FiniteSums

CP == INSTANCE ContributionsProofs WITH
  Keys <- ContributionKeys, Ids <- ContributionIds, Requests <- ContributionTasks,
  audit <- contributionAudit, req <- contributionReq

PP == INSTANCE PayoutsProofs WITH
  Keys <- PayoutKeys, Ids <- PayoutIds, Requests <- PayoutTasks,
  Funded <- [v \in Vaults |-> 0],
  audit <- payoutAudit, req <- payoutReq

-----------------------------------------------------------------------------
(* What the theorems about the two components assume of their constants.   *)

LEMMA ContributionConstants ==
  /\ VaultContributors \in [Vaults -> SUBSET Users]
  /\ \A in \in Intents : in.vault \in Vaults /\ in.amount \in Int
  /\ \A in \in Intents : in.amount <= MaxMinor
  /\ NoRow \notin [intent : Intents, key : ContributionKeys,
                   status : {"Pending", "Confirmed", "Failed", "Reversed"}]
  /\ NoRow \notin [intent : Intents, status : {"Pending", "Confirmed", "Failed", "Reversed"}]
BY VaultMoneyAssumption DEF Contributing!ContributionRow, Contributing!Statuses

LEMMA PayoutConstants ==
  /\ [v \in Vaults |-> 0] \in [Vaults -> PP!Minor]
  /\ \A b \in Bodies :
       b.vault \in Vaults /\ b.milestone \in Milestones /\ b.school \in Schools
  /\ \A b \in Bodies : b.amount \in Int /\ b.amount <= MaxMinor
  /\ NoRow \notin [body : Bodies, key : PayoutKeys,
                   status : {"Pending", "UnderReview", "Approved", "Rejected",
                             "Processing", "Completed", "Failed"}]
  /\ NoRow \notin [body : Bodies,
                   status : {"Pending", "UnderReview", "Approved", "Rejected",
                             "Processing", "Completed", "Failed"}]
BY VaultMoneyAssumption, MaxMinorAssumption DEF Paying!PayoutRow, Paying!Statuses, PP!Minor

LEMMA ContributingTypes == CP!TypeInv /\ [CP!Next]_(CP!vars) => CP!TypeInv'
BY CP!TypeStep, MaxMinorAssumption, ContributionConstants

LEMMA PayingTypes == PP!TypeInv /\ [PP!Next]_(PP!vars) => PP!TypeInv'
BY PP!TypeStep, MaxMinorAssumption, PayoutConstants

LEMMA PayingEffect ==
  ASSUME PP!TypeInv, [PP!Next]_(PP!vars)
  PROVE  \/ PP!RowsSame
         \/ \E id \in PayoutIds : PP!RowInserted(id)
         \/ \E r \in PayoutTasks : PP!DecisionEffect(r)
BY PP!StepEffect, MaxMinorAssumption, PayoutConstants

LEMMA ContributingEffect ==
  ASSUME CP!TypeInv, [CP!Next]_(CP!vars)
  PROVE  \/ CP!RowsSame
         \/ \E id \in ContributionIds : CP!RowInserted(id)
         \/ \E r \in ContributionTasks : CP!SettlementEffect(r)
BY CP!StepEffect, MaxMinorAssumption, ContributionConstants

LEMMA SameContributing == CP!Next <=> Contributing!Next
BY Zenon
     DEF CP!Next, CP!Acceptable, CP!CanFund, CP!CanSettle, CP!WithKey, CP!Recorded,
         CP!VaultOf, CP!AmountOf, CP!LegalMoves, CP!Holds, CP!MustMove, CP!TotalBefore,
         CP!Fits, CP!MoveMoney, CP!CommitStatus, CP!WithContributed, CP!Idle,
         CP!Targets, CP!ReplayIntent, CP!BeginIntent, CP!InsertIntent,
         CP!InsertConflict, CP!BeginSettle, CP!SettleConfirmed, CP!SettleReversed,
         CP!SettleFailed, CP!SettleRolledBack, CP!Lost, Contributing!Next,
         Contributing!Acceptable, Contributing!CanFund, Contributing!CanSettle,
         Contributing!WithKey, Contributing!Recorded, Contributing!VaultOf,
         Contributing!AmountOf, Contributing!LegalMoves, Contributing!Holds,
         Contributing!MustMove, Contributing!TotalBefore, Contributing!Fits,
         Contributing!MoveMoney, Contributing!CommitStatus,
         Contributing!WithContributed, Contributing!Idle, Contributing!Targets,
         Contributing!ReplayIntent, Contributing!BeginIntent, Contributing!InsertIntent,
         Contributing!InsertConflict, Contributing!BeginSettle,
         Contributing!SettleConfirmed, Contributing!SettleReversed,
         Contributing!SettleFailed, Contributing!SettleRolledBack, Contributing!Lost

LEMMA SamePaying == PP!Next <=> Paying!Next
BY Zenon
     DEF PP!Next, PP!VerifySchool, PP!CanReview, PP!SchoolStatuses, PP!Acceptable,
         PP!FundsSuffice, PP!Available, PP!WithKey, PP!Recorded, PP!VaultOf,
         PP!AmountOf, PP!LegalMoves, PP!Decides, PP!RowOf, PP!Asked, PP!CommitStatus,
         PP!WriteVault, PP!Fits, PP!WithLockedAndDisbursed, PP!Idle, PP!Targets,
         PP!NeedsVerifiedSchool, PP!BeginCreate, PP!InsertRequest, PP!InsertConflict,
         PP!BeginReview, PP!CheckReview, PP!DecideApproved, PP!DecideCompleted,
         PP!DecideFailed, PP!DecideOther, PP!DecideRolledBack, PP!Lost, PP!Statuses,
         Paying!Next, Paying!VerifySchool, Paying!CanReview, Paying!SchoolStatuses,
         Paying!Acceptable, Paying!FundsSuffice, Paying!Available, Paying!WithKey,
         Paying!Recorded, Paying!VaultOf, Paying!AmountOf, Paying!LegalMoves,
         Paying!Decides, Paying!RowOf, Paying!Asked, Paying!CommitStatus,
         Paying!WriteVault, Paying!Fits, Paying!WithLockedAndDisbursed, Paying!Idle,
         Paying!Targets, Paying!NeedsVerifiedSchool, Paying!BeginCreate,
         Paying!InsertRequest, Paying!InsertConflict, Paying!BeginReview,
         Paying!CheckReview, Paying!DecideApproved, Paying!DecideCompleted,
         Paying!DecideFailed, Paying!DecideOther, Paying!DecideRolledBack, Paying!Lost,
         Paying!Statuses

LEMMA SameSums ==
  /\ \A f : PP!SumFunction(f) = SumFunction(f)
  /\ \A f : Paying!SumFunction(f) = SumFunction(f)
BY Zenon
   DEF SumFunction, SumFunctionOnSet, FoldFunctionOnSet, MapThenFoldSet,
       PP!SumFunction, PP!SumFunctionOnSet, PP!FoldFunctionOnSet, PP!MapThenFoldSet,
       Paying!SumFunction, Paying!SumFunctionOnSet, Paying!FoldFunctionOnSet,
       Paying!MapThenFoldSet

LEMMA SameInit == Init => CP!Init /\ PP!Init
BY Zenon DEF Init, Contributing!Init, CP!Init, Contributing!NewVault, CP!NewVault,
  Contributing!Idle, CP!Idle, Paying!Init, PP!Init, Paying!NewVault, PP!NewVault,
  Paying!Idle, PP!Idle, Paying!FundedVault, PP!FundedVault, Paying!WithContributed,
  PP!WithContributed

LEMMA SameLedger == CP!LedgerReplaysBalance <=> LedgerReplaysBalance
BY Zenon
   DEF LedgerReplaysBalance, Contributing!LedgerReplaysBalance, Contributing!Replays,
       Contributing!BalanceBefore, Contributing!Signed, CP!LedgerReplaysBalance,
       CP!Replays, CP!BalanceBefore, CP!Signed

LEMMA SameCardinalities ==
  /\ \A S : PP!Cardinality(S) = Cardinality(S)
  /\ \A S : Paying!Cardinality(S) = Cardinality(S)
BY Zenon DEF Cardinality, PP!Cardinality, Paying!Cardinality

LEMMA SamePayouts ==
  /\ \A v : PP!OfVault(v) = Paying!OfVault(v)
  /\ \A id : PP!AmountOf(id) = Paying!AmountOf(id)
  /\ \A id, status : PP!Times(id, status) = Paying!Times(id, status)
BY SameCardinalities
   DEF PP!OfVault, PP!Recorded, PP!VaultOf, PP!AmountOf, PP!Times, Paying!OfVault,
       Paying!Recorded, Paying!VaultOf, Paying!AmountOf, Paying!Times

LEMMA SameDecided == \A v, status : PP!Decided(v, status) = Paying!Decided(v, status)
BY SamePayouts, SameSums DEF PP!Decided, Paying!Decided

LEMMA SameMoney == PP!MoneyFollowsDecisions <=> MoneyFollowsDecisions
BY Zenon, SameDecided
   DEF MoneyFollowsDecisions, Paying!MoneyFollowsDecisions, PP!MoneyFollowsDecisions

LEMMA SameCounts == \A v, status : PP!Counted(v, status) = Decisions(v, status)
BY SamePayouts, SameSums DEF PP!Counted, Decisions

-----------------------------------------------------------------------------
(* A step of VaultMoney is one of a side, and leaves the other side's rows *)
(* alone, and the other side's columns of the vaults.                      *)

Types == CP!TypeInv /\ PP!TypeInv

LEMMA Sides ==
  ASSUME [Next]_vars
  PROVE  \/ [CP!Next]_(CP!vars) /\ UNCHANGED payoutRows
         \/ [PP!Next]_(PP!vars) /\ UNCHANGED contributionRows
<1>1. CASE Next
  BY <1>1, SameContributing, SamePaying DEF Next
<1>2. CASE UNCHANGED vars
  BY <1>2 DEF vars, contributionRows, payoutRows, CP!vars
<1> QED
  BY <1>1, <1>2

LEMMA VaultRowOf ==
  ASSUME Types, NEW v \in Vaults
  PROVE  /\ vault \in [Vaults -> VaultRow]
         /\ vault[v].contributed \in Nat
         /\ vault[v].locked \in Nat
         /\ vault[v].disbursed \in Nat
         /\ vault[v].version \in Nat
BY MaxMinorAssumption
   DEF Types, CP!TypeInv, CP!TypeOK, CP!VaultRow, CP!Minor, VaultRow, Minor

LEMMA PayoutTypesKept ==
  ASSUME PP!TypeInv, CP!TypeInv', UNCHANGED payoutRows
  PROVE  PP!TypeInv'
<1>1. vault' \in [Vaults -> PP!VaultRow]
  BY DEF CP!TypeInv, CP!TypeOK, CP!VaultRow, CP!Minor, PP!VaultRow, PP!Minor
<1> QED
  BY <1>1
     DEF PP!TypeInv, PP!TypeOK, PP!TasksSound, PP!AmountsPositive, PP!Recorded,
         PP!AmountOf, payoutRows

LEMMA ContributionTypesKept ==
  ASSUME CP!TypeInv, PP!TypeInv', UNCHANGED contributionRows
  PROVE  CP!TypeInv'
<1>1. vault' \in [Vaults -> CP!VaultRow]
  BY DEF PP!TypeInv, PP!TypeOK, CP!VaultRow, CP!Minor, PP!VaultRow, PP!Minor
<1> QED
  BY <1>1
     DEF CP!TypeInv, CP!TypeOK, CP!TasksSound, CP!AmountsPositive, CP!Recorded,
         CP!AmountOf, contributionRows

LEMMA TypesStep == Types /\ [Next]_vars => Types'
BY Sides, ContributingTypes, PayingTypes, PayoutTypesKept, ContributionTypesKept DEF Types

\* What a contribution's step may do to a vault.
Contributes ==
  /\ UNCHANGED payoutRows
  /\ \A v \in Vaults :
       vault'[v].locked = vault[v].locked /\ vault'[v].disbursed = vault[v].disbursed

LEMMA ContributingWrites ==
  ASSUME Types, [CP!Next]_(CP!vars), UNCHANGED payoutRows
  PROVE  Contributes
<1>1. CASE CP!RowsSame \/ \E id \in ContributionIds : CP!RowInserted(id)
  BY <1>1 DEF CP!RowsSame, CP!RowInserted, Contributes
<1>2. ASSUME NEW r \in ContributionTasks, CP!SettlementEffect(r)
      PROVE  Contributes
  <2>1. PICK v : v = CP!VaultOf(contributionReq[r].id)
    OBVIOUS
  <2>2. CASE UNCHANGED vault
    BY <2>2 DEF Contributes
  <2>3. ASSUME NEW total, vault'[v] = CP!WithContributed(vault[v], total)
        PROVE  vault'[v].locked = vault[v].locked /\ vault'[v].disbursed = vault[v].disbursed
    BY <2>3 DEF CP!WithContributed
  <2>4. CASE \A w \in Vaults : w # v => vault'[w] = vault[w]
    BY <1>2, <2>1, <2>2, <2>3, <2>4
       DEF Contributes, CP!SettlementEffect, CP!Credited, CP!Debited, CP!MoneyMoved
  <2> QED
    BY <1>2, <2>1, <2>2, <2>4 DEF CP!SettlementEffect, CP!Credited, CP!Debited, CP!MoneyMoved
<1> QED
  BY <1>1, <1>2, ContributingEffect DEF Types

\* What a payout's step may do to a vault.
Pays ==
  /\ UNCHANGED contributionRows
  /\ \A v \in Vaults : vault'[v].contributed = vault[v].contributed

LEMMA PayingWrites ==
  ASSUME Types, [PP!Next]_(PP!vars), UNCHANGED contributionRows
  PROVE  Pays
<1>1. CASE PP!RowsSame \/ \E id \in PayoutIds : PP!RowInserted(id)
  BY <1>1 DEF PP!RowsSame, PP!RowInserted, Pays
<1>2. ASSUME NEW r \in PayoutTasks, PP!DecisionEffect(r)
      PROVE  Pays
  <2>1. PICK v : v = PP!VaultOf(payoutReq[r].id)
    OBVIOUS
  <2>2. CASE UNCHANGED vault
    BY <2>2 DEF Pays
  <2>3. ASSUME NEW locked, NEW disbursed,
               vault'[v] = PP!WithLockedAndDisbursed(vault[v], locked, disbursed)
        PROVE  vault'[v].contributed = vault[v].contributed
    BY <2>3 DEF PP!WithLockedAndDisbursed
  <2>4. CASE \A w \in Vaults : w # v => vault'[w] = vault[w]
    BY <1>2, <2>1, <2>2, <2>3, <2>4
       DEF Pays, PP!DecisionEffect, PP!Reserved, PP!Paid, PP!Released,
           PP!NothingToRelease, PP!BalancesWritten
  <2> QED
    BY <1>2, <2>1, <2>2, <2>4
       DEF PP!DecisionEffect, PP!Reserved, PP!Paid, PP!Released, PP!NothingToRelease,
           PP!BalancesWritten
<1> QED
  BY <1>1, <1>2, PayingEffect DEF Types

LEMMA LedgerStep == Types /\ CP!LedgerReplaysBalance /\ [Next]_vars => CP!LedgerReplaysBalance'
<1> SUFFICES ASSUME Types, CP!LedgerReplaysBalance, [Next]_vars
             PROVE  CP!LedgerReplaysBalance'
  OBVIOUS
<1>1. CASE [CP!Next]_(CP!vars)
  BY <1>1, CP!LedgerInvariantStep, MaxMinorAssumption, ContributionConstants DEF Types
<1>2. CASE Pays
  BY <1>2
     DEF Pays, contributionRows, CP!LedgerReplaysBalance, CP!Replays, CP!BalanceBefore, CP!Signed
<1> QED
  BY <1>1, <1>2, Sides, PayingWrites

\* No contribution disturbs what payouts count on.
Accounts == PP!RowsFinite /\ PP!FreshUnaudited /\ PP!MoneyFollowsDecisions

LEMMA DecidedKept ==
  ASSUME UNCHANGED payoutRows, NEW v, NEW status
  PROVE  /\ PP!Decided(v, status)' = PP!Decided(v, status)
         /\ PP!Counted(v, status)' = PP!Counted(v, status)
BY DEF payoutRows, PP!Decided, PP!Counted, PP!OfVault, PP!Recorded, PP!VaultOf, PP!AmountOf,
       PP!Times

LEMMA AccountsStep == Types /\ Accounts /\ [Next]_vars => Accounts'
<1> SUFFICES ASSUME Types, Accounts, [Next]_vars
             PROVE  Accounts'
  OBVIOUS
<1>1. CASE [PP!Next]_(PP!vars)
  BY <1>1, PP!MoneyStep, PP!TracesStep, MaxMinorAssumption, PayoutConstants DEF Types, Accounts
<1>2. CASE Contributes
  <2>1. PP!RowsFinite' /\ PP!FreshUnaudited'
    BY <1>2 DEF Accounts, Contributes, payoutRows, PP!RowsFinite, PP!FreshUnaudited, PP!Recorded
  <2>2. \A v, status : PP!Decided(v, status)' = PP!Decided(v, status)
    BY <1>2, DecidedKept DEF Contributes
  <2>3. PP!MoneyFollowsDecisions'
    BY <1>2, <2>2 DEF Accounts, Contributes, PP!MoneyFollowsDecisions
  <2> QED
    BY <2>1, <2>3 DEF Accounts
<1> QED
  BY <1>1, <1>2, Sides, ContributingWrites

-----------------------------------------------------------------------------
(* The version of a vault.                                                 *)

\* The version lies between the writes that are certain and those that may be.
Counts(v, writes, failures) == vault[v].version \in writes .. writes + failures

Writes(v) == Len(ledger[v]) + PP!Counted(v, "Approved") + PP!Counted(v, "Completed")

Versions == \A v \in Vaults : Counts(v, Writes(v), PP!Counted(v, "Failed"))

LEMMA SameVersions == Versions <=> VersionCountsWrites
BY SameCounts DEF Versions, Counts, Writes, VersionCountsWrites

LEMMA CountTypes ==
  ASSUME Types, PP!RowsFinite, NEW v \in Vaults
  PROVE  /\ Len(ledger[v]) \in Nat
         /\ \A status : PP!Counted(v, status) \in Int
<1>1. ledger[v] \in Seq(CP!LedgerEntry)
  BY DEF Types, CP!TypeInv, CP!TypeOK
<1>2. \A status : PP!Counted(v, status) \in Int
  BY PP!CountedType, MaxMinorAssumption, PayoutConstants DEF Types
<1> QED
  BY <1>1, <1>2

\* A settlement that moves money adds one ledger entry and one to the version.
LEMMA SettlementCounts ==
  ASSUME Types, NEW id, id \in CP!Recorded, NEW to, NEW total, CP!MoneyMoved(id, to, total),
         NEW v \in Vaults
  PROVE  \/ /\ Len(ledger'[v]) = Len(ledger[v]) + 1
            /\ vault'[v].version = vault[v].version + 1
         \/ Len(ledger'[v]) = Len(ledger[v]) /\ vault'[v] = vault[v]
<1>1. /\ CP!VaultOf(id) \in Vaults
      /\ Len(ledger'[CP!VaultOf(id)]) = Len(ledger[CP!VaultOf(id)]) + 1
      /\ \A w \in Vaults : w # CP!VaultOf(id) => ledger'[w] = ledger[w]
  BY CP!LedgerGrows, MaxMinorAssumption, ContributionConstants DEF Types
<1>2. /\ vault'[CP!VaultOf(id)] = CP!WithContributed(vault[CP!VaultOf(id)], total)
      /\ \A w \in Vaults : w # CP!VaultOf(id) => vault'[w] = vault[w]
  BY DEF CP!MoneyMoved
<1> QED
  BY <1>1, <1>2 DEF CP!WithContributed

\* A decision adds one to the count of its status; approving and completing write the
\* vault, and failing does so when there is something to release.
DecisionCounts(v) ==
  /\ UNCHANGED ledger
  /\ \/ /\ vault'[v].version = vault[v].version + 1
        /\ PP!Counted(v, "Failed")' = PP!Counted(v, "Failed")
        /\ \/ /\ PP!Counted(v, "Approved")' = PP!Counted(v, "Approved") + 1
              /\ PP!Counted(v, "Completed")' = PP!Counted(v, "Completed")
           \/ /\ PP!Counted(v, "Approved")' = PP!Counted(v, "Approved")
              /\ PP!Counted(v, "Completed")' = PP!Counted(v, "Completed") + 1
     \/ /\ vault'[v].version \in {vault[v].version, vault[v].version + 1}
        /\ PP!Counted(v, "Failed")' = PP!Counted(v, "Failed") + 1
        /\ PP!Counted(v, "Approved")' = PP!Counted(v, "Approved")
        /\ PP!Counted(v, "Completed")' = PP!Counted(v, "Completed")
     \/ /\ vault'[v].version = vault[v].version
        /\ PP!Counted(v, "Failed")' = PP!Counted(v, "Failed")
        /\ PP!Counted(v, "Approved")' = PP!Counted(v, "Approved")
        /\ PP!Counted(v, "Completed")' = PP!Counted(v, "Completed")

LEMMA PayingCounts ==
  ASSUME Types, Types', Accounts, [PP!Next]_(PP!vars), UNCHANGED contributionRows,
         NEW v \in Vaults
  PROVE  DecisionCounts(v)
<1>1. UNCHANGED ledger
  BY DEF contributionRows
<1>2. CASE PP!RowsSame
  BY <1>1, <1>2
     DEF PP!RowsSame, DecisionCounts, PP!Counted, PP!OfVault, PP!Recorded, PP!VaultOf, PP!Times
<1>3. ASSUME NEW id \in PayoutIds, PP!RowInserted(id)
      PROVE  DecisionCounts(v)
  <2>1. /\ PP!Counted(v, "Failed")' = PP!Counted(v, "Failed")
        /\ PP!Counted(v, "Approved")' = PP!Counted(v, "Approved")
        /\ PP!Counted(v, "Completed")' = PP!Counted(v, "Completed")
    BY <1>3, PP!CountedInsert, MaxMinorAssumption, PayoutConstants DEF Types, Accounts
  <2>2. UNCHANGED vault
    BY <1>3 DEF PP!RowInserted
  <2> QED
    BY <1>1, <2>1, <2>2 DEF DecisionCounts
<1>4. ASSUME NEW r \in PayoutTasks, PP!DecisionEffect(r)
      PROVE  DecisionCounts(v)
  <2>1. PICK id, from, to, w :
          /\ id = payoutReq[r].id /\ from = payoutReq[r].from /\ to = payoutReq[r].to
          /\ w = PP!VaultOf(id)
    OBVIOUS
  <2>2. PP!RowDecided(id, from, to)
    BY <1>4, <2>1 DEF PP!DecisionEffect
  <2>3. \A status : /\ PP!Counted(v, status) \in Int
                    /\ PP!Counted(v, status)' = IF v = w /\ status = to
                                                THEN PP!Counted(v, status) + 1
                                                ELSE PP!Counted(v, status)
    BY <2>1, <2>2, PP!CountedGrows, MaxMinorAssumption, PayoutConstants DEF Types, Accounts
  <2>4. \A u \in Vaults : u # w => vault'[u] = vault[u]
    BY <1>4, <2>1
       DEF PP!DecisionEffect, PP!Reserved, PP!Paid, PP!Released, PP!NothingToRelease,
           PP!BalancesWritten
  <2>5. CASE v # w
    BY <1>1, <2>3, <2>4, <2>5 DEF DecisionCounts
  <2>6. CASE v = w
    <3>1. \/ to \in {"Approved", "Completed"} /\ vault'[v].version = vault[v].version + 1
          \/ to = "Failed" /\ vault'[v].version \in {vault[v].version, vault[v].version + 1}
          \/ to \in {"UnderReview", "Rejected", "Processing"} /\ vault'[v] = vault[v]
      BY <1>4, <2>1, <2>6
         DEF PP!DecisionEffect, PP!Reserved, PP!Paid, PP!Released, PP!NothingToRelease,
             PP!BalancesWritten, PP!WithLockedAndDisbursed
    <3> QED
      BY <1>1, <2>3, <2>6, <3>1 DEF DecisionCounts
  <2> QED
    BY <2>5, <2>6
<1> QED
  BY <1>2, <1>3, <1>4, PayingEffect DEF Types

\* A contribution's step adds to the version what it adds to the ledger.
LEMMA ContributingVersions ==
  ASSUME Types, Types', Accounts, [CP!Next]_(CP!vars), UNCHANGED payoutRows,
         NEW v \in Vaults
  PROVE  /\ \A status : PP!Counted(v, status)' = PP!Counted(v, status)
         /\ \/ Writes(v)' = Writes(v) + 1 /\ vault'[v].version = vault[v].version + 1
            \/ Writes(v)' = Writes(v) /\ vault'[v].version = vault[v].version
<1>1. \A status : PP!Counted(v, status)' = PP!Counted(v, status)
  BY DecidedKept
<1>2. \/ /\ Len(ledger'[v]) = Len(ledger[v]) + 1
         /\ vault'[v].version = vault[v].version + 1
      \/ Len(ledger'[v]) = Len(ledger[v]) /\ vault'[v] = vault[v]
  <2>1. CASE CP!RowsSame \/ \E id \in ContributionIds : CP!RowInserted(id)
    BY <2>1 DEF CP!RowsSame, CP!RowInserted
  <2>2. ASSUME NEW r \in ContributionTasks, CP!SettlementEffect(r)
        PROVE  \/ /\ Len(ledger'[v]) = Len(ledger[v]) + 1
                  /\ vault'[v].version = vault[v].version + 1
               \/ Len(ledger'[v]) = Len(ledger[v]) /\ vault'[v] = vault[v]
    <3>1. PICK id : id = contributionReq[r].id
      OBVIOUS
    <3>2. id \in CP!Recorded
      BY <2>2, <3>1 DEF CP!SettlementEffect, CP!RowSettled
    <3>3. \/ \E to, total : CP!MoneyMoved(id, to, total)
          \/ UNCHANGED <<vault, ledger>>
      BY <2>2, <3>1 DEF CP!SettlementEffect, CP!Credited, CP!Debited
    <3> QED
      BY <3>2, <3>3, SettlementCounts
  <2> QED
    BY <2>1, <2>2, ContributingEffect DEF Types
<1>3. \/ Writes(v)' = Writes(v) + 1 /\ vault'[v].version = vault[v].version + 1
      \/ Writes(v)' = Writes(v) /\ vault'[v].version = vault[v].version
  <2>1. /\ Len(ledger[v]) \in Nat
        /\ PP!Counted(v, "Approved") \in Int
        /\ PP!Counted(v, "Completed") \in Int
    BY CountTypes DEF Accounts
  <2> QED
    BY <1>1, <1>2, <2>1 DEF Writes
<1> QED
  BY <1>1, <1>3

\* Approving and completing add one to the version, failing at most one.
LEMMA PayingVersions ==
  ASSUME Types, Types', Accounts, [PP!Next]_(PP!vars), UNCHANGED contributionRows,
         NEW v \in Vaults
  PROVE  \/ /\ Writes(v)' = Writes(v) + 1
            /\ vault'[v].version = vault[v].version + 1
            /\ PP!Counted(v, "Failed")' = PP!Counted(v, "Failed")
         \/ /\ Writes(v)' = Writes(v)
            /\ vault'[v].version \in {vault[v].version, vault[v].version + 1}
            /\ PP!Counted(v, "Failed")' = PP!Counted(v, "Failed") + 1
         \/ /\ Writes(v)' = Writes(v)
            /\ vault'[v].version = vault[v].version
            /\ PP!Counted(v, "Failed")' = PP!Counted(v, "Failed")
<1>1. /\ Len(ledger[v]) \in Nat
      /\ PP!Counted(v, "Approved") \in Int
      /\ PP!Counted(v, "Completed") \in Int
      /\ PP!Counted(v, "Failed") \in Int
  BY CountTypes DEF Accounts
<1>2. DecisionCounts(v)
  BY PayingCounts
<1> QED
  BY <1>1, <1>2 DEF Writes, DecisionCounts

LEMMA VersionsStep ==
  ASSUME Types, Types', Accounts, Versions, [Next]_vars
  PROVE  Versions'
<1> SUFFICES ASSUME NEW v \in Vaults
             PROVE  vault'[v].version \in
                      Writes(v)' .. Writes(v)' + PP!Counted(v, "Failed")'
  BY DEF Versions, Counts
<1>1. /\ Len(ledger[v]) \in Nat
      /\ PP!Counted(v, "Approved") \in Int
      /\ PP!Counted(v, "Completed") \in Int
      /\ PP!Counted(v, "Failed") \in Int
      /\ vault[v].version \in Nat
  BY CountTypes, VaultRowOf DEF Accounts
<1>2. vault[v].version \in Writes(v) .. Writes(v) + PP!Counted(v, "Failed")
  BY DEF Versions, Counts
<1>3. Writes(v) \in Int
  BY <1>1 DEF Writes
<1>4. CASE [CP!Next]_(CP!vars) /\ UNCHANGED payoutRows
  <2>1. /\ \A status : PP!Counted(v, status)' = PP!Counted(v, status)
        /\ \/ Writes(v)' = Writes(v) + 1 /\ vault'[v].version = vault[v].version + 1
           \/ Writes(v)' = Writes(v) /\ vault'[v].version = vault[v].version
    BY <1>4, ContributingVersions
  <2> QED
    BY <1>1, <1>2, <1>3, <2>1
<1>5. CASE [PP!Next]_(PP!vars) /\ UNCHANGED contributionRows
  <2>1. \/ /\ Writes(v)' = Writes(v) + 1
           /\ vault'[v].version = vault[v].version + 1
           /\ PP!Counted(v, "Failed")' = PP!Counted(v, "Failed")
        \/ /\ Writes(v)' = Writes(v)
           /\ vault'[v].version \in {vault[v].version, vault[v].version + 1}
           /\ PP!Counted(v, "Failed")' = PP!Counted(v, "Failed") + 1
        \/ /\ Writes(v)' = Writes(v)
           /\ vault'[v].version = vault[v].version
           /\ PP!Counted(v, "Failed")' = PP!Counted(v, "Failed")
    BY <1>5, PayingVersions
  <2> QED
    BY <1>1, <1>2, <1>3, <2>1
<1> QED
  BY <1>4, <1>5, Sides

-----------------------------------------------------------------------------
(* What was ever confirmed in a vault.                                     *)

ConfirmedEntries(v) == [i \in Confirmations(v) |-> ledger[v][i].amount]

LEMMA EverConfirmedIs == \A v : EverConfirmed(v) = SumFunction(ConfirmedEntries(v))
BY DEF EverConfirmed, ConfirmedEntries

LEMMA EverConfirmedNextIs == \A v : EverConfirmed(v)' = SumFunction(ConfirmedEntries(v)')
BY DEF EverConfirmed, ConfirmedEntries

LEMMA EntriesSummable ==
  ASSUME Types, NEW v \in Vaults
  PROVE  Summable(ConfirmedEntries(v)) /\ EverConfirmed(v) \in Int
<1>1. ledger[v] \in Seq(CP!LedgerEntry)
  BY DEF Types, CP!TypeInv, CP!TypeOK
<1>2. /\ Len(ledger[v]) \in Nat
      /\ \A i \in 1 .. Len(ledger[v]) : ledger[v][i] \in CP!LedgerEntry
  BY <1>1
<1>3. IsFiniteSet(1 .. Len(ledger[v])) /\ Confirmations(v) \subseteq 1 .. Len(ledger[v])
  BY <1>2, FS_Interval DEF Confirmations
<1>4. IsFiniteSet(Confirmations(v))
  BY <1>3, FS_Subset
<1>5. \A entry \in CP!LedgerEntry : entry.amount \in Int
  BY MaxMinorAssumption DEF CP!LedgerEntry, CP!Minor
<1>6. \A i \in Confirmations(v) : ledger[v][i].amount \in Int
  BY <1>2, <1>3, <1>5
<1>7. Summable(ConfirmedEntries(v))
  BY <1>4, <1>6 DEF ConfirmedEntries, Summable, Integral
<1> QED
  BY <1>7, EverConfirmedIs, TableType

\* A confirmation adds its amount to the sum of its vault; a reversal changes no sum.
LEMMA EverConfirmedGrows ==
  ASSUME Types, NEW id, id \in CP!Recorded, NEW to \in {"Confirmed", "Reversed"}, NEW total,
         CP!MoneyMoved(id, to, total), NEW v \in Vaults
  PROVE  EverConfirmed(v)' =
           IF v = CP!VaultOf(id) /\ to = "Confirmed"
           THEN EverConfirmed(v) + CP!AmountOf(id) ELSE EverConfirmed(v)
<1> DEFINE n == Len(ledger[v])
           f == ConfirmedEntries(v)
           g == ConfirmedEntries(v)'
<1>1. /\ CP!VaultOf(id) \in Vaults
      /\ Len(ledger'[CP!VaultOf(id)]) = Len(ledger[CP!VaultOf(id)]) + 1
      /\ ledger'[CP!VaultOf(id)][Len(ledger[CP!VaultOf(id)]) + 1].type = to
      /\ ledger'[CP!VaultOf(id)][Len(ledger[CP!VaultOf(id)]) + 1].amount = CP!AmountOf(id)
      /\ \A i \in 1 .. Len(ledger[CP!VaultOf(id)]) :
           ledger'[CP!VaultOf(id)][i] = ledger[CP!VaultOf(id)][i]
      /\ \A w \in Vaults : w # CP!VaultOf(id) => ledger'[w] = ledger[w]
  BY CP!LedgerGrows, MaxMinorAssumption, ContributionConstants DEF Types
<1>2. n \in Nat
  BY DEF Types, CP!TypeInv, CP!TypeOK
<1>3. CP!AmountOf(id) \in Int
  BY CP!StoredIntent, MaxMinorAssumption, ContributionConstants DEF Types
<1>4. /\ Summable(f) /\ EverConfirmed(v) \in Int
      /\ EverConfirmed(v) = SumFunction(f)
      /\ EverConfirmed(v)' = SumFunction(g)
  BY EntriesSummable, EverConfirmedIs, EverConfirmedNextIs
<1>5. CASE v # CP!VaultOf(id)
  <2>1. f = g
    BY <1>1, <1>5 DEF ConfirmedEntries, Confirmations
  <2> QED
    BY <1>4, <1>5, <2>1
<1>6. CASE v = CP!VaultOf(id)
  <2>1. /\ Len(ledger'[v]) = n + 1
        /\ ledger'[v][n + 1].type = to
        /\ ledger'[v][n + 1].amount = CP!AmountOf(id)
        /\ \A i \in 1 .. n : ledger'[v][i] = ledger[v][i]
    BY <1>1, <1>6
  <2>2. /\ DOMAIN f = {i \in 1 .. n : ledger[v][i].type = "Confirmed"}
        /\ DOMAIN g = {i \in 1 .. n + 1 : ledger'[v][i].type = "Confirmed"}
        /\ \A i \in DOMAIN f : f[i] = ledger[v][i].amount
        /\ \A i \in DOMAIN g : g[i] = ledger'[v][i].amount
    BY <2>1 DEF ConfirmedEntries, Confirmations
  <2>3. CASE to = "Confirmed"
    <3>1. n + 1 \notin DOMAIN f /\ DOMAIN g = DOMAIN f \cup {n + 1}
      BY <1>2, <2>1, <2>2, <2>3
    <3>2. g[n + 1] = CP!AmountOf(id) /\ \A i \in DOMAIN f : g[i] = f[i]
      BY <2>1, <2>2, <3>1
    <3> HIDE DEF f, g, n
    <3>3. SumFunction(g) = SumFunction(f) + g[n + 1]
      BY <1>3, <1>4, <3>1, <3>2, TableInsert
    <3> QED
      BY <1>4, <1>6, <2>3, <3>2, <3>3
  <2>4. CASE to = "Reversed"
    <3>1. DOMAIN g = DOMAIN f
      BY <1>2, <2>1, <2>2, <2>4
    <3>2. \A i \in DOMAIN f : g[i] = f[i]
      BY <2>1, <2>2, <3>1
    <3>3. f = g
      BY <3>1, <3>2 DEF ConfirmedEntries
    <3> QED
      BY <1>4, <2>4, <3>3
  <2> QED
    BY <2>3, <2>4
<1> QED
  BY <1>5, <1>6

\* The total of a vault is at most what was ever confirmed in it.
TotalsConfirmed == \A v \in Vaults : vault[v].contributed <= EverConfirmed(v)

LEMMA ConfirmedStep ==
  ASSUME Types, TotalsConfirmed, [Next]_vars, NEW v \in Vaults
  PROVE  /\ EverConfirmed(v) \in Int
         /\ EverConfirmed(v)' \in Int
         /\ EverConfirmed(v)' >= EverConfirmed(v)
         /\ vault'[v].contributed <= EverConfirmed(v)'
<1>1. /\ EverConfirmed(v) \in Int
      /\ vault[v].contributed \in Nat
      /\ vault[v].contributed <= EverConfirmed(v)
  BY EntriesSummable, VaultRowOf DEF TotalsConfirmed
<1>2. CASE UNCHANGED ledger /\ vault'[v].contributed = vault[v].contributed
  <2>1. EverConfirmed(v)' = EverConfirmed(v)
    BY <1>2 DEF EverConfirmed, Confirmations
  <2> QED
    BY <1>1, <1>2, <2>1
<1>3. ASSUME NEW r \in ContributionTasks, CP!SettlementEffect(r)
      PROVE  /\ EverConfirmed(v)' \in Int
             /\ EverConfirmed(v)' >= EverConfirmed(v)
             /\ vault'[v].contributed <= EverConfirmed(v)'
  <2>1. PICK id, to, w, amount :
          /\ id = contributionReq[r].id /\ to = contributionReq[r].to
          /\ w = CP!VaultOf(id) /\ amount = CP!AmountOf(id)
    OBVIOUS
  <2>2. id \in CP!Recorded
    BY <1>3, <2>1 DEF CP!SettlementEffect, CP!RowSettled
  <2>3. amount \in Int /\ amount > 0
    BY <2>1, <2>2, CP!StoredIntent, MaxMinorAssumption, ContributionConstants DEF Types
  <2>4. CASE UNCHANGED <<vault, ledger>>
    BY <1>1, <1>2, <2>4
  <2>5. ASSUME to \in {"Confirmed", "Reversed"}, NEW total, CP!MoneyMoved(id, to, total),
               total = IF to = "Confirmed" THEN vault[w].contributed + amount
                       ELSE vault[w].contributed - amount
        PROVE  /\ EverConfirmed(v)' \in Int
               /\ EverConfirmed(v)' >= EverConfirmed(v)
               /\ vault'[v].contributed <= EverConfirmed(v)'
    <3>1. EverConfirmed(v)' = IF v = w /\ to = "Confirmed"
                              THEN EverConfirmed(v) + amount ELSE EverConfirmed(v)
      BY <2>1, <2>2, <2>5, EverConfirmedGrows
    <3>2. /\ v = w => vault'[v].contributed = total
          /\ v # w => vault'[v] = vault[v]
      BY <2>1, <2>5 DEF CP!MoneyMoved
    <3> QED
      BY <1>1, <2>3, <2>5, <3>1, <3>2
  <2> QED
    BY <1>3, <2>1, <2>4, <2>5 DEF CP!SettlementEffect, CP!Credited, CP!Debited
<1>4. CASE [CP!Next]_(CP!vars)
  BY <1>1, <1>2, <1>3, <1>4, ContributingEffect DEF Types, CP!RowsSame, CP!RowInserted
<1>5. CASE Pays
  BY <1>1, <1>2, <1>5 DEF Pays, contributionRows
<1> QED
  BY <1>1, <1>4, <1>5, Sides, PayingWrites

-----------------------------------------------------------------------------
(* Nothing is spent that never came in.  While one approval at a time is   *)
(* under way for a vault, what it is about to reserve is covered by what   *)
(* was ever confirmed: the check of the funds saw so, and since then the   *)
(* vault's reserved and paid money has only shrunk.                        *)

Held(v) == vault[v].locked + vault[v].disbursed

ApprovalsCovered ==
  \A r \in PayoutTasks : PP!Approves(r) =>
    Held(PP!VaultOf(payoutReq[r].id)) + PP!AmountOf(payoutReq[r].id)
      <= EverConfirmed(PP!VaultOf(payoutReq[r].id))

OneApprover ==
  \A r, s \in PayoutTasks :
    PP!Approves(r) /\ PP!Approves(s) /\ PP!VaultOf(payoutReq[r].id) = PP!VaultOf(payoutReq[s].id)
      => r = s

LEMMA ApproverId ==
  ASSUME Types, NEW r \in PayoutTasks, PP!Approves(r)
  PROVE  /\ payoutReq[r].id \in PP!Recorded
         /\ PP!VaultOf(payoutReq[r].id) \in Vaults
         /\ PP!AmountOf(payoutReq[r].id) \in Nat
<1>1. payoutReq[r].id \in PP!Recorded
  BY DEF Types, PP!Approves, PP!TypeInv, PP!TasksSound
<1> QED
  BY <1>1, PP!StoredBody, MaxMinorAssumption, PayoutConstants DEF Types

LEMMA OneApproverIs == Types /\ Paying!OneApproverPerVault => OneApprover
<1>1. \A v : \A r : Paying!Approving(r, v) <=>
        PP!Approves(r) /\ PP!VaultOf(payoutReq[r].id) = v
  BY DEF Paying!Approving, PP!Approves, PP!VaultOf, Paying!VaultOf
<1> QED
  BY <1>1, ApproverId DEF Paying!OneApproverPerVault, OneApprover

LEMMA HeldType ==
  ASSUME Types, NEW v \in Vaults
  PROVE  Held(v) \in Int /\ vault[v].locked \in Int /\ vault[v].disbursed \in Int
BY VaultRowOf DEF Held

\* A decision holds more only when it approves, and then by the amount approved.
LEMMA DecisionHolds ==
  ASSUME Types, NEW s \in PayoutTasks, PP!DecisionEffect(s), NEW v \in Vaults
  PROVE  LET id == payoutReq[s].id IN
         /\ v # PP!VaultOf(id) => Held(v)' = Held(v)
         /\ PP!Approves(s) /\ v = PP!VaultOf(id) => Held(v)' = Held(v) + PP!AmountOf(id)
         /\ ~PP!Approves(s) => Held(v)' <= Held(v)
<1>1. PICK id, to, w, amount :
        /\ id = payoutReq[s].id /\ to = payoutReq[s].to
        /\ w = PP!VaultOf(id) /\ amount = PP!AmountOf(id)
  OBVIOUS
<1>2. amount \in Int /\ amount > 0
  <2>1. id \in PP!Recorded
    BY <1>1 DEF PP!DecisionEffect, PP!RowDecided
  <2> QED
    BY <1>1, <2>1, PP!StoredBody, MaxMinorAssumption, PayoutConstants DEF Types
<1>3. vault[v].locked \in Int /\ vault[v].disbursed \in Int
  BY HeldType
<1>4. \A u \in Vaults : u # w => vault'[u] = vault[u]
  BY <1>1
     DEF PP!DecisionEffect, PP!Reserved, PP!Paid, PP!Released, PP!NothingToRelease,
         PP!BalancesWritten
<1>5. v = w =>
        \/ /\ to = "Approved"
           /\ vault'[v].locked = vault[v].locked + amount
           /\ vault'[v].disbursed = vault[v].disbursed
        \/ /\ to = "Completed"
           /\ vault'[v].locked = vault[v].locked - amount
           /\ vault'[v].disbursed = vault[v].disbursed + amount
        \/ /\ to = "Failed"
           /\ vault'[v].locked = vault[v].locked - amount
           /\ vault'[v].disbursed = vault[v].disbursed
        \/ to # "Approved" /\ vault'[v] = vault[v]
  BY <1>1
     DEF PP!DecisionEffect, PP!Reserved, PP!Paid, PP!Released, PP!NothingToRelease,
         PP!BalancesWritten, PP!WithLockedAndDisbursed
<1>6. PP!Approves(s) <=> to = "Approved"
  BY <1>1 DEF PP!Approves, PP!DecisionEffect
<1>7. /\ v # w => Held(v)' = Held(v)
      /\ to = "Approved" /\ v = w => Held(v)' = Held(v) + amount
      /\ to # "Approved" => Held(v)' <= Held(v)
  BY <1>2, <1>3, <1>4, <1>5 DEF Held
<1> QED
  BY <1>1, <1>6, <1>7

LEMMA PaidByContributing ==
  ASSUME Types, TotalsConfirmed, PaidFromConfirmed, ApprovalsCovered,
         [CP!Next]_(CP!vars), UNCHANGED payoutRows, [Next]_vars
  PROVE  PaidFromConfirmed' /\ ApprovalsCovered'
<1>1. Contributes
  BY ContributingWrites
<1>2. ASSUME NEW v \in Vaults
      PROVE  /\ Held(v) \in Int /\ Held(v)' = Held(v)
             /\ EverConfirmed(v) \in Int /\ EverConfirmed(v)' \in Int
             /\ EverConfirmed(v)' >= EverConfirmed(v)
  BY <1>1, HeldType, ConfirmedStep DEF Contributes, Held
<1>3. PaidFromConfirmed'
  <2> SUFFICES ASSUME NEW v \in Vaults PROVE Held(v)' <= EverConfirmed(v)'
    BY DEF PaidFromConfirmed, Held
  <2>1. Held(v) <= EverConfirmed(v)
    BY DEF PaidFromConfirmed, Held
  <2> QED
    BY <1>2, <2>1
<1>4. ApprovalsCovered'
  <2> SUFFICES ASSUME NEW r \in PayoutTasks, PP!Approves(r)'
               PROVE  (Held(PP!VaultOf(payoutReq[r].id)) + PP!AmountOf(payoutReq[r].id)
                         <= EverConfirmed(PP!VaultOf(payoutReq[r].id)))'
    BY DEF ApprovalsCovered
  <2>1. PICK v, amount : v = PP!VaultOf(payoutReq[r].id) /\ amount = PP!AmountOf(payoutReq[r].id)
    OBVIOUS
  <2>2. /\ PP!Approves(r)
        /\ PP!VaultOf(payoutReq[r].id)' = v
        /\ PP!AmountOf(payoutReq[r].id)' = amount
    BY <2>1 DEF payoutRows, PP!Approves, PP!VaultOf, PP!AmountOf
  <2>3. Held(v) + amount <= EverConfirmed(v) /\ v \in Vaults /\ amount \in Nat
    BY <2>1, <2>2, ApproverId DEF ApprovalsCovered
  <2>4. Held(v)' + amount <= EverConfirmed(v)'
    BY <1>2, <2>3
  <2> QED
    BY <2>2, <2>4 DEF Held, EverConfirmed, Confirmations
<1> QED
  BY <1>3, <1>4

LEMMA PaidByPaying ==
  ASSUME Types, TotalsConfirmed, PaidFromConfirmed, ApprovalsCovered, OneApprover,
         [PP!Next]_(PP!vars), UNCHANGED contributionRows
  PROVE  PaidFromConfirmed' /\ ApprovalsCovered'
<1>1. ASSUME NEW v \in Vaults
      PROVE  /\ Held(v) \in Int
             /\ EverConfirmed(v) \in Int /\ EverConfirmed(v)' = EverConfirmed(v)
             /\ Held(v) <= EverConfirmed(v)
             /\ vault[v].contributed \in Int /\ vault[v].contributed <= EverConfirmed(v)
  <2>1. EverConfirmed(v)' = EverConfirmed(v)
    BY DEF contributionRows, EverConfirmed, Confirmations
  <2>2. Held(v) <= EverConfirmed(v) /\ vault[v].contributed <= EverConfirmed(v)
    BY DEF PaidFromConfirmed, Held, TotalsConfirmed
  <2> QED
    BY <2>1, <2>2, HeldType, EntriesSummable, VaultRowOf
<1>2. ASSUME NEW v \in Vaults
      PROVE  Held(v)' <= EverConfirmed(v)'
  <2>1. CASE UNCHANGED vault
    BY <1>1, <2>1 DEF Held
  <2>2. ASSUME NEW s \in PayoutTasks, PP!DecisionEffect(s)
        PROVE  Held(v)' <= EverConfirmed(v)'
    <3>1. PICK id, amount : id = payoutReq[s].id /\ amount = PP!AmountOf(id)
      OBVIOUS
    <3>2. /\ v # PP!VaultOf(id) => Held(v)' = Held(v)
          /\ PP!Approves(s) /\ v = PP!VaultOf(id) => Held(v)' = Held(v) + amount
          /\ ~PP!Approves(s) => Held(v)' <= Held(v)
          /\ Held(v)' \in Int
      <4>1. Types'
        BY TypesStep, PayingTypes, ContributionTypesKept DEF Types
      <4>2. Held(v)' \in Int
        BY <4>1 DEF Held, Types, PP!TypeInv, PP!TypeOK, PP!VaultRow, PP!Minor
      <4> QED
        BY <2>2, <3>1, <4>2, DecisionHolds
    <3>3. PP!Approves(s) /\ v = PP!VaultOf(id) => Held(v) + amount <= EverConfirmed(v)
      BY <3>1 DEF ApprovalsCovered
    <3> QED
      BY <1>1, <3>2, <3>3
  <2> QED
    BY <2>1, <2>2, PayingEffect DEF Types, PP!RowsSame, PP!RowInserted
<1>3. PaidFromConfirmed'
  BY <1>2 DEF PaidFromConfirmed, Held
<1>4. ASSUME NEW r \in PayoutTasks, PP!Approves(r)'
      PROVE  (Held(PP!VaultOf(payoutReq[r].id)) + PP!AmountOf(payoutReq[r].id)
                <= EverConfirmed(PP!VaultOf(payoutReq[r].id)))'
  <2>1. \/ PP!Approves(r) /\ payoutReq'[r] = payoutReq[r]
        \/ /\ PP!RowsSame
           /\ payoutReq'[r].id \in PP!Recorded
           /\ PP!FundsSuffice(PP!VaultOf(payoutReq'[r].id), PP!AmountOf(payoutReq'[r].id))
    BY <1>4, PP!ApprovalsStep, MaxMinorAssumption, PayoutConstants DEF Types
  <2>2. PICK id, v, amount :
          /\ id = payoutReq'[r].id /\ v = PP!VaultOf(id) /\ amount = PP!AmountOf(id)
    OBVIOUS
  <2>3. /\ id \in PP!Recorded /\ v \in Vaults /\ amount \in Nat
        /\ PP!VaultOf(payoutReq[r].id)' = PP!VaultOf(id)'
        /\ PP!AmountOf(payoutReq[r].id)' = PP!AmountOf(id)'
    <3>1. id \in PP!Recorded
      BY <2>1, <2>2, ApproverId
    <3>2. PP!VaultOf(id) \in Vaults /\ PP!AmountOf(id) \in Nat
      BY <3>1, PP!StoredBody, MaxMinorAssumption, PayoutConstants DEF Types
    <3> QED
      BY <2>2, <3>1, <3>2 DEF PP!VaultOf, PP!AmountOf
  <2>4. PP!VaultOf(id)' = v /\ PP!AmountOf(id)' = amount
    BY <2>2, <2>3, PayingEffect
       DEF Types, PP!RowsSame, PP!RowInserted, PP!DecisionEffect, PP!RowDecided, PP!VaultOf,
           PP!AmountOf
  <2>5. Held(v)' + amount <= EverConfirmed(v)'
    <3>1. CASE PP!RowsSame /\ PP!FundsSuffice(v, amount)
      BY <1>1, <2>3, <3>1, HeldType
         DEF PP!RowsSame, PP!FundsSuffice, PP!Available, Held
    <3>2. CASE PP!Approves(r) /\ payoutReq'[r] = payoutReq[r]
      <4>1. Held(v) + amount <= EverConfirmed(v) /\ id = payoutReq[r].id
        BY <2>2, <3>2 DEF ApprovalsCovered
      <4>2. CASE UNCHANGED vault
        BY <1>1, <2>3, <4>1, <4>2 DEF Held
      <4>3. ASSUME NEW s \in PayoutTasks, PP!DecisionEffect(s)
            PROVE  Held(v)' + amount <= EverConfirmed(v)'
        <5>1. r # s
          BY <1>4, <4>3
             DEF PP!DecisionEffect, PP!Approves, PP!Idle, Types, PP!TypeInv, PP!TypeOK
        <5>2. PP!Approves(s) => v # PP!VaultOf(payoutReq[s].id)
          BY <2>2, <3>2, <4>1, <5>1 DEF OneApprover
        <5>3. Held(v)' \in Int
          <6>1. Types'
            BY PayingTypes, ContributionTypesKept DEF Types
          <6> QED
            BY <2>3, <6>1 DEF Held, Types, PP!TypeInv, PP!TypeOK, PP!VaultRow, PP!Minor
        <5>4. Held(v)' <= Held(v)
          BY <1>1, <2>3, <4>3, <5>2, DecisionHolds
        <5> QED
          BY <1>1, <2>3, <4>1, <5>3, <5>4
      <4> QED
        BY <4>2, <4>3, PayingEffect DEF Types, PP!RowsSame, PP!RowInserted
    <3> QED
      BY <2>1, <2>2, <3>1, <3>2
  <2> QED
    BY <2>3, <2>4, <2>5 DEF Held, EverConfirmed, Confirmations
<1>5. ApprovalsCovered'
  BY <1>4 DEF ApprovalsCovered
<1> QED
  BY <1>3, <1>5

-----------------------------------------------------------------------------
(* The invariant and the theorems about VaultMoney.                        *)

VaultInv ==
  Types /\ CP!LedgerReplaysBalance /\ Accounts /\ Versions /\ TotalsConfirmed

LEMMA VaultInit == Init => VaultInv
<1> SUFFICES ASSUME Init PROVE VaultInv
  OBVIOUS
<1>1. Types
  BY SameInit, CP!TypeInit, PP!TypeInit, MaxMinorAssumption, ContributionConstants,
     PayoutConstants DEF Types
<1>2. Accounts
  BY SameInit, PP!MoneyInit, MaxMinorAssumption, PayoutConstants DEF Accounts, PP!MoneyInv
<1>3. /\ \A v \in Vaults : vault[v].contributed = 0 /\ vault[v].version = 0
      /\ \A v \in Vaults : ledger[v] = << >>
      /\ PP!Recorded = {}
  BY SameInit DEF CP!Init, CP!NewVault, PP!Init, PP!Recorded
<1>4. CP!LedgerReplaysBalance
  BY <1>3 DEF CP!LedgerReplaysBalance, CP!Replays, CP!BalanceBefore
<1>5. Versions
  <2>1. \A v, status : PP!OfVault(v) = {} /\ PP!Counted(v, status) = 0
    <3>1. \A v : PP!OfVault(v) = {}
      BY <1>3 DEF PP!OfVault
    <3>2. \A v, status :
            PP!Counted(v, status) = SumFunction([id \in PP!OfVault(v) |-> PP!Times(id, status)])
      BY SameSums DEF PP!Counted
    <3> QED
      BY <3>1, <3>2, TableEmpty
  <2> QED
    BY <1>3, <2>1 DEF Versions, Counts, Writes
<1>6. TotalsConfirmed
  <2>1. ASSUME NEW v \in Vaults PROVE EverConfirmed(v) = 0
    <3>1. Confirmations(v) = {}
      BY <1>3 DEF Confirmations
    <3> QED
      BY <3>1, TableEmpty DEF EverConfirmed
  <2> QED
    BY <1>3, <2>1 DEF TotalsConfirmed
<1> QED
  BY <1>1, <1>2, <1>4, <1>5, <1>6 DEF VaultInv

LEMMA VaultStep == VaultInv /\ [Next]_vars => VaultInv'
<1> SUFFICES ASSUME VaultInv, [Next]_vars PROVE VaultInv'
  OBVIOUS
<1>1. Types'
  BY TypesStep DEF VaultInv
<1>2. CP!LedgerReplaysBalance'
  BY LedgerStep DEF VaultInv
<1>3. Accounts'
  BY AccountsStep DEF VaultInv
<1>4. Versions'
  BY <1>1, VersionsStep DEF VaultInv
<1>5. TotalsConfirmed'
  BY ConfirmedStep DEF VaultInv, TotalsConfirmed
<1> QED
  BY <1>1, <1>2, <1>3, <1>4, <1>5 DEF VaultInv

LEMMA VaultInvariant == Spec => []VaultInv
BY VaultInit, VaultStep, PTL DEF Spec

\* The two helpers that rewrite a vault row do not overwrite each other's columns:
\* with payouts of the same vault at work, replaying the ledger still reproduces every
\* running balance and the total of the row (update_vault_totals).
THEOREM LedgerExact == Spec => []LedgerReplaysBalance
<1>1. VaultInv => LedgerReplaysBalance
  BY SameLedger DEF VaultInv
<1> QED
  BY <1>1, VaultInvariant, PTL

\* With contributions of the same vault at work, what is reserved and paid still follows
\* the audited decisions (update_vault_locked_and_disbursed).
THEOREM MoneyIsDecided == Spec => []MoneyFollowsDecisions
<1>1. VaultInv => MoneyFollowsDecisions
  BY SameMoney DEF VaultInv, Accounts
<1> QED
  BY <1>1, VaultInvariant, PTL

\* A vault's version counts the transactions of either side that wrote the row: no ledger
\* entry, approval or completion is lost or counted twice, and a failed payout counts once
\* or, when there was nothing to release, not at all.
THEOREM VersionsAreWrites == Spec => []VersionCountsWrites
<1>1. VaultInv => VersionCountsWrites
  BY SameVersions DEF VaultInv
<1> QED
  BY <1>1, VaultInvariant, PTL

LEMMA SerialIsSpec == SerialSpec => Spec
<1>1. [SerialNext]_vars => [Next]_vars
  BY DEF SerialNext
<1> QED
  BY <1>1, PTL DEF SerialSpec, Spec

SpendingInv == PaidFromConfirmed /\ ApprovalsCovered /\ Paying!OneApproverPerVault

LEMMA SpendingInit == Init => SpendingInv
<1> SUFFICES ASSUME Init PROVE SpendingInv
  OBVIOUS
<1>1. \A r \in PayoutTasks : payoutReq[r].op = "idle"
  BY DEF Init, Paying!Init, Paying!Idle
<1>2. ApprovalsCovered /\ Paying!OneApproverPerVault
  BY <1>1 DEF ApprovalsCovered, PP!Approves, Paying!OneApproverPerVault, Paying!Approving
<1>3. VaultInv
  BY VaultInit
<1>4. \A v \in Vaults : vault[v].contributed = 0 /\ vault[v].locked = 0 /\ vault[v].disbursed = 0
  BY SameInit DEF CP!Init, CP!NewVault
<1>5. PaidFromConfirmed
  BY <1>3, <1>4 DEF PaidFromConfirmed, VaultInv, TotalsConfirmed
<1> QED
  BY <1>2, <1>5 DEF SpendingInv

LEMMA SpendingStep == VaultInv /\ SpendingInv /\ [SerialNext]_vars => SpendingInv'
<1> SUFFICES ASSUME VaultInv, SpendingInv, [SerialNext]_vars
             PROVE  SpendingInv'
  OBVIOUS
<1>1. [Next]_vars
  BY DEF SerialNext
<1>2. Paying!OneApproverPerVault'
  <2>1. CASE SerialNext
    BY <2>1 DEF SerialNext
  <2>2. CASE UNCHANGED vars
    BY <2>2
       DEF SpendingInv, vars, payoutRows, Paying!OneApproverPerVault, Paying!Approving,
           Paying!VaultOf
  <2> QED
    BY <2>1, <2>2
<1>3. OneApprover
  BY OneApproverIs DEF SpendingInv, VaultInv
<1>4. PaidFromConfirmed' /\ ApprovalsCovered'
  BY <1>1, <1>3, Sides, PaidByContributing, PaidByPaying DEF VaultInv, SpendingInv
<1> QED
  BY <1>2, <1>4 DEF SpendingInv

\* While approvals of one vault do not overlap, a vault never has more reserved and paid
\* than was ever confirmed in it, even when contributions are reversed between the check
\* of the funds (ensure_available_funds) and the transaction of the approval.
THEOREM SpentWasConfirmed == SerialSpec => []PaidFromConfirmed
<1>1. VaultInv /\ SpendingInv /\ [SerialNext]_vars => SpendingInv'
  BY SpendingStep
<1>2. SpendingInv => PaidFromConfirmed
  BY DEF SpendingInv
<1> QED
  BY <1>1, <1>2, SpendingInit, SerialIsSpec, VaultInvariant, PTL DEF SerialSpec, Spec

-----------------------------------------------------------------------------
(* Both books at once.  What each side keeps while no two tasks handle one *)
(* of its rows it keeps on the shared vaults too: a step of its own is a   *)
(* step as ContributionsProofs and PayoutsProofs have it, and a step of    *)
(* the other side leaves its rows, its tasks and its columns alone.        *)

ContributionBooks ==
  /\ CP!DisciplinedInv
  /\ CP!HistoryInv
  /\ CP!SumInv
  /\ CP!KeysUnique /\ CP!AcksStored

PayoutBooks == PP!ReviewedInv /\ PP!BalancesMatchStatuses /\ PP!KeysUnique

LEMMA SameDisciplines ==
  /\ CP!OneSettlerEach <=> Contributing!OneSettlerEach
  /\ CP!OneSettlerEach' <=> Contributing!OneSettlerEach'
  /\ PP!OneReviewerEach <=> Paying!OneReviewerEach
  /\ PP!OneReviewerEach' <=> Paying!OneReviewerEach'
BY DEF CP!OneSettlerEach, Contributing!OneSettlerEach, PP!OneReviewerEach, Paying!OneReviewerEach

\* A contribution's step, with the discipline, keeps the contributions' books.
LEMMA ContributionBooksStep ==
  ASSUME ContributionBooks, [CP!Next]_(CP!vars), CP!OneSettlerEach'
  PROVE  ContributionBooks'
<1>1. [CP!DisciplinedNext]_(CP!vars) /\ CP!TypeInv
  BY DEF CP!DisciplinedNext, ContributionBooks, CP!DisciplinedInv
<1>2. CP!DisciplinedInv'
  BY <1>1, ContributingTypes, CP!ReadsStep, MaxMinorAssumption, ContributionConstants
     DEF ContributionBooks, CP!DisciplinedInv
<1>3. CP!HistoryInv' /\ CP!SumInv'
  BY CP!HistoryStep, CP!SumStep, MaxMinorAssumption, ContributionConstants DEF ContributionBooks
<1>4. CP!KeysUnique' /\ CP!AcksStored'
  BY <1>1, CP!KeysStep, MaxMinorAssumption, ContributionConstants DEF ContributionBooks
<1> QED
  BY <1>2, <1>3, <1>4 DEF ContributionBooks

\* A payout's step leaves them alone.
LEMMA ContributionBooksKept ==
  ASSUME ContributionBooks, Pays, CP!TypeInv'
  PROVE  ContributionBooks'
<1>1. UNCHANGED <<contribution, ledger, contributionAudit, contributionReq, acked>>
  BY DEF Pays, contributionRows
<1>2. CP!Recorded' = CP!Recorded
  BY <1>1 DEF CP!Recorded
<1>3. \A v : CP!ConfirmedAmounts(v)' = CP!ConfirmedAmounts(v)
  BY <1>1, <1>2 DEF CP!ConfirmedAmounts, CP!ConfirmedOf, CP!VaultOf, CP!AmountOf
<1>4. CP!DisciplinedInv'
  BY <1>1 DEF ContributionBooks, CP!DisciplinedInv, CP!OneSettlerEach, CP!ReadsStillHold
<1>5. CP!HistoryInv'
  BY <1>1, <1>2
     DEF ContributionBooks, CP!HistoryInv, CP!FreshUnaudited, CP!AuditUpToDate, CP!AuditChains
<1>6. CP!TotalIsConfirmedSum'
  BY <1>3 DEF ContributionBooks, CP!SumInv, CP!TotalIsConfirmedSum, CP!ConfirmedAmounts, Pays
<1>7. CP!SumInv' /\ CP!KeysUnique' /\ CP!AcksStored'
  BY <1>1, <1>2, <1>6
     DEF ContributionBooks, CP!SumInv, CP!RowsFinite, CP!KeysUnique, CP!AcksStored, CP!WithKey
<1> QED
  BY <1>4, <1>5, <1>7 DEF ContributionBooks

\* A payout's step, with the discipline, keeps the payouts' books.
LEMMA PayoutBooksStep ==
  ASSUME PayoutBooks, PP!RowsFinite, [PP!Next]_(PP!vars), PP!OneReviewerEach'
  PROVE  PayoutBooks'
<1>1. [PP!ReviewedNext]_(PP!vars) /\ PP!TypeInv
  BY DEF PP!ReviewedNext, PayoutBooks, PP!ReviewedInv
<1>2. PP!ReviewedInv'
  BY <1>1, PayingTypes, PP!ReadsStep, PP!AuditStep, MaxMinorAssumption, PayoutConstants
     DEF PayoutBooks, PP!ReviewedInv
<1>3. \A v \in Vaults : PP!BalancesMatch(v)
  BY DEF PayoutBooks, PP!BalancesMatchStatuses, PP!BalancesMatch, PP!Held, PP!Spent
<1>4. ASSUME NEW v \in Vaults
      PROVE  /\ vault'[v].locked = PP!SumOf(v, PP!Held)'
             /\ vault'[v].disbursed = PP!SumOf(v, PP!Spent)'
  BY <1>3, PP!BalancesStep, MaxMinorAssumption, PayoutConstants DEF PayoutBooks
<1>5. PP!BalancesMatchStatuses'
  BY <1>4 DEF PP!BalancesMatchStatuses, PP!Held, PP!Spent
<1>6. PP!KeysUnique'
  BY <1>1, PP!KeysStep, MaxMinorAssumption, PayoutConstants DEF PayoutBooks
<1> QED
  BY <1>2, <1>5, <1>6 DEF PayoutBooks

\* A contribution's step leaves them alone.
LEMMA PayoutBooksKept ==
  ASSUME PayoutBooks, Contributes, PP!TypeInv'
  PROVE  PayoutBooks'
<1>1. UNCHANGED <<payout, school, payoutAudit, payoutReq>>
  BY DEF Contributes, payoutRows
<1>2. PP!Recorded' = PP!Recorded
  BY <1>1 DEF PP!Recorded
<1>3. \A v, statuses : PP!SumOf(v, statuses)' = PP!SumOf(v, statuses)
  BY <1>1, <1>2 DEF PP!SumOf, PP!OfVault, PP!VaultOf, PP!AmountOf
<1>4. PP!BalancesMatchStatuses'
  BY <1>3 DEF PayoutBooks, PP!BalancesMatchStatuses, Contributes
<1>5. PP!ReviewedInv'
  BY <1>1, <1>2
     DEF PayoutBooks, PP!ReviewedInv, PP!OneReviewerEach, PP!ReadsStillHold, PP!AuditUpToDate,
         PP!AuditChains
<1>6. PP!KeysUnique'
  BY <1>1, <1>2 DEF PayoutBooks, PP!KeysUnique
<1> QED
  BY <1>4, <1>5, <1>6 DEF PayoutBooks

LEMMA BothBooksInit == Init => ContributionBooks /\ PayoutBooks
<1>1. CP!Init => ContributionBooks
  BY CP!DisciplinedInit, CP!BooksInit, CP!KeysInit, MaxMinorAssumption, ContributionConstants
     DEF ContributionBooks
<1>2. PP!Init => PayoutBooks
  BY PP!ReviewedInit, PP!BalancesInit, PP!KeysInit, MaxMinorAssumption, PayoutConstants
     DEF PayoutBooks
<1> QED
  BY <1>1, <1>2, SameInit

LEMMA SerialDisciplines ==
  ASSUME ContributionBooks, PayoutBooks, [SerialNext]_vars
  PROVE  CP!OneSettlerEach' /\ PP!OneReviewerEach'
<1>1. CASE SerialNext
  BY <1>1, SameDisciplines DEF SerialNext
<1>2. CASE UNCHANGED vars
  BY <1>2
     DEF vars, contributionRows, payoutRows, ContributionBooks, PayoutBooks, CP!DisciplinedInv,
         PP!ReviewedInv, CP!OneSettlerEach, PP!OneReviewerEach
<1> QED
  BY <1>1, <1>2

LEMMA BothBooksStep ==
  VaultInv /\ ContributionBooks /\ PayoutBooks /\ [SerialNext]_vars
    => ContributionBooks' /\ PayoutBooks'
<1> SUFFICES ASSUME VaultInv, ContributionBooks, PayoutBooks, [SerialNext]_vars
             PROVE  ContributionBooks' /\ PayoutBooks'
  OBVIOUS
<1>1. [Next]_vars
  BY DEF SerialNext
<1>2. Types /\ Types' /\ PP!RowsFinite
  BY <1>1, TypesStep DEF VaultInv, Accounts
<1>3. CASE [CP!Next]_(CP!vars) /\ UNCHANGED payoutRows
  BY <1>2, <1>3, ContributingWrites, SerialDisciplines, ContributionBooksStep, PayoutBooksKept
     DEF Types
<1>4. CASE [PP!Next]_(PP!vars) /\ UNCHANGED contributionRows
  BY <1>2, <1>4, PayingWrites, SerialDisciplines, PayoutBooksStep, ContributionBooksKept
     DEF Types
<1> QED
  BY <1>1, <1>3, <1>4, Sides

LEMMA BothBooks == SerialSpec => [](ContributionBooks /\ PayoutBooks)
BY BothBooksInit, BothBooksStep, VaultInvariant, SerialIsSpec, PTL DEF SerialSpec

LEMMA SameColumns ==
  /\ CP!TotalIsConfirmedSum <=> Contributing!TotalIsConfirmedSum
  /\ PP!BalancesMatchStatuses <=> Paying!BalancesMatchStatuses
<1>1. \A f : CP!SumFunction(f) = Contributing!SumFunction(f)
  BY Zenon
     DEF CP!SumFunction, CP!SumFunctionOnSet, CP!FoldFunctionOnSet, CP!MapThenFoldSet,
         Contributing!SumFunction, Contributing!SumFunctionOnSet,
         Contributing!FoldFunctionOnSet, Contributing!MapThenFoldSet
<1>2. CP!TotalIsConfirmedSum <=> Contributing!TotalIsConfirmedSum
  BY <1>1
     DEF CP!TotalIsConfirmedSum, CP!ConfirmedOf, CP!Recorded, CP!VaultOf, CP!AmountOf,
         Contributing!TotalIsConfirmedSum, Contributing!ConfirmedOf, Contributing!Recorded,
         Contributing!VaultOf, Contributing!AmountOf
<1>3. \A v, statuses : PP!SumOf(v, statuses) = Paying!SumOf(v, statuses)
  BY SameSums, SamePayouts DEF PP!SumOf, Paying!SumOf
<1>4. PP!BalancesMatchStatuses <=> Paying!BalancesMatchStatuses
  BY <1>3 DEF PP!BalancesMatchStatuses, Paying!BalancesMatchStatuses
<1> QED
  BY <1>2, <1>4

\* While no two tasks handle one row and approvals of a vault do not overlap, all three
\* columns of a vault are what its rows say: the sum of its confirmed contributions, of
\* its approved and processing payouts, and of its completed ones.  Contributions and
\* payouts of one vault race all the same; update_vault_totals and
\* update_vault_locked_and_disbursed keep out of each other's columns.
THEOREM ColumnsAreRows ==
  SerialSpec => [](Contributing!TotalIsConfirmedSum /\ Paying!BalancesMatchStatuses)
<1>1. ContributionBooks /\ PayoutBooks
        => Contributing!TotalIsConfirmedSum /\ Paying!BalancesMatchStatuses
  BY SameColumns DEF ContributionBooks, PayoutBooks, CP!SumInv
<1> QED
  BY <1>1, BothBooks, PTL

\* Under the same disciplines the audit rows of every contribution and of every payout
\* are its history, whatever the other side commits in between.
THEOREM TrailsAreHistories == SerialSpec => [](Contributing!AuditChains /\ Paying!AuditChains)
<1>1. ContributionBooks /\ PayoutBooks => Contributing!AuditChains /\ Paying!AuditChains
  BY DEF ContributionBooks, PayoutBooks, CP!HistoryInv, CP!AuditChains, PP!ReviewedInv,
         PP!AuditChains, Contributing!AuditChains, Paying!AuditChains
<1> QED
  BY <1>1, BothBooks, PTL

\* Under the disciplines every failure finds its reservation, so the version counts the
\* writes exactly.
ExactVersions ==
  \A v \in Vaults :
    vault[v].version = Len(ledger[v]) + Decisions(v, "Approved") + Decisions(v, "Completed")
                         + Decisions(v, "Failed")

Exactly(v) == vault[v].version = Writes(v) + PP!Counted(v, "Failed")

AllExactly == \A v \in Vaults : Exactly(v)

LEMMA SameExactly == AllExactly <=> ExactVersions
BY SameCounts DEF AllExactly, ExactVersions, Exactly, Writes

\* A step that counts a failure writes the vault of the payout that fails.
LEMMA FailureWrites ==
  ASSUME Types, Accounts, PayoutBooks, Types', [PP!Next]_(PP!vars), NEW v \in Vaults,
         PP!Counted(v, "Failed")' # PP!Counted(v, "Failed")
  PROVE  vault'[v].version = vault[v].version + 1
<1>1. ~PP!RowsSame
  BY DEF PP!RowsSame, PP!Counted, PP!OfVault, PP!Recorded, PP!VaultOf, PP!Times
<1>2. ASSUME NEW id \in PayoutIds, PP!RowInserted(id)
      PROVE  FALSE
  BY <1>2, PP!CountedInsert, MaxMinorAssumption, PayoutConstants DEF Types, Accounts
<1>3. ASSUME NEW r \in PayoutTasks, PP!DecisionEffect(r)
      PROVE  vault'[v].version = vault[v].version + 1
  <2>1. PICK id, from, to, w :
          /\ id = payoutReq[r].id /\ from = payoutReq[r].from /\ to = payoutReq[r].to
          /\ w = PP!VaultOf(id)
    OBVIOUS
  <2>2. PP!RowDecided(id, from, to)
    BY <1>3, <2>1 DEF PP!DecisionEffect
  <2>3. v = w /\ to = "Failed"
    BY <2>1, <2>2, PP!CountedGrows, MaxMinorAssumption, PayoutConstants DEF Types, Accounts
  <2>4. PP!Released(id)
    BY <1>3, <2>1, <2>3, PP!FailureReleases, MaxMinorAssumption, PayoutConstants
       DEF PayoutBooks, Accounts
  <2> QED
    BY <2>1, <2>3, <2>4 DEF PP!Released, PP!BalancesWritten, PP!WithLockedAndDisbursed
<1> QED
  BY <1>1, <1>2, <1>3, PayingEffect DEF Types

LEMMA ExactlyStep ==
  ASSUME Types, Types', Accounts, PayoutBooks, NEW v \in Vaults, Exactly(v), [Next]_vars
  PROVE  Exactly(v)'
<1>1. /\ Writes(v) \in Int
      /\ PP!Counted(v, "Failed") \in Int
      /\ vault[v].version \in Nat
  BY CountTypes, VaultRowOf DEF Accounts, Writes
<1>2. CASE [CP!Next]_(CP!vars) /\ UNCHANGED payoutRows
  <2>1. /\ PP!Counted(v, "Failed")' = PP!Counted(v, "Failed")
        /\ \/ Writes(v)' = Writes(v) + 1 /\ vault'[v].version = vault[v].version + 1
           \/ Writes(v)' = Writes(v) /\ vault'[v].version = vault[v].version
    BY <1>2, ContributingVersions
  <2> QED
    BY <1>1, <2>1 DEF Exactly
<1>3. CASE [PP!Next]_(PP!vars) /\ UNCHANGED contributionRows
  <2>1. \/ /\ Writes(v)' = Writes(v) + 1
           /\ vault'[v].version = vault[v].version + 1
           /\ PP!Counted(v, "Failed")' = PP!Counted(v, "Failed")
        \/ /\ Writes(v)' = Writes(v)
           /\ PP!Counted(v, "Failed")' = PP!Counted(v, "Failed") + 1
        \/ /\ Writes(v)' = Writes(v)
           /\ vault'[v].version = vault[v].version
           /\ PP!Counted(v, "Failed")' = PP!Counted(v, "Failed")
    BY <1>3, PayingVersions
  <2>2. PP!Counted(v, "Failed")' # PP!Counted(v, "Failed")
          => vault'[v].version = vault[v].version + 1
    BY <1>3, FailureWrites
  <2> QED
    BY <1>1, <2>1, <2>2 DEF Exactly
<1> QED
  BY <1>2, <1>3, Sides

\* While no two tasks handle one row and approvals of a vault do not overlap, the version
\* of a vault is the number of its ledger entries and of the decisions that approved,
\* completed or failed a payout of it: each of them wrote the row once, and nothing else
\* did (update_vault_totals and update_vault_locked_and_disbursed never compare it).
THEOREM VersionsAreExact == SerialSpec => []ExactVersions
<1>1. Init => AllExactly
  <2> SUFFICES ASSUME Init, NEW v \in Vaults PROVE Exactly(v)
    BY DEF AllExactly
  <2>1. VaultInv /\ PP!Recorded = {}
    BY VaultInit, SameInit DEF PP!Init, PP!Recorded
  <2>2. Writes(v) \in Int /\ vault[v].version \in Int
    BY <2>1, CountTypes, VaultRowOf DEF VaultInv, Accounts, Writes
  <2>3. PP!Counted(v, "Failed") = 0
    <3>1. PP!OfVault(v) = {}
      BY <2>1 DEF PP!OfVault
    <3>2. PP!Counted(v, "Failed")
            = SumFunction([id \in PP!OfVault(v) |-> PP!Times(id, "Failed")])
      BY SameSums DEF PP!Counted
    <3> QED
      BY <3>1, <3>2, TableEmpty
  <2> QED
    BY <2>1, <2>2, <2>3 DEF VaultInv, Versions, Counts, Exactly
<1>2. VaultInv /\ PayoutBooks /\ AllExactly /\ [Next]_vars => AllExactly'
  <2> SUFFICES ASSUME VaultInv, PayoutBooks, AllExactly, [Next]_vars,
                      NEW v \in Vaults
               PROVE  Exactly(v)'
    BY DEF AllExactly
  <2> QED
    BY TypesStep, ExactlyStep DEF VaultInv, AllExactly
<1> QED
  BY <1>1, <1>2, SameExactly, BothBooks, VaultInvariant, SerialIsSpec, PTL DEF SerialSpec, Spec

\* A step of a status, as validate_transition of either side allows it.
LegalContribution ==
  \A id \in Contributing!Recorded :
    contribution'[id].status # contribution[id].status
      => <<contribution[id].status, contribution'[id].status>> \in Contributing!LegalMoves

LegalPayout ==
  \A id \in Paying!Recorded :
    payout'[id].status # payout[id].status
      => <<payout[id].status, payout'[id].status>> \in Paying!LegalMoves

\* Under the same disciplines a status only moves along validate_transition, on either
\* side: the validation made on a row read outside the transaction is then enough.
THEOREM MovesAreLegal == SerialSpec => Contributing!LegalMovesOnly /\ Paying!LegalMovesOnly
<1>1. VaultInv /\ ContributionBooks /\ PayoutBooks /\ [SerialNext]_vars
        => [LegalContribution]_contribution /\ [LegalPayout]_payout
  <2> SUFFICES ASSUME VaultInv, ContributionBooks, PayoutBooks, [SerialNext]_vars
               PROVE  [LegalContribution]_contribution /\ [LegalPayout]_payout
    OBVIOUS
  <2>1. CASE [CP!Next]_(CP!vars) /\ UNCHANGED payoutRows
    <3>1. [CP!DisciplinedNext]_(CP!vars)
      BY <2>1, SerialDisciplines DEF CP!DisciplinedNext
    <3>2. [CP!LegalStep]_contribution
      BY <3>1, CP!DisciplinedLegal, MaxMinorAssumption, ContributionConstants
         DEF ContributionBooks
    <3> QED
      BY <2>1, <3>2
         DEF payoutRows, CP!LegalStep, CP!Recorded, CP!LegalMoves, LegalContribution,
             Contributing!Recorded, Contributing!LegalMoves
  <2>2. CASE [PP!Next]_(PP!vars) /\ UNCHANGED contributionRows
    <3>1. [PP!ReviewedNext]_(PP!vars)
      BY <2>2, SerialDisciplines DEF PP!ReviewedNext
    <3>2. [PP!LegalStep]_payout
      BY <3>1, PP!ReviewedLegal, MaxMinorAssumption, PayoutConstants DEF PayoutBooks
    <3> QED
      BY <2>2, <3>2
         DEF contributionRows, PP!LegalStep, PP!Recorded, PP!LegalMoves, LegalPayout,
             Paying!Recorded, Paying!LegalMoves
  <2> QED
    BY <2>1, <2>2, Sides DEF SerialNext
<1> QED
  BY <1>1, BothBooks, VaultInvariant, SerialIsSpec, PTL
     DEF SerialSpec, Contributing!LegalMovesOnly, Paying!LegalMovesOnly, LegalContribution,
         LegalPayout

LEMMA SameContributionBook ==
  /\ CP!Book!BookInit => Contributing!Book!BookInit
  /\ CP!Book!BookNext => Contributing!Book!BookNext
  /\ UNCHANGED CP!Book!bookVars => UNCHANGED Contributing!Book!bookVars
<1>1. \A k : CP!Shown(k) = Contributing!Shown(k)
  BY DEF CP!Shown, CP!WithKey, CP!Recorded, Contributing!Shown, Contributing!WithKey,
         Contributing!Recorded
<1>2. \A k : CP!Shown(k)' = Contributing!Shown(k)'
  BY DEF CP!Shown, CP!WithKey, CP!Recorded, Contributing!Shown, Contributing!WithKey,
         Contributing!Recorded
<1>3. CP!Book!BookInit => Contributing!Book!BookInit
  BY <1>1 DEF CP!Book!BookInit, Contributing!Book!BookInit
<1>4. UNCHANGED CP!Book!bookVars => UNCHANGED Contributing!Book!bookVars
  BY <1>1, <1>2 DEF CP!Book!bookVars, Contributing!Book!bookVars
<1>5. CP!Book!BookNext => Contributing!Book!BookNext
  BY Zenon
     DEF CP!Book!BookNext, CP!Book!Record, CP!Book!Confirm, CP!Book!Fail, CP!Book!Reverse,
         CP!Book!InStatus, CP!Book!SetStatus, CP!Book!Credit, CP!Shown, CP!WithKey,
         CP!Recorded, Contributing!Book!BookNext, Contributing!Book!Record,
         Contributing!Book!Confirm, Contributing!Book!Fail, Contributing!Book!Reverse,
         Contributing!Book!InStatus, Contributing!Book!SetStatus,
         Contributing!Book!Credit, Contributing!Shown, Contributing!WithKey,
         Contributing!Recorded
<1> QED
  BY <1>3, <1>4, <1>5

LEMMA ContributionBookKept == Pays => UNCHANGED CP!Book!bookVars
<1> SUFFICES ASSUME Pays PROVE UNCHANGED CP!Book!bookVars
  OBVIOUS
<1>1. \A k : CP!Shown(k)' = CP!Shown(k)
  BY DEF Pays, contributionRows, CP!Shown, CP!WithKey, CP!Recorded
<1>2. [v \in Vaults |-> vault[v].contributed]' = [v \in Vaults |-> vault[v].contributed]
  BY DEF Pays
<1> QED
  BY <1>1, <1>2 DEF CP!Book!bookVars

LEMMA SamePayoutBook ==
  /\ PP!Book!BookInit => Paying!Book!BookInit
  /\ PP!Book!BookNext => Paying!Book!BookNext
  /\ UNCHANGED PP!Book!bookVars => UNCHANGED Paying!Book!bookVars
<1>1. \A k : PP!Shown(k) = Paying!Shown(k)
  BY DEF PP!Shown, PP!WithKey, PP!Recorded, Paying!Shown, Paying!WithKey, Paying!Recorded
<1>2. \A k : PP!Shown(k)' = Paying!Shown(k)'
  BY DEF PP!Shown, PP!WithKey, PP!Recorded, Paying!Shown, Paying!WithKey, Paying!Recorded
<1>3. PP!Book!BookInit => Paying!Book!BookInit
  BY <1>1 DEF PP!Book!BookInit, Paying!Book!BookInit
<1>4. UNCHANGED PP!Book!bookVars => UNCHANGED Paying!Book!bookVars
  BY <1>1, <1>2 DEF PP!Book!bookVars, Paying!Book!bookVars
<1>5. PP!Book!BookNext => Paying!Book!BookNext
  BY Zenon
     DEF PP!Book!BookNext, PP!Book!Request, PP!Book!Review, PP!Book!Approve,
         PP!Book!Complete, PP!Book!Fail, PP!Book!Move, PP!Book!Transfer, PP!Shown,
         PP!WithKey, PP!Recorded, Paying!Book!BookNext, Paying!Book!Request,
         Paying!Book!Review, Paying!Book!Approve, Paying!Book!Complete, Paying!Book!Fail,
         Paying!Book!Move, Paying!Book!Transfer, Paying!Shown, Paying!WithKey,
         Paying!Recorded
<1> QED
  BY <1>3, <1>4, <1>5

LEMMA PayoutBookKept == Contributes => UNCHANGED PP!Book!bookVars
<1> SUFFICES ASSUME Contributes PROVE UNCHANGED PP!Book!bookVars
  OBVIOUS
<1>1. \A k : PP!Shown(k)' = PP!Shown(k)
  BY DEF Contributes, payoutRows, PP!Shown, PP!WithKey, PP!Recorded
<1>2. /\ [v \in Vaults |-> vault[v].locked]' = [v \in Vaults |-> vault[v].locked]
      /\ [v \in Vaults |-> vault[v].disbursed]' = [v \in Vaults |-> vault[v].disbursed]
  BY DEF Contributes
<1> QED
  BY <1>1, <1>2 DEF PP!Book!bookVars

\* A step on the shared vaults is at most one step of either book.
LEMMA BothBooksFollow ==
  VaultInv /\ ContributionBooks /\ PayoutBooks /\ [SerialNext]_vars
    => /\ [Contributing!Book!BookNext]_(Contributing!Book!bookVars)
       /\ [Paying!Book!BookNext]_(Paying!Book!bookVars)
<1> SUFFICES ASSUME VaultInv, ContributionBooks, PayoutBooks, [SerialNext]_vars
             PROVE  /\ CP!Book!BookNext \/ UNCHANGED CP!Book!bookVars
                    /\ PP!Book!BookNext \/ UNCHANGED PP!Book!bookVars
  BY SameContributionBook, SamePayoutBook
<1>1. [Next]_vars /\ Types /\ PP!RowsFinite
  BY DEF SerialNext, VaultInv, Accounts
<1>2. CASE [CP!Next]_(CP!vars) /\ UNCHANGED payoutRows
  <2>1. [CP!DisciplinedNext]_(CP!vars)
    BY <1>2, SerialDisciplines DEF CP!DisciplinedNext
  <2>2. CP!Book!BookNext \/ UNCHANGED CP!Book!bookVars
    BY <2>1, CP!BookStep, MaxMinorAssumption, ContributionConstants DEF ContributionBooks
  <2> QED
    BY <1>1, <1>2, <2>2, ContributingWrites, PayoutBookKept
<1>3. CASE [PP!Next]_(PP!vars) /\ UNCHANGED contributionRows
  <2>1. [PP!ReviewedNext]_(PP!vars)
    BY <1>3, SerialDisciplines DEF PP!ReviewedNext
  <2>2. PP!Book!BookNext \/ UNCHANGED PP!Book!bookVars
    BY <1>1, <2>1, PP!BookStep, MaxMinorAssumption, PayoutConstants DEF PayoutBooks
  <2> QED
    BY <1>1, <1>3, <2>2, PayingWrites, ContributionBookKept
<1> QED
  BY <1>1, <1>2, <1>3, Sides

\* Both books are kept although each side writes the other's vaults: to an observer of
\* keys, statuses and totals contributions are settled atomically, to one of statuses and
\* reserved and paid money payouts are decided atomically, and for neither of them the
\* other side is there.
THEOREM VaultKeepsTheBooks == SerialSpec => Contributing!ImplementsBook /\ Paying!ImplementsBook
<1>1. Init => Contributing!Book!BookInit /\ Paying!Book!BookInit
  BY SameInit, SameContributionBook, SamePayoutBook, CP!BookInit, PP!BookInit,
     MaxMinorAssumption, ContributionConstants, PayoutConstants
<1> QED
  BY <1>1, BothBooksFollow, BothBooks, VaultInvariant, SerialIsSpec, PTL
     DEF SerialSpec, Spec, Contributing!ImplementsBook, Contributing!Book!BookSpec,
         Paying!ImplementsBook, Paying!Book!BookSpec

-----------------------------------------------------------------------------
(* VaultLocks.  What a transaction has read of its row and of its vault is *)
(* still what they hold, because both are locked, and no two transactions  *)
(* hold the same row or the same vault.                                    *)

Live(t) == tx[t] # NoTx /\ ReqOf(t).op # "idle"

KeepsRow(t) == tx[t].phase \in {"row", "vault"}

KeepsVault(t) == tx[t].phase = "vault"

\* The transaction of a task that still waits for it.
TxSound(t) ==
  /\ ReqOf(t).op \in {"settle", "decide"}
  /\ tx[t].id = ReqOf(t).id
  /\ tx[t].vault = VaultOf(t)
  /\ KeepsRow(t) => tx[t].status = RowOf(t).status
  /\ KeepsVault(t) => tx[t].read = vault[tx[t].vault]

Exclusive(s, t) ==
  /\ KeepsRow(s) /\ KeepsRow(t) => tx[s].id # tx[t].id
  /\ KeepsVault(s) /\ KeepsVault(t) => tx[s].vault # tx[t].vault

LockInv ==
  /\ tx = [t \in Tasks |-> tx[t]]
  /\ \A t \in Tasks : Live(t) => TxSound(t)
  /\ \A s, t \in Tasks : s # t => Exclusive(s, t)

\* A step that lets go of a transaction or leaves it, its task and what it holds alone.
Undisturbed(s) ==
  /\ tx'[s] = tx[s]
  /\ \/ ReqOf(s)'.op = "idle"
     \/ /\ ReqOf(s)' = ReqOf(s)
        /\ Live(s) =>
             /\ VaultOf(s)' = VaultOf(s)
             /\ KeepsRow(s) => RowOf(s)'.status = RowOf(s).status
             /\ KeepsVault(s) => vault'[tx[s].vault] = vault[tx[s].vault]

LEMMA NoTxKeepsNothing ==
  /\ NoTx.phase = "none"
  /\ \A t : KeepsVault(t) => KeepsRow(t)
  /\ \A t : KeepsRow(t) => tx[t] # NoTx
  /\ \A t : KeepsRow(t)' => tx'[t] # NoTx
BY DEF NoTx, KeepsRow, KeepsVault

LEMMA LockInvKept ==
  ASSUME LockInv, tx' = [s \in Tasks |-> tx'[s]],
         \A s \in Tasks : tx'[s] # NoTx => Undisturbed(s)
  PROVE  LockInv'
<1>1. ASSUME NEW t \in Tasks, Live(t)'
      PROVE  TxSound(t)'
  <2>1. Undisturbed(t) /\ tx'[t] # NoTx /\ ReqOf(t)'.op # "idle"
    BY <1>1 DEF Live, NoTx
  <2>2. Live(t) /\ ReqOf(t)' = ReqOf(t)
    BY <2>1 DEF Undisturbed, Live
  <2>3. TxSound(t)
    BY <2>2 DEF LockInv
  <2> QED
    BY <2>1, <2>2, <2>3 DEF Undisturbed, TxSound, KeepsRow, KeepsVault
<1>2. ASSUME NEW s \in Tasks, NEW t \in Tasks, s # t
      PROVE  Exclusive(s, t)'
  <2>1. Exclusive(s, t)
    BY <1>2 DEF LockInv
  <2>2. KeepsRow(s)' => tx'[s] = tx[s]
    BY NoTxKeepsNothing DEF Undisturbed
  <2>3. KeepsRow(t)' => tx'[t] = tx[t]
    BY NoTxKeepsNothing DEF Undisturbed
  <2> QED
    BY <2>1, <2>2, <2>3 DEF Exclusive, KeepsRow, KeepsVault
<1> QED
  BY <1>1, <1>2 DEF LockInv

LEMMA ContributionTask ==
  ASSUME NEW t \in ContributionTasks
  PROVE  /\ t \in Tasks
         /\ ReqOf(t) = contributionReq[t]
         /\ ReqOf(t)' = contributionReq'[t]
         /\ RowOf(t) = contribution[contributionReq[t].id]
         /\ RowOf(t)' = contribution'[contributionReq'[t].id]
         /\ VaultOf(t) = contribution[contributionReq[t].id].intent.vault
         /\ VaultOf(t)' = contribution'[contributionReq'[t].id].intent.vault
         /\ AmountOf(t) = contribution[contributionReq[t].id].intent.amount
BY DEF Tasks, ReqOf, RowOf, VaultOf, AmountOf, Contributing!VaultOf, Contributing!AmountOf

LEMMA PayoutTask ==
  ASSUME NEW t \in PayoutTasks
  PROVE  /\ t \in Tasks
         /\ t \notin ContributionTasks
         /\ ReqOf(t) = payoutReq[t]
         /\ ReqOf(t)' = payoutReq'[t]
         /\ RowOf(t) = payout[payoutReq[t].id]
         /\ RowOf(t)' = payout'[payoutReq'[t].id]
         /\ VaultOf(t) = payout[payoutReq[t].id].body.vault
         /\ VaultOf(t)' = payout'[payoutReq'[t].id].body.vault
         /\ AmountOf(t) = payout[payoutReq[t].id].body.amount
<1>1. t \in Tasks /\ t \notin ContributionTasks
  BY VaultLocksAssumption DEF Tasks
<1> QED
  BY <1>1 DEF ReqOf, RowOf, VaultOf, AmountOf, Paying!VaultOf, Paying!AmountOf

LEMMA TaskOps ==
  ASSUME Types
  PROVE  /\ contributionReq = [r \in ContributionTasks |-> contributionReq[r]]
         /\ payoutReq = [r \in PayoutTasks |-> payoutReq[r]]
         /\ \A r \in ContributionTasks :
              /\ contributionReq[r].op \in {"idle", "create", "settle"}
              /\ contributionReq[r].op = "settle" =>
                   contributionReq[r].id \in CP!Recorded /\ contributionReq[r].to \in CP!Targets
         /\ \A r \in PayoutTasks :
              /\ payoutReq[r].op \in {"idle", "create", "review", "decide"}
              /\ payoutReq[r].op = "decide" =>
                   payoutReq[r].id \in PP!Recorded /\ payoutReq[r].to \in PP!Targets
<1>1. contributionReq \in [ContributionTasks -> CP!RequestState]
  BY DEF Types, CP!TypeInv, CP!TypeOK
<1>2. payoutReq \in [PayoutTasks -> PP!RequestState]
  BY DEF Types, PP!TypeInv, PP!TypeOK
<1>3. \A r \in ContributionTasks :
        /\ contributionReq[r].op \in {"idle", "create", "settle"}
        /\ contributionReq[r].op = "settle" => contributionReq[r] \in CP!Settling
  BY <1>1 DEF CP!RequestState, CP!Idle, CP!Creating, CP!Settling
<1>4. \A r \in PayoutTasks :
        /\ payoutReq[r].op \in {"idle", "create", "review", "decide"}
        /\ payoutReq[r].op = "decide" => payoutReq[r] \in PP!Deciding
  BY <1>2 DEF PP!RequestState, PP!Idle, PP!Creating, PP!Reviewing, PP!Deciding
<1>5. \A r \in ContributionTasks :
        contributionReq[r].op = "settle" => contributionReq[r].id \in CP!Recorded
  BY DEF Types, CP!TypeInv, CP!TasksSound
<1>6. \A r \in PayoutTasks : payoutReq[r].op = "decide" => payoutReq[r].id \in PP!Recorded
  BY DEF Types, PP!TypeInv, PP!TasksSound
<1> QED
  BY <1>1, <1>2, <1>3, <1>4, <1>5, <1>6 DEF CP!Settling, PP!Deciding

\* A task with an open transaction is idle, or waits for the transaction.
LEMMA OpenOps ==
  ASSUME Types, LockInv, NEW t \in Tasks, tx[t] # NoTx, ReqOf(t).op # "idle"
  PROVE  /\ TxSound(t)
         /\ t \in ContributionTasks => ReqOf(t).op = "settle" /\ ReqOf(t).id \in CP!Recorded
         /\ t \in PayoutTasks => ReqOf(t).op = "decide" /\ ReqOf(t).id \in PP!Recorded
<1>1. TxSound(t)
  BY DEF LockInv, Live
<1>2. ASSUME t \in ContributionTasks
      PROVE  ReqOf(t).op = "settle" /\ ReqOf(t).id \in CP!Recorded
  BY <1>1, <1>2, ContributionTask, TaskOps DEF TxSound
<1>3. ASSUME t \in PayoutTasks
      PROVE  ReqOf(t).op = "decide" /\ ReqOf(t).id \in PP!Recorded
  BY <1>1, <1>3, PayoutTask, TaskOps DEF TxSound
<1> QED
  BY <1>1, <1>2, <1>3

(* Steps that open no transaction and end none.                            *)

LEMMA ContributionFrame ==
  ASSUME Types, LockInv, NEW t \in ContributionTasks, tx[t] = NoTx,
         UNCHANGED <<vault, payout, payoutReq, tx>>,
         \A r \in ContributionTasks : r # t => contributionReq'[r] = contributionReq[r],
         \A id \in CP!Recorded : contribution'[id] = contribution[id]
  PROVE  LockInv'
<1> SUFFICES ASSUME NEW s \in Tasks, tx'[s] # NoTx
             PROVE  Undisturbed(s)
  <2>1. tx' = [r \in Tasks |-> tx'[r]]
    BY DEF LockInv
  <2> QED
    BY <2>1, LockInvKept
<1>1. s # t /\ tx'[s] = tx[s]
  OBVIOUS
<1>2. CASE s \in ContributionTasks
  <2>1. ReqOf(s)' = ReqOf(s)
    BY <1>1, <1>2, ContributionTask
  <2>2. Live(s) => contribution'[contributionReq[s].id] = contribution[contributionReq[s].id]
    BY <1>1, <1>2, ContributionTask, OpenOps DEF Live
  <2>3. Live(s) => VaultOf(s)' = VaultOf(s) /\ RowOf(s)' = RowOf(s)
    BY <1>2, <2>1, <2>2, ContributionTask
  <2> QED
    BY <1>1, <2>1, <2>3 DEF Undisturbed
<1>3. CASE s \in PayoutTasks
  <2>1. ReqOf(s)' = ReqOf(s) /\ VaultOf(s)' = VaultOf(s) /\ RowOf(s)' = RowOf(s)
    BY <1>3, PayoutTask
  <2> QED
    BY <1>1, <2>1 DEF Undisturbed
<1> QED
  BY <1>2, <1>3 DEF Tasks

LEMMA PayoutFrame ==
  ASSUME Types, LockInv, NEW t \in PayoutTasks, tx[t] = NoTx,
         UNCHANGED <<vault, contribution, contributionReq, tx>>,
         \A r \in PayoutTasks : r # t => payoutReq'[r] = payoutReq[r],
         \A id \in PP!Recorded : payout'[id] = payout[id]
  PROVE  LockInv'
<1> SUFFICES ASSUME NEW s \in Tasks, tx'[s] # NoTx
             PROVE  Undisturbed(s)
  <2>1. tx' = [r \in Tasks |-> tx'[r]]
    BY DEF LockInv
  <2> QED
    BY <2>1, LockInvKept
<1>1. s # t /\ tx'[s] = tx[s]
  OBVIOUS
<1>2. CASE s \in PayoutTasks
  <2>1. ReqOf(s)' = ReqOf(s)
    BY <1>1, <1>2, PayoutTask
  <2>2. Live(s) => payout'[payoutReq[s].id] = payout[payoutReq[s].id]
    BY <1>1, <1>2, PayoutTask, OpenOps DEF Live
  <2>3. Live(s) => VaultOf(s)' = VaultOf(s) /\ RowOf(s)' = RowOf(s)
    BY <1>2, <2>1, <2>2, PayoutTask
  <2> QED
    BY <1>1, <2>1, <2>3 DEF Undisturbed
<1>3. CASE s \in ContributionTasks
  <2>1. ReqOf(s)' = ReqOf(s) /\ VaultOf(s)' = VaultOf(s) /\ RowOf(s)' = RowOf(s)
    BY <1>3, ContributionTask
  <2> QED
    BY <1>1, <2>1 DEF Undisturbed
<1> QED
  BY <1>2, <1>3 DEF Tasks

\* Nothing but transactions changes.
LEMMA TxFrame ==
  ASSUME LockInv, UNCHANGED vars, tx' = [s \in Tasks |-> tx'[s]],
         \A s \in Tasks : tx'[s] # NoTx => tx'[s] = tx[s]
  PROVE  LockInv'
<1>1. ASSUME NEW s \in Tasks, tx'[s] # NoTx
      PROVE  Undisturbed(s)
  <2>1. ReqOf(s)' = ReqOf(s) /\ VaultOf(s)' = VaultOf(s) /\ RowOf(s)' = RowOf(s) /\ vault' = vault
    BY DEF vars, contributionRows, payoutRows, ReqOf, VaultOf, RowOf, Contributing!VaultOf,
           Paying!VaultOf
  <2> QED
    BY <1>1, <2>1 DEF Undisturbed
<1> QED
  BY <1>1, LockInvKept

LEMMA ContributionStepHolds ==
  ASSUME Types, LockInv, NEW t \in ContributionTasks, ContributionStep(t)
  PROVE  Next /\ LockInv'
<1>1. Contributing!Next /\ UNCHANGED payoutRows /\ tx[t] = NoTx /\ UNCHANGED tx
  BY DEF ContributionStep, Contributing!Next
<1>2. /\ UNCHANGED <<vault, contribution>>
      /\ \A r \in ContributionTasks : r # t => contributionReq'[r] = contributionReq[r]
  BY TaskOps
     DEF ContributionStep, Contributing!ReplayIntent, Contributing!BeginIntent,
         Contributing!BeginSettle
<1> QED
  BY <1>1, <1>2, ContributionFrame DEF Next, payoutRows

LEMMA PayoutStepHolds ==
  ASSUME Types, LockInv, NEW t \in PayoutTasks, PayoutStep(t)
  PROVE  Next /\ LockInv'
<1>1. Paying!Next /\ UNCHANGED contributionRows /\ tx[t] = NoTx /\ UNCHANGED tx
  BY DEF PayoutStep, Paying!Next
<1>2. /\ UNCHANGED <<vault, payout>>
      /\ \A r \in PayoutTasks : r # t => payoutReq'[r] = payoutReq[r]
  BY TaskOps DEF PayoutStep, Paying!BeginCreate, Paying!BeginReview, Paying!CheckReview
<1> QED
  BY <1>1, <1>2, PayoutFrame DEF Next, contributionRows

LEMMA InsertIntentHolds ==
  ASSUME Types, LockInv, NEW t \in ContributionTasks, InsertIntent(t)
  PROVE  Next /\ LockInv'
<1>1. Contributing!Next /\ UNCHANGED payoutRows /\ UNCHANGED tx
  BY DEF InsertIntent, Contributing!Next
<1>2. contributionReq[t].op = "create"
  BY DEF InsertIntent, Contributing!InsertIntent, Contributing!InsertConflict
<1>3. tx[t] = NoTx
  BY <1>2, OpenOps, ContributionTask
<1>4. /\ UNCHANGED vault
      /\ \A r \in ContributionTasks : r # t => contributionReq'[r] = contributionReq[r]
  BY TaskOps DEF InsertIntent, Contributing!InsertIntent, Contributing!InsertConflict
<1>5. \A id \in CP!Recorded : contribution'[id] = contribution[id]
  BY DEF InsertIntent, Contributing!InsertIntent, Contributing!InsertConflict, CP!Recorded,
         Types, CP!TypeInv, CP!TypeOK
<1> QED
  BY <1>1, <1>3, <1>4, <1>5, ContributionFrame DEF Next, payoutRows

LEMMA InsertRequestHolds ==
  ASSUME Types, LockInv, NEW t \in PayoutTasks, InsertRequest(t)
  PROVE  Next /\ LockInv'
<1>1. Paying!Next /\ UNCHANGED contributionRows /\ UNCHANGED tx
  BY DEF InsertRequest, Paying!Next
<1>2. payoutReq[t].op = "create"
  BY DEF InsertRequest, Paying!InsertRequest, Paying!InsertConflict
<1>3. tx[t] = NoTx
  BY <1>2, OpenOps, PayoutTask
<1>4. /\ UNCHANGED vault
      /\ \A r \in PayoutTasks : r # t => payoutReq'[r] = payoutReq[r]
  BY TaskOps DEF InsertRequest, Paying!InsertRequest, Paying!InsertConflict
<1>5. \A id \in PP!Recorded : payout'[id] = payout[id]
  BY DEF InsertRequest, Paying!InsertRequest, Paying!InsertConflict, PP!Recorded, Types,
         PP!TypeInv, PP!TypeOK
<1> QED
  BY <1>1, <1>3, <1>4, <1>5, PayoutFrame DEF Next, contributionRows

LEMMA VerifySchoolHolds ==
  ASSUME LockInv, VerifySchool
  PROVE  Next /\ LockInv'
<1>1. Paying!Next /\ UNCHANGED contributionRows
  BY DEF VerifySchool, Paying!Next
<1>2. UNCHANGED <<vault, contribution, contributionReq, payout, payoutReq>> /\ UNCHANGED tx
  BY DEF VerifySchool, Paying!VerifySchool, contributionRows
<1>3. LockInv'
  BY <1>2
     DEF LockInv, Live, TxSound, Exclusive, KeepsRow, KeepsVault, ReqOf, RowOf, VaultOf,
         Contributing!VaultOf, Paying!VaultOf
<1> QED
  BY <1>1, <1>3 DEF Next

(* Steps of a transaction that write nothing yet, or nothing any more.     *)

LEMMA VarsKept ==
  ASSUME UNCHANGED vars
  PROVE  /\ vault' = vault
         /\ \A s : /\ ReqOf(s)' = ReqOf(s)
                   /\ RowOf(s)' = RowOf(s)
                   /\ VaultOf(s)' = VaultOf(s)
BY DEF vars, contributionRows, payoutRows, ReqOf, VaultOf, RowOf, Contributing!VaultOf,
       Paying!VaultOf

LEMMA TxTaken ==
  ASSUME LockInv, UNCHANGED vars, NEW t \in Tasks, NEW x, tx' = [tx EXCEPT ![t] = x],
         TxSound(t)',
         \A s \in Tasks : s # t => Exclusive(s, t)' /\ Exclusive(t, s)'
  PROVE  LockInv'
<1>1. tx' = [s \in Tasks |-> tx'[s]] /\ \A s \in Tasks : s # t => tx'[s] = tx[s]
  BY DEF LockInv
<1>2. ASSUME NEW s \in Tasks, Live(s)'
      PROVE  TxSound(s)'
  <2>1. CASE s = t
    BY <2>1
  <2>2. CASE s # t
    <3>1. tx'[s] = tx[s] /\ ReqOf(s)' = ReqOf(s)
      BY <1>1, <2>2, VarsKept
    <3>2. Live(s)
      BY <1>2, <3>1 DEF Live, NoTx
    <3>3. TxSound(s)
      BY <3>2 DEF LockInv
    <3> QED
      BY <3>1, <3>3, VarsKept DEF TxSound, KeepsRow, KeepsVault
  <2> QED
    BY <2>1, <2>2
<1>3. ASSUME NEW r \in Tasks, NEW s \in Tasks, r # s
      PROVE  Exclusive(r, s)'
  <2>1. CASE r = t \/ s = t
    BY <1>3, <2>1
  <2>2. CASE r # t /\ s # t
    <3>1. tx'[r] = tx[r] /\ tx'[s] = tx[s]
      BY <1>1, <2>2
    <3>2. Exclusive(r, s)
      BY <1>3 DEF LockInv
    <3> QED
      BY <3>1, <3>2 DEF Exclusive, KeepsRow, KeepsVault
  <2> QED
    BY <2>1, <2>2
<1> QED
  BY <1>1, <1>2, <1>3 DEF LockInv

LEMMA OpenTxHolds ==
  ASSUME LockInv, NEW t \in Tasks, OpenTx(t)
  PROVE  LockInv' /\ UNCHANGED vars
<1>1. PICK x : x = [phase |-> "open", id |-> ReqOf(t).id, vault |-> VaultOf(t)]
  OBVIOUS
<1>2. tx' = [tx EXCEPT ![t] = x] /\ UNCHANGED vars /\ ReqOf(t).op \in {"settle", "decide"}
  BY <1>1 DEF OpenTx
<1>3. tx'[t] = x
  BY <1>2 DEF LockInv
<1>4. ~KeepsRow(t)' /\ ~KeepsVault(t)'
  BY <1>1, <1>3 DEF KeepsRow, KeepsVault
<1>5. TxSound(t)'
  BY <1>1, <1>2, <1>3, <1>4, VarsKept DEF TxSound
<1>6. \A s \in Tasks : Exclusive(s, t)' /\ Exclusive(t, s)'
  BY <1>4 DEF Exclusive
<1> QED
  BY <1>2, <1>5, <1>6, TxTaken

LEMMA LockRowHolds ==
  ASSUME LockInv, NEW t \in Tasks, LockRow(t)
  PROVE  LockInv' /\ UNCHANGED vars
<1>1. PICK x : x = [phase |-> "row", id |-> tx[t].id, vault |-> tx[t].vault,
                    status |-> RowOf(t).status]
  OBVIOUS
<1>2. tx' = [tx EXCEPT ![t] = x] /\ UNCHANGED vars
  BY <1>1 DEF LockRow, LockInv
<1>3. tx'[t] = x /\ \A s \in Tasks : s # t => tx'[s] = tx[s]
  BY <1>2 DEF LockInv
<1>4. Live(t)
  BY DEF LockRow, Live, NoTx
<1>5. TxSound(t)
  BY <1>4 DEF LockInv
<1>6. TxSound(t)' /\ ~KeepsVault(t)'
  BY <1>1, <1>2, <1>3, <1>5, VarsKept DEF TxSound, KeepsRow, KeepsVault
<1>7. \A s \in Tasks : KeepsRow(s) => tx[s].id # tx[t].id
  BY NoTxKeepsNothing DEF LockRow, RowFree, Open, KeepsRow
<1>8. \A s \in Tasks : s # t => Exclusive(s, t)' /\ Exclusive(t, s)'
  BY <1>1, <1>3, <1>6, <1>7 DEF Exclusive, KeepsRow
<1> QED
  BY <1>2, <1>6, <1>8, TxTaken

LEMMA LockVaultHolds ==
  ASSUME LockInv, NEW t \in Tasks, LockVault(t)
  PROVE  LockInv' /\ UNCHANGED vars
<1>1. PICK x : x = [phase |-> "vault", id |-> tx[t].id, vault |-> tx[t].vault,
                    status |-> tx[t].status, read |-> vault[tx[t].vault]]
  OBVIOUS
<1>2. tx' = [tx EXCEPT ![t] = x] /\ UNCHANGED vars
  BY <1>1 DEF LockVault, LockInv
<1>3. tx'[t] = x /\ \A s \in Tasks : s # t => tx'[s] = tx[s]
  BY <1>2 DEF LockInv
<1>4. Live(t) /\ KeepsRow(t)
  BY DEF LockVault, Live, NoTx, KeepsRow
<1>5. TxSound(t)
  BY <1>4 DEF LockInv
<1>6. TxSound(t)'
  BY <1>1, <1>2, <1>3, <1>4, <1>5, VarsKept DEF TxSound, KeepsRow, KeepsVault
<1>7. \A s \in Tasks : KeepsVault(s) => tx[s].vault # tx[t].vault
  BY NoTxKeepsNothing DEF LockVault, VaultFree, Open, KeepsVault
<1>8. \A s \in Tasks : s # t /\ KeepsRow(s) => tx[s].id # tx[t].id
  BY <1>4 DEF LockInv, Exclusive
<1>9. \A s \in Tasks : s # t => Exclusive(s, t)' /\ Exclusive(t, s)'
  BY <1>1, <1>3, <1>7, <1>8 DEF Exclusive, KeepsRow, KeepsVault
<1> QED
  BY <1>2, <1>6, <1>9, TxTaken

LEMMA AbortHolds ==
  ASSUME LockInv, NEW t \in Tasks, Abort(t)
  PROVE  LockInv' /\ UNCHANGED vars
<1>1. UNCHANGED vars /\ tx' = [tx EXCEPT ![t] = NoTx]
  BY DEF Abort
<1>2. /\ tx' = [s \in Tasks |-> tx'[s]]
      /\ \A s \in Tasks : tx'[s] # NoTx => tx'[s] = tx[s]
  BY <1>1 DEF LockInv
<1> QED
  BY <1>1, <1>2, TxFrame

LEMMA LostHolds ==
  ASSUME Types, LockInv, NEW t \in Tasks, ReqOf(t).op # "idle", Forget(t), Unwritten,
         tx' = [s \in Tasks |-> tx'[s]],
         \A s \in Tasks : tx'[s] # NoTx => tx'[s] = tx[s]
  PROVE  Next /\ LockInv'
<1>1. CASE /\ t \in ContributionTasks
           /\ contributionReq' = [contributionReq EXCEPT ![t] = Contributing!Idle]
           /\ UNCHANGED payoutReq
  <2>1. contributionReq[t] # Contributing!Idle
    BY <1>1, ContributionTask DEF Contributing!Idle
  <2>2. Contributing!Lost(t) /\ UNCHANGED payoutRows
    BY <1>1, <2>1 DEF Contributing!Lost, payoutRows, Unwritten
  <2>3. Next
    BY <1>1, <2>2 DEF Next, Contributing!Next
  <2>4. /\ contributionReq'[t].op = "idle"
        /\ \A s \in ContributionTasks : s # t => contributionReq'[s] = contributionReq[s]
    BY <1>1, TaskOps DEF Contributing!Idle
  <2>5. ASSUME NEW s \in Tasks, tx'[s] # NoTx
        PROVE  Undisturbed(s)
    <3>1. CASE s = t
      BY <1>1, <2>4, <2>5, <3>1, ContributionTask DEF Undisturbed
    <3>2. CASE s # t /\ s \in ContributionTasks
      <4>1. ReqOf(s)' = ReqOf(s) /\ RowOf(s)' = RowOf(s) /\ VaultOf(s)' = VaultOf(s)
        BY <2>4, <3>2, ContributionTask DEF Unwritten
      <4> QED
        BY <2>5, <4>1 DEF Undisturbed, Unwritten
    <3>3. CASE s \in PayoutTasks
      <4>1. ReqOf(s)' = ReqOf(s) /\ RowOf(s)' = RowOf(s) /\ VaultOf(s)' = VaultOf(s)
        BY <1>1, <3>3, PayoutTask DEF Unwritten
      <4> QED
        BY <2>5, <4>1 DEF Undisturbed, Unwritten
    <3> QED
      BY <3>1, <3>2, <3>3 DEF Tasks
  <2> QED
    BY <2>3, <2>5, LockInvKept
<1>2. CASE t \in PayoutTasks /\ payoutReq' = [payoutReq EXCEPT ![t] = Paying!Idle]
           /\ UNCHANGED contributionReq
  <2>1. payoutReq[t] # Paying!Idle
    BY <1>2, PayoutTask DEF Paying!Idle
  <2>2. Paying!Lost(t) /\ UNCHANGED contributionRows
    BY <1>2, <2>1 DEF Paying!Lost, contributionRows, Unwritten
  <2>3. Next
    BY <1>2, <2>2 DEF Next, Paying!Next
  <2>4. payoutReq'[t].op = "idle" /\ \A s \in PayoutTasks : s # t => payoutReq'[s] = payoutReq[s]
    BY <1>2, TaskOps DEF Paying!Idle
  <2>5. ASSUME NEW s \in Tasks, tx'[s] # NoTx
        PROVE  Undisturbed(s)
    <3>1. CASE s = t
      BY <1>2, <2>4, <2>5, <3>1, PayoutTask DEF Undisturbed
    <3>2. CASE s # t /\ s \in PayoutTasks
      <4>1. ReqOf(s)' = ReqOf(s) /\ RowOf(s)' = RowOf(s) /\ VaultOf(s)' = VaultOf(s)
        BY <2>4, <3>2, PayoutTask DEF Unwritten
      <4> QED
        BY <2>5, <4>1 DEF Undisturbed, Unwritten
    <3>3. CASE s \in ContributionTasks
      <4>1. ReqOf(s)' = ReqOf(s) /\ RowOf(s)' = RowOf(s) /\ VaultOf(s)' = VaultOf(s)
        BY <1>2, <3>3, ContributionTask DEF Unwritten
      <4> QED
        BY <2>5, <4>1 DEF Undisturbed, Unwritten
    <3> QED
      BY <3>1, <3>2, <3>3 DEF Tasks
  <2> QED
    BY <2>3, <2>5, LockInvKept
<1> QED
  BY <1>1, <1>2 DEF Forget

(* The two transactions, up to their commit.                               *)

\* What stands in the row of a task whose transaction is open.
LEMMA RowsStand ==
  ASSUME Types
  PROVE  /\ \A id \in CP!Recorded :
              /\ contribution[id] \in
                   [intent : Intents, key : ContributionKeys, status : CP!Statuses]
              /\ contribution[id].intent.vault \in Vaults
              /\ contribution[id].intent.amount \in Int
         /\ \A id \in PP!Recorded :
              /\ payout[id] \in [body : Bodies, key : PayoutKeys, status : PP!Statuses]
              /\ payout[id].body.vault \in Vaults
              /\ payout[id].body.amount \in Int
<1>1. \A id \in CP!Recorded :
        /\ id \in ContributionIds
        /\ contribution[id] \in [intent : Intents, key : ContributionKeys, status : CP!Statuses]
  BY DEF Types, CP!TypeInv, CP!TypeOK, CP!Recorded, CP!ContributionRow
<1>2. \A id \in PP!Recorded :
        id \in PayoutIds /\ payout[id] \in [body : Bodies, key : PayoutKeys, status : PP!Statuses]
  BY DEF Types, PP!TypeInv, PP!TypeOK, PP!Recorded, PP!PayoutRow
<1> QED
  BY <1>1, <1>2, ContributionConstants, PayoutConstants

LEMMA HeldRow ==
  ASSUME Types, LockInv, NEW t \in Tasks, Holding(t)
  PROVE  /\ Live(t) /\ KeepsRow(t) /\ KeepsVault(t) /\ TxSound(t)
         /\ tx[t].id = ReqOf(t).id
         /\ tx[t].vault = VaultOf(t)
         /\ tx[t].status = RowOf(t).status
         /\ tx[t].read = vault[VaultOf(t)]
<1>1. Live(t) /\ KeepsRow(t) /\ KeepsVault(t)
  BY DEF Holding, Live, KeepsRow, KeepsVault, NoTx
<1> QED
  BY <1>1 DEF LockInv, TxSound

\* A commit writes the row and the vault that the transaction holds and no others.
CommitsAlone(t) ==
  /\ tx' = [s \in Tasks |-> tx'[s]]
  /\ tx'[t] = NoTx
  /\ \A s \in Tasks : s # t => tx'[s] = tx[s]
  /\ \A v \in Vaults : v # tx[t].vault => vault'[v] = vault[v]
  /\ \A r \in ContributionTasks : r # t => contributionReq'[r] = contributionReq[r]
  /\ \A r \in PayoutTasks : r # t => payoutReq'[r] = payoutReq[r]
  /\ \A id \in CP!Recorded :
       /\ contribution'[id].intent = contribution[id].intent
       /\ id # tx[t].id => contribution'[id].status = contribution[id].status
  /\ \A id \in PP!Recorded :
       /\ payout'[id].body = payout[id].body
       /\ id # tx[t].id => payout'[id].status = payout[id].status

LEMMA CommitFrame ==
  ASSUME Types, LockInv, NEW t \in Tasks, Holding(t), CommitsAlone(t)
  PROVE  LockInv'
<1> SUFFICES ASSUME NEW s \in Tasks, tx'[s] # NoTx
             PROVE  Undisturbed(s)
  BY LockInvKept DEF CommitsAlone
<1>1. s # t /\ tx'[s] = tx[s]
  BY DEF CommitsAlone
<1>2. Exclusive(s, t) /\ KeepsRow(t) /\ KeepsVault(t)
  BY <1>1, HeldRow DEF LockInv
<1>3. ReqOf(s)' = ReqOf(s)
  BY <1>1, ContributionTask, PayoutTask DEF CommitsAlone, Tasks
<1>4. ASSUME Live(s)
      PROVE  /\ VaultOf(s)' = VaultOf(s)
             /\ VaultOf(s) \in Vaults
             /\ tx[s].id # tx[t].id => RowOf(s)'.status = RowOf(s).status
  <2>1. TxSound(s) /\ tx[s].id = ReqOf(s).id
    BY <1>4 DEF LockInv, TxSound
  <2>2. CASE s \in ContributionTasks
    <3>1. contributionReq[s].id \in CP!Recorded /\ contributionReq'[s] = contributionReq[s]
      BY <1>1, <1>3, <1>4, <2>2, ContributionTask, OpenOps DEF Live
    <3>2. PICK id : id = contributionReq[s].id
      OBVIOUS
    <3>3. /\ contribution'[id].intent = contribution[id].intent
          /\ id # tx[t].id => contribution'[id].status = contribution[id].status
          /\ contribution[id].intent.vault \in Vaults
      BY <3>1, <3>2, RowsStand DEF CommitsAlone
    <3>4. /\ VaultOf(s) = contribution[id].intent.vault
          /\ VaultOf(s)' = contribution'[id].intent.vault
          /\ RowOf(s) = contribution[id]
          /\ RowOf(s)' = contribution'[id]
          /\ tx[s].id = id
      BY <2>1, <2>2, <3>1, <3>2, ContributionTask
    <3> QED
      BY <3>3, <3>4
  <2>3. CASE s \in PayoutTasks
    <3>1. payoutReq[s].id \in PP!Recorded /\ payoutReq'[s] = payoutReq[s]
      BY <1>1, <1>3, <1>4, <2>3, PayoutTask, OpenOps DEF Live
    <3>2. PICK id : id = payoutReq[s].id
      OBVIOUS
    <3>3. /\ payout'[id].body = payout[id].body
          /\ id # tx[t].id => payout'[id].status = payout[id].status
          /\ payout[id].body.vault \in Vaults
      BY <3>1, <3>2, RowsStand DEF CommitsAlone
    <3>4. /\ VaultOf(s) = payout[id].body.vault
          /\ VaultOf(s)' = payout'[id].body.vault
          /\ RowOf(s) = payout[id]
          /\ RowOf(s)' = payout'[id]
          /\ tx[s].id = id
      BY <2>1, <2>3, <3>1, <3>2, PayoutTask
    <3> QED
      BY <3>3, <3>4
  <2> QED
    BY <2>2, <2>3 DEF Tasks
<1>5. Live(s) /\ KeepsRow(s) => RowOf(s)'.status = RowOf(s).status
  BY <1>2, <1>4 DEF Exclusive
<1>6. Live(s) /\ KeepsVault(s) => vault'[tx[s].vault] = vault[tx[s].vault]
  <2>1. Live(s) => tx[s].vault \in Vaults
    BY <1>4 DEF LockInv, TxSound
  <2>2. KeepsVault(s) => tx[s].vault # tx[t].vault
    BY <1>2 DEF Exclusive
  <2> QED
    BY <2>1, <2>2 DEF CommitsAlone
<1> QED
  BY <1>1, <1>3, <1>4, <1>5, <1>6 DEF Undisturbed

\* settle_with_audit is one step, as Contributions has it.
LEMMA CommitSettlementHolds ==
  ASSUME Types, LockInv, NEW t \in ContributionTasks, CommitSettlement(t)
  PROVE  Next /\ LockInv'
<1>1. PICK id, to, v, a, before :
        /\ id = contributionReq[t].id /\ to = contributionReq[t].to
        /\ v = contribution[id].intent.vault /\ a = contribution[id].intent.amount
        /\ before = vault[v].contributed
  OBVIOUS
<1>2. /\ t \in Tasks /\ ReqOf(t) = contributionReq[t] /\ RowOf(t) = contribution[id]
      /\ VaultOf(t) = v /\ AmountOf(t) = a
  BY <1>1, ContributionTask
<1>3. Holding(t) /\ Succeeds(t) /\ Contributing!CommitStatus(t) /\ EndTx(t) /\ UNCHANGED payoutRows
  BY DEF CommitSettlement
<1>4. /\ tx[t].id = id /\ tx[t].vault = v /\ tx[t].status = contribution[id].status
      /\ tx[t].read = vault[v]
      /\ contributionReq[t].op = "settle" /\ id \in CP!Recorded
      /\ to \in CP!Targets
  BY <1>1, <1>2, <1>3, HeldRow, OpenOps, TaskOps DEF Live
<1>5. v \in Vaults /\ a \in Int /\ before \in Nat
  BY <1>1, <1>4, RowsStand, VaultRowOf
<1>6. Contributing!MustMove(t)
  BY <1>1, <1>2, <1>3, <1>4 DEF Succeeds, Contributing!MustMove
<1>7. /\ Contributing!VaultOf(id) = v /\ Contributing!AmountOf(id) = a
      /\ Contributing!TotalBefore(t) = before
  BY <1>1 DEF Contributing!VaultOf, Contributing!AmountOf, Contributing!TotalBefore
<1>8. ASSUME to = "Confirmed"
      PROVE  Contributing!Next
  <2>1. NewContributed(t) = before + a
    BY <1>1, <1>2, <1>4, <1>8 DEF NewContributed
  <2>2. before + a \in Minor
    BY <1>2, <1>3, <2>1 DEF Succeeds
  <2>3. Contributing!MoveMoney(t, before + a)
    BY <1>1, <1>2, <1>4, <1>7, <1>8, <2>1
       DEF CommitSettlement, Contributing!MoveMoney, WithContributed, Contributing!WithContributed
  <2>4. Contributing!Fits(before + a)
    BY <2>2, MaxMinorAssumption DEF Minor, Contributing!Fits
  <2>5. Contributing!SettleConfirmed(t)
    BY <1>1, <1>3, <1>4, <1>6, <1>7, <1>8, <2>3, <2>4
       DEF Contributing!SettleConfirmed, Contributing!Holds
  <2> QED
    BY <2>5 DEF Contributing!Next
<1>9. ASSUME to = "Reversed"
      PROVE  Contributing!Next
  <2>1. NewContributed(t) = before - a
    BY <1>1, <1>2, <1>4, <1>9 DEF NewContributed
  <2>2. before - a \in Minor
    BY <1>2, <1>3, <2>1 DEF Succeeds
  <2>3. Contributing!MoveMoney(t, before - a)
    BY <1>1, <1>2, <1>4, <1>7, <1>9, <2>1
       DEF CommitSettlement, Contributing!MoveMoney, WithContributed, Contributing!WithContributed
  <2>4. before >= a
    BY <1>5, <2>2, MaxMinorAssumption DEF Minor
  <2>5. Contributing!SettleReversed(t)
    BY <1>1, <1>3, <1>4, <1>6, <1>7, <1>9, <2>3, <2>4
       DEF Contributing!SettleReversed, Contributing!Holds
  <2> QED
    BY <2>5 DEF Contributing!Next
<1>10. ASSUME to = "Failed"
       PROVE  Contributing!Next
  <2>1. UNCHANGED <<vault, ledger>>
    BY <1>1, <1>10 DEF CommitSettlement
  <2>2. Contributing!SettleFailed(t)
    BY <1>1, <1>3, <1>4, <1>6, <1>10, <2>1 DEF Contributing!SettleFailed, Contributing!Holds
  <2> QED
    BY <2>2 DEF Contributing!Next
<1>11. Next
  BY <1>3, <1>4, <1>8, <1>9, <1>10 DEF Next, CP!Targets
<1>12. CommitsAlone(t)
  <2>1. /\ tx' = [s \in Tasks |-> tx'[s]]
        /\ tx'[t] = NoTx
        /\ \A s \in Tasks : s # t => tx'[s] = tx[s]
    BY <1>2, <1>3 DEF EndTx, LockInv
  <2>2. \A w \in Vaults : w # v => vault'[w] = vault[w]
    BY <1>1, <1>4, VaultRowOf DEF CommitSettlement
  <2>3. \A r \in ContributionTasks : r # t => contributionReq'[r] = contributionReq[r]
    BY <1>3, TaskOps DEF Contributing!CommitStatus
  <2>4. payoutReq' = payoutReq /\ payout' = payout
    BY <1>3 DEF payoutRows
  <2>5. contribution' = [contribution EXCEPT ![id].status = to]
    BY <1>1, <1>3 DEF Contributing!CommitStatus
  <2>6. \A i \in CP!Recorded :
          /\ contribution'[i].intent = contribution[i].intent
          /\ i # id => contribution'[i] = contribution[i]
    <3> SUFFICES ASSUME NEW i \in CP!Recorded
                 PROVE  /\ contribution'[i].intent = contribution[i].intent
                        /\ i # id => contribution'[i] = contribution[i]
      OBVIOUS
    <3>1. i \in DOMAIN contribution
      BY DEF CP!Recorded, Types, CP!TypeInv, CP!TypeOK
    <3>2. contribution[i] \in [intent : Intents, key : ContributionKeys, status : CP!Statuses]
      BY RowsStand
    <3> QED
      BY <2>5, <3>1, <3>2
  <2> QED
    BY <1>4, <2>1, <2>2, <2>3, <2>4, <2>6 DEF CommitsAlone
<1> QED
  BY <1>2, <1>3, <1>11, <1>12, CommitFrame

\* transition_with_audit is one step, as Payouts has it.
LEMMA CommitDecisionHolds ==
  ASSUME Types, LockInv, NEW t \in PayoutTasks, CommitDecision(t)
  PROVE  Next /\ LockInv'
<1>1. PICK id, to, v, a, locked, disbursed :
        /\ id = payoutReq[t].id /\ to = payoutReq[t].to
        /\ v = payout[id].body.vault /\ a = payout[id].body.amount
        /\ locked = vault[v].locked /\ disbursed = vault[v].disbursed
  OBVIOUS
<1>2. /\ t \in Tasks /\ ReqOf(t) = payoutReq[t] /\ RowOf(t) = payout[id] /\ VaultOf(t) = v
      /\ AmountOf(t) = a
  BY <1>1, PayoutTask
<1>3. /\ Holding(t) /\ Succeeds(t) /\ Paying!CommitStatus(t) /\ EndTx(t)
      /\ UNCHANGED contributionRows
  BY DEF CommitDecision
<1>4. /\ tx[t].id = id /\ tx[t].vault = v /\ tx[t].status = payout[id].status
      /\ tx[t].read = vault[v]
      /\ payoutReq[t].op = "decide" /\ id \in PP!Recorded
      /\ to \in PP!Targets
  BY <1>1, <1>2, <1>3, HeldRow, OpenOps, TaskOps DEF Live
<1>5. v \in Vaults /\ a \in Int /\ locked \in Nat /\ disbursed \in Nat
  BY <1>1, <1>4, RowsStand, VaultRowOf
<1>6. payout[payoutReq[t].id].status # payoutReq[t].to
  BY <1>1, <1>2, <1>3, <1>4 DEF Succeeds
<1>7. Paying!RowOf(t) = vault[v] /\ Paying!Asked(t) = a
  BY <1>1 DEF Paying!RowOf, Paying!VaultOf, Paying!AmountOf, Paying!Asked
<1>8. NewLocked(t) \in Minor /\ NewDisbursed(t) \in Minor
  BY <1>2, <1>3 DEF Succeeds
<1>9. MovesMoney(t) => Paying!WriteVault(t, NewLocked(t), NewDisbursed(t))
  BY <1>1, <1>4
     DEF CommitDecision, Paying!WriteVault, Paying!VaultOf, WithLockedAndDisbursed,
         Paying!WithLockedAndDisbursed
<1>10. ASSUME to = "Approved"
       PROVE  Paying!Next
  <2>1. NewLocked(t) = locked + a /\ NewDisbursed(t) = disbursed
    BY <1>1, <1>2, <1>4, <1>10 DEF NewLocked, NewDisbursed
  <2>2. Paying!WriteVault(t, locked + a, disbursed)
    BY <1>1, <1>9, <1>10, <2>1 DEF MovesMoney
  <2>3. Paying!Fits(locked + a)
    BY <1>8, <2>1, MaxMinorAssumption DEF Minor, Paying!Fits
  <2>4. Paying!DecideApproved(t)
    BY <1>1, <1>3, <1>4, <1>6, <1>7, <1>10, <2>2, <2>3
       DEF Paying!DecideApproved, Paying!Decides
  <2> QED
    BY <2>4 DEF Paying!Next
<1>11. ASSUME to = "Completed"
       PROVE  Paying!Next
  <2>1. NewLocked(t) = locked - a /\ NewDisbursed(t) = disbursed + a
    BY <1>1, <1>2, <1>4, <1>11 DEF NewLocked, NewDisbursed
  <2>2. Paying!WriteVault(t, locked - a, disbursed + a)
    BY <1>1, <1>9, <1>11, <2>1 DEF MovesMoney
  <2>3. Paying!Fits(disbursed + a) /\ locked >= a
    BY <1>5, <1>8, <2>1, MaxMinorAssumption DEF Minor, Paying!Fits
  <2>4. Paying!DecideCompleted(t)
    BY <1>1, <1>3, <1>4, <1>6, <1>7, <1>11, <2>2, <2>3
       DEF Paying!DecideCompleted, Paying!Decides
  <2> QED
    BY <2>4 DEF Paying!Next
<1>12. ASSUME to = "Failed"
       PROVE  Paying!Next
  <2>1. CASE locked >= a
    <3>1. NewLocked(t) = locked - a /\ NewDisbursed(t) = disbursed
      BY <1>1, <1>2, <1>4, <1>12, <2>1 DEF NewLocked, NewDisbursed
    <3>2. Paying!WriteVault(t, locked - a, disbursed)
      BY <1>1, <1>2, <1>4, <1>9, <1>12, <2>1, <3>1 DEF MovesMoney
    <3>3. Paying!DecideFailed(t)
      BY <1>1, <1>3, <1>4, <1>6, <1>7, <1>12, <2>1, <3>2
         DEF Paying!DecideFailed, Paying!Decides
    <3> QED
      BY <3>3 DEF Paying!Next
  <2>2. CASE ~(locked >= a)
    <3>1. UNCHANGED vault
      BY <1>1, <1>2, <1>4, <1>12, <2>2 DEF CommitDecision, MovesMoney
    <3>2. locked < a
      BY <1>5, <2>2
    <3>3. Paying!DecideFailed(t)
      BY <1>1, <1>3, <1>4, <1>6, <1>7, <1>12, <3>1, <3>2
         DEF Paying!DecideFailed, Paying!Decides
    <3> QED
      BY <3>3 DEF Paying!Next
  <2> QED
    BY <2>1, <2>2
<1>13. ASSUME to \in {"UnderReview", "Rejected", "Processing"}
       PROVE  Paying!Next
  <2>1. UNCHANGED vault
    BY <1>1, <1>13 DEF CommitDecision, MovesMoney
  <2>2. Paying!DecideOther(t)
    BY <1>1, <1>3, <1>4, <1>6, <1>13, <2>1 DEF Paying!DecideOther, Paying!Decides
  <2> QED
    BY <2>2 DEF Paying!Next
<1>14. Next
  BY <1>3, <1>4, <1>10, <1>11, <1>12, <1>13 DEF Next, PP!Targets, PP!Statuses
<1>15. CommitsAlone(t)
  <2>1. /\ tx' = [s \in Tasks |-> tx'[s]]
        /\ tx'[t] = NoTx
        /\ \A s \in Tasks : s # t => tx'[s] = tx[s]
    BY <1>2, <1>3 DEF EndTx, LockInv
  <2>2. \A w \in Vaults : w # v => vault'[w] = vault[w]
    BY <1>4, <1>5, VaultRowOf DEF CommitDecision
  <2>3. \A r \in PayoutTasks : r # t => payoutReq'[r] = payoutReq[r]
    BY <1>3, TaskOps DEF Paying!CommitStatus
  <2>4. contributionReq' = contributionReq /\ contribution' = contribution
    BY <1>3 DEF contributionRows
  <2>5. payout' = [payout EXCEPT ![id].status = to]
    BY <1>1, <1>3 DEF Paying!CommitStatus
  <2>6. \A i \in PP!Recorded :
          /\ payout'[i].body = payout[i].body
          /\ i # id => payout'[i] = payout[i]
    <3> SUFFICES ASSUME NEW i \in PP!Recorded
                 PROVE  /\ payout'[i].body = payout[i].body
                        /\ i # id => payout'[i] = payout[i]
      OBVIOUS
    <3>1. i \in DOMAIN payout
      BY DEF PP!Recorded, Types, PP!TypeInv, PP!TypeOK
    <3>2. payout[i] \in [body : Bodies, key : PayoutKeys, status : PP!Statuses]
      BY RowsStand
    <3> QED
      BY <2>5, <3>1, <3>2
  <2> QED
    BY <1>4, <2>1, <2>2, <2>3, <2>4, <2>6 DEF CommitsAlone
<1> QED
  BY <1>2, <1>3, <1>14, <1>15, CommitFrame

-----------------------------------------------------------------------------
(* The refinement.                                                         *)

LEMMA LockInvInit == LockInit => LockInv
BY NoTxKeepsNothing DEF LockInit, LockInv, Live, Exclusive

LEMMA LockStepHolds ==
  ASSUME Types, LockInv, LockNext
  PROVE  [Next]_vars /\ LockInv'
<1>1. CASE VerifySchool
  BY <1>1, VerifySchoolHolds
<1>2. ASSUME NEW t \in ContributionTasks, ContributionStep(t)
      PROVE  [Next]_vars /\ LockInv'
  BY <1>2, ContributionStepHolds
<1>3. ASSUME NEW t \in PayoutTasks, PayoutStep(t)
      PROVE  [Next]_vars /\ LockInv'
  BY <1>3, PayoutStepHolds
<1>4. ASSUME NEW t \in Tasks, Progress(t)
      PROVE  [Next]_vars /\ LockInv'
  <2>1. CASE OpenTx(t) \/ LockRow(t) \/ LockVault(t) \/ Abort(t)
    BY <2>1, OpenTxHolds, LockRowHolds, LockVaultHolds, AbortHolds
  <2>2. CASE t \in ContributionTasks /\ (InsertIntent(t) \/ CommitSettlement(t))
    BY <2>2, InsertIntentHolds, CommitSettlementHolds
  <2>3. CASE t \in PayoutTasks /\ (InsertRequest(t) \/ CommitDecision(t))
    BY <2>3, InsertRequestHolds, CommitDecisionHolds
  <2>4. CASE RollBack(t)
    <3>1. ReqOf(t).op # "idle" /\ Forget(t) /\ Unwritten
      BY <2>4 DEF RollBack, Holding
    <3>2. /\ tx' = [s \in Tasks |-> tx'[s]]
          /\ \A s \in Tasks : tx'[s] # NoTx => tx'[s] = tx[s]
      BY <2>4 DEF RollBack, EndTx, LockInv
    <3> QED
      BY <3>1, <3>2, LostHolds
  <2> QED
    BY <1>4, <2>1, <2>2, <2>3, <2>4 DEF Progress
<1>5. ASSUME NEW t \in Tasks, Lost(t)
      PROVE  [Next]_vars /\ LockInv'
  <2>1. ReqOf(t).op # "idle" /\ Forget(t) /\ Unwritten /\ tx' = tx
    BY <1>5 DEF Lost
  <2>2. tx' = [s \in Tasks |-> tx'[s]]
    BY <2>1 DEF LockInv
  <2> QED
    BY <2>1, <2>2, LostHolds
<1> QED
  BY <1>1, <1>2, <1>3, <1>4, <1>5 DEF LockNext

LEMMA LockStep ==
  ASSUME Types, LockInv, [LockNext]_lockVars
  PROVE  [Next]_vars /\ LockInv'
<1>1. CASE LockNext
  BY <1>1, LockStepHolds
<1>2. CASE UNCHANGED lockVars
  <2>1. UNCHANGED vars /\ tx' = tx
    BY <1>2 DEF lockVars
  <2>2. LockInv'
    BY <2>1, TxFrame DEF LockInv
  <2> QED
    BY <2>1, <2>2
<1> QED
  BY <1>1, <1>2

\* Taken statement by statement, with transactions that read their rows under locks and
\* tasks that die holding them, settle_with_audit and transition_with_audit behave as
\* the atomic transactions of VaultMoney (the locking reads of persistence/repos.rs).
THEOREM LocksImplementVaultMoney == LockSpec => ImplementsVaultMoney
<1>1. LockInit => Init /\ VaultInv /\ LockInv
  BY VaultInit, LockInvInit DEF LockInit
<1>2. VaultInv /\ LockInv /\ [LockNext]_lockVars => [Next]_vars /\ VaultInv' /\ LockInv'
  BY LockStep, VaultStep DEF VaultInv
<1> QED
  BY <1>1, <1>2, PTL DEF LockSpec, ImplementsVaultMoney, Spec

\* So the books are right statement by statement too: no transaction overwrites what
\* another has committed meanwhile.
THEOREM LocksKeepTheBooks ==
  LockSpec => [](LedgerReplaysBalance /\ MoneyFollowsDecisions /\ VersionCountsWrites)
BY LocksImplementVaultMoney, LedgerExact, MoneyIsDecided, VersionsAreWrites, PTL
   DEF ImplementsVaultMoney

\* The disciplines of SerialSpec, of the tasks that work statement by statement.
SerialTasks ==
  Contributing!OneSettlerEach /\ Paying!OneReviewerEach /\ Paying!OneApproverPerVault

LEMMA LockedTasksAreSerial == LockSpec /\ []SerialTasks => SerialSpec
<1>1. [Next]_vars /\ SerialTasks' => [SerialNext]_vars
  BY DEF SerialNext, SerialTasks
<1> QED
  BY <1>1, LocksImplementVaultMoney, PTL DEF ImplementsVaultMoney, Spec, SerialSpec

\* And whatever is promised of tasks that respect the disciplines holds statement by
\* statement: nothing is spent that never came in, the columns of a vault are the sums of
\* its rows by status, and both sides implement their books, with tasks dying between
\* any two statements and others waiting for their locks.
THEOREM LocksKeepSerialBooks ==
  LockSpec /\ []SerialTasks =>
    /\ [](PaidFromConfirmed /\ Contributing!TotalIsConfirmedSum /\ Paying!BalancesMatchStatuses)
    /\ Contributing!ImplementsBook /\ Paying!ImplementsBook
BY LockedTasksAreSerial, SpentWasConfirmed, ColumnsAreRows, VaultKeepsTheBooks, PTL

=============================================================================
