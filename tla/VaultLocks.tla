------------------------------ MODULE VaultLocks ------------------------------
(***************************************************************************)
(* The transactions of VaultMoney statement by statement.                  *)
(*                                                                         *)
(* settle_with_audit and transition_with_audit take a connection of the    *)
(* pool, lock their own row (SELECT .. FOR UPDATE of the contribution or   *)
(* of the payout), then lock the vault, and commit writes that are         *)
(* computed from the two rows as the locking reads returned them.  Nothing *)
(* a transaction wrote is visible before its commit.  Other tasks read     *)
(* without locks meanwhile; an INSERT that names a vault waits for the     *)
(* vault's lock, because of its foreign key.                               *)
(*                                                                         *)
(* A task may die anywhere.  Its transaction then keeps its connection and *)
(* its locks until the rollback that sqlx queues when a Transaction is     *)
(* dropped, or the database when the connection breaks, ends it.  A task   *)
(* whose wait times out is lost as well.                                   *)
(*                                                                         *)
(* Inserts are one step here, both statements of the transaction.  Until   *)
(* its commit it holds its new key and, because of the foreign key, a      *)
(* share of the vault's row, so another insert under that key and a        *)
(* locking read of the vault may wait for it.  It waits for no lock while  *)
(* it holds the share, so these waits end and close no circle.             *)
(***************************************************************************)
EXTENDS VaultMoney

CONSTANT
  Connections  \* max_connections of the pool (10 in the code)

ASSUME VaultLocksAssumption ==
  /\ Connections \in Nat \ {0}
  /\ ContributionTasks \cap PayoutTasks = {}
  /\ ContributionIds \cap PayoutIds = {}

VARIABLE
  tx  \* the transaction a task has open: what it locked and what it read

lockVars == <<vars, tx>>

Tasks == ContributionTasks \cup PayoutTasks

ReqOf(t) == IF t \in ContributionTasks THEN contributionReq[t] ELSE payoutReq[t]

RowOf(t) == IF t \in ContributionTasks THEN contribution[ReqOf(t).id] ELSE payout[ReqOf(t).id]

VaultOf(t) ==
  IF t \in ContributionTasks THEN Contributing!VaultOf(ReqOf(t).id)
  ELSE Paying!VaultOf(ReqOf(t).id)

AmountOf(t) ==
  IF t \in ContributionTasks THEN Contributing!AmountOf(ReqOf(t).id)
  ELSE Paying!AmountOf(ReqOf(t).id)

-----------------------------------------------------------------------------
(* The pool and the locks.                                                 *)

NoTx == [phase |-> "none"]

Open == {t \in Tasks : tx[t] # NoTx}

HasConnection == Cardinality(Open) < Connections

RowFree(id) == \A t \in Open : tx[t].phase \in {"row", "vault"} => tx[t].id # id

VaultFree(v) == \A t \in Open : tx[t].phase = "vault" => tx[t].vault # v

\* A mistake the runs must notice: the audit row is written through the pool, so
\* that a transaction needs a second connection to end.
EndTxOnPool(t) == HasConnection /\ tx' = [tx EXCEPT ![t] = NoTx]

\* commit and rollback
EndTx(t) == tx' = [tx EXCEPT ![t] = NoTx]

-----------------------------------------------------------------------------
LockInit == Init /\ tx = [t \in Tasks |-> NoTx]

(* The steps of a use case outside of its transaction are those of         *)
(* VaultMoney; each needs a connection while it lasts.                     *)

ContributionStep(t) ==
  /\ tx[t] = NoTx
  /\ HasConnection
  /\ \/ \E k \in ContributionKeys, in \in Intents :
          Contributing!ReplayIntent(t, k, in) \/ Contributing!BeginIntent(t, k, in)
     \/ \E id \in ContributionIds, target \in Contributing!Targets :
          Contributing!BeginSettle(t, id, target)
  /\ UNCHANGED <<payoutRows, tx>>

PayoutStep(t) ==
  /\ tx[t] = NoTx
  /\ HasConnection
  /\ \/ \E k \in PayoutKeys, b \in Bodies : Paying!BeginCreate(t, k, b)
     \/ \E id \in PayoutIds, target \in Paying!Targets : Paying!BeginReview(t, id, target)
     \/ Paying!CheckReview(t)
  /\ UNCHANGED <<contributionRows, tx>>

VerifySchool ==
  /\ HasConnection
  /\ \E s \in Schools, status \in Paying!SchoolStatuses : Paying!VerifySchool(s, status)
  /\ UNCHANGED <<contributionRows, tx>>

\* create_intent_with_audit
InsertIntent(t) ==
  /\ HasConnection
  /\ \/ \E id \in ContributionIds :
          Contributing!InsertIntent(t, id) /\ VaultFree(contributionReq[t].intent.vault)
     \/ Contributing!InsertConflict(t)
  /\ UNCHANGED <<payoutRows, tx>>

\* create_request_with_audit
InsertRequest(t) ==
  /\ HasConnection
  /\ \/ \E id \in PayoutIds :
          Paying!InsertRequest(t, id) /\ VaultFree(payoutReq[t].body.vault)
     \/ Paying!InsertConflict(t)
  /\ UNCHANGED <<contributionRows, tx>>

(* The transaction.                                                        *)

\* pool.begin()
OpenTx(t) ==
  /\ ReqOf(t).op \in {"settle", "decide"}
  /\ tx[t] = NoTx
  /\ HasConnection
  /\ tx' = [tx EXCEPT ![t] = [phase |-> "open", id |-> ReqOf(t).id, vault |-> VaultOf(t)]]
  /\ UNCHANGED vars

\* A mistake the runs must notice: the row is read without FOR UPDATE.
ReadRow(t) ==
  /\ tx[t].phase = "open"
  /\ ReqOf(t).op # "idle"
  /\ tx' = [tx EXCEPT ![t] = [phase |-> "row", id |-> @.id, vault |-> @.vault,
                              status |-> RowOf(t).status]]
  /\ UNCHANGED vars

\* find_contribution_for_update, find_payout_for_update
LockRow(t) ==
  /\ tx[t].phase = "open"
  /\ ReqOf(t).op # "idle"
  /\ RowFree(tx[t].id)
  /\ tx' = [tx EXCEPT ![t] = [phase |-> "row", id |-> @.id, vault |-> @.vault,
                              status |-> RowOf(t).status]]
  /\ UNCHANGED vars

\* find_vault_for_update
LockVault(t) ==
  /\ tx[t].phase = "row"
  /\ ReqOf(t).op # "idle"
  /\ VaultFree(tx[t].vault)
  /\ tx' = [tx EXCEPT ![t] = [phase |-> "vault", id |-> @.id, vault |-> @.vault,
                              status |-> @.status, read |-> vault[@.vault]]]
  /\ UNCHANGED vars

Holding(t) == tx[t].phase = "vault" /\ ReqOf(t).op # "idle"

\* What the branches of the two transactions store, computed from what was read.
NewContributed(t) ==
  CASE ReqOf(t).to = "Confirmed" -> tx[t].read.contributed + AmountOf(t)
    [] ReqOf(t).to = "Reversed"  -> tx[t].read.contributed - AmountOf(t)
    [] OTHER                     -> tx[t].read.contributed

NewLocked(t) ==
  CASE ReqOf(t).to = "Approved"  -> tx[t].read.locked + AmountOf(t)
    [] ReqOf(t).to = "Completed" -> tx[t].read.locked - AmountOf(t)
    [] ReqOf(t).to = "Failed" /\ tx[t].read.locked >= AmountOf(t)
                                 -> tx[t].read.locked - AmountOf(t)
    [] OTHER                     -> tx[t].read.locked

NewDisbursed(t) ==
  IF ReqOf(t).to = "Completed" THEN tx[t].read.disbursed + AmountOf(t)
  ELSE tx[t].read.disbursed

\* No early return: the row has not got the target status and every sum is one
\* the columns take.
Succeeds(t) ==
  /\ tx[t].status # ReqOf(t).to
  /\ t \in ContributionTasks => NewContributed(t) \in Minor
  /\ t \in PayoutTasks => NewLocked(t) \in Minor /\ NewDisbursed(t) \in Minor

\* settle_with_audit up to tx.commit()
CommitSettlement(t) ==
  LET v == tx[t].vault
      to == contributionReq[t].to
      entry == [id |-> tx[t].id, type |-> to, amount |-> AmountOf(t),
                balanceAfter |-> NewContributed(t)]
  IN
  /\ Holding(t)
  /\ Succeeds(t)
  /\ \/ /\ to \in {"Confirmed", "Reversed"}
        /\ vault' = [vault EXCEPT ![v] = WithContributed(@, NewContributed(t))]
        /\ ledger' = [ledger EXCEPT ![v] = Append(@, entry)]
     \/ to = "Failed" /\ UNCHANGED <<vault, ledger>>
  /\ Contributing!CommitStatus(t)
  /\ EndTx(t)
  /\ UNCHANGED payoutRows

\* The branches of transition_with_audit that rewrite the vault.
MovesMoney(t) ==
  \/ payoutReq[t].to \in {"Approved", "Completed"}
  \/ payoutReq[t].to = "Failed" /\ tx[t].read.locked >= AmountOf(t)

\* transition_with_audit up to tx.commit()
CommitDecision(t) ==
  LET v == tx[t].vault IN
  /\ Holding(t)
  /\ Succeeds(t)
  /\ \/ /\ MovesMoney(t)
        /\ vault' = [vault EXCEPT ![v] =
             WithLockedAndDisbursed(@, NewLocked(t), NewDisbursed(t))]
     \/ ~MovesMoney(t) /\ UNCHANGED vault
  /\ Paying!CommitStatus(t)
  /\ EndTx(t)
  /\ UNCHANGED contributionRows

Forget(t) ==
  \/ /\ t \in ContributionTasks
     /\ contributionReq' = [contributionReq EXCEPT ![t] = Contributing!Idle]
     /\ UNCHANGED payoutReq
  \/ /\ t \in PayoutTasks
     /\ payoutReq' = [payoutReq EXCEPT ![t] = Paying!Idle]
     /\ UNCHANGED contributionReq

Unwritten ==
  UNCHANGED <<vault, contribution, ledger, contributionAudit, acked, payout, school,
              payoutAudit>>

\* An early return of a transaction: it is rolled back.
RollBack(t) ==
  /\ Holding(t)
  /\ ~Succeeds(t)
  /\ EndTx(t)
  /\ Forget(t)
  /\ Unwritten

(* Faults.                                                                 *)

\* The task dies, and leaves its transaction open if it has one.
Lost(t) ==
  /\ ReqOf(t).op # "idle"
  /\ Forget(t)
  /\ Unwritten
  /\ UNCHANGED tx

\* The abandoned transaction is rolled back.
Abort(t) ==
  /\ tx[t] # NoTx
  /\ ReqOf(t).op = "idle"
  /\ tx' = [tx EXCEPT ![t] = NoTx]
  /\ UNCHANGED vars

\* What the database or the pool does for the task by itself.
Progress(t) ==
  \/ OpenTx(t)
  \/ LockRow(t)
  \/ LockVault(t)
  \/ t \in ContributionTasks /\ (InsertIntent(t) \/ CommitSettlement(t))
  \/ t \in PayoutTasks /\ (InsertRequest(t) \/ CommitDecision(t))
  \/ RollBack(t)
  \/ Abort(t)

LockNext ==
  \/ VerifySchool
  \/ \E t \in ContributionTasks : ContributionStep(t)
  \/ \E t \in PayoutTasks : PayoutStep(t)
  \/ \E t \in Tasks : Progress(t) \/ Lost(t)

\* The pool hands out connections, and the database row locks, in the order in
\* which tasks asked for them, so no task is passed over for ever.
Fairness == \A t \in Tasks : SF_lockVars(Progress(t))

LockSpec == LockInit /\ [][LockNext]_lockVars /\ Fairness

-----------------------------------------------------------------------------
\* Taken statement by statement, with rows as the locking reads returned them
\* and with tasks that die while they hold locks, the transactions behave as the
\* atomic ones of VaultMoney (find_contribution_for_update,
\* find_payout_for_update and find_vault_for_update serialise them).
ImplementsVaultMoney == Spec

Waiting(t) == ReqOf(t).op \in {"create", "settle", "decide"} \/ tx[t] # NoTx

\* Every transaction ends and every task that needs one is answered: a
\* transaction asks for its one connection before any lock, and for the vault
\* last, so tasks never wait for each other in a circle, not even when abandoned
\* transactions use up the pool for a while.
Answered == \A t \in Tasks : Waiting(t) ~> ~Waiting(t)
=============================================================================
