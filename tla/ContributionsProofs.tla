------------------------- MODULE ContributionsProofs -------------------------
(***************************************************************************)
(* Theorems about Contributions, for every number of users, vaults, keys,  *)
(* contributions and concurrent tasks.                                     *)
(***************************************************************************)
EXTENDS Contributions, FiniteSums

(* What the types leave out and every later proof needs: only positive     *)
(* amounts are carried by a task or stored, and a settling task names a    *)
(* stored contribution.                                                    *)

TasksSound ==
  \A r \in Requests :
    /\ req[r].op = "create" => req[r].intent.amount > 0
    /\ req[r].op = "settle" => req[r].id \in Recorded

AmountsPositive == \A id \in Recorded : AmountOf(id) > 0

TypeInv == TypeOK /\ TasksSound /\ AmountsPositive

LEMMA TypeInit == Init => TypeInv
BY MaxMinorAssumption
   DEF Init, TypeInv, TypeOK, TasksSound, AmountsPositive, Recorded, NewVault, VaultRow,
       Minor, RequestState, Idle

\* The intent of a stored contribution, its vault and its amount are typed.
LEMMA StoredIntent ==
  ASSUME TypeInv, NEW id \in Recorded
  PROVE  /\ contribution[id] \in ContributionRow
         /\ id \in Ids
         /\ VaultOf(id) \in Vaults
         /\ AmountOf(id) \in 1 .. MaxMinor
BY MaxMinorAssumption, ContributionsAssumption
   DEF TypeInv, TypeOK, AmountsPositive, Recorded, VaultOf, AmountOf, ContributionRow

\* NoRow is not a row, so storing a row makes its id Recorded.
LEMMA RowIsNotNoRow == \A row \in ContributionRow : row # NoRow
BY ContributionsAssumption DEF ContributionRow, Statuses

\* A task's op tells which record it is.
LEMMA TaskKind ==
  ASSUME TypeInv, NEW r \in Requests
  PROVE  /\ req[r].op = "create" => req[r] \in Creating /\ req[r].intent.amount > 0
         /\ req[r].op = "settle" => req[r] \in Settling /\ req[r].id \in Recorded
<1>1. req[r] \in RequestState
  BY DEF TypeInv, TypeOK
<1>2. Idle.op = "idle" /\ (\A t \in Creating : t.op = "create") /\ (\A t \in Settling : t.op = "settle")
  BY DEF Idle, Creating, Settling
<1>3. /\ req[r].op = "create" => req[r] \in Creating
      /\ req[r].op = "settle" => req[r] \in Settling
  BY <1>1, <1>2 DEF RequestState
<1> QED
  BY <1>3 DEF TypeInv, TasksSound

LEMMA TypeStep == TypeInv /\ [Next]_vars => TypeInv'
<1> SUFFICES ASSUME TypeInv, [Next]_vars PROVE TypeInv'
  OBVIOUS
<1> USE DEF TypeInv
<1>1. ASSUME NEW r \in Requests, NEW k \in Keys, NEW in \in Intents, ReplayIntent(r, k, in)
      PROVE  TypeInv'
  BY <1>1 DEF ReplayIntent, TypeOK, TasksSound, AmountsPositive, Recorded, WithKey, AmountOf
<1>2. ASSUME NEW r \in Requests, NEW k \in Keys, NEW in \in Intents, BeginIntent(r, k, in)
      PROVE  TypeInv'
  BY <1>2 DEF BeginIntent, Acceptable, TypeOK, TasksSound, AmountsPositive, Recorded, AmountOf,
              RequestState, Creating, Settling, Idle
<1>3. ASSUME NEW r \in Requests, NEW id \in Ids, InsertIntent(r, id)
      PROVE  TypeInv'
  <2> DEFINE row == [intent |-> req[r].intent, key |-> req[r].key, status |-> "Pending"]
  <2>1. req[r] \in Creating /\ req[r].intent.amount > 0
    BY <1>3, TaskKind DEF InsertIntent
  <2>2. row \in ContributionRow /\ row # NoRow
    BY <2>1, RowIsNotNoRow DEF ContributionRow, Statuses, Creating
  <2>3. contribution' \in [Ids -> ContributionRow \cup {NoRow}]
    BY <1>3, <2>2 DEF InsertIntent, TypeOK
  <2>4. Recorded' = Recorded \cup {id}
    BY <1>3, <2>2 DEF InsertIntent, TypeOK, Recorded
  <2>5. [from |-> "None", to |-> "Pending"] \in AuditEntry
    BY DEF AuditEntry, Statuses
  <2>6. audit' \in [Ids -> Seq(AuditEntry)]
    BY <1>3, <2>5 DEF InsertIntent, TypeOK
  <2>7. TypeOK'
    BY <1>3, <2>1, <2>3, <2>6 DEF InsertIntent, TypeOK, Creating, RequestState
  <2>8. TasksSound'
    BY <1>3, <2>4 DEF InsertIntent, TasksSound, TypeOK, Idle
  <2>9. AmountsPositive'
    BY <1>3, <2>1, <2>4 DEF InsertIntent, AmountsPositive, AmountOf, TypeOK, Recorded
  <2> QED
    BY <2>7, <2>8, <2>9
<1>4. ASSUME NEW r \in Requests, InsertConflict(r) \/ SettleRolledBack(r) \/ Lost(r)
      PROVE  TypeInv'
  <2>1. /\ req' = [req EXCEPT ![r] = Idle]
        /\ UNCHANGED <<vault, contribution, ledger, audit, acked>>
    BY <1>4 DEF InsertConflict, SettleRolledBack, Lost
  <2>2. TypeOK'
    BY <2>1 DEF TypeOK, RequestState
  <2> QED
    BY <2>1, <2>2 DEF TasksSound, AmountsPositive, Recorded, AmountOf, TypeOK, Idle
<1>5. ASSUME NEW r \in Requests, NEW id \in Ids, NEW target \in Targets, BeginSettle(r, id, target)
      PROVE  TypeInv'
  <2> DEFINE task == [op |-> "settle", id |-> id, from |-> contribution[id].status, to |-> target]
  <2>1. task \in Settling /\ id \in Recorded
    BY <1>5, StoredIntent DEF BeginSettle, Settling, ContributionRow
  <2>2. TypeOK'
    BY <1>5, <2>1 DEF BeginSettle, TypeOK, RequestState
  <2> QED
    BY <1>5, <2>1, <2>2 DEF BeginSettle, TasksSound, AmountsPositive, Recorded, AmountOf, TypeOK
<1>6. ASSUME NEW r \in Requests, SettleConfirmed(r) \/ SettleReversed(r) \/ SettleFailed(r)
      PROVE  TypeInv'
  <2> DEFINE id == req[r].id
             v == VaultOf(id)
  <2>1. req[r] \in Settling /\ id \in Recorded
    BY <1>6, TaskKind DEF SettleConfirmed, SettleReversed, SettleFailed, Holds
  <2>2. /\ contribution[id] \in ContributionRow
        /\ id \in Ids
        /\ v \in Vaults
        /\ AmountOf(id) \in 1 .. MaxMinor
    BY <2>1, StoredIntent
  <2>3. CommitStatus(r)
    BY <1>6 DEF SettleConfirmed, SettleReversed, SettleFailed
  <2>4. /\ contribution' \in [Ids -> ContributionRow \cup {NoRow}]
        /\ Recorded' = Recorded
        /\ \A i \in Recorded : contribution'[i].intent = contribution[i].intent
    <3>1. [contribution[id] EXCEPT !.status = req[r].to] \in ContributionRow
      BY <2>1, <2>2 DEF ContributionRow, Settling, Targets, Statuses
    <3> QED
      BY <2>2, <2>3, <3>1, RowIsNotNoRow DEF CommitStatus, TypeOK, Recorded, ContributionRow
  <2>5. audit' \in [Ids -> Seq(AuditEntry)]
    <3>1. [from |-> req[r].from, to |-> req[r].to] \in AuditEntry
      BY <2>1 DEF AuditEntry, Settling, Targets, Statuses
    <3> QED
      BY <2>2, <2>3, <3>1 DEF CommitStatus, TypeOK
  <2>6. req' \in [Requests -> RequestState] /\ acked' = acked
    BY <2>3 DEF CommitStatus, TypeOK, RequestState
  <2>7. vault' \in [Vaults -> VaultRow] /\ ledger' \in [Vaults -> Seq(LedgerEntry)]
    <3>1. CASE SettleFailed(r)
      BY <3>1 DEF SettleFailed, TypeOK
    <3>2. CASE SettleConfirmed(r) \/ SettleReversed(r)
      <4>1. PICK total \in Minor : MoveMoney(r, total) /\ req[r].to \in EntryTypes
        BY <2>2, <3>2, MaxMinorAssumption
           DEF SettleConfirmed, SettleReversed, Holds, TotalBefore, Fits, TypeOK, VaultRow, Minor,
               EntryTypes
      <4>2. WithContributed(vault[v], total) \in VaultRow
        <5>1. vault[v] \in VaultRow
          BY <2>2 DEF TypeOK
        <5> QED
          BY <4>1, <5>1 DEF VaultRow, WithContributed
      <4>3. [id |-> id, type |-> req[r].to, amount |-> AmountOf(id), balanceAfter |-> total]
              \in LedgerEntry
        BY <2>2, <4>1 DEF LedgerEntry, Minor
      <4> QED
        BY <2>2, <4>1, <4>2, <4>3 DEF MoveMoney, TypeOK
    <3> QED
      BY <1>6, <3>1, <3>2
  <2>8. TypeOK'
    BY <2>4, <2>5, <2>6, <2>7 DEF TypeOK
  <2>9. TasksSound' /\ AmountsPositive'
    BY <2>3, <2>4 DEF CommitStatus, TasksSound, AmountsPositive, AmountOf, TypeOK, Idle
  <2> QED
    BY <2>8, <2>9
<1>7. CASE UNCHANGED vars
  BY <1>7 DEF vars, TypeOK, TasksSound, AmountsPositive, Recorded, AmountOf
<1> QED
  BY <1>1, <1>2, <1>3, <1>4, <1>5, <1>6, <1>7 DEF Next

LEMMA TypeInvariant == Spec => []TypeInv
BY TypeInit, TypeStep, PTL DEF Spec

\* Whatever the interleaving, every row keeps the shape its columns and CHECK
\* constraints give it: totals never leave 0 .. MaxMinor.
THEOREM TypeCorrect == Spec => []TypeOK
<1>1. TypeInv => TypeOK
  BY DEF TypeInv
<1> QED
  BY <1>1, TypeInvariant, PTL

-----------------------------------------------------------------------------
(* The ledger.  The invariant is inductive together with the types.        *)

\* Appending an entry that books the difference it makes keeps the chain.
LEMMA ReplaysAppend ==
  ASSUME NEW entries \in Seq(LedgerEntry), NEW total \in Int, Replays(entries, total),
         NEW entry \in LedgerEntry, entry.balanceAfter = total + Signed(entry)
  PROVE  Replays(Append(entries, entry), entry.balanceAfter)
<1> DEFINE n == Len(entries)
           longer == Append(entries, entry)
<1>1. n \in Nat
  OBVIOUS
<1>2. /\ Len(longer) = n + 1
      /\ longer[n + 1] = entry
      /\ \A i \in 1 .. n : longer[i] = entries[i]
  OBVIOUS
<1>3. \A i \in 1 .. n + 1 : BalanceBefore(longer, i) = BalanceBefore(entries, i)
  BY <1>1, <1>2 DEF BalanceBefore
<1>4. \A i \in 1 .. n + 1 :
        longer[i].balanceAfter = BalanceBefore(longer, i) + Signed(longer[i])
  <2> TAKE i \in 1 .. n + 1
  <2>1. CASE i = n + 1
    BY <1>2, <1>3, <2>1 DEF Replays
  <2>2. CASE i \in 1 .. n
    BY <1>2, <1>3, <2>2 DEF Replays
  <2> QED
    BY <1>1, <2>1, <2>2
<1>5. BalanceBefore(longer, n + 2) = entry.balanceAfter
  BY <1>1, <1>2 DEF BalanceBefore
<1> QED
  BY <1>1, <1>2, <1>4, <1>5 DEF Replays

\* What the two settlements that move money do, in the form LedgerStep wants.
LEMMA MoneyMove ==
  ASSUME TypeInv, NEW r \in Requests, SettleConfirmed(r) \/ SettleReversed(r)
  PROVE  LET id == req[r].id
             v == VaultOf(id)
         IN  /\ id \in Recorded
             /\ v \in Vaults
             /\ req[r].to \in EntryTypes
             /\ \E total \in Minor :
                  LET entry == [id |-> id, type |-> req[r].to, amount |-> AmountOf(id),
                                balanceAfter |-> total]
                      row == WithContributed(vault[v], total)
                  IN  /\ entry \in LedgerEntry
                      /\ row \in VaultRow
                      /\ row.contributed = total
                      /\ entry.balanceAfter = vault[v].contributed + Signed(entry)
                      /\ vault' = [vault EXCEPT ![v] = row]
                      /\ ledger' = [ledger EXCEPT ![v] = Append(@, entry)]
<1> DEFINE id == req[r].id
           v == VaultOf(id)
           amount == AmountOf(id)
<1>1. req[r] \in Settling /\ id \in Recorded
  BY TaskKind DEF SettleConfirmed, SettleReversed, Holds
<1>2. id \in Ids /\ v \in Vaults /\ amount \in 1 .. MaxMinor
  BY <1>1, StoredIntent
<1>3. vault[v] \in VaultRow /\ vault[v].contributed \in Minor
  BY <1>2 DEF TypeInv, TypeOK, VaultRow
<1>4. PICK total \in Minor :
        /\ MoveMoney(r, total)
        /\ \/ req[r].to = "Confirmed" /\ total = vault[v].contributed + amount
           \/ req[r].to = "Reversed" /\ total = vault[v].contributed - amount
  BY <1>2, <1>3, MaxMinorAssumption
     DEF SettleConfirmed, SettleReversed, Holds, TotalBefore, Fits, Minor
<1> DEFINE entry == [id |-> id, type |-> req[r].to, amount |-> amount, balanceAfter |-> total]
           row == WithContributed(vault[v], total)
<1>5. entry \in LedgerEntry /\ req[r].to \in EntryTypes
  BY <1>2, <1>4 DEF LedgerEntry, EntryTypes, Minor
<1>6. row \in VaultRow /\ row.contributed = total
  BY <1>3, <1>4 DEF WithContributed, VaultRow
<1>7. entry.balanceAfter = vault[v].contributed + Signed(entry)
  BY <1>2, <1>3, <1>4 DEF Signed, Minor
<1>8. vault' = [vault EXCEPT ![v] = row] /\ ledger' = [ledger EXCEPT ![v] = Append(@, entry)]
  BY <1>4 DEF MoveMoney
<1> QED
  BY <1>1, <1>2, <1>4, <1>5, <1>6, <1>7, <1>8

LEMMA LedgerInvariantStep ==
  TypeInv /\ LedgerReplaysBalance /\ [Next]_vars => LedgerReplaysBalance'
<1> SUFFICES ASSUME TypeInv, LedgerReplaysBalance, [Next]_vars
             PROVE  LedgerReplaysBalance'
  OBVIOUS
<1>1. ASSUME NEW r \in Requests, SettleConfirmed(r) \/ SettleReversed(r)
      PROVE  LedgerReplaysBalance'
  <2> DEFINE v == VaultOf(req[r].id)
  <2>1. PICK entry \in LedgerEntry, row \in VaultRow :
          /\ v \in Vaults
          /\ row.contributed = entry.balanceAfter
          /\ entry.balanceAfter = vault[v].contributed + Signed(entry)
          /\ vault' = [vault EXCEPT ![v] = row]
          /\ ledger' = [ledger EXCEPT ![v] = Append(@, entry)]
    BY <1>1, MoneyMove
  <2>2. ledger[v] \in Seq(LedgerEntry) /\ vault[v].contributed \in Int
    BY <2>1 DEF TypeInv, TypeOK, VaultRow, Minor
  <2>3. Replays(ledger[v], vault[v].contributed)
    BY <2>1 DEF LedgerReplaysBalance
  <2>4. Replays(Append(ledger[v], entry), entry.balanceAfter)
    BY <2>1, <2>2, <2>3, ReplaysAppend
  <2>5. \A w \in Vaults :
          /\ ledger'[w] = IF w = v THEN Append(ledger[v], entry) ELSE ledger[w]
          /\ vault'[w] = IF w = v THEN row ELSE vault[w]
    BY <2>1 DEF TypeInv, TypeOK
  <2> QED
    BY <2>1, <2>4, <2>5 DEF LedgerReplaysBalance
<1>2. ASSUME UNCHANGED <<vault, ledger>>
      PROVE  LedgerReplaysBalance'
  BY <1>2 DEF LedgerReplaysBalance
<1> QED
  BY <1>1, <1>2
     DEF Next, vars, ReplayIntent, BeginIntent, InsertIntent, InsertConflict, BeginSettle,
         SettleFailed, SettleRolledBack, Lost

\* However settlements interleave, replaying a vault's ledger reproduces every
\* running balance and ends at the vault's total: no settlement is lost and none
\* is booked on a stale total (settle_with_audit).
THEOREM LedgerExact == Spec => []LedgerReplaysBalance
<1>1. Init => LedgerReplaysBalance
  BY DEF Init, LedgerReplaysBalance, Replays, BalanceBefore, NewVault
<1> QED
  BY <1>1, TypeInvariant, LedgerInvariantStep, PTL DEF Spec

-----------------------------------------------------------------------------
(* Idempotency keys.                                                       *)

KeysUnique == \A a, b \in Recorded : contribution[a].key = contribution[b].key => a = b

AcksStored == \A k \in Keys : acked[k] \subseteq WithKey(k)

LEMMA KeysInit == Init => KeysUnique /\ AcksStored
BY DEF Init, KeysUnique, AcksStored, Recorded, WithKey

LEMMA KeysStep == TypeInv /\ KeysUnique /\ AcksStored /\ [Next]_vars => KeysUnique' /\ AcksStored'
<1> SUFFICES ASSUME TypeInv, KeysUnique, AcksStored, [Next]_vars
             PROVE  KeysUnique' /\ AcksStored'
  OBVIOUS
<1>1. ASSUME NEW r \in Requests, NEW id \in Ids, InsertIntent(r, id)
      PROVE  KeysUnique' /\ AcksStored'
  <2> DEFINE row == [intent |-> req[r].intent, key |-> req[r].key, status |-> "Pending"]
  <2>1. req[r] \in Creating /\ row \in ContributionRow /\ row # NoRow
    BY <1>1, TaskKind, RowIsNotNoRow DEF InsertIntent, ContributionRow, Statuses, Creating
  <2>2. Recorded' = Recorded \cup {id} /\ id \notin Recorded
    BY <1>1, <2>1 DEF InsertIntent, TypeInv, TypeOK, Recorded
  <2>3. contribution'[id] = row /\ \A i \in Recorded : contribution'[i] = contribution[i]
    BY <1>1, <2>2 DEF InsertIntent, TypeInv, TypeOK, Recorded
  <2>4. \A i \in Recorded : contribution[i].key # row.key
    BY <1>1 DEF InsertIntent, WithKey
  <2>5. KeysUnique'
    BY <2>2, <2>3, <2>4 DEF KeysUnique
  <2>6. ASSUME NEW k \in Keys
        PROVE  acked'[k] \subseteq WithKey(k)'
    <3>1. WithKey(k) \subseteq WithKey(k)'
      BY <2>2, <2>3 DEF WithKey
    <3>2. CASE k = row.key
      <4>1. id \in WithKey(k)' /\ acked'[k] = acked[k] \cup {id}
        BY <1>1, <2>1, <2>2, <2>3, <3>2 DEF InsertIntent, WithKey, TypeInv, TypeOK
      <4> QED
        BY <3>1, <4>1 DEF AcksStored
    <3>3. CASE k # row.key
      <4>1. acked'[k] = acked[k]
        BY <1>1, <3>3 DEF InsertIntent, TypeInv, TypeOK
      <4> QED
        BY <3>1, <4>1 DEF AcksStored
    <3> QED
      BY <3>2, <3>3
  <2> QED
    BY <2>5, <2>6 DEF AcksStored
<1>2. ASSUME NEW r \in Requests, NEW k \in Keys, NEW in \in Intents, ReplayIntent(r, k, in)
      PROVE  KeysUnique' /\ AcksStored'
  BY <1>2 DEF ReplayIntent, KeysUnique, AcksStored, Recorded, WithKey, TypeInv, TypeOK
<1>3. ASSUME NEW r \in Requests, CommitStatus(r), req[r].op = "settle"
      PROVE  KeysUnique' /\ AcksStored'
  <2>1. req[r].id \in Recorded
    BY <1>3, TaskKind
  <2>2. contribution[req[r].id] \in ContributionRow
    BY <2>1, StoredIntent
  <2> DEFINE row == [contribution[req[r].id] EXCEPT !.status = req[r].to]
  <2>5. contribution' = [contribution EXCEPT ![req[r].id] = row]
    BY <1>3 DEF CommitStatus
  <2>6. row \in ContributionRow /\ row.key = contribution[req[r].id].key
    BY <1>3, <2>2, TaskKind DEF ContributionRow, Settling, Targets, Statuses
  <2>7. row # NoRow
    BY <2>6, RowIsNotNoRow
  <2> HIDE DEF row
  <2>3. Recorded' = Recorded /\ \A i \in Recorded : contribution'[i].key = contribution[i].key
    BY <2>1, <2>5, <2>6, <2>7 DEF TypeInv, TypeOK, Recorded
  <2>4. acked' = acked
    BY <1>3 DEF CommitStatus
  <2> QED
    BY <2>3, <2>4 DEF KeysUnique, AcksStored, WithKey
<1>4. ASSUME UNCHANGED <<contribution, acked>>
      PROVE  KeysUnique' /\ AcksStored'
  BY <1>4 DEF KeysUnique, AcksStored, Recorded, WithKey
<1> QED
  BY <1>1, <1>2, <1>3, <1>4
     DEF Next, vars, BeginIntent, InsertConflict, BeginSettle, SettleConfirmed, SettleReversed,
         SettleFailed, Holds, SettleRolledBack, Lost

\* For every number of racing clients and retries, one idempotency key stands for
\* at most one contribution, and every successful answer under it names that one
\* (record_contribution_intent with the UNIQUE column).
THEOREM KeysAreIdempotent == Spec => []IdempotentReplies
<1>1. KeysUnique /\ AcksStored => IdempotentReplies
  <2> SUFFICES ASSUME KeysUnique, AcksStored, NEW k \in Keys
               PROVE  acked[k] \subseteq WithKey(k) /\ Cardinality(WithKey(k)) <= 1
    BY DEF IdempotentReplies
  <2>1. CASE WithKey(k) = {}
    BY <2>1, FS_EmptySet DEF AcksStored
  <2>2. CASE WithKey(k) # {}
    <3>1. PICK id : WithKey(k) = {id}
      BY <2>2 DEF KeysUnique, WithKey
    <3>2. Cardinality(WithKey(k)) = 1
      BY <3>1, FS_Singleton
    <3> QED
      BY <3>2 DEF AcksStored
  <2> QED
    BY <2>1, <2>2
<1> QED
  BY <1>1, TypeInvariant, KeysInit, KeysStep, PTL DEF Spec

-----------------------------------------------------------------------------
(* The discipline.  While no two tasks settle one contribution, what a     *)
(* settling task read is still true when it commits.                       *)

ReadsStillHold ==
  \A r \in Requests : req[r].op = "settle" =>
    /\ contribution[req[r].id].status = req[r].from
    /\ <<req[r].from, req[r].to>> \in LegalMoves

DisciplinedInv == TypeInv /\ OneSettlerEach /\ ReadsStillHold

LEMMA ReadsStep == DisciplinedInv /\ [DisciplinedNext]_vars => ReadsStillHold'
<1> SUFFICES ASSUME DisciplinedInv, [DisciplinedNext]_vars
             PROVE  ReadsStillHold'
  OBVIOUS
<1>1. TypeInv /\ OneSettlerEach /\ ReadsStillHold /\ TypeOK
  BY DEF DisciplinedInv, TypeInv
<1>2. ASSUME NEW r \in Requests, req' = [req EXCEPT ![r] = Idle], UNCHANGED contribution
      PROVE  ReadsStillHold'
  BY <1>1, <1>2 DEF ReadsStillHold, TypeOK, Idle
<1>3. ASSUME NEW r \in Requests, NEW id \in Ids, InsertIntent(r, id)
      PROVE  ReadsStillHold'
  <2>1. id \notin Recorded
    BY <1>3 DEF InsertIntent, Recorded
  <2> QED
    BY <1>1, <1>3, <2>1 DEF InsertIntent, ReadsStillHold, TypeInv, TasksSound, TypeOK, Idle
<1>4. ASSUME NEW r \in Requests, NEW k \in Keys, NEW in \in Intents,
             ReplayIntent(r, k, in) \/ BeginIntent(r, k, in)
      PROVE  ReadsStillHold'
  <2>1. CASE ReplayIntent(r, k, in)
    BY <1>1, <2>1 DEF ReplayIntent, ReadsStillHold
  <2>2. CASE BeginIntent(r, k, in)
    <3>1. req'[r].op = "create" /\ \A s \in Requests : s # r => req'[s] = req[s]
      BY <1>1, <2>2 DEF BeginIntent, TypeOK
    <3>2. contribution' = contribution
      BY <2>2 DEF BeginIntent
    <3> QED
      BY <1>1, <3>1, <3>2 DEF ReadsStillHold
  <2> QED
    BY <1>4, <2>1, <2>2
<1>5. ASSUME NEW r \in Requests, NEW id \in Ids, NEW target \in Targets, BeginSettle(r, id, target)
      PROVE  ReadsStillHold'
  BY <1>1, <1>5 DEF BeginSettle, ReadsStillHold, TypeOK
<1>6. ASSUME NEW r \in Requests, req[r].op = "settle", CommitStatus(r)
      PROVE  ReadsStillHold'
  <2> SUFFICES ASSUME NEW s \in Requests, req'[s].op = "settle"
               PROVE  /\ contribution'[req'[s].id].status = req'[s].from
                      /\ <<req'[s].from, req'[s].to>> \in LegalMoves
    BY DEF ReadsStillHold
  <2>1. s # r /\ req'[s] = req[s]
    BY <1>1, <1>6 DEF CommitStatus, TypeOK, Idle
  <2>2. req[s].id # req[r].id
    BY <1>1, <1>6, <2>1 DEF OneSettlerEach
  <2>3. contribution'[req[s].id] = contribution[req[s].id]
    BY <1>1, <1>6, <2>1, <2>2 DEF CommitStatus, TypeInv, TypeOK, TasksSound, Recorded
  <2> QED
    BY <1>1, <2>1, <2>3 DEF ReadsStillHold
<1>7. CASE UNCHANGED vars
  BY <1>1, <1>7 DEF vars, ReadsStillHold
<1> QED
  BY <1>2, <1>3, <1>4, <1>5, <1>6, <1>7
     DEF DisciplinedNext, Next, InsertConflict, SettleConfirmed, SettleReversed, SettleFailed,
         Holds, SettleRolledBack, Lost

LEMMA DisciplinedInit == Init => DisciplinedInv
BY TypeInit DEF Init, DisciplinedInv, OneSettlerEach, ReadsStillHold, Idle

LEMMA DisciplinedInvariant == DisciplinedSpec => []DisciplinedInv
<1>1. DisciplinedInv /\ [DisciplinedNext]_vars => DisciplinedInv'
  <2>1. DisciplinedInv /\ [DisciplinedNext]_vars => TypeInv'
    BY TypeStep DEF DisciplinedInv, DisciplinedNext
  <2>2. DisciplinedInv /\ [DisciplinedNext]_vars => OneSettlerEach'
    BY DEF DisciplinedInv, DisciplinedNext, OneSettlerEach, vars
  <2> QED
    BY <2>1, <2>2, ReadsStep DEF DisciplinedInv
<1> QED
  BY <1>1, DisciplinedInit, PTL DEF DisciplinedSpec

\* A step of a status, as validate_transition allows it.
LegalStep ==
  \A id \in Recorded :
    contribution'[id].status # contribution[id].status
      => <<contribution[id].status, contribution'[id].status>> \in LegalMoves

LEMMA DisciplinedLegal ==
  DisciplinedInv /\ [DisciplinedNext]_vars => [LegalStep]_contribution
<1> SUFFICES ASSUME DisciplinedInv, [DisciplinedNext]_vars, contribution' # contribution,
                    NEW id \in Recorded, contribution'[id].status # contribution[id].status
             PROVE  <<contribution[id].status, contribution'[id].status>> \in LegalMoves
  BY DEF LegalStep
<1>1. TypeInv /\ ReadsStillHold
  BY DEF DisciplinedInv
<1>2. ASSUME NEW r \in Requests, req[r].op = "settle", CommitStatus(r)
      PROVE  <<contribution[id].status, contribution'[id].status>> \in LegalMoves
  <2>1. req[r].id \in Recorded /\ contribution[req[r].id] \in ContributionRow
    BY <1>1, <1>2, TaskKind, StoredIntent
  <2>2. id = req[r].id /\ contribution'[id].status = req[r].to
    BY <1>1, <1>2, <2>1 DEF CommitStatus, TypeInv, TypeOK, Recorded, ContributionRow
  <2> QED
    BY <1>1, <1>2, <2>2 DEF ReadsStillHold
<1>3. ASSUME NEW r \in Requests, NEW i \in Ids, InsertIntent(r, i)
      PROVE  FALSE
  BY <1>1, <1>3 DEF InsertIntent, Recorded, TypeInv, TypeOK
<1> QED
  BY <1>2, <1>3
     DEF DisciplinedNext, Next, vars, ReplayIntent, BeginIntent, InsertConflict, BeginSettle,
         SettleConfirmed, SettleReversed, SettleFailed, Holds, SettleRolledBack, Lost

\* When no two tasks settle one contribution at the same time, a status only
\* moves along validate_transition, however many contributions are settled
\* concurrently: the validation read outside the transaction is then enough.
THEOREM DisciplinedMovesAreLegal == DisciplinedSpec => LegalMovesOnly
BY DisciplinedLegal, DisciplinedInvariant, PTL
   DEF DisciplinedSpec, LegalMovesOnly, LegalStep

-----------------------------------------------------------------------------
(* What a step does to the rows, in the form the rest of the proofs want:  *)
(* it inserts one row, commits one settlement, or changes neither rows nor *)
(* books.                                                                  *)

RowsSame == UNCHANGED <<vault, contribution, ledger, audit>>

RowInserted(id) ==
  /\ id \in Ids \ Recorded
  /\ Recorded' = Recorded \cup {id}
  /\ contribution'[id] \in ContributionRow
  /\ contribution'[id].status = "Pending"
  /\ \A i \in Recorded : contribution'[i] = contribution[i]
  /\ audit' = [audit EXCEPT ![id] = Append(@, [from |-> "None", to |-> "Pending"])]
  /\ UNCHANGED <<vault, ledger>>

RowSettled(id, from, to) ==
  /\ id \in Recorded
  /\ from \in Statuses /\ to \in Targets
  /\ contribution[id].status # to
  /\ Recorded' = Recorded
  /\ contribution'[id].status = to
  /\ contribution'[id].intent = contribution[id].intent
  /\ contribution'[id].key = contribution[id].key
  /\ \A i \in Recorded : i # id => contribution'[i] = contribution[i]
  /\ audit' = [audit EXCEPT ![id] = Append(@, [from |-> from, to |-> to])]

\* The vault's total moves to total, and the entry says so.
MoneyMoved(id, to, total) ==
  LET v == VaultOf(id)
      entry == [id |-> id, type |-> to, amount |-> AmountOf(id), balanceAfter |-> total]
  IN
  /\ entry \in LedgerEntry
  /\ vault'[v] = WithContributed(vault[v], total)
  /\ vault'[v].contributed = total
  /\ \A w \in Vaults : w # v => vault'[w] = vault[w]
  /\ ledger' = [ledger EXCEPT ![v] = Append(@, entry)]

Credited(id) == MoneyMoved(id, "Confirmed", vault[VaultOf(id)].contributed + AmountOf(id))

Debited(id) == MoneyMoved(id, "Reversed", vault[VaultOf(id)].contributed - AmountOf(id))

SettlementEffect(r) ==
  /\ req[r].op = "settle"
  /\ RowSettled(req[r].id, req[r].from, req[r].to)
  /\ \/ req[r].to = "Confirmed" /\ Credited(req[r].id)
     \/ req[r].to = "Reversed" /\ Debited(req[r].id)
     \/ req[r].to = "Failed" /\ UNCHANGED <<vault, ledger>>

LEMMA InsertEffect ==
  ASSUME TypeInv, NEW r \in Requests, NEW id \in Ids, InsertIntent(r, id)
  PROVE  RowInserted(id)
<1> DEFINE row == [intent |-> req[r].intent, key |-> req[r].key, status |-> "Pending"]
<1>1. req[r] \in Creating
  BY TaskKind DEF InsertIntent
<1>2. row \in ContributionRow /\ row # NoRow /\ row.status = "Pending"
  BY <1>1, RowIsNotNoRow DEF Creating, ContributionRow, Statuses
<1>3. contribution' = [contribution EXCEPT ![id] = row] /\ contribution[id] = NoRow
  BY DEF InsertIntent
<1> HIDE DEF row
<1>4. /\ id \in Ids \ Recorded
      /\ Recorded' = Recorded \cup {id}
      /\ contribution'[id] = row
      /\ \A i \in Recorded : contribution'[i] = contribution[i]
  BY <1>2, <1>3 DEF TypeInv, TypeOK, Recorded
<1> QED
  BY <1>2, <1>4 DEF RowInserted, InsertIntent

LEMMA CommitRow ==
  ASSUME TypeInv, NEW r \in Requests, req[r].op = "settle", MustMove(r), CommitStatus(r)
  PROVE  RowSettled(req[r].id, req[r].from, req[r].to)
<1> DEFINE id == req[r].id
           row == [contribution[id] EXCEPT !.status = req[r].to]
<1>1. /\ req[r] \in Settling /\ id \in Recorded /\ id \in Ids
      /\ contribution[id] \in ContributionRow
  BY TaskKind, StoredIntent
<1>2. /\ row \in ContributionRow
      /\ row.status = req[r].to
      /\ row.intent = contribution[id].intent
      /\ row.key = contribution[id].key
  BY <1>1 DEF ContributionRow, Settling, Targets, Statuses
<1>3. contribution' = [contribution EXCEPT ![id] = row]
  BY DEF CommitStatus
<1>4. row # NoRow
  BY <1>2, RowIsNotNoRow
<1> HIDE DEF row
<1>5. /\ Recorded' = Recorded
      /\ contribution'[id] = row
      /\ \A i \in Recorded : i # id => contribution'[i] = contribution[i]
  BY <1>1, <1>3, <1>4 DEF TypeInv, TypeOK, Recorded
<1>6. audit' = [audit EXCEPT ![id] = Append(@, [from |-> req[r].from, to |-> req[r].to])]
  BY DEF CommitStatus
<1>7. contribution[id].status # req[r].to
  BY DEF MustMove
<1> QED
  BY <1>1, <1>2, <1>5, <1>6, <1>7 DEF RowSettled, Settling

LEMMA MoveEffect ==
  ASSUME TypeInv, NEW r \in Requests, req[r].op = "settle", req[r].to \in EntryTypes,
         NEW total \in Minor, MoveMoney(r, total)
  PROVE  MoneyMoved(req[r].id, req[r].to, total)
<1> DEFINE id == req[r].id
           v == VaultOf(id)
           entry == [id |-> id, type |-> req[r].to, amount |-> AmountOf(id),
                     balanceAfter |-> total]
<1>1. id \in Ids /\ v \in Vaults /\ AmountOf(id) \in Minor
  BY TaskKind, StoredIntent, MaxMinorAssumption DEF Minor
<1>2. entry \in LedgerEntry
  BY <1>1 DEF LedgerEntry
<1>3. /\ vault'[v] = WithContributed(vault[v], total)
      /\ vault'[v].contributed = total
      /\ \A w \in Vaults : w # v => vault'[w] = vault[w]
  BY <1>1 DEF MoveMoney, TypeInv, TypeOK, WithContributed
<1>4. ledger' = [ledger EXCEPT ![v] = Append(@, entry)]
  BY DEF MoveMoney
<1> QED
  BY <1>2, <1>3, <1>4 DEF MoneyMoved

LEMMA StepKinds ==
  ASSUME TypeInv, [Next]_vars
  PROVE  \/ RowsSame
         \/ \E r \in Requests, id \in Ids : InsertIntent(r, id)
         \/ \E r \in Requests : SettlementEffect(r)
<1>1. ASSUME NEW r \in Requests, SettleConfirmed(r) \/ SettleReversed(r)
      PROVE  SettlementEffect(r)
  <2> DEFINE id == req[r].id
             sum == TotalBefore(r) + AmountOf(id)
             rest == TotalBefore(r) - AmountOf(id)
  <2>1. req[r].op = "settle" /\ id \in Recorded
    BY <1>1, TaskKind DEF SettleConfirmed, SettleReversed, Holds
  <2>2. TotalBefore(r) \in Minor /\ AmountOf(id) \in 1 .. MaxMinor
    BY <2>1, StoredIntent DEF TypeInv, TypeOK, VaultRow, TotalBefore
  <2>3. RowSettled(id, req[r].from, req[r].to)
    BY <1>1, <2>1, CommitRow DEF SettleConfirmed, SettleReversed
  <2>4. CASE SettleConfirmed(r)
    <3>1. sum \in Minor
      BY <2>2, <2>4, MaxMinorAssumption DEF SettleConfirmed, Fits, Minor
    <3>2. req[r].to = "Confirmed" /\ MoveMoney(r, sum)
      BY <2>4 DEF SettleConfirmed, Holds
    <3>3. MoneyMoved(id, "Confirmed", sum)
      BY <2>1, <3>1, <3>2, MoveEffect DEF EntryTypes
    <3> QED
      BY <2>1, <2>3, <3>2, <3>3 DEF SettlementEffect, Credited, TotalBefore
  <2>5. CASE SettleReversed(r)
    <3>1. rest \in Minor
      BY <2>2, <2>5, MaxMinorAssumption DEF SettleReversed, Minor
    <3>2. req[r].to = "Reversed" /\ MoveMoney(r, rest)
      BY <2>5 DEF SettleReversed, Holds
    <3>3. MoneyMoved(id, "Reversed", rest)
      BY <2>1, <3>1, <3>2, MoveEffect DEF EntryTypes
    <3> QED
      BY <2>1, <2>3, <3>2, <3>3 DEF SettlementEffect, Debited, TotalBefore
  <2> QED
    BY <1>1, <2>4, <2>5
<1>2. ASSUME NEW r \in Requests, SettleFailed(r)
      PROVE  SettlementEffect(r)
  BY <1>2, CommitRow DEF SettleFailed, Holds, SettlementEffect
<1> QED
  BY <1>1, <1>2
     DEF RowsSame, Next, vars, ReplayIntent, BeginIntent, InsertConflict, BeginSettle,
         SettleRolledBack, Lost

LEMMA StepEffect ==
  ASSUME TypeInv, [Next]_vars
  PROVE  \/ RowsSame
         \/ \E id \in Ids : RowInserted(id)
         \/ \E r \in Requests : SettlementEffect(r)
BY StepKinds, InsertEffect

-----------------------------------------------------------------------------
(* The books of one contribution: its status, its ledger entries and its   *)
(* audit rows.  An id that is not in use yet has left no trace anywhere.   *)

EntriesKnown ==
  \A v \in Vaults : \A i \in 1 .. Len(ledger[v]) :
    ledger[v][i].id \in Recorded /\ VaultOf(ledger[v][i].id) = v

FreshUnaudited == \A id \in Ids \ Recorded : audit[id] = << >>

LEMMA AppendFacts ==
  ASSUME NEW S, NEW rows \in Seq(S), NEW row
  PROVE  /\ Len(rows) \in Nat
         /\ Len(Append(rows, row)) = Len(rows) + 1
         /\ Append(rows, row)[Len(rows) + 1] = row
         /\ \A i \in 1 .. Len(rows) : Append(rows, row)[i] = rows[i]
OBVIOUS

\* How a settlement changes the ledgers, seen entry by entry.
LEMMA LedgerGrows ==
  ASSUME TypeInv, NEW id \in Recorded, NEW to, NEW total, MoneyMoved(id, to, total)
  PROVE  LET v == VaultOf(id)
             n == Len(ledger[v])
         IN  /\ v \in Vaults
             /\ n \in Nat
             /\ Len(ledger'[v]) = n + 1
             /\ ledger'[v][n + 1].id = id
             /\ ledger'[v][n + 1].type = to
             /\ ledger'[v][n + 1].amount = AmountOf(id)
             /\ \A i \in 1 .. n : ledger'[v][i] = ledger[v][i]
             /\ \A w \in Vaults : w # v => ledger'[w] = ledger[w]
<1> DEFINE v == VaultOf(id)
           entry == [id |-> id, type |-> to, amount |-> AmountOf(id), balanceAfter |-> total]
<1>1. v \in Vaults /\ ledger[v] \in Seq(LedgerEntry)
  BY StoredIntent DEF TypeInv, TypeOK
<1>2. ledger' = [ledger EXCEPT ![v] = Append(@, entry)]
  BY DEF MoneyMoved
<1>3. ledger'[v] = Append(ledger[v], entry) /\ \A w \in Vaults : w # v => ledger'[w] = ledger[w]
  BY <1>1, <1>2 DEF TypeInv, TypeOK
<1>4. entry.id = id /\ entry.type = to /\ entry.amount = AmountOf(id)
  OBVIOUS
<1> HIDE DEF entry
<1> QED
  BY <1>1, <1>3, <1>4, AppendFacts

\* How a step changes the entries and the moves of a contribution.
BooksGrow(id) ==
  LET n == Len(ledger[VaultOf(id)])
      m == Len(audit[id])
  IN
  /\ n \in Nat /\ m \in Nat
  /\ EntriesOf(id)' = EntriesOf(id) \cup {n + 1}
  /\ MovesOf(id)' = MovesOf(id) \cup {m + 1}
  /\ ledger'[VaultOf(id)][n + 1].type = contribution'[id].status
  /\ audit'[id][m + 1].to = contribution'[id].status
  /\ \A i \in 1 .. n : ledger'[VaultOf(id)][i] = ledger[VaultOf(id)][i]
  /\ \A i \in 1 .. m : audit'[id][i] = audit[id][i]

BooksSame(id) ==
  /\ EntriesOf(id)' = EntriesOf(id)
  /\ MovesOf(id)' = MovesOf(id)
  /\ \A i \in EntriesOf(id) : ledger'[VaultOf(id)][i] = ledger[VaultOf(id)][i]
  /\ \A i \in MovesOf(id) : audit'[id][i] = audit[id][i]

LEMMA SettledBooks ==
  ASSUME TypeInv, NEW id \in Recorded, NEW from, NEW to \in EntryTypes, NEW total,
         RowSettled(id, from, to), MoneyMoved(id, to, total)
  PROVE  BooksGrow(id)
<1> DEFINE v == VaultOf(id)
           n == Len(ledger[v])
           m == Len(audit[id])
           row == [from |-> from, to |-> to]
<1>1. /\ v \in Vaults /\ n \in Nat
      /\ Len(ledger'[v]) = n + 1
      /\ ledger'[v][n + 1].id = id
      /\ ledger'[v][n + 1].type = to
      /\ \A i \in 1 .. n : ledger'[v][i] = ledger[v][i]
  BY LedgerGrows
<1>2. id \in Ids /\ audit[id] \in Seq(AuditEntry)
  BY DEF Recorded, TypeInv, TypeOK
<1>3. audit'[id] = Append(audit[id], row) /\ row.to = to
  BY <1>2 DEF RowSettled, TypeInv, TypeOK
<1> HIDE DEF row
<1>4. /\ m \in Nat
      /\ Len(audit'[id]) = m + 1
      /\ audit'[id][m + 1].to = to
      /\ \A i \in 1 .. m : audit'[id][i] = audit[id][i]
  BY <1>2, <1>3, AppendFacts
<1>5. contribution'[id].status = to /\ (VaultOf(id))' = v
  BY DEF RowSettled, VaultOf
<1>6. EntriesOf(id)' = EntriesOf(id) \cup {n + 1}
  <2>1. EntriesOf(id)' = {i \in 1 .. n + 1 : ledger'[v][i].id = id}
    BY <1>1, <1>5 DEF EntriesOf
  <2>2. EntriesOf(id) = {i \in 1 .. n : ledger[v][i].id = id}
    BY DEF EntriesOf
  <2>3. 1 .. n + 1 = 1 .. n \cup {n + 1}
    BY <1>1
  <2> HIDE DEF v, n
  <2> QED
    BY <1>1, <2>1, <2>2, <2>3
<1>7. MovesOf(id)' = MovesOf(id) \cup {m + 1}
  <2>1. MovesOf(id)' = {i \in 1 .. m + 1 : audit'[id][i].to \in EntryTypes}
    BY <1>4 DEF MovesOf
  <2>2. MovesOf(id) = {i \in 1 .. m : audit[id][i].to \in EntryTypes}
    BY DEF MovesOf
  <2>3. 1 .. m + 1 = 1 .. m \cup {m + 1}
    BY <1>4
  <2> HIDE DEF m
  <2> QED
    BY <1>4, <2>1, <2>2, <2>3
<1> QED
  BY <1>1, <1>4, <1>5, <1>6, <1>7 DEF BooksGrow

\* Every other contribution keeps its books, also the ones of the same vault.
LEMMA OtherBooks ==
  ASSUME TypeInv, NEW id \in Recorded, NEW from, NEW to, NEW total,
         RowSettled(id, from, to), MoneyMoved(id, to, total),
         NEW other \in Recorded, other # id
  PROVE  BooksSame(other)
<1> DEFINE v == VaultOf(id)
           w == VaultOf(other)
           n == Len(ledger[v])
<1>1. /\ v \in Vaults /\ n \in Nat
      /\ Len(ledger'[v]) = n + 1
      /\ ledger'[v][n + 1].id = id
      /\ \A i \in 1 .. n : ledger'[v][i] = ledger[v][i]
      /\ \A u \in Vaults : u # v => ledger'[u] = ledger[u]
  BY LedgerGrows
<1>2. w \in Vaults /\ (VaultOf(other))' = w
  BY StoredIntent DEF RowSettled, VaultOf
<1>3. audit'[other] = audit[other]
  BY DEF RowSettled, TypeInv, TypeOK, Recorded
<1>4. MovesOf(other)' = MovesOf(other)
  BY <1>3 DEF MovesOf
<1>5. EntriesOf(other)' = EntriesOf(other)
  <2>1. CASE w # v
    BY <1>1, <1>2, <2>1 DEF EntriesOf
  <2>2. CASE w = v
    <3>1. EntriesOf(other)' = {i \in 1 .. n + 1 : ledger'[v][i].id = other}
      BY <1>1, <1>2, <2>2 DEF EntriesOf
    <3>2. EntriesOf(other) = {i \in 1 .. n : ledger[v][i].id = other}
      BY <2>2 DEF EntriesOf
    <3>3. 1 .. n + 1 = 1 .. n \cup {n + 1}
      BY <1>1
    <3> HIDE DEF v, w, n
    <3> QED
      BY <1>1, <3>1, <3>2, <3>3
  <2> QED
    BY <2>1, <2>2
<1>6. \A i \in EntriesOf(other) : ledger'[w][i] = ledger[w][i]
  BY <1>1, <1>2 DEF EntriesOf
<1> QED
  BY <1>3, <1>4, <1>5, <1>6 DEF BooksSame

\* A transaction that moves no money appends one audit row, whose status says so.
LEMMA UnmovedBooks ==
  ASSUME TypeInv, UNCHANGED ledger, NEW id \in Ids, NEW row,
         audit' = [audit EXCEPT ![id] = Append(@, row)], row.to \notin EntryTypes,
         NEW other \in Recorded, (VaultOf(other))' = VaultOf(other)
  PROVE  BooksSame(other)
<1>1. other \in Ids /\ audit[other] \in Seq(AuditEntry)
  BY DEF Recorded, TypeInv, TypeOK
<1>2. EntriesOf(other)' = EntriesOf(other)
  BY DEF EntriesOf
<1>3. CASE other # id
  <2>1. audit'[other] = audit[other]
    BY <1>3 DEF TypeInv, TypeOK
  <2> QED
    BY <1>2, <2>1 DEF BooksSame, MovesOf
<1>4. CASE other = id
  <2> DEFINE m == Len(audit[id])
  <2>1. audit'[id] = Append(audit[id], row)
    BY DEF TypeInv, TypeOK
  <2>2. /\ m \in Nat
        /\ Len(audit'[id]) = m + 1
        /\ audit'[id][m + 1] = row
        /\ \A i \in 1 .. m : audit'[id][i] = audit[id][i]
    BY <1>1, <1>4, <2>1, AppendFacts
  <2>3. MovesOf(id)' = {i \in 1 .. m + 1 : audit'[id][i].to \in EntryTypes}
    BY <2>2 DEF MovesOf
  <2>4. MovesOf(id) = {i \in 1 .. m : audit[id][i].to \in EntryTypes}
    BY DEF MovesOf
  <2>5. 1 .. m + 1 = 1 .. m \cup {m + 1}
    BY <2>2
  <2>6. \A i \in MovesOf(id) : audit'[id][i] = audit[id][i]
    BY <2>2, <2>4
  <2> HIDE DEF m
  <2>7. MovesOf(id)' = MovesOf(id)
    BY <2>2, <2>3, <2>4, <2>5
  <2> QED
    BY <1>2, <1>4, <2>6, <2>7 DEF BooksSame
<1> QED
  BY <1>3, <1>4

\* A contribution that is inserted starts with empty books.
LEMMA NewBooks ==
  ASSUME TypeInv, EntriesKnown, FreshUnaudited, NEW id, RowInserted(id)
  PROVE  /\ EntriesOf(id)' = {}
         /\ MovesOf(id)' = {}
<1>1. id \in Ids /\ id \notin Recorded /\ contribution'[id] \in ContributionRow
  BY DEF RowInserted
<1>2. (VaultOf(id))' \in Vaults
  BY <1>1, ContributionsAssumption DEF VaultOf, ContributionRow
<1>3. EntriesOf(id)' = {}
  BY <1>1, <1>2 DEF RowInserted, EntriesOf, EntriesKnown
<1>4. audit[id] = << >>
  BY <1>1 DEF FreshUnaudited
<1> DEFINE row == [from |-> "None", to |-> "Pending"]
<1>5. row.to \notin EntryTypes
  BY DEF EntryTypes
<1>6. audit' = [audit EXCEPT ![id] = Append(@, row)]
  BY DEF RowInserted
<1> HIDE DEF row
<1>7. audit'[id] = Append(<< >>, row)
  BY <1>1, <1>4, <1>6 DEF TypeInv, TypeOK
<1>8. Len(audit'[id]) = 1 /\ audit'[id][1] = row
  BY <1>7
<1>9. MovesOf(id)' = {}
  BY <1>5, <1>8 DEF MovesOf
<1> QED
  BY <1>3, <1>9

\* Every recorded contribution of the next state, and what happened to its books.
LEMMA BooksStep ==
  ASSUME TypeInv, EntriesKnown, FreshUnaudited, [Next]_vars, NEW id \in Recorded'
  PROVE  \/ /\ id \in Recorded
            /\ BooksSame(id)
            /\ (VaultOf(id))' = VaultOf(id)
            /\ \/ contribution'[id].status = contribution[id].status
               \/ contribution'[id].status = "Failed"
         \/ /\ id \in Recorded
            /\ BooksGrow(id)
            /\ (VaultOf(id))' = VaultOf(id)
            /\ contribution'[id].status \in EntryTypes
         \/ /\ EntriesOf(id)' = {}
            /\ MovesOf(id)' = {}
            /\ contribution'[id].status = "Pending"
<1>1. CASE RowsSame
  BY <1>1 DEF RowsSame, Recorded, BooksSame, EntriesOf, MovesOf, VaultOf
<1>2. ASSUME NEW i \in Ids, RowInserted(i), id # i
      PROVE  /\ id \in Recorded
             /\ BooksSame(id)
             /\ (VaultOf(id))' = VaultOf(id)
             /\ contribution'[id].status = contribution[id].status
  <2>1. id \in Recorded /\ contribution'[id] = contribution[id]
    BY <1>2 DEF RowInserted
  <2>2. (VaultOf(id))' = VaultOf(id)
    BY <2>1 DEF VaultOf
  <2> DEFINE row == [from |-> "None", to |-> "Pending"]
  <2>3. row.to \notin EntryTypes
    BY DEF EntryTypes
  <2>4. audit' = [audit EXCEPT ![i] = Append(@, row)] /\ UNCHANGED ledger
    BY <1>2 DEF RowInserted
  <2> HIDE DEF row
  <2>5. BooksSame(id)
    BY <2>1, <2>2, <2>3, <2>4, UnmovedBooks
  <2> QED
    BY <2>1, <2>2, <2>5
<1>3. ASSUME NEW i \in Ids, RowInserted(i), id = i
      PROVE  /\ EntriesOf(id)' = {}
             /\ MovesOf(id)' = {}
             /\ contribution'[id].status = "Pending"
  BY <1>3, NewBooks DEF RowInserted
<1>4. ASSUME NEW r \in Requests, SettlementEffect(r)
      PROVE  /\ id \in Recorded
             /\ (VaultOf(id))' = VaultOf(id)
             /\ \/ /\ BooksSame(id)
                   /\ \/ contribution'[id].status = contribution[id].status
                      \/ contribution'[id].status = "Failed"
                \/ /\ BooksGrow(id)
                   /\ contribution'[id].status \in EntryTypes
  <2> DEFINE i == req[r].id
             row == [from |-> req[r].from, to |-> req[r].to]
  <2>1. RowSettled(i, req[r].from, req[r].to)
    BY <1>4 DEF SettlementEffect
  <2>2. i \in Recorded /\ i \in Ids /\ id \in Recorded
    BY <2>1 DEF RowSettled, Recorded
  <2>3. (VaultOf(id))' = VaultOf(id)
    BY <2>1, <2>2 DEF RowSettled, VaultOf
  <2>4. id # i => contribution'[id].status = contribution[id].status
    BY <2>1, <2>2 DEF RowSettled
  <2>5. contribution'[i].status = req[r].to
    BY <2>1 DEF RowSettled
  <2>6. CASE req[r].to = "Failed" /\ UNCHANGED <<vault, ledger>>
    <3>1. row.to \notin EntryTypes
      BY <2>6 DEF EntryTypes
    <3>2. audit' = [audit EXCEPT ![i] = Append(@, row)] /\ UNCHANGED ledger
      BY <2>1, <2>6 DEF RowSettled
    <3> HIDE DEF row
    <3>3. BooksSame(id)
      BY <2>2, <2>3, <3>1, <3>2, UnmovedBooks
    <3> QED
      BY <2>2, <2>3, <2>4, <2>5, <2>6, <3>3
  <2>7. ASSUME NEW total, req[r].to \in EntryTypes, MoneyMoved(i, req[r].to, total)
        PROVE  (id = i /\ BooksGrow(id)) \/ (id # i /\ BooksSame(id))
    <3>1. CASE id = i
      BY <2>1, <2>2, <2>7, <3>1, SettledBooks
    <3>2. CASE id # i
      BY <2>1, <2>2, <2>7, <3>2, OtherBooks
    <3> QED
      BY <3>1, <3>2
  <2>8. CASE req[r].to \in EntryTypes /\ (Credited(i) \/ Debited(i))
    <3>1. PICK total : MoneyMoved(i, req[r].to, total)
      BY <1>4, <2>8 DEF SettlementEffect, Credited, Debited, EntryTypes
    <3> QED
      BY <2>2, <2>3, <2>4, <2>5, <2>7, <2>8, <3>1
  <2> QED
    BY <1>4, <2>6, <2>8 DEF SettlementEffect, EntryTypes
<1> QED
  BY <1>1, <1>2, <1>3, <1>4, StepEffect

\* Entries and audit rows are only written for contributions that are recorded.
LEMMA TracesStep ==
  ASSUME TypeInv, EntriesKnown, FreshUnaudited, [Next]_vars
  PROVE  EntriesKnown' /\ FreshUnaudited'
<1>1. CASE RowsSame
  BY <1>1 DEF RowsSame, EntriesKnown, FreshUnaudited, Recorded, VaultOf
<1>2. ASSUME NEW id \in Ids, RowInserted(id)
      PROVE  EntriesKnown' /\ FreshUnaudited'
  <2>1. /\ Recorded' = Recorded \cup {id}
        /\ \A i \in Recorded : contribution'[i] = contribution[i]
        /\ ledger' = ledger
    BY <1>2 DEF RowInserted
  <2>2. EntriesKnown'
    BY <2>1 DEF EntriesKnown, VaultOf
  <2>3. \A i \in Ids : i # id => audit'[i] = audit[i]
    BY <1>2 DEF RowInserted, TypeInv, TypeOK
  <2> QED
    BY <2>1, <2>2, <2>3 DEF FreshUnaudited
<1>3. ASSUME NEW r \in Requests, SettlementEffect(r)
      PROVE  EntriesKnown' /\ FreshUnaudited'
  <2> DEFINE id == req[r].id
  <2>1. /\ id \in Recorded /\ id \in Ids
        /\ Recorded' = Recorded
        /\ \A i \in Recorded : contribution'[i].intent = contribution[i].intent
    BY <1>3 DEF SettlementEffect, RowSettled, Recorded
  <2>2. \A i \in Ids : i # id => audit'[i] = audit[i]
    BY <1>3 DEF SettlementEffect, RowSettled, TypeInv, TypeOK
  <2>3. FreshUnaudited'
    BY <2>1, <2>2 DEF FreshUnaudited
  <2>4. ASSUME UNCHANGED ledger
        PROVE  EntriesKnown'
    BY <2>1, <2>4 DEF EntriesKnown, VaultOf
  <2>5. ASSUME NEW total, MoneyMoved(id, req[r].to, total)
        PROVE  EntriesKnown'
    <3> DEFINE v == VaultOf(id)
               n == Len(ledger[v])
    <3>1. /\ v \in Vaults /\ n \in Nat
          /\ Len(ledger'[v]) = n + 1
          /\ ledger'[v][n + 1].id = id
          /\ \A i \in 1 .. n : ledger'[v][i] = ledger[v][i]
          /\ \A w \in Vaults : w # v => ledger'[w] = ledger[w]
      BY <2>1, <2>5, LedgerGrows
    <3> SUFFICES ASSUME NEW w \in Vaults, NEW i \in 1 .. Len(ledger'[w])
                 PROVE  /\ ledger'[w][i].id \in Recorded'
                        /\ contribution'[ledger'[w][i].id].intent.vault = w
      BY DEF EntriesKnown, VaultOf
    <3>2. CASE w # v
      <4>1. ledger'[w][i] = ledger[w][i] /\ i \in 1 .. Len(ledger[w])
        BY <3>1, <3>2
      <4>2. /\ ledger[w][i].id \in Recorded
            /\ contribution[ledger[w][i].id].intent.vault = w
        BY <4>1 DEF EntriesKnown, VaultOf
      <4> QED
        BY <2>1, <4>1, <4>2
    <3>3. CASE w = v /\ i = n + 1
      BY <2>1, <3>1, <3>3 DEF VaultOf
    <3>4. CASE w = v /\ i \in 1 .. n
      <4>1. ledger'[w][i] = ledger[w][i] /\ i \in 1 .. Len(ledger[w])
        BY <3>1, <3>4
      <4>2. /\ ledger[w][i].id \in Recorded
            /\ contribution[ledger[w][i].id].intent.vault = w
        BY <4>1 DEF EntriesKnown, VaultOf
      <4> QED
        BY <2>1, <4>1, <4>2
    <3> QED
      BY <3>1, <3>2, <3>3, <3>4
  <2> QED
    BY <1>3, <2>3, <2>4, <2>5 DEF SettlementEffect, Credited, Debited
<1> QED
  BY <1>1, <1>2, <1>3, StepEffect

LEMMA StatusStep ==
  ASSUME TypeInv, EntriesKnown, FreshUnaudited, StatusMatchesLedger, [Next]_vars
  PROVE  StatusMatchesLedger'
<1> SUFFICES ASSUME NEW id \in Recorded'
             PROVE  /\ contribution'[id].status = "Pending" => EntriesOf(id)' = {}
                    /\ contribution'[id].status \in EntryTypes =>
                         \E i \in EntriesOf(id)' :
                           /\ ledger'[(VaultOf(id))'][i].type = contribution'[id].status
                           /\ \A j \in EntriesOf(id)' : j <= i
  BY DEF StatusMatchesLedger, EntryTypes
<1> DEFINE v == VaultOf(id)
           n == Len(ledger[v])
<1>1. CASE /\ id \in Recorded
           /\ BooksSame(id)
           /\ (VaultOf(id))' = VaultOf(id)
           /\ \/ contribution'[id].status = contribution[id].status
              \/ contribution'[id].status = "Failed"
  BY <1>1 DEF StatusMatchesLedger, BooksSame, EntryTypes
<1>2. CASE /\ id \in Recorded
           /\ BooksGrow(id)
           /\ (VaultOf(id))' = VaultOf(id)
           /\ contribution'[id].status \in EntryTypes
  <2>1. /\ n \in Nat
        /\ EntriesOf(id)' = EntriesOf(id) \cup {n + 1}
        /\ ledger'[v][n + 1].type = contribution'[id].status
    BY <1>2 DEF BooksGrow
  <2>2. \A j \in EntriesOf(id)' : j <= n + 1
    BY <2>1 DEF EntriesOf
  <2> QED
    BY <1>2, <2>1, <2>2 DEF EntryTypes
<1>3. CASE /\ EntriesOf(id)' = {}
           /\ contribution'[id].status = "Pending"
  BY <1>3 DEF EntryTypes
<1> QED
  BY <1>1, <1>2, <1>3, BooksStep

-----------------------------------------------------------------------------
(* Ranks: the n-th element of a set of places.                             *)

LEMMA RankBounds ==
  ASSUME NEW n \in Nat, NEW S \in SUBSET (1 .. n)
  PROVE  /\ IsFiniteSet(S)
         /\ Cardinality(S) \in Nat
         /\ \A i \in S : Rank(i, S) \in Nat /\ Rank(i, S) <= Cardinality(S)
<1>1. IsFiniteSet(1 .. n)
  BY FS_Interval
<1>2. IsFiniteSet(S) /\ Cardinality(S) \in Nat
  BY <1>1, FS_Subset, FS_CardinalityType
<1>3. ASSUME NEW i \in S
      PROVE  Rank(i, S) \in Nat /\ Rank(i, S) <= Cardinality(S)
  <2> DEFINE T == {j \in S : j <= i}
  <2>1. T \subseteq S
    OBVIOUS
  <2> HIDE DEF T
  <2>2. Cardinality(T) \in Nat /\ Cardinality(T) <= Cardinality(S)
    BY <1>2, <2>1, FS_Subset, FS_CardinalityType
  <2> QED
    BY <2>2 DEF Rank, T
<1> QED
  BY <1>2, <1>3

\* A new last place has the highest rank and leaves the other ranks alone.
LEMMA RankAppend ==
  ASSUME NEW n \in Nat, NEW S \in SUBSET (1 .. n)
  PROVE  /\ Cardinality(S \cup {n + 1}) = Cardinality(S) + 1
         /\ Rank(n + 1, S \cup {n + 1}) = Cardinality(S) + 1
         /\ \A i \in S : Rank(i, S \cup {n + 1}) = Rank(i, S)
<1>1. Cardinality(S \cup {n + 1}) = Cardinality(S) + 1
  <2>1. n + 1 \notin S
    OBVIOUS
  <2> QED
    BY <2>1, RankBounds, FS_AddElement
<1>2. {j \in S \cup {n + 1} : j <= n + 1} = S \cup {n + 1}
  <2>1. \A j \in S \cup {n + 1} : j <= n + 1
    OBVIOUS
  <2> QED
    BY <2>1, Zenon
<1>3. ASSUME NEW i \in S
      PROVE  {j \in S \cup {n + 1} : j <= i} = {j \in S : j <= i}
  BY <1>3
<1> QED
  BY <1>1, <1>2, <1>3 DEF Rank

LEMMA AuditMatchesStep ==
  ASSUME TypeInv, EntriesKnown, FreshUnaudited, AuditMatchesLedger, [Next]_vars
  PROVE  AuditMatchesLedger'
<1> SUFFICES ASSUME NEW id \in Recorded'
             PROVE  /\ Cardinality(MovesOf(id)') = Cardinality(EntriesOf(id)')
                    /\ \A i \in MovesOf(id)', j \in EntriesOf(id)' :
                         Rank(i, MovesOf(id)') = Rank(j, EntriesOf(id)')
                           => audit'[id][i].to = ledger'[(VaultOf(id))'][j].type
  BY DEF AuditMatchesLedger
<1>1. CASE /\ id \in Recorded
           /\ BooksSame(id)
           /\ (VaultOf(id))' = VaultOf(id)
  BY <1>1 DEF AuditMatchesLedger, BooksSame
<1>2. CASE /\ id \in Recorded
           /\ BooksGrow(id)
           /\ (VaultOf(id))' = VaultOf(id)
  <2> DEFINE v == VaultOf(id)
             n == Len(ledger[v])
             m == Len(audit[id])
             M == MovesOf(id)
             E == EntriesOf(id)
  <2>1. /\ n \in Nat /\ m \in Nat
        /\ E' = E \cup {n + 1}
        /\ M' = M \cup {m + 1}
        /\ ledger'[v][n + 1].type = audit'[id][m + 1].to
        /\ \A i \in 1 .. n : ledger'[v][i] = ledger[v][i]
        /\ \A i \in 1 .. m : audit'[id][i] = audit[id][i]
    BY <1>2 DEF BooksGrow
  <2>2. E \in SUBSET (1 .. n) /\ M \in SUBSET (1 .. m)
    BY DEF EntriesOf, MovesOf
  <2>3. /\ Cardinality(M) = Cardinality(E)
        /\ \A i \in M, j \in E : Rank(i, M) = Rank(j, E) => audit[id][i].to = ledger[v][j].type
    BY <1>2 DEF AuditMatchesLedger
  <2> HIDE DEF n, m, E, M, v
  <2>4. /\ Cardinality(E) \in Nat
        /\ \A i \in E : Rank(i, E) \in Nat /\ Rank(i, E) <= Cardinality(E)
        /\ \A i \in M : Rank(i, M) \in Nat /\ Rank(i, M) <= Cardinality(M)
    BY <2>1, <2>2, RankBounds
  <2>5. /\ Cardinality(E') = Cardinality(E) + 1
        /\ Rank(n + 1, E') = Cardinality(E) + 1
        /\ \A i \in E : Rank(i, E') = Rank(i, E)
    BY <2>1, <2>2, RankAppend
  <2>6. /\ Cardinality(M') = Cardinality(M) + 1
        /\ Rank(m + 1, M') = Cardinality(M) + 1
        /\ \A i \in M : Rank(i, M') = Rank(i, M)
    BY <2>1, <2>2, RankAppend
  <2>7. ASSUME NEW i \in M', NEW j \in E', Rank(i, M') = Rank(j, E')
        PROVE  audit'[id][i].to = ledger'[v][j].type
    <3>1. CASE i = m + 1 /\ j = n + 1
      BY <2>1, <3>1
    <3>2. CASE i \in M /\ j \in E
      <4>1. audit'[id][i] = audit[id][i] /\ ledger'[v][j] = ledger[v][j]
        BY <2>1, <2>2, <3>2
      <4>2. Rank(i, M) = Rank(j, E)
        BY <2>5, <2>6, <2>7, <3>2
      <4> QED
        BY <2>3, <3>2, <4>1, <4>2
    <3>3. CASE i = m + 1 /\ j \in E
      BY <2>3, <2>4, <2>5, <2>6, <2>7, <3>3
    <3>4. CASE i \in M /\ j = n + 1
      BY <2>3, <2>4, <2>5, <2>6, <2>7, <3>4
    <3> QED
      BY <2>1, <3>1, <3>2, <3>3, <3>4
  <2>8. (VaultOf(id))' = v
    BY <1>2 DEF v
  <2>9. M' = MovesOf(id)' /\ E' = EntriesOf(id)'
    BY DEF M, E
  <2> QED
    BY <2>3, <2>5, <2>6, <2>7, <2>8, <2>9
<1>3. CASE EntriesOf(id)' = {} /\ MovesOf(id)' = {}
  BY <1>3
<1> QED
  BY <1>1, <1>2, <1>3, BooksStep

BooksInv == EntriesKnown /\ FreshUnaudited /\ StatusMatchesLedger /\ AuditMatchesLedger

LEMMA BooksInvariant == Spec => []BooksInv
<1>1. Init => BooksInv
  <2> SUFFICES ASSUME Init PROVE BooksInv
    OBVIOUS
  <2>1. Recorded = {}
    BY DEF Init, Recorded
  <2>2. \A v \in Vaults : Len(ledger[v]) = 0
    BY DEF Init
  <2> QED
    BY <2>1, <2>2
       DEF Init, BooksInv, EntriesKnown, FreshUnaudited, StatusMatchesLedger, AuditMatchesLedger
<1>2. TypeInv /\ BooksInv /\ [Next]_vars => BooksInv'
  BY TracesStep, StatusStep, AuditMatchesStep DEF BooksInv
<1> QED
  BY <1>1, <1>2, TypeInvariant, PTL DEF Spec

\* However settlements race, the last ledger entry of a contribution names its
\* status when that status moves money, and a pending contribution has none: the
\* status update and the ledger insert stand or fall together (settle_with_audit).
THEOREM StatusIsBooked == Spec => []StatusMatchesLedger
<1>1. BooksInv => StatusMatchesLedger
  BY DEF BooksInv
<1> QED
  BY <1>1, BooksInvariant, PTL

\* The audit rows that report a movement of money are, in order, the ledger entries
\* of the contribution: a settlement writes both or, rolled back, neither.
THEOREM MovesAreAudited == Spec => []AuditMatchesLedger
<1>1. BooksInv => AuditMatchesLedger
  BY DEF BooksInv
<1> QED
  BY <1>1, BooksInvariant, PTL

-----------------------------------------------------------------------------
(* The discipline, continued: the audit rows of a contribution are its     *)
(* history, and a vault's total is the sum of its confirmed contributions. *)
(* Rows are inserted one at a time, so there are finitely many to sum.     *)

RowsFinite == IsFiniteSet(Recorded)

AuditUpToDate ==
  \A id \in Recorded : Len(audit[id]) > 0 /\ audit[id][Len(audit[id])].to = contribution[id].status

HistoryInv == FreshUnaudited /\ AuditUpToDate /\ AuditChains

SumInv == RowsFinite /\ TotalIsConfirmedSum

\* The amounts a vault's total should be the sum of.
ConfirmedAmounts(v) == [id \in ConfirmedOf(v) |-> AmountOf(id)]

LEMMA ConfirmedSummable ==
  ASSUME TypeInv, RowsFinite, NEW v
  PROVE  Summable(ConfirmedAmounts(v))
<1>1. IsFiniteSet(ConfirmedOf(v))
  BY FS_Subset DEF ConfirmedOf, RowsFinite
<1>2. \A id \in ConfirmedOf(v) : AmountOf(id) \in Int
  BY StoredIntent DEF ConfirmedOf
<1> QED
  BY <1>1, <1>2 DEF ConfirmedAmounts, Summable, Integral

LEMMA TotalOfSum ==
  TotalIsConfirmedSum <=>
    \A v \in Vaults : vault[v].contributed = SumFunction(ConfirmedAmounts(v))
BY DEF TotalIsConfirmedSum, ConfirmedAmounts

\* What a settlement moves a row from is what its task read.
LEMMA SettledFrom ==
  ASSUME DisciplinedInv, NEW r \in Requests, SettlementEffect(r)
  PROVE  /\ contribution[req[r].id].status = req[r].from
         /\ req[r].to \in {"Confirmed", "Failed"} => req[r].from = "Pending"
         /\ req[r].to = "Reversed" => req[r].from = "Confirmed"
BY DEF DisciplinedInv, SettlementEffect, ReadsStillHold, LegalMoves

\* A row whose status is neither before nor after the step Confirmed is in no sum.
LEMMA UnmovedSums ==
  ASSUME NEW id, NEW v, UNCHANGED vault,
         Recorded \subseteq Recorded', Recorded' \subseteq Recorded \cup {id},
         \A i \in Recorded \ {id} : contribution'[i] = contribution[i],
         id \in Recorded => contribution[id].status # "Confirmed",
         contribution'[id].status # "Confirmed"
  PROVE  ConfirmedAmounts(v)' = ConfirmedAmounts(v)
<1>1. ConfirmedOf(v)' = ConfirmedOf(v)
  BY DEF ConfirmedOf, VaultOf
<1>2. \A i \in ConfirmedOf(v) : contribution'[i] = contribution[i]
  BY DEF ConfirmedOf
<1> QED
  BY <1>1, <1>2 DEF ConfirmedAmounts, AmountOf

LEMMA SumStep ==
  ASSUME DisciplinedInv, SumInv, [Next]_vars
  PROVE  SumInv'
<1>1. TypeInv /\ RowsFinite /\ \A v \in Vaults : vault[v].contributed = SumFunction(ConfirmedAmounts(v))
  BY TotalOfSum DEF DisciplinedInv, SumInv
<1> SUFFICES RowsFinite' /\ \A v \in Vaults : vault'[v].contributed = SumFunction(ConfirmedAmounts(v)')
  BY DEF SumInv, TotalIsConfirmedSum, ConfirmedAmounts
<1>2. CASE RowsSame
  BY <1>1, <1>2 DEF RowsSame, RowsFinite, Recorded, ConfirmedAmounts, ConfirmedOf, AmountOf, VaultOf
<1>3. ASSUME NEW id \in Ids, RowInserted(id)
      PROVE  RowsFinite' /\ \A v \in Vaults : vault'[v].contributed = SumFunction(ConfirmedAmounts(v)')
  <2>1. RowsFinite'
    BY <1>1, <1>3, FS_AddElement DEF RowInserted, RowsFinite
  <2>2. \A v \in Vaults : ConfirmedAmounts(v)' = ConfirmedAmounts(v)
    BY <1>3, UnmovedSums DEF RowInserted
  <2> QED
    BY <1>1, <1>3, <2>1, <2>2 DEF RowInserted
<1>4. ASSUME NEW r \in Requests, SettlementEffect(r), NEW v \in Vaults
      PROVE  vault'[v].contributed = SumFunction(ConfirmedAmounts(v)')
  <2> DEFINE id == req[r].id
             f == ConfirmedAmounts(v)
             g == ConfirmedAmounts(v)'
             u == VaultOf(id)
  <2>1. RowSettled(id, req[r].from, req[r].to)
    BY <1>4 DEF SettlementEffect
  <2>2. /\ id \in Recorded /\ Recorded' = Recorded
        /\ contribution'[id].status = req[r].to
        /\ contribution'[id].intent = contribution[id].intent
        /\ \A i \in Recorded : i # id => contribution'[i] = contribution[i]
    BY <2>1 DEF RowSettled
  <2>3. Summable(f) /\ DOMAIN f = ConfirmedOf(v) /\ DOMAIN g = ConfirmedOf(v)'
    BY <1>1, ConfirmedSummable DEF ConfirmedAmounts
  <2>4. /\ \A i \in ConfirmedOf(v) : f[i] = contribution[i].intent.amount
        /\ \A i \in ConfirmedOf(v)' : g[i] = contribution'[i].intent.amount
    BY DEF ConfirmedAmounts, AmountOf
  <2>5. AmountOf(id) \in 1 .. MaxMinor /\ u \in Vaults /\ vault[u].contributed \in Int
    BY <1>1, <2>2, StoredIntent DEF TypeInv, TypeOK, VaultRow, Minor
  <2>6. vault[v].contributed = SumFunction(f)
    BY <1>1
  <2>7. CASE req[r].to = "Confirmed" /\ Credited(id)
    <3>1. contribution[id].status = "Pending"
      BY <1>4, <2>7, SettledFrom
    <3>2. CASE v = u
      <4>1. ConfirmedOf(v)' = ConfirmedOf(v) \cup {id} /\ id \notin ConfirmedOf(v)
        BY <2>2, <2>7, <3>1, <3>2 DEF ConfirmedOf, VaultOf
      <4>2. g[id] = AmountOf(id) /\ \A i \in ConfirmedOf(v) : g[i] = f[i]
        BY <2>2, <2>4, <4>1 DEF ConfirmedOf, AmountOf
      <4>3. vault'[v].contributed = vault[v].contributed + AmountOf(id)
        BY <2>7, <3>2 DEF Credited, MoneyMoved
      <4> HIDE DEF f, g, id
      <4>4. SumFunction(g) = SumFunction(f) + g[id]
        BY <2>3, <2>5, <4>1, <4>2, TableInsert
      <4> QED
        BY <2>6, <4>2, <4>3, <4>4 DEF g
    <3>3. CASE v # u
      <4>1. ConfirmedOf(v)' = ConfirmedOf(v)
        BY <2>2, <3>3 DEF ConfirmedOf, VaultOf
      <4>2. g = f
        BY <2>2, <2>3, <2>4, <4>1, <3>3 DEF ConfirmedAmounts, ConfirmedOf, VaultOf, AmountOf
      <4>3. vault'[v] = vault[v]
        BY <2>7, <3>3 DEF Credited, MoneyMoved
      <4> QED
        BY <2>6, <4>2, <4>3
    <3> QED
      BY <3>2, <3>3
  <2>8. CASE req[r].to = "Reversed" /\ Debited(id)
    <3>1. contribution[id].status = "Confirmed"
      BY <1>4, <2>8, SettledFrom
    <3>2. CASE v = u
      <4>1. ConfirmedOf(v)' = ConfirmedOf(v) \ {id} /\ id \in ConfirmedOf(v)
        BY <2>2, <2>8, <3>1, <3>2 DEF ConfirmedOf, VaultOf
      <4>2. f[id] = AmountOf(id) /\ \A i \in ConfirmedOf(v)' : g[i] = f[i]
        BY <2>2, <2>4, <4>1 DEF ConfirmedOf, AmountOf
      <4>3. vault'[v].contributed = vault[v].contributed - AmountOf(id)
        BY <2>8, <3>2 DEF Debited, MoneyMoved
      <4> HIDE DEF f, g, id
      <4>4. SumFunction(g) = SumFunction(f) - f[id]
        BY <2>3, <4>1, <4>2, TableDelete
      <4> QED
        BY <2>6, <4>2, <4>3, <4>4 DEF g
    <3>3. CASE v # u
      <4>1. ConfirmedOf(v)' = ConfirmedOf(v)
        BY <2>2, <3>3 DEF ConfirmedOf, VaultOf
      <4>2. g = f
        BY <2>2, <2>3, <2>4, <4>1, <3>3 DEF ConfirmedAmounts, ConfirmedOf, VaultOf, AmountOf
      <4>3. vault'[v] = vault[v]
        BY <2>8, <3>3 DEF Debited, MoneyMoved
      <4> QED
        BY <2>6, <4>2, <4>3
    <3> QED
      BY <3>2, <3>3
  <2>9. CASE req[r].to = "Failed" /\ UNCHANGED <<vault, ledger>>
    <3>1. contribution[id].status = "Pending"
      BY <1>4, <2>9, SettledFrom
    <3>2. g = f
      BY <2>2, <2>9, <3>1, UnmovedSums
    <3> QED
      BY <2>6, <2>9, <3>2
  <2> QED
    BY <1>4, <2>7, <2>8, <2>9 DEF SettlementEffect
<1>5. ASSUME NEW r \in Requests, SettlementEffect(r)
      PROVE  RowsFinite'
  BY <1>1, <1>5 DEF SettlementEffect, RowSettled, RowsFinite
<1> QED
  BY <1>1, <1>2, <1>3, <1>4, <1>5, StepEffect

\* Appending a row that starts where the last one ended keeps the chain.
LEMMA ChainAppend ==
  ASSUME NEW rows \in Seq(AuditEntry), NEW row,
         \A i \in 2 .. Len(rows) : rows[i].from = rows[i - 1].to,
         Len(rows) > 0 => rows[Len(rows)].to = row.from
  PROVE  LET longer == Append(rows, row)
         IN  /\ \A i \in 2 .. Len(longer) : longer[i].from = longer[i - 1].to
             /\ Len(longer) > 0
             /\ longer[Len(longer)] = row
<1> DEFINE n == Len(rows)
           longer == Append(rows, row)
<1>1. /\ n \in Nat
      /\ Len(longer) = n + 1
      /\ longer[n + 1] = row
      /\ \A i \in 1 .. n : longer[i] = rows[i]
  BY AppendFacts
<1>2. ASSUME NEW i \in 2 .. n + 1
      PROVE  longer[i].from = longer[i - 1].to
  <2>1. CASE i = n + 1
    BY <1>1, <2>1
  <2>2. CASE i \in 2 .. n
    BY <1>1, <2>2
  <2> QED
    BY <1>1, <2>1, <2>2
<1> QED
  BY <1>1, <1>2

LEMMA HistoryAppend ==
  ASSUME TypeInv, HistoryInv, NEW id \in Ids, NEW row,
         audit' = [audit EXCEPT ![id] = Append(@, row)],
         Len(audit[id]) > 0 => audit[id][Len(audit[id])].to = row.from,
         Recorded' = Recorded \cup {id},
         contribution'[id].status = row.to,
         \A i \in Recorded : i # id => contribution'[i] = contribution[i]
  PROVE  HistoryInv'
<1>1. audit[id] \in Seq(AuditEntry)
  BY DEF TypeInv, TypeOK
<1>2. \A i \in 2 .. Len(audit[id]) : audit[id][i].from = audit[id][i - 1].to
  BY DEF HistoryInv, AuditChains
<1>3. /\ audit'[id] = Append(audit[id], row)
      /\ \A i \in Ids : i # id => audit'[i] = audit[i]
  BY DEF TypeInv, TypeOK
<1>4. /\ \A i \in 2 .. Len(audit'[id]) : audit'[id][i].from = audit'[id][i - 1].to
      /\ Len(audit'[id]) > 0
      /\ audit'[id][Len(audit'[id])] = row
  BY <1>1, <1>2, <1>3, ChainAppend
<1>5. AuditChains'
  BY <1>3, <1>4 DEF HistoryInv, AuditChains
<1>6. AuditUpToDate'
  <2> SUFFICES ASSUME NEW i \in Recorded'
               PROVE  Len(audit'[i]) > 0 /\ audit'[i][Len(audit'[i])].to = contribution'[i].status
    BY DEF AuditUpToDate
  <2>1. CASE i = id
    BY <1>4, <2>1
  <2>2. CASE i # id
    <3>1. i \in Recorded /\ i \in Ids
      BY <2>2 DEF Recorded
    <3> QED
      BY <1>3, <2>2, <3>1 DEF HistoryInv, AuditUpToDate
  <2> QED
    BY <2>1, <2>2
<1>7. FreshUnaudited'
  BY <1>3 DEF HistoryInv, FreshUnaudited
<1> QED
  BY <1>5, <1>6, <1>7 DEF HistoryInv

LEMMA HistoryStep ==
  ASSUME DisciplinedInv, HistoryInv, [Next]_vars
  PROVE  HistoryInv'
<1>1. TypeInv
  BY DEF DisciplinedInv
<1>2. CASE RowsSame
  BY <1>2 DEF RowsSame, HistoryInv, FreshUnaudited, AuditUpToDate, AuditChains, Recorded
<1>3. ASSUME NEW id \in Ids, RowInserted(id)
      PROVE  HistoryInv'
  <2> DEFINE row == [from |-> "None", to |-> "Pending"]
  <2>1. row.to = "Pending" /\ ~(Len(audit[id]) > 0)
    BY <1>3 DEF RowInserted, HistoryInv, FreshUnaudited
  <2>2. audit' = [audit EXCEPT ![id] = Append(@, row)]
    BY <1>3 DEF RowInserted
  <2> HIDE DEF row
  <2> QED
    BY <1>1, <1>3, <2>1, <2>2, HistoryAppend DEF RowInserted
<1>4. ASSUME NEW r \in Requests, SettlementEffect(r)
      PROVE  HistoryInv'
  <2> DEFINE id == req[r].id
             row == [from |-> req[r].from, to |-> req[r].to]
  <2>1. RowSettled(id, req[r].from, req[r].to)
    BY <1>4 DEF SettlementEffect
  <2>2. /\ id \in Recorded /\ id \in Ids
        /\ Recorded' = Recorded \cup {id}
        /\ contribution'[id].status = req[r].to
        /\ \A i \in Recorded : i # id => contribution'[i] = contribution[i]
    BY <2>1 DEF RowSettled, Recorded
  <2>3. audit' = [audit EXCEPT ![id] = Append(@, row)]
    BY <2>1 DEF RowSettled
  <2>4. row.to = req[r].to /\ row.from = req[r].from
    OBVIOUS
  <2>5. audit[id][Len(audit[id])].to = row.from
    BY <1>4, <2>2, <2>4, SettledFrom DEF HistoryInv, AuditUpToDate
  <2> HIDE DEF id, row
  <2> QED
    BY <1>1, <2>2, <2>3, <2>4, <2>5, HistoryAppend
<1> QED
  BY <1>1, <1>2, <1>3, <1>4, StepEffect

LEMMA BooksInit == Init => HistoryInv /\ SumInv
<1> SUFFICES ASSUME Init PROVE HistoryInv /\ SumInv
  OBVIOUS
<1>1. Recorded = {}
  BY DEF Init, Recorded
<1>2. HistoryInv
  BY <1>1 DEF Init, HistoryInv, FreshUnaudited, AuditUpToDate, AuditChains
<1>3. ASSUME NEW v \in Vaults
      PROVE  vault[v].contributed = SumFunction(ConfirmedAmounts(v))
  <2>1. DOMAIN ConfirmedAmounts(v) = {}
    BY <1>1 DEF ConfirmedAmounts, ConfirmedOf
  <2>2. vault[v].contributed = 0
    BY DEF Init, NewVault
  <2> QED
    BY <2>1, <2>2, TableEmpty
<1> QED
  BY <1>1, <1>2, <1>3, TotalOfSum, FS_EmptySet DEF SumInv, RowsFinite

LEMMA DisciplinedBooks == DisciplinedSpec => [](DisciplinedInv /\ HistoryInv /\ SumInv)
<1>1. DisciplinedInv /\ HistoryInv /\ SumInv /\ [DisciplinedNext]_vars => HistoryInv' /\ SumInv'
  BY HistoryStep, SumStep DEF DisciplinedNext
<1> QED
  BY <1>1, BooksInit, DisciplinedInvariant, PTL DEF DisciplinedSpec

\* When no two tasks settle one contribution at the same time, its audit rows are its
\* history, however many contributions are settled concurrently.
THEOREM AuditTrailsAreHistories == DisciplinedSpec => []AuditChains
<1>1. HistoryInv => AuditChains
  BY DEF HistoryInv
<1> QED
  BY <1>1, DisciplinedBooks, PTL

\* Likewise a vault's total is the sum of its confirmed contributions: every
\* confirmation is added once and every reversal takes back what was added, whatever
\* settlements of other contributions are committed in between.
THEOREM TotalsAreSums == DisciplinedSpec => []TotalIsConfirmedSum
<1>1. SumInv => TotalIsConfirmedSum
  BY DEF SumInv
<1> QED
  BY <1>1, DisciplinedBooks, PTL

-----------------------------------------------------------------------------
(* The refinement: disciplined tasks implement the contribution book.  A   *)
(* step of the system is the step of the book that records or settles the  *)
(* contribution under its key, or it leaves the book alone.                *)

LEMMA KeysInvariant == Spec => []KeysUnique
BY TypeInvariant, KeysInit, KeysStep, PTL DEF Spec

LEMMA DisciplinedIsLegal == DisciplinedSpec => Spec
<1>1. [DisciplinedNext]_vars => [Next]_vars
  BY DEF DisciplinedNext
<1> QED
  BY <1>1, PTL DEF DisciplinedSpec, Spec

\* What an observer sees of the rows under one key.
Public(rows, ids) ==
  IF ids = {} THEN NoRow
  ELSE LET id == CHOOSE i \in ids : TRUE
       IN [intent |-> rows[id].intent, status |-> rows[id].status]

LEMMA ShownIsPublic == \A k \in Keys : Shown(k) = Public(contribution, WithKey(k))
BY DEF Shown, Public

LEMMA ShownNextIsPublic == \A k \in Keys : Shown(k)' = Public(contribution', WithKey(k)')
BY DEF Shown, Public

LEMMA PublicOne ==
  \A rows, id : Public(rows, {id}) = [intent |-> rows[id].intent, status |-> rows[id].status]
BY DEF Public

LEMMA PublicSame ==
  ASSUME NEW rows, NEW new, NEW ids, \A i \in ids : new[i] = rows[i]
  PROVE  Public(new, ids) = Public(rows, ids)
<1>1. CASE ids = {}
  BY <1>1 DEF Public
<1>2. CASE ids # {}
  <2> DEFINE id == CHOOSE i \in ids : TRUE
  <2>1. id \in ids
    BY <1>2
  <2>2. new[id] = rows[id]
    BY <2>1
  <2> QED
    BY <1>2, <2>2 DEF Public
<1> QED
  BY <1>1, <1>2

\* Only the row under its key stands for a contribution.
LEMMA OneUnderKey ==
  ASSUME KeysUnique, NEW id \in Recorded
  PROVE  WithKey(contribution[id].key) = {id}
BY DEF KeysUnique, WithKey

\* The mapped variables.
Booked == [k \in Keys |-> Shown(k)]

Totals == [v \in Vaults |-> vault[v].contributed]

LEMMA BookKeeps == UNCHANGED <<vault, contribution>> => UNCHANGED <<Booked, Totals>>
<1> SUFFICES ASSUME UNCHANGED <<vault, contribution>> PROVE UNCHANGED <<Booked, Totals>>
  OBVIOUS
<1>1. \A k \in Keys : WithKey(k)' = WithKey(k)
  BY DEF WithKey, Recorded
<1>2. \A k \in Keys : Shown(k)' = Shown(k)
  BY <1>1, ShownIsPublic, ShownNextIsPublic
<1>3. Booked' = Booked
  BY <1>2 DEF Booked
<1> QED
  BY <1>3 DEF Totals

LEMMA BookRecords ==
  ASSUME TypeInv, KeysUnique, NEW r \in Requests, NEW id \in Ids, InsertIntent(r, id)
  PROVE  Book!Record(req[r].key, req[r].intent) /\ req[r].key \in Keys /\ req[r].intent \in Intents
<1>1. PICK k \in Keys, in \in Intents : k = req[r].key /\ in = req[r].intent
  BY TaskKind DEF InsertIntent, Creating
<1> DEFINE row == [intent |-> in, key |-> k, status |-> "Pending"]
<1>2. WithKey(k) = {}
  BY <1>1 DEF InsertIntent
<1>3. /\ id \notin Recorded
      /\ Recorded' = Recorded \cup {id}
      /\ \A i \in Recorded : contribution'[i] = contribution[i]
      /\ UNCHANGED vault
  BY InsertEffect DEF RowInserted
<1>4. contribution'[id] = row
  BY <1>1 DEF InsertIntent, TypeInv, TypeOK
<1>5. contribution'[id].key = k /\ contribution'[id].intent = in /\ contribution'[id].status = "Pending"
  BY <1>4
<1> HIDE DEF row
<1>6. WithKey(k)' = {id}
  BY <1>2, <1>3, <1>5 DEF WithKey
<1>7. \A j \in Keys : j # k => WithKey(j)' = WithKey(j)
  BY <1>3, <1>5 DEF WithKey
<1>8. Shown(k) = NoRow /\ Shown(k)' = [intent |-> in, status |-> "Pending"]
  BY <1>1, <1>2, <1>5, <1>6, ShownIsPublic, ShownNextIsPublic, PublicOne DEF Public
<1>9. ASSUME NEW j \in Keys, j # k
      PROVE  Shown(j)' = Shown(j)
  <2>1. \A i \in WithKey(j) : contribution'[i] = contribution[i]
    BY <1>3 DEF WithKey
  <2> QED
    BY <1>7, <1>9, <2>1, ShownIsPublic, ShownNextIsPublic, PublicSame
<1>10. Booked' = [Booked EXCEPT ![k] = [intent |-> in, status |-> "Pending"]]
  BY <1>1, <1>8, <1>9 DEF Booked
<1>11. Booked[k] = NoRow
  BY <1>1, <1>8 DEF Booked
<1>12. Totals' = Totals
  BY <1>3 DEF Totals
<1> QED
  BY <1>1, <1>10, <1>11, <1>12 DEF Booked, Totals, Book!Record

\* A settlement as the book sees it.
LEMMA BookSettles ==
  ASSUME DisciplinedInv, KeysUnique, NEW r \in Requests, SettlementEffect(r)
  PROVE  \E k \in Keys :
           /\ Booked[k].intent = contribution[req[r].id].intent
           /\ Booked[k].status = req[r].from
           /\ Booked[k] # NoRow
           /\ Booked' = [Booked EXCEPT ![k].status = req[r].to]
<1>1. TypeInv
  BY DEF DisciplinedInv
<1>2. PICK id, from, to : /\ id = req[r].id /\ from = req[r].from /\ to = req[r].to
                         /\ RowSettled(id, from, to)
  BY DEF SettlementEffect
<1>3. PICK k, in : k = contribution[id].key /\ in = contribution[id].intent
  OBVIOUS
<1> DEFINE old == [intent |-> in, status |-> from]
           new == [intent |-> in, status |-> to]
<1>4. /\ id \in Recorded /\ Recorded' = Recorded
      /\ contribution[id] \in ContributionRow
      /\ contribution[id].status = from
      /\ contribution'[id].status = to
      /\ contribution'[id].intent = in
      /\ \A i \in Recorded : contribution'[i].key = contribution[i].key
      /\ \A i \in Recorded : i # id => contribution'[i] = contribution[i]
  BY <1>1, <1>2, <1>3, StoredIntent, SettledFrom DEF RowSettled
<1>5. k \in Keys /\ in \in Intents /\ from \in Statuses
  BY <1>2, <1>4, <1>3 DEF ContributionRow, RowSettled
<1>6. WithKey(k) = {id}
  BY <1>4, <1>3, OneUnderKey
<1>7. \A j \in Keys : WithKey(j)' = WithKey(j)
  BY <1>4 DEF WithKey
<1>8. Shown(k) = old
  BY <1>4, <1>5, <1>6, <1>3, ShownIsPublic, PublicOne
<1>9. Shown(k)' = new
  BY <1>4, <1>5, <1>6, <1>7, ShownNextIsPublic, PublicOne
<1>10. ASSUME NEW j \in Keys, j # k
      PROVE  Shown(j)' = Shown(j)
  <2>1. \A i \in WithKey(j) : contribution'[i] = contribution[i]
    BY <1>3, <1>4, <1>10 DEF WithKey
  <2> QED
    BY <1>7, <1>10, <2>1, ShownIsPublic, ShownNextIsPublic, PublicSame
<1>11. new = [old EXCEPT !.status = to]
  OBVIOUS
<1>12. old # NoRow
  BY <1>5, ContributionsAssumption DEF Statuses
<1> HIDE DEF old, new
<1>13. Booked[k] = old
  BY <1>5, <1>8 DEF Booked
<1>14. Booked' = [Booked EXCEPT ![k].status = to]
  <2>1. Booked' = [Booked EXCEPT ![k] = new]
    BY <1>5, <1>9, <1>10 DEF Booked
  <2> QED
    BY <1>11, <1>13, <2>1
<1>15. old.intent = in /\ old.status = from
  BY DEF old
<1> QED
  BY <1>2, <1>3, <1>5, <1>12, <1>13, <1>14, <1>15

\* Money moves in the book as it does in the vault rows.
LEMMA BookMoney ==
  ASSUME TypeInv, NEW id \in Recorded, NEW to, NEW amount \in Int,
         MoneyMoved(id, to, vault[VaultOf(id)].contributed + amount)
  PROVE  LET v == VaultOf(id)
         IN  /\ Totals[v] + amount \in 0 .. MaxMinor
             /\ Totals' = [Totals EXCEPT ![v] = @ + amount]
<1> DEFINE v == VaultOf(id)
           sum == vault[v].contributed + amount
<1>1. v \in Vaults
  BY StoredIntent
<1>2. sum \in Minor /\ vault'[v].contributed = sum /\ \A w \in Vaults : w # v => vault'[w] = vault[w]
  BY DEF MoneyMoved, LedgerEntry
<1>3. Totals[v] = vault[v].contributed
  BY <1>1 DEF Totals
<1>4. Totals' = [Totals EXCEPT ![v] = @ + amount]
  BY <1>1, <1>2, <1>3 DEF Totals
<1> QED
  BY <1>2, <1>3, <1>4 DEF Minor

LEMMA BookInit == Init => Book!BookInit
<1> SUFFICES ASSUME Init PROVE Book!BookInit
  OBVIOUS
<1>1. \A k \in Keys : Shown(k) = NoRow
  BY DEF Init, Shown, WithKey, Recorded
<1>2. \A v \in Vaults : vault[v].contributed = 0
  BY DEF Init, NewVault
<1> QED
  BY <1>1, <1>2 DEF Book!BookInit

LEMMA BookStep ==
  DisciplinedInv /\ KeysUnique /\ [DisciplinedNext]_vars => [Book!BookNext]_(Book!bookVars)
<1> SUFFICES ASSUME DisciplinedInv, KeysUnique, [Next]_vars
             PROVE  Book!BookNext \/ UNCHANGED <<Booked, Totals>>
  BY DEF DisciplinedNext, Book!bookVars, Booked, Totals
<1>1. TypeInv
  BY DEF DisciplinedInv
<1>2. ASSUME NEW r \in Requests, NEW id \in Ids, InsertIntent(r, id)
      PROVE  Book!BookNext
  BY <1>1, <1>2, BookRecords DEF Book!BookNext
<1>3. ASSUME NEW r \in Requests, SettlementEffect(r)
      PROVE  Book!BookNext
  <2> DEFINE id == req[r].id
             to == req[r].to
             v == VaultOf(id)
             amount == AmountOf(id)
  <2>1. id \in Recorded
    BY <1>3 DEF SettlementEffect, RowSettled
  <2>2. amount \in Int /\ vault[v].contributed \in Int
    BY <1>1, <2>1, StoredIntent DEF TypeInv, TypeOK, VaultRow, Minor
  <2>3. PICK k \in Keys :
          /\ Booked[k].intent = contribution[id].intent
          /\ Booked[k].status = req[r].from
          /\ Booked[k] # NoRow
          /\ Booked' = [Booked EXCEPT ![k].status = req[r].to]
    BY <1>3, BookSettles
  <2>4. Booked[k].intent.vault = v /\ Booked[k].intent.amount = amount
    BY <2>3 DEF VaultOf, AmountOf
  <2>5. CASE to = "Confirmed" /\ Credited(id)
    <3>1. req[r].from = "Pending"
      BY <1>3, <2>5, SettledFrom
    <3>2. Totals[v] + amount \in 0 .. MaxMinor /\ Totals' = [Totals EXCEPT ![v] = @ + amount]
      BY <1>1, <2>1, <2>2, <2>5, BookMoney DEF Credited
    <3>3. Book!Confirm(k)
      BY <2>3, <2>4, <2>5, <3>1, <3>2
         DEF Book!Confirm, Book!InStatus, Book!Credit, Book!SetStatus, Booked, Totals
    <3> QED
      BY <2>3, <3>3 DEF Book!BookNext
  <2>6. CASE to = "Reversed" /\ Debited(id)
    <3>1. req[r].from = "Confirmed"
      BY <1>3, <2>6, SettledFrom
    <3>2. PICK debit \in Int : debit = -amount
      BY <2>2
    <3>3. MoneyMoved(id, "Reversed", vault[v].contributed + debit)
      <4>1. vault[v].contributed - amount = vault[v].contributed + debit
        BY <2>2, <3>2
      <4> QED
        BY <2>6, <4>1 DEF Debited
    <3>4. Totals[v] + debit \in 0 .. MaxMinor /\ Totals' = [Totals EXCEPT ![v] = @ + debit]
      BY <1>1, <2>1, <3>3, BookMoney
    <3>5. Book!Reverse(k)
      BY <2>3, <2>4, <2>6, <3>1, <3>2, <3>4
         DEF Book!Reverse, Book!InStatus, Book!Credit, Book!SetStatus, Booked, Totals
    <3> QED
      BY <2>3, <3>5 DEF Book!BookNext
  <2>7. CASE to = "Failed" /\ UNCHANGED <<vault, ledger>>
    <3>1. req[r].from = "Pending"
      BY <1>3, <2>7, SettledFrom
    <3>2. Totals' = Totals
      BY <2>7 DEF Totals
    <3>3. Book!Fail(k)
      BY <2>3, <2>7, <3>1, <3>2 DEF Book!Fail, Book!InStatus, Book!SetStatus, Booked, Totals
    <3> QED
      BY <2>3, <3>3 DEF Book!BookNext
  <2> QED
    BY <1>3, <2>5, <2>6, <2>7 DEF SettlementEffect
<1>4. CASE RowsSame
  BY <1>4, BookKeeps DEF RowsSame
<1> QED
  BY <1>1, <1>2, <1>3, <1>4, StepKinds

\* To an observer of keys, statuses and totals, disciplined tasks are indistinguishable
\* from contributions that are settled atomically, along the legal transitions and with
\* the vault's total moving in the same step: the reads outside of the transaction, the
\* UNIQUE key, the row locks and the roll-backs together implement the book.
THEOREM BookImplemented == DisciplinedSpec => ImplementsBook
BY BookInit, BookStep, DisciplinedInvariant, DisciplinedIsLegal, KeysInvariant, PTL
   DEF DisciplinedSpec, ImplementsBook, Book!BookSpec
=============================================================================
