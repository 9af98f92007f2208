---------------------------- MODULE PayoutsProofs ----------------------------
(***************************************************************************)
(* Theorems about Payouts, for every number of vaults, schools, payouts    *)
(* and concurrent tasks.                                                   *)
(***************************************************************************)
EXTENDS Payouts, FiniteSums

\* A task that reviews names a stored payout, and amounts are positive.
TasksSound ==
  \A r \in Requests :
    /\ req[r].op = "create" => req[r].body.amount > 0
    /\ req[r].op \in {"review", "decide"} => req[r].id \in Recorded

AmountsPositive == \A id \in Recorded : AmountOf(id) > 0

TypeInv == TypeOK /\ TasksSound /\ AmountsPositive

LEMMA TypeInit == Init => TypeInv
<1> SUFFICES ASSUME Init PROVE TypeInv
  OBVIOUS
<1>1. \A v \in Vaults : FundedVault(Funded[v]) \in VaultRow
  BY MaxMinorAssumption, PayoutsAssumption
     DEF FundedVault, NewVault, WithContributed, VaultRow, Minor
<1>2. vault \in [Vaults -> VaultRow]
  BY <1>1 DEF Init
<1> QED
  BY <1>2 DEF Init, TypeInv, TypeOK, TasksSound, AmountsPositive, Recorded, RequestState, Idle,
              SchoolStatuses

LEMMA RowIsNotNoRow == \A row \in PayoutRow : row # NoRow
BY PayoutsAssumption DEF PayoutRow, Statuses

\* A stored payout, its vault and its amount are typed.
LEMMA StoredBody ==
  ASSUME TypeInv, NEW id \in Recorded
  PROVE  /\ payout[id] \in PayoutRow
         /\ id \in Ids
         /\ VaultOf(id) \in Vaults
         /\ AmountOf(id) \in 1 .. MaxMinor
BY MaxMinorAssumption, PayoutsAssumption
   DEF TypeInv, TypeOK, AmountsPositive, Recorded, VaultOf, AmountOf, PayoutRow

\* A task's op tells which record it is.
LEMMA TaskKind ==
  ASSUME TypeInv, NEW r \in Requests
  PROVE  /\ req[r].op = "create" => req[r] \in Creating /\ req[r].body.amount > 0
         /\ req[r].op = "review" => req[r] \in Reviewing /\ req[r].id \in Recorded
         /\ req[r].op = "decide" => req[r] \in Deciding /\ req[r].id \in Recorded
<1>1. req[r] \in RequestState
  BY DEF TypeInv, TypeOK
<1>2. /\ Idle.op = "idle"
      /\ \A t \in Creating : t.op = "create"
      /\ \A t \in Reviewing : t.op = "review"
      /\ \A t \in Deciding : t.op = "decide"
  BY DEF Idle, Creating, Reviewing, Deciding
<1>3. /\ req[r].op = "create" => req[r] \in Creating
      /\ req[r].op = "review" => req[r] \in Reviewing
      /\ req[r].op = "decide" => req[r] \in Deciding
  BY <1>1, <1>2 DEF RequestState
<1> QED
  BY <1>3 DEF TypeInv, TasksSound

\* A commit changes one row, and only its status.
LEMMA CommitRow ==
  ASSUME TypeInv, NEW r \in Requests, req[r].op = "decide", CommitStatus(r)
  PROVE  /\ req[r].id \in Recorded
         /\ payout' \in [Ids -> PayoutRow \cup {NoRow}]
         /\ Recorded' = Recorded
         /\ payout'[req[r].id].status = req[r].to
         /\ \A id \in Recorded : /\ payout'[id].body = payout[id].body
                                 /\ payout'[id].key = payout[id].key
                                 /\ id # req[r].id => payout'[id] = payout[id]
<1> DEFINE row == [payout[req[r].id] EXCEPT !.status = req[r].to]
<1>1. req[r] \in Deciding /\ req[r].id \in Recorded /\ payout[req[r].id] \in PayoutRow
  BY TaskKind, StoredBody
<1>2. /\ row \in PayoutRow
      /\ row.body = payout[req[r].id].body
      /\ row.key = payout[req[r].id].key
      /\ row.status = req[r].to
  BY <1>1 DEF PayoutRow, Deciding, Targets
<1>3. payout' = [payout EXCEPT ![req[r].id] = row]
  BY DEF CommitStatus
<1>4. row # NoRow
  BY <1>2, RowIsNotNoRow
<1> HIDE DEF row
<1> QED
  BY <1>1, <1>2, <1>3, <1>4 DEF TypeInv, TypeOK, Recorded

\* The rest of what a commit writes.
LEMMA CommitKeepsTypes ==
  ASSUME TypeInv, NEW r \in Requests, req[r].op = "decide", CommitStatus(r),
         vault' \in [Vaults -> VaultRow]
  PROVE  TypeInv'
<1>1. req[r] \in Deciding
  BY TaskKind
<1>2. [from |-> req[r].from, to |-> req[r].to] \in AuditEntry
  BY <1>1 DEF Deciding, AuditEntry, Targets
<1>3. audit' \in [Ids -> Seq(AuditEntry)]
  BY <1>1, <1>2 DEF CommitStatus, TypeInv, TypeOK, Deciding
<1>4. /\ req' = [req EXCEPT ![r] = Idle]
      /\ school' = school
  BY DEF CommitStatus
<1>5. req' \in [Requests -> RequestState]
  BY <1>4 DEF TypeInv, TypeOK, RequestState
<1>6. TypeOK'
  BY <1>3, <1>4, <1>5, CommitRow DEF TypeInv, TypeOK
<1>7. TasksSound'
  BY <1>4, CommitRow DEF TypeInv, TypeOK, TasksSound, Idle
<1>8. AmountsPositive'
  BY CommitRow DEF TypeInv, AmountsPositive, AmountOf
<1> QED
  BY <1>6, <1>7, <1>8 DEF TypeInv

LEMMA TypeStep == TypeInv /\ [Next]_vars => TypeInv'
<1> SUFFICES ASSUME TypeInv, [Next]_vars PROVE TypeInv'
  OBVIOUS
<1>1. ASSUME NEW s \in Schools, NEW status \in SchoolStatuses, VerifySchool(s, status)
      PROVE  TypeInv'
  BY <1>1 DEF VerifySchool, TypeInv, TypeOK, TasksSound, AmountsPositive, Recorded, AmountOf
<1>2. ASSUME NEW r \in Requests, NEW task \in RequestState, req' = [req EXCEPT ![r] = task],
             UNCHANGED <<vault, payout, school, audit>>,
             task.op = "create" => task.body.amount > 0,
             task.op \in {"review", "decide"} => task.id \in Recorded
      PROVE  TypeInv'
  <2>1. Recorded' = Recorded
    BY <1>2 DEF Recorded
  <2>2. TypeOK' /\ AmountsPositive'
    BY <1>2, <2>1 DEF TypeInv, TypeOK, AmountsPositive, AmountOf
  <2>3. TasksSound'
    BY <1>2, <2>1 DEF TypeInv, TypeOK, TasksSound
  <2> QED
    BY <2>2, <2>3 DEF TypeInv
<1>3. ASSUME NEW r \in Requests, NEW k \in Keys, NEW b \in Bodies, BeginCreate(r, k, b)
      PROVE  TypeInv'
  <2> DEFINE task == [op |-> "create", key |-> k, body |-> b]
  <2>1. task \in Creating /\ task.op = "create" /\ task.body.amount > 0
    BY <1>3 DEF BeginCreate, Acceptable, Creating
  <2> QED
    BY <1>2, <1>3, <2>1 DEF BeginCreate, RequestState
<1>4. ASSUME NEW r \in Requests, NEW id \in Ids, InsertRequest(r, id)
      PROVE  TypeInv'
  <2> DEFINE row == [body |-> req[r].body, key |-> req[r].key, status |-> "Pending"]
  <2>1. req[r] \in Creating /\ req[r].body.amount > 0
    BY <1>4, TaskKind DEF InsertRequest
  <2>2. row \in PayoutRow /\ row # NoRow
    BY <2>1, RowIsNotNoRow DEF PayoutRow, Statuses, Creating
  <2>3. payout' \in [Ids -> PayoutRow \cup {NoRow}]
    BY <1>4, <2>2 DEF InsertRequest, TypeInv, TypeOK
  <2>4. Recorded' = Recorded \cup {id}
    BY <1>4, <2>2 DEF InsertRequest, TypeInv, TypeOK, Recorded
  <2>5. [from |-> "None", to |-> "Pending"] \in AuditEntry
    BY DEF AuditEntry, Statuses
  <2>6. audit' \in [Ids -> Seq(AuditEntry)]
    BY <1>4, <2>5 DEF InsertRequest, TypeInv, TypeOK
  <2>7. TypeOK'
    BY <1>4, <2>3, <2>6 DEF InsertRequest, TypeInv, TypeOK, RequestState
  <2>8. TasksSound'
    BY <1>4, <2>4 DEF InsertRequest, TypeInv, TypeOK, TasksSound, Idle
  <2>9. AmountsPositive'
    BY <1>4, <2>1, <2>4 DEF InsertRequest, TypeInv, TypeOK, AmountsPositive, AmountOf
  <2> QED
    BY <2>7, <2>8, <2>9 DEF TypeInv
<1>5. ASSUME NEW r \in Requests, NEW id \in Ids, NEW target \in Targets, BeginReview(r, id, target)
      PROVE  TypeInv'
  <2> DEFINE task == [op |-> "review", id |-> id, from |-> payout[id].status, to |-> target]
  <2>1. id \in Recorded /\ payout[id].status \in Statuses
    BY <1>5, StoredBody DEF BeginReview, PayoutRow
  <2>2. task \in Reviewing /\ task.op = "review" /\ task.id \in Recorded
    BY <2>1 DEF Reviewing
  <2> QED
    BY <1>2, <1>5, <2>2 DEF BeginReview, RequestState
<1>6. ASSUME NEW r \in Requests, CheckReview(r)
      PROVE  TypeInv'
  <2> DEFINE task == [op |-> "decide", id |-> req[r].id, from |-> req[r].from, to |-> req[r].to]
  <2>1. req[r] \in Reviewing /\ req[r].id \in Recorded
    BY <1>6, TaskKind DEF CheckReview
  <2>2. task \in Deciding /\ task.op = "decide" /\ task.id \in Recorded
    BY <2>1 DEF Deciding, Reviewing
  <2> QED
    BY <1>2, <1>6, <2>2 DEF CheckReview, RequestState
<1>7. ASSUME NEW r \in Requests, DecideApproved(r) \/ DecideCompleted(r) \/ DecideFailed(r)
      PROVE  TypeInv'
  <2>1. req[r].op = "decide" /\ CommitStatus(r)
    BY <1>7 DEF DecideApproved, DecideCompleted, DecideFailed, Decides
  <2>2. req[r].id \in Recorded /\ VaultOf(req[r].id) \in Vaults /\ Asked(r) \in 1 .. MaxMinor
    BY <2>1, TaskKind, StoredBody DEF Asked
  <2>3. RowOf(r) \in VaultRow /\ RowOf(r) = vault[VaultOf(req[r].id)]
    BY <2>2 DEF RowOf, TypeInv, TypeOK
  <2>4. CASE UNCHANGED vault
    BY <2>1, <2>4, CommitKeepsTypes DEF TypeInv, TypeOK
  <2>5. ASSUME NEW locked \in Minor, NEW disbursed \in Minor, WriteVault(r, locked, disbursed)
        PROVE  TypeInv'
    <3>1. WithLockedAndDisbursed(RowOf(r), locked, disbursed) \in VaultRow
      BY <2>3 DEF WithLockedAndDisbursed, VaultRow
    <3>2. vault' \in [Vaults -> VaultRow]
      BY <2>2, <2>3, <2>5, <3>1 DEF WriteVault, TypeInv, TypeOK
    <3> QED
      BY <2>1, <3>2, CommitKeepsTypes
  <2>6. RowOf(r).locked \in Minor /\ RowOf(r).disbursed \in Minor
    BY <2>3 DEF VaultRow
  <2>7. CASE DecideApproved(r)
    <3>1. RowOf(r).locked + Asked(r) \in Minor
      BY <2>2, <2>6, <2>7, MaxMinorAssumption DEF DecideApproved, Fits, Minor
    <3> QED
      BY <2>5, <2>6, <2>7, <3>1 DEF DecideApproved
  <2>8. CASE DecideCompleted(r)
    <3>1. RowOf(r).locked - Asked(r) \in Minor /\ RowOf(r).disbursed + Asked(r) \in Minor
      BY <2>2, <2>6, <2>8, MaxMinorAssumption DEF DecideCompleted, Fits, Minor
    <3> QED
      BY <2>5, <2>8, <3>1 DEF DecideCompleted
  <2>9. CASE DecideFailed(r)
    <3>1. RowOf(r).locked >= Asked(r) => RowOf(r).locked - Asked(r) \in Minor
      BY <2>2, <2>6, MaxMinorAssumption DEF Minor
    <3> QED
      BY <2>4, <2>5, <2>6, <2>9, <3>1 DEF DecideFailed
  <2> QED
    BY <1>7, <2>7, <2>8, <2>9
<1>8. ASSUME NEW r \in Requests, DecideOther(r)
      PROVE  TypeInv'
  BY <1>8, CommitKeepsTypes DEF DecideOther, Decides, TypeInv, TypeOK
<1>9. ASSUME NEW r \in Requests, InsertConflict(r) \/ DecideRolledBack(r) \/ Lost(r)
      PROVE  TypeInv'
  BY <1>2, <1>9 DEF InsertConflict, DecideRolledBack, Lost, RequestState, Idle
<1>10. CASE UNCHANGED vars
  BY <1>10 DEF vars, TypeInv, TypeOK, TasksSound, AmountsPositive, Recorded, AmountOf
<1> QED
  BY <1>1, <1>3, <1>4, <1>5, <1>6, <1>7, <1>8, <1>9, <1>10 DEF Next

LEMMA TypeInvariant == Spec => []TypeInv
BY TypeInit, TypeStep, PTL DEF Spec

\* Whatever decisions race, the locked and disbursed columns stay within
\* 0 .. MaxMinor: a completion or a failure never releases more than is locked
\* (transition_with_audit, on the row it read under the lock).
THEOREM TypeCorrect == Spec => []TypeOK
<1>1. TypeInv => TypeOK
  BY DEF TypeInv
<1> QED
  BY <1>1, TypeInvariant, PTL

-----------------------------------------------------------------------------
(* Idempotency keys.                                                       *)

KeysUnique == \A a, b \in Recorded : payout[a].key = payout[b].key => a = b

LEMMA KeysInit == Init => KeysUnique
BY DEF Init, KeysUnique, Recorded

LEMMA KeysStep == TypeInv /\ KeysUnique /\ [Next]_vars => KeysUnique'
<1> SUFFICES ASSUME TypeInv, KeysUnique, [Next]_vars PROVE KeysUnique'
  OBVIOUS
<1>1. ASSUME NEW r \in Requests, NEW id \in Ids, InsertRequest(r, id)
      PROVE  KeysUnique'
  <2> DEFINE row == [body |-> req[r].body, key |-> req[r].key, status |-> "Pending"]
  <2>1. req[r] \in Creating /\ row \in PayoutRow /\ row # NoRow
    BY <1>1, TaskKind, RowIsNotNoRow DEF InsertRequest, PayoutRow, Statuses, Creating
  <2>2. Recorded' = Recorded \cup {id} /\ id \notin Recorded
    BY <1>1, <2>1 DEF InsertRequest, TypeInv, TypeOK, Recorded
  <2>3. payout'[id] = row /\ \A i \in Recorded : payout'[i] = payout[i]
    BY <1>1, <2>2 DEF InsertRequest, TypeInv, TypeOK, Recorded
  <2>4. \A i \in Recorded : payout[i].key # row.key
    BY <1>1 DEF InsertRequest, WithKey
  <2> QED
    BY <2>2, <2>3, <2>4 DEF KeysUnique
<1>2. ASSUME NEW r \in Requests, req[r].op = "decide", CommitStatus(r)
      PROVE  KeysUnique'
  BY <1>2, CommitRow DEF KeysUnique
<1>3. ASSUME UNCHANGED payout
      PROVE  KeysUnique'
  BY <1>3 DEF KeysUnique, Recorded
<1> QED
  BY <1>1, <1>2, <1>3
     DEF Next, vars, VerifySchool, BeginCreate, InsertConflict, BeginReview, CheckReview,
         DecideApproved, DecideCompleted, DecideFailed, DecideOther, Decides, DecideRolledBack,
         Lost

LEMMA KeysInvariant == Spec => []KeysUnique
BY TypeInvariant, KeysInit, KeysStep, PTL DEF Spec

\* However many requests race under one idempotency key, one payout is stored
\* (create_payout_request with the unique index).
THEOREM KeysAreIdempotent == Spec => []OnePayoutPerKey
<1>1. KeysUnique => OnePayoutPerKey
  <2> SUFFICES ASSUME KeysUnique, NEW k \in Keys
               PROVE  Cardinality(WithKey(k)) <= 1
    BY DEF OnePayoutPerKey
  <2>1. CASE WithKey(k) = {}
    BY <2>1, FS_EmptySet
  <2>2. CASE WithKey(k) # {}
    <3>1. PICK id : WithKey(k) = {id}
      BY <2>2 DEF KeysUnique, WithKey
    <3>2. Cardinality(WithKey(k)) = 1
      BY <3>1, FS_Singleton
    <3> QED
      BY <3>2
  <2> QED
    BY <2>1, <2>2
<1> QED
  BY <1>1, KeysInvariant, PTL

-----------------------------------------------------------------------------
(* The discipline.  While at most one task reviews a payout, what the task *)
(* read is still true when it commits, and the audit rows of the payout    *)
(* end with the status it has.                                             *)

ReadsStillHold ==
  \A r \in Requests : req[r].op \in {"review", "decide"} =>
    /\ payout[req[r].id].status = req[r].from
    /\ <<req[r].from, req[r].to>> \in LegalMoves

AuditUpToDate ==
  \A id \in Ids :
    IF id \in Recorded
    THEN Len(audit[id]) > 0 /\ audit[id][Len(audit[id])].to = payout[id].status
    ELSE audit[id] = << >>

ReviewedInv == TypeInv /\ OneReviewerEach /\ ReadsStillHold /\ AuditUpToDate /\ AuditChains

\* Appending a row that starts where the last one ended keeps the chain.
LEMMA ChainAppend ==
  ASSUME NEW rows \in Seq(AuditEntry), NEW row \in AuditEntry,
         \A i \in 2 .. Len(rows) : rows[i].from = rows[i - 1].to,
         Len(rows) > 0 => rows[Len(rows)].to = row.from
  PROVE  /\ \A i \in 2 .. Len(Append(rows, row)) :
              Append(rows, row)[i].from = Append(rows, row)[i - 1].to
         /\ Len(Append(rows, row)) > 0
         /\ Append(rows, row)[Len(Append(rows, row))] = row
<1> DEFINE n == Len(rows)
           longer == Append(rows, row)
<1>1. /\ n \in Nat
      /\ Len(longer) = n + 1
      /\ longer[n + 1] = row
      /\ \A i \in 1 .. n : longer[i] = rows[i]
  OBVIOUS
<1>2. ASSUME NEW i \in 2 .. n + 1
      PROVE  longer[i].from = longer[i - 1].to
  <2>1. CASE i = n + 1
    BY <1>1, <2>1
  <2>2. CASE i \in 2 .. n
    BY <1>1, <2>2
  <2> QED
    BY <1>1, <2>1, <2>2
<1> QED
  BY <1>1, <1>2

LEMMA ReadsStep == ReviewedInv /\ [ReviewedNext]_vars => ReadsStillHold'
<1> SUFFICES ASSUME ReviewedInv, [ReviewedNext]_vars
             PROVE  ReadsStillHold'
  OBVIOUS
<1>1. TypeInv /\ OneReviewerEach /\ ReadsStillHold /\ TypeOK
  BY DEF ReviewedInv, TypeInv
<1>2. ASSUME NEW r \in Requests, NEW task, req' = [req EXCEPT ![r] = task], UNCHANGED payout,
             task.op \in {"review", "decide"} =>
               /\ payout[task.id].status = task.from
               /\ <<task.from, task.to>> \in LegalMoves
      PROVE  ReadsStillHold'
  BY <1>1, <1>2 DEF ReadsStillHold, TypeOK
<1>3. ASSUME NEW r \in Requests, NEW id \in Ids, InsertRequest(r, id)
      PROVE  ReadsStillHold'
  <2>1. id \notin Recorded
    BY <1>3 DEF InsertRequest, Recorded
  <2> QED
    BY <1>1, <1>3, <2>1 DEF InsertRequest, ReadsStillHold, TypeInv, TasksSound, TypeOK, Idle
<1>4. ASSUME NEW r \in Requests, NEW k \in Keys, NEW b \in Bodies, BeginCreate(r, k, b)
      PROVE  ReadsStillHold'
  BY <1>2, <1>4 DEF BeginCreate
<1>5. ASSUME NEW r \in Requests, NEW id \in Ids, NEW target \in Targets, BeginReview(r, id, target)
      PROVE  ReadsStillHold'
  BY <1>2, <1>5 DEF BeginReview
<1>6. ASSUME NEW r \in Requests, CheckReview(r)
      PROVE  ReadsStillHold'
  <2>1. payout[req[r].id].status = req[r].from /\ <<req[r].from, req[r].to>> \in LegalMoves
    BY <1>1, <1>6 DEF CheckReview, ReadsStillHold
  <2> QED
    BY <1>2, <1>6, <2>1 DEF CheckReview
<1>7. ASSUME NEW r \in Requests, req[r].op = "decide", CommitStatus(r)
      PROVE  ReadsStillHold'
  <2> SUFFICES ASSUME NEW s \in Requests, req'[s].op \in {"review", "decide"}
               PROVE  /\ payout'[req'[s].id].status = req'[s].from
                      /\ <<req'[s].from, req'[s].to>> \in LegalMoves
    BY DEF ReadsStillHold
  <2>1. s # r /\ req'[s] = req[s]
    BY <1>1, <1>7 DEF CommitStatus, TypeOK, Idle
  <2>2. req[s].id # req[r].id
    BY <1>1, <1>7, <2>1 DEF OneReviewerEach
  <2>3. req[s].id \in Recorded
    BY <1>1, <2>1 DEF TypeInv, TasksSound
  <2>4. payout'[req[s].id] = payout[req[s].id]
    BY <1>1, <1>7, <2>2, <2>3, CommitRow
  <2> QED
    BY <1>1, <2>1, <2>4 DEF ReadsStillHold
<1>8. ASSUME NEW r \in Requests, req' = [req EXCEPT ![r] = Idle], UNCHANGED payout
      PROVE  ReadsStillHold'
  BY <1>2, <1>8 DEF Idle
<1>9. ASSUME UNCHANGED <<req, payout>>
      PROVE  ReadsStillHold'
  BY <1>1, <1>9 DEF ReadsStillHold
<1> QED
  BY <1>3, <1>4, <1>5, <1>6, <1>7, <1>8, <1>9
     DEF ReviewedNext, Next, vars, VerifySchool, InsertConflict, DecideApproved,
         DecideCompleted, DecideFailed, DecideOther, Decides, DecideRolledBack, Lost

LEMMA AuditStep ==
  ReviewedInv /\ [ReviewedNext]_vars => AuditUpToDate' /\ AuditChains'
<1> SUFFICES ASSUME ReviewedInv, [ReviewedNext]_vars
             PROVE  AuditUpToDate' /\ AuditChains'
  OBVIOUS
<1>1. TypeInv /\ ReadsStillHold /\ AuditUpToDate /\ AuditChains /\ TypeOK
  BY DEF ReviewedInv, TypeInv
<1>2. ASSUME NEW id \in Ids, NEW row \in AuditEntry,
             audit' = [audit EXCEPT ![id] = Append(@, row)],
             Len(audit[id]) > 0 => audit[id][Len(audit[id])].to = row.from,
             Recorded' = Recorded \cup {id},
             payout'[id].status = row.to,
             \A i \in Recorded : i # id => payout'[i] = payout[i]
      PROVE  AuditUpToDate' /\ AuditChains'
  <2>1. audit[id] \in Seq(AuditEntry)
    BY <1>1 DEF TypeOK
  <2>2. \A i \in 2 .. Len(audit[id]) : audit[id][i].from = audit[id][i - 1].to
    BY <1>1 DEF AuditChains
  <2>3. /\ audit'[id] = Append(audit[id], row)
        /\ \A i \in Ids : i # id => audit'[i] = audit[i]
    BY <1>1, <1>2 DEF TypeOK
  <2>4. /\ \A i \in 2 .. Len(audit'[id]) : audit'[id][i].from = audit'[id][i - 1].to
        /\ Len(audit'[id]) > 0
        /\ audit'[id][Len(audit'[id])] = row
    BY <1>2, <2>1, <2>2, <2>3, ChainAppend
  <2>5. AuditChains'
    BY <1>1, <2>3, <2>4 DEF AuditChains
  <2>6. AuditUpToDate'
    <3> SUFFICES ASSUME NEW i \in Ids
                 PROVE  IF i \in Recorded'
                        THEN Len(audit'[i]) > 0 /\ audit'[i][Len(audit'[i])].to = payout'[i].status
                        ELSE audit'[i] = << >>
      BY DEF AuditUpToDate
    <3>1. CASE i = id
      BY <1>2, <2>4, <3>1
    <3>2. CASE i # id
      BY <1>1, <1>2, <2>3, <3>2 DEF AuditUpToDate
    <3> QED
      BY <3>1, <3>2
  <2> QED
    BY <2>5, <2>6
<1>3. ASSUME NEW r \in Requests, NEW id \in Ids, InsertRequest(r, id)
      PROVE  AuditUpToDate' /\ AuditChains'
  <2> DEFINE row == [body |-> req[r].body, key |-> req[r].key, status |-> "Pending"]
             entry == [from |-> "None", to |-> "Pending"]
  <2>1. req[r] \in Creating /\ row \in PayoutRow /\ row # NoRow
    BY <1>1, <1>3, TaskKind, RowIsNotNoRow DEF InsertRequest, PayoutRow, Statuses, Creating
  <2>2. Recorded' = Recorded \cup {id} /\ id \notin Recorded
    BY <1>1, <1>3, <2>1 DEF InsertRequest, TypeOK, Recorded
  <2>3. payout'[id] = row /\ \A i \in Recorded : payout'[i] = payout[i]
    BY <1>1, <1>3, <2>2 DEF InsertRequest, TypeOK, Recorded
  <2>4. entry \in AuditEntry /\ entry.to = row.status
    BY DEF AuditEntry, Statuses
  <2>5. audit[id] = << >>
    BY <1>1, <2>2 DEF AuditUpToDate
  <2>6. audit' = [audit EXCEPT ![id] = Append(@, entry)]
    BY <1>3 DEF InsertRequest
  <2>7. ~(Len(audit[id]) > 0)
    BY <2>5
  <2> HIDE DEF row, entry
  <2> QED
    BY <1>2, <2>2, <2>3, <2>4, <2>6, <2>7
<1>4. ASSUME NEW r \in Requests, req[r].op = "decide", CommitStatus(r)
      PROVE  AuditUpToDate' /\ AuditChains'
  <2> DEFINE id == req[r].id
             entry == [from |-> req[r].from, to |-> req[r].to]
  <2>1. req[r] \in Deciding /\ id \in Recorded /\ id \in Ids
    BY <1>1, <1>4, TaskKind, StoredBody
  <2>2. entry \in AuditEntry /\ entry.to = req[r].to /\ entry.from = req[r].from
    BY <2>1 DEF Deciding, AuditEntry, Targets
  <2>3. audit[id][Len(audit[id])].to = entry.from
    BY <1>1, <1>4, <2>1, <2>2 DEF AuditUpToDate, ReadsStillHold
  <2>4. audit' = [audit EXCEPT ![id] = Append(@, entry)]
    BY <1>4 DEF CommitStatus
  <2>5. /\ Recorded' = Recorded \cup {id}
        /\ payout'[id].status = entry.to
        /\ \A i \in Recorded : i # id => payout'[i] = payout[i]
    BY <1>1, <1>4, <2>1, <2>2, CommitRow
  <2> HIDE DEF id, entry
  <2> QED
    BY <1>2, <2>1, <2>2, <2>3, <2>4, <2>5
<1>5. ASSUME UNCHANGED <<audit, payout>>
      PROVE  AuditUpToDate' /\ AuditChains'
  BY <1>1, <1>5 DEF AuditUpToDate, AuditChains, Recorded
<1> QED
  BY <1>3, <1>4, <1>5
     DEF ReviewedNext, Next, vars, VerifySchool, BeginCreate, InsertConflict, BeginReview,
         CheckReview, DecideApproved, DecideCompleted, DecideFailed, DecideOther, Decides,
         DecideRolledBack, Lost

LEMMA ReviewedInit == Init => ReviewedInv
<1>1. Init => OneReviewerEach /\ ReadsStillHold
  BY DEF Init, OneReviewerEach, ReadsStillHold, Idle
<1>2. Init => AuditUpToDate /\ AuditChains
  BY DEF Init, AuditUpToDate, AuditChains, Recorded
<1> QED
  BY <1>1, <1>2, TypeInit DEF ReviewedInv

LEMMA ReviewedInvariant == ReviewedSpec => []ReviewedInv
<1>1. ReviewedInv /\ [ReviewedNext]_vars => ReviewedInv'
  <2>1. ReviewedInv /\ [ReviewedNext]_vars => TypeInv'
    BY TypeStep DEF ReviewedInv, ReviewedNext
  <2>2. ReviewedInv /\ [ReviewedNext]_vars => OneReviewerEach'
    BY DEF ReviewedInv, ReviewedNext, OneReviewerEach, vars
  <2> QED
    BY <2>1, <2>2, ReadsStep, AuditStep DEF ReviewedInv
<1> QED
  BY <1>1, ReviewedInit, PTL DEF ReviewedSpec

\* When at most one task reviews a payout at a time, its audit rows are its
\* history, however many payouts of a vault are reviewed concurrently.
THEOREM AuditTrailsAreHistories == ReviewedSpec => []AuditChains
<1>1. ReviewedInv => AuditChains
  BY DEF ReviewedInv
<1> QED
  BY <1>1, ReviewedInvariant, PTL

\* A step of a status, as validate_transition allows it.
LegalStep ==
  \A id \in Recorded :
    payout'[id].status # payout[id].status
      => <<payout[id].status, payout'[id].status>> \in LegalMoves

LEMMA ReviewedLegal == ReviewedInv /\ [ReviewedNext]_vars => [LegalStep]_payout
<1> SUFFICES ASSUME ReviewedInv, [ReviewedNext]_vars, payout' # payout,
                    NEW id \in Recorded, payout'[id].status # payout[id].status
             PROVE  <<payout[id].status, payout'[id].status>> \in LegalMoves
  BY DEF LegalStep
<1>1. TypeInv /\ ReadsStillHold
  BY DEF ReviewedInv
<1>2. ASSUME NEW r \in Requests, req[r].op = "decide", CommitStatus(r)
      PROVE  <<payout[id].status, payout'[id].status>> \in LegalMoves
  <2>1. id = req[r].id /\ payout'[id].status = req[r].to
    BY <1>1, <1>2, CommitRow
  <2> QED
    BY <1>1, <1>2, <2>1 DEF ReadsStillHold
<1>3. ASSUME NEW r \in Requests, NEW i \in Ids, InsertRequest(r, i)
      PROVE  FALSE
  BY <1>1, <1>3 DEF InsertRequest, Recorded, TypeInv, TypeOK
<1> QED
  BY <1>2, <1>3
     DEF ReviewedNext, Next, vars, VerifySchool, BeginCreate, InsertConflict, BeginReview,
         CheckReview, DecideApproved, DecideCompleted, DecideFailed, DecideOther, Decides,
         DecideRolledBack, Lost

\* Likewise a status only moves along validate_transition: the validation made
\* on a row read outside the transaction is then enough.
THEOREM ReviewedMovesAreLegal == ReviewedSpec => LegalMovesOnly
BY ReviewedLegal, ReviewedInvariant, PTL DEF ReviewedSpec, LegalMovesOnly, LegalStep

-----------------------------------------------------------------------------
(* What a step does to the rows, in the form the rest of the proofs want:  *)
(* it inserts one row, commits one decision, or changes neither rows nor   *)
(* balances.                                                               *)

RowsSame == UNCHANGED <<vault, payout, audit>>

RowInserted(id) ==
  /\ id \in Ids \ Recorded
  /\ Recorded' = Recorded \cup {id}
  /\ payout'[id] \in PayoutRow
  /\ payout'[id].status = "Pending"
  /\ \A i \in Recorded : payout'[i] = payout[i]
  /\ audit' = [audit EXCEPT ![id] = Append(@, [from |-> "None", to |-> "Pending"])]
  /\ UNCHANGED vault

RowDecided(id, from, to) ==
  /\ id \in Recorded
  /\ from \in Statuses /\ to \in Targets
  /\ Recorded' = Recorded
  /\ payout'[id].status = to
  /\ \A i \in Recorded : payout'[i].body = payout[i].body /\ payout'[i].key = payout[i].key
  /\ \A i \in Recorded : i # id => payout'[i] = payout[i]
  /\ audit' = [audit EXCEPT ![id] = Append(@, [from |-> from, to |-> to])]

BalancesWritten(id, locked, disbursed) ==
  LET v == VaultOf(id) IN
  /\ vault'[v] = WithLockedAndDisbursed(vault[v], locked, disbursed)
  /\ \A w \in Vaults : w # v => vault'[w] = vault[w]

\* The branches of transition_with_audit.
Reserved(id) ==
  BalancesWritten(id, vault[VaultOf(id)].locked + AmountOf(id), vault[VaultOf(id)].disbursed)

Paid(id) ==
  /\ vault[VaultOf(id)].locked >= AmountOf(id)
  /\ BalancesWritten(id, vault[VaultOf(id)].locked - AmountOf(id),
                     vault[VaultOf(id)].disbursed + AmountOf(id))

Released(id) ==
  /\ vault[VaultOf(id)].locked >= AmountOf(id)
  /\ BalancesWritten(id, vault[VaultOf(id)].locked - AmountOf(id), vault[VaultOf(id)].disbursed)

NothingToRelease(id) == vault[VaultOf(id)].locked < AmountOf(id) /\ UNCHANGED vault

DecisionEffect(r) ==
  /\ req[r].op = "decide"
  /\ req' = [req EXCEPT ![r] = Idle]
  /\ RowDecided(req[r].id, req[r].from, req[r].to)
  /\ \/ req[r].to = "Approved" /\ Reserved(req[r].id)
     \/ req[r].to = "Completed" /\ Paid(req[r].id)
     \/ req[r].to = "Failed" /\ (Released(req[r].id) \/ NothingToRelease(req[r].id))
     \/ req[r].to \in {"UnderReview", "Rejected", "Processing"} /\ UNCHANGED vault

LEMMA InsertEffect ==
  ASSUME TypeInv, NEW r \in Requests, NEW id \in Ids, InsertRequest(r, id)
  PROVE  RowInserted(id)
<1> DEFINE row == [body |-> req[r].body, key |-> req[r].key, status |-> "Pending"]
<1>1. req[r] \in Creating
  BY TaskKind DEF InsertRequest
<1>2. row \in PayoutRow /\ row # NoRow /\ row.status = "Pending"
  BY <1>1, RowIsNotNoRow DEF Creating, PayoutRow, Statuses
<1>3. payout' = [payout EXCEPT ![id] = row] /\ payout[id] = NoRow
  BY DEF InsertRequest
<1> HIDE DEF row
<1>4. /\ id \in Ids \ Recorded
      /\ Recorded' = Recorded \cup {id}
      /\ payout'[id] = row
      /\ \A i \in Recorded : payout'[i] = payout[i]
  BY <1>2, <1>3 DEF TypeInv, TypeOK, Recorded
<1> QED
  BY <1>2, <1>4 DEF RowInserted, InsertRequest

LEMMA CommitEffect ==
  ASSUME TypeInv, NEW r \in Requests, req[r].op = "decide", CommitStatus(r)
  PROVE  RowDecided(req[r].id, req[r].from, req[r].to)
<1>1. req[r] \in Deciding
  BY TaskKind
<1>2. audit' = [audit EXCEPT ![req[r].id] = Append(@, [from |-> req[r].from, to |-> req[r].to])]
  BY DEF CommitStatus
<1> QED
  BY <1>1, <1>2, CommitRow DEF RowDecided, Deciding

LEMMA WriteEffect ==
  ASSUME TypeInv, NEW r \in Requests, req[r].id \in Recorded, NEW locked, NEW disbursed,
         WriteVault(r, locked, disbursed)
  PROVE  BalancesWritten(req[r].id, locked, disbursed)
<1>1. VaultOf(req[r].id) \in Vaults
  BY StoredBody
<1> QED
  BY <1>1 DEF WriteVault, BalancesWritten, TypeInv, TypeOK

LEMMA StepKinds ==
  ASSUME TypeInv, [Next]_vars
  PROVE  \/ RowsSame
         \/ \E r \in Requests, id \in Ids : InsertRequest(r, id)
         \/ \E r \in Requests : DecisionEffect(r)
<1>1. ASSUME NEW r \in Requests,
             DecideApproved(r) \/ DecideCompleted(r) \/ DecideFailed(r) \/ DecideOther(r)
      PROVE  DecisionEffect(r)
  <2> DEFINE id == req[r].id
  <2>1. /\ req[r].op = "decide"
        /\ id \in Recorded
        /\ RowDecided(id, req[r].from, req[r].to)
        /\ req' = [req EXCEPT ![r] = Idle]
    BY <1>1, TaskKind, CommitEffect
       DEF DecideApproved, DecideCompleted, DecideFailed, DecideOther, Decides, CommitStatus
  <2>2. CASE DecideApproved(r)
    <3>1. req[r].to = "Approved" /\ Reserved(id)
      BY <2>1, <2>2, WriteEffect DEF DecideApproved, Decides, Reserved, RowOf, Asked
    <3> QED
      BY <2>1, <3>1 DEF DecisionEffect
  <2>3. CASE DecideCompleted(r)
    <3>1. req[r].to = "Completed" /\ Paid(id)
      BY <2>1, <2>3, WriteEffect DEF DecideCompleted, Decides, Paid, RowOf, Asked
    <3> QED
      BY <2>1, <3>1 DEF DecisionEffect
  <2>4. CASE DecideFailed(r)
    <3>1. req[r].to = "Failed" /\ (Released(id) \/ NothingToRelease(id))
      BY <2>1, <2>4, WriteEffect
         DEF DecideFailed, Decides, Released, NothingToRelease, RowOf, Asked
    <3> QED
      BY <2>1, <3>1 DEF DecisionEffect
  <2>5. CASE DecideOther(r)
    BY <2>1, <2>5 DEF DecideOther, Decides, DecisionEffect
  <2> QED
    BY <1>1, <2>2, <2>3, <2>4, <2>5
<1> QED
  BY <1>1
     DEF RowsSame, Next, vars, VerifySchool, BeginCreate, InsertConflict, BeginReview,
         CheckReview, DecideRolledBack, Lost

LEMMA StepEffect ==
  ASSUME TypeInv, [Next]_vars
  PROVE  \/ RowsSame
         \/ \E id \in Ids : RowInserted(id)
         \/ \E r \in Requests : DecisionEffect(r)
BY StepKinds, InsertEffect

Approves(r) == req[r].op = "decide" /\ req[r].to = "Approved"

\* A task is about to approve only if it was before this step, or has just found the
\* funds sufficient.
LEMMA ApprovalsStep ==
  ASSUME TypeInv, [Next]_vars, NEW r \in Requests, Approves(r)'
  PROVE  \/ Approves(r) /\ req'[r] = req[r]
         \/ /\ RowsSame
            /\ req'[r].id \in Recorded
            /\ FundsSuffice(VaultOf(req'[r].id), AmountOf(req'[r].id))
<1>1. CASE UNCHANGED req
  BY <1>1 DEF Approves
<1>2. ASSUME NEW s \in Requests, NEW state, req' = [req EXCEPT ![s] = state],
             state.op # "decide" \/ state.to # "Approved"
      PROVE  Approves(r) /\ req'[r] = req[r]
  BY <1>2 DEF Approves, TypeInv, TypeOK
<1>3. ASSUME NEW s \in Requests, CheckReview(s)
      PROVE  \/ Approves(r) /\ req'[r] = req[r]
             \/ /\ RowsSame
                /\ req'[r].id \in Recorded
                /\ FundsSuffice(VaultOf(req'[r].id), AmountOf(req'[r].id))
  <2>1. CASE r # s
    BY <1>3, <2>1 DEF CheckReview, Approves, TypeInv, TypeOK
  <2>2. CASE r = s
    <3>1. req'[r].id = req[r].id /\ req'[r].to = req[r].to
      BY <1>3, <2>2 DEF CheckReview, TypeInv, TypeOK
    <3>2. req[r].op = "review" /\ req[r].to = "Approved" /\ req[r].id \in Recorded
      BY <1>3, <2>2, <3>1, TaskKind DEF CheckReview, Approves
    <3> QED
      BY <1>3, <2>2, <3>1, <3>2 DEF CheckReview, RowsSame, VaultOf, AmountOf
  <2> QED
    BY <2>1, <2>2
<1>4. Idle.op # "decide"
  BY DEF Idle
<1>5. ASSUME NEW s \in Requests, req' = [req EXCEPT ![s] = Idle]
      PROVE  Approves(r) /\ req'[r] = req[r]
  BY <1>2, <1>4, <1>5
<1>6. ASSUME NEW s \in Requests, NEW k, NEW b, BeginCreate(s, k, b)
      PROVE  Approves(r) /\ req'[r] = req[r]
  BY <1>2, <1>6 DEF BeginCreate
<1>7. ASSUME NEW s \in Requests, NEW id, NEW target, BeginReview(s, id, target)
      PROVE  Approves(r) /\ req'[r] = req[r]
  BY <1>2, <1>7 DEF BeginReview
<1>8. ASSUME NEW s \in Requests,
             \/ \E id \in Ids : InsertRequest(s, id)
             \/ InsertConflict(s)
             \/ DecideApproved(s)
             \/ DecideCompleted(s)
             \/ DecideFailed(s)
             \/ DecideOther(s)
             \/ DecideRolledBack(s)
             \/ Lost(s)
      PROVE  req' = [req EXCEPT ![s] = Idle]
  BY <1>8 DEF InsertRequest, InsertConflict, DecideApproved, DecideCompleted, DecideFailed,
              DecideOther, DecideRolledBack, Lost, CommitStatus
<1> QED
  BY <1>1, <1>3, <1>5, <1>6, <1>7, <1>8 DEF Next, vars, VerifySchool

-----------------------------------------------------------------------------
(* Decisions and money.  Decided(v, status) sums over the payouts of a     *)
(* vault; rows are inserted one at a time, so there are finitely many.     *)

RowsFinite == IsFiniteSet(Recorded)

FreshUnaudited == \A id \in Ids \ Recorded : audit[id] = << >>

\* How often a list of audit rows names a status.
Naming(rows, status) == Cardinality({i \in 1 .. Len(rows) : rows[i].to = status})

LEMMA NamingAppend ==
  ASSUME NEW rows \in Seq(AuditEntry), NEW row, NEW status
  PROVE  /\ Naming(rows, status) \in Nat
         /\ Naming(Append(rows, row), status) =
              IF row.to = status THEN Naming(rows, status) + 1 ELSE Naming(rows, status)
<1> DEFINE n == Len(rows)
           longer == Append(rows, row)
           S == {i \in 1 .. n : rows[i].to = status}
           T == {i \in 1 .. n + 1 : longer[i].to = status}
<1>1. /\ n \in Nat
      /\ Len(longer) = n + 1
      /\ longer[n + 1] = row
      /\ \A i \in 1 .. n : longer[i] = rows[i]
  OBVIOUS
<1>2. IsFiniteSet(1 .. n) /\ S \subseteq 1 .. n
  BY <1>1, FS_Interval
<1>3. IsFiniteSet(S) /\ Cardinality(S) \in Nat /\ n + 1 \notin S
  BY <1>1, <1>2, FS_Subset, FS_CardinalityType
<1>4. 1 .. n + 1 = 1 .. n \cup {n + 1}
  BY <1>1
<1>5. T = IF row.to = status THEN S \cup {n + 1} ELSE S
  <2> HIDE DEF n, longer
  <2> QED
    BY <1>1, <1>4
<1>6. Naming(rows, status) = Cardinality(S) /\ Naming(longer, status) = Cardinality(T)
  BY <1>1 DEF Naming
<1> HIDE DEF S, T, n, longer
<1>7. Cardinality(S \cup {n + 1}) = Cardinality(S) + 1
  BY <1>3, FS_AddElement
<1> QED
  BY <1>3, <1>5, <1>6, <1>7 DEF longer

LEMMA NamingNone == \A status : Naming(<< >>, status) = 0
<1> SUFFICES ASSUME NEW status PROVE Naming(<< >>, status) = 0
  OBVIOUS
<1>1. {i \in 1 .. Len(<< >>) : << >>[i].to = status} = {}
  OBVIOUS
<1> QED
  BY <1>1, FS_EmptySet DEF Naming

\* What a decision about a payout weighs in a sum over a vault's payouts: its
\* amount, or one when decisions are only counted.
Weight(id, unit) == IF unit = "decision" THEN 1 ELSE AmountOf(id)

Weighed(v, status, unit) ==
  [id \in OfVault(v) |-> Weight(id, unit) * Naming(audit[id], status)]

Tally(v, status, unit) == SumFunction(Weighed(v, status, unit))

\* How many audit rows of a vault's payouts name a status.
Counted(v, status) == SumFunction([id \in OfVault(v) |-> Times(id, status)])

LEMMA DecidedIs == \A v, status : Decided(v, status) = Tally(v, status, "amount")
BY DEF Decided, Tally, Weighed, Weight, Times, Naming

LEMMA DecidedNextIs == \A v, status : Decided(v, status)' = Tally(v, status, "amount")'
BY DEF Decided, Tally, Weighed, Weight, Times, Naming

LEMMA WeighedSummable ==
  ASSUME TypeInv, RowsFinite, NEW v, NEW status, NEW unit \in {"amount", "decision"}
  PROVE  /\ Summable(Weighed(v, status, unit))
         /\ Tally(v, status, unit) \in Int
         /\ \A id \in OfVault(v) :
              Weight(id, unit) \in Int /\ Naming(audit[id], status) \in Nat
<1>1. IsFiniteSet(OfVault(v))
  BY FS_Subset DEF OfVault, RowsFinite
<1>2. ASSUME NEW id \in OfVault(v)
      PROVE  /\ Weight(id, unit) \in Int
             /\ Naming(audit[id], status) \in Nat
             /\ Weight(id, unit) * Naming(audit[id], status) \in Int
  <2>1. AmountOf(id) \in Int /\ audit[id] \in Seq(AuditEntry)
    BY StoredBody DEF OfVault, TypeInv, TypeOK
  <2>2. Naming(audit[id], status) \in Nat
    BY <2>1, NamingAppend
  <2>3. Weight(id, unit) \in Int
    BY <2>1 DEF Weight
  <2> QED
    BY <2>2, <2>3
<1>3. Summable(Weighed(v, status, unit))
  BY <1>1, <1>2 DEF Weighed, Summable, Integral
<1> QED
  BY <1>2, <1>3, TableType DEF Tally

LEMMA DecidedSummable ==
  ASSUME TypeInv, RowsFinite, NEW v, NEW status
  PROVE  Decided(v, status) \in Int
BY WeighedSummable, DecidedIs

LEMMA CountedIs ==
  ASSUME TypeInv, NEW v, NEW status
  PROVE  Counted(v, status) = Tally(v, status, "decision")
<1>1. \A id \in OfVault(v) : audit[id] \in Seq(AuditEntry)
  BY DEF OfVault, Recorded, TypeInv, TypeOK
<1>2. \A id \in OfVault(v) : Naming(audit[id], status) \in Nat
  BY <1>1, NamingAppend
<1>3. \A id \in OfVault(v) :
        Weight(id, "decision") * Naming(audit[id], status) = Naming(audit[id], status)
  BY <1>2 DEF Weight
<1> QED
  BY <1>3 DEF Counted, Tally, Weighed, Times, Naming

LEMMA CountedNextIs ==
  ASSUME TypeInv', NEW v, NEW status
  PROVE  Counted(v, status)' = Tally(v, status, "decision")'
<1>1. \A id \in OfVault(v)' : audit'[id] \in Seq(AuditEntry)
  BY DEF OfVault, Recorded, TypeInv, TypeOK
<1>2. \A id \in OfVault(v)' : Naming(audit'[id], status) \in Nat
  BY <1>1, NamingAppend
<1>3. \A id \in OfVault(v)' :
        Weight(id, "decision")' * Naming(audit'[id], status) = Naming(audit'[id], status)
  BY <1>2 DEF Weight
<1> QED
  BY <1>3 DEF Counted, Tally, Weighed, Times, Naming

\* A decision is added to the sum of its vault and status, and to no other.
LEMMA TallyGrows ==
  ASSUME TypeInv, RowsFinite, NEW id, NEW from, NEW to, RowDecided(id, from, to),
         NEW v, NEW status, NEW unit \in {"amount", "decision"}
  PROVE  Tally(v, status, unit)' =
           IF v = VaultOf(id) /\ status = to
           THEN Tally(v, status, unit) + Weight(id, unit)
           ELSE Tally(v, status, unit)
<1> DEFINE f == Weighed(v, status, unit)
           g == Weighed(v, status, unit)'
           row == [from |-> from, to |-> to]
<1>1. /\ id \in Recorded /\ id \in Ids /\ Recorded' = Recorded
      /\ \A i \in Recorded : payout'[i].body = payout[i].body
  BY DEF RowDecided, Recorded
<1>2. OfVault(v)' = OfVault(v)
  BY <1>1 DEF OfVault, VaultOf
<1>3. \A i \in OfVault(v) : i \in Recorded /\ i \in Ids /\ (VaultOf(i) = v)
  BY DEF OfVault, Recorded
<1>4. \A i \in OfVault(v) : f[i] = Weight(i, unit) * Naming(audit[i], status)
  BY DEF Weighed
<1>5. \A i \in OfVault(v) : g[i] = Weight(i, unit) * Naming(audit'[i], status)
  BY <1>1, <1>2, <1>3 DEF Weighed, Weight, AmountOf
<1>6. DOMAIN f = OfVault(v) /\ DOMAIN g = OfVault(v)
  BY <1>2 DEF Weighed
<1>7. audit[id] \in Seq(AuditEntry) /\ Weight(id, unit) \in Int
  BY <1>1, StoredBody DEF TypeInv, TypeOK, Weight
<1>8. audit'[id] = Append(audit[id], row) /\ \A i \in Ids : i # id => audit'[i] = audit[i]
  BY <1>1 DEF RowDecided, TypeInv, TypeOK
<1>9. row.to = to
  OBVIOUS
<1> HIDE DEF row
<1>10. /\ Naming(audit[id], status) \in Nat
       /\ Naming(audit'[id], status) =
            IF to = status THEN Naming(audit[id], status) + 1 ELSE Naming(audit[id], status)
  BY <1>7, <1>8, <1>9, NamingAppend
<1>11. Summable(f)
  BY WeighedSummable
<1>15. Tally(v, status, unit) = SumFunction(f) /\ Tally(v, status, unit)' = SumFunction(g)
  BY DEF Tally
<1>12. \A i \in OfVault(v) : i # id => g[i] = f[i]
  BY <1>3, <1>4, <1>5, <1>8
<1>13. CASE v = VaultOf(id) /\ status = to
  <2>1. id \in OfVault(v)
    BY <1>1, <1>13 DEF OfVault
  <2>2. f[id] = Weight(id, unit) * Naming(audit[id], status)
    BY <1>4, <2>1
  <2>3. g[id] = Weight(id, unit) * (Naming(audit[id], status) + 1)
    BY <1>5, <1>10, <1>13, <2>1
  <2>4. f[id] \in Int /\ g[id] \in Int /\ g[id] = f[id] + Weight(id, unit)
    BY <1>7, <1>10, <2>2, <2>3
  <2> HIDE DEF f, g
  <2>5. SumFunction(f) \in Int /\ SumFunction(g) = SumFunction(f) - f[id] + g[id]
    BY <1>6, <1>11, <1>12, <2>1, <2>4, TableUpdate
  <2> QED
    BY <1>7, <1>15, <1>13, <2>4, <2>5
<1>14. CASE ~(v = VaultOf(id) /\ status = to)
  <2>1. \A i \in OfVault(v) : g[i] = f[i]
    BY <1>3, <1>4, <1>5, <1>10, <1>12, <1>14
  <2>2. g = f
    BY <1>2, <2>1 DEF Weighed
  <2> QED
    BY <1>15, <1>14, <2>2
<1> QED
  BY <1>13, <1>14

\* A payout that is inserted has been decided zero times.
LEMMA TallyInsert ==
  ASSUME TypeInv, RowsFinite, FreshUnaudited, NEW id, RowInserted(id), NEW v,
         NEW status, status # "Pending", NEW unit \in {"amount", "decision"}
  PROVE  Tally(v, status, unit)' = Tally(v, status, unit)
<1> DEFINE f == Weighed(v, status, unit)
           g == Weighed(v, status, unit)'
           row == [from |-> "None", to |-> "Pending"]
<1>1. /\ id \in Ids \ Recorded
      /\ Recorded' = Recorded \cup {id}
      /\ payout'[id] \in PayoutRow
      /\ \A i \in Recorded : payout'[i] = payout[i]
      /\ audit' = [audit EXCEPT ![id] = Append(@, row)]
  BY DEF RowInserted
<1>2. row.to # status
  OBVIOUS
<1> HIDE DEF row
<1>3. Summable(f)
  BY WeighedSummable
<1>11. Tally(v, status, unit) = SumFunction(f) /\ Tally(v, status, unit)' = SumFunction(g)
  BY DEF Tally
<1>4. audit'[id] = Append(<< >>, row) /\ \A i \in Recorded : audit'[i] = audit[i]
  BY <1>1 DEF FreshUnaudited, TypeInv, TypeOK, Recorded
<1>5. Naming(audit'[id], status) = 0
  <2>1. PICK none \in Seq(AuditEntry) : none = << >>
    BY <1>1 DEF FreshUnaudited, TypeInv, TypeOK
  <2>2. Naming(Append(none, row), status) = Naming(none, status)
    BY <1>2, NamingAppend
  <2>3. Naming(none, status) = 0
    BY <2>1, NamingNone
  <2> QED
    BY <1>4, <2>1, <2>2, <2>3
<1>6. payout'[id].body.amount \in Int
  BY <1>1, PayoutsAssumption DEF PayoutRow
<1>12. Weight(id, unit)' \in Int
  BY <1>6 DEF Weight, AmountOf
<1>7. OfVault(v) \subseteq Recorded /\ DOMAIN f = OfVault(v) /\ DOMAIN g = OfVault(v)'
  BY DEF OfVault, Weighed
<1>8. \A i \in OfVault(v) : i \in OfVault(v)' /\ g[i] = f[i]
  BY <1>1, <1>4, <1>7 DEF Weighed, Weight, OfVault, VaultOf, AmountOf
<1>9. CASE payout'[id].body.vault = v
  <2>1. OfVault(v)' = OfVault(v) \cup {id} /\ id \notin OfVault(v)
    BY <1>1, <1>9 DEF OfVault, VaultOf
  <2>2. g[id] = Weight(id, unit)' * Naming(audit'[id], status)
    BY <2>1 DEF Weighed
  <2>3. g[id] = 0
    BY <1>5, <1>12, <2>2
  <2> HIDE DEF f, g
  <2>4. SumFunction(f) \in Int /\ SumFunction(g) = SumFunction(f) + g[id]
    BY <1>3, <1>7, <1>8, <2>1, <2>3, TableInsert
  <2> QED
    BY <1>11, <2>3, <2>4
<1>10. CASE payout'[id].body.vault # v
  <2>1. OfVault(v)' = OfVault(v)
    BY <1>1, <1>10 DEF OfVault, VaultOf
  <2>2. g = f
    BY <1>7, <1>8, <2>1 DEF Weighed
  <2> QED
    BY <1>11, <2>2
<1> QED
  BY <1>9, <1>10

LEMMA DecidedGrows ==
  ASSUME TypeInv, RowsFinite, NEW id, NEW from, NEW to, RowDecided(id, from, to),
         NEW v, NEW status
  PROVE  Decided(v, status)' =
           IF v = VaultOf(id) /\ status = to THEN Decided(v, status) + AmountOf(id)
           ELSE Decided(v, status)
<1>1. Weight(id, "amount") = AmountOf(id)
  BY DEF Weight
<1>2. Tally(v, status, "amount")' =
        IF v = VaultOf(id) /\ status = to THEN Tally(v, status, "amount") + Weight(id, "amount")
        ELSE Tally(v, status, "amount")
  BY TallyGrows
<1>3. Decided(v, status) = Tally(v, status, "amount")
  BY DecidedIs
<1>4. Decided(v, status)' = Tally(v, status, "amount")'
  BY DecidedNextIs
<1> QED
  BY <1>1, <1>2, <1>3, <1>4

LEMMA DecidedInsert ==
  ASSUME TypeInv, RowsFinite, FreshUnaudited, NEW id, RowInserted(id), NEW v,
         NEW status, status # "Pending"
  PROVE  Decided(v, status)' = Decided(v, status)
BY TallyInsert, DecidedIs, DecidedNextIs

LEMMA CountedGrows ==
  ASSUME TypeInv, TypeInv', RowsFinite, NEW id, NEW from, NEW to, RowDecided(id, from, to),
         NEW v, NEW status
  PROVE  /\ Counted(v, status) \in Int
         /\ Counted(v, status)' =
              IF v = VaultOf(id) /\ status = to THEN Counted(v, status) + 1
              ELSE Counted(v, status)
<1>1. Weight(id, "decision") = 1
  BY DEF Weight
<1>2. Tally(v, status, "decision")' =
        IF v = VaultOf(id) /\ status = to
        THEN Tally(v, status, "decision") + Weight(id, "decision")
        ELSE Tally(v, status, "decision")
  BY TallyGrows
<1>3. Tally(v, status, "decision") \in Int
  BY WeighedSummable
<1>4. Counted(v, status) = Tally(v, status, "decision")
  BY CountedIs
<1>5. Counted(v, status)' = Tally(v, status, "decision")'
  BY CountedNextIs
<1> QED
  BY <1>1, <1>2, <1>3, <1>4, <1>5

LEMMA CountedInsert ==
  ASSUME TypeInv, TypeInv', RowsFinite, FreshUnaudited, NEW id, RowInserted(id), NEW v,
         NEW status, status # "Pending"
  PROVE  Counted(v, status)' = Counted(v, status)
BY TallyInsert, CountedIs, CountedNextIs

LEMMA CountedType ==
  ASSUME TypeInv, RowsFinite, NEW v, NEW status
  PROVE  Counted(v, status) \in Int
BY CountedIs, WeighedSummable

\* The numbers of a vault the money invariant is about, before and after a decision.
LEMMA VaultNumbers ==
  ASSUME TypeInv, NEW v \in Vaults
  PROVE  /\ vault[v] \in VaultRow
         /\ vault[v].locked \in Int /\ vault[v].locked >= 0
         /\ vault[v].disbursed \in Int
BY MaxMinorAssumption DEF TypeInv, TypeOK, VaultRow, Minor

LEMMA MoneyStep ==
  ASSUME TypeInv, RowsFinite, FreshUnaudited, MoneyFollowsDecisions, [Next]_vars
  PROVE  MoneyFollowsDecisions'
<1> SUFFICES ASSUME NEW v \in Vaults
             PROVE  /\ vault'[v].disbursed = Decided(v, "Completed")'
                    /\ vault'[v].locked + vault'[v].disbursed <= Decided(v, "Approved")'
                    /\ vault'[v].locked + vault'[v].disbursed
                         >= Decided(v, "Approved")' - Decided(v, "Failed")'
  BY DEF MoneyFollowsDecisions
<1>1. /\ Decided(v, "Completed") \in Int
      /\ Decided(v, "Approved") \in Int
      /\ Decided(v, "Failed") \in Int
  BY DecidedSummable
<1>2. /\ vault[v].disbursed = Decided(v, "Completed")
      /\ vault[v].locked + vault[v].disbursed <= Decided(v, "Approved")
      /\ vault[v].locked + vault[v].disbursed >= Decided(v, "Approved") - Decided(v, "Failed")
  BY DEF MoneyFollowsDecisions
<1>3. CASE RowsSame
  <2>1. \A status : Decided(v, status)' = Decided(v, status)
    BY <1>3 DEF RowsSame, Decided, OfVault, Recorded, VaultOf, AmountOf, Times
  <2> QED
    BY <1>2, <1>3, <2>1 DEF RowsSame
<1>4. ASSUME NEW id \in Ids, RowInserted(id)
      PROVE  /\ vault'[v] = vault[v]
             /\ Decided(v, "Completed")' = Decided(v, "Completed")
             /\ Decided(v, "Approved")' = Decided(v, "Approved")
             /\ Decided(v, "Failed")' = Decided(v, "Failed")
  BY <1>4, DecidedInsert DEF RowInserted
<1>5. ASSUME NEW r \in Requests, DecisionEffect(r)
      PROVE  /\ vault'[v].disbursed = Decided(v, "Completed")'
             /\ vault'[v].locked + vault'[v].disbursed <= Decided(v, "Approved")'
             /\ vault'[v].locked + vault'[v].disbursed
                  >= Decided(v, "Approved")' - Decided(v, "Failed")'
  <2>1. PICK id, from, to, amount :
          /\ id = req[r].id /\ from = req[r].from /\ to = req[r].to
          /\ amount = AmountOf(id)
    OBVIOUS
  <2>2. RowDecided(id, from, to) /\ id \in Recorded
    BY <1>5, <2>1 DEF DecisionEffect, RowDecided
  <2>3. amount \in Int /\ amount > 0
    BY <2>1, <2>2, StoredBody, MaxMinorAssumption
  <2>4. \A status : Decided(v, status)' =
           IF v = VaultOf(id) /\ status = to THEN Decided(v, status) + amount
           ELSE Decided(v, status)
    BY <2>1, <2>2, DecidedGrows
  <2>5. vault[v].locked \in Int /\ vault[v].disbursed \in Int
    BY VaultNumbers
  <2>6. /\ \A w \in Vaults : w # VaultOf(id) => vault'[w] = vault[w]
    BY <1>5, <2>1 DEF DecisionEffect, Reserved, Paid, Released, NothingToRelease, BalancesWritten
  <2>7. CASE v # VaultOf(id)
    BY <1>2, <2>4, <2>6, <2>7
  <2>8. CASE v = VaultOf(id)
    <3>1. \/ /\ to = "Approved"
             /\ vault'[v].locked = vault[v].locked + amount
             /\ vault'[v].disbursed = vault[v].disbursed
          \/ /\ to = "Completed"
             /\ vault'[v].locked = vault[v].locked - amount
             /\ vault'[v].disbursed = vault[v].disbursed + amount
          \/ /\ to = "Failed"
             /\ vault'[v].locked = vault[v].locked - amount
             /\ vault'[v].disbursed = vault[v].disbursed
          \/ /\ to = "Failed"
             /\ vault'[v] = vault[v]
          \/ /\ to \in {"UnderReview", "Rejected", "Processing"}
             /\ vault'[v] = vault[v]
      BY <1>5, <2>1, <2>8
         DEF DecisionEffect, Reserved, Paid, Released, NothingToRelease, BalancesWritten,
             WithLockedAndDisbursed
    <3> QED
      BY <1>1, <1>2, <2>3, <2>4, <2>5, <2>8, <3>1
  <2> QED
    BY <2>7, <2>8
<1> QED
  BY <1>2, <1>3, <1>4, <1>5, StepEffect

LEMMA TracesStep ==
  ASSUME TypeInv, RowsFinite, FreshUnaudited, [Next]_vars
  PROVE  RowsFinite' /\ FreshUnaudited'
<1>1. CASE RowsSame
  BY <1>1 DEF RowsSame, RowsFinite, FreshUnaudited, Recorded
<1>2. ASSUME NEW id \in Ids, RowInserted(id)
      PROVE  RowsFinite' /\ FreshUnaudited'
  <2>1. RowsFinite'
    BY <1>2, FS_AddElement DEF RowInserted, RowsFinite
  <2>2. \A i \in Ids : i # id => audit'[i] = audit[i]
    BY <1>2 DEF RowInserted, TypeInv, TypeOK
  <2> QED
    BY <1>2, <2>1, <2>2 DEF RowInserted, FreshUnaudited
<1>3. ASSUME NEW r \in Requests, DecisionEffect(r)
      PROVE  RowsFinite' /\ FreshUnaudited'
  <2>1. req[r].id \in Recorded /\ Recorded' = Recorded
    BY <1>3 DEF DecisionEffect, RowDecided
  <2>2. \A i \in Ids : i # req[r].id => audit'[i] = audit[i]
    BY <1>3 DEF DecisionEffect, RowDecided, TypeInv, TypeOK
  <2> QED
    BY <2>1, <2>2 DEF RowsFinite, FreshUnaudited
<1> QED
  BY <1>1, <1>2, <1>3, StepEffect

MoneyInv == RowsFinite /\ FreshUnaudited /\ MoneyFollowsDecisions

LEMMA NoRowsNoSums ==
  ASSUME Recorded = {}, NEW v
  PROVE  \A f : DOMAIN f \subseteq OfVault(v) => SumFunction(f) = 0
<1>1. OfVault(v) = {}
  BY DEF OfVault
<1> QED
  BY <1>1, TableEmpty

LEMMA MoneyInit == Init => MoneyInv
<1> SUFFICES ASSUME Init PROVE MoneyInv
  OBVIOUS
<1>1. Recorded = {}
  BY DEF Init, Recorded
<1>2. \A v, status : Decided(v, status) = 0
  BY <1>1, NoRowsNoSums DEF Decided
<1>3. \A v \in Vaults : vault[v].locked = 0 /\ vault[v].disbursed = 0
  BY DEF Init, FundedVault, NewVault, WithContributed
<1>4. MoneyFollowsDecisions
  BY <1>2, <1>3 DEF MoneyFollowsDecisions
<1> QED
  BY <1>1, <1>4, FS_EmptySet DEF Init, MoneyInv, RowsFinite, FreshUnaudited

LEMMA MoneyInvariant == Spec => []MoneyInv
<1>1. TypeInv /\ MoneyInv /\ [Next]_vars => MoneyInv'
  BY MoneyStep, TracesStep DEF MoneyInv
<1> QED
  BY <1>1, MoneyInit, TypeInvariant, PTL DEF Spec

\* Whatever decisions race, every minor unit paid was paid by an audited completion,
\* every unit reserved or paid was approved by an audited decision, and what was
\* approved is still reserved or paid unless a decision failed: transition_with_audit
\* writes the balances and the audit row together.
THEOREM MoneyIsDecided == Spec => []MoneyFollowsDecisions
<1>1. MoneyInv => MoneyFollowsDecisions
  BY DEF MoneyInv
<1> QED
  BY <1>1, MoneyInvariant, PTL

-----------------------------------------------------------------------------
(* Balances and statuses, when at most one task reviews a payout.          *)

Within(v, statuses) == {i \in OfVault(v) : payout[i].status \in statuses}

AmountsWithin(v, statuses) == [id \in Within(v, statuses) |-> AmountOf(id)]

LEMMA SumOfIs ==
  \A v, statuses : SumOf(v, statuses) = SumFunction(AmountsWithin(v, statuses))
BY DEF SumOf, AmountsWithin, Within

LEMMA SumOfNextIs ==
  \A v, statuses : SumOf(v, statuses)' = SumFunction(AmountsWithin(v, statuses)')
BY DEF SumOf, AmountsWithin, Within

LEMMA WithinSummable ==
  ASSUME TypeInv, RowsFinite, NEW v, NEW statuses
  PROVE  /\ Summable(AmountsWithin(v, statuses))
         /\ SumOf(v, statuses) \in Nat
<1>1. IsFiniteSet(Within(v, statuses))
  <2>1. Within(v, statuses) \subseteq Recorded
    BY DEF Within, OfVault
  <2> QED
    BY <2>1, FS_Subset DEF RowsFinite
<1>2. \A id \in Within(v, statuses) : AmountOf(id) \in Nat
  BY StoredBody, MaxMinorAssumption DEF Within, OfVault
<1>3. Summable(AmountsWithin(v, statuses))
  BY <1>1, <1>2 DEF AmountsWithin, Summable, Integral
<1>4. SumFunction(AmountsWithin(v, statuses)) \in Nat
  <2> DEFINE f == AmountsWithin(v, statuses)
  <2>1. IsFiniteSet(DOMAIN f) /\ \A x \in DOMAIN f : f[x] \in Nat
    BY <1>1, <1>2 DEF AmountsWithin
  <2> HIDE DEF f
  <2>2. SumFunction(f) \in Nat
    BY <2>1, TableNonNegative
  <2> QED
    BY <2>2 DEF f
<1> QED
  BY <1>3, <1>4, SumOfIs

\* A decision does not touch the sums of other vaults.
LEMMA SumsElsewhere ==
  ASSUME TypeInv, NEW id, NEW from, NEW to, RowDecided(id, from, to),
         NEW v, v # VaultOf(id), NEW statuses
  PROVE  SumOf(v, statuses)' = SumOf(v, statuses)
<1>1. /\ id \in Recorded /\ Recorded' = Recorded
      /\ \A i \in Recorded : payout'[i].body = payout[i].body
      /\ \A i \in Recorded : i # id => payout'[i] = payout[i]
  BY DEF RowDecided
<1>2. Within(v, statuses)' = Within(v, statuses)
  BY <1>1 DEF Within, OfVault, VaultOf
<1>3. \A i \in Within(v, statuses) : i \in Recorded
  BY DEF Within, OfVault
<1>4. AmountsWithin(v, statuses)' = AmountsWithin(v, statuses)
  BY <1>1, <1>2, <1>3 DEF AmountsWithin, AmountOf
<1> QED
  BY <1>4, SumOfIs, SumOfNextIs

\* A payout that is in a sum is covered by it, and leaves it or joins it whole.
LEMMA SumOfMoves ==
  ASSUME TypeInv, RowsFinite, NEW id, NEW from, NEW to, RowDecided(id, from, to),
         payout[id].status = from, NEW v, NEW statuses
  PROVE  /\ v = VaultOf(id) /\ from \in statuses /\ to \in statuses
              => SumOf(v, statuses)' = SumOf(v, statuses)
         /\ v = VaultOf(id) /\ from \notin statuses /\ to \notin statuses
              => SumOf(v, statuses)' = SumOf(v, statuses)
         /\ v = VaultOf(id) /\ from \notin statuses /\ to \in statuses
              => SumOf(v, statuses)' = SumOf(v, statuses) + AmountOf(id)
         /\ v = VaultOf(id) /\ from \in statuses /\ to \notin statuses
              => SumOf(v, statuses) = SumOf(v, statuses)' + AmountOf(id)
<1> DEFINE f == AmountsWithin(v, statuses)
           g == AmountsWithin(v, statuses)'
           S == Within(v, statuses)
           T == Within(v, statuses)'
<1>1. /\ id \in Recorded /\ Recorded' = Recorded
      /\ payout'[id].status = to
      /\ \A i \in Recorded : payout'[i].body = payout[i].body
      /\ \A i \in Recorded : i # id => payout'[i] = payout[i]
  BY DEF RowDecided
<1>2. Summable(f) /\ SumOf(v, statuses) = SumFunction(f) /\ SumOf(v, statuses)' = SumFunction(g)
  BY WithinSummable, SumOfIs, SumOfNextIs
<1>3. DOMAIN f = S /\ DOMAIN g = T
  BY DEF AmountsWithin
<1>4. /\ \A i \in S : i \in Recorded /\ f[i] = AmountOf(i)
      /\ \A i \in T : i \in Recorded /\ g[i] = AmountOf(i)
  BY <1>1 DEF AmountsWithin, AmountOf, Within, OfVault
<1>5. \A i \in Recorded : i # id => (i \in T <=> i \in S)
  BY <1>1 DEF Within, OfVault, VaultOf
<1>6. /\ id \in S <=> (v = VaultOf(id) /\ from \in statuses)
      /\ id \in T <=> (v = VaultOf(id) /\ to \in statuses)
  BY <1>1 DEF Within, OfVault, VaultOf
<1>7. \A i \in S \cap T : g[i] = f[i]
  BY <1>4
<1>8. AmountOf(id) \in Int
  BY <1>1, StoredBody
<1>9. f = [i \in S |-> AmountOf(i)] /\ g = [i \in T |-> AmountOf(i)]
  BY <1>1, <1>4 DEF AmountsWithin, AmountOf
<1>10. ASSUME T = S
       PROVE  SumFunction(g) = SumFunction(f)
  BY <1>9, <1>10
<1>11. ASSUME id \notin S, T = S \cup {id}
       PROVE  SumFunction(g) = SumFunction(f) + AmountOf(id)
  <2>1. g[id] = AmountOf(id) /\ \A i \in S : g[i] = f[i]
    BY <1>4, <1>7, <1>11
  <2> HIDE DEF f, g, S, T
  <2> QED
    BY <1>2, <1>3, <1>8, <1>11, <2>1, TableInsert
<1>12. ASSUME id \in S, T = S \ {id}
       PROVE  SumFunction(f) = SumFunction(g) + AmountOf(id)
  <2>1. f[id] = AmountOf(id) /\ \A i \in T : g[i] = f[i]
    BY <1>4, <1>7, <1>12
  <2> HIDE DEF f, g, S, T
  <2>2. SumFunction(f) \in Int /\ SumFunction(g) \in Int /\ SumFunction(g) = SumFunction(f) - f[id]
    BY <1>2, <1>3, <1>12, <2>1, TableDelete
  <2> QED
    BY <1>8, <2>1, <2>2
<1>13. S \subseteq Recorded /\ T \subseteq Recorded
  BY <1>4
<1> HIDE DEF f, g, S, T
<1>14. /\ (id \in S <=> id \in T) => T = S
       /\ id \notin S /\ id \in T => T = S \cup {id}
       /\ id \in S /\ id \notin T => T = S \ {id}
  BY <1>5, <1>13
<1> QED
  BY <1>2, <1>6, <1>10, <1>11, <1>12, <1>14

\* What remains of a sum after a decision is not negative.
LEMMA TakenSum ==
  ASSUME TypeInv, RowsFinite, NEW id, NEW from, NEW to, RowDecided(id, from, to),
         NEW v, NEW statuses
  PROVE  SumOf(v, statuses)' \in Nat
<1> DEFINE g == AmountsWithin(v, statuses)'
           T == Within(v, statuses)'
<1>1. T \subseteq Recorded
  BY DEF RowDecided, Within, OfVault
<1>2. IsFiniteSet(T)
  BY <1>1, FS_Subset DEF RowsFinite
<1>3. DOMAIN g = T /\ \A i \in T : g[i] = AmountOf(i)
  BY <1>1 DEF RowDecided, AmountsWithin, AmountOf
<1>4. \A i \in T : g[i] \in Nat
  BY <1>1, <1>3, StoredBody, MaxMinorAssumption
<1> HIDE DEF g, T
<1>5. SumFunction(g) \in Nat
  BY <1>2, <1>3, <1>4, TableNonNegative
<1> QED
  BY <1>5, SumOfNextIs DEF g

LEMMA SumOfInsert ==
  ASSUME TypeInv, NEW id, RowInserted(id), NEW v, NEW statuses, "Pending" \notin statuses
  PROVE  SumOf(v, statuses)' = SumOf(v, statuses)
<1>1. /\ id \notin Recorded /\ Recorded' = Recorded \cup {id}
      /\ payout'[id].status = "Pending"
      /\ \A i \in Recorded : payout'[i] = payout[i]
  BY DEF RowInserted
<1>2. Within(v, statuses)' = Within(v, statuses)
  BY <1>1 DEF Within, OfVault, VaultOf
<1>3. \A i \in Within(v, statuses) : payout'[i] = payout[i]
  BY <1>1 DEF Within, OfVault
<1>4. AmountsWithin(v, statuses)' = AmountsWithin(v, statuses)
  BY <1>2, <1>3 DEF AmountsWithin, AmountOf
<1> QED
  BY <1>4, SumOfIs, SumOfNextIs

Held == {"Approved", "Processing"}

Spent == {"Completed"}

BalancesMatch(v) ==
  vault[v].locked = SumOf(v, Held) /\ vault[v].disbursed = SumOf(v, Spent)

LEMMA BalancesMatchAll == BalancesMatchStatuses <=> \A v \in Vaults : BalancesMatch(v)
BY DEF BalancesMatchStatuses, BalancesMatch, Held, Spent

LEMMA BalancesStep ==
  ASSUME ReviewedInv, RowsFinite, \A v \in Vaults : BalancesMatch(v), [Next]_vars,
         NEW v \in Vaults
  PROVE  /\ vault'[v].locked = SumOf(v, Held)'
         /\ vault'[v].disbursed = SumOf(v, Spent)'
<1>1. TypeInv /\ ReadsStillHold
  BY DEF ReviewedInv
<1>2. vault[v].locked = SumOf(v, Held) /\ vault[v].disbursed = SumOf(v, Spent)
  BY DEF BalancesMatch
<1>3. CASE RowsSame
  <2>1. \A statuses : SumOf(v, statuses)' = SumOf(v, statuses)
    BY <1>3 DEF RowsSame, SumOf, OfVault, Recorded, VaultOf, AmountOf
  <2> QED
    BY <1>2, <1>3, <2>1 DEF RowsSame
<1>4. ASSUME NEW id \in Ids, RowInserted(id)
      PROVE  /\ vault'[v] = vault[v]
             /\ SumOf(v, Held)' = SumOf(v, Held)
             /\ SumOf(v, Spent)' = SumOf(v, Spent)
  <2>1. "Pending" \notin Held /\ "Pending" \notin Spent
    BY DEF Held, Spent
  <2> QED
    BY <1>1, <1>4, <2>1, SumOfInsert DEF RowInserted
<1>5. ASSUME NEW r \in Requests, DecisionEffect(r)
      PROVE  vault'[v].locked = SumOf(v, Held)' /\ vault'[v].disbursed = SumOf(v, Spent)'
  <2>1. PICK id, from, to, amount :
          /\ id = req[r].id /\ from = req[r].from /\ to = req[r].to
          /\ amount = AmountOf(id)
    OBVIOUS
  <2>2. RowDecided(id, from, to) /\ id \in Recorded
    BY <1>5, <2>1 DEF DecisionEffect, RowDecided
  <2>3. payout[id].status = from /\ <<from, to>> \in LegalMoves
    BY <1>1, <1>5, <2>1 DEF DecisionEffect, ReadsStillHold
  <2>4. amount \in Int /\ amount > 0
    BY <1>1, <2>1, <2>2, StoredBody, MaxMinorAssumption
  <2>5. /\ vault[v].locked \in Int /\ vault[v].disbursed \in Int
        /\ SumOf(v, Held) \in Int /\ SumOf(v, Spent) \in Int
    BY <1>1, VaultNumbers, WithinSummable
  <2>6. v # VaultOf(id) => vault'[v] = vault[v]
    BY <1>5, <2>1 DEF DecisionEffect, Reserved, Paid, Released, NothingToRelease, BalancesWritten
  <2>7. CASE v # VaultOf(id)
    <3>1. \A statuses : SumOf(v, statuses)' = SumOf(v, statuses)
      BY <1>1, <2>2, <2>7, SumsElsewhere
    <3> QED
      BY <1>2, <2>6, <2>7, <3>1
  <2>8. CASE v = VaultOf(id)
    <3>1. \A statuses :
            /\ (from \in statuses <=> to \in statuses)
                 => SumOf(v, statuses)' = SumOf(v, statuses)
            /\ from \notin statuses /\ to \in statuses
                 => SumOf(v, statuses)' = SumOf(v, statuses) + amount
            /\ from \in statuses /\ to \notin statuses
                 => SumOf(v, statuses) = SumOf(v, statuses)' + amount
      BY <1>1, <2>1, <2>2, <2>3, <2>8, SumOfMoves
    <3>2. CASE to = "Approved" /\ Reserved(id)
      <4>1. /\ from \notin Held /\ to \in Held /\ from \notin Spent /\ to \notin Spent
            /\ vault'[v].locked = vault[v].locked + amount
            /\ vault'[v].disbursed = vault[v].disbursed
        BY <2>1, <2>3, <2>8, <3>2
           DEF LegalMoves, Held, Spent, Reserved, BalancesWritten, WithLockedAndDisbursed
      <4> QED
        BY <1>2, <3>1, <4>1
    <3>3. CASE to = "Completed" /\ Paid(id)
      <4>1. /\ from \in Held /\ to \notin Held /\ from \notin Spent /\ to \in Spent
            /\ vault'[v].locked = vault[v].locked - amount
            /\ vault'[v].disbursed = vault[v].disbursed + amount
        BY <2>1, <2>3, <2>8, <3>3
           DEF LegalMoves, Held, Spent, Paid, BalancesWritten, WithLockedAndDisbursed
      <4>2. SumOf(v, Held) = SumOf(v, Held)' + amount
        BY <3>1, <4>1
      <4>3. SumOf(v, Held)' \in Int
        BY <1>1, <2>2, <2>3, TakenSum
      <4> QED
        BY <1>2, <2>4, <3>1, <4>1, <4>2, <4>3
    <3>4. CASE to = "Failed" /\ (Released(id) \/ NothingToRelease(id))
      <4>1. from \in Held /\ to \notin Held /\ from \notin Spent /\ to \notin Spent
        BY <2>3, <3>4 DEF LegalMoves, Held, Spent
      <4>2. SumOf(v, Held) = SumOf(v, Held)' + amount /\ SumOf(v, Held)' \in Nat
        BY <1>1, <2>2, <2>3, <3>1, <4>1, TakenSum
      <4>3. vault[v].locked >= amount
        BY <1>2, <2>4, <4>2
      <4>4. /\ vault'[v].locked = vault[v].locked - amount
            /\ vault'[v].disbursed = vault[v].disbursed
        BY <2>1, <2>4, <2>5, <2>8, <3>4, <4>3
           DEF Released, NothingToRelease, BalancesWritten, WithLockedAndDisbursed
      <4> QED
        BY <1>2, <2>4, <3>1, <4>1, <4>2, <4>4
    <3>5. CASE to \in {"UnderReview", "Rejected", "Processing"} /\ UNCHANGED vault
      <4>1. (from \in Held <=> to \in Held) /\ (from \in Spent <=> to \in Spent)
        BY <2>3, <3>5 DEF LegalMoves, Held, Spent
      <4> QED
        BY <1>2, <3>1, <3>5, <4>1
    <3> QED
      BY <1>5, <2>1, <3>2, <3>3, <3>4, <3>5 DEF DecisionEffect
  <2> QED
    BY <2>7, <2>8
<1> QED
  BY <1>1, <1>2, <1>3, <1>4, <1>5, StepEffect

LEMMA ReviewedIsLegal == ReviewedSpec => Spec
<1>1. [ReviewedNext]_vars => [Next]_vars
  BY DEF ReviewedNext
<1> QED
  BY <1>1, PTL DEF ReviewedSpec, Spec

LEMMA BalancesInit == Init => BalancesMatchStatuses
<1> SUFFICES ASSUME Init, NEW v \in Vaults PROVE BalancesMatch(v)
  BY BalancesMatchAll
<1>1. Recorded = {}
  BY DEF Init, Recorded
<1>2. \A statuses : SumOf(v, statuses) = 0
  <2> TAKE statuses
  <2>1. {i \in OfVault(v) : payout[i].status \in statuses} \subseteq OfVault(v)
    OBVIOUS
  <2> QED
    BY <1>1, <2>1, NoRowsNoSums DEF SumOf
<1>3. vault[v].locked = 0 /\ vault[v].disbursed = 0
  BY DEF Init, FundedVault, NewVault, WithContributed
<1> QED
  BY <1>2, <1>3 DEF BalancesMatch

\* When at most one task reviews a payout at a time, a vault has reserved exactly what
\* its approved and processing payouts ask for and has paid exactly what its completed
\* ones asked for, whatever decisions on other payouts are committed in between.
THEOREM BalancesAreStatuses == ReviewedSpec => []BalancesMatchStatuses
<1>1. ReviewedInv /\ MoneyInv /\ BalancesMatchStatuses /\ [ReviewedNext]_vars
        => BalancesMatchStatuses'
  <2> SUFFICES ASSUME ReviewedInv, MoneyInv, BalancesMatchStatuses, [ReviewedNext]_vars,
                      NEW v \in Vaults
               PROVE  /\ vault'[v].locked = SumOf(v, Held)'
                      /\ vault'[v].disbursed = SumOf(v, Spent)'
    BY DEF BalancesMatchStatuses, Held, Spent
  <2> QED
    BY BalancesStep, BalancesMatchAll DEF ReviewedNext, MoneyInv
<1> QED
  BY <1>1, BalancesInit, ReviewedInvariant, MoneyInvariant, ReviewedIsLegal, PTL DEF ReviewedSpec

-----------------------------------------------------------------------------
(* Approvals that do not overlap.  The tests demand that a vault is never  *)
(* overdrawn; transition_with_audit does not check the funds, so that is   *)
(* true only of what was checked before.  What the one approver of a vault *)
(* has found sufficient stays sufficient until it commits, because no      *)
(* other transaction takes from what is available.                         *)

SerialInv ==
  /\ OneApproverPerVault
  /\ NeverOverdrawn
  /\ \A r \in Requests :
       Approves(r) => FundsSuffice(VaultOf(req[r].id), AmountOf(req[r].id))

\* Only a commit of an approval takes from what is available in a vault, and only what
\* its payout asks for.
LEMMA AvailableStep ==
  ASSUME TypeInv, [Next]_vars, NEW v \in Vaults
  PROVE  \/ Available(vault'[v]) >= Available(vault[v])
         \/ \E r \in Requests :
              /\ Approves(r) /\ VaultOf(req[r].id) = v
              /\ ~Approves(r)'
              /\ Available(vault'[v]) = Available(vault[v]) - AmountOf(req[r].id)
<1>1. /\ vault[v].contributed \in Int /\ vault[v].locked \in Int /\ vault[v].disbursed \in Int
      /\ vault[v] \in VaultRow
  BY MaxMinorAssumption DEF TypeInv, TypeOK, VaultRow, Minor
<1>2. vault'[v] = vault[v] => Available(vault'[v]) >= Available(vault[v])
  BY <1>1 DEF Available
<1>3. ASSUME NEW r \in Requests, DecisionEffect(r), vault'[v] # vault[v]
      PROVE  \/ Available(vault'[v]) >= Available(vault[v])
             \/ /\ Approves(r) /\ VaultOf(req[r].id) = v
                /\ ~Approves(r)'
                /\ Available(vault'[v]) = Available(vault[v]) - AmountOf(req[r].id)
  <2>1. PICK id, amount : id = req[r].id /\ amount = AmountOf(id)
    OBVIOUS
  <2>2. id \in Recorded /\ req[r].op = "decide"
    BY <1>3, <2>1 DEF DecisionEffect, RowDecided
  <2>3. amount \in Int /\ amount > 0
    BY <2>1, <2>2, StoredBody, MaxMinorAssumption
  <2>4. v = VaultOf(id)
    BY <1>3, <2>1
       DEF DecisionEffect, Reserved, Paid, Released, NothingToRelease, BalancesWritten
  <2>5. \/ /\ req[r].to = "Approved"
           /\ vault'[v] = WithLockedAndDisbursed(vault[v], vault[v].locked + amount,
                                                 vault[v].disbursed)
        \/ vault'[v] = WithLockedAndDisbursed(vault[v], vault[v].locked - amount,
                                              vault[v].disbursed + amount)
        \/ vault'[v] = WithLockedAndDisbursed(vault[v], vault[v].locked - amount,
                                              vault[v].disbursed)
    BY <1>3, <2>1, <2>4
       DEF DecisionEffect, Reserved, Paid, Released, NothingToRelease, BalancesWritten
  <2>6. ~Approves(r)'
    BY <1>3 DEF DecisionEffect, Approves, Idle, TypeInv, TypeOK
  <2> QED
    BY <1>1, <2>1, <2>2, <2>3, <2>4, <2>5, <2>6
       DEF Approves, Available, WithLockedAndDisbursed
<1> QED
  BY <1>2, <1>3, StepEffect DEF RowsSame, RowInserted

LEMMA SerialStep == TypeInv /\ SerialInv /\ [SerialNext]_vars => SerialInv'
<1> SUFFICES ASSUME TypeInv, SerialInv, [SerialNext]_vars
             PROVE  SerialInv'
  OBVIOUS
<1>1. [Next]_vars
  BY DEF SerialNext
<1>2. OneApproverPerVault'
  BY DEF SerialNext, SerialInv, OneApproverPerVault, Approving, VaultOf, vars
<1>3. TypeInv'
  BY <1>1, TypeStep
<1>4. ASSUME NEW v \in Vaults
      PROVE  /\ vault[v].contributed \in Int /\ vault[v].locked \in Int
             /\ vault[v].disbursed \in Int
  BY MaxMinorAssumption DEF TypeInv, TypeOK, VaultRow, Minor
<1>5. NeverOverdrawn'
  <2> SUFFICES ASSUME NEW v \in Vaults PROVE Available(vault'[v]) >= 0
    BY DEF NeverOverdrawn
  <2>1. Available(vault[v]) \in Int /\ Available(vault[v]) >= 0
    BY <1>4 DEF SerialInv, NeverOverdrawn, Available
  <2>2. Available(vault'[v]) \in Int
    BY <1>3, MaxMinorAssumption DEF TypeInv, TypeOK, VaultRow, Minor, Available
  <2>3. ASSUME NEW r \in Requests, Approves(r), VaultOf(req[r].id) = v
        PROVE  AmountOf(req[r].id) \in Int /\ Available(vault[v]) >= AmountOf(req[r].id)
    <3>1. req[r].id \in Recorded
      BY <2>3, TaskKind DEF Approves
    <3> QED
      BY <2>3, <3>1, StoredBody, MaxMinorAssumption DEF SerialInv, FundsSuffice
  <2> QED
    BY <1>1, <2>1, <2>2, <2>3, AvailableStep
<1>6. ASSUME NEW r \in Requests, Approves(r)'
      PROVE  FundsSuffice(VaultOf(req[r].id), AmountOf(req[r].id))'
  <2>1. CASE Approves(r) /\ req'[r] = req[r]
    <3> DEFINE id == req[r].id
               v == VaultOf(id)
    <3>1. id \in Recorded
      BY <2>1, TaskKind DEF Approves
    <3>2. v \in Vaults /\ AmountOf(id) \in Int
      BY <3>1, StoredBody, MaxMinorAssumption
    <3>3. payout'[req[r].id].body = payout[req[r].id].body
      BY <1>1, <3>1, StepEffect DEF RowsSame, RowInserted, DecisionEffect, RowDecided
    <3>4. Available(vault[v]) >= AmountOf(id)
      BY <2>1 DEF SerialInv, FundsSuffice
    <3>5. Available(vault'[v]) >= Available(vault[v])
      <4>1. ASSUME NEW s \in Requests, Approves(s), VaultOf(req[s].id) = v, ~Approves(s)'
            PROVE  FALSE
        <5>1. Approving(s, v) /\ Approving(r, v)
          BY <2>1, <4>1 DEF Approving, Approves
        <5>2. s = r
          BY <3>2, <5>1 DEF SerialInv, OneApproverPerVault
        <5> QED
          BY <1>6, <4>1, <5>2
      <4> QED
        BY <1>1, <3>2, <4>1, AvailableStep
    <3>6. Available(vault[v]) \in Int /\ Available(vault'[v]) \in Int
      BY <1>3, <1>4, <3>2, MaxMinorAssumption DEF TypeInv, TypeOK, VaultRow, Minor, Available
    <3> QED
      BY <2>1, <3>2, <3>3, <3>4, <3>5, <3>6 DEF FundsSuffice, VaultOf, AmountOf
  <2>2. CASE /\ RowsSame
             /\ FundsSuffice(VaultOf(req'[r].id), AmountOf(req'[r].id))
    BY <2>2 DEF RowsSame, FundsSuffice, VaultOf, AmountOf
  <2> QED
    BY <1>1, <1>6, <2>1, <2>2, ApprovalsStep
<1> QED
  BY <1>2, <1>5, <1>6 DEF SerialInv

\* While approvals of one vault do not overlap, a vault is never overdrawn: what is
\* reserved and paid stays within what it was funded with, whatever other decisions,
\* failures and lost tasks come in between (the check of the funds is made before the
\* transaction and not repeated in it).  Without the discipline this is false, as
\* approving two payouts at once shows.
THEOREM SerialApprovalsNeverOverdraw == SerialSpec => []NeverOverdrawn
<1>1. SerialSpec => Spec
  <2>1. [SerialNext]_vars => [Next]_vars
    BY DEF SerialNext
  <2> QED
    BY <2>1, PTL DEF SerialSpec, Spec
<1>2. Init => SerialInv
  <2> SUFFICES ASSUME Init PROVE SerialInv
    OBVIOUS
  <2>1. \A r \in Requests : req[r].op # "decide"
    BY DEF Init, Idle
  <2>2. \A v \in Vaults : Available(vault[v]) >= 0
    BY PayoutsAssumption, MaxMinorAssumption
       DEF Init, FundedVault, NewVault, WithContributed, Available, Minor
  <2> QED
    BY <2>1, <2>2 DEF SerialInv, OneApproverPerVault, Approving, Approves, NeverOverdrawn
<1>3. SerialInv => NeverOverdrawn
  BY DEF SerialInv
<1> QED
  BY <1>1, <1>2, <1>3, TypeInvariant, SerialStep, PTL DEF SerialSpec

-----------------------------------------------------------------------------
(* The book of payouts.  Every step that an observer of keys, statuses and *)
(* reserved and paid money can see is one step of PayoutBook: a payout     *)
(* read once and decided later is decided as if in one step, and a failure *)
(* finds its reservation.                                                  *)

\* What an observer sees of the rows under one key.
Public(rows, ids) ==
  IF ids = {} THEN NoRow
  ELSE LET id == CHOOSE i \in ids : TRUE
       IN [body |-> rows[id].body, status |-> rows[id].status]

LEMMA ShownIsPublic == \A k \in Keys : Shown(k) = Public(payout, WithKey(k))
BY DEF Shown, Public

LEMMA ShownNextIsPublic == \A k \in Keys : Shown(k)' = Public(payout', WithKey(k)')
BY DEF Shown, Public

LEMMA PublicOne ==
  \A rows, id : Public(rows, {id}) = [body |-> rows[id].body, status |-> rows[id].status]
BY DEF Public

LEMMA PublicSame ==
  ASSUME NEW rows, NEW new, NEW ids, \A i \in ids : new[i] = rows[i]
  PROVE  Public(new, ids) = Public(rows, ids)
<1>1. CASE ids = {}
  BY <1>1 DEF Public
<1>2. CASE ids # {}
  <2> DEFINE id == CHOOSE i \in ids : TRUE
  <2>1. id \in ids
    BY <1>2
  <2>2. new[id] = rows[id]
    BY <2>1
  <2> QED
    BY <1>2, <2>2 DEF Public
<1> QED
  BY <1>1, <1>2

\* Only the row under its key stands for a payout.
LEMMA OneUnderKey ==
  ASSUME KeysUnique, NEW id \in Recorded
  PROVE  WithKey(payout[id].key) = {id}
BY DEF KeysUnique, WithKey

\* The mapped variables.
Booked == [k \in Keys |-> Shown(k)]

HeldMoney == [v \in Vaults |-> vault[v].locked]

PaidMoney == [v \in Vaults |-> vault[v].disbursed]

LEMMA BookKeeps ==
  UNCHANGED <<vault, payout>> => UNCHANGED <<Booked, HeldMoney, PaidMoney>>
<1> SUFFICES ASSUME UNCHANGED <<vault, payout>>
             PROVE  UNCHANGED <<Booked, HeldMoney, PaidMoney>>
  OBVIOUS
<1>1. \A k \in Keys : WithKey(k)' = WithKey(k)
  BY DEF WithKey, Recorded
<1>2. \A k \in Keys : Shown(k)' = Shown(k)
  BY <1>1, ShownIsPublic, ShownNextIsPublic
<1>3. Booked' = Booked
  BY <1>2 DEF Booked
<1> QED
  BY <1>3 DEF HeldMoney, PaidMoney

LEMMA BookRequests ==
  ASSUME TypeInv, KeysUnique, NEW r \in Requests, NEW id \in Ids, InsertRequest(r, id)
  PROVE  \E k \in Keys, b \in Bodies : Book!Request(k, b)
<1>1. PICK k \in Keys, b \in Bodies : k = req[r].key /\ b = req[r].body /\ b.amount > 0
  BY TaskKind DEF InsertRequest, Creating
<1> DEFINE row == [body |-> b, key |-> k, status |-> "Pending"]
<1>2. WithKey(k) = {}
  BY <1>1 DEF InsertRequest
<1>3. /\ id \notin Recorded
      /\ Recorded' = Recorded \cup {id}
      /\ \A i \in Recorded : payout'[i] = payout[i]
      /\ UNCHANGED vault
  BY InsertEffect DEF RowInserted
<1>4. payout'[id] = row
  BY <1>1 DEF InsertRequest, TypeInv, TypeOK
<1>5. payout'[id].key = k /\ payout'[id].body = b /\ payout'[id].status = "Pending"
  BY <1>4
<1> HIDE DEF row
<1>6. WithKey(k)' = {id}
  BY <1>2, <1>3, <1>5 DEF WithKey
<1>7. \A j \in Keys : j # k => WithKey(j)' = WithKey(j)
  BY <1>3, <1>5 DEF WithKey
<1>8. Shown(k) = NoRow /\ Shown(k)' = [body |-> b, status |-> "Pending"]
  BY <1>1, <1>2, <1>5, <1>6, ShownIsPublic, ShownNextIsPublic, PublicOne DEF Public
<1>9. ASSUME NEW j \in Keys, j # k
      PROVE  Shown(j)' = Shown(j)
  <2>1. \A i \in WithKey(j) : payout'[i] = payout[i]
    BY <1>3 DEF WithKey
  <2> QED
    BY <1>7, <1>9, <2>1, ShownIsPublic, ShownNextIsPublic, PublicSame
<1>10. Booked' = [Booked EXCEPT ![k] = [body |-> b, status |-> "Pending"]]
  BY <1>1, <1>8, <1>9 DEF Booked
<1>11. Booked[k] = NoRow
  BY <1>1, <1>8 DEF Booked
<1>12. HeldMoney' = HeldMoney /\ PaidMoney' = PaidMoney
  BY <1>3 DEF HeldMoney, PaidMoney
<1>13. Book!Request(k, b)
  BY <1>1, <1>10, <1>11, <1>12 DEF Booked, HeldMoney, PaidMoney, Book!Request
<1> QED
  BY <1>13

\* A decision as the book sees it.
LEMMA BookMoves ==
  ASSUME ReviewedInv, KeysUnique, NEW r \in Requests, DecisionEffect(r)
  PROVE  \E k \in Keys :
           /\ Booked[k].body = payout[req[r].id].body
           /\ Booked[k].status = req[r].from
           /\ Booked[k] # NoRow
           /\ Booked' = [Booked EXCEPT ![k].status = req[r].to]
<1>1. TypeInv /\ ReadsStillHold
  BY DEF ReviewedInv
<1>2. PICK id, from, to : /\ id = req[r].id /\ from = req[r].from /\ to = req[r].to
                         /\ RowDecided(id, from, to)
  BY DEF DecisionEffect
<1>3. PICK k, b : k = payout[id].key /\ b = payout[id].body
  OBVIOUS
<1> DEFINE old == [body |-> b, status |-> from]
           new == [body |-> b, status |-> to]
<1>4. /\ id \in Recorded /\ Recorded' = Recorded
      /\ payout[id] \in PayoutRow
      /\ payout[id].status = from
      /\ payout'[id].status = to
      /\ payout'[id].body = b
      /\ \A i \in Recorded : payout'[i].key = payout[i].key
      /\ \A i \in Recorded : i # id => payout'[i] = payout[i]
  BY <1>1, <1>2, <1>3, StoredBody DEF RowDecided, DecisionEffect, ReadsStillHold
<1>5. k \in Keys /\ b \in Bodies /\ from \in Statuses
  BY <1>2, <1>4, <1>3 DEF PayoutRow, RowDecided
<1>6. WithKey(k) = {id}
  BY <1>4, <1>3, OneUnderKey
<1>7. \A j \in Keys : WithKey(j)' = WithKey(j)
  BY <1>4 DEF WithKey
<1>8. Shown(k) = old
  BY <1>4, <1>5, <1>6, <1>3, ShownIsPublic, PublicOne
<1>9. Shown(k)' = new
  BY <1>4, <1>5, <1>6, <1>7, ShownNextIsPublic, PublicOne
<1>10. ASSUME NEW j \in Keys, j # k
      PROVE  Shown(j)' = Shown(j)
  <2>1. \A i \in WithKey(j) : payout'[i] = payout[i]
    BY <1>3, <1>4, <1>10 DEF WithKey
  <2> QED
    BY <1>7, <1>10, <2>1, ShownIsPublic, ShownNextIsPublic, PublicSame
<1>11. new = [old EXCEPT !.status = to]
  OBVIOUS
<1>12. old # NoRow
  BY <1>5, PayoutsAssumption DEF Statuses
<1> HIDE DEF old, new
<1>13. Booked[k] = old
  BY <1>5, <1>8 DEF Booked
<1>14. Booked' = [Booked EXCEPT ![k].status = to]
  <2>1. Booked' = [Booked EXCEPT ![k] = new]
    BY <1>5, <1>9, <1>10 DEF Booked
  <2> QED
    BY <1>11, <1>13, <2>1
<1>15. old.body = b /\ old.status = from
  BY DEF old
<1> QED
  BY <1>2, <1>3, <1>5, <1>12, <1>13, <1>14, <1>15

\* Money moves in the book as it does in the vault rows: the vault of the payout holds
\* and pays this much more, within the columns' range, and the other vaults keep theirs.
LEMMA BookTransfers ==
  ASSUME TypeInv, TypeInv', NEW id \in Recorded, NEW toHeld \in Int, NEW toPaid \in Int,
         BalancesWritten(id, vault[VaultOf(id)].locked + toHeld,
                         vault[VaultOf(id)].disbursed + toPaid)
  PROVE  LET v == VaultOf(id)
         IN  /\ HeldMoney[v] + toHeld \in 0 .. MaxMinor
             /\ PaidMoney[v] + toPaid \in 0 .. MaxMinor
             /\ HeldMoney' = [HeldMoney EXCEPT ![v] = @ + toHeld]
             /\ PaidMoney' = [PaidMoney EXCEPT ![v] = @ + toPaid]
<1> DEFINE v == VaultOf(id)
<1>1. v \in Vaults
  BY StoredBody
<1>2. /\ vault'[v].locked = vault[v].locked + toHeld
      /\ vault'[v].disbursed = vault[v].disbursed + toPaid
      /\ \A w \in Vaults : w # v => vault'[w] = vault[w]
  BY DEF BalancesWritten, WithLockedAndDisbursed
<1>3. vault'[v].locked \in Minor /\ vault'[v].disbursed \in Minor
  BY <1>1 DEF TypeInv, TypeOK, VaultRow
<1>4. HeldMoney[v] = vault[v].locked /\ PaidMoney[v] = vault[v].disbursed
  BY <1>1 DEF HeldMoney, PaidMoney
<1>5. HeldMoney' = [HeldMoney EXCEPT ![v] = @ + toHeld]
  BY <1>1, <1>2 DEF HeldMoney
<1>6. PaidMoney' = [PaidMoney EXCEPT ![v] = @ + toPaid]
  BY <1>1, <1>2 DEF PaidMoney
<1> QED
  BY <1>2, <1>3, <1>4, <1>5, <1>6 DEF Minor

\* The branch of transition_with_audit that fails a payout without releasing anything is
\* never taken: a processing payout is part of what its vault has reserved.
LEMMA FailureReleases ==
  ASSUME ReviewedInv, RowsFinite, BalancesMatchStatuses, NEW r \in Requests,
         DecisionEffect(r), req[r].to = "Failed"
  PROVE  Released(req[r].id)
<1>1. TypeInv /\ ReadsStillHold
  BY DEF ReviewedInv
<1>2. PICK id, from, v : id = req[r].id /\ from = req[r].from /\ v = VaultOf(id)
  OBVIOUS
<1>3. RowDecided(id, from, "Failed") /\ id \in Recorded
  BY <1>2 DEF DecisionEffect, RowDecided
<1>4. payout[id].status = from /\ from \in Held /\ "Failed" \notin Held
  BY <1>1, <1>2 DEF DecisionEffect, ReadsStillHold, LegalMoves, Held
<1>5. SumOf(v, Held) = SumOf(v, Held)' + AmountOf(id) /\ SumOf(v, Held)' \in Nat
  BY <1>1, <1>2, <1>3, <1>4, SumOfMoves, TakenSum
<1>6. v \in Vaults /\ AmountOf(id) \in Int
  BY <1>1, <1>2, <1>3, StoredBody, MaxMinorAssumption
<1>7. vault[v].locked = SumOf(v, Held)
  BY <1>6, BalancesMatchAll DEF BalancesMatch
<1>8. ~NothingToRelease(id)
  BY <1>2, <1>5, <1>6, <1>7 DEF NothingToRelease
<1> QED
  BY <1>2, <1>8 DEF DecisionEffect

LEMMA BookInit == Init => Book!BookInit
<1> SUFFICES ASSUME Init PROVE Book!BookInit
  OBVIOUS
<1>1. \A k \in Keys : Shown(k) = NoRow
  BY DEF Init, Shown, WithKey, Recorded
<1>2. \A v \in Vaults : vault[v].locked = 0 /\ vault[v].disbursed = 0
  BY DEF Init, FundedVault, NewVault, WithContributed
<1> QED
  BY <1>1, <1>2 DEF Book!BookInit

LEMMA BookDecides ==
  ASSUME ReviewedInv, TypeInv', KeysUnique, RowsFinite, BalancesMatchStatuses,
         NEW r \in Requests, DecisionEffect(r)
  PROVE  Book!BookNext
<1>1. TypeInv /\ ReadsStillHold
  BY DEF ReviewedInv
<1>2. PICK id, from, to, v, amount :
        /\ id = req[r].id /\ from = req[r].from /\ to = req[r].to
        /\ v = VaultOf(id) /\ amount = AmountOf(id)
  OBVIOUS
<1>3. id \in Recorded /\ <<from, to>> \in LegalMoves
  BY <1>1, <1>2 DEF DecisionEffect, RowDecided, ReadsStillHold
<1>4. PICK debit \in Int : amount \in Int /\ debit = -amount
  BY <1>1, <1>2, <1>3, StoredBody, MaxMinorAssumption
<1>5. PICK k \in Keys :
        /\ Booked[k].body = payout[id].body
        /\ Booked[k].status = from
        /\ Booked[k] # NoRow
        /\ Booked' = [Booked EXCEPT ![k].status = to]
  BY <1>2, BookMoves
<1>6. Booked[k].body.vault = v /\ Booked[k].body.amount = amount
  BY <1>2, <1>5 DEF VaultOf, AmountOf
<1>7. -Booked[k].body.amount = debit
  BY <1>4, <1>6
<1>8. /\ vault[v].locked \in Int /\ vault[v].disbursed \in Int
      /\ vault[v].locked = vault[v].locked + 0
      /\ vault[v].disbursed = vault[v].disbursed + 0
      /\ vault[v].locked - amount = vault[v].locked + debit
  BY <1>1, <1>2, <1>3, <1>4, StoredBody, VaultNumbers
<1>9. Book!Move(k, from, to)
  BY <1>5 DEF Book!Move, Booked
<1>10. ASSUME NEW toHeld \in Int, NEW toPaid \in Int,
             BalancesWritten(id, vault[v].locked + toHeld, vault[v].disbursed + toPaid)
      PROVE  Book!Transfer(k, toHeld, toPaid)
  <2>1. /\ HeldMoney[v] + toHeld \in 0 .. MaxMinor
        /\ PaidMoney[v] + toPaid \in 0 .. MaxMinor
        /\ HeldMoney' = [HeldMoney EXCEPT ![v] = @ + toHeld]
        /\ PaidMoney' = [PaidMoney EXCEPT ![v] = @ + toPaid]
    BY <1>1, <1>2, <1>3, <1>10, BookTransfers
  <2> QED
    BY <1>6, <2>1 DEF Book!Transfer, Booked, HeldMoney, PaidMoney
<1>11. CASE to = "Approved" /\ Reserved(id)
  <2>1. from = "UnderReview"
    BY <1>3, <1>11 DEF LegalMoves
  <2>2. BalancesWritten(id, vault[v].locked + amount, vault[v].disbursed + 0)
    BY <1>2, <1>8, <1>11 DEF Reserved
  <2>3. Book!Transfer(k, amount, 0)
    BY <1>4, <1>10, <2>2
  <2>4. Book!Approve(k)
    BY <1>6, <1>9, <1>11, <2>1, <2>3 DEF Book!Approve, Booked
  <2> QED
    BY <2>4 DEF Book!BookNext
<1>12. CASE to = "Completed" /\ Paid(id)
  <2>1. from = "Processing"
    BY <1>3, <1>12 DEF LegalMoves
  <2>2. BalancesWritten(id, vault[v].locked + debit, vault[v].disbursed + amount)
    BY <1>2, <1>8, <1>12 DEF Paid
  <2>3. /\ HeldMoney[v] + debit \in 0 .. MaxMinor
        /\ PaidMoney[v] + amount \in 0 .. MaxMinor
        /\ HeldMoney' = [HeldMoney EXCEPT ![v] = @ + debit]
        /\ PaidMoney' = [PaidMoney EXCEPT ![v] = @ + amount]
    BY <1>1, <1>2, <1>3, <1>4, <2>2, BookTransfers
  <2>4. Book!Complete(k)
    BY <1>4, <1>5, <1>6, <1>12, <2>1, <2>3
       DEF Book!Complete, Book!Move, Book!Transfer, Booked, HeldMoney, PaidMoney
  <2> QED
    BY <2>4 DEF Book!BookNext
<1>13. CASE to = "Failed"
  <2>1. from = "Processing"
    BY <1>3, <1>13 DEF LegalMoves
  <2>2. BalancesWritten(id, vault[v].locked + debit, vault[v].disbursed + 0)
    BY <1>2, <1>8, <1>13, FailureReleases DEF Released
  <2>3. Book!Transfer(k, debit, 0)
    BY <1>10, <2>2
  <2>4. Book!Fail(k)
    BY <1>9, <1>13, <1>7, <2>1, <2>3 DEF Book!Fail, Booked
  <2> QED
    BY <2>4 DEF Book!BookNext
<1>14. CASE to \in {"UnderReview", "Rejected", "Processing"} /\ UNCHANGED vault
  <2>1. <<from, to>> \in {<<"Pending", "UnderReview">>, <<"Pending", "Rejected">>,
                          <<"UnderReview", "Rejected">>, <<"Approved", "Processing">>}
    BY <1>3, <1>14 DEF LegalMoves
  <2>2. HeldMoney' = HeldMoney /\ PaidMoney' = PaidMoney
    BY <1>14 DEF HeldMoney, PaidMoney
  <2>3. Book!Review(k)
    BY <1>9, <2>1, <2>2 DEF Book!Review, HeldMoney, PaidMoney
  <2> QED
    BY <2>3 DEF Book!BookNext
<1> QED
  BY <1>2, <1>11, <1>12, <1>13, <1>14 DEF DecisionEffect

LEMMA BookStep ==
  /\ ReviewedInv /\ KeysUnique /\ RowsFinite /\ BalancesMatchStatuses
  /\ [ReviewedNext]_vars
  => [Book!BookNext]_(Book!bookVars)
<1> SUFFICES ASSUME ReviewedInv, KeysUnique, RowsFinite, BalancesMatchStatuses, [Next]_vars
             PROVE  Book!BookNext \/ UNCHANGED <<Booked, HeldMoney, PaidMoney>>
  BY DEF ReviewedNext, Book!bookVars, Booked, HeldMoney, PaidMoney
<1>1. TypeInv /\ TypeInv'
  BY TypeStep DEF ReviewedInv
<1>2. ASSUME NEW r \in Requests, NEW id \in Ids, InsertRequest(r, id)
      PROVE  Book!BookNext
  BY <1>1, <1>2, BookRequests DEF Book!BookNext
<1>3. ASSUME NEW r \in Requests, DecisionEffect(r)
      PROVE  Book!BookNext
  BY <1>1, <1>3, BookDecides
<1>4. CASE RowsSame
  BY <1>4, BookKeeps DEF RowsSame
<1> QED
  BY <1>1, <1>2, <1>3, <1>4, StepKinds

\* To an observer of keys, statuses and reserved and paid money, tasks that review a
\* payout one at a time are indistinguishable from decisions made atomically along
\* validate_transition, each holding, paying or letting go the whole amount: although
\* transition_with_audit neither validates the transition again nor insists on a
\* reservation to release, no payout fails, completes or is rejected with money left over.
THEOREM BookImplemented == ReviewedSpec => ImplementsBook
<1>1. MoneyInv => RowsFinite
  BY DEF MoneyInv
<1> QED
  BY <1>1, BookInit, BookStep, ReviewedInvariant, KeysInvariant, MoneyInvariant,
     BalancesAreStatuses, ReviewedIsLegal, PTL
     DEF ReviewedSpec, ImplementsBook, Book!BookSpec
=============================================================================
