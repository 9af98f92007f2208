------------------------ MODULE ScholarshipPoolsProofs ------------------------
(***************************************************************************)
(* Theorems about ScholarshipPools, for every number of pools,             *)
(* applications, donations and concurrent tasks.                           *)
(*                                                                         *)
(* TypeInv and LastDecision hold whatever interleaves.  CarefulInv is what *)
(* the discipline buys: while tasks of one pool do not overlap, what a     *)
(* task validated when it read is still so when it commits.                *)
(* MoneyInv adds that the balance it read is still the pool's, from which  *)
(* the conservation of money follows.                                      *)
(***************************************************************************)
EXTENDS ScholarshipPools, FiniteSums

PoolRow == [available : Minor, restriction : {body.restriction : body \in PoolBodies}]

Move == [op : {"move"}, award : Nat, to : {"Disbursed", "Revoked"}]

Task == Decision \cup Move

State == {Idle} \cup Task \cup [op : {"write"}, task : Task, available : Minor]

Shape ==
  /\ pool \in [Pools -> PoolRow \cup {NoRow}]
  /\ donation \in [Keys -> DonationRow \cup {NoRow}]
  /\ application \in [Applications -> ApplicationRow \cup {NoRow}]
  /\ award \in Seq(AwardRow)
  /\ req \in [Requests -> State]
  /\ careful \in BOOLEAN

(* Rows refer to rows, and tasks to rows they may change.                  *)

RowsSound ==
  /\ \A a \in Applications : application[a] # NoRow => pool[application[a].pool] # NoRow
  /\ \A i \in 1 .. Len(award) : application[award[i].application] # NoRow

Sound(task) ==
  /\ task.op = "decide" => application[task.application] # NoRow
  /\ task.op = "move" =>
       task.award \in 1 .. Len(award) /\ award[task.award].status # "Rejected"

Busily(r) == req[r] # Idle

TasksSound == \A r \in Requests : Busily(r) => Sound(TaskOf(r))

TypeInv == Shape /\ RowsSound /\ TasksSound

\* StatusIsLastDecision, with the last award named.
LastDecision ==
  \A a \in Applications : application[a] # NoRow =>
    \/ AwardsOf(a) = {} /\ application[a].status = "Submitted"
    \/ /\ application[a].status \in {"Approved", "Rejected"}
       /\ \E i \in AwardsOf(a) :
            /\ \A j \in AwardsOf(a) : j <= i
            /\ application[a].status = "Rejected" <=> award[i].status = "Rejected"

(* What holds as long as the run is careful.                               *)

Alone ==
  \A r, s \in Requests :
    Busily(r) /\ Busily(s) /\ PoolOf(TaskOf(r)) = PoolOf(TaskOf(s)) => r = s

StillValid(task) ==
  /\ task.op = "decide" => AwardsOf(task.application) = {}
  /\ task.op = "move" => <<award[task.award].status, task.to>> \in AcceptedMoves

TasksValid == \A r \in Requests : Busily(r) => StillValid(TaskOf(r))

Once == \A a \in Applications : \A i, j \in AwardsOf(a) : i = j

CarefulInv == careful => Alone /\ TasksValid /\ Once

IInv == TypeInv /\ LastDecision /\ CarefulInv

-----------------------------------------------------------------------------
(* What a task is, and which pool it works on.                             *)

LEMMA TaskKind ==
  ASSUME NEW task \in Task
  PROVE  /\ task.op \in {"decide", "move"}
         /\ task.op = "decide" =>
              /\ task.application \in Applications
              /\ task.to \in {"Approved", "Rejected"}
              /\ task.amount \in Minor
         /\ task.op = "move" => task.award \in Nat /\ task.to \in {"Disbursed", "Revoked"}
BY DEF Task, Decision, Move

LEMMA StateKind ==
  ASSUME NEW state \in State, state # Idle
  PROVE  /\ state.op \in {"decide", "move", "write"}
         /\ state.op # "write" => state \in Task
         /\ state.op = "write" => state.task \in Task /\ state.available \in Minor
BY TaskKind DEF State, Idle

LEMMA Carried ==
  ASSUME TypeInv, NEW r \in Requests, Busily(r)
  PROVE  TaskOf(r) \in Task /\ Sound(TaskOf(r))
<1>1. req[r] \in State /\ req[r] # Idle
  BY DEF TypeInv, Shape, Busily
<1>2. TaskOf(r) \in Task
  BY <1>1, StateKind DEF TaskOf
<1> QED
  BY <1>2 DEF TypeInv, TasksSound

LEMMA AwardRows ==
  ASSUME Shape, NEW i \in 1 .. Len(award)
  PROVE  award[i] \in AwardRow /\ award[i].application \in Applications
<1>1. award[i] \in AwardRow
  BY DEF Shape
<1> QED
  BY <1>1 DEF AwardRow

LEMMA PoolOfTask ==
  ASSUME TypeInv, NEW task \in Task, Sound(task)
  PROVE  PoolOf(task) \in Pools /\ pool[PoolOf(task)] \in PoolRow
<1>1. \A a \in Applications : application[a] # NoRow =>
        application[a].pool \in Pools /\ pool[application[a].pool] \in PoolRow
  BY DEF TypeInv, Shape, RowsSound, ApplicationRow
<1>2. CASE task.op = "decide"
  BY <1>1, <1>2, TaskKind DEF PoolOf, Sound
<1>3. CASE task.op = "move"
  <2>1. task.award \in 1 .. Len(award)
    BY <1>3 DEF Sound
  <2>2. /\ award[task.award].application \in Applications
        /\ application[award[task.award].application] # NoRow
    BY <2>1, AwardRows DEF TypeInv, RowsSound
  <2> QED
    BY <1>1, <1>3, <2>2 DEF PoolOf
<1> QED
  BY <1>2, <1>3, TaskKind

-----------------------------------------------------------------------------
(* Types.                                                                  *)

\* No step takes a row away or turns an award into a rejection.
Keeps ==
  /\ \A a \in Applications : application[a] # NoRow =>
       application'[a] # NoRow /\ application'[a].pool = application[a].pool
  /\ Len(award) <= Len(award')
  /\ \A i \in 1 .. Len(award) :
       /\ award'[i].application = award[i].application
       /\ award[i].status # "Rejected" => award'[i].status # "Rejected"

LEMMA KeepsSound ==
  ASSUME TypeInv, award' \in Seq(AwardRow), Keeps, NEW task \in Task, Sound(task)
  PROVE  Sound(task)' /\ PoolOf(task)' = PoolOf(task)
<1>1. Len(award) \in Nat /\ Len(award') \in Nat
  BY DEF TypeInv, Shape
<1>2. CASE task.op = "decide"
  BY <1>2, TaskKind DEF Sound, Keeps, PoolOf
<1>3. CASE task.op = "move"
  <2>1. /\ task.award \in 1 .. Len(award) /\ award[task.award].status # "Rejected"
        /\ award[task.award].application \in Applications
        /\ application[award[task.award].application] # NoRow
    BY <1>3, AwardRows DEF Sound, TypeInv, RowsSound
  <2> QED
    BY <1>1, <1>3, <2>1 DEF Sound, Keeps, PoolOf
<1> QED
  BY <1>2, <1>3, TaskKind

InState(state) == IF state.op = "write" THEN state.task ELSE state

CarriesOn(r) ==
  \E state \in State :
    /\ req' = [req EXCEPT ![r] = state]
    /\ state # Idle => Sound(InState(state))'

LEMMA TasksStep ==
  ASSUME TypeInv, award' \in Seq(AwardRow), Keeps,
         req' = req \/ \E r \in Requests : CarriesOn(r)
  PROVE  req' \in [Requests -> State] /\ TasksSound'
<1>1. ASSUME NEW s \in Requests, req'[s] = req[s], Busily(s)'
      PROVE  Sound(TaskOf(s))'
  <2>1. Busily(s)
    BY <1>1 DEF Busily
  <2>2. PICK task \in Task : task = TaskOf(s) /\ Sound(task)
    BY <2>1, Carried
  <2>3. Sound(task)'
    BY <2>2, KeepsSound
  <2> QED
    BY <1>1, <2>2, <2>3 DEF TaskOf, Sound
<1>2. CASE req' = req
  BY <1>1, <1>2 DEF TypeInv, Shape, TasksSound
<1>3. ASSUME NEW r \in Requests, CarriesOn(r)
      PROVE  req' \in [Requests -> State] /\ TasksSound'
  <2>1. PICK state \in State :
          req' = [req EXCEPT ![r] = state] /\ (state # Idle => Sound(InState(state))')
    BY <1>3 DEF CarriesOn
  <2>2. req' \in [Requests -> State]
    BY <2>1 DEF TypeInv, Shape
  <2>3. ASSUME NEW s \in Requests, Busily(s)'
        PROVE  Sound(TaskOf(s))'
    <3>1. CASE s = r
      <4>1. req'[s] = state
        BY <2>1, <3>1 DEF TypeInv, Shape
      <4> QED
        BY <2>1, <2>3, <4>1 DEF Busily, TaskOf, InState, Sound
    <3>2. CASE s # r
      BY <1>1, <2>1, <2>3, <3>2 DEF TypeInv, Shape
    <3> QED
      BY <3>1, <3>2
  <2> QED
    BY <2>2, <2>3 DEF TasksSound
<1> QED
  BY <1>2, <1>3

LEMMA Numbers == MaxMinor \in Nat /\ Minor \subseteq Nat /\ Amounts \subseteq Int
BY ScholarshipPoolsAssumption DEF Minor

\* A new balance changes nothing else of a pool.
LEMMA BalanceStep ==
  ASSUME Shape, NEW p \in Pools, pool[p] \in PoolRow, NEW n \in Minor,
         pool' = [pool EXCEPT ![p].available = n]
  PROVE  /\ pool' \in [Pools -> PoolRow \cup {NoRow}]
         /\ \A q \in Pools : pool[q] # NoRow => pool'[q] # NoRow
<1>1. [pool[p] EXCEPT !.available = n] \in PoolRow
  BY DEF PoolRow
<1>2. pool' = [pool EXCEPT ![p] = [pool[p] EXCEPT !.available = n]]
  BY DEF Shape
<1>3. \A row \in PoolRow : row # NoRow
  BY RowsAssumption DEF PoolRow
<1> QED
  BY <1>1, <1>2, <1>3 DEF Shape

LEMMA DonorsAndFamiliesTypes ==
  ASSUME TypeInv, DonorsAndFamilies, careful' \in BOOLEAN
  PROVE  TypeInv' /\ Keeps
<1> USE Numbers
<1>1. ASSUME NEW p \in Pools, NEW body \in PoolBodies, CreatePool(p, body)
      PROVE  TypeInv' /\ Keeps
  <2> DEFINE row == [available |-> 0, restriction |-> body.restriction]
  <2>1. row \in PoolRow /\ row # NoRow
    BY RowsAssumption DEF PoolRow, Minor
  <2>2. /\ pool[p] = NoRow /\ pool' = [pool EXCEPT ![p] = row]
        /\ UNCHANGED <<donation, application, award, req>>
    BY <1>1 DEF CreatePool, InsertPool
  <2> HIDE DEF row
  <2>3. Keeps
    BY <2>2 DEF Keeps, TypeInv, Shape
  <2>4. req' \in [Requests -> State] /\ TasksSound'
    BY <2>2, <2>3, TasksStep DEF TypeInv, Shape
  <2>5. Shape'
    BY <1>1, <2>1, <2>2 DEF TypeInv, Shape
  <2>6. RowsSound'
    BY <2>1, <2>2 DEF TypeInv, Shape, RowsSound, ApplicationRow
  <2> QED
    BY <2>3, <2>4, <2>5, <2>6 DEF TypeInv
<1>2. ASSUME NEW p \in Pools, NEW k \in Keys, NEW amount \in Amounts, FundPool(p, k, amount)
      PROVE  TypeInv' /\ Keeps
  <2>1. pool[p] \in PoolRow
    BY <1>2 DEF FundPool, TypeInv, Shape
  <2>2. pool[p].available \in Minor
    BY <2>1 DEF PoolRow
  <2> DEFINE n == pool[p].available + amount
             row == [pool |-> p, amount |-> amount]
  <2>3. /\ n <= MaxMinor /\ amount > 0
        /\ pool' = [pool EXCEPT ![p].available = n]
        /\ donation' = [donation EXCEPT ![k] = row]
        /\ UNCHANGED <<application, award, req>>
    BY <1>2 DEF FundPool, Donate, Locked
  <2>4. n \in Minor /\ row \in DonationRow
    BY <2>2, <2>3 DEF Minor, DonationRow
  <2> HIDE DEF n, row
  <2>5. /\ pool' \in [Pools -> PoolRow \cup {NoRow}]
        /\ \A q \in Pools : pool[q] # NoRow => pool'[q] # NoRow
    BY <2>1, <2>3, <2>4, BalanceStep DEF TypeInv
  <2>6. Keeps
    BY <2>3 DEF Keeps, TypeInv, Shape
  <2>7. req' \in [Requests -> State] /\ TasksSound'
    BY <2>3, <2>6, TasksStep DEF TypeInv, Shape
  <2>8. Shape'
    BY <2>3, <2>4, <2>5 DEF TypeInv, Shape
  <2>9. RowsSound'
    BY <2>3, <2>5 DEF TypeInv, Shape, RowsSound, ApplicationRow
  <2> QED
    BY <2>6, <2>7, <2>8, <2>9 DEF TypeInv
<1>3. ASSUME NEW a \in Applications, NEW f \in Forms, Apply(a, f)
      PROVE  TypeInv' /\ Keeps
  <2> DEFINE row == [pool |-> f.pool, status |-> "Submitted"]
  <2>1. row \in ApplicationRow /\ row # NoRow /\ row.pool = f.pool
    BY ScholarshipPoolsAssumption, RowsAssumption DEF ApplicationRow
  <2>2. /\ application[a] = NoRow /\ pool[f.pool] # NoRow
        /\ application' = [application EXCEPT ![a] = row]
        /\ UNCHANGED <<pool, donation, award, req>>
    BY <1>3 DEF Apply, InsertApplication
  <2> HIDE DEF row
  <2>3. Keeps
    BY <2>2 DEF Keeps, TypeInv, Shape
  <2>4. req' \in [Requests -> State] /\ TasksSound'
    BY <2>2, <2>3, TasksStep DEF TypeInv, Shape
  <2>5. Shape'
    BY <2>1, <2>2 DEF TypeInv, Shape
  <2>6. RowsSound'
    <3>1. \A b \in Applications : application'[b] # NoRow => pool[application'[b].pool] # NoRow
      BY <2>1, <2>2 DEF TypeInv, Shape, RowsSound
    <3>2. \A i \in 1 .. Len(award) : application'[award[i].application] # NoRow
      BY <2>2, AwardRows DEF TypeInv, Shape, RowsSound
    <3> QED
      BY <2>2, <3>1, <3>2 DEF RowsSound
  <2> QED
    BY <2>3, <2>4, <2>5, <2>6 DEF TypeInv
<1> QED
  BY <1>1, <1>2, <1>3 DEF DonorsAndFamilies

\* The actions of a reviewer's task before its transaction.
Reading(r) ==
  \/ \E a \in Applications, amount \in Amounts : BeginApprove(r, a, amount) \/ BeginReject(r, a, amount)
  \/ \E i \in 1 .. Len(award) : BeginDisburse(r, i) \/ BeginRevoke(r, i)
  \/ ReadPool(r)
  \/ Lost(r)

\* A task that starts read a row it may change, in a status it may change.
Starts(r) ==
  \E task \in Task :
    /\ req[r] = Idle
    /\ req' = [req EXCEPT ![r] = task]
    /\ Sound(task)
    /\ task.op = "decide" => application[task.application].status = "Submitted"
    /\ task.op = "move" => <<award[task.award].status, task.to>> \in AcceptedMoves

\* A task that goes on keeps what it is about.
GoesOn(r) ==
  \/ req' = [req EXCEPT ![r] = Idle]
  \/ \E n \in Minor : /\ req[r] \in Task
                      /\ req' = [req EXCEPT ![r] = [op |-> "write", task |-> req[r], available |-> n]]

LEMMA ReadingCases ==
  ASSUME TypeInv, NEW r \in Requests, Reading(r)
  PROVE  /\ UNCHANGED <<pool, donation, application, award>>
         /\ Starts(r) \/ GoesOn(r)
<1> USE Numbers
<1>1. ASSUME NEW a \in Applications, NEW amount \in Amounts,
             BeginApprove(r, a, amount) \/ BeginReject(r, a, amount)
      PROVE  UNCHANGED <<pool, donation, application, award>> /\ Starts(r)
  <2>1. PICK to \in {"Approved", "Rejected"} :
          /\ req[r] = Idle /\ amount >= 0
          /\ application[a] # NoRow /\ application[a].status = "Submitted"
          /\ req' = [req EXCEPT ![r] =
               [op |-> "decide", application |-> a, to |-> to, amount |-> amount]]
    <3>1. amount \in Int
      OBVIOUS
    <3>2. application[a] # NoRow /\ Reviewable(application[a].status)
            => application[a].status = "Submitted"
      BY DEF Reviewable, ApplicationRow, TypeInv, Shape
    <3>3. CASE BeginApprove(r, a, amount)
      BY <3>1, <3>2, <3>3 DEF BeginApprove
    <3>4. CASE BeginReject(r, a, amount)
      BY <3>2, <3>4 DEF BeginReject
    <3> QED
      BY <1>1, <3>3, <3>4
  <2> DEFINE task == [op |-> "decide", application |-> a, to |-> to, amount |-> amount]
  <2>2. amount \in Minor
    <3>1. amount \in -1 .. MaxMinor
      BY ScholarshipPoolsAssumption
    <3> QED
      BY <2>1, <3>1 DEF Minor
  <2>3. task \in Task /\ Sound(task)
    BY <2>1, <2>2 DEF Task, Decision, Sound
  <2>4. UNCHANGED <<pool, donation, application, award>>
    BY <1>1 DEF BeginApprove, BeginReject
  <2> QED
    BY <2>1, <2>3, <2>4 DEF Starts
<1>2. ASSUME NEW i \in 1 .. Len(award), BeginDisburse(r, i) \/ BeginRevoke(r, i)
      PROVE  UNCHANGED <<pool, donation, application, award>> /\ Starts(r)
  <2>1. PICK to \in {"Disbursed", "Revoked"} : BeginMove(r, i, to)
    BY <1>2 DEF BeginDisburse, BeginRevoke
  <2> DEFINE task == [op |-> "move", award |-> i, to |-> to]
  <2>2. /\ req[r] = Idle /\ <<award[i].status, to>> \in AcceptedMoves
        /\ req' = [req EXCEPT ![r] = task]
        /\ UNCHANGED <<pool, donation, application, award>>
    BY <2>1 DEF BeginMove
  <2>3. award[i].status # "Rejected"
    BY <2>2 DEF AcceptedMoves, AwardMoves
  <2>4. task \in Task /\ Sound(task)
    BY <2>3 DEF Task, Move, Sound, TypeInv, Shape
  <2> QED
    BY <2>2, <2>4 DEF Starts
<1>3. CASE ReadPool(r)
  <2> DEFINE task == req[r]
             available == pool[PoolOf(task)].available
             n == NewBalance(task, available)
  <2>1. /\ task.op \in {"decide", "move"}
        /\ task.to = "Approved" => task.amount <= available
        /\ n <= MaxMinor
        /\ req' = [req EXCEPT ![r] = [op |-> "write", task |-> task, available |-> n]]
        /\ UNCHANGED <<pool, donation, application, award>>
    BY <1>3 DEF ReadPool
  <2>2. Busily(r) /\ TaskOf(r) = task
    BY <2>1 DEF Busily, TaskOf, Idle
  <2>3. task \in Task /\ Sound(task)
    BY <2>2, Carried
  <2>4. available \in Minor
    BY <2>3, PoolOfTask DEF PoolRow
  <2>5. n \in Minor
    <3>1. CASE task.to = "Approved"
      <4>1. task.amount \in Minor
        BY <2>3, <3>1, TaskKind
      <4> QED
        BY <2>1, <2>4, <3>1, <4>1 DEF NewBalance, Minor
    <3>2. CASE task.to = "Revoked"
      <4>1. task.award \in 1 .. Len(award)
        BY <2>3, <3>2, TaskKind DEF Sound
      <4>2. award[task.award].amount \in Minor
        BY <4>1, AwardRows DEF AwardRow, TypeInv
      <4> QED
        BY <2>1, <2>4, <3>2, <4>2 DEF NewBalance, Minor
    <3>3. CASE task.to \notin {"Approved", "Revoked"}
      BY <2>4, <3>3 DEF NewBalance
    <3> QED
      BY <3>1, <3>2, <3>3
  <2> QED
    BY <2>1, <2>3, <2>5 DEF GoesOn
<1>4. CASE Lost(r)
  BY <1>4 DEF Lost, GoesOn
<1> QED
  BY <1>1, <1>2, <1>3, <1>4 DEF Reading

LEMMA ReadingTypes ==
  ASSUME TypeInv, NEW r \in Requests, Reading(r), careful' \in BOOLEAN
  PROVE  TypeInv' /\ Keeps
<1>1. UNCHANGED <<pool, donation, application, award>>
  BY ReadingCases
<1>2. Keeps
  BY <1>1 DEF Keeps, TypeInv, Shape
<1>3. CarriesOn(r)
  <2>1. CASE Starts(r)
    <3>1. PICK task \in Task : req' = [req EXCEPT ![r] = task] /\ Sound(task)
      BY <2>1 DEF Starts
    <3>2. task \in State /\ InState(task) = task
      BY <3>1, TaskKind DEF State, InState
    <3>3. Sound(task)'
      BY <1>1, <3>1 DEF Sound
    <3> QED
      BY <3>1, <3>2, <3>3 DEF CarriesOn
  <2>2. CASE req' = [req EXCEPT ![r] = Idle]
    BY <2>2 DEF CarriesOn, State
  <2>3. ASSUME NEW n \in Minor, req[r] \in Task,
               req' = [req EXCEPT ![r] = [op |-> "write", task |-> req[r], available |-> n]]
        PROVE  CarriesOn(r)
    <3>1. PICK task \in Task : task = req[r]
      BY <2>3
    <3>2. Busily(r) /\ TaskOf(r) = task
      BY <3>1, TaskKind DEF Busily, TaskOf, Idle
    <3>3. Sound(task)'
      BY <1>1, <3>2, Carried DEF Sound
    <3> DEFINE state == [op |-> "write", task |-> task, available |-> n]
    <3>4. state \in State /\ InState(state) = task
      BY DEF State, InState
    <3> QED
      BY <2>3, <3>1, <3>3, <3>4 DEF CarriesOn, Sound
  <2> QED
    BY <2>1, <2>2, <2>3, ReadingCases DEF GoesOn
<1>4. req' \in [Requests -> State] /\ TasksSound'
  BY <1>1, <1>2, <1>3, TasksStep DEF TypeInv, Shape
<1>5. Shape' /\ RowsSound'
  BY <1>1, <1>4 DEF TypeInv, Shape, RowsSound
<1> QED
  BY <1>2, <1>4, <1>5 DEF TypeInv

\* What both transactions find in their task.
LEMMA Writing ==
  ASSUME TypeInv, NEW r \in Requests, req[r].op = "write"
  PROVE  /\ Busily(r) /\ TaskOf(r) = req[r].task
         /\ req[r].task \in Task /\ Sound(req[r].task)
         /\ req[r].available \in Minor
         /\ PoolOf(req[r].task) \in Pools /\ pool[PoolOf(req[r].task)] \in PoolRow
<1>1. Busily(r) /\ TaskOf(r) = req[r].task
  BY DEF Busily, TaskOf, Idle
<1>2. req[r].task \in Task /\ Sound(req[r].task)
  BY <1>1, Carried
<1>3. req[r].available \in Minor
  BY <1>1, StateKind DEF TypeInv, Shape, Busily
<1> QED
  BY <1>1, <1>2, <1>3, PoolOfTask

\* What a decision writes, with the new award at the end.
DecisionEffect(r, task) ==
  LET a == task.application IN
  /\ task.op = "decide" /\ Busily(r) /\ TaskOf(r) = task
  /\ a \in Applications /\ application[a] # NoRow
  /\ task.to \in {"Approved", "Rejected"}
  /\ application' \in [Applications -> ApplicationRow \cup {NoRow}]
  /\ application'[a] # NoRow
  /\ application'[a].status = task.to /\ application'[a].pool = application[a].pool
  /\ \A b \in Applications \ {a} : application'[b] = application[b]
  /\ award' \in Seq(AwardRow) /\ Len(award') = Len(award) + 1
  /\ \A i \in 1 .. Len(award) : award'[i] = award[i]
  /\ award'[Len(award) + 1].application = a /\ award'[Len(award) + 1].status = task.to

\* What a disbursement or revocation writes.
MoveEffect(r, task) ==
  LET i == task.award IN
  /\ task.op = "move" /\ Busily(r) /\ TaskOf(r) = task
  /\ i \in 1 .. Len(award) /\ award[i].status # "Rejected"
  /\ task.to \in {"Disbursed", "Revoked"}
  /\ application' = application
  /\ award' \in Seq(AwardRow) /\ Len(award') = Len(award)
  /\ award'[i].status = task.to /\ award'[i].application = award[i].application
  /\ \A j \in (1 .. Len(award)) \ {i} : award'[j] = award[j]

\* What both write.
CommitEffect(r) ==
  /\ pool' \in [Pools -> PoolRow \cup {NoRow}]
  /\ \A q \in Pools : pool[q] # NoRow => pool'[q] # NoRow
  /\ req' = [req EXCEPT ![r] = Idle]
  /\ donation' = donation

LEMMA DecisionWrites ==
  ASSUME TypeInv, NEW r \in Requests, CommitDecision(r)
  PROVE  CommitEffect(r) /\ \E task \in Task : DecisionEffect(r, task)
<1>1. PICK task \in Task : task = req[r].task /\ Sound(task) /\ Busily(r) /\ TaskOf(r) = task
  BY Writing DEF CommitDecision
<1> DEFINE a == task.application
           row == [application |-> a, amount |-> task.amount, status |-> task.to]
<1>2. /\ req[r].op = "write" /\ task.op = "decide"
      /\ application' = [application EXCEPT ![a].status = task.to]
      /\ award' = Append(award, row)
      /\ pool' = [pool EXCEPT ![PoolOf(task)].available = req[r].available]
      /\ req' = [req EXCEPT ![r] = Idle]
      /\ donation' = donation
  BY <1>1 DEF CommitDecision, StorePool
<1>3. /\ a \in Applications /\ application[a] # NoRow
      /\ task.to \in {"Approved", "Rejected"} /\ task.amount \in Minor
  BY <1>1, <1>2, TaskKind DEF Sound
<1>4. CommitEffect(r)
  BY <1>1, <1>2, Writing, BalanceStep DEF TypeInv, CommitEffect
<1>5. /\ row \in AwardRow /\ row.application = a /\ row.status = task.to
  BY <1>3 DEF AwardRow
<1>6. /\ award' \in Seq(AwardRow) /\ Len(award') = Len(award) + 1
      /\ \A i \in 1 .. Len(award) : award'[i] = award[i]
      /\ award'[Len(award) + 1] = row
  <2> HIDE DEF row
  <2> QED
    BY <1>2, <1>5 DEF TypeInv, Shape
<1>7. /\ application' \in [Applications -> ApplicationRow \cup {NoRow}]
      /\ application'[a] # NoRow
      /\ application'[a].status = task.to /\ application'[a].pool = application[a].pool
      /\ \A b \in Applications \ {a} : application'[b] = application[b]
  <2> DEFINE new == [application[a] EXCEPT !.status = task.to]
  <2>1. application[a] \in ApplicationRow
    BY <1>3 DEF TypeInv, Shape
  <2>2. /\ new \in ApplicationRow /\ new # NoRow
        /\ new.status = task.to /\ new.pool = application[a].pool
    BY <1>3, <2>1, RowsAssumption DEF ApplicationRow
  <2>3. application' = [application EXCEPT ![a] = new]
    BY <1>2, <1>3 DEF TypeInv, Shape
  <2> HIDE DEF new
  <2> QED
    BY <1>3, <2>2, <2>3 DEF TypeInv, Shape
<1>8. DecisionEffect(r, task)
  <2> HIDE DEF row
  <2> QED
    BY <1>1, <1>2, <1>3, <1>5, <1>6, <1>7 DEF DecisionEffect
<1> QED
  BY <1>4, <1>8

LEMMA MoveWrites ==
  ASSUME TypeInv, NEW r \in Requests, CommitMove(r)
  PROVE  CommitEffect(r) /\ \E task \in Task : MoveEffect(r, task)
<1>1. PICK task \in Task : task = req[r].task /\ Sound(task) /\ Busily(r) /\ TaskOf(r) = task
  BY Writing DEF CommitMove
<1> DEFINE i == task.award
           new == [award[i] EXCEPT !.status = task.to]
<1>2. /\ req[r].op = "write" /\ task.op = "move"
      /\ award' = [award EXCEPT ![i].status = task.to]
      /\ pool' = [pool EXCEPT ![PoolOf(task)].available = req[r].available]
      /\ req' = [req EXCEPT ![r] = Idle]
      /\ UNCHANGED <<donation, application>>
  BY <1>1 DEF CommitMove, StorePool
<1>3. /\ i \in 1 .. Len(award) /\ award[i].status # "Rejected"
      /\ task.to \in {"Disbursed", "Revoked"}
  BY <1>1, <1>2, TaskKind DEF Sound
<1>4. CommitEffect(r)
  BY <1>1, <1>2, Writing, BalanceStep DEF TypeInv, CommitEffect
<1>5. award[i] \in AwardRow
  BY <1>3, AwardRows DEF TypeInv
<1>6. /\ new \in AwardRow /\ new.status = task.to /\ new.application = award[i].application
  BY <1>3, <1>5 DEF AwardRow
<1>7. award' = [award EXCEPT ![i] = new]
  BY <1>2, <1>3 DEF TypeInv, Shape
<1>8. /\ award' \in Seq(AwardRow) /\ Len(award') = Len(award)
      /\ award'[i] = new
      /\ \A j \in (1 .. Len(award)) \ {i} : award'[j] = award[j]
  <2> HIDE DEF new, i
  <2> QED
    BY <1>3, <1>6, <1>7 DEF TypeInv, Shape
<1>9. MoveEffect(r, task)
  <2> HIDE DEF new
  <2> QED
    BY <1>1, <1>2, <1>3, <1>6, <1>8 DEF MoveEffect
<1> QED
  BY <1>4, <1>9

LEMMA CommitTypes ==
  ASSUME TypeInv, NEW r \in Requests, CommitDecision(r) \/ CommitMove(r), careful' \in BOOLEAN
  PROVE  TypeInv' /\ Keeps
<1>1. CommitEffect(r)
  BY DecisionWrites, MoveWrites
<1>2. Len(award) \in Nat
  BY DEF TypeInv, Shape
<1>3. \A a \in Applications : application[a] # NoRow =>
        application[a].pool \in Pools /\ pool[application[a].pool] # NoRow
  BY DEF TypeInv, Shape, RowsSound, ApplicationRow
<1>4. /\ Keeps /\ award' \in Seq(AwardRow)
      /\ application' \in [Applications -> ApplicationRow \cup {NoRow}]
      /\ RowsSound'
  <2>1. ASSUME NEW task \in Task, DecisionEffect(r, task)
        PROVE  /\ Keeps /\ award' \in Seq(AwardRow)
               /\ application' \in [Applications -> ApplicationRow \cup {NoRow}]
               /\ RowsSound'
    <3>1. Keeps
      BY <1>2, <2>1 DEF DecisionEffect, Keeps
    <3>2. \A b \in Applications : application'[b] # NoRow => pool'[application'[b].pool] # NoRow
      BY <1>1, <1>3, <2>1 DEF DecisionEffect, CommitEffect
    <3>3. ASSUME NEW i \in 1 .. Len(award')
          PROVE  application'[award'[i].application] # NoRow
      <4>1. CASE i = Len(award) + 1
        BY <2>1, <4>1 DEF DecisionEffect
      <4>2. CASE i \in 1 .. Len(award)
        <5>1. /\ award[i].application \in Applications
              /\ application[award[i].application] # NoRow
          BY <4>2, AwardRows DEF TypeInv, RowsSound
        <5> QED
          BY <2>1, <4>2, <5>1 DEF DecisionEffect
      <4> QED
        BY <1>2, <2>1, <4>1, <4>2 DEF DecisionEffect
    <3> QED
      BY <2>1, <3>1, <3>2, <3>3 DEF DecisionEffect, RowsSound
  <2>2. ASSUME NEW task \in Task, MoveEffect(r, task)
        PROVE  /\ Keeps /\ award' \in Seq(AwardRow)
               /\ application' \in [Applications -> ApplicationRow \cup {NoRow}]
               /\ RowsSound'
    <3>1. Keeps
      BY <1>2, <2>2 DEF MoveEffect, Keeps
    <3>2. RowsSound'
      BY <1>1, <1>3, <2>2 DEF MoveEffect, CommitEffect, RowsSound, TypeInv
    <3> QED
      BY <2>2, <3>1, <3>2 DEF MoveEffect, TypeInv, Shape
  <2> QED
    BY <2>1, <2>2, DecisionWrites, MoveWrites
<1>5. CarriesOn(r)
  BY <1>1 DEF CommitEffect, CarriesOn, State
<1>6. req' \in [Requests -> State] /\ TasksSound'
  BY <1>4, <1>5, TasksStep
<1>7. Shape'
  BY <1>1, <1>4, <1>6 DEF TypeInv, Shape, CommitEffect
<1> QED
  BY <1>4, <1>6, <1>7 DEF TypeInv

LEMMA TypeStep == TypeInv /\ [Next]_vars => TypeInv' /\ Keeps
<1> SUFFICES ASSUME TypeInv, [Next]_vars PROVE TypeInv' /\ Keeps
  OBVIOUS
<1>1. CASE UNCHANGED vars
  BY <1>1 DEF vars, TypeInv, Shape, RowsSound, TasksSound, Sound, Busily, TaskOf, Keeps
<1>2. CASE Next
  <2>1. careful' \in BOOLEAN
    BY <1>2, Zenon DEF Next
  <2>2. DonorsAndFamilies \/ \E r \in Requests : Reading(r) \/ CommitDecision(r) \/ CommitMove(r)
    BY <1>2 DEF Next, Step, Reviewers, Reading
  <2> QED
    BY <2>1, <2>2, DonorsAndFamiliesTypes, ReadingTypes, CommitTypes
<1> QED
  BY <1>1, <1>2

-----------------------------------------------------------------------------
(* The last award decides.                                                 *)

LEMMA DecidedByLast ==
  ASSUME TypeInv, LastDecision, NEW r \in Requests, NEW task \in Task, DecisionEffect(r, task)
  PROVE  LastDecision'
<1> DEFINE a == task.application
           n == Len(award) + 1
<1>1. Len(award) \in Nat
  BY DEF TypeInv, Shape
<1>2. AwardsOf(a)' = AwardsOf(a) \cup {n} /\ \A j \in AwardsOf(a)' : j <= n
  BY <1>1 DEF DecisionEffect, AwardsOf
<1>3. \A b \in Applications \ {a} : AwardsOf(b)' = AwardsOf(b)
  BY <1>1 DEF DecisionEffect, AwardsOf
<1>4. ASSUME NEW b \in Applications, application'[b] # NoRow, b # a
      PROVE  /\ application'[b] = application[b] /\ AwardsOf(b)' = AwardsOf(b)
             /\ \A i \in AwardsOf(b) : award'[i] = award[i]
  BY <1>3, <1>4 DEF DecisionEffect, AwardsOf
<1>5. /\ application'[a].status \in {"Approved", "Rejected"}
      /\ n \in AwardsOf(a)' /\ award'[n].status = application'[a].status
  BY <1>2 DEF DecisionEffect
<1> HIDE DEF n
<1> QED
  BY <1>2, <1>4, <1>5 DEF LastDecision

LEMMA MovesKeepDecisions ==
  ASSUME TypeInv, LastDecision, NEW r \in Requests, NEW task \in Task, MoveEffect(r, task)
  PROVE  LastDecision'
<1>1. \A a \in Applications : AwardsOf(a)' = AwardsOf(a)
  BY DEF MoveEffect, AwardsOf
<1>2. \A i \in 1 .. Len(award) : award'[i].status = "Rejected" <=> award[i].status = "Rejected"
  BY DEF MoveEffect
<1>3. application' = application
  BY DEF MoveEffect
<1>4. \A a \in Applications : AwardsOf(a) \subseteq 1 .. Len(award)
  BY DEF AwardsOf
<1> QED
  BY <1>1, <1>2, <1>3, <1>4 DEF LastDecision

LEMMA FamiliesKeepDecisions ==
  ASSUME TypeInv, LastDecision, DonorsAndFamilies
  PROVE  LastDecision'
<1>1. award' = award /\ \A a \in Applications : AwardsOf(a)' = AwardsOf(a)
  BY DEF DonorsAndFamilies, CreatePool, FundPool, Apply, AwardsOf
<1>2. CASE application' = application
  BY <1>1, <1>2 DEF LastDecision
<1>3. ASSUME NEW a \in Applications, NEW f \in Forms, Apply(a, f)
      PROVE  LastDecision'
  <2>1. AwardsOf(a) = {}
    BY <1>3 DEF Apply, InsertApplication, TypeInv, RowsSound, AwardsOf
  <2>2. /\ application'[a].status = "Submitted"
        /\ \A b \in Applications \ {a} : application'[b] = application[b]
    BY <1>3 DEF Apply, InsertApplication, TypeInv, Shape
  <2> QED
    BY <1>1, <2>1, <2>2 DEF LastDecision
<1> QED
  BY <1>2, <1>3 DEF DonorsAndFamilies, CreatePool, FundPool

LEMMA LastDecisionStep == TypeInv /\ LastDecision /\ [Next]_vars => LastDecision'
<1> SUFFICES ASSUME TypeInv, LastDecision, [Next]_vars PROVE LastDecision'
  OBVIOUS
<1>1. CASE UNCHANGED <<pool, donation, application, award>>
  BY <1>1 DEF LastDecision, AwardsOf
<1>2. CASE Next
  <2>1. DonorsAndFamilies \/ \E r \in Requests : Reading(r) \/ CommitDecision(r) \/ CommitMove(r)
    BY <1>2 DEF Next, Step, Reviewers, Reading
  <2>2. CASE DonorsAndFamilies
    BY <2>2, FamiliesKeepDecisions
  <2>3. ASSUME NEW r \in Requests, Reading(r)
        PROVE  LastDecision'
    BY <1>1, <2>3, ReadingCases
  <2>4. ASSUME NEW r \in Requests, CommitDecision(r) \/ CommitMove(r)
        PROVE  LastDecision'
    BY <2>4, DecisionWrites, MoveWrites, DecidedByLast, MovesKeepDecisions
  <2> QED
    BY <2>1, <2>2, <2>3, <2>4
<1> QED
  BY <1>1, <1>2 DEF vars

-----------------------------------------------------------------------------
(* The discipline.                                                         *)

LEMMA Pooled ==
  ASSUME TypeInv, NEW r \in Requests, Busily(r)
  PROVE  PoolOf(TaskOf(r)) \in Pools
BY Carried, PoolOfTask

LEMMA AtMostOneIsAlone ==
  TypeInv /\ (\A p \in Pools : Cardinality(Busy(p)) <= 1) => Alone
<1> SUFFICES ASSUME TypeInv, \A p \in Pools : Cardinality(Busy(p)) <= 1,
                    NEW r \in Requests, NEW s \in Requests, Busily(r), Busily(s),
                    PoolOf(TaskOf(r)) = PoolOf(TaskOf(s)), r # s
             PROVE  FALSE
  BY DEF Alone
<1> DEFINE p == PoolOf(TaskOf(r))
<1>1. p \in Pools
  BY Pooled
<1>2. {r, s} \subseteq Busy(p) /\ Busy(p) \subseteq Requests
  BY DEF Busy, Busily
<1>3. IsFiniteSet(Busy(p))
  BY <1>2, FS_Subset, RowsAssumption
<1>4. Cardinality({r, s}) = 2
  <2>1. IsFiniteSet({s}) /\ Cardinality({s}) = 1
    BY FS_Singleton
  <2>2. {r, s} = {s} \cup {r} /\ r \notin {s}
    OBVIOUS
  <2> QED
    BY <2>1, <2>2, FS_AddElement
<1>5. Cardinality({r, s}) <= Cardinality(Busy(p))
  BY <1>2, <1>3, FS_Subset
<1>6. Cardinality(Busy(p)) <= 1 /\ Cardinality(Busy(p)) \in Nat
  BY <1>1, <1>3, FS_CardinalityType
<1> HIDE DEF p
<1> QED
  BY <1>4, <1>5, <1>6

LEMMA CarefulStarts ==
  ASSUME TypeInv, LastDecision, TasksValid, Once, NEW r \in Requests,
         UNCHANGED <<application, award>>, Starts(r) \/ GoesOn(r)
  PROVE  TasksValid' /\ Once'
<1>1. Once'
  BY DEF Once, AwardsOf
<1>2. \A task : StillValid(task) => StillValid(task)'
  BY DEF StillValid, AwardsOf
<1>3. ASSUME NEW s \in Requests, Busily(s)'
      PROVE  StillValid(TaskOf(s))'
  <2>1. CASE s # r
    <3>1. req'[s] = req[s]
      BY <2>1 DEF Starts, GoesOn, TypeInv, Shape
    <3>2. StillValid(TaskOf(s))
      BY <1>3, <3>1 DEF Busily, TasksValid
    <3> QED
      BY <3>1, <3>2 DEF StillValid, AwardsOf, TaskOf
  <2>2. CASE s = r /\ Starts(r)
    <3>1. PICK task \in Task :
            /\ req' = [req EXCEPT ![r] = task] /\ Sound(task)
            /\ task.op = "decide" => application[task.application].status = "Submitted"
            /\ task.op = "move" => <<award[task.award].status, task.to>> \in AcceptedMoves
      BY <2>2 DEF Starts
    <3>2. task.op = "decide" => AwardsOf(task.application) = {}
      BY <3>1, TaskKind DEF LastDecision, Sound
    <3>3. StillValid(task)
      BY <3>1, <3>2 DEF StillValid
    <3>4. TaskOf(r)' = task
      BY <3>1, TaskKind DEF TaskOf, TypeInv, Shape
    <3> QED
      BY <2>2, <3>3, <3>4 DEF StillValid, AwardsOf
  <2>3. CASE s = r /\ GoesOn(r)
    <3>1. PICK n \in Minor : /\ req[r] \in Task
                            /\ req' = [req EXCEPT ![r] =
                                 [op |-> "write", task |-> req[r], available |-> n]]
      BY <1>3, <2>3 DEF GoesOn, Busily, TypeInv, Shape
    <3>2. Busily(r) /\ TaskOf(r) = req[r]
      BY <3>1, TaskKind DEF Busily, TaskOf, Idle
    <3>3. TaskOf(r)' = TaskOf(r)
      BY <3>1, <3>2 DEF TaskOf, TypeInv, Shape
    <3>4. StillValid(TaskOf(r))
      BY <3>2 DEF TasksValid
    <3> QED
      BY <2>3, <3>3, <3>4 DEF StillValid, AwardsOf
  <2> QED
    BY <2>1, <2>2, <2>3
<1> QED
  BY <1>1, <1>3 DEF TasksValid

\* The other tasks work on other pools, hence on other applications and awards.
LEMMA Others ==
  ASSUME TypeInv, Alone, TasksValid, NEW r \in Requests, CommitEffect(r),
         NEW task, Busily(r), TaskOf(r) = task,
         NEW s \in Requests, Busily(s)'
  PROVE  \E other \in Task :
           /\ TaskOf(s)' = other /\ Sound(other)
           /\ StillValid(other) /\ PoolOf(other) # PoolOf(task)
<1>1. s # r /\ req'[s] = req[s]
  BY DEF CommitEffect, Busily, TypeInv, Shape
<1>2. Busily(s) /\ TaskOf(s)' = TaskOf(s)
  BY <1>1 DEF Busily, TaskOf
<1>3. TaskOf(s) \in Task /\ Sound(TaskOf(s)) /\ StillValid(TaskOf(s))
  BY <1>2, Carried DEF TasksValid
<1>4. PoolOf(TaskOf(s)) # PoolOf(task)
  BY <1>1, <1>2 DEF Alone
<1> QED
  BY <1>2, <1>3, <1>4

LEMMA DecisionsStayCareful ==
  ASSUME TypeInv, Alone, TasksValid, Once, NEW r \in Requests, CommitEffect(r),
         NEW task \in Task, DecisionEffect(r, task)
  PROVE  TasksValid' /\ Once'
<1> DEFINE a == task.application
           n == Len(award) + 1
<1>1. Len(award) \in Nat
  BY DEF TypeInv, Shape
<1>2. /\ task.op = "decide" /\ Busily(r) /\ TaskOf(r) = task
      /\ AwardsOf(a) = {}
  BY DEF TasksValid, DecisionEffect, StillValid
<1>3. AwardsOf(a)' = {n} /\ \A b \in Applications \ {a} : AwardsOf(b)' = AwardsOf(b)
  BY <1>1, <1>2 DEF DecisionEffect, AwardsOf
<1>4. ASSUME NEW s \in Requests, Busily(s)'
      PROVE  StillValid(TaskOf(s))'
  <2>1. PICK other \in Task : /\ TaskOf(s)' = other /\ Sound(other)
                              /\ StillValid(other) /\ PoolOf(other) # PoolOf(task)
    BY <1>2, <1>4, Others
  <2>2. CASE other.op = "decide"
    <3>1. other.application # a /\ other.application \in Applications
      BY <1>2, <2>1, <2>2, TaskKind DEF PoolOf
    <3>2. AwardsOf(other.application)' = {}
      BY <1>3, <2>1, <2>2, <3>1 DEF StillValid
    <3> QED
      BY <2>1, <2>2, <3>2 DEF StillValid, AwardsOf
  <2>3. CASE other.op = "move"
    <3>1. award'[other.award] = award[other.award]
      BY <2>1, <2>3 DEF DecisionEffect, Sound
    <3> QED
      BY <2>1, <2>3, <3>1 DEF StillValid
  <2> QED
    BY <2>2, <2>3, TaskKind
<1>5. Once'
  BY <1>3 DEF Once
<1> QED
  BY <1>4, <1>5 DEF TasksValid

LEMMA MovesStayCareful ==
  ASSUME TypeInv, Alone, TasksValid, Once, NEW r \in Requests, CommitEffect(r),
         NEW task \in Task, MoveEffect(r, task)
  PROVE  TasksValid' /\ Once'
<1>1. task.op = "move" /\ Busily(r) /\ TaskOf(r) = task
  BY DEF MoveEffect
<1>2. \A b \in Applications : AwardsOf(b)' = AwardsOf(b)
  BY DEF MoveEffect, AwardsOf
<1>3. ASSUME NEW s \in Requests, Busily(s)'
      PROVE  StillValid(TaskOf(s))'
  <2>1. PICK other \in Task : /\ TaskOf(s)' = other /\ Sound(other)
                              /\ StillValid(other) /\ PoolOf(other) # PoolOf(task)
    BY <1>1, <1>3, Others
  <2>2. CASE other.op = "decide"
    <3>1. AwardsOf(other.application)' = {}
      BY <1>2, <2>1, <2>2, TaskKind DEF StillValid
    <3> QED
      BY <2>1, <2>2, <3>1 DEF StillValid, AwardsOf
  <2>3. CASE other.op = "move"
    <3>1. other.award # task.award
      BY <1>1, <2>1, <2>3 DEF PoolOf
    <3>2. award'[other.award] = award[other.award]
      BY <2>1, <2>3, <3>1 DEF MoveEffect, Sound
    <3> QED
      BY <2>1, <2>3, <3>2 DEF StillValid
  <2> QED
    BY <2>2, <2>3, TaskKind
<1>4. Once'
  BY <1>2 DEF Once
<1> QED
  BY <1>3, <1>4 DEF TasksValid

LEMMA CarefulFamilies ==
  ASSUME TypeInv, TasksValid, Once, UNCHANGED <<award, req>>
  PROVE  TasksValid' /\ Once'
BY DEF TasksValid, Once, StillValid, AwardsOf, Busily, TaskOf

LEMMA CarefulStep == TypeInv /\ LastDecision /\ CarefulInv /\ [Next]_vars => CarefulInv'
<1> SUFFICES ASSUME TypeInv, LastDecision, CarefulInv, [Next]_vars, careful'
             PROVE  Alone' /\ TasksValid' /\ Once'
  BY DEF CarefulInv
<1>1. CASE UNCHANGED vars
  BY <1>1 DEF vars, CarefulInv, Alone, TasksValid, Once, StillValid, AwardsOf, Busily,
     TaskOf, PoolOf
<1>2. CASE Next
  <2>1. careful /\ OneAtATime
    BY <1>2, Zenon DEF Next
  <2>2. Alone /\ TasksValid /\ Once
    BY <2>1 DEF CarefulInv
  <2>3. Alone'
    <3>1. TypeInv'
      BY TypeStep
    <3>2. (\A p \in Pools : Cardinality(Busy(p)) <= 1)'
      BY <2>1 DEF OneAtATime
    <3> QED
      BY <3>1, <3>2, AtMostOneIsAlone, PTL
  <2>4. DonorsAndFamilies \/ \E r \in Requests : Reading(r) \/ CommitDecision(r) \/ CommitMove(r)
    BY <1>2 DEF Next, Step, Reviewers, Reading
  <2>5. CASE DonorsAndFamilies
    <3>1. UNCHANGED <<award, req>>
      BY <2>5 DEF DonorsAndFamilies, CreatePool, FundPool, Apply
    <3> QED
      BY <2>2, <2>3, <3>1, CarefulFamilies
  <2>6. ASSUME NEW r \in Requests, Reading(r)
        PROVE  TasksValid' /\ Once'
    BY <2>2, <2>6, ReadingCases, CarefulStarts
  <2>7. ASSUME NEW r \in Requests, CommitDecision(r) \/ CommitMove(r)
        PROVE  TasksValid' /\ Once'
    BY <2>2, <2>7, DecisionWrites, MoveWrites, DecisionsStayCareful, MovesStayCareful
  <2> QED
    BY <2>3, <2>4, <2>5, <2>6, <2>7
<1> QED
  BY <1>1, <1>2

-----------------------------------------------------------------------------
(* The invariant.                                                          *)

LEMMA InitInv == Init => IInv
<1> SUFFICES ASSUME Init PROVE IInv
  OBVIOUS
<1>1. \A r \in Requests : ~Busily(r)
  BY DEF Init, Busily
<1>2. Shape
  BY DEF Init, Shape, State
<1>3. RowsSound /\ TasksSound
  BY <1>1 DEF Init, RowsSound, TasksSound
<1>4. LastDecision
  BY DEF Init, LastDecision
<1>5. Alone /\ TasksValid /\ Once
  BY <1>1 DEF Init, Alone, TasksValid, Once, AwardsOf
<1> QED
  BY <1>2, <1>3, <1>4, <1>5 DEF IInv, TypeInv, CarefulInv

LEMMA StepInv == IInv /\ [Next]_vars => IInv'
BY TypeStep, LastDecisionStep, CarefulStep DEF IInv

LEMMA Invariant == Spec => []IInv
BY InitInv, StepInv, PTL DEF Spec

-----------------------------------------------------------------------------
(* Theorems.                                                               *)

\* Every row and every task keeps its type: no transaction stores a balance
\* outside its column, and no task refers to a row that does not exist.
THEOREM TypeCorrect == Spec => []TypeOK
<1>1. IInv => TypeOK
  <2> SUFFICES ASSUME TypeInv PROVE TypeOK
    BY DEF IInv
  <2>1. ASSUME NEW p \in Pools
        PROVE  pool[p] = NoRow \/ pool[p].available \in Minor
    BY DEF TypeInv, Shape, PoolRow
  <2>2. ASSUME NEW task \in Task, Sound(task)
        PROVE  task \in Decision \cup Transition
    BY <2>2 DEF Task, Move, Decision, Transition, Sound
  <2>3. ASSUME NEW r \in Requests
        PROVE  req[r] \in {Idle} \cup Decision \cup Transition \cup Write
    <3>1. CASE req[r] = Idle
      BY <3>1
    <3>2. CASE req[r] # Idle /\ req[r].op # "write"
      <4>1. TaskOf(r) = req[r] /\ Busily(r)
        BY <3>2 DEF TaskOf, Busily
      <4>2. req[r] \in Task /\ Sound(req[r])
        BY <4>1, Carried
      <4> QED
        BY <2>2, <4>2
    <3>3. CASE req[r] # Idle /\ req[r].op = "write"
      <4>1. TaskOf(r) = req[r].task /\ Busily(r)
        BY <3>3 DEF TaskOf, Busily
      <4>2. req[r].task \in Decision \cup Transition
        BY <2>2, <4>1, Carried
      <4>3. req[r] \in [op : {"write"}, task : Task, available : Minor]
        BY <3>3, TaskKind DEF TypeInv, Shape, State
      <4> QED
        BY <4>2, <4>3 DEF Write
    <3> QED
      BY <3>1, <3>2, <3>3
  <2> QED
    BY <2>1, <2>3 DEF TypeInv, Shape, TypeOK
<1> QED
  BY <1>1, Invariant, PTL

LEMMA Largest ==
  ASSUME NEW S \in SUBSET Int, NEW m \in S, \A x \in S : x <= m
  PROVE  Max(S) = m
<1>1. m \in S /\ \A y \in S : m >= y
  OBVIOUS
<1>2. Max(S) \in S /\ \A y \in S : Max(S) >= y
  BY <1>1, Zenon DEF Max
<1>3. Max(S) \in Int /\ m \in Int /\ Max(S) >= m /\ m >= Max(S)
  BY <1>1, <1>2
<1> QED
  BY <1>3

\* The status of an application is what its last award row says, whichever
\* decisions raced: decide_application_with_audit commits both together.
THEOREM LastDecisionStands == Spec => []StatusIsLastDecision
<1>1. IInv => StatusIsLastDecision
  <2> SUFFICES ASSUME TypeInv, LastDecision,
                      NEW a \in Applications, application[a] # NoRow
               PROVE  IF AwardsOf(a) = {} THEN application[a].status = "Submitted"
                      ELSE application[a].status = "Rejected"
                             <=> award[Max(AwardsOf(a))].status = "Rejected"
    BY DEF IInv, StatusIsLastDecision
  <2>1. CASE AwardsOf(a) = {}
    BY <2>1 DEF LastDecision
  <2>2. CASE AwardsOf(a) # {}
    <3>1. PICK i \in AwardsOf(a) :
            /\ \A j \in AwardsOf(a) : j <= i
            /\ application[a].status = "Rejected" <=> award[i].status = "Rejected"
      BY <2>2 DEF LastDecision
    <3>2. AwardsOf(a) \in SUBSET Int
      BY DEF AwardsOf
    <3>3. Max(AwardsOf(a)) = i
      BY <3>1, <3>2, Largest
    <3> QED
      BY <2>2, <3>1, <3>3
  <2> QED
    BY <2>1, <2>2
<1> QED
  BY <1>1, Invariant, PTL

\* As long as tasks on one pool do not overlap, no application is decided twice.
THEOREM DecisionsAreFinal == Spec => []DecidedOnce
<1>1. IInv => DecidedOnce
  <2> SUFFICES ASSUME Once, NEW a \in Applications
               PROVE  Cardinality(AwardsOf(a)) <= 1
    BY DEF IInv, CarefulInv, DecidedOnce
  <2>1. CASE AwardsOf(a) = {}
    BY <2>1, FS_EmptySet
  <2>2. CASE AwardsOf(a) # {}
    <3>1. PICK i : AwardsOf(a) = {i}
      BY <2>2 DEF Once
    <3> QED
      BY <3>1, FS_Singleton
  <2> QED
    BY <2>1, <2>2
<1> QED
  BY <1>1, Invariant, PTL

LEMMA AwardMoveStep ==
  ASSUME IInv, [Next]_vars, careful', NEW i \in 1 .. Len(award),
         award'[i].status # award[i].status
  PROVE  <<award[i].status, award'[i].status>> \in AwardMoves
<1>1. Next
  BY DEF vars
<1>2. TasksValid /\ TypeInv
  <2>1. careful
    BY <1>1, Zenon DEF Next
  <2> QED
    BY <2>1 DEF IInv, CarefulInv
<1>3. DonorsAndFamilies \/ \E r \in Requests : Reading(r) \/ CommitDecision(r) \/ CommitMove(r)
  BY <1>1 DEF Next, Step, Reviewers, Reading
<1>4. award' # award
  OBVIOUS
<1>5. ~DonorsAndFamilies
  BY <1>4 DEF DonorsAndFamilies, CreatePool, FundPool, Apply
<1>6. ASSUME NEW r \in Requests, Reading(r)
      PROVE  FALSE
  BY <1>2, <1>4, <1>6, ReadingCases
<1>7. ASSUME NEW r \in Requests, CommitDecision(r)
      PROVE  FALSE
  BY <1>2, <1>7, DecisionWrites DEF DecisionEffect
<1>8. ASSUME NEW r \in Requests, CommitMove(r)
      PROVE  <<award[i].status, award'[i].status>> \in AwardMoves
  <2>1. PICK task \in Task : MoveEffect(r, task)
    BY <1>2, <1>8, MoveWrites
  <2>2. i = task.award /\ award'[i].status = task.to
    BY <2>1 DEF MoveEffect
  <2>3. StillValid(task)
    BY <1>2, <2>1 DEF TasksValid, MoveEffect
  <2>4. <<award[i].status, task.to>> \in AcceptedMoves
    BY <2>1, <2>2, <2>3 DEF StillValid, MoveEffect
  <2> QED
    BY <2>2, <2>4 DEF AcceptedMoves
<1> QED
  BY <1>3, <1>5, <1>6, <1>7, <1>8

\* As long as tasks on one pool do not overlap, a disbursed award is never
\* revoked and a revoked one never disbursed.
THEOREM AwardsMoveForward == Spec => AwardMovesOnly
<1>1. IInv /\ [Next]_vars =>
        [careful' => \A i \in 1 .. Len(award) :
           award'[i].status # award[i].status
             => <<award[i].status, award'[i].status>> \in AwardMoves]_award
  BY AwardMoveStep
<1> QED
  BY <1>1, Invariant, PTL DEF Spec, AwardMovesOnly

-----------------------------------------------------------------------------
(* Money.  The transactions store a number computed from an earlier read.  *)
(* While tasks of a pool do not overlap, that number is still the balance  *)
(* the pool should have.                                                   *)

\* Donations are finitely many and each went to a pool that exists.
DonationsSound ==
  /\ IsFiniteSet({k \in Keys : donation[k] # NoRow})
  /\ \A k \in Keys : donation[k] # NoRow => pool[donation[k].pool] # NoRow

\* What a transaction is about to store follows from what the pool holds now.
Computed(r) ==
  req[r].op = "write" =>
    req[r].available = NewBalance(req[r].task, pool[PoolOf(req[r].task)].available)

BalancesRead == \A r \in Requests : Computed(r)

Balanced(p) == pool[p] # NoRow => pool[p].available = Donated(p) - Awarded(p)

MoneyInv ==
  /\ DonationsSound
  /\ careful => NoRepeats /\ BalancesRead /\ \A p \in Pools : Balanced(p)

DonationTable(p) == [k \in DonationsTo(p) |-> donation[k].amount]

AwardTable(p) == [i \in AwardsFrom(p) |-> award[i].amount]

LEMMA DonatedIs == \A p : Donated(p) = SumFunction(DonationTable(p))
BY DEF Donated, DonationTable

LEMMA DonatedNextIs == \A p : Donated(p)' = SumFunction(DonationTable(p)')
BY DEF Donated, DonationTable

LEMMA AwardedIs == \A p : Awarded(p) = SumFunction(AwardTable(p))
BY DEF Awarded, AwardTable

LEMMA AwardedNextIs == \A p : Awarded(p)' = SumFunction(AwardTable(p)')
BY DEF Awarded, AwardTable

LEMMA DonationsSummable ==
  ASSUME Shape, DonationsSound, NEW p
  PROVE  Summable(DonationTable(p)) /\ Donated(p) \in Int
<1>1. DonationsTo(p) \subseteq {k \in Keys : donation[k] # NoRow}
  BY DEF DonationsTo
<1>2. IsFiniteSet(DonationsTo(p))
  BY <1>1, FS_Subset DEF DonationsSound
<1>3. \A k \in DonationsTo(p) : donation[k].amount \in Int
  <2> SUFFICES ASSUME NEW k \in DonationsTo(p) PROVE donation[k].amount \in Int
    OBVIOUS
  <2>1. donation[k] \in DonationRow
    BY DEF DonationsTo, Shape
  <2> QED
    BY <2>1, ScholarshipPoolsAssumption DEF DonationRow, Minor
<1>4. Summable(DonationTable(p))
  BY <1>2, <1>3 DEF DonationTable, Summable, Integral
<1> QED
  BY <1>4, TableType, DonatedIs

LEMMA AwardsSummable ==
  ASSUME Shape, NEW p
  PROVE  Summable(AwardTable(p)) /\ Awarded(p) \in Int
<1>1. AwardsFrom(p) \subseteq 1 .. Len(award) /\ Len(award) \in Nat
  BY DEF AwardsFrom, Shape
<1>2. IsFiniteSet(AwardsFrom(p))
  <2>1. IsFiniteSet(1 .. Len(award))
    BY <1>1, FS_Interval
  <2> QED
    BY <1>1, <2>1, FS_Subset
<1>3. \A i \in AwardsFrom(p) : award[i].amount \in Int
  <2> SUFFICES ASSUME NEW i \in AwardsFrom(p) PROVE award[i].amount \in Int
    OBVIOUS
  <2>1. award[i] \in AwardRow
    BY <1>1, AwardRows
  <2> QED
    BY <2>1, ScholarshipPoolsAssumption DEF AwardRow, Minor
<1>4. Summable(AwardTable(p))
  BY <1>2, <1>3 DEF AwardTable, Summable, Integral
<1> QED
  BY <1>4, TableType, AwardedIs

\* No step but the two transactions changes what a pool has awarded.
LEMMA AwardedSame ==
  ASSUME TypeInv, Keeps, award' = award, NEW p
  PROVE  Awarded(p)' = Awarded(p)
<1>1. \A i \in 1 .. Len(award) :
        application'[award[i].application].pool = application[award[i].application].pool
  BY AwardRows DEF Keeps, TypeInv, RowsSound
<1>2. AwardsFrom(p)' = AwardsFrom(p)
  BY <1>1 DEF AwardsFrom
<1> QED
  BY <1>2 DEF Awarded

LEMMA DonatedSame ==
  ASSUME donation' = donation, NEW p
  PROVE  Donated(p)' = Donated(p)
BY DEF Donated, DonationsTo

\* An approval adds its amount to what its pool has awarded, a rejection nothing.
LEMMA DecisionAwards ==
  ASSUME TypeInv, NEW r \in Requests, NEW task \in Task, DecisionEffect(r, task),
         award'[Len(award) + 1].amount = task.amount, NEW p
  PROVE  Awarded(p)' = IF task.to = "Approved" /\ p = PoolOf(task)
                       THEN Awarded(p) + task.amount ELSE Awarded(p)
<1> DEFINE n == Len(award) + 1
           f == AwardTable(p)
           g == AwardTable(p)'
           S == AwardsFrom(p)
           T == AwardsFrom(p)'
<1>1. Len(award) \in Nat /\ n \notin 1 .. Len(award)
  BY DEF TypeInv, Shape
<1>2. /\ task.op = "decide" /\ task.to \in {"Approved", "Rejected"}
      /\ Len(award') = n
      /\ \A i \in 1 .. Len(award) : award'[i] = award[i]
      /\ award'[n].application = task.application /\ award'[n].status = task.to
      /\ award'[n].amount = task.amount
      /\ application'[task.application].pool = application[task.application].pool
      /\ \A b \in Applications : application'[b].pool = application[b].pool
  BY DEF DecisionEffect
<1>3. PoolOf(task) = application[task.application].pool
  BY <1>2 DEF PoolOf
<1>4. \A i \in 1 .. Len(award) : i \in T <=> i \in S
  BY <1>1, <1>2, AwardRows DEF AwardsFrom, TypeInv
<1>5. n \in T <=> task.to = "Approved" /\ p = PoolOf(task)
  BY <1>1, <1>2, <1>3 DEF AwardsFrom
<1>6. S \subseteq 1 .. Len(award) /\ T \subseteq (1 .. Len(award)) \cup {n}
  BY <1>1, <1>2 DEF AwardsFrom
<1>7. n \notin S /\ \A i \in S : award'[i].amount = award[i].amount
  BY <1>1, <1>2, <1>6
<1>8. DOMAIN f = S /\ DOMAIN g = T
  BY DEF AwardTable
<1>9. \A i \in T : g[i] = award'[i].amount
  BY DEF AwardTable
<1>10. \A i \in S : f[i] = award[i].amount
  BY DEF AwardTable
<1>11. f = [i \in S |-> award[i].amount] /\ g = [i \in T |-> award'[i].amount]
  BY DEF AwardTable
<1>12. Summable(f) /\ Awarded(p) = SumFunction(f) /\ Awarded(p)' = SumFunction(g)
  BY AwardsSummable, AwardedIs, AwardedNextIs DEF TypeInv
<1> HIDE DEF f, g, S, T, n
<1>13. CASE task.to = "Approved" /\ p = PoolOf(task)
  <2>1. T = S \cup {n}
    BY <1>4, <1>5, <1>6, <1>13
  <2>2. g[n] = task.amount /\ g[n] \in Int
    <3>1. task.amount \in Int
      BY <1>2, TaskKind, ScholarshipPoolsAssumption DEF Minor
    <3> QED
      BY <1>2, <1>9, <2>1, <3>1
  <2>3. \A i \in S : g[i] = f[i]
    BY <1>7, <1>9, <1>10, <2>1
  <2>4. SumFunction(g) = SumFunction(f) + g[n]
    BY <1>7, <1>8, <1>12, <2>1, <2>2, <2>3, TableInsert
  <2> QED
    BY <1>12, <1>13, <2>2, <2>4
<1>14. CASE ~(task.to = "Approved" /\ p = PoolOf(task))
  <2>1. T = S
    BY <1>4, <1>5, <1>6, <1>14
  <2>2. g = f
    BY <1>7, <1>11, <2>1
  <2> QED
    BY <1>12, <1>14, <2>2
<1> QED
  BY <1>13, <1>14

\* A revocation takes the award out, a disbursement leaves it.
LEMMA MoveAwards ==
  ASSUME TypeInv, NEW r \in Requests, NEW task \in Task, MoveEffect(r, task),
         award'[task.award].amount = award[task.award].amount,
         StillValid(task), ~Repeats(r), NEW p
  PROVE  Awarded(p)' = IF task.to = "Revoked" /\ p = PoolOf(task)
                       THEN Awarded(p) - award[task.award].amount ELSE Awarded(p)
<1> DEFINE n == task.award
           f == AwardTable(p)
           g == AwardTable(p)'
           S == AwardsFrom(p)
           T == AwardsFrom(p)'
<1>1. /\ task.op = "move" /\ TaskOf(r) = task /\ task.to \in {"Disbursed", "Revoked"}
      /\ n \in 1 .. Len(award) /\ Len(award') = Len(award)
      /\ application' = application
      /\ \A i \in 1 .. Len(award) :
           /\ award'[i].application = award[i].application
           /\ award'[i].amount = award[i].amount
           /\ i # n => award'[i].status = award[i].status
      /\ award'[n].status = task.to
  BY DEF MoveEffect
<1>2. PoolOf(task) = application[award[n].application].pool
  BY <1>1 DEF PoolOf
<1>3. /\ award[n].status \in {"Approved", "Disbursed"}
      /\ task.to = "Revoked" => award[n].status = "Approved"
  <2>1. <<award[n].status, task.to>> \in AcceptedMoves
    BY <1>1 DEF StillValid
  <2>2. ~(task.to = "Revoked" /\ award[n].status = "Revoked")
    BY <1>1 DEF Repeats
  <2> QED
    BY <2>1, <2>2 DEF AcceptedMoves, AwardMoves
<1>4. \A i \in 1 .. Len(award) : i # n => (i \in T <=> i \in S)
  BY <1>1 DEF AwardsFrom
<1>5. /\ n \in S <=> p = PoolOf(task)
      /\ n \in T <=> p = PoolOf(task) /\ task.to = "Disbursed"
  BY <1>1, <1>2, <1>3 DEF AwardsFrom
<1>6. S \subseteq 1 .. Len(award) /\ T \subseteq 1 .. Len(award)
  BY <1>1 DEF AwardsFrom
<1>7. \A i \in S : award'[i].amount = award[i].amount
  BY <1>1, <1>6
<1>8. DOMAIN f = S /\ DOMAIN g = T
  BY DEF AwardTable
<1>9. /\ \A i \in T : g[i] = award'[i].amount
      /\ \A i \in S : f[i] = award[i].amount
  BY DEF AwardTable
<1>10. f = [i \in S |-> award[i].amount] /\ g = [i \in T |-> award'[i].amount]
  BY DEF AwardTable
<1>11. Summable(f) /\ Awarded(p) = SumFunction(f) /\ Awarded(p)' = SumFunction(g)
  BY AwardsSummable, AwardedIs, AwardedNextIs DEF TypeInv
<1> HIDE DEF f, g, S, T, n
<1>12. CASE task.to = "Revoked" /\ p = PoolOf(task)
  <2>1. n \in S /\ T = S \ {n}
    BY <1>4, <1>5, <1>6, <1>12
  <2>2. \A i \in T : g[i] = f[i]
    BY <1>7, <1>9, <2>1
  <2>3. SumFunction(g) = SumFunction(f) - f[n]
    BY <1>8, <1>11, <2>1, <2>2, TableDelete
  <2> QED
    BY <1>9, <1>11, <1>12, <2>1, <2>3 DEF n
<1>13. CASE ~(task.to = "Revoked" /\ p = PoolOf(task))
  <2>1. T = S
    <3>1. task.to # "Revoked" => task.to = "Disbursed"
      BY <1>1
    <3>2. n \in T <=> n \in S
      BY <1>5, <1>13, <3>1, Zenon
    <3>3. \A i : i \in T => i \in S
      BY <1>4, <1>6, <3>2
    <3>4. \A i : i \in S => i \in T
      BY <1>4, <1>6, <3>2
    <3> QED
      BY <3>3, <3>4
  <2>2. g = f
    BY <1>7, <1>10, <2>1
  <2> QED
    BY <1>11, <1>13, <2>2
<1> QED
  BY <1>12, <1>13

\* What a transaction stores is still right when its pool and award are as before.
LEMMA ComputedStays ==
  ASSUME TypeInv, Keeps, award' \in Seq(AwardRow),
         \A i \in 1 .. Len(award) : award'[i].amount = award[i].amount,
         NEW s \in Requests, req'[s] = req[s], Computed(s),
         req[s].op = "write" =>
           pool'[PoolOf(req[s].task)].available = pool[PoolOf(req[s].task)].available
  PROVE  Computed(s)'
<1> SUFFICES ASSUME req[s].op = "write" PROVE Computed(s)'
  BY DEF Computed
<1>1. PICK task \in Task : task = req[s].task /\ Sound(task)
  BY Writing
<1>2. PICK available :
        available = pool[PoolOf(task)].available /\ available = pool'[PoolOf(task)].available
  BY <1>1
<1>3. PoolOf(task)' = PoolOf(task)
  BY KeepsSound, <1>1
<1>4. NewBalance(task, available)' = NewBalance(task, available)
  <2>1. CASE task.op = "decide"
    BY <2>1, TaskKind DEF NewBalance
  <2>2. CASE task.op = "move"
    <3>1. award'[task.award].amount = award[task.award].amount
      BY <1>1, <2>2 DEF Sound
    <3> QED
      BY <3>1 DEF NewBalance
  <2> QED
    BY <2>1, <2>2, TaskKind
<1>5. req[s].available = NewBalance(task, available)
  BY <1>1, <1>2 DEF Computed, NewBalance
<1>6. Computed(s)' <=> req'[s].available = NewBalance(task, available)'
  <2>1. pool'[PoolOf(task)'].available = available
    BY <1>2, <1>3
  <2>2. PoolOf(req[s].task)' = PoolOf(task)'
    BY <1>1 DEF PoolOf
  <2>3. pool'[PoolOf(req[s].task)'].available = available
    BY <2>1, <2>2
  <2> QED
    BY <1>1, <2>3 DEF Computed, NewBalance
<1> QED
  BY <1>4, <1>5, <1>6

LEMMA AllBalanced ==
  (\A p \in Pools : Balanced(p))'
    <=> \A p \in Pools : pool'[p] # NoRow => pool'[p].available = Donated(p)' - Awarded(p)'
BY DEF Balanced

\* What a transaction stores, and where.
LEMMA CommitStores ==
  ASSUME TypeInv, NEW r \in Requests, CommitDecision(r) \/ CommitMove(r),
         NEW task, task = TaskOf(r)
  PROVE  /\ PoolOf(task) \in Pools /\ pool[PoolOf(task)] # NoRow
         /\ req[r].op = "write" /\ task = req[r].task
         /\ pool'[PoolOf(task)].available = req[r].available
         /\ \A q \in Pools : q # PoolOf(task) => pool'[q] = pool[q]
<1>1. req[r].op = "write"
  BY DEF CommitDecision, CommitMove
<1>2. /\ TaskOf(r) = req[r].task
      /\ PoolOf(task) \in Pools /\ pool[PoolOf(task)] \in PoolRow
  BY <1>1, Writing
<1>3. pool' = [pool EXCEPT ![PoolOf(task)].available = req[r].available]
  BY <1>2 DEF CommitDecision, CommitMove, StorePool
<1>4. pool[PoolOf(task)] # NoRow
  BY <1>2, RowsAssumption DEF PoolRow
<1>5. pool'[PoolOf(task)].available = req[r].available
  BY <1>2, <1>3 DEF TypeInv, Shape, PoolRow
<1>6. \A q \in Pools : q # PoolOf(task) => pool'[q] = pool[q]
  BY <1>3 DEF TypeInv, Shape
<1> QED
  BY <1>1, <1>2, <1>4, <1>5, <1>6

LEMMA DecisionAmounts ==
  ASSUME TypeInv, NEW r \in Requests, CommitDecision(r)
  PROVE  /\ award'[Len(award) + 1].amount = TaskOf(r).amount
         /\ \A i \in 1 .. Len(award) : award'[i] = award[i]
<1>1. PICK task \in Task : task = req[r].task /\ Sound(task) /\ TaskOf(r) = task
  BY Writing DEF CommitDecision
<1> DEFINE row == [application |-> task.application, amount |-> task.amount, status |-> task.to]
<1>2. task.op = "decide" /\ award' = Append(award, row)
  BY <1>1 DEF CommitDecision
<1>3. row \in AwardRow /\ row.amount = task.amount
  BY <1>2, TaskKind DEF AwardRow
<1> HIDE DEF row
<1>4. award'[Len(award) + 1] = row /\ \A i \in 1 .. Len(award) : award'[i] = award[i]
  BY <1>2, <1>3 DEF TypeInv, Shape
<1> QED
  BY <1>1, <1>3, <1>4

LEMMA MoveAmounts ==
  ASSUME TypeInv, NEW r \in Requests, CommitMove(r)
  PROVE  \A i \in 1 .. Len(award) : award'[i].amount = award[i].amount
<1>1. PICK n, to : award' = [award EXCEPT ![n].status = to]
  BY DEF CommitMove
<1>2. award \in [1 .. Len(award) -> AwardRow]
  BY DEF TypeInv, Shape
<1> SUFFICES ASSUME NEW i \in 1 .. Len(award)
             PROVE  award'[i].amount = award[i].amount
  OBVIOUS
<1>3. award[i] \in AwardRow
  BY <1>2
<1> QED
  BY <1>1, <1>2, <1>3 DEF AwardRow

\* The balance a careful transaction stores is the one its pool should have.
LEMMA BalancedCommit ==
  ASSUME TypeInv, TypeInv', TasksValid, NoRepeats, BalancesRead, DonationsSound,
         \A p \in Pools : Balanced(p),
         NEW r \in Requests, CommitDecision(r) \/ CommitMove(r), NEW p \in Pools,
         pool'[p] # NoRow
  PROVE  pool'[p].available = Donated(p)' - Awarded(p)'
<1>1. CommitEffect(r) /\ \E task \in Task : DecisionEffect(r, task) \/ MoveEffect(r, task)
  BY DecisionWrites, MoveWrites
<1>2. PICK task \in Task : task = TaskOf(r) /\ Busily(r)
  BY <1>1 DEF DecisionEffect, MoveEffect
<1>3. /\ PoolOf(task) \in Pools /\ pool[PoolOf(task)] # NoRow
      /\ req[r].op = "write" /\ task = req[r].task
      /\ pool'[PoolOf(task)].available = req[r].available
      /\ \A q \in Pools : q # PoolOf(task) => pool'[q] = pool[q]
  BY <1>2, CommitStores
<1>4. PICK available : available = pool[PoolOf(task)].available
  OBVIOUS
<1>5. req[r].available = NewBalance(task, available)
  BY <1>3, <1>4 DEF BalancesRead, Computed
<1>6. Donated(p)' = Donated(p) /\ Donated(p) \in Int /\ Awarded(p) \in Int
  BY <1>1, DonatedSame, DonationsSummable, AwardsSummable DEF CommitEffect, TypeInv
<1>7. pool[p] # NoRow /\ pool[p].available = Donated(p) - Awarded(p)
  BY <1>3 DEF Balanced
<1>8. StillValid(task) /\ ~Repeats(r)
  BY <1>2 DEF TasksValid, NoRepeats
<1>9. CASE CommitDecision(r)
  <2>1. DecisionEffect(r, task) /\ award'[Len(award) + 1].amount = task.amount
    BY <1>2, <1>9, DecisionWrites, DecisionAmounts DEF DecisionEffect
  <2>2. Awarded(p)' = IF task.to = "Approved" /\ p = PoolOf(task)
                      THEN Awarded(p) + task.amount ELSE Awarded(p)
    BY <2>1, DecisionAwards
  <2>3. /\ task.to \in {"Approved", "Rejected"} /\ task.amount \in Int
        /\ task.to = "Approved" => NewBalance(task, available) = available - task.amount
        /\ task.to = "Rejected" => NewBalance(task, available) = available
    BY <2>1, TaskKind, ScholarshipPoolsAssumption DEF DecisionEffect, NewBalance, Minor
  <2> QED
    BY <1>3, <1>4, <1>5, <1>6, <1>7, <2>2, <2>3
<1>10. CASE CommitMove(r)
  <2>1. MoveEffect(r, task) /\ award'[task.award].amount = award[task.award].amount
    BY <1>2, <1>10, MoveWrites, MoveAmounts DEF MoveEffect
  <2>2. Awarded(p)' = IF task.to = "Revoked" /\ p = PoolOf(task)
                      THEN Awarded(p) - award[task.award].amount ELSE Awarded(p)
    BY <1>8, <2>1, MoveAwards
  <2>3. award[task.award].amount \in Int
    BY <2>1, AwardRows, ScholarshipPoolsAssumption DEF TypeInv, MoveEffect, AwardRow, Minor
  <2>4. /\ task.to \in {"Disbursed", "Revoked"}
        /\ task.to = "Revoked"
             => NewBalance(task, available) = available + award[task.award].amount
        /\ task.to = "Disbursed" => NewBalance(task, available) = available
    BY <2>1 DEF MoveEffect, NewBalance
  <2> QED
    BY <1>3, <1>4, <1>5, <1>6, <1>7, <2>2, <2>3, <2>4
<1> QED
  BY <1>9, <1>10

LEMMA BalancesReadCommit ==
  ASSUME TypeInv, Keeps, award' \in Seq(AwardRow), Alone, TasksValid, BalancesRead,
         NEW r \in Requests, CommitDecision(r) \/ CommitMove(r), NEW s \in Requests
  PROVE  Computed(s)'
<1>1. CommitEffect(r) /\ Busily(r)
  BY DecisionWrites, MoveWrites DEF DecisionEffect, MoveEffect
<1>2. PICK task : task = TaskOf(r)
  OBVIOUS
<1>3. CASE s = r
  BY <1>1, <1>3 DEF CommitEffect, TypeInv, Shape, Computed, Idle
<1>4. CASE s # r
  <2>1. req'[s] = req[s] /\ Computed(s)
    BY <1>1, <1>4 DEF CommitEffect, TypeInv, Shape, BalancesRead
  <2>2. ASSUME req[s].op = "write"
        PROVE  pool'[PoolOf(req[s].task)].available = pool[PoolOf(req[s].task)].available
    <3>1. Busily(s) /\ TaskOf(s) = req[s].task /\ PoolOf(req[s].task) \in Pools
      BY <2>2, Writing
    <3>2. PoolOf(req[s].task) # PoolOf(task)
      BY <1>1, <1>2, <1>4, <3>1 DEF Alone
    <3> QED
      BY <1>2, <3>1, <3>2, CommitStores
  <2>3. \A i \in 1 .. Len(award) : award'[i].amount = award[i].amount
    BY DecisionAmounts, MoveAmounts
  <2> QED
    BY <2>1, <2>2, <2>3, ComputedStays
<1> QED
  BY <1>3, <1>4

\* Reading the pool computes from what it holds; nothing else is touched.
LEMMA BalancesReadReading ==
  ASSUME TypeInv, Keeps, BalancesRead, NEW r \in Requests, Reading(r), NEW s \in Requests
  PROVE  Computed(s)'
<1>1. UNCHANGED <<pool, donation, application, award>> /\ (Starts(r) \/ GoesOn(r))
  BY ReadingCases
<1>2. CASE s # r
  <2>1. req'[s] = req[s]
    BY <1>1, <1>2 DEF Starts, GoesOn, TypeInv, Shape
  <2> QED
    BY <1>1, <2>1, ComputedStays DEF BalancesRead, TypeInv, Shape
<1>3. CASE s = r /\ Lost(r)
  BY <1>3 DEF Lost, Computed, Idle, TypeInv, Shape
<1>4. CASE s = r /\ ReadPool(r)
  <2>1. PICK task : task = req[r]
    OBVIOUS
  <2>2. PICK available : available = pool[PoolOf(task)].available
    OBVIOUS
  <2>3. req'[r] = [op |-> "write", task |-> task, available |-> NewBalance(task, available)]
    BY <1>4, <2>1, <2>2 DEF ReadPool, TypeInv, Shape
  <2>4. req'[r].task = task /\ req'[r].available = NewBalance(task, available)
    BY <2>3
  <2>5. NewBalance(task, available)' = NewBalance(task, available)
    BY <1>1 DEF NewBalance
  <2>6. PoolOf(req[r].task)' = PoolOf(task)
    BY <1>1, <2>4 DEF PoolOf
  <2>7. pool'[PoolOf(req[r].task)'].available = available
    BY <1>1, <2>2, <2>6
  <2> QED
    BY <1>4, <2>4, <2>5, <2>7 DEF Computed, NewBalance
<1>5. ASSUME s = r, ~Lost(r), ~ReadPool(r)
      PROVE  Computed(s)'
  <2>1. ASSUME NEW a \in Applications, NEW amount \in Amounts,
               BeginApprove(r, a, amount) \/ BeginReject(r, a, amount)
        PROVE  req'[r].op = "decide"
    BY <2>1 DEF BeginApprove, BeginReject, TypeInv, Shape
  <2>2. ASSUME NEW i \in 1 .. Len(award), NEW to, BeginMove(r, i, to)
        PROVE  req'[r].op = "move"
    BY <2>2 DEF BeginMove, TypeInv, Shape
  <2>3. req'[r].op \in {"decide", "move"}
    BY <1>5, <2>1, <2>2 DEF Reading, BeginDisburse, BeginRevoke
  <2> QED
    BY <1>5, <2>3 DEF Computed
<1> QED
  BY <1>2, <1>3, <1>4, <1>5

\* A donation adds its amount to what its pool was given.
LEMMA FundingDonates ==
  ASSUME TypeInv, DonationsSound, NEW p \in Pools, NEW k \in Keys, NEW amount \in Amounts,
         FundPool(p, k, amount), NEW q
  PROVE  Donated(q)' = IF q = p THEN Donated(q) + amount ELSE Donated(q)
<1> DEFINE f == DonationTable(q)
           g == DonationTable(q)'
           S == DonationsTo(q)
           T == DonationsTo(q)'
<1>1. /\ donation[k] = NoRow /\ donation'[k] = [pool |-> p, amount |-> amount]
      /\ \A l \in Keys : l # k => donation'[l] = donation[l]
  BY DEF FundPool, Donate, TypeInv, Shape
<1>2. [pool |-> p, amount |-> amount] # NoRow
  <2>1. amount \in Minor \ {0}
    <3>1. amount \in -1 .. MaxMinor /\ amount > 0
      BY ScholarshipPoolsAssumption DEF FundPool
    <3> QED
      BY <3>1, ScholarshipPoolsAssumption DEF Minor
  <2>2. [pool |-> p, amount |-> amount] \in DonationRow
    BY <2>1 DEF DonationRow
  <2> QED
    BY <2>2, RowsAssumption
<1>3. \A l \in Keys : l # k => (l \in T <=> l \in S)
  BY <1>1 DEF DonationsTo
<1>4. k \notin S /\ (k \in T <=> q = p)
  BY <1>1, <1>2 DEF DonationsTo
<1>5. S \subseteq Keys /\ T \subseteq Keys
  BY DEF DonationsTo
<1>6. /\ DOMAIN f = S /\ DOMAIN g = T
      /\ \A l \in T : g[l] = donation'[l].amount
      /\ \A l \in S : f[l] = donation[l].amount
  BY DEF DonationTable
<1>7. f = [l \in S |-> donation[l].amount] /\ g = [l \in T |-> donation'[l].amount]
  BY DEF DonationTable
<1>8. Summable(f) /\ Donated(q) = SumFunction(f) /\ Donated(q)' = SumFunction(g)
  BY DonationsSummable, DonatedIs, DonatedNextIs DEF TypeInv
<1> HIDE DEF f, g, S, T
<1>9. CASE q = p
  <2>1. T = S \cup {k}
    BY <1>3, <1>4, <1>5, <1>9
  <2>2. g[k] = amount /\ amount \in Int
    BY <1>1, <1>6, <2>1, ScholarshipPoolsAssumption
  <2>3. \A l \in S : g[l] = f[l]
    BY <1>1, <1>4, <1>5, <1>6, <2>1
  <2>4. SumFunction(g) = SumFunction(f) + g[k]
    BY <1>4, <1>6, <1>8, <2>1, <2>2, <2>3, TableInsert
  <2> QED
    BY <1>8, <1>9, <2>2, <2>4
<1>10. CASE q # p
  <2>1. T = S
    BY <1>3, <1>4, <1>5, <1>10
  <2>2. g = f
    BY <1>1, <1>4, <1>5, <1>7, <2>1
  <2> QED
    BY <1>8, <1>10, <2>2
<1> QED
  BY <1>9, <1>10

LEMMA BalancedFamilies ==
  ASSUME TypeInv, Keeps, DonationsSound, \A p \in Pools : Balanced(p), DonorsAndFamilies,
         NEW q \in Pools, pool'[q] # NoRow
  PROVE  pool'[q].available = Donated(q)' - Awarded(q)'
<1>1. Donated(q) \in Int /\ Awarded(q) \in Int
  BY DonationsSummable, AwardsSummable DEF TypeInv
<1>2. Awarded(q)' = Awarded(q)
  <2>1. award' = award
    BY DEF DonorsAndFamilies, CreatePool, FundPool, Apply
  <2> QED
    BY <2>1, AwardedSame
<1>3. ASSUME NEW p \in Pools, NEW body \in PoolBodies, CreatePool(p, body)
      PROVE  pool'[q].available = Donated(q)' - Awarded(q)'
  <2>1. /\ pool[p] = NoRow /\ donation' = donation
        /\ pool' = [pool EXCEPT ![p] = [available |-> 0, restriction |-> body.restriction]]
    BY <1>3 DEF CreatePool, InsertPool
  <2>2. Donated(q)' = Donated(q)
    BY <2>1, DonatedSame
  <2>3. CASE q # p
    BY <1>2, <2>1, <2>2, <2>3 DEF Balanced, TypeInv, Shape
  <2>4. CASE q = p
    <3>1. DonationsTo(q) = {}
      BY <2>1, <2>4 DEF DonationsTo, DonationsSound
    <3>2. AwardsFrom(q) = {}
      BY <2>1, <2>4, AwardRows DEF AwardsFrom, TypeInv, RowsSound
    <3>3. Donated(q) = 0 /\ Awarded(q) = 0
      BY <3>1, <3>2, TableEmpty DEF Donated, Awarded
    <3>4. pool'[q].available = 0
      BY <2>1, <2>4 DEF TypeInv, Shape
    <3> QED
      BY <1>2, <2>2, <3>3, <3>4
  <2> QED
    BY <2>3, <2>4
<1>4. ASSUME NEW p \in Pools, NEW k \in Keys, NEW amount \in Amounts, FundPool(p, k, amount)
      PROVE  pool'[q].available = Donated(q)' - Awarded(q)'
  <2>1. Donated(q)' = IF q = p THEN Donated(q) + amount ELSE Donated(q)
    BY <1>4, FundingDonates
  <2>2. pool[p] \in PoolRow /\ pool[p] # NoRow /\ amount \in Int
    BY <1>4, ScholarshipPoolsAssumption DEF FundPool, TypeInv, Shape
  <2>3. pool' = [pool EXCEPT ![p].available = pool[p].available + amount]
    BY <1>4 DEF FundPool, Donate, Locked
  <2>4. CASE q # p
    BY <1>2, <2>1, <2>3, <2>4 DEF Balanced, TypeInv, Shape
  <2>5. CASE q = p
    <3>1. pool'[q].available = pool[q].available + amount
      BY <2>2, <2>3, <2>5 DEF TypeInv, Shape, PoolRow
    <3>2. pool[q].available = Donated(q) - Awarded(q)
      BY <2>2, <2>5 DEF Balanced
    <3> QED
      BY <1>1, <1>2, <2>1, <2>2, <2>5, <3>1, <3>2
  <2> QED
    BY <2>4, <2>5
<1>5. ASSUME NEW a \in Applications, NEW f \in Forms, Apply(a, f)
      PROVE  pool'[q].available = Donated(q)' - Awarded(q)'
  <2>1. pool' = pool /\ donation' = donation
    BY <1>5 DEF Apply
  <2> QED
    BY <1>2, <2>1, DonatedSame DEF Balanced
<1> QED
  BY <1>3, <1>4, <1>5 DEF DonorsAndFamilies

\* No donation to a pool commits while a task works on it.
LEMMA BalancesReadFamilies ==
  ASSUME TypeInv, Keeps, BalancesRead, OneAtATime, DonorsAndFamilies, NEW s \in Requests
  PROVE  Computed(s)'
<1>1. req' = req /\ award' = award
  BY DEF DonorsAndFamilies, CreatePool, FundPool, Apply
<1>2. ASSUME req[s].op = "write"
      PROVE  pool'[PoolOf(req[s].task)].available = pool[PoolOf(req[s].task)].available
  <2>1. PICK q \in Pools : q = PoolOf(req[s].task) /\ pool[q] \in PoolRow
                           /\ Busily(s) /\ TaskOf(s) = req[s].task
    BY <1>2, Writing
  <2>2. pool[q] # NoRow
    BY <2>1, RowsAssumption DEF PoolRow
  <2>3. ASSUME NEW p \in Pools, NEW body \in PoolBodies, CreatePool(p, body)
        PROVE  pool'[q] = pool[q]
    BY <2>2, <2>3 DEF CreatePool, InsertPool, TypeInv, Shape
  <2>4. ASSUME NEW p \in Pools, NEW k \in Keys, NEW amount \in Amounts, FundPool(p, k, amount)
        PROVE  pool'[q] = pool[q]
    <3>1. s \in Busy(q)
      BY <2>1 DEF Busy, Busily
    <3>2. donation[k] = NoRow /\ donation'[k].pool = p /\ donation'[k] # NoRow
      <4>1. /\ donation[k] = NoRow /\ donation'[k] = [pool |-> p, amount |-> amount]
            /\ amount > 0 /\ amount \in -1 .. MaxMinor
        BY <2>4, ScholarshipPoolsAssumption DEF FundPool, Donate, TypeInv, Shape
      <4>2. amount \in Minor \ {0}
        BY <4>1, ScholarshipPoolsAssumption DEF Minor
      <4>3. donation'[k] \in DonationRow
        BY <4>1, <4>2 DEF DonationRow
      <4> QED
        BY <4>1, <4>3, RowsAssumption
    <3>3. q # p
      BY <3>1, <3>2 DEF OneAtATime
    <3> QED
      BY <2>4, <3>3 DEF FundPool, Donate, TypeInv, Shape
  <2>5. ASSUME NEW a \in Applications, NEW f \in Forms, Apply(a, f)
        PROVE  pool'[q] = pool[q]
    BY <2>5 DEF Apply
  <2> QED
    BY <2>1, <2>3, <2>4, <2>5 DEF DonorsAndFamilies
<1> QED
  BY <1>1, <1>2, ComputedStays DEF BalancesRead, TypeInv, Shape

LEMMA DonationsStep ==
  ASSUME TypeInv, DonationsSound, [Next]_vars
  PROVE  DonationsSound'
<1>1. \A k \in Keys : donation[k] # NoRow => donation[k].pool \in Pools
  BY DEF TypeInv, Shape, DonationRow
<1>2. ASSUME donation' = donation, \A q \in Pools : pool[q] # NoRow => pool'[q] # NoRow
      PROVE  DonationsSound'
  BY <1>1, <1>2 DEF DonationsSound
<1>3. CASE UNCHANGED vars
  BY <1>2, <1>3 DEF vars
<1>4. ASSUME NEW p \in Pools, NEW body \in PoolBodies, CreatePool(p, body)
      PROVE  DonationsSound'
  <2>1. [available |-> 0, restriction |-> body.restriction] # NoRow
    <3>1. [available |-> 0, restriction |-> body.restriction] \in PoolRow
      BY ScholarshipPoolsAssumption DEF PoolRow, Minor
    <3> QED
      BY <3>1, RowsAssumption DEF PoolRow
  <2> QED
    BY <1>2, <1>4, <2>1 DEF CreatePool, InsertPool, TypeInv, Shape
<1>5. ASSUME NEW p \in Pools, NEW k \in Keys, NEW amount \in Amounts, FundPool(p, k, amount)
      PROVE  DonationsSound'
  <2>1. /\ donation' = [donation EXCEPT ![k] = [pool |-> p, amount |-> amount]]
        /\ pool' = [pool EXCEPT ![p].available = pool[p].available + amount]
        /\ pool[p] # NoRow
    BY <1>5 DEF FundPool, Donate, Locked
  <2>2. {l \in Keys : donation'[l] # NoRow} \subseteq {l \in Keys : donation[l] # NoRow} \cup {k}
    BY <2>1 DEF TypeInv, Shape
  <2>3. IsFiniteSet({l \in Keys : donation[l] # NoRow} \cup {k})
    BY FS_AddElement DEF DonationsSound
  <2>4. IsFiniteSet({l \in Keys : donation'[l] # NoRow})
    BY <2>2, <2>3, FS_Subset
  <2>5. Shape'
    <3>1. DonorsAndFamilies
      BY <1>5 DEF DonorsAndFamilies
    <3>2. TypeInv'
      BY TypeStep
    <3> QED
      BY <3>2 DEF TypeInv
  <2>6. \A q \in Pools : pool[q] # NoRow => pool'[q] # NoRow
    <3>1. pool'[p] = [pool[p] EXCEPT !.available = pool[p].available + amount]
      BY <2>1 DEF TypeInv, Shape
    <3>2. pool'[p] # NoRow
      <4>1. pool[p] \in PoolRow /\ amount \in Int /\ amount > 0
            /\ pool[p].available + amount <= MaxMinor
        BY <1>5, <2>1, ScholarshipPoolsAssumption DEF FundPool, Donate, Locked, TypeInv, Shape
      <4>2. pool[p].available + amount \in Minor
        BY <4>1, ScholarshipPoolsAssumption DEF PoolRow, Minor
      <4>3. pool'[p] \in PoolRow
        BY <3>1, <4>1, <4>2 DEF PoolRow
      <4> QED
        BY <4>3, RowsAssumption DEF PoolRow
    <3> QED
      BY <2>1, <3>2 DEF TypeInv, Shape
  <2>7. ASSUME NEW l \in Keys, donation'[l] # NoRow
        PROVE  pool'[donation'[l].pool] # NoRow
    <3>1. CASE l = k
      BY <2>1, <2>6, <3>1 DEF TypeInv, Shape
    <3>2. CASE l # k
      <4>1. donation'[l] = donation[l]
        BY <2>1, <3>2 DEF TypeInv, Shape
      <4> QED
        BY <1>1, <2>6, <2>7, <4>1 DEF DonationsSound
    <3> QED
      BY <3>1, <3>2
  <2> QED
    BY <2>4, <2>7 DEF DonationsSound
<1>6. ASSUME NEW a \in Applications, NEW f \in Forms, Apply(a, f)
      PROVE  DonationsSound'
  BY <1>2, <1>6 DEF Apply
<1>7. ASSUME NEW r \in Requests, Reading(r)
      PROVE  DonationsSound'
  BY <1>2, <1>7, ReadingCases
<1>8. ASSUME NEW r \in Requests, CommitDecision(r) \/ CommitMove(r)
      PROVE  DonationsSound'
  BY <1>2, <1>8, DecisionWrites, MoveWrites DEF CommitEffect
<1>9. CASE Next
  <2>1. DonorsAndFamilies \/ \E r \in Requests : Reading(r) \/ CommitDecision(r) \/ CommitMove(r)
    BY <1>9 DEF Next, Step, Reviewers, Reading
  <2> QED
    BY <1>4, <1>5, <1>6, <1>7, <1>8, <2>1 DEF DonorsAndFamilies
<1> QED
  BY <1>3, <1>9

LEMMA MoneyStep == IInv /\ MoneyInv /\ [Next]_vars => MoneyInv'
<1> SUFFICES ASSUME IInv, MoneyInv, [Next]_vars PROVE MoneyInv'
  OBVIOUS
<1>1. TypeInv /\ TypeInv' /\ Keeps
  BY TypeStep DEF IInv
<1>2. DonationsSound /\ DonationsSound'
  BY <1>1, DonationsStep DEF MoneyInv
<1>3. CASE UNCHANGED vars
  <2>1. NoRepeats' <=> NoRepeats
    BY <1>3 DEF vars, NoRepeats, Repeats, TaskOf
  <2>2. BalancesRead' <=> BalancesRead
    BY <1>3 DEF vars, BalancesRead, Computed, NewBalance, PoolOf
  <2>3. \A p : Balanced(p)' <=> Balanced(p)
    BY <1>3 DEF vars, Balanced, Donated, DonationsTo, Awarded, AwardsFrom
  <2> QED
    BY <1>2, <1>3, <2>1, <2>2, <2>3 DEF vars, MoneyInv
<1>4. CASE Next /\ careful'
  <2>1. careful /\ OneAtATime /\ NoRepeats'
    BY <1>4, Zenon DEF Next
  <2>2. Alone /\ TasksValid /\ NoRepeats /\ BalancesRead /\ \A p \in Pools : Balanced(p)
    BY <2>1 DEF IInv, CarefulInv, MoneyInv
  <2>3. DonorsAndFamilies \/ \E r \in Requests : Reading(r) \/ CommitDecision(r) \/ CommitMove(r)
    BY <1>4 DEF Next, Step, Reviewers, Reading
  <2>4. ASSUME NEW s \in Requests
        PROVE  Computed(s)'
    <3>1. award' \in Seq(AwardRow)
      BY <1>1 DEF TypeInv, Shape
    <3> QED
      BY <1>1, <2>1, <2>2, <2>3, <3>1, BalancesReadFamilies, BalancesReadReading,
         BalancesReadCommit
  <2>5. ASSUME NEW p \in Pools, pool'[p] # NoRow
        PROVE  pool'[p].available = Donated(p)' - Awarded(p)'
    <3>1. CASE DonorsAndFamilies
      BY <1>1, <1>2, <2>2, <2>5, <3>1, BalancedFamilies
    <3>2. ASSUME NEW r \in Requests, Reading(r)
          PROVE  pool'[p].available = Donated(p)' - Awarded(p)'
      <4>1. UNCHANGED <<pool, donation, application, award>>
        BY <1>1, <3>2, ReadingCases
      <4>2. Donated(p)' = Donated(p) /\ Awarded(p)' = Awarded(p)
        BY <1>1, <4>1, DonatedSame, AwardedSame
      <4> QED
        BY <2>2, <2>5, <4>1, <4>2 DEF Balanced
    <3>3. ASSUME NEW r \in Requests, CommitDecision(r) \/ CommitMove(r)
          PROVE  pool'[p].available = Donated(p)' - Awarded(p)'
      BY <1>1, <1>2, <2>2, <2>5, <3>3, BalancedCommit
    <3> QED
      BY <2>3, <3>1, <3>2, <3>3
  <2> QED
    BY <1>2, <2>1, <2>4, <2>5, AllBalanced DEF MoneyInv, BalancesRead
<1>5. CASE ~careful'
  BY <1>2, <1>5 DEF MoneyInv
<1> QED
  BY <1>3, <1>4, <1>5

\* While tasks of a pool do not overlap and nothing is revoked twice, every unit a pool
\* received is still available or in an award that is approved or disbursed, although
\* every decision and every award transition stores a balance computed from an
\* unlocked read.
THEOREM MoneyConserved == Spec => []Conserved
<1>1. Init => MoneyInv
  <2> SUFFICES ASSUME Init PROVE MoneyInv
    OBVIOUS
  <2>1. {k \in Keys : donation[k] # NoRow} = {}
    BY DEF Init
  <2>2. DonationsSound
    BY <2>1, FS_EmptySet DEF DonationsSound
  <2>3. NoRepeats /\ BalancesRead
    BY DEF Init, NoRepeats, Repeats, TaskOf, Idle, BalancesRead, Computed
  <2>4. \A p \in Pools : Balanced(p)
    BY DEF Init, Balanced
  <2> QED
    BY <2>2, <2>3, <2>4 DEF MoneyInv
<1>2. MoneyInv => Conserved
  BY DEF MoneyInv, Conserved, Balanced
<1> QED
  BY <1>1, <1>2, Invariant, MoneyStep, PTL DEF Spec

=============================================================================
