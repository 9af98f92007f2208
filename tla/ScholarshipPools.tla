-------------------------- MODULE ScholarshipPools ---------------------------
(***************************************************************************)
(* Scholarship pools: donors fund a pool, families apply to it, platform   *)
(* admins approve or reject applications (either way an award row is       *)
(* inserted), and later disburse or revoke an award.                       *)
(*                                                                         *)
(* Unlike vaults, the balance of a pool is not recomputed under a lock by  *)
(* every writer.  Funding locks the pool row and adds to it.  A decision   *)
(* or an award transition reads the pool without a lock, computes the new  *)
(* balance, and its transaction stores that number whatever the row holds  *)
(* by then.  A task therefore works in three steps: it reads and validates *)
(* the application or the award, then reads the pool, then commits.        *)
(*                                                                         *)
(* A pool's currency and restrictions never change and no route closes a   *)
(* pool, so checks against them are made where the task starts.  Amounts   *)
(* are in the pool's currency: another currency is refused with an error   *)
(* and, like every refusal, is not a step.                                 *)
(***************************************************************************)
EXTENDS Integers, Sequences, FiniteSetsExt

CONSTANTS
  MaxMinor,      \* the largest value of a BIGINT column (i64::MAX in the code)
  Users,         \* rows of users
  RoleOf,        \* role carried by a user's access token
  Children,      \* rows of child_profiles
  ChildOwner,    \* child_profiles.owner_user_id
  Pools,         \* ids of scholarship_pools
  PoolBodies,    \* bodies of POST /scholarships/pools with their caller
  Forms,         \* bodies of POST /scholarships/applications with their caller
  Applications,  \* fresh application ids; bounds the rows of a run
  Keys,          \* idempotency keys donors choose
  Amounts,       \* amounts donors and admins send
  Requests,      \* tasks that may be in flight at once
  NoRow          \* a row that does not exist yet

ASSUME ScholarshipPoolsAssumption ==
  /\ MaxMinor \in Nat
  /\ Amounts \subseteq -1 .. MaxMinor
  /\ ChildOwner \in [Children -> Users]
  /\ \A f \in Forms : f.pool \in Pools /\ f.child \in Children

VARIABLES
  pool,         \* scholarship_pools
  donation,     \* donor_contributions by idempotency key
  application,  \* scholarship_applications
  award,        \* scholarship_awards in the order of their insertion
  req,          \* what each task carries from its reads to its transaction
  careful       \* history: every step so far kept the two disciplines below

vars == <<pool, donation, application, award, req, careful>>

-----------------------------------------------------------------------------
(* Rules (crates/domain/src/scholarships.rs).                              *)

Minor == 0 .. MaxMinor

CanFund(user) == RoleOf[user] \in {"Donor", "PlatformAdmin"}
CanReview(user) == RoleOf[user] = "PlatformAdmin"

\* can_apply, validate_child_profile_access, validate_pool_restrictions.  The
\* four restrictions of a pool behave alike; one stands for them.
CanApply(f) ==
  /\ RoleOf[f.applicant] \in {"Parent", "Student"}
  /\ RoleOf[f.applicant] = "Student" \/ f.applicant = ChildOwner[f.child]
  /\ pool[f.pool].restriction \in {"any", f.category}

\* validate_application_reviewable; nothing in the code sets UnderReview.
Reviewable(status) == status \in {"Submitted", "UnderReview"}

\* validate_award_transition; from = to is accepted too, and unlike the other
\* components these use cases do not stop there.  (A disbursement must name a
\* payout or a vault; one that names neither is refused and is not a step.)
AwardMoves == {<<"Approved", "Disbursed">>, <<"Approved", "Revoked">>}
\* A mistake the runs must notice: a disbursed award can be revoked.
AcceptedMovesAnyRevoke ==
  AwardMoves \cup {<<"Disbursed", "Disbursed">>, <<"Disbursed", "Revoked">>,
                  <<"Revoked", "Revoked">>}

AcceptedMoves == AwardMoves \cup {<<"Disbursed", "Disbursed">>, <<"Revoked", "Revoked">>}

-----------------------------------------------------------------------------
(* Types.                                                                  *)

DonationRow == [pool : Pools, amount : Minor \ {0}]
ApplicationRow == [pool : Pools, status : {"Submitted", "Approved", "Rejected"}]
AwardRow == [application : Applications, amount : Minor,
             status : {"Approved", "Rejected", "Disbursed", "Revoked"}]

Idle == [op |-> "idle"]
Decision == [op : {"decide"}, application : Applications,
             to : {"Approved", "Rejected"}, amount : Minor]
Transition == [op : {"move"}, award : 1 .. Len(award), to : {"Disbursed", "Revoked"}]
Write == [op : {"write"}, task : Decision \cup Transition, available : Minor]

ASSUME RowsAssumption ==
  /\ IsFiniteSet(Requests)
  /\ NoRow \notin DonationRow \cup ApplicationRow
  /\ NoRow \notin [available : Minor, restriction : {body.restriction : body \in PoolBodies}]

TypeOK ==
  /\ \A p \in Pools :
       pool[p] = NoRow \/ pool[p].available \in Minor
  /\ \A k \in Keys : donation[k] = NoRow \/ donation[k] \in DonationRow
  /\ \A a \in Applications : application[a] = NoRow \/ application[a] \in ApplicationRow
  /\ \A i \in 1 .. Len(award) : award[i] \in AwardRow
  /\ careful \in BOOLEAN
  /\ \A r \in Requests : req[r] \in {Idle} \cup Decision \cup Transition \cup Write

-----------------------------------------------------------------------------
Init ==
  /\ pool = [p \in Pools |-> NoRow]
  /\ donation = [k \in Keys |-> NoRow]
  /\ application = [a \in Applications |-> NoRow]
  /\ award = << >>
  /\ req = [r \in Requests |-> Idle]
  /\ careful = TRUE

(* Creating and funding a pool and applying to it.  What these use cases   *)
(* read before their transaction cannot change, so each is one step.       *)

InsertPool(p, row) ==
  /\ pool[p] = NoRow
  /\ pool' = [pool EXCEPT ![p] = row]

\* A new pool is open and empty.
CreatePool(p, body) ==
  /\ CanFund(body.owner)
  /\ InsertPool(p, [available |-> 0, restriction |-> body.restriction])
  /\ UNCHANGED <<donation, application, award, req>>

\* SELECT .. FOR UPDATE of the pool.
Locked(p) == pool[p].available

\* fund_pool_with_audit: the balance is read and written under the row lock and
\* the whole transaction fails when the key has been used before.
Donate(p, k, amount) ==
  /\ Locked(p) + amount <= MaxMinor
  /\ pool' = [pool EXCEPT ![p].available = Locked(p) + amount]
  /\ donation[k] = NoRow
  /\ donation' = [donation EXCEPT ![k] = [pool |-> p, amount |-> amount]]

FundPool(p, k, amount) ==
  /\ \E donor \in Users : CanFund(donor)
  /\ amount > 0
  /\ pool[p] # NoRow
  /\ Donate(p, k, amount)
  /\ UNCHANGED <<application, award, req>>

InsertApplication(a, row) ==
  /\ application[a] = NoRow
  /\ application' = [application EXCEPT ![a] = row]

Apply(a, f) ==
  /\ pool[f.pool] # NoRow
  /\ CanApply(f)
  /\ InsertApplication(a, [pool |-> f.pool, status |-> "Submitted"])
  /\ UNCHANGED <<pool, donation, award, req>>

(* approve_application and reject_application, up to their first read.     *)

\* A mistake the runs must notice: the status is not looked at.
BeginApproveAgain(r, a, amount) ==
  /\ req[r] = Idle
  /\ \E actor \in Users : CanReview(actor)
  /\ amount > 0
  /\ application[a] # NoRow
  /\ req' = [req EXCEPT ![r] =
       [op |-> "decide", application |-> a, to |-> "Approved", amount |-> amount]]
  /\ UNCHANGED <<pool, donation, application, award>>

BeginApprove(r, a, amount) ==
  /\ req[r] = Idle
  /\ \E actor \in Users : CanReview(actor)
  /\ amount > 0
  /\ application[a] # NoRow
  /\ Reviewable(application[a].status)
  /\ req' = [req EXCEPT ![r] =
       [op |-> "decide", application |-> a, to |-> "Approved", amount |-> amount]]
  /\ UNCHANGED <<pool, donation, application, award>>

\* Only Money::new looks at the amount of a rejection.
BeginReject(r, a, amount) ==
  /\ req[r] = Idle
  /\ \E actor \in Users : CanReview(actor)
  /\ amount >= 0
  /\ application[a] # NoRow
  /\ Reviewable(application[a].status)
  /\ req' = [req EXCEPT ![r] =
       [op |-> "decide", application |-> a, to |-> "Rejected", amount |-> amount]]
  /\ UNCHANGED <<pool, donation, application, award>>

(* disburse_award and revoke_award, up to their first read.                *)

BeginMove(r, i, target) ==
  /\ req[r] = Idle
  /\ \E actor \in Users : CanReview(actor)
  /\ <<award[i].status, target>> \in AcceptedMoves
  /\ req' = [req EXCEPT ![r] = [op |-> "move", award |-> i, to |-> target]]
  /\ UNCHANGED <<pool, donation, application, award>>

BeginDisburse(r, i) == BeginMove(r, i, "Disbursed")

BeginRevoke(r, i) == BeginMove(r, i, "Revoked")

(* The read of the pool, and the balance computed from it.                 *)

PoolOf(task) ==
  IF task.op = "decide" THEN application[task.application].pool
  ELSE application[award[task.award].application].pool

\* A mistake the runs must notice: a disbursement takes the amount again.
NewBalanceDisbursing(task, available) ==
  CASE task.to = "Approved" -> available - task.amount
    [] task.to = "Revoked"  -> available + award[task.award].amount
    [] task.to = "Disbursed" -> available - award[task.award].amount
    [] OTHER                -> available

\* What the transaction will store: approving takes the amount, revoking gives
\* the award's amount back, rejecting and disbursing store what was read.
NewBalance(task, available) ==
  CASE task.to = "Approved" -> available - task.amount
    [] task.to = "Revoked"  -> available + award[task.award].amount
    [] OTHER                -> available

\* A mistake the runs must notice: ensure_pool_balance is not called.
ReadPoolUnchecked(r) ==
  LET task == req[r]
      available == pool[PoolOf(task)].available
  IN
  /\ task.op \in {"decide", "move"}
  /\ NewBalance(task, available) <= MaxMinor
  /\ req' = [req EXCEPT ![r] =
       [op |-> "write", task |-> task, available |-> NewBalance(task, available)]]
  /\ UNCHANGED <<pool, donation, application, award>>

ReadPool(r) ==
  LET task == req[r]
      available == pool[PoolOf(task)].available
  IN
  /\ task.op \in {"decide", "move"}
  /\ task.to = "Approved" => task.amount <= available
  /\ NewBalance(task, available) <= MaxMinor
  /\ req' = [req EXCEPT ![r] =
       [op |-> "write", task |-> task, available |-> NewBalance(task, available)]]
  /\ UNCHANGED <<pool, donation, application, award>>

(* The transactions.  They compare nothing with what the task read.        *)

StorePool(r) == pool' = [pool EXCEPT ![PoolOf(req[r].task)].available = req[r].available]

\* A mistake the runs must notice: a rejection inserts no award row.
CommitDecisionUnrecorded(r) ==
  LET task == req[r].task IN
  /\ req[r].op = "write"
  /\ task.op = "decide"
  /\ application' = [application EXCEPT ![task.application].status = task.to]
  /\ IF task.to = "Rejected" THEN UNCHANGED award
     ELSE award' = Append(award,
       [application |-> task.application, amount |-> task.amount, status |-> task.to])
  /\ StorePool(r)
  /\ req' = [req EXCEPT ![r] = Idle]
  /\ UNCHANGED donation

\* decide_application_with_audit
CommitDecision(r) ==
  LET task == req[r].task IN
  /\ req[r].op = "write"
  /\ task.op = "decide"
  /\ application' = [application EXCEPT ![task.application].status = task.to]
  /\ award' = Append(award,
       [application |-> task.application, amount |-> task.amount, status |-> task.to])
  /\ StorePool(r)
  /\ req' = [req EXCEPT ![r] = Idle]
  /\ UNCHANGED donation

\* transition_award_with_audit
CommitMove(r) ==
  LET task == req[r].task IN
  /\ req[r].op = "write"
  /\ task.op = "move"
  /\ award' = [award EXCEPT ![task.award].status = task.to]
  /\ StorePool(r)
  /\ req' = [req EXCEPT ![r] = Idle]
  /\ UNCHANGED <<donation, application>>

\* The task ends between two steps: client gone, process restarted, or ReadPool
\* refused what it read.
Lost(r) ==
  /\ req[r] # Idle
  /\ req' = [req EXCEPT ![r] = Idle]
  /\ UNCHANGED <<pool, donation, application, award>>

DonorsAndFamilies ==
  \/ \E p \in Pools, body \in PoolBodies : CreatePool(p, body)
  \/ \E p \in Pools, k \in Keys, amount \in Amounts : FundPool(p, k, amount)
  \/ \E a \in Applications, f \in Forms : Apply(a, f)

Reviewers ==
  \E r \in Requests :
    \/ \E a \in Applications, amount \in Amounts :
         BeginApprove(r, a, amount) \/ BeginReject(r, a, amount)
    \/ \E i \in 1 .. Len(award) : BeginDisburse(r, i) \/ BeginRevoke(r, i)
    \/ ReadPool(r)
    \/ CommitDecision(r)
    \/ CommitMove(r)
    \/ Lost(r)

Step == DonorsAndFamilies \/ Reviewers

(* Disciplines the code leaves to its operators.  OneAtATime: while a task *)
(* works on a pool, no other task does and no donation to it commits.      *)
(* NoRepeats: an award that is already revoked is not revoked again.       *)

TaskOf(r) == IF req[r].op = "write" THEN req[r].task ELSE req[r]

Busy(p) == {r \in Requests : req[r] # Idle /\ PoolOf(TaskOf(r)) = p}

OneAtATime ==
  \A p \in Pools :
    /\ Cardinality(Busy(p)') <= 1
    /\ Busy(p) # {} => \A k \in Keys :
         donation[k] = NoRow /\ donation'[k] # NoRow => donation'[k].pool # p

Repeats(r) ==
  LET task == TaskOf(r) IN
  task.op = "move" /\ task.to = "Revoked" /\ award[task.award].status = "Revoked"

NoRepeats == \A r \in Requests : ~Repeats(r)

Next == Step /\ careful' = (careful /\ OneAtATime /\ NoRepeats')

Spec == Init /\ [][Next]_vars

-----------------------------------------------------------------------------
(* Properties under any interleaving.                                      *)

AwardsOf(a) == {i \in 1 .. Len(award) : award[i].application = a}

\* The status of an application is what its last award row says it is, and an
\* application without an award is undecided: decide_application_with_audit
\* writes both or neither, in the order of the commits.
StatusIsLastDecision ==
  \A a \in Applications : application[a] # NoRow =>
    IF AwardsOf(a) = {} THEN application[a].status = "Submitted"
    ELSE application[a].status = "Rejected" <=> award[Max(AwardsOf(a))].status = "Rejected"

-----------------------------------------------------------------------------
(* Properties of the runs in which tasks of a pool have not overlapped and *)
(* nothing has been revoked twice, whatever else was interleaved.          *)

DonationsTo(p) == {k \in Keys : donation[k] # NoRow /\ donation[k].pool = p}

Donated(p) == SumFunction([k \in DonationsTo(p) |-> donation[k].amount])

\* The awards of a pool that have taken their amount from it and not returned it.
AwardsFrom(p) ==
  {i \in 1 .. Len(award) : /\ application[award[i].application].pool = p
                           /\ award[i].status \in {"Approved", "Disbursed"}}

Awarded(p) == SumFunction([i \in AwardsFrom(p) |-> award[i].amount])

\* Every unit a pool received is either still available or in an award that is
\* approved or disbursed.
Conserved ==
  careful => \A p \in Pools : pool[p] # NoRow => pool[p].available = Donated(p) - Awarded(p)

\* An application is decided once.
DecidedOnce == careful => \A a \in Applications : Cardinality(AwardsOf(a)) <= 1

\* An award only moves along validate_award_transition: what was disbursed is
\* never revoked.
AwardMovesOnly ==
  [][careful' => \A i \in 1 .. Len(award) :
       award'[i].status # award[i].status
         => <<award[i].status, award'[i].status>> \in AwardMoves]_award

=============================================================================
