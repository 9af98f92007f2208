------------------------------- MODULE Records -------------------------------
(***************************************************************************)
(* The records around the money: schools and their verification, KYC       *)
(* reviews, savings plans with milestones and contributors, achievement    *)
(* credentials, and the audit trail that each leaves.                      *)
(*                                                                         *)
(* Schools and credentials are written in one transaction with their audit *)
(* entry; KYC profiles and savings records are written first and audited   *)
(* by a statement of its own, which may never come.  The trail is read in  *)
(* the order of created_at, which is when the writing transaction began,   *)
(* so `newest` keeps of every subject's entries the one stamped last.      *)
(***************************************************************************)
EXTENDS Naturals, FiniteSets, FiniteSetsExt

CONSTANTS
  Users,
  Role,         \* the role of each user
  Children,     \* child profiles
  Vaults,
  Owner,        \* the guardian of a child, the owner of a vault
  Schools,
  Reviewed,     \* the users whose KYC profile is reviewed
  Items,        \* fresh ids of plans, milestones and contributors
  Credentials,  \* fresh ids of credentials
  Recent,       \* how many credentials list_recent returns
  Recipients,   \* users a request names as recipient or contributor, or None
  MaxStamps,    \* bound: audit entries begun for one subject
  Requests,     \* tasks that may be in flight at once
  None

ASSUME RecordsAssumption ==
  /\ Role \in [Users -> {"Parent", "Student", "SchoolAdmin", "PlatformAdmin",
                         "Contributor", "Donor"}]
  /\ Owner \in [Children \cup Vaults -> Users]
  /\ Schools \cap Reviewed = {} /\ (Schools \cup Reviewed) \cap Items = {}
  /\ IsFiniteSet(Credentials) /\ Recent \in Nat /\ MaxStamps \in Nat
  /\ None \notin Schools \cup Reviewed \cup Items
  /\ None \notin {"pending", "verified", "rejected", "approved", "created"}
  /\ None \notin [kind : {"plan"}, parent : Children] \cup [kind : {"milestone"}, parent : Vaults]
                 \cup [kind : {"contributor"}, parent : Vaults, user : Recipients]

VARIABLES
  school,      \* verification status of every school, None before it exists
  kyc,         \* status of every reviewed user's KYC profile, None before it exists
  item,        \* savings_plans, milestones and vault_contributors, by id
  credential,  \* achievement_credentials, by id
  newest,      \* of every subject: the state in its audit entry stamped last
  clock,       \* of every subject: the stamps given
  req,         \* what each task carries from step to step
  part,        \* bound: the part of the program at work; they share no rows
  disturbed,   \* history: subjects with overlapping reviews or a lost audit
  verified     \* history: schools that a platform admin has verified

vars == <<school, kyc, item, credential, newest, clock, req, part, disturbed, verified>>

Subjects == Schools \cup Reviewed \cup Items

NoEntry == [at |-> 0, state |-> None]

Idle == [op |-> "idle"]

Init ==
  /\ school = [s \in Schools |-> None]
  /\ kyc = [u \in Reviewed |-> None]
  /\ item = [i \in Items |-> None]
  /\ credential = [c \in Credentials |-> None]
  /\ newest = [x \in Subjects |-> NoEntry]
  /\ clock = [x \in Subjects |-> 0]
  /\ req = [r \in Requests |-> Idle]
  /\ part \in {"schools", "reviews", "savings"}
  /\ disturbed = {}
  /\ verified = {}

-----------------------------------------------------------------------------
(* The audit trail.                                                        *)

Goes(r, state) == req' = [req EXCEPT ![r] = state]

\* The stamp of a transaction or statement that begins now.
Stamps(x) ==
  /\ clock[x] < MaxStamps
  /\ clock' = [clock EXCEPT ![x] = @ + 1]

\* list_by_entity sorts by created_at: its first entry is the one stamped last.
Newest(x) == newest[x].state

Audits(x, state, at) ==
  newest' = [newest EXCEPT ![x] = IF at > @.at THEN [at |-> at, state |-> state] ELSE @]

\* The subject a task writes an audit entry for.
On(task) == IF task.op \in {"verify", "review", "audit", "insert"} THEN task.subject ELSE None

\* A review that begins while another is under way disturbs the trail.
Overlaps(x) ==
  disturbed' = IF \E r \in Requests : On(req[r]) = x THEN disturbed \cup {x} ELSE disturbed

\* PgAuditLogRepository.append, a statement of its own after the write.
RecordAudit(r) ==
  LET task == req[r] IN
  /\ task.op = "audit"
  /\ Stamps(task.subject)
  /\ Audits(task.subject, task.state, clock'[task.subject])
  /\ Goes(r, Idle)
  /\ UNCHANGED <<school, kyc, item, credential, disturbed, verified, part>>

-----------------------------------------------------------------------------
(* Schools.                                                                *)

SchoolStatuses == {"pending", "verified", "rejected"}

CreateSchool(u, s) ==
  /\ Role[u] = "PlatformAdmin"
  /\ school[s] = None
  /\ part = "schools"
  /\ school' = [school EXCEPT ![s] = "pending"]
  /\ Stamps(s)
  /\ Audits(s, "pending", clock'[s])
  /\ UNCHANGED <<kyc, item, credential, req, disturbed, verified, part>>

\* verify_school reads nothing: any status may follow any.  Ids are learnt from
\* answers, so the row is there (NotFound is left out).
BeginVerify(r, u, s, status) ==
  /\ req[r] = Idle
  /\ Role[u] = "PlatformAdmin"
  /\ school[s] # None
  /\ Stamps(s)
  /\ Overlaps(s)
  /\ Goes(r, [op |-> "verify", subject |-> s, state |-> status, at |-> clock'[s]])
  /\ UNCHANGED <<school, kyc, item, credential, newest, verified, part>>

\* A mistake the runs must notice: only a pending school is updated, and the
\* entry is written all the same.
VerifyPendingOnly(r) ==
  LET task == req[r]
      pending == school[task.subject] = "pending"
  IN
  /\ task.op = "verify"
  /\ school' = IF pending THEN [school EXCEPT ![task.subject] = task.state] ELSE school
  /\ verified' = IF pending /\ task.state = "verified" THEN verified \cup {task.subject}
                 ELSE verified
  /\ Audits(task.subject, task.state, task.at)
  /\ Goes(r, Idle)
  /\ UNCHANGED <<kyc, item, credential, clock, disturbed, part>>

\* verify_with_audit: the update, the entry and the commit.
Verify(r) ==
  LET task == req[r] IN
  /\ task.op = "verify"
  /\ school' = [school EXCEPT ![task.subject] = task.state]
  /\ verified' = IF task.state = "verified" THEN verified \cup {task.subject} ELSE verified
  /\ Audits(task.subject, task.state, task.at)
  /\ Goes(r, Idle)
  /\ UNCHANGED <<kyc, item, credential, clock, disturbed, part>>

-----------------------------------------------------------------------------
(* KYC reviews.                                                            *)

KycStatuses == {"pending", "approved"}

BeginReview(r, u, user, status) ==
  /\ req[r] = Idle
  /\ Role[u] = "PlatformAdmin"
  /\ part = "reviews"
  /\ Overlaps(user)
  /\ clock[user] < MaxStamps
  /\ Goes(r, [op |-> "review", subject |-> user, state |-> status, previous |-> kyc[user]])
  /\ UNCHANGED <<school, kyc, item, credential, newest, clock, verified, part>>

\* kyc.upsert; the change is judged by the status that was read before.
Upsert(r) ==
  LET task == req[r] IN
  /\ task.op = "review"
  /\ kyc' = [kyc EXCEPT ![task.subject] = task.state]
  /\ Goes(r, IF task.previous # task.state
             THEN [op |-> "audit", subject |-> task.subject, state |-> task.state]
             ELSE Idle)
  /\ UNCHANGED <<school, item, credential, newest, clock, disturbed, verified, part>>

-----------------------------------------------------------------------------
(* Savings plans, milestones and contributors.                             *)

BeginItem(r, u, i, row) ==
  /\ req[r] = Idle
  /\ part = "savings"
  /\ item[i] = None /\ clock[i] = 0
  /\ \A s \in Requests : On(req[s]) # i
  /\ Owner[row.parent] = u
  /\ Goes(r, [op |-> "insert", subject |-> i, row |-> row])
  /\ UNCHANGED <<school, kyc, item, credential, newest, clock, disturbed, verified, part>>

\* Each use case up to its insert.  The owner of a child or a vault never changes.
CreatePlan(r, u, i, child) ==
  Role[u] = "Parent" /\ BeginItem(r, u, i, [kind |-> "plan", parent |-> child])

CreateMilestone(r, u, i, v) ==
  BeginItem(r, u, i, [kind |-> "milestone", parent |-> v])

AddContributor(r, u, i, v, user) ==
  BeginItem(r, u, i, [kind |-> "contributor", parent |-> v, user |-> user])

\* A vault has a contributor once (UNIQUE in 0003_education_core.sql).
Conflicts(row) ==
  row.kind = "contributor" /\ \E i \in Items : item[i] = row

\* The row is inserted and its audit entry is next.
InsertItem(r, kind) ==
  LET task == req[r] IN
  /\ task.op = "insert"
  /\ task.row.kind = kind
  /\ item' = [item EXCEPT ![task.subject] = task.row]
  /\ Goes(r, [op |-> "audit", subject |-> task.subject, state |-> "created"])
  /\ UNCHANGED <<school, kyc, credential, newest, clock, disturbed, verified, part>>

InsertPlan(r) == InsertItem(r, "plan")

InsertMilestone(r) == InsertItem(r, "milestone")

InsertContributor(r) ==
  req[r].op = "insert" /\ ~Conflicts(req[r].row) /\ InsertItem(r, "contributor")

\* The constraint refuses the insert: an error, and no audit entry.
InsertRefused(r) ==
  /\ req[r].op = "insert"
  /\ Conflicts(req[r].row)
  /\ Goes(r, Idle)
  /\ UNCHANGED <<school, kyc, item, credential, newest, clock, disturbed, verified, part>>

-----------------------------------------------------------------------------
(* Achievement credentials.  Their audit entry is written in the           *)
(* transaction that inserts them, and they never change.                   *)

\* A mistake the runs must notice: a school of any status may issue.
MayIssueForAnySchool(u, s) ==
  \/ Role[u] = "PlatformAdmin"
  \/ Role[u] = "SchoolAdmin" /\ s # None

\* validate_issuer
MayIssue(u, s) ==
  \/ Role[u] = "PlatformAdmin"
  \/ Role[u] = "SchoolAdmin" /\ s # None /\ school[s] = "verified"

\* The child is read, the issuer and the input are validated.
BeginIssue(r, u, child, recipient, s) ==
  /\ req[r] = Idle
  /\ part = "schools"
  /\ MayIssue(u, s)
  /\ s # None => school[s] # None
  /\ recipient # Owner[child]
  /\ Goes(r, [op |-> "issue", child |-> child, recipient |-> recipient,
              school |-> s, issuer |-> u])
  /\ UNCHANGED <<school, kyc, item, credential, newest, clock, disturbed, verified, part>>

\* create_with_audit: the school may have lost its verification by now.
StoreCredential(r, c) ==
  LET task == req[r] IN
  /\ task.op = "issue"
  /\ credential[c] = None
  /\ credential' = [credential EXCEPT ![c] =
       [child |-> task.child, recipient |-> task.recipient,
        school |-> task.school, issuer |-> task.issuer]]
  /\ Goes(r, Idle)
  /\ UNCHANGED <<school, kyc, item, newest, clock, disturbed, verified, part>>

Issued == {c \in Credentials : credential[c] # None}

\* get_credential
MayGet(u, c) ==
  \/ Role[u] = "PlatformAdmin"
  \/ Role[u] = "Student" /\ credential[c].recipient = u
  \/ Role[u] = "SchoolAdmin" /\ credential[c].issuer = u
  \/ Role[u] = "Parent" /\ Owner[credential[c].child] = u

\* list_by_owner
ChildrenOf(u) == {x \in Children : Owner[x] = u}

\* The statements by which list_credentials answers, none for a request it
\* refuses; child is the filter's child or None, mine its issued_by_me.
Queries(u, child, mine) ==
  CASE Role[u] = "Parent" ->
         {[by |-> "child", of |-> x] : x \in {y \in ChildrenOf(u) : child \in {None, y}}}
    [] Role[u] = "Student" ->
         IF child = None /\ ~mine THEN {[by |-> "recipient", of |-> u]} ELSE {}
    [] Role[u] = "SchoolAdmin" ->
         IF child = None THEN {[by |-> "issuer", of |-> u]} ELSE {}
    [] Role[u] = "PlatformAdmin" ->
         IF mine THEN {[by |-> "issuer", of |-> u]}
         ELSE IF child # None THEN {[by |-> "child", of |-> child]}
         ELSE {[by |-> "recent", of |-> None]}
    [] OTHER -> {}

\* What a statement may return now; which credentials are recent is left open.
Answers(query) ==
  CASE query.by = "recent" ->
         kSubset(IF Cardinality(Issued) < Recent THEN Cardinality(Issued) ELSE Recent, Issued)
    [] query.by = "child" -> {{c \in Issued : credential[c].child = query.of}}
    [] query.by = "recipient" -> {{c \in Issued : credential[c].recipient = query.of}}
    [] query.by = "issuer" -> {{c \in Issued : credential[c].issuer = query.of}}

Matches(u, child, mine) ==
  {c \in Issued : /\ MayGet(u, c)
                  /\ child \in {None, credential[c].child}
                  /\ mine => credential[c].issuer = u}

BeginList(r, u, child, mine) ==
  /\ req[r] = Idle
  /\ Queries(u, child, mine) # {}
  /\ Goes(r, [op |-> "list", user |-> u, left |-> Queries(u, child, mine), found |-> {},
              there |-> Matches(u, child, mine)])
  /\ UNCHANGED <<school, kyc, item, credential, newest, clock, disturbed, verified, part>>

\* A mistake the runs must notice: a parent's children are listed until one has some.
RunQueryUntilFound(r, query) ==
  LET task == req[r] IN
  /\ task.op = "list"
  /\ query \in task.left
  /\ \E answer \in Answers(query) :
       Goes(r, [task EXCEPT !.found = @ \cup answer,
                            !.left = IF answer = {} THEN @ \ {query} ELSE {}])
  /\ UNCHANGED <<school, kyc, item, credential, newest, clock, disturbed, verified, part>>

\* One statement after the other, while credentials are issued.
RunQuery(r, query) ==
  LET task == req[r] IN
  /\ task.op = "list"
  /\ query \in task.left
  /\ \E answer \in Answers(query) :
       Goes(r, [task EXCEPT !.found = @ \cup answer, !.left = @ \ {query}])
  /\ UNCHANGED <<school, kyc, item, credential, newest, clock, disturbed, verified, part>>

AnswerList(r) ==
  /\ req[r].op = "list"
  /\ req[r].left = {}
  /\ Goes(r, Idle)
  /\ UNCHANGED <<school, kyc, item, credential, newest, clock, disturbed, verified, part>>

-----------------------------------------------------------------------------
\* A statement fails or the process dies: what was not committed is gone, and a
\* write whose audit was still to come stays unaudited.
Lost(r) ==
  /\ req[r] # Idle
  /\ disturbed' = IF req[r].op = "audit" THEN disturbed \cup {req[r].subject} ELSE disturbed
  /\ Goes(r, Idle)
  /\ UNCHANGED <<school, kyc, item, credential, newest, clock, verified, part>>

Next ==
  \/ \E u \in Users, s \in Schools : CreateSchool(u, s)
  \/ \E r \in Requests :
       \/ \E u \in Users, s \in Schools, status \in SchoolStatuses : BeginVerify(r, u, s, status)
       \/ \E u \in Users, user \in Reviewed, status \in KycStatuses : BeginReview(r, u, user, status)
       \/ \E u \in Users, i \in Items :
            \/ \E child \in Children : CreatePlan(r, u, i, child)
            \/ \E v \in Vaults : CreateMilestone(r, u, i, v)
            \/ \E v \in Vaults, user \in Recipients \ {None} : AddContributor(r, u, i, v, user)
       \/ \E u \in Users, child \in Children, recipient \in Recipients,
             s \in Schools \cup {None} : BeginIssue(r, u, child, recipient, s)
       \/ \E u \in Users, child \in Children \cup {None}, mine \in BOOLEAN :
            BeginList(r, u, child, mine)
       \/ Verify(r) \/ Upsert(r) \/ RecordAudit(r)
       \/ InsertPlan(r) \/ InsertMilestone(r) \/ InsertContributor(r) \/ InsertRefused(r)
       \/ \E c \in Credentials : StoreCredential(r, c)
       \/ req[r].op = "list" /\ \E query \in req[r].left : RunQuery(r, query)
       \/ AnswerList(r)
       \/ Lost(r)

Spec == Init /\ [][Next]_vars

-----------------------------------------------------------------------------
StateOf(x) ==
  IF x \in Schools THEN school[x] ELSE IF x \in Reviewed THEN kyc[x]
  ELSE IF item[x] = None THEN None ELSE "created"

\* Read in the order of created_at, the trail of a school, a KYC profile or a
\* savings record ends in the state of its row, once no task is about to write
\* either and unless reviews of the same subject overlapped or a task was lost
\* between the write and its audit.  With overlapping reviews it may end
\* elsewhere: a review that read the status it sets leaves no entry, and a
\* school's entries are stamped when their transactions began.
TrailEndsInRow ==
  \A x \in Subjects :
    x \notin disturbed /\ (\A r \in Requests : On(req[r]) # x)
      => Newest(x) = StateOf(x)

\* A school admin issues for a school that a platform admin has verified at some
\* time (it may have lost that status since, even before the credential is stored),
\* and nobody makes a guardian the recipient of the child's own credential
\* (validate_issuer and validate_input, whose reads come before the transaction).
IssuedForVerifiedSchools ==
  \A c \in Issued :
    /\ Role[credential[c].issuer] = "SchoolAdmin" => credential[c].school \in verified
    /\ credential[c].recipient # Owner[credential[c].child]

\* list_credentials and get_credential agree: a list names only what its reader
\* may get, and misses nothing that matched when the request came in, although it
\* is put together from several statements and credentials are issued between them
\* (none is ever withdrawn; what is issued meanwhile may be listed or not).  A
\* platform admin's list of Recent items counts as complete, since list_recent
\* cuts it there.
ListsWhatMayBeRead ==
  \A r \in Requests : req[r].op = "list" =>
    /\ \A c \in req[r].found : MayGet(req[r].user, c)
    /\ req[r].left = {} =>
         \/ req[r].there \subseteq req[r].found
         \/ Role[req[r].user] = "PlatformAdmin" /\ Cardinality(req[r].found) = Recent
=============================================================================
