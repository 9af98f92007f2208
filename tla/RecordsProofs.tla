----------------------------- MODULE RecordsProofs -----------------------------
(***************************************************************************)
(* Theorems about Records, for every number of schools, users, records,    *)
(* credentials and concurrent tasks.                                       *)
(***************************************************************************)
EXTENDS Records, FiniteSetTheorems, TLAPS

ItemRow ==
  [kind : {"plan"}, parent : Children] \cup [kind : {"milestone"}, parent : Vaults]
    \cup [kind : {"contributor"}, parent : Vaults, user : Recipients]

States == SchoolStatuses \cup KycStatuses \cup {"created", None}

Query == [by : {"child", "recipient", "issuer", "recent"}, of : Children \cup Users \cup {None}]

Verifying == [op : {"verify"}, subject : Schools, state : SchoolStatuses, at : Nat]
Reviewing ==
  [op : {"review"}, subject : Reviewed, state : KycStatuses, previous : KycStatuses \cup {None}]
Auditing == [op : {"audit"}, subject : Reviewed \cup Items, state : KycStatuses \cup {"created"}]
Inserting == [op : {"insert"}, subject : Items, row : ItemRow]
Issuing ==
  [op : {"issue"}, child : Children, recipient : Recipients, school : Schools \cup {None},
   issuer : Users]
Listing ==
  [op : {"list"}, user : Users, left : SUBSET Query, found : SUBSET Credentials,
   there : SUBSET Credentials]

Task == {Idle} \cup Verifying \cup Reviewing \cup Auditing \cup Inserting \cup Issuing \cup Listing

CredentialRow ==
  [child : Children, recipient : Recipients, school : Schools \cup {None}, issuer : Users]

TypeOK ==
  /\ school \in [Schools -> SchoolStatuses \cup {None}]
  /\ kyc \in [Reviewed -> KycStatuses \cup {None}]
  /\ item \in [Items -> ItemRow \cup {None}]
  /\ credential \in [Credentials -> CredentialRow \cup {None}]
  /\ newest \in [Subjects -> [at : Nat, state : States]]
  /\ clock \in [Subjects -> Nat]
  /\ req \in [Requests -> Task]
  /\ disturbed \subseteq Subjects
  /\ verified \subseteq Schools

(* The trail of an undisturbed subject.                                    *)

\* At most one task writes the subject or is about to.
Alone(x) == \A r, s \in Requests : On(req[r]) = x /\ On(req[s]) = x => r = s

\* The newest entry is about the row as it stands, but for a task that has written the
\* row and still has to audit it.  A verification was stamped after that entry.
TaskFits(x, task) ==
  /\ task.op = "audit" => task.state = StateOf(x)
  /\ task.op # "audit" => Newest(x) = StateOf(x)
  /\ task.op = "review" => task.previous = StateOf(x)
  /\ task.op = "verify" => newest[x].at < task.at /\ task.at <= clock[x] /\ StateOf(x) # None

Settled(x) ==
  /\ newest[x].at <= clock[x]
  /\ Alone(x)
  /\ \A r \in Requests : On(req[r]) = x => TaskFits(x, req[r])
  /\ (\A r \in Requests : On(req[r]) # x) => Newest(x) = StateOf(x)

TrailInv == \A x \in Subjects : x \notin disturbed => Settled(x)

(* Issuers.                                                                *)

MayStand(row) ==
  /\ Role[row.issuer] = "SchoolAdmin" => row.school \in verified
  /\ row.recipient # Owner[row.child]

IssuersInv ==
  /\ \A s \in Schools : school[s] = "verified" => s \in verified
  /\ \A r \in Requests : req[r].op = "issue" => MayStand(req[r])
  /\ \A c \in Issued : MayStand(credential[c])

(* Lists.                                                                  *)

\* The reader may put this query.
Permitted(u, query) ==
  \/ query.by = "child" /\ Role[u] = "PlatformAdmin"
  \/ query.by = "child" /\ Role[u] = "Parent" /\ Owner[query.of] = u
  \/ query.by = "recipient" /\ Role[u] = "Student" /\ query.of = u
  \/ query.by = "issuer" /\ Role[u] = "PlatformAdmin"
  \/ query.by = "issuer" /\ Role[u] = "SchoolAdmin" /\ query.of = u
  \/ query.by = "recent" /\ Role[u] = "PlatformAdmin"

\* The query answers with this credential.
Covers(query, c) ==
  \/ query.by = "child" /\ credential[c].child = query.of
  \/ query.by = "recipient" /\ credential[c].recipient = query.of
  \/ query.by = "issuer" /\ credential[c].issuer = query.of
  \/ query.by = "recent"

Cut(task) == Role[task.user] = "PlatformAdmin" /\ Cardinality(task.found) = Recent

ListSound(task) ==
  /\ task.found \subseteq Issued /\ task.there \subseteq Issued
  /\ \A c \in task.found : MayGet(task.user, c)
  /\ \A query \in task.left : Permitted(task.user, query)
  /\ \A query \in task.left : query.by = "recent" => task.left = {query} /\ task.found = {}
  /\ \/ \A c \in task.there : c \in task.found \/ \E query \in task.left : Covers(query, c)
     \/ task.left = {} /\ Cut(task)

ListsInv == \A r \in Requests : req[r].op = "list" => ListSound(req[r])

-----------------------------------------------------------------------------
(* Types.                                                                  *)

\* A task's op tells which record it is.
LEMMA TaskKind ==
  ASSUME TypeOK, NEW r \in Requests
  PROVE  /\ req[r].op = "verify" => req[r] \in Verifying
         /\ req[r].op = "review" => req[r] \in Reviewing
         /\ req[r].op = "audit" => req[r] \in Auditing
         /\ req[r].op = "insert" => req[r] \in Inserting
         /\ req[r].op = "issue" => req[r] \in Issuing
         /\ req[r].op = "list" => req[r] \in Listing
<1>1. req[r] \in Task
  BY DEF TypeOK
<1> QED
  BY <1>1 DEF Task, Idle, Verifying, Reviewing, Auditing, Inserting, Issuing, Listing

LEMMA GoesTo ==
  ASSUME TypeOK, NEW r \in Requests, NEW state, Goes(r, state)
  PROVE  /\ req'[r] = state
         /\ \A s \in Requests : s # r => req'[s] = req[s]
         /\ state \in Task => req' \in [Requests -> Task]
BY DEF TypeOK, Goes

\* The statements of a list are such as its reader may run, and find what he asks for.
LEMMA QueriesAre ==
  ASSUME TypeOK, NEW u \in Users, NEW child \in Children \cup {None}, NEW mine \in BOOLEAN
  PROVE  /\ Queries(u, child, mine) \subseteq Query
         /\ \A query \in Queries(u, child, mine) :
              /\ Permitted(u, query)
              /\ query.by = "recent" => Queries(u, child, mine) = {query}
<1>1. CASE Role[u] = "Parent"
  <2>1. Queries(u, child, mine) =
          {[by |-> "child", of |-> x] : x \in {y \in ChildrenOf(u) : child \in {None, y}}}
    BY <1>1 DEF Queries
  <2> QED
    BY <1>1, <2>1 DEF ChildrenOf, Query, Permitted
<1>2. CASE Role[u] = "Student"
  <2>1. Queries(u, child, mine) \subseteq {[by |-> "recipient", of |-> u]}
    BY <1>2 DEF Queries
  <2> QED
    BY <1>2, <2>1 DEF Query, Permitted
<1>3. CASE Role[u] = "SchoolAdmin"
  <2>1. Queries(u, child, mine) \subseteq {[by |-> "issuer", of |-> u]}
    BY <1>3 DEF Queries
  <2> QED
    BY <1>3, <2>1 DEF Query, Permitted
<1>4. CASE Role[u] = "PlatformAdmin"
  <2>1. \/ Queries(u, child, mine) = {[by |-> "issuer", of |-> u]}
        \/ child # None /\ Queries(u, child, mine) = {[by |-> "child", of |-> child]}
        \/ Queries(u, child, mine) = {[by |-> "recent", of |-> None]}
    BY <1>4 DEF Queries
  <2> QED
    BY <1>4, <2>1 DEF Query, Permitted
<1>5. CASE Role[u] \notin {"Parent", "Student", "SchoolAdmin", "PlatformAdmin"}
  <2>1. Queries(u, child, mine) = {}
    BY <1>5 DEF Queries
  <2> QED
    BY <2>1
<1> QED
  BY <1>1, <1>2, <1>3, <1>4, <1>5

LEMMA AnswersAre ==
  ASSUME TypeOK, NEW query \in Query, NEW answer \in Answers(query)
  PROVE  /\ answer \subseteq Issued
         /\ query.by # "recent" => answer = {c \in Issued : Covers(query, c)}
         /\ query.by = "recent" => answer = Issued \/ Cardinality(answer) = Recent
<1>1. CASE query.by = "child"
  <2>1. Answers(query) = {{c \in Issued : credential[c].child = query.of}}
    BY <1>1 DEF Answers
  <2> QED
    BY <1>1, <2>1 DEF Covers
<1>2. CASE query.by = "recipient"
  <2>1. Answers(query) = {{c \in Issued : credential[c].recipient = query.of}}
    BY <1>2 DEF Answers
  <2> QED
    BY <1>2, <2>1 DEF Covers
<1>3. CASE query.by = "issuer"
  <2>1. Answers(query) = {{c \in Issued : credential[c].issuer = query.of}}
    BY <1>3 DEF Answers
  <2> QED
    BY <1>3, <2>1 DEF Covers
<1>4. CASE query.by = "recent"
  <2>1. PICK k : /\ k = IF Cardinality(Issued) < Recent THEN Cardinality(Issued) ELSE Recent
                 /\ Answers(query) = kSubset(k, Issued)
    BY <1>4 DEF Answers
  <2>2. answer \in SUBSET Issued /\ Cardinality(answer) = k
    BY <2>1 DEF kSubset
  <2>3. IsFiniteSet(Issued)
    BY RecordsAssumption, FS_Subset DEF Issued
  <2>4. Cardinality(answer) = Cardinality(Issued) => answer = Issued
    BY <2>2, <2>3, FS_Subset
  <2> QED
    BY <1>4, <2>1, <2>2, <2>4
<1> QED
  BY <1>1, <1>2, <1>3, <1>4 DEF Query

LEMMA TypeInit == Init => TypeOK
BY RecordsAssumption DEF Init, TypeOK, States, NoEntry, Task

LEMMA AuditsTyped ==
  ASSUME TypeOK, NEW x \in Subjects, NEW state \in States, NEW at \in Nat, Audits(x, state, at)
  PROVE  newest' \in [Subjects -> [at : Nat, state : States]]
BY DEF TypeOK, Audits

LEMMA TypeNext == TypeOK /\ Next => TypeOK'
<1> SUFFICES ASSUME TypeOK, Next
             PROVE  TypeOK'
  OBVIOUS
<1> USE DEF Subjects
<1>1. ASSUME NEW u \in Users, NEW s \in Schools, CreateSchool(u, s)
      PROVE  TypeOK'
  <2>1. clock' \in [Subjects -> Nat] /\ clock'[s] \in Nat
    BY <1>1 DEF CreateSchool, Stamps, TypeOK
  <2>2. newest' \in [Subjects -> [at : Nat, state : States]]
    BY <1>1, <2>1, AuditsTyped DEF CreateSchool, States, SchoolStatuses
  <2> QED
    BY <1>1, <2>1, <2>2 DEF CreateSchool, TypeOK, SchoolStatuses
<1>2. ASSUME NEW r \in Requests, NEW u \in Users, NEW s \in Schools,
             NEW status \in SchoolStatuses, BeginVerify(r, u, s, status)
      PROVE  TypeOK'
  <2>1. clock' \in [Subjects -> Nat] /\ clock'[s] \in Nat
    BY <1>2 DEF BeginVerify, Stamps, TypeOK
  <2>2. req' \in [Requests -> Task]
    BY <1>2, <2>1, GoesTo DEF BeginVerify, Task, Verifying
  <2>3. disturbed' \subseteq Subjects
    BY <1>2 DEF BeginVerify, Overlaps, TypeOK
  <2> QED
    BY <1>2, <2>1, <2>2, <2>3 DEF BeginVerify, TypeOK
<1>3. ASSUME NEW r \in Requests, NEW u \in Users, NEW user \in Reviewed,
             NEW status \in KycStatuses, BeginReview(r, u, user, status)
      PROVE  TypeOK'
  <2>1. kyc[user] \in KycStatuses \cup {None}
    BY DEF TypeOK
  <2>2. req' \in [Requests -> Task]
    BY <1>3, <2>1, GoesTo DEF BeginReview, Task, Reviewing
  <2>3. disturbed' \subseteq Subjects
    BY <1>3 DEF BeginReview, Overlaps, TypeOK
  <2> QED
    BY <1>3, <2>2, <2>3 DEF BeginReview, TypeOK
<1>4. ASSUME NEW r \in Requests, NEW u \in Users, NEW i \in Items, NEW row \in ItemRow,
             BeginItem(r, u, i, row)
      PROVE  TypeOK'
  <2>1. req' \in [Requests -> Task]
    BY <1>4, GoesTo DEF BeginItem, Task, Inserting
  <2> QED
    BY <1>4, <2>1 DEF BeginItem, TypeOK
<1>5. ASSUME NEW r \in Requests, NEW u \in Users, NEW child \in Children,
             NEW recipient \in Recipients, NEW s \in Schools \cup {None},
             BeginIssue(r, u, child, recipient, s)
      PROVE  TypeOK'
  <2>1. req' \in [Requests -> Task]
    BY <1>5, GoesTo DEF BeginIssue, Task, Issuing
  <2> QED
    BY <1>5, <2>1 DEF BeginIssue, TypeOK
<1>6. ASSUME NEW r \in Requests, NEW u \in Users, NEW child \in Children \cup {None},
             NEW mine \in BOOLEAN, BeginList(r, u, child, mine)
      PROVE  TypeOK'
  <2>1. PICK left, there : left = Queries(u, child, mine) /\ there = Matches(u, child, mine)
    OBVIOUS
  <2>2. left \subseteq Query /\ there \subseteq Credentials
    BY <2>1, QueriesAre DEF Matches, Issued
  <2>3. Goes(r, [op |-> "list", user |-> u, left |-> left, found |-> {}, there |-> there])
    BY <1>6, <2>1 DEF BeginList
  <2>4. req' \in [Requests -> Task]
    BY <2>2, <2>3, GoesTo DEF Task, Listing
  <2> QED
    BY <1>6, <2>4 DEF BeginList, TypeOK
<1>7. ASSUME NEW r \in Requests, Verify(r)
      PROVE  TypeOK'
  <2>1. req[r] \in Verifying
    BY <1>7, TaskKind DEF Verify
  <2>2. req' \in [Requests -> Task]
    BY <1>7, GoesTo DEF Verify, Task
  <2>3. newest' \in [Subjects -> [at : Nat, state : States]]
    BY <1>7, <2>1, AuditsTyped DEF Verify, Verifying, States
  <2> QED
    BY <1>7, <2>1, <2>2, <2>3 DEF Verify, Verifying, TypeOK
<1>8. ASSUME NEW r \in Requests, Upsert(r)
      PROVE  TypeOK'
  <2>1. req[r] \in Reviewing
    BY <1>8, TaskKind DEF Upsert
  <2>2. req' \in [Requests -> Task]
    BY <1>8, <2>1, GoesTo DEF Upsert, Task, Reviewing, Auditing
  <2> QED
    BY <1>8, <2>1, <2>2 DEF Upsert, Reviewing, TypeOK
<1>9. ASSUME NEW r \in Requests, RecordAudit(r)
      PROVE  TypeOK'
  <2>1. req[r] \in Auditing
    BY <1>9, TaskKind DEF RecordAudit
  <2>2. req' \in [Requests -> Task]
    BY <1>9, GoesTo DEF RecordAudit, Task
  <2>3. clock' \in [Subjects -> Nat] /\ clock'[req[r].subject] \in Nat
    BY <1>9, <2>1 DEF RecordAudit, Stamps, TypeOK, Auditing
  <2>4. newest' \in [Subjects -> [at : Nat, state : States]]
    BY <1>9, <2>1, <2>3, AuditsTyped DEF RecordAudit, Auditing, States
  <2> QED
    BY <1>9, <2>2, <2>3, <2>4 DEF RecordAudit, TypeOK
<1>10. ASSUME NEW r \in Requests, NEW kind, InsertItem(r, kind)
       PROVE  TypeOK'
  <2>1. req[r] \in Inserting
    BY <1>10, TaskKind DEF InsertItem
  <2>2. req' \in [Requests -> Task]
    BY <1>10, <2>1, GoesTo DEF InsertItem, Task, Inserting, Auditing
  <2> QED
    BY <1>10, <2>1, <2>2 DEF InsertItem, Inserting, TypeOK
<1>11. ASSUME NEW r \in Requests, InsertRefused(r)
       PROVE  TypeOK'
  <2>1. req' \in [Requests -> Task]
    BY <1>11, GoesTo DEF InsertRefused, Task
  <2> QED
    BY <1>11, <2>1 DEF InsertRefused, TypeOK
<1>12. ASSUME NEW r \in Requests, NEW c \in Credentials, StoreCredential(r, c)
       PROVE  TypeOK'
  <2>1. req[r] \in Issuing
    BY <1>12, TaskKind DEF StoreCredential
  <2>2. req' \in [Requests -> Task]
    BY <1>12, GoesTo DEF StoreCredential, Task
  <2>3. credential' \in [Credentials -> CredentialRow \cup {None}]
    BY <1>12, <2>1 DEF StoreCredential, Issuing, CredentialRow, TypeOK
  <2> QED
    BY <1>12, <2>2, <2>3 DEF StoreCredential, TypeOK
<1>13. ASSUME NEW r \in Requests, NEW query \in req[r].left, RunQuery(r, query)
       PROVE  TypeOK'
  <2>1. req[r] \in Listing
    BY <1>13, TaskKind DEF RunQuery
  <2>2. PICK answer \in Answers(query) :
          Goes(r, [req[r] EXCEPT !.found = @ \cup answer, !.left = @ \ {query}])
    BY <1>13 DEF RunQuery
  <2>3. answer \subseteq Credentials
    BY <1>13, <2>1, AnswersAre DEF Listing, Issued
  <2>4. [req[r] EXCEPT !.found = @ \cup answer, !.left = @ \ {query}] \in Listing
    BY <2>1, <2>3 DEF Listing
  <2>5. req' \in [Requests -> Task]
    BY <2>2, <2>4, GoesTo DEF Task
  <2> QED
    BY <1>13, <2>5 DEF RunQuery, TypeOK
<1>14. ASSUME NEW r \in Requests, AnswerList(r)
       PROVE  TypeOK'
  <2>1. req' \in [Requests -> Task]
    BY <1>14, GoesTo DEF AnswerList, Task
  <2> QED
    BY <1>14, <2>1 DEF AnswerList, TypeOK
<1>15. ASSUME NEW r \in Requests, Lost(r)
       PROVE  TypeOK'
  <2>1. req' \in [Requests -> Task]
    BY <1>15, GoesTo DEF Lost, Task
  <2>2. req[r].op = "audit" => req[r].subject \in Subjects
    BY TaskKind DEF Auditing
  <2> QED
    BY <1>15, <2>1, <2>2 DEF Lost, TypeOK
<1>16. ASSUME NEW r \in Requests, NEW u \in Users, NEW i \in Items,
              \/ \E child \in Children : CreatePlan(r, u, i, child)
              \/ \E v \in Vaults : CreateMilestone(r, u, i, v)
              \/ \E v \in Vaults, user \in Recipients \ {None} : AddContributor(r, u, i, v, user)
       PROVE  TypeOK'
  <2>1. \E row \in ItemRow : BeginItem(r, u, i, row)
    BY <1>16 DEF CreatePlan, CreateMilestone, AddContributor, ItemRow
  <2> QED
    BY <1>4, <2>1
<1> QED
  BY <1>1, <1>2, <1>3, <1>5, <1>6, <1>7, <1>8, <1>9, <1>10, <1>11, <1>12, <1>13, <1>14, <1>15,
     <1>16
     DEF Next, InsertPlan, InsertMilestone, InsertContributor

LEMMA TypeStep == TypeOK /\ [Next]_vars => TypeOK'
BY TypeNext DEF vars, TypeOK

-----------------------------------------------------------------------------
(* What a step does to one task, and to the rows.                          *)

\* A step may start or continue to issue or to list; else a task stays or leaves those.
LEMMA TaskSteps ==
  ASSUME TypeOK, Next, NEW s \in Requests
  PROVE  \/ req'[s] = req[s]
         \/ req'[s].op \notin {"issue", "list"}
         \/ \E u \in Users, child \in Children, recipient \in Recipients,
               x \in Schools \cup {None} : BeginIssue(s, u, child, recipient, x)
         \/ \E u \in Users, child \in Children \cup {None}, mine \in BOOLEAN :
               BeginList(s, u, child, mine)
         \/ req[s].op = "list" /\ \E query \in req[s].left : RunQuery(s, query)
<1> DEFINE Rest == req'[s] = req[s] \/ req'[s].op \notin {"issue", "list"}
<1>1. ASSUME NEW u \in Users, NEW x \in Schools, CreateSchool(u, x)
      PROVE  Rest
  BY <1>1 DEF CreateSchool
<1>2. ASSUME NEW r \in Requests, NEW state, Goes(r, state), state.op \notin {"issue", "list"}
      PROVE  Rest
  BY <1>2, GoesTo
<1>3. ASSUME NEW r \in Requests, NEW u, NEW x, NEW status, BeginVerify(r, u, x, status)
      PROVE  Rest
  BY <1>2, <1>3 DEF BeginVerify
<1>4. ASSUME NEW r \in Requests, NEW u, NEW user, NEW status, BeginReview(r, u, user, status)
      PROVE  Rest
  BY <1>2, <1>4 DEF BeginReview
<1>5. ASSUME NEW r \in Requests, NEW u, NEW i, NEW row, BeginItem(r, u, i, row)
      PROVE  Rest
  BY <1>2, <1>5 DEF BeginItem
<1>6. ASSUME NEW r \in Requests, Verify(r) \/ RecordAudit(r) \/ InsertRefused(r) \/ AnswerList(r)
                \/ Lost(r) \/ \E c \in Credentials : StoreCredential(r, c)
      PROVE  Rest
  BY <1>2, <1>6 DEF Verify, RecordAudit, InsertRefused, AnswerList, Lost, StoreCredential, Idle
<1>7. ASSUME NEW r \in Requests, Upsert(r)
      PROVE  Rest
  <2>1. PICK state : /\ Goes(r, state)
                     /\ \/ state = Idle
                        \/ state = [op |-> "audit", subject |-> req[r].subject,
                                    state |-> req[r].state]
    BY <1>7 DEF Upsert
  <2> QED
    BY <1>2, <2>1 DEF Idle
<1>8. ASSUME NEW r \in Requests, NEW kind, InsertItem(r, kind)
      PROVE  Rest
  BY <1>2, <1>8 DEF InsertItem
<1>9. ASSUME NEW r \in Requests, r # s, NEW state, Goes(r, state)
      PROVE  Rest
  BY <1>9, GoesTo
<1>10. ASSUME NEW r \in Requests, r # s, NEW u, NEW child, NEW recipient, NEW x,
              BeginIssue(r, u, child, recipient, x)
       PROVE  Rest
  BY <1>9, <1>10 DEF BeginIssue
<1>11. ASSUME NEW r \in Requests, r # s, NEW u, NEW child, NEW mine, BeginList(r, u, child, mine)
       PROVE  Rest
  BY <1>9, <1>11 DEF BeginList
<1>12. ASSUME NEW r \in Requests, r # s, NEW query, RunQuery(r, query)
       PROVE  Rest
  BY <1>9, <1>12 DEF RunQuery
<1> QED
  BY <1>1, <1>3, <1>4, <1>5, <1>6, <1>7, <1>8, <1>10, <1>11, <1>12
     DEF Next, CreatePlan, CreateMilestone, AddContributor, InsertPlan, InsertMilestone,
         InsertContributor

\* Credentials come and stay.
LEMMA CredentialSteps ==
  ASSUME TypeOK, Next
  PROVE  \/ credential' = credential
         \/ \E r \in Requests, c \in Credentials : StoreCredential(r, c)
<1>1. ASSUME NEW u \in Users, NEW s \in Schools, CreateSchool(u, s)
      PROVE  credential' = credential
  BY <1>1 DEF CreateSchool
<1>2. ASSUME NEW r \in Requests,
             \/ \E u \in Users, s \in Schools, status \in SchoolStatuses :
                  BeginVerify(r, u, s, status)
             \/ \E u \in Users, user \in Reviewed, status \in KycStatuses :
                  BeginReview(r, u, user, status)
      PROVE  credential' = credential
  BY <1>2 DEF BeginVerify, BeginReview
<1>3. ASSUME NEW r \in Requests, NEW u, NEW i, NEW row, BeginItem(r, u, i, row)
      PROVE  credential' = credential
  BY <1>3 DEF BeginItem
<1>4. ASSUME NEW r \in Requests,
             \/ \E u \in Users, child \in Children, recipient \in Recipients,
                   s \in Schools \cup {None} : BeginIssue(r, u, child, recipient, s)
             \/ \E u \in Users, child \in Children \cup {None}, mine \in BOOLEAN :
                  BeginList(r, u, child, mine)
             \/ \E query \in req[r].left : RunQuery(r, query)
      PROVE  credential' = credential
  BY <1>4 DEF BeginIssue, BeginList, RunQuery
<1>5. ASSUME NEW r \in Requests,
             Verify(r) \/ Upsert(r) \/ RecordAudit(r) \/ InsertRefused(r) \/ AnswerList(r) \/ Lost(r)
      PROVE  credential' = credential
  BY <1>5 DEF Verify, Upsert, RecordAudit, InsertRefused, AnswerList, Lost
<1>6. ASSUME NEW r \in Requests, NEW kind, InsertItem(r, kind)
      PROVE  credential' = credential
  BY <1>6 DEF InsertItem
<1> QED
  BY <1>1, <1>2, <1>3, <1>4, <1>5, <1>6
     DEF Next, CreatePlan, CreateMilestone, AddContributor, InsertPlan, InsertMilestone,
         InsertContributor

LEMMA CredentialsStay ==
  ASSUME TypeOK, Next
  PROVE  \A c \in Issued : c \in Issued' /\ credential'[c] = credential[c]
<1>1. ASSUME NEW r \in Requests, NEW d \in Credentials, StoreCredential(r, d), NEW c \in Issued
      PROVE  c \in Issued' /\ credential'[c] = credential[c]
  BY <1>1 DEF StoreCredential, Issued, TypeOK
<1> QED
  BY <1>1, CredentialSteps DEF Issued

\* Schools are verified by verify_school only.
LEMMA SchoolSteps ==
  ASSUME TypeOK, Next
  PROVE  \/ school' = school /\ verified' = verified
         \/ \E u \in Users, s \in Schools : CreateSchool(u, s)
         \/ \E r \in Requests : Verify(r)
<1> DEFINE Same == school' = school /\ verified' = verified
<1>1. ASSUME NEW r \in Requests,
             \/ \E u \in Users, s \in Schools, status \in SchoolStatuses :
                  BeginVerify(r, u, s, status)
             \/ \E u \in Users, user \in Reviewed, status \in KycStatuses :
                  BeginReview(r, u, user, status)
      PROVE  Same
  BY <1>1 DEF BeginVerify, BeginReview
<1>2. ASSUME NEW r \in Requests, NEW u, NEW i, NEW row, BeginItem(r, u, i, row)
      PROVE  Same
  BY <1>2 DEF BeginItem
<1>3. ASSUME NEW r \in Requests,
             \/ \E u \in Users, child \in Children, recipient \in Recipients,
                   s \in Schools \cup {None} : BeginIssue(r, u, child, recipient, s)
             \/ \E u \in Users, child \in Children \cup {None}, mine \in BOOLEAN :
                  BeginList(r, u, child, mine)
             \/ \E query \in req[r].left : RunQuery(r, query)
             \/ \E c \in Credentials : StoreCredential(r, c)
      PROVE  Same
  BY <1>3 DEF BeginIssue, BeginList, RunQuery, StoreCredential
<1>4. ASSUME NEW r \in Requests,
             Upsert(r) \/ RecordAudit(r) \/ InsertRefused(r) \/ AnswerList(r) \/ Lost(r)
      PROVE  Same
  BY <1>4 DEF Upsert, RecordAudit, InsertRefused, AnswerList, Lost
<1>5. ASSUME NEW r \in Requests, NEW kind, InsertItem(r, kind)
      PROVE  Same
  BY <1>5 DEF InsertItem
<1> QED
  BY <1>1, <1>2, <1>3, <1>4, <1>5
     DEF Next, CreatePlan, CreateMilestone, AddContributor, InsertPlan, InsertMilestone,
         InsertContributor

-----------------------------------------------------------------------------
(* Issuers of credentials.                                                 *)

LEMMA VerifiedStay ==
  ASSUME TypeOK, IssuersInv, Next
  PROVE  /\ verified \subseteq verified'
         /\ \A s \in Schools : school'[s] = "verified" => s \in verified'
<1>1. CASE school' = school /\ verified' = verified
  BY <1>1 DEF IssuersInv
<1>2. ASSUME NEW u \in Users, NEW s \in Schools, CreateSchool(u, s)
      PROVE  verified' = verified /\ \A x \in Schools : school'[x] = "verified" => x \in verified
  BY <1>2 DEF CreateSchool, IssuersInv, TypeOK
<1>3. ASSUME NEW r \in Requests, Verify(r)
      PROVE  /\ verified \subseteq verified'
             /\ \A s \in Schools : school'[s] = "verified" => s \in verified'
  BY <1>3 DEF Verify, IssuersInv, TypeOK
<1> QED
  BY <1>1, <1>2, <1>3, SchoolSteps

LEMMA IssuersNext == TypeOK /\ IssuersInv /\ Next => IssuersInv'
<1> SUFFICES ASSUME TypeOK, IssuersInv, Next
             PROVE  IssuersInv'
  OBVIOUS
<1>1. \A row : MayStand(row) => MayStand(row)'
  BY VerifiedStay DEF MayStand
<1>2. ASSUME NEW s \in Requests, req'[s].op = "issue"
      PROVE  MayStand(req[s])'
  <2>1. CASE req'[s] = req[s]
    BY <1>1, <1>2, <2>1 DEF IssuersInv
  <2>2. ASSUME NEW u \in Users, NEW child \in Children, NEW recipient \in Recipients,
               NEW x \in Schools \cup {None}, BeginIssue(s, u, child, recipient, x)
        PROVE  MayStand(req[s])'
    <3>1. req'[s] = [op |-> "issue", child |-> child, recipient |-> recipient, school |-> x,
                     issuer |-> u]
      BY <2>2, GoesTo DEF BeginIssue
    <3>2. Role[u] = "SchoolAdmin" => x \in verified
      BY <2>2 DEF BeginIssue, MayIssue, IssuersInv
    <3>3. recipient # Owner[child]
      BY <2>2 DEF BeginIssue
    <3> QED
      BY <1>1, <3>1, <3>2, <3>3 DEF MayStand
  <2>3. ASSUME NEW u \in Users, NEW child \in Children \cup {None}, NEW mine \in BOOLEAN,
               BeginList(s, u, child, mine)
        PROVE  FALSE
    BY <1>2, <2>3, GoesTo DEF BeginList
  <2>4. ASSUME req[s].op = "list", NEW query, RunQuery(s, query)
        PROVE  FALSE
    <3>1. req[s] \in Listing
      BY <2>4, TaskKind
    <3>2. PICK answer : req'[s] = [req[s] EXCEPT !.found = @ \cup answer, !.left = @ \ {query}]
      BY <2>4, GoesTo DEF RunQuery
    <3>3. req'[s].op = "list"
      BY <3>1, <3>2 DEF Listing
    <3> QED
      BY <1>2, <3>3
  <2> QED
    BY <1>2, <2>1, <2>2, <2>3, <2>4, TaskSteps
<1>3. ASSUME NEW c \in Issued'
      PROVE  MayStand(credential[c])'
  <2>1. CASE c \in Issued
    BY <1>1, <2>1, CredentialsStay DEF IssuersInv
  <2>2. CASE c \notin Issued
    <3>1. c \in Credentials /\ credential[c] = None /\ credential'[c] # None
      BY <1>3, <2>2 DEF Issued
    <3>2. PICK r \in Requests : StoreCredential(r, c)
      BY <3>1, CredentialSteps DEF StoreCredential, TypeOK
    <3>3. req[r] \in Issuing /\ MayStand(req[r])
      BY <3>2, TaskKind DEF StoreCredential, IssuersInv
    <3>4. credential'[c] = [child |-> req[r].child, recipient |-> req[r].recipient,
                            school |-> req[r].school, issuer |-> req[r].issuer]
      BY <3>1, <3>2 DEF StoreCredential, TypeOK
    <3>5. MayStand(credential'[c])
      BY <3>3, <3>4 DEF MayStand
    <3> QED
      BY <1>1, <3>5
  <2> QED
    BY <2>1, <2>2
<1> QED
  BY <1>2, <1>3, VerifiedStay DEF IssuersInv

LEMMA IssuersStep == TypeOK /\ IssuersInv /\ [Next]_vars => IssuersInv'
<1>1. IssuersInv /\ UNCHANGED vars => IssuersInv'
  BY DEF vars, IssuersInv, MayStand, Issued
<1> QED
  BY <1>1, IssuersNext

LEMMA IssuersInit == Init => IssuersInv
BY RecordsAssumption DEF Init, IssuersInv, Issued, Idle

\* However schools lose their status between the check of an issuer and the transaction
\* that stores the credential, a school admin has issued for schools only that were
\* verified once, and no child's guardian is the recipient of the child's credential
\* (validate_issuer and create_with_audit).
THEOREM SchoolsStandForCredentials == Spec => []IssuedForVerifiedSchools
<1>1. Init => TypeOK /\ IssuersInv
  BY TypeInit, IssuersInit
<1>2. (TypeOK /\ IssuersInv) /\ [Next]_vars => (TypeOK /\ IssuersInv)'
  BY TypeStep, IssuersStep
<1>3. IssuersInv => IssuedForVerifiedSchools
  BY DEF IssuersInv, IssuedForVerifiedSchools, MayStand
<1> QED
  BY <1>1, <1>2, <1>3, PTL DEF Spec

-----------------------------------------------------------------------------
(* Lists of credentials.                                                   *)

\* The statements of a request find what it asks for.
LEMMA QueriesCover ==
  ASSUME TypeOK, NEW u \in Users, NEW child \in Children \cup {None}, NEW mine \in BOOLEAN,
         Queries(u, child, mine) # {}, NEW c \in Matches(u, child, mine)
  PROVE  \E query \in Queries(u, child, mine) : Covers(query, c)
<1>1. /\ c \in Issued /\ MayGet(u, c) /\ child \in {None, credential[c].child}
      /\ credential[c].child \in Children
  BY DEF Matches, Issued, TypeOK, CredentialRow
<1>2. mine => credential[c].issuer = u
  BY DEF Matches
<1>3. CASE Role[u] = "Parent"
  <2>1. Queries(u, child, mine) =
          {[by |-> "child", of |-> x] : x \in {y \in ChildrenOf(u) : child \in {None, y}}}
    BY <1>3 DEF Queries
  <2>2. credential[c].child \in {y \in ChildrenOf(u) : child \in {None, y}}
    BY <1>1, <1>3 DEF MayGet, ChildrenOf
  <2>3. [by |-> "child", of |-> credential[c].child] \in Queries(u, child, mine)
    BY <2>1, <2>2
  <2> QED
    BY <2>3 DEF Covers
<1>4. CASE Role[u] = "Student"
  <2>1. [by |-> "recipient", of |-> u] \in Queries(u, child, mine)
    BY <1>4 DEF Queries
  <2> QED
    BY <1>1, <1>4, <2>1 DEF Covers, MayGet
<1>5. CASE Role[u] = "SchoolAdmin"
  <2>1. [by |-> "issuer", of |-> u] \in Queries(u, child, mine)
    BY <1>5 DEF Queries
  <2> QED
    BY <1>1, <1>5, <2>1 DEF Covers, MayGet
<1>6. CASE Role[u] = "PlatformAdmin"
  <2>1. \/ mine /\ Queries(u, child, mine) = {[by |-> "issuer", of |-> u]}
        \/ child # None /\ Queries(u, child, mine) = {[by |-> "child", of |-> child]}
        \/ Queries(u, child, mine) = {[by |-> "recent", of |-> None]}
    BY <1>6 DEF Queries
  <2> QED
    BY <1>1, <1>2, <2>1 DEF Covers
<1> QED
  BY <1>1, <1>3, <1>4, <1>5, <1>6 DEF MayGet

\* Credentials that come meanwhile spoil nothing.
LEMMA ListKept ==
  ASSUME TypeOK, Next, NEW task \in Listing, ListSound(task)
  PROVE  ListSound(task)'
<1>1. \A c \in Issued : c \in Issued' /\ credential'[c] = credential[c]
  BY CredentialsStay
<1>2. task.found \subseteq Issued /\ task.there \subseteq Issued
  BY DEF ListSound
<1>3. \A c \in Issued : \A u : MayGet(u, c) => MayGet(u, c)'
  BY <1>1 DEF MayGet
<1>4. \A c \in Issued : \A query : Covers(query, c) => Covers(query, c)'
  BY <1>1 DEF Covers
<1>5. \A query : Permitted(task.user, query) => Permitted(task.user, query)'
  BY DEF Permitted
<1>6. Cut(task) => Cut(task)'
  BY DEF Cut
<1> QED
  BY <1>1, <1>2, <1>3, <1>4, <1>5, <1>6 DEF ListSound

LEMMA ListsNext == TypeOK /\ ListsInv /\ Next => ListsInv'
<1> SUFFICES ASSUME TypeOK, ListsInv, Next, NEW s \in Requests, req'[s].op = "list"
             PROVE  ListSound(req[s])'
  BY DEF ListsInv
<1>1. CASE req'[s] = req[s]
  <2>1. req[s] \in Listing /\ ListSound(req[s])
    BY <1>1, TaskKind DEF ListsInv
  <2> QED
    BY <1>1, <2>1, ListKept
<1>2. ASSUME NEW u \in Users, NEW child \in Children \cup {None}, NEW mine \in BOOLEAN,
             BeginList(s, u, child, mine)
      PROVE  ListSound(req[s])'
  <2>1. PICK left, there, task :
          /\ left = Queries(u, child, mine) /\ there = Matches(u, child, mine)
          /\ task = [op |-> "list", user |-> u, left |-> left, found |-> {}, there |-> there]
    OBVIOUS
  <2>2. req'[s] = task
    BY <1>2, <2>1, GoesTo DEF BeginList
  <2>3. left \subseteq Query /\ there \subseteq Issued
    BY <2>1, QueriesAre DEF Matches
  <2>4. \A c \in there : \E query \in left : Covers(query, c)
    BY <1>2, <2>1, QueriesCover DEF BeginList
  <2>5. \A query \in left : Permitted(u, query) /\ (query.by = "recent" => left = {query})
    BY <2>1, QueriesAre
  <2>6. ListSound(task)
    BY <2>1, <2>3, <2>4, <2>5 DEF ListSound
  <2>7. task \in Listing
    BY <2>1, <2>3 DEF Listing, Issued
  <2> QED
    BY <2>2, <2>6, <2>7, ListKept
<1>3. ASSUME req[s].op = "list", NEW query \in req[s].left, RunQuery(s, query)
      PROVE  ListSound(req[s])'
  <2>1. PICK answer \in Answers(query) :
          req'[s] = [req[s] EXCEPT !.found = @ \cup answer, !.left = @ \ {query}]
    BY <1>3, GoesTo DEF RunQuery
  <2>2. PICK task : task = req'[s]
    OBVIOUS
  <2>3. req[s] \in Listing /\ ListSound(req[s])
    BY <1>3, TaskKind DEF ListsInv
  <2>4. /\ task.user = req[s].user /\ task.there = req[s].there
        /\ task.found = req[s].found \cup answer
        /\ task.left = req[s].left \ {query}
    BY <2>1, <2>2, <2>3 DEF Listing
  <2>5. query \in Query /\ Permitted(task.user, query)
    BY <1>3, <2>3, <2>4 DEF Listing, ListSound
  <2>6. /\ answer \subseteq Issued
        /\ query.by # "recent" => answer = {c \in Issued : Covers(query, c)}
        /\ query.by = "recent" => answer = Issued \/ Cardinality(answer) = Recent
    BY <2>5, AnswersAre
  <2>7. \A c \in answer : MayGet(task.user, c)
    BY <2>5, <2>6 DEF Permitted, Covers, MayGet
  <2>8. \/ \A c \in task.there : c \in task.found \/ \E q \in task.left : Covers(q, c)
        \/ task.left = {} /\ Cut(task)
    <3>1. CASE query.by # "recent"
      <4>1. \A c \in req[s].there : c \in req[s].found \/ \E q \in req[s].left : Covers(q, c)
        BY <1>3, <2>3 DEF ListSound
      <4>2. \A c \in req[s].there : c \in Issued
        BY <2>3 DEF ListSound
      <4> QED
        BY <2>4, <2>6, <3>1, <4>1, <4>2
    <3>2. CASE query.by = "recent"
      <4>1. req[s].left = {query} /\ req[s].found = {} /\ req[s].there \subseteq Issued
        BY <1>3, <2>3, <3>2 DEF ListSound
      <4>2. task.left = {} /\ task.found = answer
        BY <2>4, <4>1
      <4>3. Role[task.user] = "PlatformAdmin"
        BY <2>5, <3>2 DEF Permitted
      <4> QED
        BY <2>4, <2>6, <3>2, <4>1, <4>2, <4>3 DEF Cut
    <3> QED
      BY <3>1, <3>2
  <2>9. \A q \in task.left : q.by = "recent" => task.left = {q} /\ task.found = {}
    BY <1>3, <2>3, <2>4 DEF ListSound
  <2>10. ListSound(task)
    BY <2>3, <2>4, <2>6, <2>7, <2>8, <2>9 DEF ListSound
  <2>11. task \in Listing
    BY <2>1, <2>2, <2>3, <2>6 DEF Listing, Issued
  <2> QED
    BY <2>2, <2>10, <2>11, ListKept
<1>4. ASSUME NEW u \in Users, NEW child \in Children, NEW recipient \in Recipients,
             NEW x \in Schools \cup {None}, BeginIssue(s, u, child, recipient, x)
      PROVE  FALSE
  BY <1>4, GoesTo DEF BeginIssue
<1> QED
  BY <1>1, <1>2, <1>3, <1>4, TaskSteps

LEMMA ListsStep == TypeOK /\ ListsInv /\ [Next]_vars => ListsInv'
<1>1. ListsInv /\ UNCHANGED vars => ListsInv'
  BY DEF vars, ListsInv, ListSound, Issued, MayGet, Permitted, Covers, Cut
<1> QED
  BY <1>1, ListsNext

LEMMA ListsInit == Init => ListsInv
BY DEF Init, ListsInv, Idle

\* A list of credentials names what its reader may get and nothing else, and misses
\* nothing that matched when it was asked for, although it is put together from several
\* statements while credentials are issued (list_credentials and get_credential).
THEOREM ListsAgreeWithGet == Spec => []ListsWhatMayBeRead
<1>1. Init => TypeOK /\ ListsInv
  BY TypeInit, ListsInit
<1>2. (TypeOK /\ ListsInv) /\ [Next]_vars => (TypeOK /\ ListsInv)'
  BY TypeStep, ListsStep
<1>3. ListsInv => ListsWhatMayBeRead
  BY DEF ListsInv, ListSound, ListsWhatMayBeRead, Cut
<1> QED
  BY <1>1, <1>2, <1>3, PTL DEF Spec

-----------------------------------------------------------------------------
(* The audit trail.                                                        *)

LEMMA OnIs ==
  ASSUME NEW x \in Subjects, NEW task
  PROVE  On(task) = x <=> task.op \in {"verify", "review", "audit", "insert"} /\ task.subject = x
<1>1. x # None
  BY RecordsAssumption DEF Subjects
<1> QED
  BY <1>1 DEF On

\* The kinds of subjects are told apart.
LEMMA StateIs ==
  /\ \A s \in Schools : s \in Subjects /\ StateOf(s) = school[s] /\ StateOf(s)' = school'[s]
  /\ \A u \in Reviewed : u \in Subjects /\ StateOf(u) = kyc[u] /\ StateOf(u)' = kyc'[u]
  /\ \A i \in Items :
       /\ i \in Subjects
       /\ StateOf(i) = IF item[i] = None THEN None ELSE "created"
       /\ StateOf(i)' = IF item'[i] = None THEN None ELSE "created"
BY RecordsAssumption DEF Subjects, StateOf

\* What no step touches stays settled.
LEMMA Untouched ==
  ASSUME NEW x \in Subjects, Settled(x),
         StateOf(x)' = StateOf(x), newest'[x] = newest[x], clock'[x] = clock[x],
         \A s \in Requests : On(req'[s]) = x \/ On(req[s]) = x => req'[s] = req[s]
  PROVE  Settled(x)'
<1>1. Newest(x)' = Newest(x)
  BY DEF Newest
<1>2. \A s \in Requests : On(req'[s]) = x <=> On(req[s]) = x
  OBVIOUS
<1>3. \A task : TaskFits(x, task) => TaskFits(x, task)'
  BY <1>1 DEF TaskFits
<1>4. Alone(x)'
  BY <1>2 DEF Settled, Alone
<1>5. \A s \in Requests : On(req'[s]) = x => TaskFits(x, req[s])' 
  BY <1>2, <1>3 DEF Settled
<1> QED
  BY <1>1, <1>2, <1>4, <1>5 DEF Settled

\* A step of one task on one subject.
StepAt(r, y) ==
  /\ \A x \in Subjects : x # y =>
       StateOf(x)' = StateOf(x) /\ newest'[x] = newest[x] /\ clock'[x] = clock[x]
  /\ \A s \in Requests : s # r => req'[s] = req[s]
  /\ On(req[r]) \in {y, None}
  /\ On(req'[r]) \in {y, None}
  /\ disturbed \subseteq disturbed'

LEMMA OnlyThere ==
  ASSUME TrailInv, NEW r \in Requests, NEW y \in Subjects, StepAt(r, y),
         y \notin disturbed' => Settled(y)'
  PROVE  TrailInv'
<1> SUFFICES ASSUME NEW x \in Subjects, x \notin disturbed', x # y
             PROVE  Settled(x)'
  BY DEF TrailInv
<1>1. Settled(x)
  BY DEF TrailInv, StepAt
<1>2. x # None
  BY RecordsAssumption DEF Subjects
<1> QED
  BY <1>1, <1>2, Untouched DEF StepAt

\* The trail of a subject that one task begins to work on alone.
LEMMA BegunAt ==
  ASSUME TypeOK, NEW r \in Requests, NEW y \in Subjects, StepAt(r, y), Settled(y),
         On(req'[r]) = y, \A s \in Requests : On(req[s]) # y,
         StateOf(y)' = StateOf(y), newest'[y] = newest[y], clock'[y] >= clock[y],
         clock'[y] \in Nat,
         Newest(y) = StateOf(y) => TaskFits(y, req[r])'
  PROVE  Settled(y)'
<1>1. Newest(y) = StateOf(y)
  BY DEF Settled
<1>2. \A s \in Requests : On(req'[s]) = y => s = r
  BY DEF StepAt
<1>3. newest[y].at \in Nat /\ clock[y] \in Nat /\ newest[y].at <= clock[y]
  BY DEF TypeOK, Settled
<1> QED
  BY <1>1, <1>2, <1>3 DEF Settled, Alone

\* The trail of a subject that its only task leaves.
LEMMA LeftAt ==
  ASSUME TypeOK, NEW r \in Requests, NEW y \in Subjects, StepAt(r, y), Settled(y),
         On(req[r]) = y, On(req'[r]) # y,
         newest'[y].at <= clock'[y], Newest(y)' = StateOf(y)'
  PROVE  Settled(y)'
<1>1. \A s \in Requests : On(req'[s]) # y
  BY DEF Settled, Alone, StepAt
<1> QED
  BY <1>1 DEF Settled, Alone

\* The trail of a subject whose only task goes on to its audit.
LEMMA WrittenAt ==
  ASSUME TypeOK, NEW r \in Requests, NEW y \in Subjects, StepAt(r, y), Settled(y),
         On(req[r]) = y, On(req'[r]) = y,
         newest'[y] = newest[y], clock'[y] = clock[y],
         req'[r].op = "audit", req'[r].state = StateOf(y)'
  PROVE  Settled(y)'
<1>1. \A s \in Requests : On(req'[s]) = y => s = r
  BY DEF Settled, Alone, StepAt
<1>2. TaskFits(y, req[r])'
  BY DEF TaskFits
<1> QED
  BY <1>1, <1>2 DEF Settled, Alone

LEMMA TrailBegins ==
  ASSUME TypeOK, TrailInv, NEW r \in Requests, NEW u, NEW x
  PROVE  /\ \A status \in SchoolStatuses :
              x \in Schools /\ BeginVerify(r, u, x, status) => TrailInv'
         /\ \A status \in KycStatuses :
              x \in Reviewed /\ BeginReview(r, u, x, status) => TrailInv'
         /\ \A row : x \in Items /\ BeginItem(r, u, x, row) => TrailInv'
<1>1. ASSUME NEW status \in SchoolStatuses, x \in Schools, BeginVerify(r, u, x, status)
      PROVE  TrailInv'
  <2>1. PICK state : state = [op |-> "verify", subject |-> x, state |-> status, at |-> clock'[x]]
    OBVIOUS
  <2>2. /\ req[r] = Idle /\ req'[r] = state /\ \A s \in Requests : s # r => req'[s] = req[s]
    BY <1>1, <2>1, GoesTo DEF BeginVerify
  <2>3. x \in Subjects /\ StateOf(x) = school[x] /\ StateOf(x)' = school'[x]
    BY <1>1, StateIs
  <2>4. On(req[r]) = None /\ On(req'[r]) = x
    BY <2>1, <2>2 DEF On, Idle
  <2>5. /\ clock[x] \in Nat /\ clock'[x] = clock[x] + 1
        /\ \A y \in Subjects : y # x => clock'[y] = clock[y]
    BY <1>1, <2>3 DEF BeginVerify, Stamps, TypeOK
  <2>6. \A y \in Subjects : StateOf(y)' = StateOf(y) /\ newest'[y] = newest[y]
    BY <1>1 DEF BeginVerify, StateOf
  <2>7. /\ disturbed \subseteq disturbed'
        /\ x \notin disturbed' => \A s \in Requests : On(req[s]) # x
    BY <1>1 DEF BeginVerify, Overlaps
  <2>8. StepAt(r, x)
    BY <2>2, <2>4, <2>5, <2>6, <2>7 DEF StepAt
  <2>9. ASSUME x \notin disturbed'
        PROVE  Settled(x)'
    <3>1. Settled(x)
      BY <2>3, <2>7, <2>9 DEF TrailInv
    <3>2. newest[x].at \in Nat /\ newest[x].at <= clock[x]
      BY <2>3, <3>1 DEF Settled, TypeOK
    <3>3. Newest(x) = StateOf(x) => TaskFits(x, req[r])'
      BY <1>1, <2>1, <2>2, <2>3, <2>5, <2>6, <3>2 DEF TaskFits, Newest, BeginVerify
    <3> QED
      BY <2>3, <2>4, <2>5, <2>6, <2>7, <2>8, <2>9, <3>1, <3>3, BegunAt
  <2> QED
    BY <2>3, <2>8, <2>9, OnlyThere
<1>2. ASSUME NEW status \in KycStatuses, x \in Reviewed, BeginReview(r, u, x, status)
      PROVE  TrailInv'
  <2>1. PICK state : state = [op |-> "review", subject |-> x, state |-> status, previous |-> kyc[x]]
    OBVIOUS
  <2>2. /\ req[r] = Idle /\ req'[r] = state /\ \A s \in Requests : s # r => req'[s] = req[s]
    BY <1>2, <2>1, GoesTo DEF BeginReview
  <2>3. x \in Subjects /\ StateOf(x) = kyc[x] /\ StateOf(x)' = kyc'[x] /\ clock[x] \in Nat
    BY <1>2, StateIs DEF TypeOK
  <2>4. On(req[r]) = None /\ On(req'[r]) = x
    BY <2>1, <2>2 DEF On, Idle
  <2>5. \A y \in Subjects :
          StateOf(y)' = StateOf(y) /\ newest'[y] = newest[y] /\ clock'[y] = clock[y]
    BY <1>2 DEF BeginReview, StateOf
  <2>6. /\ disturbed \subseteq disturbed'
        /\ x \notin disturbed' => \A s \in Requests : On(req[s]) # x
    BY <1>2 DEF BeginReview, Overlaps
  <2>7. StepAt(r, x)
    BY <2>2, <2>4, <2>5, <2>6 DEF StepAt
  <2>8. ASSUME x \notin disturbed'
        PROVE  Settled(x)'
    <3>1. Settled(x)
      BY <2>3, <2>6, <2>8 DEF TrailInv
    <3>2. Newest(x) = StateOf(x) => TaskFits(x, req[r])'
      BY <2>1, <2>2, <2>3, <2>5 DEF TaskFits, Newest
    <3> QED
      BY <2>3, <2>4, <2>5, <2>6, <2>7, <2>8, <3>1, <3>2, BegunAt
  <2> QED
    BY <2>3, <2>7, <2>8, OnlyThere
<1>3. ASSUME NEW row, x \in Items, BeginItem(r, u, x, row)
      PROVE  TrailInv'
  <2>1. PICK state : state = [op |-> "insert", subject |-> x, row |-> row]
    OBVIOUS
  <2>2. /\ req[r] = Idle /\ req'[r] = state /\ \A s \in Requests : s # r => req'[s] = req[s]
    BY <1>3, <2>1, GoesTo DEF BeginItem
  <2>3. x \in Subjects /\ clock[x] \in Nat
    BY <1>3, StateIs DEF TypeOK
  <2>4. On(req[r]) = None /\ On(req'[r]) = x
    BY <2>1, <2>2 DEF On, Idle
  <2>5. \A y \in Subjects :
          StateOf(y)' = StateOf(y) /\ newest'[y] = newest[y] /\ clock'[y] = clock[y]
    BY <1>3 DEF BeginItem, StateOf
  <2>6. disturbed' = disturbed /\ \A s \in Requests : On(req[s]) # x
    BY <1>3 DEF BeginItem
  <2>7. StepAt(r, x)
    BY <2>2, <2>4, <2>5, <2>6 DEF StepAt
  <2>8. ASSUME x \notin disturbed'
        PROVE  Settled(x)'
    <3>1. Settled(x)
      BY <2>3, <2>6, <2>8 DEF TrailInv
    <3>2. Newest(x) = StateOf(x) => TaskFits(x, req[r])'
      BY <2>1, <2>2, <2>3, <2>5 DEF TaskFits, Newest
    <3> QED
      BY <2>3, <2>4, <2>5, <2>6, <2>7, <2>8, <3>1, <3>2, BegunAt
  <2> QED
    BY <2>3, <2>7, <2>8, OnlyThere
<1> QED
  BY <1>1, <1>2, <1>3

LEMMA TrailVerified ==
  ASSUME TypeOK, TrailInv, NEW r \in Requests, Verify(r)
  PROVE  TrailInv'
<1>1. PICK x : x = req[r].subject
  OBVIOUS
<1>2. req[r] \in Verifying /\ req[r].op = "verify" /\ x \in Schools
  BY <1>1, TaskKind DEF Verify, Verifying
<1>3. req'[r] = Idle /\ \A s \in Requests : s # r => req'[s] = req[s]
  BY GoesTo DEF Verify
<1>4. x \in Subjects /\ x # None /\ StateOf(x)' = school'[x]
  BY <1>2, StateIs, RecordsAssumption
<1>5. On(req[r]) = x /\ On(req'[r]) = None
  BY <1>1, <1>2, <1>3 DEF On, Idle
<1>6. /\ school' = [school EXCEPT ![x] = req[r].state]
      /\ Audits(x, req[r].state, req[r].at)
      /\ UNCHANGED <<kyc, item, clock, disturbed>>
  BY <1>1 DEF Verify
<1>7. school'[x] = req[r].state /\ \A y \in Schools : y # x => school'[y] = school[y]
  BY <1>2, <1>6 DEF TypeOK
<1>8. \A y \in Subjects : y # x => newest'[y] = newest[y] /\ clock'[y] = clock[y]
  BY <1>6 DEF Audits, TypeOK
<1>9. \A y \in Subjects : y # x => StateOf(y)' = StateOf(y)
  BY <1>6, <1>7 DEF StateOf
<1>10. StepAt(r, x)
  BY <1>3, <1>5, <1>6, <1>8, <1>9 DEF StepAt
<1>11. ASSUME x \notin disturbed'
       PROVE  Settled(x)'
  <2>1. Settled(x)
    BY <1>4, <1>6, <1>11 DEF TrailInv
  <2>2. newest[x].at < req[r].at /\ req[r].at <= clock[x]
    BY <1>2, <1>5, <2>1 DEF Settled, TaskFits
  <2>3. newest[x].at \in Nat /\ req[r].at \in Nat
    BY <1>2, <1>4 DEF TypeOK, Verifying
  <2>4. newest'[x] = [at |-> req[r].at, state |-> req[r].state]
    BY <1>4, <1>6, <2>2, <2>3 DEF Audits, TypeOK
  <2>5. newest'[x].at <= clock'[x] /\ Newest(x)' = StateOf(x)'
    BY <1>4, <1>6, <1>7, <2>2, <2>4 DEF Newest
  <2> QED
    BY <1>4, <1>5, <1>10, <2>1, <2>5, LeftAt
<1> QED
  BY <1>4, <1>10, <1>11, OnlyThere

LEMMA TrailUpserted ==
  ASSUME TypeOK, TrailInv, NEW r \in Requests, Upsert(r)
  PROVE  TrailInv'
<1>1. PICK x : x = req[r].subject
  OBVIOUS
<1>2. req[r] \in Reviewing /\ req[r].op = "review" /\ x \in Reviewed
  BY <1>1, TaskKind DEF Upsert, Reviewing
<1>3. PICK next :
        next = IF req[r].previous # req[r].state
               THEN [op |-> "audit", subject |-> x, state |-> req[r].state]
               ELSE Idle
  OBVIOUS
<1>4. req'[r] = next /\ \A s \in Requests : s # r => req'[s] = req[s]
  BY <1>1, <1>3, GoesTo DEF Upsert
<1>5. x \in Subjects /\ x # None /\ StateOf(x) = kyc[x] /\ StateOf(x)' = kyc'[x]
  BY <1>2, StateIs, RecordsAssumption
<1>6. /\ kyc' = [kyc EXCEPT ![x] = req[r].state]
      /\ UNCHANGED <<school, item, newest, clock, disturbed>>
  BY <1>1 DEF Upsert
<1>7. kyc'[x] = req[r].state /\ \A y \in Reviewed : y # x => kyc'[y] = kyc[y]
  BY <1>2, <1>6 DEF TypeOK
<1>8. On(req[r]) = x
  BY <1>1, <1>2 DEF On
<1>9. On(req'[r]) = IF req[r].previous # req[r].state THEN x ELSE None
  BY <1>3, <1>4 DEF On, Idle
<1>10. \A y \in Subjects : y # x => StateOf(y)' = StateOf(y)
  BY <1>6, <1>7 DEF StateOf
<1>11. StepAt(r, x)
  BY <1>4, <1>6, <1>8, <1>9, <1>10 DEF StepAt
<1>12. ASSUME x \notin disturbed'
       PROVE  Settled(x)'
  <2>1. Settled(x)
    BY <1>5, <1>6, <1>12 DEF TrailInv
  <2>2. CASE req[r].previous # req[r].state
    BY <1>3, <1>4, <1>5, <1>6, <1>7, <1>8, <1>9, <1>11, <2>1, <2>2, WrittenAt
  <2>3. CASE req[r].previous = req[r].state
    <3>1. req[r].previous = kyc[x] /\ Newest(x) = kyc[x]
      BY <1>2, <1>5, <1>8, <2>1 DEF Settled, TaskFits
    <3>2. newest'[x].at <= clock'[x] /\ Newest(x)' = StateOf(x)'
      BY <1>5, <1>6, <1>7, <2>1, <2>3, <3>1 DEF Settled, Newest
    <3>3. On(req'[r]) # x
      BY <1>5, <1>9, <2>3
    <3> QED
      BY <1>5, <1>8, <1>11, <2>1, <3>2, <3>3, LeftAt
  <2> QED
    BY <2>2, <2>3
<1> QED
  BY <1>5, <1>11, <1>12, OnlyThere

LEMMA TrailAudited ==
  ASSUME TypeOK, TrailInv, NEW r \in Requests, RecordAudit(r)
  PROVE  TrailInv'
<1>1. PICK x, at : x = req[r].subject /\ at = clock'[x]
  OBVIOUS
<1>2. req[r] \in Auditing /\ req[r].op = "audit" /\ x \in Subjects
  BY <1>1, TaskKind DEF RecordAudit, Auditing, Subjects
<1>3. req'[r] = Idle /\ \A s \in Requests : s # r => req'[s] = req[s]
  BY GoesTo DEF RecordAudit
<1>4. x # None
  BY <1>2, RecordsAssumption DEF Subjects
<1>5. On(req[r]) = x /\ On(req'[r]) = None
  BY <1>1, <1>2, <1>3 DEF On, Idle
<1>6. /\ Stamps(x) /\ Audits(x, req[r].state, at)
      /\ UNCHANGED <<school, kyc, item, disturbed>>
  BY <1>1 DEF RecordAudit
<1>7. /\ clock[x] \in Nat /\ at = clock[x] + 1
      /\ \A y \in Subjects : y # x => clock'[y] = clock[y]
  BY <1>1, <1>2, <1>6 DEF Stamps, TypeOK
<1>8. \A y \in Subjects : y # x => newest'[y] = newest[y]
  BY <1>6 DEF Audits, TypeOK
<1>9. \A y : StateOf(y)' = StateOf(y)
  BY <1>6 DEF StateOf
<1>10. StepAt(r, x)
  BY <1>3, <1>5, <1>6, <1>7, <1>8, <1>9 DEF StepAt
<1>11. ASSUME x \notin disturbed'
       PROVE  Settled(x)'
  <2>1. Settled(x)
    BY <1>2, <1>6, <1>11 DEF TrailInv
  <2>2. req[r].state = StateOf(x)
    BY <1>2, <1>5, <2>1 DEF Settled, TaskFits
  <2>3. newest[x].at \in Nat /\ newest[x].at <= clock[x]
    BY <1>2, <2>1 DEF TypeOK, Settled
  <2>4. newest'[x] = [at |-> at, state |-> req[r].state]
    BY <1>2, <1>6, <1>7, <2>3 DEF Audits, TypeOK
  <2>5. newest'[x].at <= clock'[x] /\ Newest(x)' = StateOf(x)'
    BY <1>1, <1>7, <1>9, <2>2, <2>4 DEF Newest
  <2> QED
    BY <1>2, <1>4, <1>5, <1>10, <2>1, <2>5, LeftAt
<1> QED
  BY <1>2, <1>10, <1>11, OnlyThere

LEMMA TrailInserted ==
  ASSUME TypeOK, TrailInv, NEW r \in Requests, NEW kind, InsertItem(r, kind)
  PROVE  TrailInv'
<1>1. PICK x, next :
        /\ x = req[r].subject
        /\ next = [op |-> "audit", subject |-> x, state |-> "created"]
  OBVIOUS
<1>2. req[r] \in Inserting /\ req[r].op = "insert" /\ x \in Items /\ req[r].row \in ItemRow
  BY <1>1, TaskKind DEF InsertItem, Inserting
<1>3. req'[r] = next /\ \A s \in Requests : s # r => req'[s] = req[s]
  BY <1>1, GoesTo DEF InsertItem
<1>4. item' = [item EXCEPT ![x] = req[r].row] /\ UNCHANGED <<school, kyc, newest, clock, disturbed>>
  BY <1>1 DEF InsertItem
<1>5. item'[x] = req[r].row /\ \A y \in Items : y # x => item'[y] = item[y]
  BY <1>2, <1>4 DEF TypeOK
<1>6. x \in Subjects /\ x # None /\ StateOf(x)' = "created"
  BY <1>2, <1>5, StateIs, RecordsAssumption DEF ItemRow
<1>7. On(req[r]) = x /\ On(req'[r]) = x
  BY <1>1, <1>2, <1>3 DEF On
<1>8. \A y \in Subjects : y # x => StateOf(y)' = StateOf(y)
  BY <1>4, <1>5 DEF StateOf, Subjects
<1>9. StepAt(r, x)
  BY <1>3, <1>4, <1>7, <1>8 DEF StepAt
<1>10. ASSUME x \notin disturbed'
       PROVE  Settled(x)'
  <2>1. Settled(x)
    BY <1>4, <1>6, <1>10 DEF TrailInv
  <2> QED
    BY <1>1, <1>3, <1>4, <1>6, <1>7, <1>9, <2>1, WrittenAt
<1> QED
  BY <1>6, <1>9, <1>10, OnlyThere

\* A task that gives up before it has written anything, or loses the audit of what it wrote.
LEMMA TrailGivenUp ==
  ASSUME TypeOK, TrailInv, NEW r \in Requests, req'[r] = Idle,
         \A s \in Requests : s # r => req'[s] = req[s],
         UNCHANGED <<school, kyc, item, newest, clock>>,
         disturbed' = IF req[r].op = "audit" THEN disturbed \cup {req[r].subject} ELSE disturbed
  PROVE  TrailInv'
<1>1. On(req'[r]) = None
  BY DEF On, Idle
<1>2. \A y : StateOf(y)' = StateOf(y)
  BY DEF StateOf
<1>3. CASE req[r].op \in {"verify", "review", "audit", "insert"}
  <2>1. PICK x : x = req[r].subject
    OBVIOUS
  <2>2. x \in Subjects /\ x # None
    BY <1>3, <2>1, TaskKind, RecordsAssumption
       DEF Subjects, Verifying, Reviewing, Auditing, Inserting
  <2>3. On(req[r]) = x
    BY <1>3, <2>1 DEF On
  <2>4. StepAt(r, x)
    BY <1>1, <1>2, <2>3 DEF StepAt
  <2>5. ASSUME x \notin disturbed'
        PROVE  Settled(x)'
    <3>1. Settled(x) /\ req[r].op # "audit"
      BY <2>1, <2>2, <2>5 DEF TrailInv
    <3>2. Newest(x) = StateOf(x)
      BY <2>3, <3>1 DEF Settled, TaskFits
    <3>3. newest'[x].at <= clock'[x] /\ Newest(x)' = StateOf(x)'
      BY <1>2, <3>1, <3>2 DEF Settled, Newest
    <3> QED
      BY <1>1, <2>2, <2>3, <2>4, <3>1, <3>3, LeftAt
  <2> QED
    BY <2>2, <2>4, <2>5, OnlyThere
<1>4. CASE req[r].op \notin {"verify", "review", "audit", "insert"}
  <2>1. On(req[r]) = None /\ disturbed' = disturbed
    BY <1>4 DEF On
  <2>2. ASSUME NEW x \in Subjects, Settled(x)
        PROVE  Settled(x)'
    <3>1. x # None
      BY RecordsAssumption DEF Subjects
    <3>2. \A s \in Requests : On(req'[s]) = x \/ On(req[s]) = x => req'[s] = req[s]
      BY <1>1, <2>1, <3>1
    <3> QED
      BY <1>2, <2>2, <3>2, Untouched
  <2> QED
    BY <2>1, <2>2 DEF TrailInv
<1> QED
  BY <1>3, <1>4

\* A step that is not about a subject.
LEMMA TrailElsewhere ==
  ASSUME TypeOK, TrailInv, NEW r \in Requests, \A s \in Requests : s # r => req'[s] = req[s],
         On(req[r]) = None, On(req'[r]) = None,
         UNCHANGED <<school, kyc, item, newest, clock, disturbed>>
  PROVE  TrailInv'
<1>1. \A y : StateOf(y)' = StateOf(y)
  BY DEF StateOf
<1>2. ASSUME NEW x \in Subjects, Settled(x)
      PROVE  Settled(x)'
  <2>1. x # None
    BY RecordsAssumption DEF Subjects
  <2>2. \A s \in Requests : On(req'[s]) = x \/ On(req[s]) = x => req'[s] = req[s]
    BY <2>1
  <2> QED
    BY <1>1, <1>2, <2>2, Untouched
<1> QED
  BY <1>2 DEF TrailInv

LEMMA TrailCreated ==
  ASSUME TypeOK, TrailInv, NEW u, NEW x \in Schools, CreateSchool(u, x)
  PROVE  TrailInv'
<1>1. x \in Subjects /\ StateOf(x) = school[x] /\ StateOf(x)' = school'[x]
  BY StateIs
<1>2. /\ school[x] = None /\ school' = [school EXCEPT ![x] = "pending"]
      /\ Stamps(x) /\ Audits(x, "pending", clock'[x])
      /\ UNCHANGED <<kyc, item, req, disturbed>>
  BY DEF CreateSchool
<1>3. school'[x] = "pending" /\ \A y \in Schools : y # x => school'[y] = school[y]
  BY <1>2 DEF TypeOK
<1>4. /\ clock[x] \in Nat /\ clock'[x] = clock[x] + 1
      /\ \A y \in Subjects : y # x => clock'[y] = clock[y]
  BY <1>1, <1>2 DEF Stamps, TypeOK
<1>5. \A y \in Subjects : y # x => newest'[y] = newest[y]
  BY <1>2 DEF Audits, TypeOK
<1>6. \A y \in Subjects : y # x => StateOf(y)' = StateOf(y)
  BY <1>2, <1>3 DEF StateOf
<1>7. ASSUME NEW y \in Subjects, y # x, Settled(y)
      PROVE  Settled(y)'
  BY <1>2, <1>4, <1>5, <1>6, <1>7, Untouched
<1>8. ASSUME Settled(x)
      PROVE  Settled(x)'
  <2>1. ASSUME NEW s \in Requests, On(req[s]) = x
        PROVE  FALSE
    <3>1. req[s].op \in {"verify", "review", "audit", "insert"} /\ req[s].subject = x
      BY <1>1, <2>1, OnIs
    <3>2. req[s].op = "verify"
      BY <3>1, TaskKind, RecordsAssumption DEF Reviewing, Auditing, Inserting
    <3>3. StateOf(x) # None
      BY <1>8, <2>1, <3>2 DEF Settled, TaskFits
    <3> QED
      BY <1>1, <1>2, <3>3
  <2>2. newest[x].at \in Nat /\ newest[x].at <= clock[x]
    BY <1>1, <1>8 DEF Settled, TypeOK
  <2>3. newest'[x] = [at |-> clock'[x], state |-> "pending"]
    BY <1>1, <1>2, <1>4, <2>2 DEF Audits, TypeOK
  <2>4. newest'[x].at <= clock'[x] /\ Newest(x)' = StateOf(x)'
    BY <1>1, <1>3, <1>4, <2>3 DEF Newest
  <2> QED
    BY <1>2, <2>1, <2>4 DEF Settled, Alone
<1> QED
  BY <1>2, <1>7, <1>8 DEF TrailInv

LEMMA TrailNext == TypeOK /\ TrailInv /\ Next => TrailInv'
<1> SUFFICES ASSUME TypeOK, TrailInv, Next
             PROVE  TrailInv'
  OBVIOUS
<1>1. ASSUME NEW u \in Users, NEW s \in Schools, CreateSchool(u, s)
      PROVE  TrailInv'
  BY <1>1, TrailCreated
<1>2. ASSUME NEW r \in Requests,
             \/ \E u \in Users, s \in Schools, status \in SchoolStatuses :
                  BeginVerify(r, u, s, status)
             \/ \E u \in Users, user \in Reviewed, status \in KycStatuses :
                  BeginReview(r, u, user, status)
             \/ \E u \in Users, i \in Items : \E row : BeginItem(r, u, i, row)
      PROVE  TrailInv'
  BY <1>2, TrailBegins
<1>3. ASSUME NEW r \in Requests, Verify(r) \/ Upsert(r) \/ RecordAudit(r)
      PROVE  TrailInv'
  BY <1>3, TrailVerified, TrailUpserted, TrailAudited
<1>4. ASSUME NEW r \in Requests, NEW kind, InsertItem(r, kind)
      PROVE  TrailInv'
  BY <1>4, TrailInserted
<1>5. ASSUME NEW r \in Requests, InsertRefused(r)
      PROVE  TrailInv'
  BY <1>5, GoesTo, TrailGivenUp DEF InsertRefused
<1>6. ASSUME NEW r \in Requests, Lost(r)
      PROVE  TrailInv'
  <2>1. req'[r] = Idle /\ \A s \in Requests : s # r => req'[s] = req[s]
    BY <1>6, GoesTo DEF Lost
  <2> QED
    BY <1>6, <2>1, TrailGivenUp DEF Lost
<1>7. ASSUME NEW r \in Requests, NEW u \in Users, NEW child \in Children,
             NEW recipient \in Recipients, NEW s \in Schools \cup {None},
             BeginIssue(r, u, child, recipient, s)
      PROVE  TrailInv'
  <2>1. On(req[r]) = None /\ On(req'[r]) = None /\ \A t \in Requests : t # r => req'[t] = req[t]
    BY <1>7, GoesTo DEF BeginIssue, On, Idle
  <2> QED
    BY <1>7, <2>1, TrailElsewhere DEF BeginIssue
<1>8. ASSUME NEW r \in Requests, NEW u \in Users, NEW child, NEW mine, BeginList(r, u, child, mine)
      PROVE  TrailInv'
  <2>1. On(req[r]) = None /\ On(req'[r]) = None /\ \A t \in Requests : t # r => req'[t] = req[t]
    BY <1>8, GoesTo DEF BeginList, On, Idle
  <2> QED
    BY <1>8, <2>1, TrailElsewhere DEF BeginList
<1>9. ASSUME NEW r \in Requests, NEW query \in req[r].left, RunQuery(r, query)
      PROVE  TrailInv'
  <2>1. req[r] \in Listing /\ req[r].op = "list"
    BY <1>9, TaskKind DEF RunQuery
  <2>2. PICK answer : req'[r] = [req[r] EXCEPT !.found = @ \cup answer, !.left = @ \ {query}]
    BY <1>9, GoesTo DEF RunQuery
  <2>3. req'[r].op = "list" /\ \A t \in Requests : t # r => req'[t] = req[t]
    BY <1>9, <2>1, <2>2, GoesTo DEF RunQuery, Listing
  <2>4. On(req[r]) = None /\ On(req'[r]) = None
    BY <2>1, <2>3 DEF On
  <2> QED
    BY <1>9, <2>3, <2>4, TrailElsewhere DEF RunQuery
<1>10. ASSUME NEW r \in Requests,
              AnswerList(r) \/ \E c \in Credentials : StoreCredential(r, c)
       PROVE  TrailInv'
  <2>1. On(req[r]) = None /\ On(req'[r]) = None /\ \A t \in Requests : t # r => req'[t] = req[t]
    BY <1>10, GoesTo DEF AnswerList, StoreCredential, On, Idle
  <2>2. UNCHANGED <<school, kyc, item, newest, clock, disturbed>>
    BY <1>10 DEF AnswerList, StoreCredential
  <2> QED
    BY <2>1, <2>2, TrailElsewhere
<1> QED
  BY <1>1, <1>2, <1>3, <1>4, <1>5, <1>6, <1>7, <1>8, <1>9, <1>10
     DEF Next, CreatePlan, CreateMilestone, AddContributor, InsertPlan, InsertMilestone,
         InsertContributor

LEMMA TrailStep == TypeOK /\ TrailInv /\ [Next]_vars => TrailInv'
<1>1. TrailInv /\ UNCHANGED vars => TrailInv'
  BY DEF vars, TrailInv, Settled, TaskFits, Alone, StateOf, Newest
<1> QED
  BY <1>1, TrailNext

LEMMA TrailInit == Init => TrailInv
<1> SUFFICES ASSUME Init, NEW x \in Subjects
             PROVE  Settled(x)
  BY DEF TrailInv
<1>1. x # None
  BY RecordsAssumption DEF Subjects
<1>2. \A r \in Requests : On(req[r]) # x
  BY <1>1 DEF Init, On, Idle
<1>3. newest[x] = NoEntry /\ clock[x] = 0
  BY DEF Init
<1>4. StateOf(x) = None
  BY DEF Init, StateOf, Subjects
<1> QED
  BY <1>2, <1>3, <1>4 DEF Settled, Alone, Newest, NoEntry

\* Whatever tasks are in flight elsewhere, and although a KYC profile or a savings record
\* is audited in a statement of its own, the trail of a subject ends in the state of its
\* row once no task works on it, unless two of its reviews overlapped or a task was lost
\* between the write and its audit (verify_with_audit, kyc.upsert, audit_logs.append).
THEOREM TrailsEndInTheirRows == Spec => []TrailEndsInRow
<1>1. Init => TypeOK /\ TrailInv
  BY TypeInit, TrailInit
<1>2. (TypeOK /\ TrailInv) /\ [Next]_vars => (TypeOK /\ TrailInv)'
  BY TypeStep, TrailStep
<1>3. TrailInv => TrailEndsInRow
  BY DEF TrailInv, Settled, TrailEndsInRow
<1> QED
  BY <1>1, <1>2, <1>3, PTL DEF Spec

=============================================================================
