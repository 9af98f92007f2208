---------------------------- MODULE Notifications -----------------------------
(***************************************************************************)
(* In-app notifications of decisions, and the preferences they obey.       *)
(*                                                                         *)
(* The routes that confirm a contribution, approve or complete a payout,   *)
(* or approve an application first run the decision's transaction and then *)
(* dispatch an event: the recipient's preference is read, a notification   *)
(* is inserted, an email is handed over, each on its own.  An error of the *)
(* dispatch is logged and the route still answers success; a task lost     *)
(* after its commit leaves no trace of the event.  A request to decide     *)
(* what is decided already succeeds and dispatches the event again.        *)
(*                                                                         *)
(* Decisions themselves are the subject of Contributions, Payouts and      *)
(* ScholarshipPools; of their subjects only the status is kept here.  The  *)
(* names of this module are its own, so that it can stand beside           *)
(* AuthSessions in one module of theorems.                                 *)
(***************************************************************************)
EXTENDS Naturals, FiniteSets

CONSTANTS
  Subjects,   \* contributions, payouts and applications
  Kind,       \* which of the three a subject is
  Recipient,  \* the vault's owner, the payout's requester, the applicant
  Users,
  Chosen,     \* the types users change their preference of
  Rows,       \* fresh ids of notifications
  PrefIds,    \* fresh ids of preferences
  Tasks,      \* tasks that may be in flight at once
  NoRow       \* no such row

ASSUME NotificationsAssumption ==
  /\ Kind \in [Subjects -> {"contribution", "payout", "application"}]
  /\ Recipient \in [Subjects -> Users]

VARIABLES
  status,        \* status of every subject
  preference,    \* notification_preferences
  notification,  \* notifications, by id
  doing,         \* what each task carries from step to step
  was,           \* history: the statuses a subject has had
  off            \* history: channels off ever since a task's decision was made

noticeVars == <<status, preference, notification, doing, was, off>>

-----------------------------------------------------------------------------
(* Decisions.  An approved application is called awarded, to tell it from  *)
(* an approved payout; Start is the last status before the first event.    *)

Start(x) ==
  CASE Kind[x] = "contribution" -> "Pending"
    [] Kind[x] = "payout"       -> "UnderReview"
    [] Kind[x] = "application"  -> "Submitted"

Moves ==
  {<<"Pending", "Confirmed">>, <<"Confirmed", "Reversed">>,
   <<"UnderReview", "Approved">>, <<"Approved", "Processing">>,
   <<"Processing", "Completed">>, <<"Submitted", "Awarded">>}

\* The statuses whose routes dispatch.
Announced == {"Confirmed", "Approved", "Completed", "Awarded"}

\* settle_contribution and review_transition answer a request for the status the
\* row has; an application is decided in status Submitted only.
Repeatable == Announced \ {"Awarded"}

\* render_notification_template: the type goes with the decision, and the
\* metadata names the subject; the wording is left out.
Type(to) ==
  CASE to = "Confirmed" -> "contribution_received"
    [] to = "Approved"  -> "payout_approved"
    [] to = "Completed" -> "payout_completed"
    [] to = "Awarded"   -> "scholarship_awarded"

-----------------------------------------------------------------------------
(* Preferences.                                                            *)

Default == [inApp |-> TRUE, email |-> FALSE]

RowsOf(u, type) == {p \in preference : p.user = u /\ p.type = type}

\* A mistake the runs must notice: any preference of the user is taken.
PreferencesAnyType(u, type) ==
  LET found == {p \in preference : p.user = u}
  IN IF found = {} THEN {Default} ELSE {[inApp |-> p.inApp, email |-> p.email] : p \in found}

\* find_by_user_and_type, or the default: what the dispatcher may read.
Preferences(u, type) ==
  LET found == RowsOf(u, type)
  IN IF found = {} THEN {Default} ELSE {[inApp |-> p.inApp, email |-> p.email] : p \in found}

\* The channels that every row in force switches off.
OffFor(rows) ==
  {channel \in {"inApp", "email"} : \A p \in rows : ~p[channel]}

InForce(rows) == IF rows = {} THEN {Default} ELSE rows

-----------------------------------------------------------------------------
NoWork == [op |-> "idle"]

NoticeInit ==
  /\ status = [x \in Subjects |-> Start(x)]
  /\ preference = {}
  /\ notification = [n \in Rows |-> NoRow]
  /\ doing = [r \in Tasks |-> NoWork]
  /\ was = [x \in Subjects |-> {Start(x)}]
  /\ off = [r \in Tasks |-> {}]

Carries(r, state) == doing' = [doing EXCEPT ![r] = state]

Enters(x, to) ==
  /\ status' = [status EXCEPT ![x] = to]
  /\ was' = [was EXCEPT ![x] = @ \cup {to}]

\* The route goes on to the dispatch; from here on off[r] is known.
Dispatches(r, x, to) ==
  /\ Carries(r, [op |-> "prefer", subject |-> x, to |-> to])
  /\ off' = [off EXCEPT ![r] = OffFor(InForce(RowsOf(Recipient[x], Type(to))))]

\* A mistake the runs must notice: the event is dispatched before the transaction.
DecideDispatching(r, x, to) ==
  /\ doing[r] = NoWork
  /\ to \in Announced
  /\ <<status[x], to>> \in Moves
  /\ Dispatches(r, x, to)
  /\ UNCHANGED <<status, preference, notification, was>>

\* The use case has read and validated the subject.
Decide(r, x, to) ==
  /\ doing[r] = NoWork
  /\ to \in Announced
  /\ <<status[x], to>> \in Moves
  /\ Carries(r, [op |-> "commit", subject |-> x, to |-> to])
  /\ UNCHANGED <<status, preference, notification, was, off>>

\* The transaction compares the row with nothing but its target.
Commit(r) ==
  LET task == doing[r] IN
  /\ task.op = "commit"
  /\ Enters(task.subject, task.to)
  /\ Dispatches(r, task.subject, task.to)
  /\ UNCHANGED <<preference, notification>>

Repeat(r, x, to) ==
  /\ doing[r] = NoWork
  /\ to \in Repeatable
  /\ status[x] = to
  /\ Dispatches(r, x, to)
  /\ UNCHANGED <<status, preference, notification, was>>

\* The routes that reverse a contribution or process a payout dispatch nothing.
MoveSilently(x, to) ==
  /\ <<status[x], to>> \in Moves
  /\ to \notin Announced
  /\ Enters(x, to)
  /\ UNCHANGED <<preference, notification, doing, off>>

(* handle_application_event                                                *)

ReadPreference(r) ==
  LET task == doing[r] IN
  /\ task.op = "prefer"
  /\ \E p \in Preferences(Recipient[task.subject], Type(task.to)) :
       \/ p.inApp
          /\ Carries(r, [op |-> "store", subject |-> task.subject, to |-> task.to,
                         email |-> p.email])
       \/ ~p.inApp /\ p.email
          /\ Carries(r, [op |-> "send", subject |-> task.subject, to |-> task.to])
       \/ ~p.inApp /\ ~p.email /\ Carries(r, NoWork)
  /\ UNCHANGED <<status, preference, notification, was, off>>

StoreNotification(r, n) ==
  LET task == doing[r] IN
  /\ task.op = "store"
  /\ notification[n] = NoRow
  /\ notification' = [notification EXCEPT ![n] =
       [user |-> Recipient[task.subject], type |-> Type(task.to),
        subject |-> task.subject, to |-> task.to, read |-> FALSE]]
  /\ Carries(r, IF task.email THEN [op |-> "send", subject |-> task.subject, to |-> task.to]
                ELSE NoWork)
  /\ UNCHANGED <<status, preference, was, off>>

\* email_sender.send: the sender of the program takes the message and drops it.
SendEmail(r) ==
  /\ doing[r].op = "send"
  /\ Carries(r, NoWork)
  /\ UNCHANGED <<status, preference, notification, was, off>>

(* The routes of the recipient.  A notification never changes hands, so    *)
(* looking at its user and updating it is one step.                        *)

Inbox(u) == {n \in Rows : notification[n] # NoRow /\ notification[n].user = u}

MarkRead(u, n, read) ==
  /\ n \in Inbox(u)
  /\ notification' = [notification EXCEPT ![n].read = read]
  /\ UNCHANGED <<status, preference, doing, was, off>>

\* upsert_notification_preference: the id of the row that is there, else a new one.
BeginUpsert(r, u, type, id) ==
  /\ doing[r] = NoWork
  /\ \/ /\ RowsOf(u, type) = {}
        /\ \A p \in preference : p.id # id
        /\ \A s \in Tasks : doing[s].op = "upsert" => doing[s].id # id
     \/ \E p \in RowsOf(u, type) : p.id = id
  /\ Carries(r, [op |-> "upsert", user |-> u, type |-> type, id |-> id])
  /\ UNCHANGED <<status, preference, notification, was, off>>

\* Storing rows for a user and type updates what has been off since the
\* decisions under way.
Saves(u, type, rows) ==
  /\ preference' = (preference \ RowsOf(u, type)) \cup rows
  /\ off' = [s \in Tasks |->
       IF doing[s].op \in {"prefer", "store", "send"}
          /\ Recipient[doing[s].subject] = u /\ Type(doing[s].to) = type
       THEN off[s] \cap OffFor(rows) ELSE off[s]]

\* A mistake the runs must notice: conflicts are looked for by the id.
UpsertById(r, inApp, email) ==
  LET task == doing[r]
      row == [id |-> task.id, user |-> task.user, type |-> task.type,
              inApp |-> inApp, email |-> email]
      others == {p \in RowsOf(task.user, task.type) : p.id # task.id}
  IN
  /\ task.op = "upsert"
  /\ Saves(task.user, task.type, others \cup {row})
  /\ Carries(r, NoWork)
  /\ UNCHANGED <<status, notification, was>>

\* INSERT .. ON CONFLICT (user_id, notification_type) DO UPDATE: a row that is
\* there keeps its id, whatever id the task found or made up.
Upsert(r, inApp, email) ==
  LET task == doing[r]
      there == RowsOf(task.user, task.type)
      id == IF there = {} THEN task.id ELSE (CHOOSE p \in there : TRUE).id
  IN
  /\ task.op = "upsert"
  /\ Saves(task.user, task.type,
           {[id |-> id, user |-> task.user, type |-> task.type,
             inApp |-> inApp, email |-> email]})
  /\ Carries(r, NoWork)
  /\ UNCHANGED <<status, notification, was>>

\* A statement fails or the process dies; the route logs it at most.
DispatchLost(r) ==
  /\ doing[r] # NoWork
  /\ Carries(r, NoWork)
  /\ UNCHANGED <<status, preference, notification, was, off>>

NoticeNext ==
  \/ \E x \in Subjects, to \in {"Reversed", "Processing"} : MoveSilently(x, to)
  \/ \E u \in Users, n \in Rows, read \in BOOLEAN : MarkRead(u, n, read)
  \/ \E r \in Tasks :
       \/ \E x \in Subjects, to \in Announced : Decide(r, x, to) \/ Repeat(r, x, to)
       \/ Commit(r)
       \/ ReadPreference(r)
       \/ \E n \in Rows : StoreNotification(r, n)
       \/ SendEmail(r)
       \/ \E u \in Users, type \in Chosen, id \in PrefIds : BeginUpsert(r, u, type, id)
       \/ \E inApp, email \in BOOLEAN : Upsert(r, inApp, email)
       \/ DispatchLost(r)

NoticeSpec == NoticeInit /\ [][NoticeNext]_noticeVars

-----------------------------------------------------------------------------
\* A notification is about something that happened, and says so to whom it
\* concerns: the subject has had the announced status, because the routes
\* dispatch after the commit.  It may have moved on by then (a contribution that
\* was reversed is still announced).
AnnouncedAfterCommit ==
  \A u \in Users : \A n \in Inbox(u) :
    /\ notification[n].to \in was[notification[n].subject]
    /\ u = Recipient[notification[n].subject]

\* A channel that the recipient has kept switched off for this type since the
\* decision was made is not used, although preferences are changed while the
\* event is dispatched (handle_application_event reads them after the commit).
PreferencesRespected ==
  \A r \in Tasks :
    /\ doing[r].op = "store" => "inApp" \notin off[r]
    /\ doing[r].op = "send" => "email" \notin off[r]

\* A user has one row per type, even when two first upserts that found none
\* race; the dispatcher would read either of two (the UNIQUE constraint and the
\* ON CONFLICT clause).
OnePreferencePerType ==
  \A u \in Users, type \in Chosen : Cardinality(RowsOf(u, type)) <= 1
=============================================================================
