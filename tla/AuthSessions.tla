----------------------------- MODULE AuthSessions -----------------------------
(***************************************************************************)
(* Accounts, refresh sessions and email verification                       *)
(* (crates/application/src/auth.rs over infrastructure/src/auth/repo.rs).  *)
(*                                                                         *)
(* Nothing here runs in a transaction: every statement of a use case is    *)
(* committed on its own, so every statement is a step of the task, and a   *)
(* task lost between two of them leaves the first one's effect behind.     *)
(*                                                                         *)
(* A refresh token carries the id of its session and a client holds it     *)
(* once the session is stored.                                             *)
(* Wrong passwords, forged tokens and roles that may not register are      *)
(* refused without a change and are not steps.  The code never changes an  *)
(* account's status; an operator does, in the database.                    *)
(***************************************************************************)
EXTENDS Integers, FiniteSetsExt

CONSTANTS
  Emails,    \* normalised email addresses; one account each
  Sessions,  \* fresh session ids; bounds the sessions of a run
  Mails,     \* fresh ids of verification tokens
  Requests,  \* tasks that may be in flight at once
  None       \* no such row, no such session

VARIABLES
  account,  \* users, by email
  audited,  \* emails whose user_registered audit row is stored
  session,  \* refresh_tokens
  mail,     \* email_verification_tokens
  req,      \* where each task is and what it carries
  login,    \* history: the session a session was refreshed from in the end
  forked    \* history: sessions that two overlapping tasks refreshed

rows == <<account, audited, session, mail>>
history == <<login, forked>>
vars == <<rows, req, history>>

-----------------------------------------------------------------------------
Idle == [op |-> "idle"]

\* A task that is about to insert a session for a user; from is the session
\* that is being refreshed, None for a login.
Issuing == [op : {"issue"}, user : Emails, from : Sessions \cup {None}]
RequestState ==
  {Idle} \cup Issuing
  \cup [op : {"create", "audit", "send"}, user : Emails]
  \cup [op : {"rotate", "load"}, session : Sessions]
  \cup [op : {"consume", "mark"}, mail : Mails]

Account == [active : BOOLEAN, verified : BOOLEAN]
Session == [user : Emails, revoked : BOOLEAN, expired : BOOLEAN]
Mail == [user : Emails, consumed : BOOLEAN, expired : BOOLEAN]

\* None is told apart from every row and every id.
ASSUME NoneAssumption == None \notin Sessions \cup Account \cup Session \cup Mail

TypeOK ==
  /\ account \in [Emails -> Account \cup {None}]
  /\ audited \subseteq Emails
  /\ session \in [Sessions -> Session \cup {None}]
  /\ mail \in [Mails -> Mail \cup {None}]
  /\ req \in [Requests -> RequestState]
  /\ login \in [Sessions -> Sessions \cup {None}]
  /\ forked \subseteq Sessions

Known(row) == row # None

\* ensure_active_user
Active(e) == Known(account[e]) /\ account[e].active

\* What refresh asks of the session it reads.
Refreshable(s) == Known(session[s]) /\ ~session[s].revoked /\ ~session[s].expired

Init ==
  /\ account = [e \in Emails |-> None]
  /\ audited = {}
  /\ session = [s \in Sessions |-> None]
  /\ mail = [m \in Mails |-> None]
  /\ req = [r \in Requests |-> Idle]
  /\ login = [s \in Sessions |-> None]
  /\ forked = {}

Goes(r, state) == req' = [req EXCEPT ![r] = state]

-----------------------------------------------------------------------------
(* register: find_user_by_email, create_user, the audit row, a session.    *)

BeginRegister(r, e) ==
  /\ req[r] = Idle
  /\ ~Known(account[e])
  /\ Goes(r, [op |-> "create", user |-> e])
  /\ UNCHANGED <<rows, history>>

CreateUser(r) ==
  LET e == req[r].user IN
  /\ req[r].op = "create"
  /\ ~Known(account[e])
  /\ account' = [account EXCEPT ![e] = [active |-> TRUE, verified |-> FALSE]]
  /\ Goes(r, [op |-> "audit", user |-> e])
  /\ UNCHANGED <<audited, session, mail, history>>

\* The UNIQUE constraint on email refuses the second of two registrations.
EmailTaken(r) ==
  /\ req[r].op = "create"
  /\ Known(account[req[r].user])
  /\ Goes(r, Idle)
  /\ UNCHANGED <<rows, history>>

RecordRegistered(r) ==
  /\ req[r].op = "audit"
  /\ audited' = audited \cup {req[r].user}
  /\ Goes(r, [op |-> "issue", user |-> req[r].user, from |-> None])
  /\ UNCHANGED <<account, session, mail, history>>

(* login: find_user_by_email and the password, then a session.             *)

Login(r, e) ==
  /\ req[r] = Idle
  /\ Active(e)
  /\ Goes(r, [op |-> "issue", user |-> e, from |-> None])
  /\ UNCHANGED <<rows, history>>

\* issue_session: the new session is stored and its tokens are answered.
IssueSession(r, s) ==
  LET from == req[r].from IN
  /\ req[r].op = "issue"
  /\ ~Known(session[s])
  /\ session' = [session EXCEPT ![s] =
       [user |-> req[r].user, revoked |-> FALSE, expired |-> FALSE]]
  /\ login' = [login EXCEPT ![s] = IF from = None THEN s ELSE login[from]]
  /\ Goes(r, Idle)
  /\ UNCHANGED <<account, audited, mail, forked>>

(* refresh: find_refresh_session, revoke_refresh_session, find_user_by_id, *)
(* then a session.                                                         *)

Refreshing(s) == {r \in Requests : req[r] = [op |-> "rotate", session |-> s]}

\* A mistake the runs must notice: revoked_at is not looked at.
BeginRefreshRevoked(r, s) ==
  /\ req[r] = Idle
  /\ Known(session[s]) /\ ~session[s].expired
  /\ Goes(r, [op |-> "rotate", session |-> s])
  /\ forked' = IF Refreshing(s) = {} THEN forked ELSE forked \cup {s}
  /\ UNCHANGED <<rows, login>>

BeginRefresh(r, s) ==
  /\ req[r] = Idle
  /\ Refreshable(s)
  /\ Goes(r, [op |-> "rotate", session |-> s])
  /\ forked' = IF Refreshing(s) = {} THEN forked ELSE forked \cup {s}
  /\ UNCHANGED <<rows, login>>

\* A mistake the runs must notice: the old session is left alive.
RevokeNothing(r) ==
  /\ req[r].op = "rotate"
  /\ Goes(r, [op |-> "load", session |-> req[r].session])
  /\ UNCHANGED <<rows, history>>

\* UPDATE .. WHERE revoked_at IS NULL; that it may have changed no row is not
\* looked at.
RevokeOld(r) ==
  /\ req[r].op = "rotate"
  /\ session' = [session EXCEPT ![req[r].session].revoked = TRUE]
  /\ Goes(r, [op |-> "load", session |-> req[r].session])
  /\ UNCHANGED <<account, audited, mail, history>>

\* An inactive account is refused here, after the old session is gone.
LoadUser(r) ==
  LET e == session[req[r].session].user IN
  /\ req[r].op = "load"
  /\ \/ Active(e) /\ Goes(r, [op |-> "issue", user |-> e, from |-> req[r].session])
     \/ ~Active(e) /\ Goes(r, Idle)
  /\ UNCHANGED <<rows, history>>

\* logout: one statement, whatever state the session is in.  (The decoder
\* accepts a token for a minute after its expiry, so that a session has expired
\* does not exclude a logout.)
Logout(s) ==
  /\ Known(session[s])
  /\ session' = [session EXCEPT ![s].revoked = TRUE]
  /\ UNCHANGED <<account, audited, mail, req, history>>

-----------------------------------------------------------------------------
(* begin_email_verification: any access token of the account will do, its  *)
(* session is not looked at.                                               *)

BeginMail(r, e) ==
  /\ req[r] = Idle
  /\ \E s \in Sessions : Known(session[s]) /\ session[s].user = e
  /\ Active(e)
  /\ ~account[e].verified
  /\ Goes(r, [op |-> "send", user |-> e])
  /\ UNCHANGED <<rows, history>>

StoreMail(r, m) ==
  /\ req[r].op = "send"
  /\ ~Known(mail[m])
  /\ mail' = [mail EXCEPT ![m] =
       [user |-> req[r].user, consumed |-> FALSE, expired |-> FALSE]]
  /\ Goes(r, Idle)
  /\ UNCHANGED <<account, audited, session, history>>

(* verify_email: find the token, consume it, mark the account.             *)

BeginVerify(r, m) ==
  /\ req[r] = Idle
  /\ Known(mail[m]) /\ ~mail[m].consumed /\ ~mail[m].expired
  /\ Goes(r, [op |-> "consume", mail |-> m])
  /\ UNCHANGED <<rows, history>>

\* A mistake the runs must notice: the account is marked first.
MarkBeforeConsume(r) ==
  /\ req[r].op = "consume"
  /\ account' = [account EXCEPT ![mail[req[r].mail].user].verified = TRUE]
  /\ Goes(r, [op |-> "mark", mail |-> req[r].mail])
  /\ UNCHANGED <<audited, session, mail, history>>

ConsumeMail(r) ==
  /\ req[r].op = "consume"
  /\ mail' = [mail EXCEPT ![req[r].mail].consumed = TRUE]
  /\ Goes(r, [op |-> "mark", mail |-> req[r].mail])
  /\ UNCHANGED <<account, audited, session, history>>

\* (An account that has become inactive is marked too; only the answer is an
\* error then.)
MarkVerified(r) ==
  /\ req[r].op = "mark"
  /\ account' = [account EXCEPT ![mail[req[r].mail].user].verified = TRUE]
  /\ Goes(r, Idle)
  /\ UNCHANGED <<audited, session, mail, history>>

-----------------------------------------------------------------------------
(* Time, operators, failures.                                              *)

ExpireSession(s) ==
  /\ Known(session[s]) /\ ~session[s].expired
  /\ session' = [session EXCEPT ![s].expired = TRUE]
  /\ UNCHANGED <<account, audited, mail, req, history>>

ExpireMail(m) ==
  /\ Known(mail[m]) /\ ~mail[m].expired
  /\ mail' = [mail EXCEPT ![m].expired = TRUE]
  /\ UNCHANGED <<account, audited, session, req, history>>

\* An operator suspends or reinstates an account.
SetStatus(e) ==
  /\ Known(account[e])
  /\ account' = [account EXCEPT ![e].active = ~@]
  /\ UNCHANGED <<audited, session, mail, req, history>>

\* The task ends between two statements.
Lost(r) ==
  /\ req[r] # Idle
  /\ Goes(r, Idle)
  /\ UNCHANGED <<rows, history>>

Next ==
  \/ \E r \in Requests :
       \/ \E e \in Emails : BeginRegister(r, e) \/ Login(r, e) \/ BeginMail(r, e)
       \/ CreateUser(r) \/ EmailTaken(r) \/ RecordRegistered(r)
       \/ \E s \in Sessions : IssueSession(r, s) \/ BeginRefresh(r, s)
       \/ RevokeOld(r) \/ LoadUser(r)
       \/ \E m \in Mails : StoreMail(r, m) \/ BeginVerify(r, m)
       \/ ConsumeMail(r) \/ MarkVerified(r)
       \/ Lost(r)
  \/ \E s \in Sessions : Logout(s) \/ ExpireSession(s)
  \/ \E m \in Mails : ExpireMail(m)
  \/ \E e \in Emails : SetStatus(e)

Spec == Init /\ [][Next]_vars

-----------------------------------------------------------------------------
(* Properties under any interleaving.                                      *)

Live(s) == Known(session[s]) /\ ~session[s].revoked
LiveOf(l) == {s \in Sessions : Live(s) /\ login[s] = l}

\* The tasks that still have to store a session of a login.
OnBehalfOf(r, l) ==
  \/ req[r].op \in {"rotate", "load"} /\ login[req[r].session] = l
  \/ req[r].op = "issue" /\ req[r].from # None /\ login[req[r].from] = l

\* However refreshes, logouts and lost tasks interleave, a login has more than
\* one live session only if two refreshes of one session overlapped:
\* revoke_refresh_session comes before issue_session and a revoked session is
\* not refreshed.
OneLiveSessionUnlessForked ==
  \A l \in Sessions :
    Cardinality(LiveOf(l)) > 1 => \E s \in forked : login[s] = l

\* A login none of whose sessions is live, and for which no refresh is under
\* way, never comes back to life: a revoked session is not refreshed and the
\* user has to log in again.
Ended(l) ==
  login[l] # None /\ LiveOf(l) = {} /\ \A r \in Requests : ~OnBehalfOf(r, l)

EndedStaysEnded == [][\A l \in Sessions : Ended(l) => Ended(l)']_vars

\* A verified account has used up a verification token, whether or not the
\* task that did it was lost in between.
VerifiedByMail ==
  \A e \in Emails : Known(account[e]) /\ account[e].verified =>
    \E m \in Mails : Known(mail[m]) /\ mail[m].user = e /\ mail[m].consumed
=============================================================================
