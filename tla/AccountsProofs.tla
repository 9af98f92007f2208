---------------------------- MODULE AccountsProofs ----------------------------
(***************************************************************************)
(* Theorems about what belongs to an account: its sessions (AuthSessions)  *)
(* and what it is told and how (Notifications).  The two share no state;   *)
(* each theorem is about one of them, for every number of users, rows and  *)
(* concurrent tasks.                                                       *)
(***************************************************************************)
EXTENDS AuthSessions, Notifications, FiniteSetTheorems, TLAPS

-----------------------------------------------------------------------------
(* AuthSessions.                                                           *)

(* What the types leave out: what a task carries is stored, a stored       *)
(* session and no other has a stored login, and only stored sessions have  *)
(* been forked.                                                            *)

TasksSound ==
  \A r \in Requests :
    /\ req[r].op \in {"rotate", "load"} => Known(session[req[r].session])
    /\ req[r].op = "issue" /\ req[r].from # None => Known(session[req[r].from])
    /\ req[r].op \in {"consume", "mark"} => Known(mail[req[r].mail])

LoginsSound ==
  /\ \A s \in Sessions : Known(session[s]) =>
       login[s] \in Sessions /\ Known(session[login[s]])
  /\ \A s \in Sessions : login[s] # None => Known(session[s])
  /\ \A s \in forked : Known(session[s])

AccountsSound ==
  /\ \A r \in Requests : req[r].op = "audit" => Known(account[req[r].user])
  /\ \A m \in Mails : Known(mail[m]) => Known(account[mail[m].user])
  /\ \A r \in Requests : req[r].op = "send" => Known(account[req[r].user])

TypeInv == TypeOK /\ TasksSound /\ LoginsSound /\ AccountsSound

\* A task's op tells which record it is.
LEMMA TaskKind ==
  ASSUME TypeOK, NEW r \in Requests
  PROVE  /\ req[r].op \in {"create", "audit", "send"} => req[r].user \in Emails
         /\ req[r].op \in {"rotate", "load"} => req[r].session \in Sessions
         /\ req[r].op \in {"consume", "mark"} => req[r].mail \in Mails
         /\ req[r].op = "issue" =>
              req[r].user \in Emails /\ req[r].from \in Sessions \cup {None}
<1>1. req[r] \in RequestState
  BY DEF TypeOK
<1> QED
  BY <1>1 DEF RequestState, Idle, Issuing

\* A typed row is a known one.
LEMMA RowsAreKnown ==
  \A row \in Account \cup Session \cup Mail : Known(row)
BY NoneAssumption DEF Known

LEMMA TypeInit == Init => TypeInv
BY NoneAssumption
   DEF Init, TypeInv, TypeOK, TasksSound, LoginsSound, AccountsSound, RequestState, Idle, Known

LEMMA TypeStep == TypeInv /\ [Next]_vars => TypeInv'
<1> SUFFICES ASSUME TypeInv, [Next]_vars PROVE TypeInv'
  OBVIOUS
<1> USE DEF TypeInv, rows, history, Goes
<1>1. ASSUME NEW r \in Requests, NEW e \in Emails,
             BeginRegister(r, e) \/ Login(r, e) \/ BeginMail(r, e)
      PROVE  TypeInv'
  <2>1. UNCHANGED <<account, audited, session, mail, login, forked>>
    BY <1>1 DEF BeginRegister, Login, BeginMail
  <2>2. PICK state \in [op : {"create", "send"}, user : Emails] \cup Issuing :
          /\ req' = [req EXCEPT ![r] = state]
          /\ state.op = "issue" => state.from = None
          /\ state.op = "send" => Known(account[state.user])
    <3>1. CASE BeginRegister(r, e)
      <4> DEFINE state == [op |-> "create", user |-> e]
      <4>1. state \in [op : {"create", "send"}, user : Emails] \cup Issuing
        OBVIOUS
      <4>2. req' = [req EXCEPT ![r] = state] /\ state.op # "issue" /\ state.op # "send"
        BY <3>1 DEF BeginRegister
      <4> QED
        BY <4>1, <4>2
    <3>2. CASE Login(r, e)
      <4> DEFINE state == [op |-> "issue", user |-> e, from |-> None]
      <4>1. state \in [op : {"create", "send"}, user : Emails] \cup Issuing
        BY DEF Issuing
      <4>2. req' = [req EXCEPT ![r] = state] /\ state.from = None /\ state.op # "send"
        BY <3>2 DEF Login
      <4> QED
        BY <4>1, <4>2
    <3>3. CASE BeginMail(r, e)
      <4> DEFINE state == [op |-> "send", user |-> e]
      <4>1. state \in [op : {"create", "send"}, user : Emails] \cup Issuing
        OBVIOUS
      <4>2. req' = [req EXCEPT ![r] = state] /\ state.op # "issue" /\ Known(account[state.user])
        BY <3>3 DEF BeginMail, Active
      <4> QED
        BY <4>1, <4>2
    <3> QED
      BY <1>1, <3>1, <3>2, <3>3
  <2>3. state.op \in {"create", "send", "issue"}
    BY <2>2 DEF Issuing
  <2>4. TypeOK'
    BY <2>1, <2>2 DEF TypeOK, RequestState
  <2> QED
    BY <2>1, <2>2, <2>3, <2>4 DEF TypeOK, TasksSound, LoginsSound, AccountsSound, Known
<1>2. ASSUME NEW r \in Requests, CreateUser(r)
      PROVE  TypeInv'
  <2> DEFINE e == req[r].user
             row == [active |-> TRUE, verified |-> FALSE]
  <2>1. e \in Emails /\ row \in Account /\ Known(row)
    BY <1>2, TaskKind, RowsAreKnown DEF CreateUser, Account
  <2>2. /\ account' = [account EXCEPT ![e] = row]
        /\ req' = [req EXCEPT ![r] = [op |-> "audit", user |-> e]]
        /\ UNCHANGED <<audited, session, mail, login, forked>>
    BY <1>2 DEF CreateUser
  <2>3. TypeOK'
    BY <2>1, <2>2 DEF TypeOK, RequestState
  <2>4. \A f \in Emails : Known(account[f]) \/ f = e => Known(account'[f])
    BY <2>1, <2>2 DEF TypeOK
  <2>5. TasksSound' /\ LoginsSound'
    BY <2>2 DEF TypeOK, TasksSound, LoginsSound, Known
  <2>6. AccountsSound'
    BY <2>1, <2>2, <2>4, TaskKind DEF TypeOK, AccountsSound, Mail, Known
  <2> QED
    BY <2>3, <2>5, <2>6
<1>3. ASSUME NEW r \in Requests, EmailTaken(r) \/ Lost(r)
      PROVE  TypeInv'
  <2>1. /\ req' = [req EXCEPT ![r] = Idle]
        /\ UNCHANGED <<account, audited, session, mail, login, forked>>
    BY <1>3 DEF EmailTaken, Lost
  <2> QED
    BY <2>1 DEF TypeOK, TasksSound, LoginsSound, AccountsSound, RequestState, Idle, Known
<1>4. ASSUME NEW r \in Requests, RecordRegistered(r)
      PROVE  TypeInv'
  <2>1. [op |-> "issue", user |-> req[r].user, from |-> None] \in Issuing
    BY <1>4, TaskKind DEF RecordRegistered, Issuing
  <2> QED
    BY <1>4, <2>1, TaskKind
       DEF RecordRegistered, TypeOK, TasksSound, LoginsSound, AccountsSound, RequestState, Known
<1>5. ASSUME NEW r \in Requests, NEW s \in Sessions, IssueSession(r, s)
      PROVE  TypeInv'
  <2> DEFINE row == [user |-> req[r].user, revoked |-> FALSE, expired |-> FALSE]
  <2>1. row \in Session /\ Known(row)
    BY <1>5, TaskKind, RowsAreKnown DEF IssueSession, Session
  <2>2. /\ session' = [session EXCEPT ![s] = row]
        /\ req' = [req EXCEPT ![r] = Idle]
        /\ UNCHANGED <<account, audited, mail, forked>>
    BY <1>5 DEF IssueSession
  <2>3. /\ login' = [login EXCEPT ![s] = IF req[r].from = None THEN s ELSE login[req[r].from]]
        /\ req[r].from # None => req[r].from \in Sessions /\ Known(session[req[r].from])
    BY <1>5, TaskKind DEF IssueSession, TasksSound
  <2>4. TypeOK'
    BY <2>1, <2>2, <2>3 DEF TypeOK, RequestState
  <2>5. \A t \in Sessions : Known(session[t]) => Known(session'[t])
    BY <2>1, <2>2 DEF TypeOK, Known
  <2>6. login'[s] \in Sessions /\ Known(session'[login'[s]])
    BY <2>1, <2>2, <2>3, <2>5 DEF TypeOK, LoginsSound
  <2>7. TasksSound'
    BY <2>2, <2>5, TaskKind DEF TypeOK, TasksSound, Idle
  <2>8. LoginsSound'
    <3>1. ASSUME NEW t \in Sessions \ {s}
          PROVE  login'[t] = login[t] /\ session'[t] = session[t]
      BY <2>2, <2>3 DEF TypeOK
    <3>2. Known(session'[s])
      BY <2>1, <2>2 DEF TypeOK
    <3> QED
      BY <2>2, <2>5, <2>6, <3>1, <3>2 DEF TypeOK, LoginsSound, Known
  <2> QED
    BY <2>2, <2>4, <2>7, <2>8 DEF AccountsSound, TypeOK, Idle
<1>6. ASSUME NEW r \in Requests, NEW s \in Sessions, BeginRefresh(r, s)
      PROVE  TypeInv'
  <2>1. forked' = forked \/ forked' = forked \cup {s}
    BY <1>6 DEF BeginRefresh
  <2> QED
    BY <1>6, <2>1
       DEF BeginRefresh, Refreshable, TypeOK, TasksSound, LoginsSound, AccountsSound, RequestState,
           Known
<1>7. ASSUME NEW s \in Sessions, Known(session[s]),
             session' \in {[session EXCEPT ![s].revoked = TRUE],
                          [session EXCEPT ![s].expired = TRUE]}
      PROVE  /\ session' \in [Sessions -> Session \cup {None}]
             /\ \A t \in Sessions : Known(session'[t]) <=> Known(session[t])
  <2>1. session[s] \in Session
    BY <1>7 DEF TypeOK, Known
  <2>2. /\ [session[s] EXCEPT !.revoked = TRUE] \in Session
        /\ [session[s] EXCEPT !.expired = TRUE] \in Session
    BY <2>1 DEF Session
  <2>3. session'[s] \in Session
    BY <1>7, <2>2 DEF TypeOK
  <2> QED
    BY <1>7, <2>1, <2>3, RowsAreKnown DEF TypeOK, Known
<1>8. ASSUME NEW r \in Requests, RevokeOld(r)
      PROVE  TypeInv'
  <2>1. req[r].session \in Sessions /\ Known(session[req[r].session])
    BY <1>8, TaskKind DEF RevokeOld, TasksSound
  <2>2. /\ session' \in [Sessions -> Session \cup {None}]
        /\ \A t \in Sessions : Known(session'[t]) <=> Known(session[t])
    BY <1>7, <1>8, <2>1 DEF RevokeOld
  <2>3. TypeOK'
    BY <1>8, <2>1, <2>2 DEF RevokeOld, TypeOK, RequestState
  <2>4. TasksSound'
    BY <1>8, <2>1, <2>2, TaskKind DEF RevokeOld, TypeOK, TasksSound
  <2> QED
    BY <1>8, <2>2, <2>3, <2>4 DEF RevokeOld, TypeOK, LoginsSound, AccountsSound
<1>9. ASSUME NEW r \in Requests, LoadUser(r)
      PROVE  TypeInv'
  <2>1. req[r].session \in Sessions /\ Known(session[req[r].session])
    BY <1>9, TaskKind DEF LoadUser, TasksSound
  <2>2. PICK state \in Issuing \cup {Idle} :
          /\ req' = [req EXCEPT ![r] = state]
          /\ state.op = "issue" => state.from = req[r].session
    <3>1. session[req[r].session].user \in Emails
      BY <2>1 DEF TypeOK, Known, Session
    <3> QED
      BY <1>9, <2>1, <3>1 DEF LoadUser, Issuing, Idle
  <2>3. state.op \in {"issue", "idle"}
    BY <2>2 DEF Issuing, Idle
  <2>4. TypeOK'
    BY <1>9, <2>2 DEF LoadUser, TypeOK, RequestState
  <2> QED
    BY <1>9, <2>1, <2>2, <2>3, <2>4
       DEF LoadUser, TypeOK, TasksSound, LoginsSound, AccountsSound, Known
<1>10. ASSUME NEW s \in Sessions, Logout(s) \/ ExpireSession(s)
       PROVE  TypeInv'
  <2>1. /\ session' \in [Sessions -> Session \cup {None}]
        /\ \A t \in Sessions : Known(session'[t]) <=> Known(session[t])
    BY <1>7, <1>10 DEF Logout, ExpireSession
  <2>2. UNCHANGED <<account, audited, mail, req, login, forked>>
    BY <1>10 DEF Logout, ExpireSession
  <2> QED
    BY <2>1, <2>2, TaskKind DEF TypeOK, TasksSound, LoginsSound, AccountsSound
<1>11. ASSUME NEW r \in Requests, NEW m \in Mails, StoreMail(r, m)
       PROVE  TypeInv'
  <2> DEFINE row == [user |-> req[r].user, consumed |-> FALSE, expired |-> FALSE]
  <2>1. row \in Mail /\ Known(row) /\ Known(account[row.user])
    BY <1>11, TaskKind, RowsAreKnown DEF StoreMail, Mail, AccountsSound
  <2>2. mail' = [mail EXCEPT ![m] = row] /\ req' = [req EXCEPT ![r] = Idle]
        /\ UNCHANGED <<account, audited, session, login, forked>>
    BY <1>11 DEF StoreMail
  <2>3. TypeOK'
    BY <2>1, <2>2 DEF TypeOK, RequestState
  <2>4. \A n \in Mails : Known(mail[n]) => Known(mail'[n])
    BY <2>1, <2>2 DEF TypeOK
  <2>5. TasksSound'
    BY <2>2, <2>4, TaskKind DEF TypeOK, TasksSound, Idle, Known
  <2> QED
    BY <2>1, <2>2, <2>3, <2>5 DEF TypeOK, LoginsSound, AccountsSound, Idle
<1>12. ASSUME NEW r \in Requests, NEW m \in Mails, BeginVerify(r, m)
       PROVE  TypeInv'
  BY <1>12 DEF BeginVerify, TypeOK, TasksSound, LoginsSound, AccountsSound, RequestState, Known
<1>13. ASSUME NEW m \in Mails, Known(mail[m]),
              mail' \in {[mail EXCEPT ![m].consumed = TRUE], [mail EXCEPT ![m].expired = TRUE]}
       PROVE  /\ mail' \in [Mails -> Mail \cup {None}]
              /\ \A n \in Mails : Known(mail'[n]) <=> Known(mail[n])
              /\ \A n \in Mails : Known(mail[n]) => mail'[n].user = mail[n].user
  <2>1. mail[m] \in Mail
    BY <1>13 DEF TypeOK, Known
  <2>2. /\ [mail[m] EXCEPT !.consumed = TRUE] \in Mail
        /\ [mail[m] EXCEPT !.expired = TRUE] \in Mail
    BY <2>1 DEF Mail
  <2>3. mail'[m] \in Mail /\ mail'[m].user = mail[m].user
    BY <1>13, <2>1, <2>2 DEF TypeOK, Mail
  <2> QED
    BY <1>13, <2>1, <2>3, RowsAreKnown DEF TypeOK, Known
<1>14. ASSUME NEW r \in Requests, ConsumeMail(r)
       PROVE  TypeInv'
  <2>1. req[r].mail \in Mails /\ Known(mail[req[r].mail])
    BY <1>14, TaskKind DEF ConsumeMail, TasksSound
  <2>2. /\ mail' \in [Mails -> Mail \cup {None}]
        /\ \A n \in Mails : Known(mail'[n]) <=> Known(mail[n])
        /\ \A n \in Mails : Known(mail[n]) => mail'[n].user = mail[n].user
    BY <1>13, <1>14, <2>1 DEF ConsumeMail
  <2>3. TypeOK'
    BY <1>14, <2>1, <2>2 DEF ConsumeMail, TypeOK, RequestState
  <2>4. TasksSound'
    BY <1>14, <2>1, <2>2, TaskKind DEF ConsumeMail, TypeOK, TasksSound
  <2> QED
    BY <1>14, <2>2, <2>3, <2>4 DEF ConsumeMail, TypeOK, LoginsSound, AccountsSound
<1>15. ASSUME NEW e \in Emails, Known(account[e]), NEW row \in Account,
              account' = [account EXCEPT ![e] = row]
       PROVE  /\ account' \in [Emails -> Account \cup {None}]
              /\ \A f \in Emails : Known(account'[f]) <=> Known(account[f])
  BY <1>15, RowsAreKnown DEF TypeOK
<1>16. ASSUME NEW r \in Requests, MarkVerified(r)
       PROVE  TypeInv'
  <2> DEFINE e == mail[req[r].mail].user
  <2>1. req[r].mail \in Mails /\ Known(mail[req[r].mail])
    BY <1>16, TaskKind DEF MarkVerified, TasksSound
  <2>2. e \in Emails /\ Known(account[e]) /\ account[e] \in Account
    BY <2>1 DEF TypeOK, AccountsSound, Known, Mail
  <2>3. /\ [account[e] EXCEPT !.verified = TRUE] \in Account
        /\ account' = [account EXCEPT ![e] = [account[e] EXCEPT !.verified = TRUE]]
    BY <1>16, <2>2 DEF MarkVerified, Account, TypeOK
  <2>4. /\ account' \in [Emails -> Account \cup {None}]
        /\ \A f \in Emails : Known(account'[f]) <=> Known(account[f])
    BY <1>15, <2>2, <2>3
  <2>5. TypeOK'
    BY <1>16, <2>4 DEF MarkVerified, TypeOK, RequestState
  <2>6. AccountsSound'
    BY <1>16, <2>4, TaskKind DEF MarkVerified, TypeOK, AccountsSound, Idle, Mail, Known
  <2> QED
    BY <1>16, <2>5, <2>6 DEF MarkVerified, TypeOK, TasksSound, LoginsSound, Idle
<1>17. ASSUME NEW m \in Mails, ExpireMail(m)
       PROVE  TypeInv'
  <2>1. /\ mail' \in [Mails -> Mail \cup {None}]
        /\ \A n \in Mails : Known(mail'[n]) <=> Known(mail[n])
        /\ \A n \in Mails : Known(mail[n]) => mail'[n].user = mail[n].user
    BY <1>13, <1>17 DEF ExpireMail
  <2> QED
    BY <1>17, <2>1, TaskKind DEF ExpireMail, TypeOK, TasksSound, LoginsSound, AccountsSound
<1>18. ASSUME NEW e \in Emails, SetStatus(e)
       PROVE  TypeInv'
  <2>1. account[e] \in Account
    BY <1>18 DEF SetStatus, TypeOK, Known
  <2>2. /\ [account[e] EXCEPT !.active = ~@] \in Account
        /\ account' = [account EXCEPT ![e] = [account[e] EXCEPT !.active = ~@]]
    BY <1>18, <2>1 DEF SetStatus, Account, TypeOK
  <2>3. /\ account' \in [Emails -> Account \cup {None}]
        /\ \A f \in Emails : Known(account'[f]) <=> Known(account[f])
    BY <1>15, <1>18, <2>2 DEF SetStatus
  <2> QED
    BY <1>18, <2>3, TaskKind
       DEF SetStatus, TypeOK, TasksSound, LoginsSound, AccountsSound, Mail, Known
<1>19. CASE UNCHANGED vars
  BY <1>19 DEF vars, TypeOK, TasksSound, LoginsSound, AccountsSound
<1> QED
  BY <1>1, <1>2, <1>3, <1>4, <1>5, <1>6, <1>8, <1>9, <1>10, <1>11, <1>12, <1>14, <1>16, <1>17,
     <1>18, <1>19 DEF Next

LEMMA TypeInvariant == Spec => []TypeInv
BY TypeInit, TypeStep, PTL DEF Spec

\* Rows, tasks and history keep their types whatever statements interleave.
THEOREM TypeCorrect == Spec => []TypeOK
BY TypeInvariant, PTL DEF TypeInv

-----------------------------------------------------------------------------
(* A verified account has used up a token: between consume and mark, the   *)
(* token in hand is the witness.                                           *)

MarksConsumed ==
  \A r \in Requests : req[r].op = "mark" => mail[req[r].mail].consumed

MailInv == VerifiedByMail /\ MarksConsumed

\* A stored token keeps its owner and, once consumed, stays consumed.
MailsKept ==
  \A m \in Mails : Known(mail[m]) =>
    /\ Known(mail'[m]) /\ mail'[m].user = mail[m].user
    /\ mail[m].consumed => mail'[m].consumed

LEMMA MailsAreKept == TypeInv /\ [Next]_vars => MailsKept
<1> SUFFICES ASSUME TypeInv, [Next]_vars PROVE MailsKept
  OBVIOUS
<1> USE DEF TypeInv, rows, history
<1>1. ASSUME NEW m \in Mails, Known(mail[m]),
             mail' \in {[mail EXCEPT ![m].consumed = TRUE], [mail EXCEPT ![m].expired = TRUE]}
      PROVE  MailsKept
  <2>1. mail[m] \in Mail
    BY <1>1 DEF TypeOK, Known
  <2>2. /\ [mail[m] EXCEPT !.consumed = TRUE] \in Mail
        /\ [mail[m] EXCEPT !.expired = TRUE] \in Mail
    BY <2>1 DEF Mail
  <2>3. /\ mail'[m] \in Mail /\ mail'[m].user = mail[m].user
        /\ mail[m].consumed => mail'[m].consumed
    BY <1>1, <2>1, <2>2 DEF TypeOK, Mail
  <2> QED
    BY <1>1, <2>3, RowsAreKnown DEF MailsKept, TypeOK
<1>2. ASSUME NEW r \in Requests, ConsumeMail(r)
      PROVE  MailsKept
  <2>1. req[r].mail \in Mails /\ Known(mail[req[r].mail])
    BY <1>2, TaskKind DEF ConsumeMail, TasksSound
  <2> QED
    BY <1>1, <1>2, <2>1 DEF ConsumeMail
<1>3. ASSUME NEW m \in Mails, ExpireMail(m)
      PROVE  MailsKept
  BY <1>1, <1>3 DEF ExpireMail
<1>4. ASSUME NEW r \in Requests, NEW m \in Mails, StoreMail(r, m)
      PROVE  MailsKept
  BY <1>4 DEF StoreMail, MailsKept, TypeOK
<1>5. CASE mail' = mail
  BY <1>5 DEF MailsKept
<1> QED
  BY <1>2, <1>3, <1>4, <1>5
     DEF Next, vars, BeginRegister, Login, BeginMail, CreateUser, EmailTaken, RecordRegistered,
         IssueSession, BeginRefresh, RevokeOld, LoadUser, BeginVerify, MarkVerified, Lost, Logout,
         ExpireSession, SetStatus

LEMMA MailStep == TypeInv /\ MailInv /\ [Next]_vars => MailInv'
<1> SUFFICES ASSUME TypeInv, MailInv, [Next]_vars PROVE MailInv'
  OBVIOUS
<1> USE DEF TypeInv, MailInv, rows, history, Goes
<1>1. MailsKept
  BY MailsAreKept
\* Accounts that are verified after the step were so before it.
<1>2. ASSUME \A e \in Emails : Known(account'[e]) /\ account'[e].verified =>
               Known(account[e]) /\ account[e].verified
      PROVE  VerifiedByMail'
  <2>1. ASSUME NEW e \in Emails, Known(account'[e]), account'[e].verified
        PROVE  \E m \in Mails : Known(mail'[m]) /\ mail'[m].user = e /\ mail'[m].consumed
    <3>1. PICK m \in Mails : Known(mail[m]) /\ mail[m].user = e /\ mail[m].consumed
      BY <1>2, <2>1 DEF VerifiedByMail
    <3> QED
      BY <1>1, <3>1 DEF MailsKept
  <2> QED
    BY <2>1 DEF VerifiedByMail, Known
\* Tasks that are about to mark an account were so before the step.
<1>3. ASSUME \A r \in Requests : req'[r].op = "mark" => req'[r] = req[r]
      PROVE  MarksConsumed'
  <2>1. ASSUME NEW r \in Requests, req'[r].op = "mark"
        PROVE  mail'[req'[r].mail].consumed
    <3>1. req[r].op = "mark" /\ req'[r].mail = req[r].mail
      BY <1>3, <2>1
    <3>2. mail[req[r].mail].consumed /\ Known(mail[req[r].mail]) /\ req[r].mail \in Mails
      BY <3>1, TaskKind DEF MarksConsumed, TasksSound
    <3> QED
      BY <1>1, <3>1, <3>2 DEF MailsKept
  <2> QED
    BY <2>1 DEF MarksConsumed
<1>4. ASSUME NEW r \in Requests, ConsumeMail(r)
      PROVE  MailInv'
  <2>1. req[r].mail \in Mails /\ Known(mail[req[r].mail]) /\ account' = account
    BY <1>4, TaskKind DEF ConsumeMail, TasksSound
  <2>2. mail'[req[r].mail].consumed /\ req'[r] = [op |-> "mark", mail |-> req[r].mail]
    <3>1. mail[req[r].mail] \in Mail
      BY <2>1 DEF TypeOK, Known
    <3> QED
      BY <1>4, <2>1, <3>1 DEF ConsumeMail, TypeOK, Mail
  <2>3. ASSUME NEW q \in Requests, req'[q].op = "mark"
        PROVE  mail'[req'[q].mail].consumed
    <3>1. CASE q = r
      BY <2>2, <3>1
    <3>2. CASE q # r
      <4>1. req'[q] = req[q]
        BY <1>4, <3>2 DEF ConsumeMail, TypeOK
      <4>2. mail[req[q].mail].consumed /\ Known(mail[req[q].mail]) /\ req[q].mail \in Mails
        BY <2>3, <4>1, TaskKind DEF MarksConsumed, TasksSound
      <4> QED
        BY <1>1, <4>1, <4>2 DEF MailsKept
    <3> QED
      BY <3>1, <3>2
  <2> QED
    BY <1>2, <2>1, <2>3 DEF MarksConsumed
<1>5. ASSUME NEW r \in Requests, MarkVerified(r)
      PROVE  MailInv'
  <2> DEFINE m == req[r].mail
  <2>1. m \in Mails /\ Known(mail[m]) /\ mail[m].consumed /\ mail' = mail
    BY <1>5, TaskKind DEF MarkVerified, TasksSound, MarksConsumed
  <2>2. ASSUME NEW e \in Emails, e # mail[m].user
        PROVE  account'[e] = account[e]
    BY <1>5, <2>2 DEF MarkVerified, TypeOK
  <2>3. VerifiedByMail'
    BY <2>1, <2>2 DEF VerifiedByMail, Known
  <2> QED
    BY <1>3, <1>5, <2>3 DEF MarkVerified, TypeOK, Idle
<1>6. ASSUME NEW r \in Requests, CreateUser(r)
      PROVE  MailInv'
  <2>1. req[r].user \in Emails
    BY <1>6, TaskKind DEF CreateUser
  <2> QED
    BY <1>2, <1>3, <1>6, <2>1 DEF CreateUser, TypeOK
<1>7. ASSUME NEW e \in Emails, SetStatus(e)
      PROVE  MailInv'
  <2>1. account[e] \in Account /\ Known(account[e])
    BY <1>7 DEF SetStatus, TypeOK, Known
  <2>2. account'[e].verified = account[e].verified
    BY <1>7, <2>1 DEF SetStatus, TypeOK, Account
  <2>3. ASSUME NEW f \in Emails, f # e
        PROVE  account'[f] = account[f]
    BY <1>7, <2>3 DEF SetStatus, TypeOK
  <2> QED
    BY <1>2, <1>3, <1>7, <2>1, <2>2, <2>3 DEF SetStatus
<1>8. ASSUME NEW r \in Requests, NEW e \in Emails,
             BeginRegister(r, e) \/ Login(r, e) \/ BeginMail(r, e)
      PROVE  MailInv'
  BY <1>2, <1>3, <1>8 DEF BeginRegister, Login, BeginMail, TypeOK
<1>9. ASSUME NEW r \in Requests,
              EmailTaken(r) \/ RecordRegistered(r) \/ RevokeOld(r) \/ LoadUser(r) \/ Lost(r)
       PROVE  MailInv'
  BY <1>2, <1>3, <1>9 DEF EmailTaken, RecordRegistered, RevokeOld, LoadUser, Lost, Idle, TypeOK
<1>10. ASSUME NEW r \in Requests, NEW s \in Sessions, IssueSession(r, s) \/ BeginRefresh(r, s)
       PROVE  MailInv'
  BY <1>2, <1>3, <1>10 DEF IssueSession, BeginRefresh, Idle, TypeOK
<1>11. ASSUME NEW r \in Requests, NEW m \in Mails, StoreMail(r, m) \/ BeginVerify(r, m)
       PROVE  MailInv'
  BY <1>2, <1>3, <1>11 DEF StoreMail, BeginVerify, Idle, TypeOK
<1>12. CASE UNCHANGED <<account, req>>
  BY <1>2, <1>3, <1>12
<1> QED
  BY <1>4, <1>5, <1>6, <1>7, <1>8, <1>9, <1>10, <1>11, <1>12
     DEF Next, vars, Logout, ExpireSession, ExpireMail

\* VerifiedByMail, whatever tasks run and are lost between consuming a token
\* and marking its account: verify_email never marks without a used-up token.
THEOREM VerifiedAlways == Spec => []VerifiedByMail
<1>1. Init => MailInv
  BY DEF Init, MailInv, VerifiedByMail, MarksConsumed, Idle, Known
<1> QED
  BY <1>1, TypeInvariant, MailStep, PTL DEF Spec, MailInv

-----------------------------------------------------------------------------
(* One live session: a login without an overlapped refresh has one thing   *)
(* that keeps it alive, a live session or a task that has ended the last   *)
(* session and still has to store the next one.                            *)

Unforked(l) == \A s \in forked : login[s] # l

Claims(r, l) == OnBehalfOf(r, l) /\ ~(req[r].op = "rotate" /\ Live(req[r].session))

OneClaim ==
  \A l \in Sessions : Unforked(l) =>
    /\ \A s, t \in LiveOf(l) : s = t
    /\ \A r \in Requests : Claims(r, l) => LiveOf(l) = {}
    /\ \A r, q \in Requests : Claims(r, l) /\ Claims(q, l) => r = q

\* Two tasks rotate one session only if it is forked.
OneRefresher ==
  \A r, q \in Requests :
    /\ r # q
    /\ req[r].op = "rotate" /\ req[q].op = "rotate"
    /\ req[r].session = req[q].session
    => req[r].session \in forked

LEMMA OneRefresherStep == TypeInv /\ OneRefresher /\ [Next]_vars => OneRefresher'
<1> SUFFICES ASSUME TypeInv, OneRefresher, [Next]_vars PROVE OneRefresher'
  OBVIOUS
<1> USE DEF TypeInv, rows, history, Goes
\* Tasks that rotate after the step did so before it.
<1>1. ASSUME forked' = forked,
             \A q \in Requests : req'[q].op = "rotate" => req'[q] = req[q]
      PROVE  OneRefresher'
  BY <1>1 DEF OneRefresher
<1>2. ASSUME NEW r \in Requests, NEW s \in Sessions, BeginRefresh(r, s)
      PROVE  OneRefresher'
  <2>1. /\ req' = [req EXCEPT ![r] = [op |-> "rotate", session |-> s]]
        /\ forked' = IF Refreshing(s) = {} THEN forked ELSE forked \cup {s}
    BY <1>2 DEF BeginRefresh
  <2>2. ASSUME NEW q \in Requests, q # r, req[q].op = "rotate", req[q].session = s
        PROVE  s \in forked'
    <3>1. req[q] = [op |-> "rotate", session |-> s]
      <4>1. req[q] \in RequestState
        BY DEF TypeOK
      <4> QED
        BY <2>2, <4>1 DEF RequestState, Idle, Issuing
    <3> QED
      BY <2>1, <3>1 DEF Refreshing
  <2>3. req'[r] = [op |-> "rotate", session |-> s]
    BY <2>1 DEF TypeOK
  <2>4. \A q \in Requests : q # r => req'[q] = req[q]
    BY <2>1 DEF TypeOK
  <2>5. forked \subseteq forked'
    BY <2>1
  <2> QED
    BY <2>2, <2>3, <2>4, <2>5 DEF OneRefresher
<1>3. CASE UNCHANGED <<forked, req>>
  BY <1>1, <1>3
<1>4. ASSUME NEW r \in Requests, NEW e \in Emails,
             BeginRegister(r, e) \/ Login(r, e) \/ BeginMail(r, e)
      PROVE  OneRefresher'
  BY <1>1, <1>4 DEF BeginRegister, Login, BeginMail, TypeOK
<1>5. ASSUME NEW r \in Requests,
             \/ CreateUser(r) \/ EmailTaken(r) \/ RecordRegistered(r) \/ RevokeOld(r)
             \/ LoadUser(r) \/ ConsumeMail(r) \/ MarkVerified(r) \/ Lost(r)
      PROVE  OneRefresher'
  BY <1>1, <1>5
     DEF CreateUser, EmailTaken, RecordRegistered, RevokeOld, LoadUser, ConsumeMail, MarkVerified,
         Lost, Idle, TypeOK
<1>6. ASSUME NEW r \in Requests, NEW s \in Sessions, IssueSession(r, s)
      PROVE  OneRefresher'
  BY <1>1, <1>6 DEF IssueSession, Idle, TypeOK
<1>7. ASSUME NEW r \in Requests, NEW m \in Mails, StoreMail(r, m) \/ BeginVerify(r, m)
      PROVE  OneRefresher'
  BY <1>1, <1>7 DEF StoreMail, BeginVerify, Idle, TypeOK
<1> QED
  BY <1>2, <1>3, <1>4, <1>5, <1>6, <1>7
     DEF Next, vars, Logout, ExpireSession, ExpireMail, SetStatus

\* What a step may do to the sessions that are alive without endangering
\* OneClaim: nothing, while the tasks take on no new claim.
LEMMA NoNewClaim ==
  ASSUME OneClaim, login' = login, forked \subseteq forked',
         \A s \in Sessions : Live(s)' <=> Live(s),
         \A q \in Requests, l \in Sessions : Claims(q, l)' => Claims(q, l)
  PROVE  OneClaim'
<1> SUFFICES ASSUME NEW l \in Sessions, Unforked(l)'
             PROVE  /\ \A s, t \in LiveOf(l)' : s = t
                    /\ \A r \in Requests : Claims(r, l)' => LiveOf(l)' = {}
                    /\ \A r, q \in Requests : Claims(r, l)' /\ Claims(q, l)' => r = q
  BY DEF OneClaim
<1>1. Unforked(l)
  BY DEF Unforked
<1>2. LiveOf(l)' = LiveOf(l)
  BY DEF LiveOf
<1> QED
  BY <1>1, <1>2 DEF OneClaim

\* The claim of a task that does nothing but move on to another state.
LEMMA QuietTask ==
  ASSUME TypeOK, NEW r \in Requests, NEW state,
         UNCHANGED <<session, login>>, req' = [req EXCEPT ![r] = state],
         state.op \notin {"rotate", "load"}, state.op = "issue" => state.from = None
  PROVE  /\ \A s \in Sessions : Live(s)' <=> Live(s)
         /\ \A q \in Requests, l \in Sessions : Claims(q, l)' => Claims(q, l)
<1>1. \A s : Live(s)' <=> Live(s)
  BY DEF Live, Known
<1>2. ASSUME NEW q \in Requests, NEW l \in Sessions, Claims(q, l)'
      PROVE  Claims(q, l)
  <2>1. q # r
    BY <1>2 DEF Claims, OnBehalfOf, TypeOK
  <2>2. req'[q] = req[q]
    BY <2>1 DEF TypeOK
  <2> QED
    BY <1>2, <2>2 DEF Claims, OnBehalfOf, Live, Known
<1> QED
  BY <1>1, <1>2

\* Ending session s may give a claim to the task that rotates s.
LEMMA EndingOne ==
  ASSUME OneClaim, OneRefresher, NEW s \in Sessions,
         UNCHANGED <<login, forked>>, ~Live(s)',
         \A t \in Sessions \ {s} : Live(t)' <=> Live(t),
         \A q \in Requests, l \in Sessions : Claims(q, l)' =>
           \/ Claims(q, l)
           \/ Live(s) /\ login[s] = l /\ req[q].op = "rotate" /\ req[q].session = s
  PROVE  OneClaim'
<1> SUFFICES ASSUME NEW l \in Sessions, Unforked(l)'
             PROVE  /\ \A u, v \in LiveOf(l)' : u = v
                    /\ \A r \in Requests : Claims(r, l)' => LiveOf(l)' = {}
                    /\ \A r, q \in Requests : Claims(r, l)' /\ Claims(q, l)' => r = q
  BY DEF OneClaim
<1> DEFINE Rotates(q) == Live(s) /\ login[s] = l /\ req[q].op = "rotate" /\ req[q].session = s
<1>1. /\ \A u, v \in LiveOf(l) : u = v
      /\ \A r \in Requests : Claims(r, l) => LiveOf(l) = {}
      /\ \A r, q \in Requests : Claims(r, l) /\ Claims(q, l) => r = q
  BY DEF OneClaim, Unforked
<1>2. LiveOf(l)' = LiveOf(l) \ {s}
  BY DEF LiveOf
<1>3. \A q \in Requests : Claims(q, l)' => Claims(q, l) \/ Rotates(q)
  OBVIOUS
<1>4. \A q \in Requests : Rotates(q) => s \in LiveOf(l)
  BY DEF LiveOf
<1>5. \A q, r \in Requests : Rotates(q) /\ Rotates(r) => q = r
  BY DEF OneRefresher, Unforked
<1>6. ASSUME NEW r \in Requests, Claims(r, l)'
      PROVE  LiveOf(l)' = {}
  BY <1>1, <1>2, <1>3, <1>4, <1>6
<1>7. ASSUME NEW r \in Requests, NEW q \in Requests, Claims(r, l)', Claims(q, l)'
      PROVE  r = q
  <2> HIDE DEF Rotates
  <2> QED
    BY <1>1, <1>3, <1>4, <1>5, <1>7
<1> QED
  BY <1>1, <1>2, <1>6, <1>7

LEMMA OneClaimStep == TypeInv /\ OneClaim /\ OneRefresher /\ [Next]_vars => OneClaim'
<1> SUFFICES ASSUME TypeInv, OneClaim, OneRefresher, [Next]_vars PROVE OneClaim'
  OBVIOUS
<1> USE DEF TypeInv, rows, history, Goes
<1>1. ASSUME NEW r \in Requests, NEW state,
             UNCHANGED <<session, login, forked>>, req' = [req EXCEPT ![r] = state],
             state.op \notin {"rotate", "load"}, state.op = "issue" => state.from = None
      PROVE  OneClaim'
  <2>1. /\ \A s \in Sessions : Live(s)' <=> Live(s)
        /\ \A q \in Requests, l \in Sessions : Claims(q, l)' => Claims(q, l)
    BY <1>1, QuietTask
  <2> QED
    BY <1>1, <2>1, NoNewClaim
<1>2. ASSUME NEW r \in Requests, NEW e \in Emails,
             BeginRegister(r, e) \/ Login(r, e) \/ BeginMail(r, e)
      PROVE  OneClaim'
  BY <1>1, <1>2 DEF BeginRegister, Login, BeginMail
<1>3. ASSUME NEW r \in Requests,
             \/ CreateUser(r) \/ EmailTaken(r) \/ RecordRegistered(r)
             \/ ConsumeMail(r) \/ MarkVerified(r) \/ Lost(r)
      PROVE  OneClaim'
  BY <1>1, <1>3
     DEF CreateUser, EmailTaken, RecordRegistered, ConsumeMail, MarkVerified, Lost, Idle
<1>4. ASSUME NEW r \in Requests, NEW m \in Mails, StoreMail(r, m) \/ BeginVerify(r, m)
      PROVE  OneClaim'
  BY <1>1, <1>4 DEF StoreMail, BeginVerify, Idle
<1>5. ASSUME NEW r \in Requests, NEW s \in Sessions, BeginRefresh(r, s)
      PROVE  OneClaim'
  <2>1. /\ req' = [req EXCEPT ![r] = [op |-> "rotate", session |-> s]]
        /\ UNCHANGED <<session, login>>
        /\ forked \subseteq forked'
        /\ Live(s)
    BY <1>5 DEF BeginRefresh, Refreshable, Live
  <2>2. \A t : Live(t)' <=> Live(t)
    BY <2>1 DEF Live, Known
  <2>3. ASSUME NEW q \in Requests, NEW l \in Sessions, Claims(q, l)'
        PROVE  Claims(q, l)
    <3>1. CASE q = r
      <4>1. req'[q] = [op |-> "rotate", session |-> s]
        BY <2>1, <3>1 DEF TypeOK
      <4> QED
        BY <2>1, <2>2, <2>3, <4>1 DEF Claims, Live, Known
    <3>2. CASE q # r
      <4>1. req'[q] = req[q]
        BY <2>1, <3>2 DEF TypeOK
      <4> QED
        BY <2>1, <2>3, <4>1 DEF Claims, OnBehalfOf, Live, Known
    <3> QED
      BY <3>1, <3>2
  <2> QED
    BY <2>1, <2>2, <2>3, NoNewClaim
<1>6. ASSUME NEW r \in Requests, LoadUser(r)
      PROVE  OneClaim'
  <2> DEFINE s == req[r].session
             next == [op |-> "issue", user |-> session[s].user, from |-> s]
  <2>1. CASE req' = [req EXCEPT ![r] = Idle]
    BY <1>1, <1>6, <2>1 DEF LoadUser, Idle
  <2>2. CASE req' = [req EXCEPT ![r] = next]
    <3>1. UNCHANGED <<session, login, forked>> /\ req[r].op = "load"
      BY <1>6 DEF LoadUser
    <3>2. \A t : Live(t)' <=> Live(t)
      BY <3>1 DEF Live, Known
    <3>3. ASSUME NEW q \in Requests, NEW l \in Sessions, Claims(q, l)'
          PROVE  Claims(q, l)
      <4>1. CASE q = r
        <5>1. req'[q] = next
          BY <2>2, <4>1 DEF TypeOK
        <5>2. login[s] = l
          BY <3>1, <3>3, <5>1 DEF Claims, OnBehalfOf
        <5> QED
          BY <3>1, <4>1, <5>2 DEF Claims, OnBehalfOf
      <4>2. CASE q # r
        <5>1. req'[q] = req[q]
          BY <2>2, <4>2 DEF TypeOK
        <5> QED
          BY <3>1, <3>3, <5>1 DEF Claims, OnBehalfOf, Live, Known
      <4> QED
        BY <4>1, <4>2
    <3> QED
      BY <3>1, <3>2, <3>3, NoNewClaim
  <2> QED
    BY <1>6, <2>1, <2>2 DEF LoadUser
<1>7. ASSUME NEW s \in Sessions, Known(session[s]),
             session' = [session EXCEPT ![s].revoked = TRUE]
      PROVE  /\ ~Live(s)'
             /\ \A t \in Sessions \ {s} : Live(t)' <=> Live(t)
  <2>1. session[s] \in Session
    BY <1>7 DEF TypeOK, Known
  <2>2. session'[s].revoked
    BY <1>7, <2>1 DEF TypeOK, Session
  <2>3. \A t \in Sessions \ {s} : session'[t] = session[t]
    BY <1>7 DEF TypeOK
  <2> QED
    BY <2>2, <2>3 DEF Live, Known
<1>8. ASSUME NEW r \in Requests, RevokeOld(r)
      PROVE  OneClaim'
  <2>1. PICK s \in Sessions :
          s = req[r].session /\ Known(session[s]) /\ req[r].op = "rotate"
    BY <1>8, TaskKind DEF RevokeOld, TasksSound
  <2> DEFINE next == [op |-> "load", session |-> s]
  <2>2. /\ session' = [session EXCEPT ![s].revoked = TRUE]
        /\ req' = [req EXCEPT ![r] = next]
        /\ UNCHANGED <<login, forked>>
    BY <1>8, <2>1 DEF RevokeOld
  <2>3. ~Live(s)' /\ \A t \in Sessions \ {s} : Live(t)' <=> Live(t)
    BY <1>7, <2>1, <2>2
  <2>4. ASSUME NEW q \in Requests, NEW l \in Sessions, Claims(q, l)'
        PROVE  \/ Claims(q, l)
               \/ Live(s) /\ login[s] = l /\ req[q].op = "rotate" /\ req[q].session = s
    <3>1. CASE q = r
      <4>1. req'[q] = next
        BY <2>2, <3>1 DEF TypeOK
      <4>2. login[s] = l
        BY <2>2, <2>4, <4>1 DEF Claims, OnBehalfOf
      <4> QED
        BY <2>1, <3>1, <4>2 DEF Claims, OnBehalfOf
    <3>2. CASE q # r
      <4>1. req'[q] = req[q]
        BY <2>2, <3>2 DEF TypeOK
      <4>2. OnBehalfOf(q, l)
        BY <2>2, <2>4, <4>1 DEF Claims, OnBehalfOf
      <4>3. CASE req[q].op = "rotate" /\ Live(req[q].session)
        <5>1. PICK u \in Sessions : u = req[q].session /\ login[u] = l
          BY <4>2, <4>3, TaskKind DEF OnBehalfOf
        <5>2. ~Live(u)'
          BY <2>4, <4>1, <4>3, <5>1 DEF Claims, Live, Known
        <5> QED
          BY <2>3, <4>3, <5>1, <5>2
      <4> QED
        BY <4>2, <4>3 DEF Claims
    <3> QED
      BY <3>1, <3>2
  <2> QED
    BY <2>1, <2>2, <2>3, <2>4, EndingOne
<1>9. ASSUME NEW s \in Sessions, Logout(s)
      PROVE  OneClaim'
  <2>1. /\ session' = [session EXCEPT ![s].revoked = TRUE] /\ Known(session[s])
        /\ UNCHANGED <<req, login, forked>>
    BY <1>9 DEF Logout
  <2>2. ~Live(s)' /\ \A t \in Sessions \ {s} : Live(t)' <=> Live(t)
    BY <1>7, <2>1
  <2>3. ASSUME NEW q \in Requests, NEW l \in Sessions, Claims(q, l)'
        PROVE  \/ Claims(q, l)
               \/ Live(s) /\ login[s] = l /\ req[q].op = "rotate" /\ req[q].session = s
    <3>1. OnBehalfOf(q, l)
      BY <2>1, <2>3 DEF Claims, OnBehalfOf
    <3>2. CASE req[q].op = "rotate" /\ Live(req[q].session)
      <4>1. PICK u \in Sessions : u = req[q].session /\ login[u] = l
        BY <3>1, <3>2, TaskKind DEF OnBehalfOf
      <4>2. ~Live(u)'
        BY <2>1, <2>3, <3>2, <4>1 DEF Claims, Live, Known
      <4> QED
        BY <2>2, <3>2, <4>1, <4>2
    <3> QED
      BY <3>1, <3>2 DEF Claims
  <2> QED
    BY <2>1, <2>2, <2>3, EndingOne
<1>10. ASSUME NEW s \in Sessions, ExpireSession(s)
       PROVE  OneClaim'
  <2>1. session[s] \in Session /\ UNCHANGED <<req, login, forked>>
    BY <1>10 DEF ExpireSession, TypeOK, Known
  <2>2. session'[s] \in Session /\ session'[s].revoked = session[s].revoked
    BY <1>10, <2>1 DEF ExpireSession, TypeOK, Session
  <2>3. \A t \in Sessions \ {s} : session'[t] = session[t]
    BY <1>10 DEF ExpireSession, TypeOK
  <2>4. \A t \in Sessions : Live(t)' <=> Live(t)
    BY <2>1, <2>2, <2>3, RowsAreKnown DEF Live, Known
  <2>5. ASSUME NEW q \in Requests, NEW l \in Sessions, Claims(q, l)'
        PROVE  Claims(q, l)
    <3>1. OnBehalfOf(q, l)
      BY <2>1, <2>5 DEF Claims, OnBehalfOf
    <3>2. req[q].op = "rotate" => req[q].session \in Sessions
      BY TaskKind
    <3> QED
      BY <2>1, <2>4, <2>5, <3>1, <3>2 DEF Claims, Live, Known
  <2> QED
    BY <2>1, <2>4, <2>5, NoNewClaim
<1>11. CASE UNCHANGED <<session, req, login, forked>>
  BY <1>11, NoNewClaim DEF Live, Known, Claims, OnBehalfOf
<1>12. ASSUME NEW r \in Requests, NEW s \in Sessions, IssueSession(r, s)
       PROVE  OneClaim'
  <2> DEFINE from == req[r].from
             row == [user |-> req[r].user, revoked |-> FALSE, expired |-> FALSE]
             root == IF from = None THEN s ELSE login[from]
  <2>1. /\ req[r].op = "issue" /\ ~Known(session[s])
        /\ session' = [session EXCEPT ![s] = row]
        /\ login' = [login EXCEPT ![s] = root]
        /\ req' = [req EXCEPT ![r] = Idle]
        /\ forked' = forked
    BY <1>12 DEF IssueSession
  <2>2. from # None => from \in Sessions /\ Known(session[from])
    BY <2>1, TaskKind DEF TasksSound
  <2>3. /\ \A t \in Sessions \ {s} : session'[t] = session[t] /\ login'[t] = login[t]
        /\ login'[s] = root
        /\ \A q \in Requests \ {r} : req'[q] = req[q]
        /\ req'[r].op = "idle"
    BY <2>1 DEF TypeOK, Idle
  <2>4. s \notin forked /\ login[s] = None
    BY <2>1 DEF LoginsSound
  <2>5. \A l \in Sessions : Unforked(l)' => Unforked(l)
    BY <2>1, <2>3, <2>4 DEF Unforked, TypeOK
  \* Other tasks keep their claims: their sessions are stored, s is not.
  <2>6. ASSUME NEW q \in Requests, NEW l \in Sessions, Claims(q, l)'
        PROVE  q # r /\ Claims(q, l)
    <3>1. q # r /\ req'[q] = req[q]
      BY <2>3, <2>6 DEF Claims, OnBehalfOf
    <3>2. CASE req[q].op \in {"rotate", "load"}
      <4>1. PICK u \in Sessions : u = req[q].session /\ Known(session[u])
        BY <3>2, TaskKind DEF TasksSound
      <4>2. session'[u] = session[u] /\ login'[u] = login[u]
        BY <2>1, <2>3, <4>1
      <4> QED
        BY <2>6, <3>1, <3>2, <4>1, <4>2 DEF Claims, OnBehalfOf, Live, Known
    <3>3. CASE req[q].op = "issue" /\ req[q].from # None
      <4>1. PICK u \in Sessions : u = req[q].from /\ Known(session[u])
        BY <3>3, TaskKind DEF TasksSound
      <4>2. login'[u] = login[u]
        BY <2>1, <2>3, <4>1
      <4> QED
        BY <2>6, <3>1, <3>3, <4>1, <4>2 DEF Claims, OnBehalfOf
    <3> QED
      BY <2>6, <3>1, <3>2, <3>3 DEF Claims, OnBehalfOf
  <2>7. \A l \in Sessions : LiveOf(l)' \subseteq LiveOf(l) \cup {s}
    BY <2>3 DEF LiveOf, Live, Known
  <2>8. \A l \in Sessions : l # root => LiveOf(l)' \subseteq LiveOf(l)
    BY <2>3 DEF LiveOf, Live, Known
  \* The login that s continues had nothing else that keeps it alive.
  <2>9. ASSUME NEW l \in Sessions, l = root, Unforked(l)
        PROVE  LiveOf(l) = {} /\ \A q \in Requests : q # r => ~Claims(q, l)
    <3>1. CASE from = None
      <4>1. \A t \in Sessions : login[t] # s \/ ~Known(session[t])
        BY <2>1 DEF LoginsSound
      <4>2. LiveOf(l) = {}
        BY <2>9, <3>1, <4>1 DEF LiveOf, Live
      <4>3. ASSUME NEW q \in Requests
            PROVE  ~OnBehalfOf(q, l)
        BY <2>9, <3>1, <4>1, TaskKind DEF OnBehalfOf, TasksSound
      <4> QED
        BY <4>2, <4>3 DEF Claims
    <3>2. CASE from # None
      <4>1. Claims(r, l)
        BY <2>1, <2>9, <3>2 DEF Claims, OnBehalfOf
      <4> QED
        BY <2>9, <4>1 DEF OneClaim
    <3> QED
      BY <3>1, <3>2
  <2>10. ASSUME NEW l \in Sessions, Unforked(l)'
         PROVE  /\ \A u, v \in LiveOf(l)' : u = v
                /\ \A q \in Requests : Claims(q, l)' => LiveOf(l)' = {}
                /\ \A p, q \in Requests : Claims(p, l)' /\ Claims(q, l)' => p = q
    <3> HIDE DEF from, root, row
    <3>1. Unforked(l)
      BY <2>5, <2>10
    <3>2. /\ \A u, v \in LiveOf(l) : u = v
          /\ \A q \in Requests : Claims(q, l) => LiveOf(l) = {}
          /\ \A p, q \in Requests : Claims(p, l) /\ Claims(q, l) => p = q
      BY <3>1 DEF OneClaim
    <3>3. \A p, q \in Requests : Claims(p, l)' /\ Claims(q, l)' => p = q
      BY <2>6, <3>2
    <3>4. CASE l = root
      BY <2>6, <2>7, <2>9, <3>1, <3>3, <3>4
    <3>5. CASE l # root
      BY <2>6, <2>8, <3>2, <3>3, <3>5
    <3> QED
      BY <3>4, <3>5
  <2> QED
    BY <2>10 DEF OneClaim
<1> QED
  BY <1>2, <1>3, <1>4, <1>5, <1>6, <1>8, <1>9, <1>10, <1>11, <1>12
     DEF Next, vars, ExpireMail, SetStatus

LEMMA OneClaimInvariant == Spec => [](OneClaim /\ OneRefresher)
<1>1. Init => OneClaim /\ OneRefresher
  BY DEF Init, OneClaim, OneRefresher, LiveOf, Live, Known, Claims, OnBehalfOf, Idle
<1> QED
  BY <1>1, TypeInvariant, OneClaimStep, OneRefresherStep, PTL DEF Spec

\* OneLiveSessionUnlessForked, for every number of overlapping logins,
\* refreshes, logouts and lost tasks: refresh revokes before it issues.
THEOREM OneLiveAlways == Spec => []OneLiveSessionUnlessForked
<1>1. OneClaim => OneLiveSessionUnlessForked
  <2> SUFFICES ASSUME OneClaim, NEW l \in Sessions, ~(\E s \in forked : login[s] = l)
               PROVE  ~(Cardinality(LiveOf(l)) > 1)
    BY DEF OneLiveSessionUnlessForked
  <2>1. \A s, t \in LiveOf(l) : s = t
    BY DEF OneClaim, Unforked
  <2>2. CASE LiveOf(l) = {}
    BY <2>2, FS_EmptySet
  <2>3. CASE LiveOf(l) # {}
    <3>1. PICK s \in LiveOf(l) : LiveOf(l) = {s}
      BY <2>1, <2>3
    <3> QED
      BY <3>1, FS_Singleton
  <2> QED
    BY <2>2, <2>3
<1> QED
  BY <1>1, OneClaimInvariant, PTL

\* Only issue_session makes a session live.
LEMMA OnlyIssueMakesLive ==
  ASSUME TypeInv, [Next]_vars, NEW s \in Sessions, Live(s)'
  PROVE  \/ Live(s) /\ login'[s] = login[s]
         \/ \E r \in Requests : IssueSession(r, s)
<1> USE DEF TypeInv, rows, history
<1>1. ASSUME NEW t \in Sessions, Known(session[t]), login' = login,
             session' \in {[session EXCEPT ![t].revoked = TRUE],
                          [session EXCEPT ![t].expired = TRUE]}
      PROVE  Live(s)
  <2>1. CASE s # t
    <3>1. session'[s] = session[s]
      BY <1>1, <2>1 DEF TypeOK
    <3> QED
      BY <3>1 DEF Live, Known
  <2>2. CASE s = t
    <3>1. session[s] \in Session
      BY <1>1, <2>2 DEF TypeOK, Known
    <3>2. session[s].revoked => session'[s].revoked
      BY <1>1, <2>2, <3>1 DEF TypeOK, Session
    <3> QED
      BY <1>1, <2>2, <3>2 DEF Live, Known
  <2> QED
    BY <2>1, <2>2
<1>2. CASE UNCHANGED <<session, login>>
  BY <1>2 DEF Live, Known
<1>3. ASSUME NEW r \in Requests, RevokeOld(r)
      PROVE  Live(s) /\ login' = login
  <2>1. req[r].session \in Sessions /\ Known(session[req[r].session])
    BY <1>3, TaskKind DEF RevokeOld, TasksSound
  <2> QED
    BY <1>1, <1>3, <2>1 DEF RevokeOld
<1>4. ASSUME NEW t \in Sessions, Logout(t) \/ ExpireSession(t)
      PROVE  Live(s) /\ login' = login
  BY <1>1, <1>4 DEF Logout, ExpireSession
<1>5. ASSUME NEW r \in Requests, NEW t \in Sessions, t # s, IssueSession(r, t)
      PROVE  Live(s) /\ login'[s] = login[s]
  BY <1>5 DEF IssueSession, TypeOK, Live, Known
<1> QED
  BY <1>2, <1>3, <1>4, <1>5
     DEF Next, vars, BeginRegister, Login, BeginMail, CreateUser, EmailTaken, RecordRegistered,
         BeginRefresh, LoadUser, StoreMail, BeginVerify, ConsumeMail, MarkVerified, Lost,
         ExpireMail, SetStatus

\* Only a refresh of a live session sets a task to work for a login.
LEMMA OnlyRefreshActs ==
  ASSUME TypeInv, [Next]_vars, NEW r \in Requests, NEW l \in Sessions, OnBehalfOf(r, l)'
  PROVE  OnBehalfOf(r, l) \/ LiveOf(l) # {}
<1> USE DEF TypeInv, rows, history, Goes
\* The step of another task, or of no task, may store a session, but not the
\* one that r carries.
<1>1. ASSUME req'[r] = req[r],
             \A s \in Sessions : Known(session[s]) => login'[s] = login[s]
      PROVE  OnBehalfOf(r, l)
  <2>1. CASE req[r].op \in {"rotate", "load"}
    <3>1. req[r].session \in Sessions /\ Known(session[req[r].session])
      BY <2>1, TaskKind DEF TasksSound
    <3> QED
      BY <1>1, <2>1, <3>1 DEF OnBehalfOf
  <2>2. CASE req[r].op = "issue" /\ req[r].from # None
    <3>1. req[r].from \in Sessions /\ Known(session[req[r].from])
      BY <2>2, TaskKind DEF TasksSound
    <3> QED
      BY <1>1, <2>2, <3>1 DEF OnBehalfOf
  <2> QED
    BY <1>1, <2>1, <2>2 DEF OnBehalfOf
<1>2. ASSUME NEW q \in Requests, NEW s \in Sessions, BeginRefresh(q, s)
      PROVE  OnBehalfOf(r, l) \/ LiveOf(l) # {}
  <2>1. CASE q = r
    <3>1. req'[r] = [op |-> "rotate", session |-> s] /\ login' = login /\ Live(s)
      BY <1>2, <2>1 DEF BeginRefresh, Refreshable, Live, TypeOK
    <3>2. login[s] = l
      BY <3>1 DEF OnBehalfOf
    <3> QED
      BY <3>1, <3>2 DEF LiveOf
  <2>2. CASE q # r
    BY <1>1, <1>2, <2>2 DEF BeginRefresh, TypeOK
  <2> QED
    BY <2>1, <2>2
<1>3. ASSUME NEW q \in Requests, RevokeOld(q)
      PROVE  OnBehalfOf(r, l)
  <2>1. CASE q = r
    <3>1. /\ req'[r] = [op |-> "load", session |-> req[r].session]
          /\ req[r].op = "rotate" /\ login' = login
      BY <1>3, <2>1 DEF RevokeOld, TypeOK
    <3> QED
      BY <3>1 DEF OnBehalfOf
  <2>2. CASE q # r
    BY <1>1, <1>3, <2>2 DEF RevokeOld, TypeOK
  <2> QED
    BY <2>1, <2>2
<1>4. ASSUME NEW q \in Requests, LoadUser(q)
      PROVE  OnBehalfOf(r, l)
  <2> DEFINE s == req[r].session
             next == [op |-> "issue", user |-> session[s].user, from |-> s]
  <2>1. CASE q = r
    <3>1. req'[r] \in {next, Idle} /\ req[r].op = "load" /\ login' = login
      BY <1>4, <2>1 DEF LoadUser, TypeOK
    <3>2. req'[r] # Idle
      BY DEF OnBehalfOf, Idle
    <3>3. login'[req'[r].from] = l
      BY <3>1, <3>2 DEF OnBehalfOf
    <3> QED
      BY <3>1, <3>2, <3>3 DEF OnBehalfOf
  <2>2. CASE q # r
    BY <1>1, <1>4, <2>2 DEF LoadUser, TypeOK
  <2> QED
    BY <2>1, <2>2
<1>5. ASSUME NEW q \in Requests, NEW s \in Sessions, IssueSession(q, s)
      PROVE  OnBehalfOf(r, l)
  <2>1. q # r
    BY <1>5 DEF IssueSession, Idle, OnBehalfOf, TypeOK
  <2> QED
    BY <1>1, <1>5, <2>1 DEF IssueSession, TypeOK
\* The other steps leave no task behind that acts for a login.
<1>6. ASSUME login' = login, NEW q \in Requests, NEW state, req' = [req EXCEPT ![q] = state],
             state.op \notin {"rotate", "load"}, state.op = "issue" => state.from = None
      PROVE  OnBehalfOf(r, l)
  <2>1. q # r
    BY <1>6 DEF OnBehalfOf, TypeOK
  <2> QED
    BY <1>1, <1>6, <2>1 DEF TypeOK
<1>7. ASSUME NEW q \in Requests, NEW e \in Emails,
             BeginRegister(q, e) \/ Login(q, e) \/ BeginMail(q, e)
      PROVE  OnBehalfOf(r, l)
  BY <1>6, <1>7 DEF BeginRegister, Login, BeginMail
<1>8. ASSUME NEW q \in Requests,
             \/ CreateUser(q) \/ EmailTaken(q) \/ RecordRegistered(q)
             \/ ConsumeMail(q) \/ MarkVerified(q) \/ Lost(q)
      PROVE  OnBehalfOf(r, l)
  BY <1>6, <1>8
     DEF CreateUser, EmailTaken, RecordRegistered, ConsumeMail, MarkVerified, Lost, Idle
<1>9. ASSUME NEW q \in Requests, NEW m \in Mails, StoreMail(q, m) \/ BeginVerify(q, m)
      PROVE  OnBehalfOf(r, l)
  BY <1>6, <1>9 DEF StoreMail, BeginVerify, Idle
<1>10. CASE UNCHANGED <<req, login>>
  BY <1>1, <1>10
<1> QED
  BY <1>2, <1>3, <1>4, <1>5, <1>7, <1>8, <1>9, <1>10
     DEF Next, vars, Logout, ExpireSession, ExpireMail, SetStatus

\* EndedStaysEnded: without a live session and without a task that acts for
\* it, a login is over for good.
THEOREM EndedAlways == Spec => EndedStaysEnded
<1>1. ASSUME TypeInv, [Next]_vars, NEW l \in Sessions, Ended(l)
      PROVE  Ended(l)'
  <2>1. \A r \in Requests : ~OnBehalfOf(r, l)'
    BY <1>1, OnlyRefreshActs DEF Ended
  <2>2. ASSUME NEW s \in Sessions, Live(s)', login'[s] = l
        PROVE  FALSE
    <3>1. CASE Live(s) /\ login'[s] = login[s]
      BY <1>1, <2>2, <3>1 DEF Ended, LiveOf
    <3>2. ASSUME NEW r \in Requests, IssueSession(r, s)
          PROVE  FALSE
      <4>1. /\ login'[s] = IF req[r].from = None THEN s ELSE login[req[r].from]
            /\ req[r].op = "issue" /\ ~Known(session[s])
        BY <1>1, <3>2 DEF IssueSession, TypeInv, TypeOK
      <4>2. CASE req[r].from = None
        BY <1>1, <2>2, <4>1, <4>2 DEF TypeInv, LoginsSound, Ended
      <4>3. CASE req[r].from # None
        BY <1>1, <2>2, <4>1, <4>3 DEF OnBehalfOf, Ended
      <4> QED
        BY <4>2, <4>3
    <3> QED
      BY <1>1, <2>2, <3>1, <3>2, OnlyIssueMakesLive
  <2>3. login'[l] # None
    <3>1. CASE login' = login
      BY <1>1, <3>1 DEF Ended
    <3>2. ASSUME NEW r \in Requests, NEW s \in Sessions, IssueSession(r, s)
          PROVE  login'[l] # None
      <4>1. l # s
        BY <1>1, <3>2 DEF IssueSession, TypeInv, LoginsSound, Ended
      <4> QED
        BY <1>1, <3>2, <4>1 DEF IssueSession, TypeInv, TypeOK, Ended
    <3> QED
      BY <1>1, <3>1, <3>2
         DEF Next, vars, rows, history, BeginRegister, Login, BeginMail, CreateUser, EmailTaken,
             RecordRegistered, BeginRefresh, RevokeOld, LoadUser, StoreMail, BeginVerify,
             ConsumeMail, MarkVerified, Lost, Logout, ExpireSession, ExpireMail, SetStatus
  <2> QED
    BY <2>1, <2>2, <2>3 DEF Ended, LiveOf
<1>2. TypeInv /\ [Next]_vars => [\A l \in Sessions : Ended(l) => Ended(l)']_vars
  BY <1>1
<1> QED
  BY <1>2, TypeInvariant, PTL DEF Spec, EndedStaysEnded

-----------------------------------------------------------------------------
(* Notifications.                                                          *)

Statuses == {Start(x) : x \in Subjects} \cup Announced \cup {"Reversed", "Processing"}

Types ==
  {"contribution_received", "payout_approved", "payout_completed", "scholarship_awarded"}

Channels == {"inApp", "email"}

Notice ==
  {NoWork}
    \cup [op : {"commit", "prefer", "send"}, subject : Subjects, to : Announced]
    \cup [op : {"store"}, subject : Subjects, to : Announced, email : BOOLEAN]
    \cup [op : {"upsert"}, user : Users, type : Chosen, id : PrefIds]

PreferenceRow ==
  [id : PrefIds, user : Users, type : Chosen, inApp : BOOLEAN, email : BOOLEAN]

NotificationRow ==
  [user : {Recipient[x] : x \in Subjects}, type : Types, subject : Subjects, to : Announced,
   read : BOOLEAN]

NoticeTypes ==
  /\ preference \subseteq PreferenceRow
  /\ notification \in [Rows -> NotificationRow \cup {NoRow}]
  /\ doing \in [Tasks -> Notice]
  /\ was \in [Subjects -> SUBSET Statuses]
  /\ status \in [Subjects -> Statuses]
  /\ off \in [Tasks -> SUBSET Channels]

\* The task dispatches an event.
Dispatching(r) == doing[r].op \in {"prefer", "store", "send"}

\* An event under way and a stored row speak of something in the subject's past; the past
\* contains the present, so an event taken from the present (Repeat) is covered too.
AnnouncedInv ==
  /\ \A x \in Subjects : status[x] \in was[x]
  /\ \A r \in Tasks : Dispatching(r) => doing[r].to \in was[doing[r].subject]
  /\ \A n \in Rows : notification[n] # NoRow =>
       /\ notification[n].to \in was[notification[n].subject]
       /\ notification[n].user = Recipient[notification[n].subject]

RowsFor(r) == RowsOf(Recipient[doing[r].subject], Type(doing[r].to))

\* What has been off since the decision is off in the preference the task will read, and
\* not what the task has set out to use.
Respects(r) ==
  /\ doing[r].op = "prefer" => off[r] \subseteq OffFor(InForce(RowsFor(r)))
  /\ doing[r].op = "store" => "inApp" \notin off[r] /\ (doing[r].email => "email" \notin off[r])
  /\ doing[r].op = "send" => "email" \notin off[r]

ChannelsInv == \A r \in Tasks : Respects(r)

\* Two rows of one user and one type are the same row.
PreferencesInv == \A p, q \in preference : p.user = q.user /\ p.type = q.type => p = q

-----------------------------------------------------------------------------
(* Types.                                                                  *)

\* The fields of a task's state follow from its op.
LEMMA NoticeKind ==
  ASSUME NoticeTypes, NEW r \in Tasks
  PROVE  /\ doing[r].op \in {"commit", "prefer", "send"} =>
              doing[r] \in [op : {"commit", "prefer", "send"}, subject : Subjects, to : Announced]
         /\ doing[r].op = "store" =>
              doing[r] \in [op : {"store"}, subject : Subjects, to : Announced, email : BOOLEAN]
         /\ doing[r].op = "upsert" =>
              doing[r] \in [op : {"upsert"}, user : Users, type : Chosen, id : PrefIds]
         /\ doing[r].op = "idle" => doing[r] = NoWork
<1>1. doing[r] \in Notice
  BY DEF NoticeTypes
<1> QED
  BY <1>1 DEF Notice, NoWork

LEMMA TypeOf == \A to \in Announced : Type(to) \in Types
BY DEF Announced, Type, Types

LEMMA CarriesOn ==
  ASSUME NoticeTypes, NEW r \in Tasks, NEW state, Carries(r, state)
  PROVE  /\ doing'[r] = state
         /\ \A s \in Tasks \ {r} : doing'[s] = doing[s]
         /\ state \in Notice => doing' \in [Tasks -> Notice]
BY DEF NoticeTypes, Carries

\* A subject's past only grows, and holds its present.
LEMMA EntersKeeps ==
  ASSUME NoticeTypes, NEW x \in Subjects, NEW to \in Statuses, Enters(x, to)
  PROVE  /\ status' \in [Subjects -> Statuses] /\ was' \in [Subjects -> SUBSET Statuses]
         /\ to \in was'[x]
         /\ \A y \in Subjects : was[y] \subseteq was'[y]
         /\ \A y \in Subjects : status[y] \in was[y] => status'[y] \in was'[y]
BY DEF NoticeTypes, Enters

\* An event put under way is of the right type, and so is what it starts with switched off.
LEMMA DispatchTypes ==
  ASSUME NoticeTypes, NEW r \in Tasks, NEW x \in Subjects, NEW to \in Announced,
         Dispatches(r, x, to)
  PROVE  doing' \in [Tasks -> Notice] /\ off' \in [Tasks -> SUBSET Channels]
<1>1. [op |-> "prefer", subject |-> x, to |-> to] \in Notice
  BY DEF Notice
<1>2. OffFor(InForce(RowsOf(Recipient[x], Type(to)))) \subseteq Channels
  BY DEF OffFor, Channels
<1> QED
  BY <1>1, <1>2, CarriesOn DEF Dispatches, NoticeTypes

\* An upsert stores one row, for the user and the type of the request, and ends the task.
LEMMA SavedRow ==
  ASSUME NoticeTypes, NEW r \in Tasks, NEW inApp \in BOOLEAN, NEW email \in BOOLEAN,
         Upsert(r, inApp, email)
  PROVE  \E row \in PreferenceRow :
           /\ row.user = doing[r].user /\ row.type = doing[r].type
           /\ Saves(row.user, row.type, {row})
           /\ Carries(r, NoWork)
           /\ UNCHANGED <<status, notification, was>>
<1> DEFINE there == RowsOf(doing[r].user, doing[r].type)
           id == IF there = {} THEN doing[r].id ELSE (CHOOSE p \in there : TRUE).id
           row == [id |-> id, user |-> doing[r].user, type |-> doing[r].type,
                   inApp |-> inApp, email |-> email]
<1>1. doing[r].op = "upsert" /\ Saves(doing[r].user, doing[r].type, {row}) /\ Carries(r, NoWork)
      /\ UNCHANGED <<status, notification, was>>
  BY DEF Upsert
<1>2. doing[r].user \in Users /\ doing[r].type \in Chosen /\ doing[r].id \in PrefIds
  BY <1>1, NoticeKind
<1>3. id \in PrefIds
  <2>1. \A p \in there : p.id \in PrefIds
    BY DEF NoticeTypes, RowsOf, PreferenceRow
  <2>2. there # {} => (CHOOSE p \in there : TRUE) \in there
    OBVIOUS
  <2> HIDE DEF there
  <2> QED
    BY <1>2, <2>1, <2>2
<1> HIDE DEF id
<1>4. row \in PreferenceRow
  BY <1>2, <1>3 DEF PreferenceRow
<1>5. row.user = doing[r].user /\ row.type = doing[r].type
  OBVIOUS
<1> HIDE DEF row
<1> QED
  BY <1>1, <1>4, <1>5

LEMMA SavesTypes ==
  ASSUME NoticeTypes, NEW u, NEW type, NEW row \in PreferenceRow, Saves(u, type, {row})
  PROVE  preference' \subseteq PreferenceRow /\ off' \in [Tasks -> SUBSET Channels]
<1>1. preference' \subseteq PreferenceRow
  BY DEF NoticeTypes, Saves
<1>2. \A s \in Tasks : off[s] \cap OffFor({row}) \in SUBSET Channels
                         /\ off[s] \in SUBSET Channels
  BY DEF NoticeTypes
<1>3. off' \in [Tasks -> SUBSET Channels]
  BY <1>2, Zenon DEF Saves
<1> QED
  BY <1>1, <1>3

LEMMA MarkedRow ==
  ASSUME NoticeTypes, NEW u, NEW n \in Rows, NEW read \in BOOLEAN, MarkRead(u, n, read)
  PROVE  /\ notification' \in [Rows -> NotificationRow \cup {NoRow}]
         /\ \A m \in Rows : notification'[m] # NoRow =>
              /\ notification[m] # NoRow
              /\ notification'[m].to = notification[m].to
              /\ notification'[m].subject = notification[m].subject
              /\ notification'[m].user = notification[m].user
<1>1. notification[n] \in NotificationRow /\ notification[n] # NoRow
  BY DEF MarkRead, Inbox, NoticeTypes
<1> DEFINE row == [notification[n] EXCEPT !.read = read]
<1>2. row \in NotificationRow /\ row.to = notification[n].to
      /\ row.subject = notification[n].subject /\ row.user = notification[n].user
  BY <1>1 DEF NotificationRow
<1>3. notification' = [notification EXCEPT ![n] = row]
  BY DEF MarkRead
<1> HIDE DEF row
<1> QED
  BY <1>1, <1>2, <1>3 DEF NoticeTypes

LEMMA StoredRow ==
  ASSUME NoticeTypes, NEW r \in Tasks, NEW n \in Rows, StoreNotification(r, n)
  PROVE  /\ notification' \in [Rows -> NotificationRow \cup {NoRow}]
         /\ notification'[n].to = doing[r].to /\ notification'[n].subject = doing[r].subject
         /\ notification'[n].user = Recipient[doing[r].subject]
         /\ \A m \in Rows \ {n} : notification'[m] = notification[m]
         /\ doing'[r] \in Notice
         /\ doing'[r] = NoWork \/ (doing[r].email /\ doing'[r].op = "send"
                               /\ doing'[r].subject = doing[r].subject /\ doing'[r].to = doing[r].to)
         /\ \A s \in Tasks \ {r} : doing'[s] = doing[s]
         /\ doing' \in [Tasks -> Notice]
<1> DEFINE row == [user |-> Recipient[doing[r].subject], type |-> Type(doing[r].to),
                   subject |-> doing[r].subject, to |-> doing[r].to, read |-> FALSE]
           next == IF doing[r].email THEN [op |-> "send", subject |-> doing[r].subject, to |-> doing[r].to]
                   ELSE NoWork
<1>1. doing[r].subject \in Subjects /\ doing[r].to \in Announced /\ doing[r].email \in BOOLEAN
  BY NoticeKind DEF StoreNotification
<1>2. row \in NotificationRow
  BY <1>1, TypeOf DEF NotificationRow
<1>3. /\ row.to = doing[r].to /\ row.subject = doing[r].subject
      /\ row.user = Recipient[doing[r].subject]
  OBVIOUS
<1>4. next \in Notice
  BY <1>1 DEF Notice
<1>5. next = NoWork \/ (doing[r].email /\ next.op = "send"
                     /\ next.subject = doing[r].subject /\ next.to = doing[r].to)
  OBVIOUS
<1>6. notification' = [notification EXCEPT ![n] = row] /\ Carries(r, next)
  BY DEF StoreNotification
<1> HIDE DEF row, next
<1> QED
  BY <1>2, <1>3, <1>4, <1>5, <1>6, CarriesOn DEF NoticeTypes

\* What the preference that the dispatcher finds lets it go on to.
LEMMA PreferenceRead ==
  ASSUME NoticeTypes, NEW r \in Tasks, ReadPreference(r)
  PROVE  /\ doing[r].op = "prefer" /\ doing' \in [Tasks -> Notice]
         /\ \A s \in Tasks \ {r} : doing'[s] = doing[s]
         /\ doing'[r] \in Notice
         /\ \/ doing'[r] = NoWork
            \/ /\ doing'[r].op \in {"store", "send"}
               /\ doing'[r].subject = doing[r].subject /\ doing'[r].to = doing[r].to
               /\ \E p \in InForce(RowsFor(r)) :
                    /\ doing'[r].op = "store" => p.inApp /\ doing'[r].email = p.email
                    /\ doing'[r].op = "send" => p.email
<1>1. doing[r].op = "prefer" /\ doing[r].subject \in Subjects /\ doing[r].to \in Announced
  BY NoticeKind DEF ReadPreference
<1>2. PICK p \in Preferences(Recipient[doing[r].subject], Type(doing[r].to)) :
       \/ p.inApp
          /\ Carries(r, [op |-> "store", subject |-> doing[r].subject, to |-> doing[r].to,
                      email |-> p.email])
       \/ ~p.inApp /\ p.email
          /\ Carries(r, [op |-> "send", subject |-> doing[r].subject, to |-> doing[r].to])
       \/ ~p.inApp /\ ~p.email /\ Carries(r, NoWork)
  BY DEF ReadPreference
<1>3. PICK q \in InForce(RowsFor(r)) : p.inApp = q.inApp /\ p.email = q.email
  BY DEF Preferences, InForce, RowsFor, Default
<1>4. q.email \in BOOLEAN
  <2>1. q = Default \/ q \in preference
    BY DEF InForce, RowsFor, RowsOf
  <2>2. Default.email = FALSE
    BY DEF Default
  <2>3. \A row \in preference : row.email \in BOOLEAN
    BY DEF NoticeTypes, PreferenceRow
  <2> QED
    BY <2>1, <2>2, <2>3, Zenon
<1>5. CASE p.inApp
          /\ Carries(r, [op |-> "store", subject |-> doing[r].subject, to |-> doing[r].to,
                      email |-> p.email])
  <2> DEFINE state == [op |-> "store", subject |-> doing[r].subject, to |-> doing[r].to,
                       email |-> p.email]
  <2>1. state \in Notice
    BY <1>1, <1>3, <1>4 DEF Notice
  <2>2. Carries(r, state) /\ p.inApp
    BY <1>5
  <2>3. state.op = "store" /\ state.subject = doing[r].subject /\ state.to = doing[r].to
        /\ state.email = p.email
    OBVIOUS
  <2> HIDE DEF state
  <2>4. doing'[r] = state /\ (\A s \in Tasks \ {r} : doing'[s] = doing[s])
        /\ doing' \in [Tasks -> Notice]
    BY <2>1, <2>2, CarriesOn
  <2> QED
    BY <1>1, <1>3, <2>1, <2>2, <2>3, <2>4
<1>6. CASE ~p.inApp /\ p.email
          /\ Carries(r, [op |-> "send", subject |-> doing[r].subject, to |-> doing[r].to])
  <2> DEFINE state == [op |-> "send", subject |-> doing[r].subject, to |-> doing[r].to]
  <2>1. state \in Notice
    BY <1>1 DEF Notice
  <2>2. Carries(r, state) /\ p.email
    BY <1>6
  <2>3. state.op = "send" /\ state.subject = doing[r].subject /\ state.to = doing[r].to
    OBVIOUS
  <2> HIDE DEF state
  <2>4. doing'[r] = state /\ (\A s \in Tasks \ {r} : doing'[s] = doing[s])
        /\ doing' \in [Tasks -> Notice]
    BY <2>1, <2>2, CarriesOn
  <2> QED
    BY <1>1, <1>3, <2>1, <2>2, <2>3, <2>4
<1>7. CASE Carries(r, NoWork)
  <2>1. NoWork \in Notice
    BY DEF Notice
  <2>2. doing'[r] = NoWork /\ (\A s \in Tasks \ {r} : doing'[s] = doing[s])
        /\ doing' \in [Tasks -> Notice]
    BY <2>1, <1>7, CarriesOn
  <2> QED
    BY <1>1, <2>1, <2>2
<1> QED
  BY <1>2, <1>5, <1>6, <1>7

LEMMA NoticeTypeNext ==
  ASSUME NoticeTypes, NoticeNext
  PROVE  NoticeTypes'
<1>1. ASSUME NEW x \in Subjects, NEW to \in {"Reversed", "Processing"}, MoveSilently(x, to)
      PROVE  NoticeTypes'
  <2>1. Enters(x, to) /\ to \in Statuses
    BY <1>1 DEF MoveSilently, Statuses
  <2> QED
    BY <1>1, <2>1, EntersKeeps DEF MoveSilently, NoticeTypes
<1>2. ASSUME NEW u \in Users, NEW n \in Rows, NEW read \in BOOLEAN, MarkRead(u, n, read)
      PROVE  NoticeTypes'
  BY <1>2, MarkedRow DEF MarkRead, NoticeTypes
<1>3. ASSUME NEW r \in Tasks, NEW x \in Subjects, NEW to \in Announced,
             Decide(r, x, to)
      PROVE  NoticeTypes'
  <2>1. [op |-> "commit", subject |-> x, to |-> to] \in Notice
    BY DEF Notice
  <2> QED
    BY <1>3, <2>1, CarriesOn DEF Decide, NoticeTypes
<1>4. ASSUME NEW r \in Tasks, NEW x \in Subjects, NEW to \in Announced,
             Repeat(r, x, to)
      PROVE  NoticeTypes'
  BY <1>4, DispatchTypes DEF Repeat, NoticeTypes
<1>5. ASSUME NEW r \in Tasks, Commit(r)
      PROVE  NoticeTypes'
  <2>1. doing[r].subject \in Subjects /\ doing[r].to \in Announced /\ doing[r].to \in Statuses
    BY <1>5, NoticeKind DEF Commit, Statuses
  <2>2. Enters(doing[r].subject, doing[r].to) /\ Dispatches(r, doing[r].subject, doing[r].to)
        /\ UNCHANGED <<preference, notification>>
    BY <1>5 DEF Commit
  <2> QED
    BY <2>1, <2>2, DispatchTypes, EntersKeeps DEF NoticeTypes
<1>6. ASSUME NEW r \in Tasks, ReadPreference(r)
      PROVE  NoticeTypes'
  BY <1>6, PreferenceRead DEF ReadPreference, NoticeTypes
<1>7. ASSUME NEW r \in Tasks, NEW n \in Rows, StoreNotification(r, n)
      PROVE  NoticeTypes'
  BY <1>7, StoredRow DEF StoreNotification, NoticeTypes
<1>8. ASSUME NEW r \in Tasks, SendEmail(r) \/ DispatchLost(r)
      PROVE  NoticeTypes'
  <2>1. NoWork \in Notice
    BY DEF Notice
  <2> QED
    BY <1>8, <2>1, CarriesOn DEF SendEmail, DispatchLost, NoticeTypes
<1>9. ASSUME NEW r \in Tasks, NEW u \in Users, NEW type \in Chosen, NEW id \in PrefIds,
             BeginUpsert(r, u, type, id)
      PROVE  NoticeTypes'
  <2>1. [op |-> "upsert", user |-> u, type |-> type, id |-> id] \in Notice
    BY DEF Notice
  <2> QED
    BY <1>9, <2>1, CarriesOn DEF BeginUpsert, NoticeTypes
<1>10. ASSUME NEW r \in Tasks, NEW inApp \in BOOLEAN, NEW email \in BOOLEAN,
              Upsert(r, inApp, email)
       PROVE  NoticeTypes'
  <2>1. NoWork \in Notice
    BY DEF Notice
  <2> QED
    BY <1>10, <2>1, SavedRow, SavesTypes, CarriesOn DEF NoticeTypes
<1> QED
  BY <1>1, <1>2, <1>3, <1>4, <1>5, <1>6, <1>7, <1>8, <1>9, <1>10 DEF NoticeNext

LEMMA NoticeTypeInit == NoticeInit => NoticeTypes
<1> SUFFICES ASSUME NoticeInit PROVE NoticeTypes
  OBVIOUS
<1>1. \A x \in Subjects : Start(x) \in Statuses
  BY DEF Statuses
<1>2. NoWork \in Notice
  BY DEF Notice
<1> QED
  BY <1>1, <1>2 DEF NoticeInit, NoticeTypes

LEMMA NoticeTypeStep == NoticeTypes /\ [NoticeNext]_noticeVars => NoticeTypes'
<1> SUFFICES ASSUME NoticeTypes, UNCHANGED noticeVars PROVE NoticeTypes'
  BY NoticeTypeNext
<1> QED
  BY DEF NoticeTypes, noticeVars

-----------------------------------------------------------------------------
(* Announcements.                                                          *)

\* What a step may do to the tasks that dispatch: each goes on with the event it has, or
\* takes up one that has happened.
LEMMA AnnouncedBy ==
  ASSUME NoticeTypes, AnnouncedInv,
         \A x \in Subjects : was[x] \subseteq was'[x] /\ status'[x] \in was'[x],
         \A r \in Tasks : Dispatching(r)' =>
           \/ Dispatching(r) /\ doing'[r].subject = doing[r].subject /\ doing'[r].to = doing[r].to
           \/ doing'[r].to \in was'[doing'[r].subject],
         \A n \in Rows : notification'[n] # NoRow =>
           \/ /\ notification[n] # NoRow
              /\ notification'[n].to = notification[n].to
              /\ notification'[n].subject = notification[n].subject
              /\ notification'[n].user = notification[n].user
           \/ /\ notification'[n].to \in was'[notification'[n].subject]
              /\ notification'[n].user = Recipient[notification'[n].subject]
  PROVE  AnnouncedInv'
<1>1. ASSUME NEW r \in Tasks, Dispatching(r)'
      PROVE  doing'[r].to \in was'[doing'[r].subject]
  <2>1. CASE /\ Dispatching(r)
             /\ doing'[r].subject = doing[r].subject /\ doing'[r].to = doing[r].to
    <3>1. doing[r].to \in was[doing[r].subject] /\ doing[r].subject \in Subjects
      BY <2>1, NoticeKind DEF AnnouncedInv, Dispatching
    <3> QED
      BY <2>1, <3>1
  <2> QED
    BY <1>1, <2>1
<1>2. ASSUME NEW n \in Rows, notification'[n] # NoRow
      PROVE  /\ notification'[n].to \in was'[notification'[n].subject]
             /\ notification'[n].user = Recipient[notification'[n].subject]
  <2>1. notification[n] # NoRow => notification[n].subject \in Subjects
    BY DEF NoticeTypes, NotificationRow
  <2> QED
    BY <1>2, <2>1 DEF AnnouncedInv
<1> QED
  BY <1>1, <1>2 DEF AnnouncedInv

LEMMA AnnouncedNext ==
  ASSUME NoticeTypes, AnnouncedInv, NoticeNext
  PROVE  AnnouncedInv'
<1> DEFINE Grows == \A x \in Subjects : was[x] \subseteq was'[x] /\ status'[x] \in was'[x]
           GoesOn(r) == Dispatching(r) /\ doing'[r].subject = doing[r].subject
                        /\ doing'[r].to = doing[r].to
<1>1. UNCHANGED <<status, was>> => Grows
  BY DEF AnnouncedInv
<1>2. ASSUME NEW x \in Subjects, NEW to \in Statuses, Enters(x, to)
      PROVE  Grows /\ to \in was'[x]
  BY <1>2, EntersKeeps DEF AnnouncedInv
<1>3. ASSUME NEW r \in Tasks, \A s \in Tasks \ {r} : doing'[s] = doing[s]
      PROVE  \A s \in Tasks \ {r} : Dispatching(s)' => GoesOn(s)
  BY <1>3 DEF Dispatching
<1>4. ASSUME NEW r \in Tasks, NEW x \in Subjects, NEW to, Dispatches(r, x, to)
      PROVE  /\ doing'[r].subject = x /\ doing'[r].to = to
             /\ \A s \in Tasks \ {r} : Dispatching(s)' => GoesOn(s)
  <2>1. Carries(r, [op |-> "prefer", subject |-> x, to |-> to])
    BY <1>4 DEF Dispatches
  <2> QED
    BY <1>3, <2>1, CarriesOn
<1>5. ASSUME NEW x \in Subjects, NEW to \in {"Reversed", "Processing"}, MoveSilently(x, to)
      PROVE  AnnouncedInv'
  <2>1. Grows
    BY <1>2, <1>5 DEF MoveSilently, Statuses
  <2> QED
    BY <1>5, <2>1, AnnouncedBy DEF MoveSilently, Dispatching
<1>6. ASSUME NEW u \in Users, NEW n \in Rows, NEW read \in BOOLEAN, MarkRead(u, n, read)
      PROVE  AnnouncedInv'
  <2>1. Grows /\ doing' = doing
    BY <1>1, <1>6 DEF MarkRead
  <2> QED
    BY <1>6, <2>1, MarkedRow, AnnouncedBy DEF Dispatching
<1>7. ASSUME NEW r \in Tasks, NEW x \in Subjects, NEW to \in Announced,
             Decide(r, x, to)
      PROVE  AnnouncedInv'
  <2>1. /\ Carries(r, [op |-> "commit", subject |-> x, to |-> to])
        /\ Grows /\ notification' = notification
    BY <1>1, <1>7 DEF Decide
  <2>2. ~Dispatching(r)'
    BY <2>1, CarriesOn DEF Dispatching
  <2> QED
    BY <1>3, <2>1, <2>2, CarriesOn, AnnouncedBy
<1>8. ASSUME NEW r \in Tasks, NEW x \in Subjects, NEW to \in Announced,
             Repeat(r, x, to)
      PROVE  AnnouncedInv'
  <2>1. Dispatches(r, x, to) /\ Grows /\ notification' = notification /\ status[x] = to
        /\ UNCHANGED <<status, was>>
    BY <1>1, <1>8 DEF Repeat
  <2>2. to \in was'[x]
    BY <2>1
  <2> QED
    BY <1>4, <2>1, <2>2, AnnouncedBy
<1>9. ASSUME NEW r \in Tasks, Commit(r)
      PROVE  AnnouncedInv'
  <2>1. doing[r].subject \in Subjects /\ doing[r].to \in Announced /\ doing[r].to \in Statuses
    BY <1>9, NoticeKind DEF Commit, Statuses
  <2>2. Enters(doing[r].subject, doing[r].to) /\ Dispatches(r, doing[r].subject, doing[r].to)
        /\ notification' = notification
    BY <1>9 DEF Commit
  <2>3. Grows /\ doing[r].to \in was'[doing[r].subject]
    BY <1>2, <2>1, <2>2
  <2> QED
    BY <1>4, <2>1, <2>2, <2>3, AnnouncedBy
<1>10. ASSUME NEW r \in Tasks, ReadPreference(r)
       PROVE  AnnouncedInv'
  <2>1. Grows /\ notification' = notification
    BY <1>1, <1>10 DEF ReadPreference
  <2>2. Dispatching(r)' => GoesOn(r)
    BY <1>10, PreferenceRead DEF Dispatching, NoWork
  <2>3. \A s \in Tasks \ {r} : Dispatching(s)' => GoesOn(s)
    BY <1>3, <1>10, PreferenceRead
  <2> QED
    BY <2>1, <2>2, <2>3, AnnouncedBy
<1>11. ASSUME NEW r \in Tasks, NEW n \in Rows, StoreNotification(r, n)
       PROVE  AnnouncedInv'
  <2>1. Grows /\ was' = was /\ doing[r].op = "store"
    BY <1>1, <1>11 DEF StoreNotification
  <2>2. doing[r].to \in was[doing[r].subject]
    BY <2>1 DEF AnnouncedInv, Dispatching
  <2>3. Dispatching(r)' => GoesOn(r)
    BY <1>11, <2>1, StoredRow DEF Dispatching, NoWork
  <2>4. \A s \in Tasks \ {r} : Dispatching(s)' => GoesOn(s)
    BY <1>3, <1>11, StoredRow
  <2> QED
    BY <1>11, <2>1, <2>2, <2>3, <2>4, StoredRow, AnnouncedBy
<1>12. ASSUME NEW r \in Tasks, UNCHANGED <<status, was, notification>>,
              \A s \in Tasks \ {r} : doing'[s] = doing[s], ~Dispatching(r)'
       PROVE  AnnouncedInv'
  BY <1>1, <1>3, <1>12, AnnouncedBy
<1>13. ASSUME NEW r \in Tasks, SendEmail(r) \/ DispatchLost(r)
       PROVE  AnnouncedInv'
  <2>1. Carries(r, NoWork) /\ UNCHANGED <<status, was, notification>>
    BY <1>13 DEF SendEmail, DispatchLost
  <2>2. ~Dispatching(r)'
    BY <2>1, CarriesOn DEF Dispatching, NoWork
  <2> QED
    BY <1>12, <2>1, <2>2, CarriesOn
<1>14. ASSUME NEW r \in Tasks, NEW u \in Users, NEW type \in Chosen, NEW id \in PrefIds,
              BeginUpsert(r, u, type, id)
       PROVE  AnnouncedInv'
  <2>1. Carries(r, [op |-> "upsert", user |-> u, type |-> type, id |-> id])
        /\ UNCHANGED <<status, was, notification>>
    BY <1>14 DEF BeginUpsert
  <2>2. ~Dispatching(r)'
    BY <2>1, CarriesOn DEF Dispatching
  <2> QED
    BY <1>12, <2>1, <2>2, CarriesOn
<1>15. ASSUME NEW r \in Tasks, NEW inApp \in BOOLEAN, NEW email \in BOOLEAN,
              Upsert(r, inApp, email)
       PROVE  AnnouncedInv'
  <2>1. Carries(r, NoWork) /\ UNCHANGED <<status, was, notification>>
    BY <1>15 DEF Upsert
  <2>2. ~Dispatching(r)'
    BY <2>1, CarriesOn DEF Dispatching, NoWork
  <2> QED
    BY <1>12, <2>1, <2>2, CarriesOn
<1> QED
  BY <1>5, <1>6, <1>7, <1>8, <1>9, <1>10, <1>11, <1>13, <1>14, <1>15 DEF NoticeNext

-----------------------------------------------------------------------------
(* Channels.                                                               *)

\* A task that does nothing while preferences and what is off stay.
LEMMA RespectsStays ==
  ASSUME ChannelsInv, NEW s \in Tasks, doing'[s] = doing[s],
         preference' = preference, off'[s] = off[s]
  PROVE  Respects(s)'
BY DEF ChannelsInv, Respects, RowsFor, RowsOf

\* A preference saved while the task of another request is under way: what was off stays so
\* only where the new row has it off too, and the row is the one that task will read.
LEMMA RespectsSaving ==
  ASSUME ChannelsInv, NEW s \in Tasks, doing'[s] = doing[s], NEW row,
         Saves(row.user, row.type, {row})
  PROVE  Respects(s)'
<1> DEFINE Concerned == /\ Dispatching(s)
                        /\ Recipient[doing[s].subject] = row.user
                        /\ Type(doing[s].to) = row.type
<1>1. off'[s] = IF Concerned THEN off[s] \cap OffFor({row}) ELSE off[s]
  BY DEF Saves, Dispatching
<1>2. preference' = (preference \ RowsOf(row.user, row.type)) \cup {row}
  BY DEF Saves
<1>3. Respects(s)
  BY DEF ChannelsInv
<1>4. ASSUME doing[s].op = "prefer"
      PROVE  off'[s] \subseteq OffFor(InForce(RowsFor(s)))'
  <2>1. CASE Concerned
    <3>1. RowsFor(s)' = {row}
      BY <1>2, <2>1 DEF RowsFor, RowsOf
    <3>2. OffFor(InForce(RowsFor(s)))' = OffFor({row})
      BY <3>1 DEF InForce, OffFor
    <3> QED
      BY <1>1, <2>1, <3>2
  <2>2. CASE ~Concerned
    <3>1. Recipient[doing[s].subject] # row.user \/ Type(doing[s].to) # row.type
      BY <1>4, <2>2 DEF Dispatching
    <3>2. RowsFor(s)' = RowsFor(s)
      BY <1>2, <3>1 DEF RowsFor, RowsOf
    <3>3. OffFor(InForce(RowsFor(s)))' = OffFor(InForce(RowsFor(s)))
      BY <3>2 DEF InForce, OffFor
    <3> QED
      BY <1>1, <1>3, <1>4, <2>2, <3>3 DEF Respects
  <2> QED
    BY <2>1, <2>2
<1>5. off'[s] \subseteq off[s]
  BY <1>1
<1> QED
  BY <1>3, <1>4, <1>5 DEF Respects

LEMMA ChannelsNext ==
  ASSUME NoticeTypes, ChannelsInv, NoticeNext
  PROVE  ChannelsInv'
<1>1. ASSUME NEW r \in Tasks, \A s \in Tasks \ {r} : doing'[s] = doing[s],
             preference' = preference, \A s \in Tasks \ {r} : off'[s] = off[s],
             Respects(r)'
      PROVE  ChannelsInv'
  BY <1>1, RespectsStays DEF ChannelsInv
<1>2. ASSUME NEW r \in Tasks, doing'[r].op \in {"idle", "commit", "upsert"}
      PROVE  Respects(r)'
  BY <1>2 DEF Respects
<1>3. ASSUME UNCHANGED <<preference, doing, off>>
      PROVE  ChannelsInv'
  BY <1>3, RespectsStays DEF ChannelsInv
<1>4. ASSUME NEW x \in Subjects, NEW to \in {"Reversed", "Processing"}, MoveSilently(x, to)
      PROVE  ChannelsInv'
  BY <1>3, <1>4 DEF MoveSilently
<1>5. ASSUME NEW u \in Users, NEW n \in Rows, NEW read \in BOOLEAN, MarkRead(u, n, read)
      PROVE  ChannelsInv'
  BY <1>3, <1>5 DEF MarkRead
<1>6. ASSUME NEW r \in Tasks, NEW x, NEW to, Dispatches(r, x, to), preference' = preference
      PROVE  ChannelsInv'
  <2>1. Carries(r, [op |-> "prefer", subject |-> x, to |-> to])
    BY <1>6 DEF Dispatches
  <2>2. off' = [off EXCEPT ![r] = OffFor(InForce(RowsOf(Recipient[x], Type(to))))]
    BY <1>6 DEF Dispatches
  <2>3. off'[r] = OffFor(InForce(RowsOf(Recipient[x], Type(to))))
        /\ \A s \in Tasks \ {r} : off'[s] = off[s]
    BY <2>2 DEF NoticeTypes
  <2>4. doing'[r].op = "prefer" /\ doing'[r].subject = x /\ doing'[r].to = to
    BY <2>1, CarriesOn
  <2>5. RowsOf(Recipient[x], Type(to))' = RowsOf(Recipient[x], Type(to))
    BY <1>6 DEF RowsOf
  <2>6. RowsFor(r)' = RowsOf(Recipient[x], Type(to))
    BY <2>4, <2>5, Zenon DEF RowsFor
  <2>7. OffFor(InForce(RowsFor(r)))' = OffFor(InForce(RowsOf(Recipient[x], Type(to))))
    BY <2>6 DEF OffFor, InForce
  <2>8. Respects(r)'
    BY <2>3, <2>4, <2>7 DEF Respects
  <2> QED
    BY <1>1, <1>6, <2>1, <2>3, <2>8, CarriesOn
<1>7. ASSUME NEW r \in Tasks, NEW x \in Subjects, NEW to \in Announced, Repeat(r, x, to)
      PROVE  ChannelsInv'
  BY <1>6, <1>7 DEF Repeat
<1>8. ASSUME NEW r \in Tasks, Commit(r)
      PROVE  ChannelsInv'
  BY <1>6, <1>8 DEF Commit
<1>9. ASSUME NEW r \in Tasks, NEW state, Carries(r, state),
             state.op \in {"idle", "commit", "upsert"}, UNCHANGED <<preference, off>>
      PROVE  ChannelsInv'
  <2>1. doing'[r] = state /\ \A s \in Tasks \ {r} : doing'[s] = doing[s]
    BY <1>9, CarriesOn
  <2> QED
    BY <1>1, <1>2, <1>9, <2>1
<1>10. ASSUME NEW r \in Tasks, NEW x \in Subjects, NEW to \in Announced, Decide(r, x, to)
       PROVE  ChannelsInv'
  <2>1. Carries(r, [op |-> "commit", subject |-> x, to |-> to]) /\ UNCHANGED <<preference, off>>
    BY <1>10 DEF Decide
  <2> QED
    BY <1>9, <2>1
<1>11. ASSUME NEW r \in Tasks, SendEmail(r) \/ DispatchLost(r)
       PROVE  ChannelsInv'
  <2>1. Carries(r, NoWork) /\ UNCHANGED <<preference, off>> /\ NoWork.op = "idle"
    BY <1>11 DEF SendEmail, DispatchLost, NoWork
  <2> QED
    BY <1>9, <2>1
<1>12. ASSUME NEW r \in Tasks, NEW u \in Users, NEW type \in Chosen, NEW id \in PrefIds,
              BeginUpsert(r, u, type, id)
       PROVE  ChannelsInv'
  <2>1. Carries(r, [op |-> "upsert", user |-> u, type |-> type, id |-> id])
        /\ UNCHANGED <<preference, off>>
    BY <1>12 DEF BeginUpsert
  <2> QED
    BY <1>9, <2>1
<1>13. ASSUME NEW r \in Tasks, NEW inApp \in BOOLEAN, NEW email \in BOOLEAN,
              Upsert(r, inApp, email)
       PROVE  ChannelsInv'
  <2>1. PICK row \in PreferenceRow : Saves(row.user, row.type, {row}) /\ Carries(r, NoWork)
    BY <1>13, SavedRow
  <2>2. doing'[r] = NoWork /\ \A s \in Tasks \ {r} : doing'[s] = doing[s]
    BY <2>1, CarriesOn
  <2>3. Respects(r)'
    BY <1>2, <2>2 DEF NoWork
  <2>4. \A s \in Tasks \ {r} : Respects(s)'
    BY <2>1, <2>2, RespectsSaving
  <2> QED
    BY <2>3, <2>4 DEF ChannelsInv
<1>14. ASSUME NEW r \in Tasks, ReadPreference(r)
       PROVE  ChannelsInv'
  <2>1. UNCHANGED <<preference, off>> /\ doing[r].op = "prefer"
    BY <1>14 DEF ReadPreference
  <2>2. off[r] \subseteq OffFor(InForce(RowsFor(r)))
    BY <2>1 DEF ChannelsInv, Respects
  <2>3. \A p \in InForce(RowsFor(r)) :
          (p.inApp => "inApp" \notin off[r]) /\ (p.email => "email" \notin off[r])
    <3>1. \A p \in InForce(RowsFor(r)) :
            /\ "inApp" \in off[r] => ~p["inApp"]
            /\ "email" \in off[r] => ~p["email"]
      BY <2>2, Zenon DEF OffFor
    <3> QED
      BY <3>1
  <2>4. ASSUME doing'[r] = NoWork
        PROVE  Respects(r)'
    BY <1>2, <2>4 DEF NoWork
  <2>5. ASSUME NEW p \in InForce(RowsFor(r)),
               doing'[r].op \in {"store", "send"},
               doing'[r].op = "store" => p.inApp /\ doing'[r].email = p.email,
               doing'[r].op = "send" => p.email
        PROVE  Respects(r)'
    BY <2>1, <2>3, <2>5 DEF Respects
  <2>6. Respects(r)'
    BY <1>14, <2>4, <2>5, PreferenceRead
  <2> QED
    BY <1>1, <1>14, <2>1, <2>6, PreferenceRead
<1>15. ASSUME NEW r \in Tasks, NEW n \in Rows, StoreNotification(r, n)
       PROVE  ChannelsInv'
  <2>1. UNCHANGED <<preference, off>> /\ doing[r].op = "store"
    BY <1>15 DEF StoreNotification
  <2>2. doing[r].email => "email" \notin off[r]
    BY <2>1 DEF ChannelsInv, Respects
  <2>3. Respects(r)'
    BY <1>15, <2>1, <2>2, StoredRow DEF Respects, NoWork
  <2> QED
    BY <1>1, <1>15, <2>1, <2>3, StoredRow
<1> QED
  BY <1>4, <1>5, <1>7, <1>8, <1>10, <1>11, <1>12, <1>13, <1>14, <1>15 DEF NoticeNext

-----------------------------------------------------------------------------
(* Preferences.                                                            *)

LEMMA PreferencesNext ==
  ASSUME NoticeTypes, PreferencesInv, NoticeNext
  PROVE  PreferencesInv'
<1>1. CASE preference' = preference
  BY <1>1 DEF PreferencesInv
<1>2. ASSUME NEW r \in Tasks, NEW inApp \in BOOLEAN, NEW email \in BOOLEAN,
             Upsert(r, inApp, email)
      PROVE  PreferencesInv'
  <2>1. PICK row \in PreferenceRow : Saves(row.user, row.type, {row})
    BY <1>2, SavedRow
  <2>2. preference' = (preference \ RowsOf(row.user, row.type)) \cup {row}
    BY <2>1 DEF Saves
  <2> QED
    BY <2>2 DEF PreferencesInv, RowsOf
<1> QED
  BY <1>1, <1>2
     DEF NoticeNext, MoveSilently, MarkRead, Decide, Repeat, Commit, ReadPreference,
         StoreNotification, SendEmail, BeginUpsert, DispatchLost

-----------------------------------------------------------------------------
(* The theorems.                                                           *)

NoticeInv == NoticeTypes /\ AnnouncedInv /\ ChannelsInv /\ PreferencesInv

LEMMA NoticeInvInit == NoticeInit => NoticeInv
<1> SUFFICES ASSUME NoticeInit PROVE NoticeInv
  OBVIOUS
<1>1. NoticeTypes
  BY NoticeTypeInit
<1>2. AnnouncedInv
  BY DEF NoticeInit, AnnouncedInv, Dispatching, NoWork
<1>3. ChannelsInv
  BY DEF NoticeInit, ChannelsInv, Respects, NoWork
<1>4. PreferencesInv
  BY DEF NoticeInit, PreferencesInv
<1> QED
  BY <1>1, <1>2, <1>3, <1>4 DEF NoticeInv

LEMMA NoticeInvStep == NoticeInv /\ [NoticeNext]_noticeVars => NoticeInv'
<1>1. CASE NoticeNext
  BY <1>1, NoticeTypeNext, AnnouncedNext, ChannelsNext, PreferencesNext DEF NoticeInv
<1>2. CASE UNCHANGED noticeVars
  <2>1. NoticeInv => AnnouncedInv' /\ PreferencesInv'
    BY <1>2 DEF NoticeInv, noticeVars, AnnouncedInv, Dispatching, PreferencesInv
  <2>2. NoticeInv => ChannelsInv'
    BY <1>2, RespectsStays DEF NoticeInv, noticeVars, ChannelsInv
  <2> QED
    BY <1>2, <2>1, <2>2, NoticeTypeStep DEF NoticeInv
<1> QED
  BY <1>1, <1>2

LEMMA NoticeInvariant == NoticeSpec => []NoticeInv
BY NoticeInvInit, NoticeInvStep, PTL DEF NoticeSpec

\* Every notification in an inbox is about the subject of its user and names a status that
\* the subject has had, however decisions, repeats and the dispatches of several tasks
\* interleave and whichever of them are lost: the routes dispatch after their commit, and
\* what is committed is never taken out of a subject's past.
THEOREM AnnouncementsAreTrue == NoticeSpec => []AnnouncedAfterCommit
<1>1. NoticeInv => AnnouncedAfterCommit
  BY DEF NoticeInv, AnnouncedInv, AnnouncedAfterCommit, Inbox
<1> QED
  BY <1>1, NoticeInvariant, PTL

\* A channel that has been off for the recipient and the type ever since the decision is not
\* used for its event: handle_application_event reads the preference once, after the commit,
\* and carries on with what it read while upserts of the same user go on beside it.
THEOREM SwitchedOffStaysSilent == NoticeSpec => []PreferencesRespected
<1>1. NoticeInv => PreferencesRespected
  BY DEF NoticeInv, ChannelsInv, Respects, PreferencesRespected
<1> QED
  BY <1>1, NoticeInvariant, PTL

\* A user never has two preference rows of one type, although two tasks that both found none
\* save theirs one after the other: the second one's ON CONFLICT clause replaces the first.
THEOREM OneRowPerType == NoticeSpec => []OnePreferencePerType
<1>1. ASSUME NoticeInv, NEW u \in Users, NEW type \in Chosen
      PROVE  Cardinality(RowsOf(u, type)) <= 1
  <2>1. \A p, q \in RowsOf(u, type) : p = q
    BY <1>1 DEF NoticeInv, PreferencesInv, RowsOf
  <2>2. CASE RowsOf(u, type) = {}
    BY <2>2, FS_EmptySet
  <2>3. CASE RowsOf(u, type) # {}
    <3>1. PICK p : RowsOf(u, type) = {p}
      BY <2>1, <2>3
    <3>2. Cardinality({p}) = 1
      BY FS_Singleton
    <3> QED
      BY <3>1, <3>2
  <2> QED
    BY <2>2, <2>3
<1>2. NoticeInv => OnePreferencePerType
  BY <1>1 DEF OnePreferencePerType
<1> QED
  BY <1>2, NoticeInvariant, PTL
=============================================================================
