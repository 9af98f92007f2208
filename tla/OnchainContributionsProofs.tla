---------------------- MODULE OnchainContributionsProofs ----------------------
(***************************************************************************)
(* Theorems about OnchainContributions, for every number of contributions, *)
(* keys, wallets and concurrent tasks, and for identifiers that need not   *)
(* be distinct.                                                            *)
(*                                                                         *)
(* All of them follow from one invariant: rows, and what tasks carry, say  *)
(* no more than what has happened.  What has happened never stops being    *)
(* so (Grows), hence what another task carries stays sound, and each       *)
(* action only has to answer for what it stores and carries itself.        *)
(***************************************************************************)
EXTENDS OnchainContributions, TLAPS

Statuses == {"Pending", "Confirmed", "Failed", "Reversed"}
Hashes == {Identifier[k] : k \in Keys}
Entities == Contributions \cup Wallets
Values == Hashes \cup Wallets
Outcomes == {"Absent", "Pending", "Succeeded", "Rejected", "Expired"}

RecordRow ==
  [key : Keys, hash : Hashes, retry : BOOLEAN,
   status : {"Submitted", "RetryScheduled", "Confirmed", "Failed"}]

Answer ==
  {"Forbidden", "Validation", "NotFound", "Conflict", "Rejected", "Unavailable"}

Task ==
  {Idle}
  \cup [op : {"send"}, contribution : Contributions, key : Keys]
  \cup [op : {"record"}, contribution : Contributions, key : Keys, hash : Hashes]
  \cup [op : {"wallet", "attach", "audit"}, entity : Entities, value : Values]
  \cup [op : {"answer"}, answer : Answer, reached : BOOLEAN]
  \cup [op : {"lookup"}, contribution : Contributions, copy : RecordRow]
  \cup [op : {"settle", "commit", "store"}, contribution : Contributions,
        copy : RecordRow \cup {None}, to : Statuses \cup {"None"}]

TypeOK ==
  /\ contribution \in [Contributions -> Statuses]
  /\ record \in [Contributions -> RecordRow \cup {None}]
  /\ reference \in [Entities -> Values \cup {None}]
  /\ attached \subseteq Entities \X Values
  /\ wallet \subseteq Wallets
  /\ chain \in [Hashes -> Outcomes]
  /\ req \in [Requests -> Task]
  /\ sent \subseteq Contributions \X Keys \X Hashes
  /\ was \in [Contributions -> SUBSET Statuses]
  /\ unsure \subseteq Contributions \X Keys

-----------------------------------------------------------------------------
(* The invariant.                                                          *)

\* What a final record status stands for.
Happened(c, status, hash) ==
  /\ status = "Confirmed" => chain[hash] = "Succeeded" /\ "Confirmed" \in was[c]
  /\ status = "Failed" => chain[hash] = "Rejected" /\ "Failed" \in was[c]

\* The value that a reference of the entity may have.
Names(e, value) ==
  \/ e \in Contributions /\ record[e] # None /\ record[e].hash = value
  \/ e \in wallet /\ e = value

\* A record with this key and hash is stored, or has been stored and changed since.
SameRecord(c, copy) ==
  record[c] # None /\ record[c].key = copy.key /\ record[c].hash = copy.hash

\* What the network said, before the contribution is settled accordingly.
Said(task) ==
  /\ task.copy.status = "Confirmed" =>
       chain[task.copy.hash] = "Succeeded" /\ task.to = "Confirmed"
  /\ task.copy.status = "Failed" =>
       chain[task.copy.hash] = "Rejected" /\ task.to = "Failed"

Sound(task) ==
  /\ task.op = "record" => <<task.contribution, task.key, task.hash>> \in sent
  /\ task.op = "wallet" => task.entity \in Wallets /\ task.value = task.entity
  /\ task.op \in {"attach", "audit"} => Names(task.entity, task.value)
  /\ task.op = "audit" => reference[task.entity] = task.value
  /\ task.op = "answer" /\ task.answer \in Definite => ~task.reached
  /\ task.op = "lookup" => SameRecord(task.contribution, task.copy)
  /\ task.op \in {"settle", "commit", "store"} /\ task.copy # None =>
       SameRecord(task.contribution, task.copy) /\ Said(task)
  /\ task.op \in {"settle", "commit"} => task.to \in Statuses
  /\ task.op \in {"settle", "store"} => task.copy # None
  /\ task.op = "store" => Happened(task.contribution, task.copy.status, task.copy.hash)

RecordsSound ==
  \A c \in Contributions : record[c] # None =>
    /\ <<c, record[c].key, record[c].hash>> \in sent
    /\ Happened(c, record[c].status, record[c].hash)

ReferencesSound ==
  /\ \A e \in Entities : reference[e] # None => Names(e, reference[e])
  /\ \A pair \in attached : reference[pair[1]] = pair[2]

HistorySound == \A c \in Contributions : contribution[c] \in was[c]

\* Who may know of a transaction that was sent.
Recorded(s) == record[s[1]] # None /\ <<s[1], record[s[1]].key, record[s[1]].hash>> = s
CarriedBy(r, s) ==
  req[r].op = "record" /\ <<req[r].contribution, req[r].key, req[r].hash>> = s
Known(s) ==
  \/ Recorded(s)
  \/ \E r \in Requests : CarriedBy(r, s)
  \/ <<s[1], s[2]>> \in unsure

IInv ==
  /\ TypeOK
  /\ \A r \in Requests : Sound(req[r])
  /\ RecordsSound
  /\ ReferencesSound
  /\ HistorySound
  /\ SentIsKnown

\* What has happened stays so.
Grows ==
  /\ \A c \in Contributions : record[c] # None =>
       /\ record'[c] # None
       /\ record'[c].key = record[c].key
       /\ record'[c].hash = record[c].hash
  /\ \A e \in Entities : reference[e] # None => reference'[e] = reference[e]
  /\ wallet \subseteq wallet'
  /\ sent \subseteq sent'
  /\ unsure \subseteq unsure'
  /\ \A c \in Contributions : was[c] \subseteq was'[c]
  /\ \A h \in Hashes : chain[h] \in {"Succeeded", "Rejected"} => chain'[h] = chain[h]

\* The action of task r leaves it with a sound task.
CarriesOn(r) == \E task \in Task : req' = [req EXCEPT ![r] = task] /\ Sound(task)'

TasksSound == \A r \in Requests : Sound(req[r])

-----------------------------------------------------------------------------
(* A task's op tells which record it is; no row is None.                   *)

LEMMA TaskKind ==
  ASSUME NEW task \in Task
  PROVE  /\ task.op = "send" => task.contribution \in Contributions /\ task.key \in Keys
         /\ task.op = "record" =>
              task.contribution \in Contributions /\ task.key \in Keys /\ task.hash \in Hashes
         /\ task.op \in {"wallet", "attach", "audit"} =>
              task.entity \in Entities /\ task.value \in Values
         /\ task.op = "lookup" => task.contribution \in Contributions /\ task.copy \in RecordRow
         /\ task.op \in {"settle", "commit", "store"} =>
              /\ task.contribution \in Contributions
              /\ task.copy \in RecordRow \cup {None}
              /\ task.to \in Statuses \cup {"None"}
BY DEF Task, Idle

LEMMA NotNone ==
  /\ \A row \in RecordRow : row # None
  /\ \A value \in Values : value # None
BY OnchainAssumption DEF RecordRow, Hashes, Values

\* What is sound stays sound when nothing that has happened is undone.
LEMMA Stable ==
  ASSUME TypeOK, Grows, NEW task \in Task, Sound(task)
  PROVE  Sound(task)'
<1> USE TaskKind
<1>1. task.op = "record" => <<task.contribution, task.key, task.hash>> \in sent'
  BY DEF Sound, Grows
<1>2. task.op \in {"attach", "audit"} => Names(task.entity, task.value)'
  BY DEF Sound, Grows, Names
<1>3. task.op = "audit" => reference'[task.entity] = task.value
  BY NotNone DEF Sound, Grows
<1>4. \A c \in Contributions, copy \in RecordRow :
        SameRecord(c, copy) => SameRecord(c, copy)'
  BY DEF Grows, SameRecord
<1>5. \A copy \in RecordRow : chain[copy.hash] \in {"Succeeded", "Rejected"}
                                => chain'[copy.hash] = chain[copy.hash]
  BY DEF Grows, RecordRow
<1>6. task.op \in {"settle", "commit", "store"} /\ task.copy # None => Said(task)'
  BY <1>5 DEF Sound, Said
<1>7. task.op = "store" =>
        Happened(task.contribution, task.copy.status, task.copy.hash)'
  BY <1>5 DEF Sound, Happened, Grows
<1> QED
  BY <1>1, <1>2, <1>3, <1>4, <1>6, <1>7 DEF Sound

LEMMA TasksStep ==
  ASSUME IInv, Grows, NEW r \in Requests, CarriesOn(r)
  PROVE  req' \in [Requests -> Task] /\ TasksSound'
<1>1. PICK task \in Task : req' = [req EXCEPT ![r] = task] /\ Sound(task)'
  BY DEF CarriesOn
<1>2. req' \in [Requests -> Task]
  BY <1>1 DEF IInv, TypeOK
<1>3. ASSUME NEW s \in Requests
      PROVE  Sound(req[s])'
  <2>1. CASE s = r
    <3>1. req'[s] = task
      BY <1>1, <2>1 DEF IInv, TypeOK
    <3> QED
      BY <1>1, <3>1 DEF Sound, Names, SameRecord, Said, Happened
  <2>2. CASE s # r
    <3>1. req'[s] = req[s]
      BY <1>1, <2>2 DEF IInv, TypeOK
    <3>2. PICK other \in Task : other = req[s]
      BY DEF IInv, TypeOK
    <3>3. Sound(other)
      BY <3>2 DEF IInv
    <3>4. Sound(other)'
      BY <3>3, Stable DEF IInv
    <3> QED
      BY <3>1, <3>2, <3>4 DEF Sound, Names, SameRecord, Said, Happened
  <2> QED
    BY <2>1, <2>2
<1> QED
  BY <1>2, <1>3 DEF TasksSound

\* What was known to somebody stays known, if the task that acts hands on what it
\* carried and what it sends.
LEMMA KnownStep ==
  ASSUME IInv, Grows, NEW r \in Requests, NEW task, req' = [req EXCEPT ![r] = task],
         \A s \in sent' : s \notin sent \/ CarriedBy(r, s) => Known(s)'
  PROVE  SentIsKnown'
<1> SUFFICES ASSUME NEW s \in sent' PROVE Known(s)'
  BY DEF SentIsKnown, Known, Recorded, CarriedBy
<1>1. CASE s \notin sent \/ CarriedBy(r, s)
  BY <1>1
<1>2. CASE s \in sent /\ ~CarriedBy(r, s)
  <2>1. s[1] \in Contributions
    BY <1>2 DEF IInv, TypeOK
  <2>2. Known(s)
    BY <1>2 DEF IInv, SentIsKnown, Known, Recorded, CarriedBy
  <2>3. CASE Recorded(s)
    BY <2>1, <2>3 DEF Recorded, Known, Grows
  <2>4. ASSUME NEW q \in Requests, CarriedBy(q, s)
        PROVE  Known(s)'
    <3>1. req'[q] = req[q]
      BY <1>2, <2>4 DEF IInv, TypeOK
    <3> QED
      BY <2>4, <3>1 DEF CarriedBy, Known
  <2>5. CASE <<s[1], s[2]>> \in unsure
    BY <2>5 DEF Grows, Known
  <2> QED
    BY <2>2, <2>3, <2>4, <2>5 DEF Known
<1> QED
  BY <1>1, <1>2

\* Nothing is sent, and the task that acts had nothing sent to hand on.
LEMMA KnownStays ==
  ASSUME IInv, Grows, NEW r \in Requests, CarriesOn(r), req[r].op # "record", UNCHANGED sent
  PROVE  SentIsKnown'
<1>1. \A s \in sent' : s \in sent /\ ~CarriedBy(r, s)
  BY DEF CarriedBy
<1> QED
  BY <1>1, KnownStep DEF CarriesOn

-----------------------------------------------------------------------------
(* Actions that only change what the task carries.                         *)

\* The client of a task that drops what it sent is left unsure.
LeavesUnsure(r) ==
  /\ unsure \subseteq unsure' /\ unsure' \subseteq Contributions \X Keys
  /\ req[r].op = "record" => Submission(r) \in unsure'

tables == <<contribution, record, reference, attached, wallet, chain, sent, was>>

LEMMA TablesUnchanged ==
  ASSUME IInv, UNCHANGED tables, unsure \subseteq unsure'
  PROVE  /\ Grows
         /\ (RecordsSound /\ ReferencesSound /\ HistorySound)'
BY DEF tables, Grows, IInv, RecordsSound, ReferencesSound, HistorySound, Happened, Names

LEMMA CarryStep ==
  ASSUME IInv, UNCHANGED tables, NEW r \in Requests, CarriesOn(r), LeavesUnsure(r)
  PROVE  IInv'
<1>1. Grows /\ (RecordsSound /\ ReferencesSound /\ HistorySound)'
  BY TablesUnchanged DEF LeavesUnsure
<1>2. req' \in [Requests -> Task] /\ TasksSound'
  BY <1>1, TasksStep
<1>3. TypeOK'
  BY <1>2 DEF IInv, TypeOK, tables, LeavesUnsure
<1>4. \A s \in sent' : s \in sent /\ (CarriedBy(r, s) => Known(s)')
  BY DEF tables, LeavesUnsure, Submission, CarriedBy, Known
<1>5. SentIsKnown'
  BY <1>1, <1>4, KnownStep DEF CarriesOn
<1> QED
  BY <1>1, <1>2, <1>3, <1>5 DEF IInv, TasksSound

\* A task that has sent nothing yet, or stored what it sent, leaves nobody unsure.
LEMMA NobodyUnsure ==
  ASSUME IInv, NEW r \in Requests, req[r].op # "record", UNCHANGED unsure
  PROVE  LeavesUnsure(r)
BY DEF LeavesUnsure, IInv, TypeOK

\* A task that has ended carries nothing.
LEMMA IdleIsSound ==
  ASSUME NEW r \in Requests, req' = [req EXCEPT ![r] = Idle]
  PROVE  CarriesOn(r)
<1>1. Idle \in Task /\ Sound(Idle)'
  BY DEF Sound, Idle, Task
<1> QED
  BY <1>1 DEF CarriesOn

LEMMA SubmitSteps ==
  ASSUME IInv, NEW r \in Requests,
         \/ \E c \in Contributions, k \in Keys : BeginSubmit(r, c, k)
         \/ RecordConflict(r)
         \/ \E w \in Wallets : Provision(r, w)
  PROVE  IInv'
<1>1. UNCHANGED tables
  BY DEF BeginSubmit, RecordConflict, Provision, tables
<1>2. ASSUME NEW c \in Contributions, NEW k \in Keys, BeginSubmit(r, c, k)
      PROVE  IInv'
  <2> DEFINE task == [op |-> "send", contribution |-> c, key |-> k]
  <2>1. task \in Task /\ Sound(task)'
    BY DEF Task, Sound
  <2>2. LeavesUnsure(r)
    BY <1>2, NobodyUnsure DEF BeginSubmit, Idle
  <2> QED
    BY <1>1, <1>2, <2>1, <2>2, CarryStep DEF BeginSubmit, CarriesOn
<1>3. CASE RecordConflict(r)
  <2> DEFINE task == [op |-> "answer", answer |-> "Conflict", reached |-> TRUE]
  <2>1. task \in Task /\ Sound(task)'
    BY DEF Task, Sound, Answer, Definite
  <2>2. Submission(r) \in Contributions \X Keys
    BY <1>3, TaskKind DEF RecordConflict, Submission, IInv, TypeOK
  <2>3. LeavesUnsure(r)
    BY <1>3, <2>2 DEF RecordConflict, Tell, Definite, LeavesUnsure, IInv, TypeOK
  <2> QED
    BY <1>1, <1>3, <2>1, <2>3, CarryStep DEF RecordConflict, Tell, CarriesOn
<1>4. ASSUME NEW w \in Wallets, Provision(r, w)
      PROVE  IInv'
  <2> DEFINE task == [op |-> "wallet", entity |-> w, value |-> w]
  <2>1. task \in Task /\ Sound(task)'
    BY DEF Task, Sound, Entities, Values
  <2>2. LeavesUnsure(r)
    BY <1>4, NobodyUnsure DEF Provision, Idle
  <2> QED
    BY <1>1, <1>4, <2>1, <2>2, CarryStep DEF Provision, CarriesOn
<1> QED
  BY <1>2, <1>3, <1>4

LEMMA ReconcileSteps ==
  ASSUME IInv, NEW r \in Requests,
         \/ \E c \in Contributions : BeginReconcile(r, c)
         \/ SettlementRefused(r)
         \/ \E c \in Contributions, target \in Targets : BeginAdmin(r, c, target)
         \/ Ends(r)
  PROVE  IInv'
<1>1. UNCHANGED tables
  BY DEF BeginReconcile, SettlementRefused, BeginAdmin, Ends, tables
<1>2. ASSUME NEW c \in Contributions, BeginReconcile(r, c)
      PROVE  IInv'
  <2>1. PICK copy \in RecordRow : copy = record[c] /\ record[c] # None
    BY <1>2 DEF BeginReconcile, IInv, TypeOK
  <2> DEFINE task == [op |-> "lookup", contribution |-> c, copy |-> copy]
  <2>2. task \in Task /\ Sound(task)'
    BY <1>1, <2>1 DEF Task, Sound, SameRecord, tables
  <2>3. LeavesUnsure(r)
    BY <1>2, NobodyUnsure DEF BeginReconcile, Idle
  <2> QED
    BY <1>1, <1>2, <2>1, <2>2, <2>3, CarryStep DEF BeginReconcile, CarriesOn
<1>3. ASSUME NEW c \in Contributions, NEW target \in Targets, BeginAdmin(r, c, target)
      PROVE  IInv'
  <2> DEFINE task == [op |-> "commit", contribution |-> c, copy |-> None, to |-> target]
  <2>1. task \in Task /\ Sound(task)'
    BY DEF Task, Sound, Targets, Statuses
  <2>2. LeavesUnsure(r)
    BY <1>3, NobodyUnsure DEF BeginAdmin, Idle
  <2> QED
    BY <1>1, <1>3, <2>1, <2>2, CarryStep DEF BeginAdmin, CarriesOn
<1>4. CASE SettlementRefused(r)
  <2>1. LeavesUnsure(r)
    BY <1>4, NobodyUnsure DEF SettlementRefused
  <2> QED
    BY <1>1, <1>4, <2>1, IdleIsSound, CarryStep DEF SettlementRefused
<1>5. CASE Ends(r)
  <2>1. req[r].op \in {"send", "record"} => Submission(r) \in Contributions \X Keys
    BY TaskKind DEF Submission, IInv, TypeOK
  <2>2. LeavesUnsure(r)
    BY <1>5, <2>1 DEF Ends, LeavesUnsure, IInv, TypeOK
  <2> QED
    BY <1>1, <1>5, <2>2, IdleIsSound, CarryStep DEF Ends
<1> QED
  BY <1>2, <1>3, <1>4, <1>5

LEMMA LookupStep ==
  ASSUME IInv, NEW r \in Requests,
         NEW answer \in {"Succeeded", "Rejected", "Expired", "Pending", "Unknown"},
         Lookup(r, answer)
  PROVE  IInv'
<1>1. UNCHANGED tables
  BY DEF Lookup, tables
<1>2. PICK old \in Task : old = req[r] /\ old.op = "lookup" /\ Sound(old)
  BY DEF Lookup, IInv, TypeOK
<1>3. old.contribution \in Contributions /\ old.copy \in RecordRow /\ old.copy.hash \in Hashes
  BY <1>2, TaskKind DEF RecordRow
<1>4. SameRecord(old.contribution, old.copy)
  BY <1>2 DEF Sound
<1>5. answer \in {"Succeeded", "Rejected"} => chain[old.copy.hash] = answer
  BY <1>2 DEF Lookup, Answers
<1>6. ASSUME NEW op \in {"settle", "store"}, NEW retry \in BOOLEAN,
             NEW status \in {"Submitted", "RetryScheduled", "Confirmed", "Failed"},
             NEW to \in Statuses \cup {"None"},
             Proceed(r, op, status, retry, to),
             op = "store" => status \notin {"Confirmed", "Failed"},
             op = "settle" => to \in Statuses,
             status = "Confirmed" => to = "Confirmed" /\ answer = "Succeeded",
             status = "Failed" => to = "Failed" /\ answer = "Rejected"
      PROVE  IInv'
  <2> DEFINE copy == [old.copy EXCEPT !.status = status, !.retry = retry]
             task == [op |-> op, contribution |-> old.contribution, copy |-> copy, to |-> to]
  <2>1. /\ copy \in RecordRow /\ copy # None
        /\ copy.key = old.copy.key /\ copy.hash = old.copy.hash /\ copy.status = status
    BY <1>3, NotNone DEF RecordRow
  <2>2. task \in Task
    BY <1>3, <1>6, <2>1 DEF Task
  <2>3. SameRecord(task.contribution, task.copy)' /\ Said(task)'
    BY <1>1, <1>4, <1>5, <1>6, <2>1 DEF SameRecord, Said, tables
  <2>4. op = "store" => Happened(task.contribution, task.copy.status, task.copy.hash)'
    BY <1>6, <2>1 DEF Happened
  <2> HIDE DEF copy
  <2>5. Sound(task)'
    BY <1>6, <2>1, <2>3, <2>4 DEF Sound
  <2>6. req' = [req EXCEPT ![r] = task]
    BY <1>2, <1>6 DEF Proceed, copy
  <2>7. LeavesUnsure(r)
    BY NobodyUnsure DEF Lookup
  <2> QED
    BY <1>1, <2>2, <2>5, <2>6, <2>7, CarryStep DEF CarriesOn
<1>7. CASE answer = "Succeeded"
  BY <1>6, <1>7 DEF Lookup, Statuses
<1>8. CASE answer = "Rejected"
  BY <1>6, <1>8 DEF Lookup, Statuses
<1>9. CASE answer = "Expired"
  BY <1>6, <1>9 DEF Lookup
<1>10. CASE answer \in {"Pending", "Unknown"}
  BY <1>2, <1>3, <1>6, <1>10 DEF Lookup, RecordRow
<1> QED
  BY <1>7, <1>8, <1>9, <1>10

\* A settlement that is in force, and one that is about to be committed.
LEMMA ReadSettlementStep ==
  ASSUME IInv, NEW r \in Requests, ReadSettlement(r)
  PROVE  IInv'
<1>1. UNCHANGED tables
  BY DEF ReadSettlement, tables
<1>2. PICK old \in Task : old = req[r] /\ old.op = "settle" /\ Sound(old)
  BY DEF ReadSettlement, IInv, TypeOK
<1>3. /\ old.contribution \in Contributions
      /\ old.copy \in RecordRow \cup {None}
      /\ old.to \in Statuses \cup {"None"}
  BY <1>2, TaskKind
<1>4. old \in [op : {"settle", "commit", "store"}, contribution : Contributions,
               copy : RecordRow \cup {None}, to : Statuses \cup {"None"}]
  BY <1>2 DEF Task, Idle
<1>5. PICK op \in {"store", "commit"} :
        /\ req' = [req EXCEPT ![r] = [old EXCEPT !.op = op]]
        /\ op = "store" => contribution[old.contribution] = old.to
  BY <1>2 DEF ReadSettlement, IInv, TypeOK
<1> DEFINE task == [old EXCEPT !.op = op]
<1>6. /\ task \in Task
      /\ task.op = op /\ task.contribution = old.contribution
      /\ task.copy = old.copy /\ task.to = old.to
  BY <1>4 DEF Task
<1>7. /\ task.copy # None /\ task.to \in Statuses
      /\ SameRecord(task.contribution, task.copy)'
      /\ Said(task)'
  BY <1>1, <1>2, <1>6 DEF Sound, SameRecord, Said, tables
<1>8. op = "store" => Happened(task.contribution, task.copy.status, task.copy.hash)'
  <2>1. op = "store" => old.to \in was[old.contribution]
    BY <1>3, <1>5 DEF IInv, HistorySound
  <2> QED
    BY <1>1, <1>6, <1>7, <2>1 DEF Said, Happened, tables
<1> HIDE DEF task
<1>9. Sound(task)'
  BY <1>6, <1>7, <1>8 DEF Sound
<1>10. LeavesUnsure(r)
  BY NobodyUnsure DEF ReadSettlement
<1> QED
  BY <1>1, <1>5, <1>6, <1>9, <1>10, CarryStep DEF CarriesOn, task

-----------------------------------------------------------------------------
(* Actions that send or store.                                             *)

LEMMA BroadcastGrows ==
  ASSUME IInv, NEW c \in Contributions, NEW k \in Keys, Broadcast(c, k),
         UNCHANGED <<contribution, record, reference, attached, wallet, was>>,
         unsure \subseteq unsure'
  PROVE  /\ Grows
         /\ chain' \in [Hashes -> Outcomes]
         /\ sent' \subseteq Contributions \X Keys \X Hashes
         /\ sent' = sent \cup {<<c, k, TxHash(k)>>}
         /\ (RecordsSound /\ ReferencesSound /\ HistorySound)'
<1>1. TxHash(k) \in Hashes /\ Identifier[k] \in Hashes
  BY DEF TxHash, Hashes
<1>2. sent' = sent \cup {<<c, k, TxHash(k)>>}
  BY DEF Broadcast
<1>3. sent' \subseteq Contributions \X Keys \X Hashes
  BY <1>1, <1>2 DEF IInv, TypeOK
<1>4. /\ chain' \in [Hashes -> Outcomes]
      /\ \A h \in Hashes : chain[h] \in {"Succeeded", "Rejected"} => chain'[h] = chain[h]
  BY <1>1 DEF Broadcast, IInv, TypeOK, Outcomes
<1>5. Grows
  BY <1>2, <1>4 DEF Grows
<1>6. RecordsSound'
  <2>1. ASSUME NEW e \in Contributions, record[e] # None
        PROVE  record[e].hash \in Hashes
    BY <2>1 DEF IInv, TypeOK, RecordRow
  <2> QED
    BY <1>2, <1>4, <2>1 DEF IInv, RecordsSound, Happened
<1>7. ReferencesSound' /\ HistorySound'
  BY DEF IInv, ReferencesSound, HistorySound, Names
<1> QED
  BY <1>2, <1>3, <1>4, <1>5, <1>6, <1>7

LEMMA SendStep ==
  ASSUME IInv, NEW r \in Requests, Send(r)
  PROVE  IInv'
<1>1. PICK old \in Task : old = req[r] /\ old.op = "send"
  BY DEF Send, IInv, TypeOK
<1>2. old.contribution \in Contributions /\ old.key \in Keys
  BY <1>1, TaskKind
<1> DEFINE task == [op |-> "record", contribution |-> old.contribution,
                    key |-> old.key, hash |-> TxHash(old.key)]
<1>3. /\ Broadcast(old.contribution, old.key)
      /\ req' = [req EXCEPT ![r] = task]
      /\ UNCHANGED <<contribution, record, reference, attached, wallet, was, unsure>>
  BY <1>1 DEF Send
<1>4. task \in Task
  BY <1>2 DEF Task, TxHash, Hashes
<1>5. Sound(task)'
  BY <1>2, <1>3, BroadcastGrows DEF Sound
<1>6. CarriesOn(r)
  BY <1>3, <1>4, <1>5 DEF CarriesOn
<1>7. req' \in [Requests -> Task] /\ TasksSound'
  BY <1>2, <1>3, <1>6, BroadcastGrows, TasksStep
<1>8. TypeOK'
  BY <1>2, <1>3, <1>7, BroadcastGrows DEF IInv, TypeOK
<1>9. SentIsKnown'
  <2>1. req'[r] = task
    BY <1>3 DEF IInv, TypeOK
  <2>2. Known(<<old.contribution, old.key, TxHash(old.key)>>)'
    BY <2>1 DEF Known, CarriedBy
  <2>3. \A s \in sent' : s \notin sent \/ CarriedBy(r, s) => Known(s)'
    BY <1>1, <1>2, <1>3, <2>2, BroadcastGrows DEF CarriedBy
  <2> QED
    BY <1>2, <1>3, <2>3, BroadcastGrows, KnownStep
<1> QED
  BY <1>2, <1>3, <1>7, <1>8, <1>9, BroadcastGrows DEF IInv, TasksSound

\* An error after which the transaction may have arrived is answered Unavailable.
LEMMA AmbiguousIsNotDefinite ==
  ASSUME NEW error \in ProviderErrors
  PROVE  /\ FacadeError(GatewayCode(error)) \in Answer
         /\ error \in Ambiguous => FacadeError(GatewayCode(error)) \notin Definite
<1>1. CASE error \in Ambiguous
  <2>1. GatewayCode(error) \in {"Timeout", "Unavailable", "Internal"}
    BY <1>1 DEF Ambiguous, GatewayCode
  <2>2. FacadeError(GatewayCode(error)) = "Unavailable"
    BY <2>1 DEF FacadeError
  <2> QED
    BY <2>2 DEF Answer, Definite
<1>2. CASE error \notin Ambiguous
  BY <1>2 DEF FacadeError, Answer
<1> QED
  BY <1>1, <1>2

LEMMA SendFailsStep ==
  ASSUME IInv, NEW r \in Requests, NEW error \in ProviderErrors, SendFails(r, error)
  PROVE  IInv'
<1>1. PICK old \in Task : old = req[r] /\ old.op = "send"
  BY DEF SendFails, IInv, TypeOK
<1>2. old.contribution \in Contributions /\ old.key \in Keys
  BY <1>1, TaskKind
<1>3. PICK reached \in BOOLEAN :
        /\ Tell(r, FacadeError(GatewayCode(error)), reached)
        /\ reached => error \in Ambiguous /\ Broadcast(old.contribution, old.key)
        /\ ~reached => UNCHANGED <<chain, sent>>
        /\ UNCHANGED <<contribution, record, reference, attached, wallet, was>>
  BY <1>1 DEF SendFails
<1>4. Submission(r) = <<old.contribution, old.key>>
  BY <1>1 DEF Submission
<1>5. LeavesUnsure(r) /\ (reached => Submission(r) \in unsure')
  BY <1>1, <1>2, <1>3, <1>4, AmbiguousIsNotDefinite DEF Tell, LeavesUnsure, IInv, TypeOK
<1> DEFINE task == [op |-> "answer", answer |-> FacadeError(GatewayCode(error)),
                    reached |-> reached]
<1>6. task \in Task /\ Sound(task)'
  BY <1>3, AmbiguousIsNotDefinite DEF Task, Sound
<1>7. CarriesOn(r)
  BY <1>3, <1>6 DEF CarriesOn, Tell
<1>8. CASE reached
  <2>1. /\ Grows
        /\ chain' \in [Hashes -> Outcomes]
        /\ sent' \subseteq Contributions \X Keys \X Hashes
        /\ sent' = sent \cup {<<old.contribution, old.key, TxHash(old.key)>>}
        /\ (RecordsSound /\ ReferencesSound /\ HistorySound)'
    BY <1>2, <1>3, <1>5, <1>8, BroadcastGrows DEF LeavesUnsure
  <2>2. req' \in [Requests -> Task] /\ TasksSound'
    BY <1>7, <2>1, TasksStep
  <2>3. TypeOK'
    BY <1>3, <1>5, <2>1, <2>2 DEF IInv, TypeOK, LeavesUnsure
  <2>4. Known(<<old.contribution, old.key, TxHash(old.key)>>)'
    BY <1>4, <1>5, <1>8 DEF Known
  <2>5. \A s \in sent' : s \notin sent \/ CarriedBy(r, s) => Known(s)'
    BY <1>1, <2>1, <2>4 DEF CarriedBy
  <2>6. SentIsKnown'
    BY <1>7, <2>1, <2>5, KnownStep DEF CarriesOn
  <2> QED
    BY <2>1, <2>2, <2>3, <2>6 DEF IInv, TasksSound
<1>9. CASE ~reached
  BY <1>3, <1>5, <1>7, <1>9, CarryStep DEF tables
<1> QED
  BY <1>8, <1>9

LEMMA StoreRecordStep ==
  ASSUME IInv, NEW r \in Requests, StoreRecord(r)
  PROVE  IInv'
<1>1. PICK old \in Task : old = req[r] /\ old.op = "record" /\ Sound(old)
  BY DEF StoreRecord, IInv, TypeOK
<1>2. old.contribution \in Contributions /\ old.key \in Keys /\ old.hash \in Hashes
  BY <1>1, TaskKind
<1> DEFINE c == old.contribution
           row == [key |-> old.key, hash |-> old.hash, status |-> "Submitted", retry |-> FALSE]
           task == [op |-> "attach", entity |-> c, value |-> old.hash]
<1>3. row \in RecordRow /\ row # None /\ task \in Task
  BY <1>2, NotNone DEF RecordRow, Task, Entities, Values
<1>4. /\ record[c] = None
      /\ record' = [record EXCEPT ![c] = row]
      /\ req' = [req EXCEPT ![r] = task]
      /\ UNCHANGED <<contribution, reference, attached, wallet, chain, sent, was, unsure>>
  BY <1>1 DEF StoreRecord, Refused
<1>5. record' \in [Contributions -> RecordRow \cup {None}] /\ record'[c] = row
  BY <1>2, <1>3, <1>4 DEF IInv, TypeOK
<1>6. \A e \in Contributions \ {c} : record'[e] = record[e]
  BY <1>4 DEF IInv, TypeOK
<1>7. Grows
  BY <1>2, <1>4, <1>6 DEF Grows
<1>8. Sound(task)'
  BY <1>2, <1>3, <1>5 DEF Sound, Names
<1>9. CarriesOn(r)
  BY <1>3, <1>4, <1>8 DEF CarriesOn
<1>10. req' \in [Requests -> Task] /\ TasksSound'
  BY <1>7, <1>9, TasksStep
<1>11. TypeOK'
  BY <1>4, <1>5, <1>10 DEF IInv, TypeOK
<1>12. RecordsSound'
  <2>1. <<c, old.key, old.hash>> \in sent
    BY <1>1 DEF Sound
  <2>2. ASSUME NEW e \in Contributions, record'[e] # None
        PROVE  /\ <<e, record'[e].key, record'[e].hash>> \in sent'
               /\ Happened(e, record[e].status, record[e].hash)'
    <3>1. CASE e = c
      BY <1>4, <1>5, <2>1, <3>1 DEF Happened
    <3>2. CASE e # c
      BY <1>4, <1>6, <2>2, <3>2 DEF IInv, RecordsSound, Happened
    <3> QED
      BY <3>1, <3>2
  <2> QED
    BY <2>2 DEF RecordsSound
<1>13. ReferencesSound'
  BY <1>4, <1>6, <1>7 DEF IInv, ReferencesSound, Names, Grows
<1>14. HistorySound'
  BY <1>4 DEF IInv, HistorySound
<1>15. SentIsKnown'
  <2>1. Known(<<c, old.key, old.hash>>)'
    BY <1>3, <1>5 DEF Known, Recorded
  <2>2. \A s \in sent' : s \in sent /\ (CarriedBy(r, s) => Known(s)')
    BY <1>1, <1>4, <2>1 DEF CarriedBy
  <2> QED
    BY <1>4, <1>7, <2>2, KnownStep
<1> QED
  BY <1>10, <1>11, <1>12, <1>13, <1>14, <1>15 DEF IInv, TasksSound

LEMMA UpdateRecordStep ==
  ASSUME IInv, NEW r \in Requests, UpdateRecord(r)
  PROVE  IInv'
<1>1. PICK old \in Task : old = req[r] /\ old.op = "store" /\ Sound(old)
  BY DEF UpdateRecord, IInv, TypeOK
<1> DEFINE c == old.contribution
           row == old.copy
<1>2. c \in Contributions /\ row \in RecordRow /\ row # None
  BY <1>1, TaskKind DEF Sound
<1>3. SameRecord(c, row) /\ Happened(c, row.status, row.hash)
  BY <1>1, <1>2 DEF Sound
<1>4. /\ record' = [record EXCEPT ![c] = row]
      /\ req' = [req EXCEPT ![r] = Idle]
      /\ UNCHANGED <<contribution, reference, attached, wallet, chain, sent, was, unsure>>
  BY <1>1 DEF UpdateRecord
<1>5. record' \in [Contributions -> RecordRow \cup {None}] /\ record'[c] = row
  BY <1>2, <1>4 DEF IInv, TypeOK
<1>6. \A e \in Contributions \ {c} : record'[e] = record[e]
  BY <1>4 DEF IInv, TypeOK
<1>7. Grows
  BY <1>2, <1>3, <1>4, <1>5, <1>6 DEF Grows, SameRecord
<1>8. req' \in [Requests -> Task] /\ TasksSound'
  BY <1>4, <1>7, IdleIsSound, TasksStep
<1>9. TypeOK'
  BY <1>4, <1>5, <1>8 DEF IInv, TypeOK
<1>10. RecordsSound'
  <2>1. ASSUME NEW e \in Contributions, record'[e] # None
        PROVE  /\ <<e, record'[e].key, record'[e].hash>> \in sent'
               /\ Happened(e, record[e].status, record[e].hash)'
    <3>1. CASE e = c
      BY <1>3, <1>4, <1>5, <3>1 DEF IInv, RecordsSound, SameRecord, Happened
    <3>2. CASE e # c
      BY <1>4, <1>6, <2>1, <3>2 DEF IInv, RecordsSound, Happened
    <3> QED
      BY <3>1, <3>2
  <2> QED
    BY <2>1 DEF RecordsSound
<1>11. ReferencesSound'
  BY <1>4, <1>7 DEF IInv, ReferencesSound, Names, Grows
<1>12. HistorySound' /\ SentIsKnown'
  BY <1>1, <1>4, <1>7, IdleIsSound, KnownStays DEF IInv, HistorySound
<1> QED
  BY <1>8, <1>9, <1>10, <1>11, <1>12 DEF IInv, TasksSound

LEMMA AttachReferenceStep ==
  ASSUME IInv, NEW r \in Requests, AttachReference(r)
  PROVE  IInv'
<1>1. PICK old \in Task : old = req[r] /\ old.op = "attach" /\ Sound(old)
  BY DEF AttachReference, IInv, TypeOK
<1>2. old.entity \in Entities /\ old.value \in Values
  BY <1>1, TaskKind
<1>3. old \in [op : {"wallet", "attach", "audit"}, entity : Entities, value : Values]
  BY <1>1 DEF Task, Idle
<1> DEFINE task == [old EXCEPT !.op = "audit"]
<1>4. /\ task \in Task /\ task.op = "audit"
      /\ task.entity = old.entity /\ task.value = old.value
  BY <1>3 DEF Task
<1>5. /\ reference[old.entity] = None
      /\ reference' = [reference EXCEPT ![old.entity] = old.value]
      /\ req' = [req EXCEPT ![r] = task]
      /\ UNCHANGED <<contribution, record, attached, wallet, chain, sent, was, unsure>>
  BY <1>1 DEF AttachReference, Referenced, IInv, TypeOK
<1>6. /\ reference' \in [Entities -> Values \cup {None}]
      /\ reference'[old.entity] = old.value
      /\ \A e \in Entities \ {old.entity} : reference'[e] = reference[e]
  BY <1>2, <1>5 DEF IInv, TypeOK
<1>7. Grows
  BY <1>5, <1>6 DEF Grows
<1>8. Names(old.entity, old.value)
  BY <1>1 DEF Sound
<1> HIDE DEF task
<1>9. Sound(task)'
  BY <1>4, <1>5, <1>6, <1>8 DEF Sound, Names
<1>10. CarriesOn(r)
  BY <1>4, <1>5, <1>9 DEF CarriesOn
<1>11. req' \in [Requests -> Task] /\ TasksSound'
  BY <1>7, <1>10, TasksStep
<1>12. TypeOK'
  BY <1>5, <1>6, <1>11 DEF IInv, TypeOK
<1>13. ReferencesSound'
  <2>1. \A e \in Entities : reference'[e] # None => Names(e, reference[e])'
    BY <1>5, <1>6, <1>8 DEF IInv, ReferencesSound, Names
  <2>2. ASSUME NEW pair \in attached
        PROVE  reference'[pair[1]] = pair[2]
    BY <1>5, <1>6, <2>2, NotNone DEF IInv, TypeOK, ReferencesSound
  <2> QED
    BY <1>5, <2>1, <2>2 DEF ReferencesSound
<1>14. RecordsSound' /\ HistorySound' /\ SentIsKnown'
  BY <1>1, <1>5, <1>7, <1>10, KnownStays DEF IInv, RecordsSound, Happened, HistorySound
<1> QED
  BY <1>11, <1>12, <1>13, <1>14 DEF IInv, TasksSound

LEMMA AuditReferenceStep ==
  ASSUME IInv, NEW r \in Requests, AuditReference(r)
  PROVE  IInv'
<1>1. PICK old \in Task : old = req[r] /\ old.op = "audit" /\ Sound(old)
  BY DEF AuditReference, IInv, TypeOK
<1>2. old.entity \in Entities /\ old.value \in Values /\ reference[old.entity] = old.value
  BY <1>1, TaskKind DEF Sound
<1>3. /\ attached' = attached \cup {<<old.entity, old.value>>}
      /\ req' = [req EXCEPT ![r] = Idle]
      /\ UNCHANGED <<contribution, record, reference, wallet, chain, sent, was, unsure>>
  BY <1>1 DEF AuditReference
<1>4. Grows
  BY <1>3 DEF Grows
<1>5. req' \in [Requests -> Task] /\ TasksSound'
  BY <1>3, <1>4, IdleIsSound, TasksStep
<1>6. TypeOK'
  BY <1>2, <1>3, <1>5 DEF IInv, TypeOK
<1>7. ReferencesSound'
  BY <1>2, <1>3 DEF IInv, ReferencesSound, Names
<1>8. RecordsSound' /\ HistorySound' /\ SentIsKnown'
  BY <1>1, <1>3, <1>4, IdleIsSound, KnownStays DEF IInv, RecordsSound, Happened, HistorySound
<1> QED
  BY <1>5, <1>6, <1>7, <1>8 DEF IInv, TasksSound

LEMMA StoreWalletStep ==
  ASSUME IInv, NEW r \in Requests, StoreWallet(r)
  PROVE  IInv'
<1>1. PICK old \in Task : old = req[r] /\ old.op = "wallet" /\ Sound(old)
  BY DEF StoreWallet, IInv, TypeOK
<1>2. old.entity \in Wallets /\ old.value = old.entity
  BY <1>1 DEF Sound
<1>3. old \in [op : {"wallet", "attach", "audit"}, entity : Entities, value : Values]
  BY <1>1 DEF Task, Idle
<1> DEFINE task == [old EXCEPT !.op = "attach"]
<1>4. /\ task \in Task /\ task.op = "attach"
      /\ task.entity = old.entity /\ task.value = old.value
  BY <1>3 DEF Task
<1>5. /\ wallet' = wallet \cup {old.entity}
      /\ req' = [req EXCEPT ![r] = task]
      /\ UNCHANGED <<contribution, record, reference, attached, chain, sent, was, unsure>>
  BY <1>1 DEF StoreWallet, IInv, TypeOK
<1>6. Grows
  BY <1>5 DEF Grows
<1> HIDE DEF task
<1>7. Sound(task)'
  BY <1>2, <1>4, <1>5 DEF Sound, Names
<1>8. CarriesOn(r)
  BY <1>4, <1>5, <1>7 DEF CarriesOn
<1>9. req' \in [Requests -> Task] /\ TasksSound'
  BY <1>6, <1>8, TasksStep
<1>10. TypeOK'
  BY <1>2, <1>5, <1>9 DEF IInv, TypeOK
<1>11. ReferencesSound'
  BY <1>5 DEF IInv, ReferencesSound, Names
<1>12. RecordsSound' /\ HistorySound' /\ SentIsKnown'
  BY <1>1, <1>5, <1>6, <1>8, KnownStays DEF IInv, RecordsSound, Happened, HistorySound
<1> QED
  BY <1>9, <1>10, <1>11, <1>12 DEF IInv, TasksSound

LEMMA CommitSettlementStep ==
  ASSUME IInv, NEW r \in Requests, CommitSettlement(r)
  PROVE  IInv'
<1>1. PICK old \in Task : old = req[r] /\ old.op = "commit" /\ Sound(old)
  BY DEF CommitSettlement, IInv, TypeOK
<1>2. old \in [op : {"settle", "commit", "store"}, contribution : Contributions,
               copy : RecordRow \cup {None}, to : Statuses \cup {"None"}]
  BY <1>1 DEF Task, Idle
<1> DEFINE c == old.contribution
           task == [old EXCEPT !.op = "store"]
<1>3. /\ contribution' = [contribution EXCEPT ![c] = old.to]
      /\ was' = [was EXCEPT ![c] = @ \cup {old.to}]
      /\ req' = [req EXCEPT ![r] = IF old.copy = None THEN Idle ELSE task]
      /\ UNCHANGED <<record, reference, attached, wallet, chain, sent, unsure>>
  BY <1>1 DEF CommitSettlement
<1>4. /\ task \in Task /\ task.op = "store"
      /\ task.contribution = c /\ task.copy = old.copy /\ task.to = old.to
  BY <1>2 DEF Task
<1>5. c \in Contributions /\ old.to \in Statuses /\ old.to \in was'[c]
  BY <1>1, <1>2, <1>3 DEF IInv, TypeOK, Sound
<1>6. Grows
  BY <1>3 DEF Grows, IInv, TypeOK
<1> HIDE DEF task
<1>7. old.copy # None => Sound(task)'
  BY <1>1, <1>3, <1>4, <1>5 DEF Sound, SameRecord, Said, Happened
<1>8. CarriesOn(r)
  BY <1>3, <1>4, <1>7, IdleIsSound DEF CarriesOn
<1>9. req' \in [Requests -> Task] /\ TasksSound'
  BY <1>6, <1>8, TasksStep
<1>10. TypeOK'
  BY <1>3, <1>5, <1>9 DEF IInv, TypeOK
<1>11. RecordsSound'
  BY <1>3, <1>6 DEF IInv, RecordsSound, Happened, Grows
<1>12. HistorySound'
  BY <1>3, <1>5, <1>6 DEF IInv, TypeOK, HistorySound, Grows
<1>13. ReferencesSound' /\ SentIsKnown'
  BY <1>1, <1>3, <1>6, <1>8, KnownStays DEF IInv, ReferencesSound, Names
<1> QED
  BY <1>9, <1>10, <1>11, <1>12, <1>13 DEF IInv, TasksSound

LEMMA DecideStep ==
  ASSUME IInv, NEW h \in DOMAIN chain, NEW outcome \in {"Succeeded", "Rejected", "Expired"},
         Decide(h, outcome)
  PROVE  IInv'
<1>1. /\ chain[h] = "Pending"
      /\ chain' = [chain EXCEPT ![h] = outcome]
      /\ UNCHANGED <<contribution, record, reference, attached, wallet, req, sent, was,
                    unsure>>
  BY DEF Decide
<1>2. /\ chain' \in [Hashes -> Outcomes]
      /\ \A g \in Hashes : chain[g] \in {"Succeeded", "Rejected"} => chain'[g] = chain[g]
  BY <1>1 DEF IInv, TypeOK, Outcomes
<1>3. Grows
  BY <1>1, <1>2 DEF Grows
<1>4. TypeOK'
  BY <1>1, <1>2 DEF IInv, TypeOK
<1>5. ASSUME NEW s \in Requests
      PROVE  Sound(req[s])'
  <2>1. PICK task \in Task : task = req[s]
    BY DEF IInv, TypeOK
  <2>2. Sound(task)
    BY <2>1 DEF IInv
  <2>3. Sound(task)'
    BY <1>3, <2>2, Stable DEF IInv
  <2> QED
    BY <1>1, <2>1, <2>3 DEF Sound, Names, SameRecord, Said, Happened
<1>6. RecordsSound'
  <2>1. ASSUME NEW c \in Contributions, record[c] # None
        PROVE  record[c].hash \in Hashes
    BY <2>1 DEF IInv, TypeOK, RecordRow
  <2> QED
    BY <1>1, <1>2, <2>1 DEF IInv, RecordsSound, Happened
<1>7. ReferencesSound' /\ HistorySound' /\ SentIsKnown'
  BY <1>1 DEF IInv, ReferencesSound, Names, HistorySound, SentIsKnown
<1> QED
  BY <1>4, <1>5, <1>6, <1>7 DEF IInv

-----------------------------------------------------------------------------
LEMMA InvInit == Init => IInv
<1> SUFFICES ASSUME Init PROVE IInv
  OBVIOUS
<1>1. TypeOK
  BY DEF Init, TypeOK, Statuses, Entities, Hashes, Outcomes, Task
<1>2. \A r \in Requests : Sound(req[r])
  BY DEF Init, Sound, Idle
<1>3. RecordsSound /\ ReferencesSound /\ HistorySound
  BY DEF Init, RecordsSound, ReferencesSound, HistorySound, Entities
<1>4. SentIsKnown
  BY DEF Init, SentIsKnown
<1> QED
  BY <1>1, <1>2, <1>3, <1>4 DEF IInv

LEMMA InvStep == IInv /\ [Next]_vars => IInv'
<1> SUFFICES ASSUME IInv, [Next]_vars PROVE IInv'
  OBVIOUS
<1>1. CASE UNCHANGED vars
  <2>1. UNCHANGED tables /\ req' = req /\ unsure' = unsure
    BY <1>1 DEF vars, tables
  <2>2. TypeOK' /\ \A r \in Requests : Sound(req[r])'
    BY <2>1 DEF tables, IInv, TypeOK, Sound, Names, SameRecord, Said, Happened
  <2>3. SentIsKnown'
    BY <2>1 DEF tables, IInv, SentIsKnown
  <2> QED
    BY <2>1, <2>2, <2>3, TablesUnchanged DEF IInv
<1>2. ASSUME NEW h \in DOMAIN chain, NEW outcome \in {"Succeeded", "Rejected", "Expired"},
             Decide(h, outcome)
      PROVE  IInv'
  BY <1>2, DecideStep
<1>3. ASSUME NEW r \in Requests,
             \/ \E c \in Contributions, k \in Keys : BeginSubmit(r, c, k)
             \/ RecordConflict(r)
             \/ \E w \in Wallets : Provision(r, w)
      PROVE  IInv'
  BY <1>3, SubmitSteps
<1>4. ASSUME NEW r \in Requests,
             \/ \E c \in Contributions : BeginReconcile(r, c)
             \/ SettlementRefused(r)
             \/ \E c \in Contributions, target \in Targets : BeginAdmin(r, c, target)
             \/ Ends(r)
      PROVE  IInv'
  BY <1>4, ReconcileSteps
<1>5. ASSUME NEW r \in Requests, Send(r) \/ StoreRecord(r) \/ UpdateRecord(r)
      PROVE  IInv'
  BY <1>5, SendStep, StoreRecordStep, UpdateRecordStep
<1>6. ASSUME NEW r \in Requests, NEW error \in ProviderErrors, SendFails(r, error)
      PROVE  IInv'
  BY <1>6, SendFailsStep
<1>7. ASSUME NEW r \in Requests, AttachReference(r) \/ AuditReference(r) \/ StoreWallet(r)
      PROVE  IInv'
  BY <1>7, AttachReferenceStep, AuditReferenceStep, StoreWalletStep
<1>8. ASSUME NEW r \in Requests,
             NEW answer \in {"Succeeded", "Rejected", "Expired", "Pending", "Unknown"},
             Lookup(r, answer)
      PROVE  IInv'
  BY <1>8, LookupStep
<1>9. ASSUME NEW r \in Requests, ReadSettlement(r) \/ CommitSettlement(r)
      PROVE  IInv'
  BY <1>9, ReadSettlementStep, CommitSettlementStep
<1> QED
  BY <1>1, <1>2, <1>3, <1>4, <1>5, <1>6, <1>7, <1>8, <1>9 DEF Next

LEMMA Invariant == Spec => []IInv
BY InvInit, InvStep, PTL DEF Spec

-----------------------------------------------------------------------------
\* Records never contradict the network or the contribution, however many
\* reconciliations and settlements overlap (reconcile_contribution_transaction).
THEOREM RecordsFollowTheNetwork == Spec => []SettledAsTheNetworkSays
<1>1. IInv => SettledAsTheNetworkSays
  BY DEF IInv, RecordsSound, Happened, SettledAsTheNetworkSays, Records
<1> QED
  BY <1>1, Invariant, PTL

\* External references name rows that exist, wherever the statements that store
\* them stop (store_tx_hash_reference, provision_user_wallet).
THEOREM ReferencesAreNamed == Spec => []ReferencesNameRows
<1>1. ASSUME IInv
      PROVE  ReferencesNameRows
  <2>1. Contributions \cap Wallets = {} /\ wallet \subseteq Wallets
    BY <1>1, OnchainAssumption DEF IInv, TypeOK
  <2>2. ASSUME NEW e \in Entities, Referenced(e)
        PROVE  Names(e, reference[e])
    BY <1>1, <2>2 DEF IInv, ReferencesSound, Referenced
  <2>3. ASSUME NEW c \in Contributions, Referenced(c)
        PROVE  /\ record[c] # None /\ reference[c] = record[c].hash
               /\ <<c, record[c].key, record[c].hash>> \in sent
    BY <1>1, <2>1, <2>2, <2>3 DEF Entities, Names, IInv, RecordsSound
  <2>4. ASSUME NEW w \in Wallets, Referenced(w)
        PROVE  w \in wallet /\ reference[w] = w
    BY <2>1, <2>2, <2>4 DEF Entities, Names
  <2> QED
    BY <1>1, <2>3, <2>4 DEF IInv, ReferencesSound, ReferencesNameRows
<1> QED
  BY <1>1, Invariant, PTL

\* An answer that denies the submission is true for every provider error and
\* every interleaving (the two mappings of errors).
THEOREM DenialsAreTrue == Spec => []DefiniteAnswers
<1>1. IInv => DefiniteAnswers
  BY DEF IInv, Sound, DefiniteAnswers
<1> QED
  BY <1>1, Invariant, PTL

\* Nothing is on the network that neither a record, nor a task about to store one,
\* nor a client left unsure knows of: for any number of keys, tasks and losses, and
\* for keys that share a hash (submit_contribution_onchain sends before it stores).
THEOREM SendsAreKnown == Spec => []SentIsKnown
<1>1. IInv => SentIsKnown
  BY DEF IInv
<1> QED
  BY <1>1, Invariant, PTL
=============================================================================
