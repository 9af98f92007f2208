------------------------ MODULE OnchainContributions -------------------------
(***************************************************************************)
(* Contributions paid through the Stellar network.                         *)
(*                                                                         *)
(* submit_contribution_onchain looks for a record under the client's key,  *)
(* sends the transaction to the network, and only then inserts the record, *)
(* the external reference and its audit row, each by a statement of its    *)
(* own.  reconcile_contribution_transaction reads the record, asks the     *)
(* network what became of the transaction, settles the contribution        *)
(* accordingly and overwrites the record it read.  provision_user_wallet   *)
(* inserts a wallet, its reference and its audit row in the same style.    *)
(* Nothing here runs in a transaction except the settlement: a task may be *)
(* lost between any two steps, and what was sent cannot be taken back.     *)
(*                                                                         *)
(* The network is the environment: it includes a transaction or refuses    *)
(* it, whenever it likes, and answers lookups.  No route calls these use   *)
(* cases, so nothing makes a reconciliation happen.                        *)
(***************************************************************************)
EXTENDS Naturals, FiniteSets

CONSTANTS
  Contributions,  \* rows of contributions
  ContractRef,    \* the SorobanContractId reference of a contribution's vault
  LegacyRef,      \* savings_vaults.external_contract_ref of the same vault
  Keys,           \* idempotency keys clients choose
  Identifier,     \* what sanitize_identifier leaves of a key
  Wallets,        \* fresh wallet ids; bounds the rows of a run
  Requests,       \* tasks that may be in flight at once
  None

ASSUME OnchainAssumption ==
  /\ Contributions \cap Wallets = {}
  /\ None \notin Wallets
  /\ \A k \in Keys : Identifier[k] # None
  /\ None \notin [key : Keys, hash : {Identifier[k] : k \in Keys}, retry : BOOLEAN,
                   status : {"Submitted", "RetryScheduled", "Confirmed", "Failed"}]

VARIABLES
  contribution,  \* status of every contributions row
  record,        \* blockchain_transaction_records, by the contribution they are of
  reference,     \* external_references: transaction hashes and account ids
  attached,      \* blockchain.reference_attached rows of audit_logs
  wallet,        \* wallet_accounts
  chain,         \* what the network knows of a transaction hash
  req,           \* what each task carries from step to step
  sent,          \* history: the keys and hashes a contribution was sent under
  was,           \* history: the statuses a contribution has had
  unsure         \* history: the contributions and keys whose submission was lost,
                 \* or answered neither with a record nor with a refusal

vars == <<contribution, record, reference, attached, wallet, chain, req, sent, was, unsure>>

-----------------------------------------------------------------------------
(* The settlement rules, as in Contributions.                              *)

LegalMoves ==
  {<<"Pending", "Confirmed">>, <<"Pending", "Failed">>, <<"Confirmed", "Reversed">>}

Targets == {"Confirmed", "Failed", "Reversed"}

(* The gateway.                                                            *)

\* submit_transaction: the hash is made from the operation id, which is the
\* idempotency key, so sending again under the key sends the same transaction.
TxHash(k) == Identifier[k]

\* map_stellar_provider_error: what the gateway reports for a provider's error.
GatewayCode(error) ==
  CASE error = "BadRequest"                                 -> "Validation"
    [] error = "Unauthorized"                               -> "Unauthorized"
    [] error \in {"AccountMissing", "ContractMissing"}      -> "NotFound"
    [] error = "DuplicateTransaction"                       -> "Conflict"
    [] error = "SimulationFailed"                           -> "SubmissionRejected"
    [] error \in {"InsufficientFunds", "Timeout", "RateLimited"} -> error
    [] error = "RpcUnavailable"                             -> "Unavailable"
    [] error = "Unknown"                                    -> "Internal"

ProviderErrors ==
  {"BadRequest", "Unauthorized", "AccountMissing", "ContractMissing",
   "DuplicateTransaction", "SimulationFailed", "InsufficientFunds", "Timeout",
   "RateLimited", "RpcUnavailable", "Unknown"}

\* The provider errors after which the transaction may be on the network.
Ambiguous == {"Timeout", "RpcUnavailable", "Unknown"}

\* A mistake the runs must notice: a time-out counts as a refusal.
FacadeErrorTimeoutRejected(code) ==
  CASE code = "Unauthorized" -> "Forbidden"
    [] code \in {"Validation", "NotFound", "Conflict"} -> code
    [] code \in {"SubmissionRejected", "InsufficientFunds", "SignatureRequired",
                 "Timeout"} -> "Rejected"
    [] OTHER -> "Unavailable"

\* From<BlockchainError> for BlockchainFacadeError.
FacadeError(code) ==
  CASE code = "Unauthorized" -> "Forbidden"
    [] code \in {"Validation", "NotFound", "Conflict"} -> code
    [] code \in {"SubmissionRejected", "InsufficientFunds", "SignatureRequired"} -> "Rejected"
    [] OTHER -> "Unavailable"

\* What a client may take as: this attempt did not reach the network.
Definite == {"Validation", "Forbidden", "NotFound", "Rejected"}

\* find_contract_reference: the reference row, else the old column of the vault.
Contract(c) == IF ContractRef[c] # None THEN ContractRef[c] ELSE LegacyRef[c]

-----------------------------------------------------------------------------
(* The tables.                                                             *)

Idle == [op |-> "idle"]

Records == {c \in Contributions : record[c] # None}

\* find_by_idempotency_key
WithKey(k) == {c \in Records : record[c].key = k}

\* The UNIQUE constraints of blockchain_transaction_records: one record per
\* idempotency key, and one per contribution (operation_kind is a constant).
Refused(c, k) == record[c] # None \/ WithKey(k) # {}

\* The UNIQUE constraint of external_references: one row per entity and kind.
Referenced(e) == reference[e] # None

Submission(r) == <<req[r].contribution, req[r].key>>

\* The client of a submission is given an error.
Tell(r, answer, reached) ==
  /\ req' = [req EXCEPT ![r] = [op |-> "answer", answer |-> answer, reached |-> reached]]
  /\ unsure' = IF answer \in Definite THEN unsure ELSE unsure \cup {Submission(r)}

-----------------------------------------------------------------------------
Init ==
  /\ contribution = [c \in Contributions |-> "Pending"]
  /\ record = [c \in Contributions |-> None]
  /\ reference = [e \in Contributions \cup Wallets |-> None]
  /\ attached = {}
  /\ wallet = {}
  /\ chain = [h \in {Identifier[k] : k \in Keys} |-> "Absent"]
  /\ req = [r \in Requests |-> Idle]
  /\ sent = {}
  /\ was = [c \in Contributions |-> {"Pending"}]
  /\ unsure = {}

(* submit_contribution_onchain.  Neither the status of the contribution    *)
(* nor the caller is looked at.  A known key answers its record, whatever  *)
(* contribution it is of, and changes nothing; the record of the           *)
(* contribution itself is not looked for.                                  *)

BeginSubmit(r, c, k) ==
  /\ req[r] = Idle
  /\ Contract(c) # None
  /\ WithKey(k) = {}
  /\ req' = [req EXCEPT ![r] = [op |-> "send", contribution |-> c, key |-> k]]
  /\ UNCHANGED <<contribution, record, reference, attached, wallet, chain, sent, was, unsure>>

Broadcast(c, k) ==
  /\ sent' = sent \cup {<<c, k, TxHash(k)>>}
  /\ chain' = IF chain[Identifier[k]] = "Absent"
              THEN [chain EXCEPT ![Identifier[k]] = "Pending"] ELSE chain

\* submit_transaction succeeds.
Send(r) ==
  LET task == req[r] IN
  /\ task.op = "send"
  /\ Broadcast(task.contribution, task.key)
  /\ req' = [req EXCEPT ![r] = [op |-> "record", contribution |-> task.contribution,
                                key |-> task.key, hash |-> TxHash(task.key)]]
  /\ UNCHANGED <<contribution, record, reference, attached, wallet, was, unsure>>

\* submit_transaction fails; after some errors the transaction may have arrived.
SendFails(r, error) ==
  LET task == req[r] IN
  /\ task.op = "send"
  /\ \/ UNCHANGED <<chain, sent>> /\ Tell(r, FacadeError(GatewayCode(error)), FALSE)
     \/ /\ error \in Ambiguous
        /\ Broadcast(task.contribution, task.key)
        /\ Tell(r, FacadeError(GatewayCode(error)), TRUE)
  /\ UNCHANGED <<contribution, record, reference, attached, wallet, was>>

\* tx_repo.create
StoreRecord(r) ==
  LET task == req[r] IN
  /\ task.op = "record"
  /\ ~Refused(task.contribution, task.key)
  /\ record' = [record EXCEPT ![task.contribution] =
       [key |-> task.key, hash |-> task.hash, status |-> "Submitted", retry |-> FALSE]]
  /\ req' = [req EXCEPT ![r] =
       [op |-> "attach", entity |-> task.contribution, value |-> task.hash]]
  /\ UNCHANGED <<contribution, reference, attached, wallet, chain, sent, was, unsure>>

\* A mistake the runs must notice: a conflict is taken for a repeated request and
\* answered with the record that is there.
RecordConflictAnswered(r) ==
  /\ req[r].op = "record"
  /\ Refused(req[r].contribution, req[r].key)
  /\ req' = [req EXCEPT ![r] = Idle]
  /\ UNCHANGED <<contribution, record, reference, attached, wallet, chain, sent, was, unsure>>

RecordConflict(r) ==
  LET task == req[r] IN
  /\ task.op = "record"
  /\ Refused(task.contribution, task.key)
  /\ Tell(r, "Conflict", TRUE)
  /\ UNCHANGED <<contribution, record, reference, attached, wallet, chain, sent, was>>

(* store_tx_hash_reference, and the last steps of provision_user_wallet.   *)

AttachReference(r) ==
  LET task == req[r] IN
  /\ task.op = "attach"
  /\ ~Referenced(task.entity)
  /\ reference' = [reference EXCEPT ![task.entity] = task.value]
  /\ req' = [req EXCEPT ![r].op = "audit"]
  /\ UNCHANGED <<contribution, record, attached, wallet, chain, sent, was, unsure>>

AuditReference(r) ==
  LET task == req[r] IN
  /\ task.op = "audit"
  /\ attached' = attached \cup {<<task.entity, task.value>>}
  /\ req' = [req EXCEPT ![r] = Idle]
  /\ UNCHANGED <<contribution, record, reference, wallet, chain, sent, was, unsure>>

(* provision_user_wallet: the account id is made from the fresh wallet id. *)

Provision(r, w) ==
  /\ req[r] = Idle
  /\ w \notin wallet
  /\ \A s \in Requests : req[s].op \in {"wallet", "attach"} => req[s].entity # w
  /\ req' = [req EXCEPT ![r] = [op |-> "wallet", entity |-> w, value |-> w]]
  /\ UNCHANGED <<contribution, record, reference, attached, wallet, chain, sent, was, unsure>>

\* A mistake the runs must notice: the reference is stored before the wallet.
StoreWalletLast(r) ==
  LET task == req[r] IN
  /\ task.op = "wallet"
  /\ reference' = [reference EXCEPT ![task.entity] = task.value]
  /\ req' = [req EXCEPT ![r].op = "audit"]
  /\ UNCHANGED <<contribution, record, wallet, attached, chain, sent, was, unsure>>

StoreWallet(r) ==
  LET task == req[r] IN
  /\ task.op = "wallet"
  /\ wallet' = wallet \cup {task.entity}
  /\ req' = [req EXCEPT ![r].op = "attach"]
  /\ UNCHANGED <<contribution, record, reference, attached, chain, sent, was, unsure>>

-----------------------------------------------------------------------------
(* reconcile_contribution_transaction.                                     *)

BeginReconcile(r, c) ==
  /\ req[r] = Idle
  /\ record[c] # None
  /\ req' = [req EXCEPT ![r] = [op |-> "lookup", contribution |-> c, copy |-> record[c]]]
  /\ UNCHANGED <<contribution, record, reference, attached, wallet, chain, sent, was, unsure>>

\* What lookup_transaction_status may answer: what the network knows of the
\* hash, or Unknown at any time.  Failed comes with a retryable flag.
Answers(h) == {chain[h], "Unknown"} \ {"Absent"}

Proceed(r, op, status, retry, to) ==
  req' = [req EXCEPT ![r] =
    [op |-> op, contribution |-> req[r].contribution,
     copy |-> [req[r].copy EXCEPT !.status = status, !.retry = retry], to |-> to]]

\* The record the task read, with the status the answer calls for; a final
\* answer settles the contribution first.
Lookup(r, answer) ==
  LET task == req[r] IN
  /\ task.op = "lookup"
  /\ answer \in Answers(task.copy.hash)
  /\ \/ answer = "Succeeded" /\ Proceed(r, "settle", "Confirmed", FALSE, "Confirmed")
     \/ answer = "Rejected" /\ Proceed(r, "settle", "Failed", FALSE, "Failed")
     \/ answer = "Expired" /\ Proceed(r, "store", "RetryScheduled", TRUE, "None")
     \/ answer \in {"Pending", "Unknown"}
        /\ Proceed(r, "store", "Submitted", task.copy.retry, "None")
  /\ UNCHANGED <<contribution, record, reference, attached, wallet, chain, sent, was, unsure>>

\* A mistake the runs must notice: the record is stored although the settlement
\* was refused.
SettleIgnoringRefusal(r) ==
  /\ req[r].op = "settle"
  /\ <<contribution[req[r].contribution], req[r].to>> \notin LegalMoves
  /\ req' = [req EXCEPT ![r].op = "store"]
  /\ UNCHANGED <<contribution, record, reference, attached, wallet, chain, sent, was, unsure>>

\* settle_contribution up to its transaction: a row that has the target status
\* already is answered as it is, and a move the rules refuse is an error.
ReadSettlement(r) ==
  LET task == req[r]
      status == contribution[task.contribution]
  IN
  /\ task.op = "settle"
  /\ \/ status = task.to /\ req' = [req EXCEPT ![r].op = "store"]
     \/ <<status, task.to>> \in LegalMoves /\ req' = [req EXCEPT ![r].op = "commit"]
  /\ UNCHANGED <<contribution, record, reference, attached, wallet, chain, sent, was, unsure>>

SettlementRefused(r) ==
  LET task == req[r]
      status == contribution[task.contribution]
  IN
  /\ task.op = "settle"
  /\ status # task.to
  /\ <<status, task.to>> \notin LegalMoves
  /\ req' = [req EXCEPT ![r] = Idle]
  /\ UNCHANGED <<contribution, record, reference, attached, wallet, chain, sent, was, unsure>>

\* An admin settles the same contribution through its own route.
BeginAdmin(r, c, target) ==
  /\ req[r] = Idle
  /\ <<contribution[c], target>> \in LegalMoves
  /\ req' = [req EXCEPT ![r] = [op |-> "commit", contribution |-> c, copy |-> None,
                                to |-> target]]
  /\ UNCHANGED <<contribution, record, reference, attached, wallet, chain, sent, was, unsure>>

\* settle_with_audit (its money is the subject of Contributions): the locked
\* status is compared with the target only, and an equal one is a success too.
CommitSettlement(r) ==
  LET task == req[r] IN
  /\ task.op = "commit"
  /\ contribution' = [contribution EXCEPT ![task.contribution] = task.to]
  /\ was' = [was EXCEPT ![task.contribution] = @ \cup {task.to}]
  /\ req' = [req EXCEPT ![r] = IF task.copy = None THEN Idle ELSE [task EXCEPT !.op = "store"]]
  /\ UNCHANGED <<record, reference, attached, wallet, chain, sent, unsure>>

\* tx_repo.update: every column of the row becomes that of the copy.
UpdateRecord(r) ==
  LET task == req[r] IN
  /\ task.op = "store"
  /\ record' = [record EXCEPT ![task.contribution] = task.copy]
  /\ req' = [req EXCEPT ![r] = Idle]
  /\ UNCHANGED <<contribution, reference, attached, wallet, chain, sent, was, unsure>>

-----------------------------------------------------------------------------
(* The task ends: it has answered, a statement failed, or the process died. *)

Ends(r) ==
  /\ req[r] # Idle
  /\ req' = [req EXCEPT ![r] = Idle]
  /\ unsure' = IF req[r].op \in {"send", "record"} THEN unsure \cup {Submission(r)} ELSE unsure
  /\ UNCHANGED <<contribution, record, reference, attached, wallet, chain, sent, was>>

\* The network decides: included, refused for good, or expired (retryable).
Decide(h, outcome) ==
  /\ chain[h] = "Pending"
  /\ chain' = [chain EXCEPT ![h] = outcome]
  /\ UNCHANGED <<contribution, record, reference, attached, wallet, req, sent, was, unsure>>

Next ==
  \/ \E h \in DOMAIN chain, outcome \in {"Succeeded", "Rejected", "Expired"} :
       Decide(h, outcome)
  \/ \E r \in Requests :
       \/ \E c \in Contributions, k \in Keys : BeginSubmit(r, c, k)
       \/ Send(r)
       \/ \E error \in ProviderErrors : SendFails(r, error)
       \/ StoreRecord(r)
       \/ RecordConflict(r)
       \/ AttachReference(r)
       \/ AuditReference(r)
       \/ \E w \in Wallets : Provision(r, w)
       \/ StoreWallet(r)
       \/ \E c \in Contributions : BeginReconcile(r, c)
       \/ \E answer \in {"Succeeded", "Rejected", "Expired", "Pending", "Unknown"} :
            Lookup(r, answer)
       \/ ReadSettlement(r)
       \/ SettlementRefused(r)
       \/ \E c \in Contributions, target \in Targets : BeginAdmin(r, c, target)
       \/ CommitSettlement(r)
       \/ UpdateRecord(r)
       \/ Ends(r)

Spec == Init /\ [][Next]_vars

-----------------------------------------------------------------------------
(* Properties under any interleaving and any loss.                         *)

\* A record that says Confirmed (Failed) is of a transaction the network
\* included (refused for good) and of a contribution that was confirmed
\* (failed) at some time: reconcile_contribution_transaction settles before it
\* stores, and stores nothing when the settlement is refused.  Since the
\* network does not change its mind, reconciliations that overlap can take a
\* record back to Submitted, never to the other outcome.
SettledAsTheNetworkSays ==
  \A c \in Records :
    /\ record[c].status = "Confirmed" =>
         chain[record[c].hash] = "Succeeded" /\ "Confirmed" \in was[c]
    /\ record[c].status = "Failed" =>
         chain[record[c].hash] = "Rejected" /\ "Failed" \in was[c]

\* An external reference names a row that exists and says the same: the hash of
\* the contribution's record, which was sent, or the account of the wallet; and
\* an audited reference is stored.  The statements may stop anywhere in their
\* order (store_tx_hash_reference, provision_user_wallet).
ReferencesNameRows ==
  /\ \A c \in Contributions : Referenced(c) =>
       /\ record[c] # None
       /\ reference[c] = record[c].hash
       /\ <<c, record[c].key, record[c].hash>> \in sent
  /\ \A w \in Wallets : Referenced(w) => w \in wallet /\ reference[w] = w
  /\ \A pair \in attached : reference[pair[1]] = pair[2]

\* Everything that was sent to the network is known to somebody: it is named by
\* the record of its contribution, carried by the task that is about to store that
\* record, or its client knows that a submission was lost or left open by an error.
\* A client that has had nothing but records and refusals is never wrong about the
\* network: not when submissions under two keys race for the one record of a
\* contribution, nor when a reconciliation writes back the copy it read
\* (submit_contribution_onchain sends before it stores, and looks for the key only).
SentIsKnown ==
  \A s \in sent :
    \/ record[s[1]] # None /\ <<s[1], record[s[1]].key, record[s[1]].hash>> = s
    \/ \E r \in Requests :
         req[r].op = "record" /\ <<req[r].contribution, req[r].key, req[r].hash>> = s
    \/ <<s[1], s[2]>> \in unsure

\* An answer that means refused is only given when the attempt did not reach the
\* network (the two mappings of errors, and the order of the send and the
\* record); after any other answer the client has to keep its key.
DefiniteAnswers ==
  \A r \in Requests :
    req[r].op = "answer" /\ req[r].answer \in Definite => ~req[r].reached
=============================================================================
