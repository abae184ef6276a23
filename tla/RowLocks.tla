----------------------------- MODULE RowLocks ------------------------------
(***************************************************************************)
(* The statements of the two transactions that write the rows of one check *)
(* at the same time: PersistMonitoringBatch, for a result of the check,    *)
(* and DeleteCheck.  The other modules take each transaction as one step;  *)
(* here every statement is a step of its own, with the row locks it takes. *)
(*                                                                         *)
(* Postgres (external) runs at READ COMMITTED.  A statement sees what was  *)
(* committed when it starts.  An UPDATE or DELETE finds its rows then,     *)
(* waits until nobody else holds them, and skips those that no longer      *)
(* match.  Inserting a row that refers to a check takes a KEY SHARE lock   *)
(* on the check, which conflicts with FOR UPDATE.  When transactions wait  *)
(* for each other Postgres ends one of them with an error.                 *)
(*                                                                         *)
(* The Runtime's mutex allows one ingesting transaction at a time.  The    *)
(* rows of check_probe_state are one row: the probe that reports.          *)
(***************************************************************************)
EXTENDS CheckRows

CONSTANTS
  Ingest,    \* the transaction of PersistMonitoringBatch
  Deleters   \* requests to delete the check

ASSUME RowLocksAssumption == Ingest \notin Deleters /\ MaxIncidents \in Nat

Txs == {Ingest} \cup Deleters

VARIABLE
  tx   \* each transaction: its statement, locks and uncommitted rows

vars == <<db, tx, sending>>

Steps == {"idle", "upsert", "open", "insert", "fk", "resolve", "resolve_wait",
          "supersede", "supersede_wait", "select", "notes", "notes_wait",
          "incidents", "incidents_wait", "state", "state_wait", "commit"}

NoTx == [step |-> "idle", kind |-> "none", hook |-> FALSE, locks |-> {},
         share |-> FALSE, targets |-> {}, new |-> [r \in {} |-> "none"]]

TxRecords(writes) ==
  [step : Steps, kind : {"none", "open", "resolve"}, hook : BOOLEAN,
   locks : SUBSET Rows, share : BOOLEAN, targets : SUBSET Rows, new : writes]

\* No row is written unlocked, and none with what another kind of row holds.
WritesOK(x) ==
  \A r \in DOMAIN x.new : r \in x.locks /\ x.new[r] \in RowValues(r) \ {"none"}

TypeOK ==
  /\ db \in [Rows -> Values] /\ \A r \in Rows : db[r] \in RowValues(r)
  /\ tx \in [Txs -> TxRecords({tx[t].new : t \in Txs})]
  /\ \A t \in Txs : /\ tx[t].new \in [DOMAIN tx[t].new -> Values]
                    /\ WritesOK(tx[t])
  /\ sending \subseteq Notes

Init ==
  /\ RowsInit
  /\ tx = [t \in Txs |-> NoTx]

----------------------------------------------------------------------------
(* Locks *)

\* The rows that the statement at hand must lock, and whether it inserts a
\* row that refers to the check.
Wants(t) ==
  CASE tx[t].step = "upsert" -> {State}
    [] tx[t].step = "select" -> {Check}
    [] tx[t].step = "insert" -> OpenIncidents   \* the unique index
    [] tx[t].step \in {"resolve_wait", "supersede_wait", "notes_wait",
                       "incidents_wait", "state_wait"} -> tx[t].targets
    [] OTHER -> {}

WantsShare(t) ==
  tx[t].step = "fk" \/ (tx[t].step = "upsert" /\ db[State] = "absent")

Blockers(t) ==
  {u \in Txs \ {t} :
     \/ Wants(t) \cap tx[u].locks # {}
     \/ Check \in Wants(t) /\ tx[u].share
     \/ WantsShare(t) /\ Check \in tx[u].locks}

\* At a statement, and nothing holds it up
At(t, step) == tx[t].step = step /\ Blockers(t) = {}

Free(rows) ==
  \A t \in Txs : tx[t].locks \cap rows = {} /\ (Check \in rows => ~tx[t].share)

\* What is written hides what was there.
Over(new, old) ==
  [r \in DOMAIN new \cup DOMAIN old |->
     IF r \in DOMAIN new THEN new[r] ELSE old[r]]

\* An UPDATE looks for its rows ...
Scanned(x, targets, next) == [x EXCEPT !.targets = targets, !.step = next]

Scan(t, targets, next) ==
  tx' = [tx EXCEPT ![t] = Scanned(tx[t], targets, next)]

\* ... and, once they are free, changes those that still match.
Rewritten(x, rows, value, next) ==
  [x EXCEPT !.locks = x.locks \cup rows,
            !.new = Over([r \in rows |-> value], x.new),
            !.targets = {},
            !.step = next]

Rewrite(t, rows, value, next) ==
  tx' = [tx EXCEPT ![t] = Rewritten(tx[t], rows, value, next)]

----------------------------------------------------------------------------
(* Every transaction *)

\* Begin, at the transaction's first statement
Begin(t, step, kind, hook) ==
  /\ tx[t].step = "idle"
  /\ tx' = [tx EXCEPT ![t] = [NoTx EXCEPT !.step = step, !.kind = kind,
                                          !.hook = hook]]
  /\ UNCHANGED <<db, sending>>

Commit(t) ==
  /\ tx[t].step = "commit"
  /\ db' = Over(tx[t].new, db)
  /\ tx' = [tx EXCEPT ![t] = NoTx]
  /\ UNCHANGED sending

\* Mutant: the error leaves the transaction open.
Abort_NoRollback(t) ==
  /\ \E u \in Blockers(t) : t \in Blockers(u)
  /\ UNCHANGED vars

\* Postgres ends one of two transactions that wait for each other.  Its
\* statement fails and the deferred Rollback undoes the transaction.
Abort(t) ==
  /\ \E u \in Blockers(t) : t \in Blockers(u)
  /\ tx' = [tx EXCEPT ![t] = NoTx]
  /\ UNCHANGED <<db, sending>>

----------------------------------------------------------------------------
(* PersistMonitoringBatch: the state row first, then the incident *)

FreeIds == {i \in Ids : db[Incident(i)] = "none"}

\* The write carries no incident, or opens or resolves one; with a webhook URL
\* (hook) the incident is announced.
BeginIngest(kind, hook) ==
  /\ kind = "open" => FreeIds # {}
  /\ Begin(Ingest, "upsert", kind, hook)

AfterUpsert == IF tx[Ingest].kind = "none" THEN "commit" ELSE tx[Ingest].kind

\* Mutant: a state row that exists is not written again.
UpsertState_OnlyNew ==
  /\ At(Ingest, "upsert")
  /\ tx' = [tx EXCEPT ![Ingest] = [tx[Ingest] EXCEPT !.step = AfterUpsert]]
  /\ UNCHANGED <<db, sending>>

\* upsertCheckStateTx
UpsertState ==
  /\ At(Ingest, "upsert")
  /\ tx' = [tx EXCEPT ![Ingest] =
       [Rewritten(tx[Ingest], {State}, "present", AfterUpsert)
          EXCEPT !.share = WantsShare(Ingest)]]
  /\ UNCHANGED <<db, sending>>

\* openIncidentWithNotificationByCheckIDTx reads the check ...
SelectCheck ==
  /\ At(Ingest, "open")
  /\ Scan(Ingest, {}, IF db[Check] = "deleted" THEN "commit" ELSE "insert")
  /\ UNCHANGED <<db, sending>>

\* ... and inserts the incident, unless the unique index finds an open one.
InsertIncident ==
  /\ At(Ingest, "insert")
  /\ IF OpenIncidents # {} THEN Scan(Ingest, {}, "commit")
     ELSE \E i \in FreeIds :
            /\ \A j \in FreeIds : i <= j
            /\ Rewrite(Ingest, {Incident(i)}, "open", "fk")
  /\ UNCHANGED <<db, sending>>

Touched == {i \in Ids : Incident(i) \in DOMAIN tx[Ingest].new}

\* insertIncidentNotification
NewNotes(event) ==
  {Note(i, event) : i \in IF tx[Ingest].hook THEN Touched ELSE {}}

\* The foreign key of the new incident locks the check.
ReferToCheck ==
  /\ At(Ingest, "fk")
  /\ tx' = [tx EXCEPT ![Ingest] =
       [Rewritten(tx[Ingest], NewNotes("down"), "pending", "commit")
          EXCEPT !.share = TRUE]]
  /\ UNCHANGED <<db, sending>>

\* resolveIncidentWithNotificationByCheckIDTx: the open incident ...
ScanOpen ==
  /\ At(Ingest, "resolve")
  /\ Scan(Ingest, OpenIncidents, "resolve_wait")
  /\ UNCHANGED <<db, sending>>

StillOpen(t) == {r \in tx[t].targets : db[r] = "open"}

ResolveOpen ==
  /\ At(Ingest, "resolve_wait")
  /\ Rewrite(Ingest, StillOpen(Ingest), "resolved",
             IF StillOpen(Ingest) = {} THEN "commit" ELSE "supersede")
  /\ UNCHANGED <<db, sending>>

\* ... its down notification, unless delivered, and the up notification
ScanDown ==
  /\ At(Ingest, "supersede")
  /\ Scan(Ingest, {n \in {Note(i, "down") : i \in Touched} :
                     db[n] \notin {"none", "delivered"}}, "supersede_wait")
  /\ UNCHANGED <<db, sending>>

\* Mutant: an alert that was delivered while the UPDATE waited is taken back.
SupersedeDown_Delivered ==
  /\ At(Ingest, "supersede_wait")
  /\ LET done == Rewritten(tx[Ingest], tx[Ingest].targets, "superseded", "commit")
     IN  tx' = [tx EXCEPT ![Ingest] =
                  Rewritten(done, NewNotes("up"), "pending", "commit")]
  /\ UNCHANGED <<db, sending>>

SupersedeDown ==
  /\ At(Ingest, "supersede_wait")
  /\ LET stale == {n \in tx[Ingest].targets : db[n] # "delivered"}
         done == Rewritten(tx[Ingest], stale, "superseded", "commit")
     IN  tx' = [tx EXCEPT ![Ingest] =
                  Rewritten(done, NewNotes("up"), "pending", "commit")]
  /\ UNCHANGED <<db, sending>>

----------------------------------------------------------------------------
(* DeleteCheck: the check first, then notifications, incidents and states *)

BeginDelete(d) == Begin(d, "select", "none", FALSE)

\* Mutant: the check is read without FOR UPDATE.
LockCheck_PlainSelect(d) ==
  /\ At(d, "select")
  /\ tx' = [tx EXCEPT ![d] = [tx[d] EXCEPT
               !.new = [r \in {Check} \cap {q \in Rows : db[q] = "active"} |-> "deleted"],
               !.step = IF db[Check] = "active" THEN "notes" ELSE "commit"]]
  /\ UNCHANGED <<db, sending>>

\* SELECT ... FOR UPDATE: a check that is deleted already is left alone.  The
\* last statement sets deleted_at of the row that is locked here.
LockCheck(d) ==
  /\ At(d, "select")
  /\ IF db[Check] = "active" THEN Rewrite(d, {Check}, "deleted", "notes")
     ELSE Scan(d, {}, "commit")
  /\ UNCHANGED <<db, sending>>

\* Mutant: only notifications that wait for a claim.
LiveNotes_Unclaimed == {n \in Notes : db[n] = "pending"}

\* state NOT IN (superseded, delivered)
LiveNotes == {n \in Notes : db[n] \in LiveStates}

ScanNotes(d) ==
  /\ At(d, "notes")
  /\ Scan(d, LiveNotes, "notes_wait")
  /\ UNCHANGED <<db, sending>>

SupersedeNotes(d) ==
  /\ At(d, "notes_wait")
  /\ Rewrite(d, tx[d].targets \cap LiveNotes, "superseded", "incidents")
  /\ UNCHANGED <<db, sending>>

ScanIncidents(d) ==
  /\ At(d, "incidents")
  /\ Scan(d, OpenIncidents, "incidents_wait")
  /\ UNCHANGED <<db, sending>>

ResolveIncidents(d) ==
  /\ At(d, "incidents_wait")
  /\ Rewrite(d, StillOpen(d), "resolved", "state")
  /\ UNCHANGED <<db, sending>>

ScanState(d) ==
  /\ At(d, "state")
  /\ Scan(d, {r \in {State} : db[r] = "present"}, "state_wait")
  /\ UNCHANGED <<db, sending>>

DeleteState(d) ==
  /\ At(d, "state_wait")
  /\ Rewrite(d, tx[d].targets, "absent", "commit")
  /\ UNCHANGED <<db, sending>>

----------------------------------------------------------------------------
(* The Sender's statements, each a transaction of its own *)

\* ClaimDueIncidentNotifications: FOR UPDATE SKIP LOCKED names no table, so a
\* notification is passed over while its incident or its check is locked.
Claim(i, e) ==
  Free({Note(i, e), Incident(i), Check}) /\ ClaimNote(i, e) /\ UNCHANGED tx

MarkDelivered(i, e) == Free({Note(i, e)}) /\ DeliverNote(i, e) /\ UNCHANGED tx

MarkRetry(i, e) == Free({Note(i, e)}) /\ RetryNote(i, e) /\ UNCHANGED tx

----------------------------------------------------------------------------

IngestStep ==
  \/ UpsertState \/ SelectCheck \/ InsertIncident \/ ReferToCheck
  \/ ScanOpen \/ ResolveOpen \/ ScanDown \/ SupersedeDown
  \/ Commit(Ingest)

DeleteStep(d) ==
  \/ LockCheck(d) \/ ScanNotes(d) \/ SupersedeNotes(d) \/ ScanIncidents(d)
  \/ ResolveIncidents(d) \/ ScanState(d) \/ DeleteState(d) \/ Commit(d)

Next ==
  \/ \E kind \in {"none", "open", "resolve"}, hook \in BOOLEAN :
       BeginIngest(kind, hook)
  \/ IngestStep
  \/ \E d \in Deleters : BeginDelete(d) \/ DeleteStep(d)
  \/ \E t \in Txs : Abort(t)
  \/ \E i \in Ids, e \in Events :
       Claim(i, e) \/ MarkDelivered(i, e) \/ MarkRetry(i, e)

Spec == Init /\ [][Next]_vars

\* A client runs its statements to the end, and Postgres looks for deadlocks.
\* Those who wait for a row are served in turn: without strong fairness a new
\* result could take the state row before a delete that waits for it.
Fairness ==
  /\ SF_vars(IngestStep)
  /\ \A d \in Deleters : SF_vars(DeleteStep(d))
  /\ WF_vars(\E t \in Txs : Abort(t))

FairSpec == Spec /\ Fairness

----------------------------------------------------------------------------
(* Properties *)

\* No incident stays open for a check that is deleted, although opening one
\* reads deleted_at before a foreign key waits for the delete to commit: the
\* ingesting transaction holds the state row that DeleteCheck must delete.
NoIncidentForDeletedCheck == db[Check] = "deleted" => OpenIncidents = {}

\* No down alert of a deleted check can be claimed any more, whichever claims,
\* marks and results run between the statements of DeleteCheck.
NoDownAlertForDeletedCheck ==
  db[Check] = "deleted" =>
    \A i \in Ids : db[Note(i, "down")] \notin LiveStates

\* The locks make each transaction a single step at its commit: no UPDATE is
\* lost, and none rests on what another transaction has changed meanwhile.
ImplementsRows == RowsSpec

\* Every transaction ends, with a commit or an error, although results and
\* deletes lock check, incident and state rows in opposite orders.
TransactionsEnd == \A t \in Txs : tx[t].step # "idle" ~> tx[t].step = "idle"

----------------------------------------------------------------------------
(* The inductive invariant behind the properties (RowLocksProofs), of one  *)
(* transaction x at a time.                                                *)

Writes == UNION {[rows -> Values] : rows \in SUBSET Rows}
TxStates == TxRecords(Writes)

\* TypeOK, with the writes of a transaction in one set
RowTypes ==
  /\ db \in [Rows -> Values] /\ \A r \in Rows : db[r] \in RowValues(r)
  /\ tx \in [Txs -> TxStates] /\ \A t \in Txs : WritesOK(tx[t])
  /\ sending \subseteq Notes

IngestSteps == {"idle", "upsert", "open", "insert", "fk", "resolve",
                "resolve_wait", "supersede", "supersede_wait", "commit"}

\* Past its first statement it holds the state row, and the check as well when
\* it found no state row; only then can the delete that is running pass it.  An
\* incident it is about to open belongs to a check that is active.
IngestOK(x) ==
  /\ x.step \in IngestSteps
  /\ x.step \in {"idle", "upsert"} => x = [NoTx EXCEPT !.step = x.step,
                                             !.kind = x.kind, !.hook = x.hook]
  /\ x.step \notin {"idle", "upsert"} => State \in x.locks
  /\ Check \notin x.locks
  /\ State \in x.locks /\ ~x.share => db[State] = "present"
  /\ x.step = "resolve_wait" => x.targets \subseteq Incidents
  /\ x.step = "supersede_wait" => x.targets \subseteq Notes
  /\ x.step \in {"insert", "fk"} => db[Check] = "active"
  /\ \A r \in DOMAIN x.new : r \in Incidents /\ x.new[r] = "open" =>
       db[Check] = "active" /\ (x.step = "fk" \/ (x.step = "commit" /\ x.share))
  /\ \A r \in DOMAIN x.new : r \in DownNotes /\ x.new[r] \in LiveStates =>
       db[Check] = "active" /\ x.step = "commit" /\ x.share

\* What a delete that holds the check has found and not yet written, by statement
DeleteProgress(x) ==
  /\ x.step \in {"notes", "notes_wait", "incidents", "incidents_wait", "state",
                 "state_wait", "commit"}
  /\ x.step = "notes_wait" => LiveDown \subseteq x.targets /\ x.targets \subseteq Notes
  /\ x.step \notin {"notes", "notes_wait"} =>
       \A n \in LiveDown : n \in DOMAIN x.new /\ x.new[n] = "superseded"
  /\ x.step = "incidents_wait" =>
       OpenIncidents \subseteq x.targets /\ x.targets \subseteq Incidents
  /\ x.step \in {"state", "state_wait", "commit"} =>
       \A r \in OpenIncidents : r \in DOMAIN x.new /\ x.new[r] = "resolved"
  /\ x.step = "state_wait" =>
       x.targets = {State} \/ (x.targets = {} /\ db[State] = "absent")
  /\ x.step = "commit" => State \in x.locks \/ db[State] = "absent"

DeleterOK(x) ==
  /\ ~x.share
  /\ Check \notin x.locks => /\ x.step \in {"idle", "select", "commit"}
                             /\ x.locks = {} /\ DOMAIN x.new = {}
  /\ Check \in x.locks => DeleteProgress(x)
  /\ \A r \in DOMAIN x.new : /\ r \in Incidents => x.new[r] = "resolved"
                             /\ r \in Notes => x.new[r] = "superseded"

\* Row locks exclude each other, as far as the proofs need it.
LocksExclude ==
  /\ \A d \in Deleters : Check \in tx[d].locks => ~tx[Ingest].share
  /\ \A d \in Deleters : State \in tx[d].locks => State \notin tx[Ingest].locks
  /\ \A d, e \in Deleters : Check \in tx[d].locks /\ Check \in tx[e].locks => d = e

SendingExists == \A n \in sending : db[n] # "none"

RowLocksInv ==
  /\ RowTypes /\ LocksExclude /\ SendingExists
  /\ IngestOK(tx[Ingest]) /\ \A d \in Deleters : DeleterOK(tx[d])
  /\ NoIncidentForDeletedCheck /\ NoDownAlertForDeletedCheck

----------------------------------------------------------------------------
(* What ImplementsRows needs beyond it: the rows that a transaction has    *)
(* written are still as it found them when it commits.                     *)

LocksAreWrites == \A t \in Txs : tx[t].locks = DOMAIN tx[t].new

RowsExclude == \A t, u \in Txs : t # u => tx[t].locks \cap tx[u].locks = {}

\* One incident is open, and its notifications come after it.
IncidentRows ==
  /\ \A r, q \in OpenIncidents : r = q
  /\ \A i \in Ids :
       /\ db[Incident(i)] = "none" => db[Note(i, "down")] = "none"
       /\ db[Incident(i)] # "resolved" => db[Note(i, "up")] = "none"

\* The down notification of an incident, while a recovery has to take it back
StaleNotes(i) == {n \in {Note(i, "down")} : db[n] \notin {"none", "delivered"}}

\* The result x opens incident i, or resolves it.
Opens(x, i, notes) ==
  /\ OpenIncidents = {} /\ db[Incident(i)] = "none"
  /\ DOMAIN x.new = {State, Incident(i)} \cup notes
  /\ x.new[Incident(i)] = "open"
  /\ notes \subseteq {Note(i, "down")} /\ \A n \in notes : x.new[n] = "pending"

Resolves(x, i, downs, ups) ==
  /\ db[Incident(i)] = "open"
  /\ DOMAIN x.new = {State, Incident(i)} \cup downs \cup ups
  /\ x.new[Incident(i)] = "resolved"
  /\ downs \subseteq StaleNotes(i) /\ \A n \in downs : x.new[n] = "superseded"
  /\ ups \subseteq {Note(i, "up")} /\ \A n \in ups : x.new[n] = "pending"

\* What a result has written, by statement
IngestWrites(x) ==
  /\ x.step \notin {"idle", "upsert"} => State \in DOMAIN x.new /\ x.new[State] = "present"
  /\ x.step \in {"open", "insert", "resolve", "resolve_wait"} => DOMAIN x.new = {State}
  /\ x.step = "fk" => \E i \in Ids : Opens(x, i, {})
  /\ x.step = "supersede" => \E i \in Ids : Resolves(x, i, {}, {})
  /\ x.step = "supersede_wait" =>
       \E i \in Ids : /\ Resolves(x, i, {}, {}) /\ StaleNotes(i) \subseteq x.targets
                      /\ x.targets \subseteq {Note(i, "down")}
                      /\ \A n \in x.targets : db[n] # "none"
  /\ x.step = "commit" =>
       \/ DOMAIN x.new = {State}
       \/ \E i \in Ids : \E notes \in SUBSET Notes : Opens(x, i, notes)
       \/ \E i \in Ids : \E ups \in SUBSET Notes : Resolves(x, i, StaleNotes(i), ups)

DeleteWrites(x) ==
  \A r \in DOMAIN x.new :
    /\ r = Check => db[r] = "active" /\ x.new[r] = "deleted"
    /\ r = State => x.new[r] = "absent"
    /\ r \in Incidents => db[r] = "open"
    /\ r \in Notes => db[r] \in LiveStates

AtomicInv ==
  /\ LocksAreWrites /\ RowsExclude /\ IncidentRows
  /\ IngestWrites(tx[Ingest]) /\ \A d \in Deleters : DeleteWrites(tx[d])

============================================================================
