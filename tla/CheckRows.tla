----------------------------- MODULE CheckRows -----------------------------
(***************************************************************************)
(* The rows of one check, and what happens to them if every transaction is *)
(* a single step: PersistMonitoringBatch, DeleteCheck and the statements   *)
(* of the Sender.  It is what Monitoring and Notifications take for        *)
(* granted; RowLocks, which has the statements and the row locks,          *)
(* implements it.                                                          *)
(***************************************************************************)
EXTENDS Integers

CONSTANT MaxIncidents   \* bound: incidents in the table

Ids == 1..MaxIncidents
Events == {"down", "up"}

Check == <<"check">>
State == <<"state">>   \* check_probe_state
Incident(i) == <<"incident", i>>
Note(i, e) == <<"note", i, e>>

Incidents == {Incident(i) : i \in Ids}
Notes == {Note(i, e) : i \in Ids, e \in Events}
Rows == {Check, State} \cup Incidents \cup Notes

LiveStates == {"pending", "processing", "retrying"}
CheckValues == {"active", "deleted"}
StateValues == {"absent", "present"}
IncidentValues == {"none", "open", "resolved"}
NoteValues == {"none", "delivered", "superseded"} \cup LiveStates
Values == CheckValues \cup StateValues \cup IncidentValues \cup NoteValues

RowValues(row) ==
  IF row = Check THEN CheckValues
  ELSE IF row = State THEN StateValues
  ELSE IF row \in Incidents THEN IncidentValues ELSE NoteValues

VARIABLES
  db,       \* the committed version of each row
  sending   \* notifications claimed by a worker that has not marked them yet

RowsInit ==
  /\ db = [r \in Rows |-> IF r = Check THEN "active"
                          ELSE IF r = State THEN "absent" ELSE "none"]
  /\ sending = {}

OpenIncidents == {r \in Incidents : db[r] = "open"}

----------------------------------------------------------------------------
(* PersistMonitoringBatch, for a result of the check *)

\* upsertCheckStateTx alone: the result carries no incident, or there is nothing
\* to open or to resolve.
PersistState ==
  /\ db' = [db EXCEPT ![State] = "present"]
  /\ UNCHANGED sending

\* openIncidentWithNotificationByCheckIDTx: one incident at a time, never for a
\* deleted check; with a webhook URL (hook) it is announced.
OpenIncident(i, hook) ==
  /\ db[Check] = "active" /\ OpenIncidents = {}
  /\ db[Incident(i)] = "none"
  /\ db' = [db EXCEPT ![State] = "present", ![Incident(i)] = "open",
                      ![Note(i, "down")] = IF hook THEN "pending" ELSE @]
  /\ UNCHANGED sending

\* resolveIncidentWithNotificationByCheckIDTx: the down alert is taken back
\* unless it was delivered, and the recovery is announced.
ResolveIncident(i, hook) ==
  /\ db[Incident(i)] = "open"
  /\ db' = [db EXCEPT ![State] = "present", ![Incident(i)] = "resolved",
                      ![Note(i, "down")] =
                         IF @ \in {"none", "delivered"} THEN @ ELSE "superseded",
                      ![Note(i, "up")] = IF hook THEN "pending" ELSE @]
  /\ UNCHANGED sending

----------------------------------------------------------------------------
(* DeleteCheck *)

DownNotes == {Note(i, "down") : i \in Ids}
LiveDown == {n \in DownNotes : db[n] \in LiveStates}
LiveUp == {n \in Notes \ DownNotes : db[n] \in LiveStates}

\* Every down alert is taken back and every incident resolved.  An announced
\* recovery may be missed ("ups" are those that are not): it can be inserted by a
\* result that commits while the check is being deleted.
DeleteCheck(ups) ==
  /\ db[Check] = "active"
  /\ ups \subseteq LiveUp
  /\ db' = [r \in Rows |->
               IF r = Check THEN "deleted"
               ELSE IF r = State THEN "absent"
               ELSE IF r \in OpenIncidents THEN "resolved"
               ELSE IF r \in LiveDown \cup ups THEN "superseded"
               ELSE db[r]]
  /\ UNCHANGED sending

----------------------------------------------------------------------------
(* The Sender's statements, each a transaction of its own *)

StaleDown(i, e) == e = "down" /\ db[Incident(i)] = "resolved"

\* ClaimDueIncidentNotifications; a claim that is stale may be taken again at any
\* time.
ClaimNote(i, e) ==
  /\ db[Note(i, e)] \in LiveStates /\ ~StaleDown(i, e)
  /\ db' = [db EXCEPT ![Note(i, e)] = "processing"]
  /\ sending' = sending \cup {Note(i, e)}

RetryState(i, e) ==
  IF db[Note(i, e)] = "superseded" \/ StaleDown(i, e)
    THEN "superseded" ELSE "retrying"

\* MarkIncidentNotificationDelivered and MarkIncidentNotificationRetry
DeliverNote(i, e) ==
  /\ Note(i, e) \in sending
  /\ db' = [db EXCEPT ![Note(i, e)] = IF @ = "processing" THEN "delivered" ELSE @]
  /\ sending' = sending \ {Note(i, e)}

RetryNote(i, e) ==
  /\ Note(i, e) \in sending
  /\ db' = [db EXCEPT ![Note(i, e)] = IF @ = "delivered" THEN @ ELSE RetryState(i, e)]
  /\ sending' = sending \ {Note(i, e)}

----------------------------------------------------------------------------

RowsNext ==
  \/ PersistState
  \/ \E i \in Ids, hook \in BOOLEAN : OpenIncident(i, hook) \/ ResolveIncident(i, hook)
  \/ \E ups \in SUBSET Notes : DeleteCheck(ups)
  \/ \E i \in Ids, e \in Events :
       ClaimNote(i, e) \/ DeliverNote(i, e) \/ RetryNote(i, e)

RowsSpec == RowsInit /\ [][RowsNext]_<<db, sending>>

============================================================================
