-------------------------- MODULE RowLocksProofs ---------------------------
(***************************************************************************)
(* Proofs about the row locks of PersistMonitoringBatch and DeleteCheck,   *)
(* for any number of deletes, incidents and notifications: which locks     *)
(* keep a deleted check without open incidents and live down alerts.       *)
(***************************************************************************)
EXTENDS RowLocks, TLAPS

----------------------------------------------------------------------------
(* Rows *)

\* The rows of the four tables are different rows.
LEMMA RowsDiffer ==
  /\ Check # State /\ Check \in Rows /\ State \in Rows
  /\ Check \notin Incidents /\ State \notin Incidents
  /\ Check \notin Notes /\ State \notin Notes
  /\ Incidents \subseteq Rows /\ Notes \subseteq Rows /\ DownNotes \subseteq Notes
  /\ \A r \in Incidents : r \notin Notes
<1>1. Check # State /\ Check \notin Incidents /\ State \notin Incidents
  BY DEF Check, State, Incidents, Incident
<1>2. Check \notin Notes /\ State \notin Notes
  BY DEF Check, State, Notes, Note
<1>3. \A r \in Incidents : r \notin Notes
  BY DEF Incidents, Incident, Notes, Note
<1>4. DownNotes \subseteq Notes
  BY DEF DownNotes, Notes, Events
<1> QED
  BY <1>1, <1>2, <1>3, <1>4 DEF Rows

\* What a row of each table may hold
LEMMA RowValueFacts ==
  /\ RowValues(Check) = CheckValues /\ RowValues(State) = StateValues
  /\ \A r \in Incidents : RowValues(r) = IncidentValues
  /\ \A r \in Notes : RowValues(r) = NoteValues
  /\ \A r \in Rows : RowValues(r) \subseteq Values
<1>1. /\ RowValues(Check) = CheckValues /\ RowValues(State) = StateValues
      /\ \A r \in Incidents : RowValues(r) = IncidentValues
      /\ \A r \in Notes : RowValues(r) = NoteValues
  BY RowsDiffer DEF RowValues
<1> QED
  BY <1>1 DEF RowValues, Values

\* A transaction's uncommitted rows
LEMMA WritesFacts ==
  /\ \A f \in Writes : /\ DOMAIN f \in SUBSET Rows /\ f \in [DOMAIN f -> Values]
                       /\ \A r \in DOMAIN f : f[r] \in Values
  /\ \A rows \in SUBSET Rows : \A f \in [rows -> Values] : f \in Writes
BY DEF Writes

\* Writing over what was written
LEMMA OverFacts ==
  ASSUME NEW f, NEW g
  PROVE  /\ DOMAIN Over(f, g) = DOMAIN f \cup DOMAIN g
         /\ \A r \in DOMAIN f : Over(f, g)[r] = f[r]
         /\ \A r \in DOMAIN g : r \notin DOMAIN f => Over(f, g)[r] = g[r]
BY DEF Over

LEMMA OverWrites ==
  ASSUME NEW f \in Writes, NEW g \in Writes
  PROVE  Over(f, g) \in Writes
<1> DEFINE D == DOMAIN f \cup DOMAIN g
<1>1. D \in SUBSET Rows
  BY WritesFacts
<1>2. Over(f, g) \in [D -> Values]
  BY WritesFacts DEF Over
<1> QED
  BY <1>1, <1>2, WritesFacts

\* A value written to a set of rows
LEMMA ConstWrites ==
  ASSUME NEW rows \in SUBSET Rows, NEW v \in Values
  PROVE  /\ [r \in rows |-> v] \in Writes
         /\ DOMAIN [r \in rows |-> v] = rows
         /\ \A r \in rows : [q \in rows |-> v][r] = v
<1>1. [r \in rows |-> v] \in [rows -> Values]
  OBVIOUS
<1> QED
  BY <1>1, WritesFacts

----------------------------------------------------------------------------
(* Waiting *)

\* What a statement that is not held up knows of the other transactions
LEMMA NotBlocked ==
  ASSUME NEW t \in Txs, NEW u \in Txs, t # u, Blockers(t) = {}
  PROVE  /\ Wants(t) \cap tx[u].locks = {}
         /\ Check \in Wants(t) => ~tx[u].share
         /\ WantsShare(t) => Check \notin tx[u].locks
BY DEF Blockers

LEMMA WantsFacts ==
  ASSUME NEW t \in Txs
  PROVE  /\ tx[t].step = "upsert" => Wants(t) = {State}
         /\ tx[t].step = "select" => Wants(t) = {Check}
         /\ tx[t].step = "state_wait" => Wants(t) = tx[t].targets
BY DEF Wants

----------------------------------------------------------------------------
(* One transaction moves, and the committed rows stay *)

\* The ingesting transaction
LEMMA IngestMoves ==
  ASSUME RowLocksInv, NEW x \in TxStates, WritesOK(x), IngestOK(x),
         tx' = [tx EXCEPT ![Ingest] = x], UNCHANGED <<db, sending>>,
         x.share => \A d \in Deleters : Check \notin tx[d].locks,
         State \in x.locks => \A d \in Deleters : State \notin tx[d].locks
  PROVE  RowLocksInv'
<1>1. /\ tx' \in [Txs -> TxStates] /\ tx'[Ingest] = x
      /\ \A d \in Deleters : tx'[d] = tx[d]
  BY RowLocksAssumption DEF RowLocksInv, RowTypes, Txs
<1>2. RowTypes'
  <2>1. \A t \in Txs : WritesOK(tx[t])'
    BY <1>1 DEF RowLocksInv, RowTypes, Txs, WritesOK
  <2> QED
    BY <1>1, <2>1 DEF RowLocksInv, RowTypes
<1>3. LocksExclude'
  BY <1>1 DEF RowLocksInv, LocksExclude
<1>4. IngestOK(tx[Ingest])'
  BY <1>1 DEF IngestOK
<1>5. ASSUME NEW d \in Deleters PROVE DeleterOK(tx[d])'
  BY <1>1 DEF RowLocksInv, DeleterOK, DeleteProgress, LiveDown, OpenIncidents
<1>6. SendingExists' /\ NoIncidentForDeletedCheck' /\ NoDownAlertForDeletedCheck'
  BY DEF RowLocksInv, SendingExists, NoIncidentForDeletedCheck, OpenIncidents,
         NoDownAlertForDeletedCheck
<1> QED
  BY <1>2, <1>3, <1>4, <1>5, <1>6 DEF RowLocksInv

\* A delete
LEMMA DeleterMoves ==
  ASSUME RowLocksInv, NEW d \in Deleters, NEW x \in TxStates, WritesOK(x),
         DeleterOK(x), tx' = [tx EXCEPT ![d] = x], UNCHANGED <<db, sending>>,
         Check \in x.locks =>
           /\ ~tx[Ingest].share
           /\ \A e \in Deleters : e # d => Check \notin tx[e].locks,
         State \in x.locks => State \notin tx[Ingest].locks
  PROVE  RowLocksInv'
<1>1. /\ tx' \in [Txs -> TxStates] /\ tx'[d] = x /\ tx'[Ingest] = tx[Ingest]
      /\ \A e \in Deleters : e # d => tx'[e] = tx[e]
  BY RowLocksAssumption DEF RowLocksInv, RowTypes, Txs
<1>2. RowTypes'
  <2>1. \A t \in Txs : WritesOK(tx[t])'
    BY <1>1 DEF RowLocksInv, RowTypes, Txs, WritesOK
  <2> QED
    BY <1>1, <2>1 DEF RowLocksInv, RowTypes
<1>3. LocksExclude'
  BY <1>1 DEF RowLocksInv, LocksExclude
<1>4. IngestOK(tx[Ingest])'
  BY <1>1 DEF RowLocksInv, IngestOK
<1>5. ASSUME NEW e \in Deleters PROVE DeleterOK(tx[e])'
  <2>1. CASE e = d
    BY <1>1, <2>1 DEF DeleterOK, DeleteProgress, LiveDown, OpenIncidents
  <2>2. CASE e # d
    BY <1>1, <2>2 DEF RowLocksInv, DeleterOK, DeleteProgress, LiveDown, OpenIncidents
  <2> QED
    BY <2>1, <2>2
<1>6. SendingExists' /\ NoIncidentForDeletedCheck' /\ NoDownAlertForDeletedCheck'
  BY DEF RowLocksInv, SendingExists, NoIncidentForDeletedCheck, OpenIncidents,
         NoDownAlertForDeletedCheck
<1> QED
  BY <1>2, <1>3, <1>4, <1>5, <1>6 DEF RowLocksInv

\* An idle transaction has nothing to answer for.
LEMMA NoTxOK ==
  /\ NoTx \in TxStates /\ WritesOK(NoTx) /\ IngestOK(NoTx) /\ DeleterOK(NoTx)
  /\ NoTx.locks = {} /\ ~NoTx.share
<1>1. /\ NoTx.step = "idle" /\ NoTx.kind = "none" /\ NoTx.hook = FALSE
      /\ NoTx.locks = {} /\ NoTx.share = FALSE /\ NoTx.targets = {}
      /\ DOMAIN NoTx.new = {}
  BY DEF NoTx
<1>2. NoTx.new \in Writes
  <2>1. {} \in SUBSET Rows /\ NoTx.new \in [{} -> Values]
    BY DEF NoTx
  <2> QED
    BY <2>1, WritesFacts
<1>3. NoTx \in TxStates
  BY <1>2 DEF NoTx, TxStates, TxRecords, Steps
<1>4. WritesOK(NoTx) /\ DeleterOK(NoTx)
  BY <1>1 DEF WritesOK, DeleterOK
<1>5. NoTx = [NoTx EXCEPT !.step = NoTx.step, !.kind = NoTx.kind, !.hook = NoTx.hook]
  BY DEF NoTx
<1>6. IngestOK(NoTx)
  BY <1>1, <1>5 DEF IngestOK, IngestSteps
<1> QED
  BY <1>1, <1>3, <1>4, <1>6

----------------------------------------------------------------------------
(* The record of a transaction after a statement *)

\* Its committed counterpart in the invariant
LEMMA TxFacts ==
  ASSUME RowLocksInv, NEW t \in Txs
  PROVE  /\ tx[t] \in TxStates /\ WritesOK(tx[t]) /\ tx[t].new \in Writes
         /\ tx[t].locks \subseteq Rows /\ tx[t].targets \subseteq Rows
         /\ db[Check] \in CheckValues /\ db[State] \in StateValues
<1>1. tx[t] \in TxStates /\ WritesOK(tx[t])
  BY DEF RowLocksInv, RowTypes
<1>2. db[Check] \in CheckValues /\ db[State] \in StateValues
  BY RowsDiffer, RowValueFacts DEF RowLocksInv, RowTypes
<1> QED
  BY <1>1, <1>2 DEF TxStates, TxRecords

\* A statement that looks for rows
LEMMA ScanRecord ==
  ASSUME NEW y \in TxStates, WritesOK(y), NEW rows \in SUBSET Rows, NEW next \in Steps,
         NEW x, x = Scanned(y, rows, next)
  PROVE  /\ x \in TxStates /\ WritesOK(x)
         /\ x.step = next /\ x.targets = rows
         /\ x.locks = y.locks /\ x.share = y.share /\ x.new = y.new
         /\ x.kind = y.kind /\ x.hook = y.hook
<1>1. /\ x \in TxStates
      /\ x.step = next /\ x.targets = rows
      /\ x.locks = y.locks /\ x.share = y.share /\ x.new = y.new
      /\ x.kind = y.kind /\ x.hook = y.hook
  BY DEF TxStates, TxRecords, Scanned
<1> QED
  BY <1>1 DEF WritesOK

\* A value that may be written to each of the rows
Fits(rows, v) == \A r \in rows : v \in RowValues(r) \ {"none"}

\* What Rewritten makes of a transaction
IsRewrite(x, y, rows, v, next) ==
  /\ x \in TxStates /\ WritesOK(x)
  /\ x.step = next /\ x.targets = {}
  /\ x.locks = y.locks \cup rows /\ x.share = y.share
  /\ x.kind = y.kind /\ x.hook = y.hook
  /\ DOMAIN x.new = rows \cup DOMAIN y.new
  /\ \A r \in rows : x.new[r] = v
  /\ \A r \in DOMAIN y.new : r \notin rows => x.new[r] = y.new[r]

\* A statement that changes rows
LEMMA RewriteRecord ==
  ASSUME NEW y \in TxStates, WritesOK(y), NEW rows \in SUBSET Rows, NEW next \in Steps,
         NEW v \in Values, Fits(rows, v),
         NEW x, x = Rewritten(y, rows, v, next)
  PROVE  IsRewrite(x, y, rows, v, next)
<1> DEFINE f == [r \in rows |-> v]
           g == Over(f, y.new)
<1>1. f \in Writes /\ DOMAIN f = rows /\ \A r \in rows : f[r] = v
  <2>1. f \in [rows -> Values] /\ DOMAIN f = rows /\ \A r \in rows : f[r] = v
    OBVIOUS
  <2> QED
    BY <2>1, WritesFacts
<1> HIDE DEF f
<1>2. y.new \in Writes /\ y.locks \in SUBSET Rows
  BY DEF TxStates, TxRecords
<1>3. /\ g \in Writes /\ DOMAIN g = rows \cup DOMAIN y.new
      /\ \A r \in rows : g[r] = v
      /\ \A r \in DOMAIN y.new : r \notin rows => g[r] = y.new[r]
  <2>1. g \in Writes
    BY <1>1, <1>2, OverWrites
  <2>2. /\ DOMAIN g = DOMAIN f \cup DOMAIN y.new
        /\ \A r \in DOMAIN f : g[r] = f[r]
        /\ \A r \in DOMAIN y.new : r \notin DOMAIN f => g[r] = y.new[r]
    BY OverFacts
  <2> QED
    BY <1>1, <2>1, <2>2
<1>4. x = [y EXCEPT !.locks = y.locks \cup rows, !.new = g, !.targets = {}, !.step = next]
  BY DEF f, Rewritten
<1> HIDE DEF g
<1>5. y.locks \cup rows \in SUBSET Rows /\ {} \in SUBSET Rows
  BY <1>2
<1>6. /\ x \in TxStates
      /\ x.step = next /\ x.targets = {}
      /\ x.locks = y.locks \cup rows /\ x.share = y.share
      /\ x.kind = y.kind /\ x.hook = y.hook /\ x.new = g
  BY <1>3, <1>4, <1>5 DEF TxStates, TxRecords
<1>7. WritesOK(x)
  BY <1>3, <1>6 DEF WritesOK, Fits
<1> QED
  BY <1>3, <1>6, <1>7 DEF IsRewrite

----------------------------------------------------------------------------
(* PersistMonitoringBatch *)

LEMMA BeginIngestKeeps ==
  ASSUME RowLocksInv, NEW kind \in {"none", "open", "resolve"}, NEW hook \in BOOLEAN,
         BeginIngest(kind, hook)
  PROVE  RowLocksInv'
<1>1. PICK x : x = [NoTx EXCEPT !.step = "upsert", !.kind = kind, !.hook = hook]
  OBVIOUS
<1>2. tx' = [tx EXCEPT ![Ingest] = x] /\ UNCHANGED <<db, sending>>
  BY <1>1 DEF BeginIngest, Begin
<1>3. /\ x.step = "upsert" /\ x.kind = kind /\ x.hook = hook
      /\ x.locks = {} /\ x.share = FALSE /\ x.targets = {} /\ x.new = NoTx.new
      /\ DOMAIN x.new = {}
  BY <1>1 DEF NoTx
<1>4. x \in TxStates
  BY <1>1, NoTxOK DEF TxStates, TxRecords, Steps
<1>5. WritesOK(x)
  BY <1>3 DEF WritesOK
<1>6. x = [NoTx EXCEPT !.step = x.step, !.kind = x.kind, !.hook = x.hook]
  BY <1>1, <1>3
<1>7. IngestOK(x)
  BY <1>3, <1>6 DEF IngestOK, IngestSteps
<1> QED
  BY <1>2, <1>3, <1>4, <1>5, <1>7, IngestMoves

\* The state row is locked, and the check too when the row is new.
LEMMA UpsertStateKeeps ==
  ASSUME RowLocksInv, UpsertState
  PROVE  RowLocksInv'
<1> DEFINE y == tx[Ingest]
           share == (db[State] = "absent")
<1>1. Ingest \in Txs /\ IngestOK(y) /\ \A d \in Deleters : d \in Txs /\ d # Ingest
  BY RowLocksAssumption DEF Txs, RowLocksInv
<1>2. /\ y \in TxStates /\ WritesOK(y) /\ y.kind \in {"none", "open", "resolve"}
      /\ db[State] \in StateValues
  BY <1>1, TxFacts DEF TxStates, TxRecords
<1>3. y.step = "upsert" /\ Blockers(Ingest) = {}
  BY DEF UpsertState, At
<1>4. WantsShare(Ingest) = share /\ share \in BOOLEAN
  BY <1>3 DEF WantsShare
<1>5. /\ \A d \in Deleters : State \notin tx[d].locks
      /\ share => \A d \in Deleters : Check \notin tx[d].locks
  BY <1>1, <1>3, <1>4, NotBlocked, WantsFacts
<1>6. AfterUpsert \in {"commit", "open", "resolve"} /\ AfterUpsert \in Steps
  BY <1>2 DEF AfterUpsert, Steps
<1>7. {State} \in SUBSET Rows /\ "present" \in Values /\ Fits({State}, "present")
  BY RowsDiffer, RowValueFacts DEF Values, StateValues, Fits
<1>8. PICK z : z = Rewritten(y, {State}, "present", AfterUpsert)
  OBVIOUS
<1>9. IsRewrite(z, y, {State}, "present", AfterUpsert)
  BY <1>2, <1>6, <1>7, <1>8, RewriteRecord
<1>10. PICK x : x = [z EXCEPT !.share = share]
  OBVIOUS
<1>11. tx' = [tx EXCEPT ![Ingest] = x] /\ UNCHANGED <<db, sending>>
  BY <1>4, <1>8, <1>10 DEF UpsertState
<1>12. y.locks = {} /\ DOMAIN y.new = {}
  BY <1>1, <1>3 DEF IngestOK, NoTx
<1>13. /\ x \in TxStates /\ WritesOK(x)
       /\ x.step = AfterUpsert /\ x.targets = {} /\ x.share = share
       /\ x.locks = {State} /\ DOMAIN x.new = {State}
  <2>1. z \in TxStates /\ WritesOK(z)
    BY <1>9 DEF IsRewrite
  <2>2. /\ x \in TxStates /\ x.step = z.step /\ x.targets = z.targets
        /\ x.share = share /\ x.locks = z.locks /\ x.new = z.new
    BY <1>4, <1>10, <2>1 DEF TxStates, TxRecords
  <2>3. WritesOK(x)
    BY <2>1, <2>2 DEF WritesOK
  <2> QED
    BY <1>9, <1>12, <2>2, <2>3 DEF IsRewrite
<1>14. IngestOK(x)
  BY <1>2, <1>6, <1>13, RowsDiffer DEF IngestOK, IngestSteps, StateValues
<1> QED
  BY <1>5, <1>11, <1>13, <1>14, IngestMoves

\* Opening an incident starts with a look at the check.
LEMMA SelectCheckKeeps ==
  ASSUME RowLocksInv, SelectCheck
  PROVE  RowLocksInv'
<1> DEFINE y == tx[Ingest]
           next == IF db[Check] = "deleted" THEN "commit" ELSE "insert"
<1>1. Ingest \in Txs /\ IngestOK(y)
  BY DEF Txs, RowLocksInv
<1>2. y \in TxStates /\ WritesOK(y) /\ db[Check] \in CheckValues
  BY <1>1, TxFacts
<1>3. y.step = "open"
  BY DEF SelectCheck, At
<1>4. PICK x : x = Scanned(y, {}, next)
  OBVIOUS
<1>5. tx' = [tx EXCEPT ![Ingest] = x] /\ UNCHANGED <<db, sending>>
  BY <1>4 DEF SelectCheck, Scan
<1>6. next \in Steps /\ {} \in SUBSET Rows
  BY DEF Steps
<1>7. /\ x \in TxStates /\ WritesOK(x) /\ x.step = next /\ x.targets = {}
      /\ x.locks = y.locks /\ x.share = y.share /\ x.new = y.new
  BY <1>2, <1>4, <1>6, ScanRecord
<1>8. IngestOK(x)
  BY <1>1, <1>2, <1>3, <1>7 DEF IngestOK, IngestSteps, CheckValues
<1>9. /\ y.share => \A d \in Deleters : Check \notin tx[d].locks
      /\ State \in y.locks => \A d \in Deleters : State \notin tx[d].locks
  BY DEF RowLocksInv, LocksExclude
<1> QED
  BY <1>5, <1>7, <1>8, <1>9, IngestMoves

\* The new incident, unless one is open
LEMMA InsertIncidentKeeps ==
  ASSUME RowLocksInv, InsertIncident
  PROVE  RowLocksInv'
<1> DEFINE y == tx[Ingest]
<1>1. Ingest \in Txs /\ IngestOK(y)
  BY DEF Txs, RowLocksInv
<1>2. y \in TxStates /\ WritesOK(y)
  BY <1>1, TxFacts
<1>3. y.step = "insert" /\ UNCHANGED <<db, sending>>
  BY DEF InsertIncident, At
<1>4. /\ y.share => \A d \in Deleters : Check \notin tx[d].locks
      /\ State \in y.locks => \A d \in Deleters : State \notin tx[d].locks
  BY DEF RowLocksInv, LocksExclude
<1>5. CASE Scan(Ingest, {}, "commit")
  <2>1. PICK x : x = Scanned(y, {}, "commit")
    OBVIOUS
  <2>2. tx' = [tx EXCEPT ![Ingest] = x]
    BY <1>5, <2>1 DEF Scan
  <2>3. "commit" \in Steps /\ {} \in SUBSET Rows
    BY DEF Steps
  <2>4. /\ x \in TxStates /\ WritesOK(x) /\ x.step = "commit" /\ x.targets = {}
        /\ x.locks = y.locks /\ x.share = y.share /\ x.new = y.new
    BY <1>2, <2>1, <2>3, ScanRecord
  <2>5. IngestOK(x)
    BY <1>1, <1>3, <2>4 DEF IngestOK, IngestSteps
  <2> QED
    BY <1>3, <1>4, <2>2, <2>4, <2>5, IngestMoves
<1>6. ASSUME NEW i \in FreeIds, Rewrite(Ingest, {Incident(i)}, "open", "fk")
      PROVE  RowLocksInv'
  <2> DEFINE rows == {Incident(i)}
  <2>1. rows \subseteq Incidents
    BY DEF FreeIds, Incidents
  <2>2. /\ rows \in SUBSET Rows /\ "fk" \in Steps /\ "open" \in Values
        /\ Fits(rows, "open")
    BY <2>1, RowsDiffer, RowValueFacts DEF Fits, Steps, Values, IncidentValues
  <2>3. \A r \in rows : r # Check /\ r # State /\ r \notin DownNotes
    BY <2>1, RowsDiffer
  <2> HIDE DEF rows
  <2>4. PICK x : x = Rewritten(y, rows, "open", "fk")
    OBVIOUS
  <2>5. tx' = [tx EXCEPT ![Ingest] = x]
    BY <1>6, <2>4 DEF Rewrite, rows
  <2>6. /\ x \in TxStates /\ WritesOK(x) /\ x.step = "fk" /\ x.targets = {}
        /\ x.locks = y.locks \cup rows /\ x.share = y.share
        /\ DOMAIN x.new = rows \cup DOMAIN y.new
        /\ \A r \in rows : x.new[r] = "open"
        /\ \A r \in DOMAIN y.new : r \notin rows => x.new[r] = y.new[r]
    <3>1. IsRewrite(x, y, rows, "open", "fk")
      BY <1>2, <2>2, <2>4, RewriteRecord
    <3> QED
      BY <3>1 DEF IsRewrite
  <2>7. IngestOK(x)
    BY <1>1, <1>3, <2>1, <2>3, <2>6 DEF IngestOK, IngestSteps
  <2>8. State \in x.locks => State \in y.locks
    BY <2>3, <2>6
  <2> QED
    BY <1>3, <1>4, <2>5, <2>6, <2>7, <2>8, IngestMoves
<1> QED
  BY <1>5, <1>6 DEF InsertIncident

\* insertIncidentNotification writes notifications of one event.
LEMMA NewNotesFacts ==
  ASSUME NEW event \in Events
  PROVE  /\ NewNotes(event) \subseteq Notes
         /\ event = "up" => \A n \in NewNotes(event) : n \notin DownNotes
<1>1. NewNotes(event) \subseteq {Note(i, event) : i \in Ids}
  BY DEF NewNotes, Touched
<1>2. {Note(i, event) : i \in Ids} \subseteq Notes
  BY DEF Notes
<1>3. \A i, j \in Ids : Note(i, "up") # Note(j, "down")
  BY DEF Note
<1> QED
  BY <1>1, <1>2, <1>3 DEF DownNotes

\* The foreign key: the check is locked before the incident can be committed.
LEMMA ReferToCheckKeeps ==
  ASSUME RowLocksInv, ReferToCheck
  PROVE  RowLocksInv'
<1> DEFINE y == tx[Ingest]
           rows == NewNotes("down")
<1>1. Ingest \in Txs /\ IngestOK(y) /\ \A d \in Deleters : d \in Txs /\ d # Ingest
  BY RowLocksAssumption DEF Txs, RowLocksInv
<1>2. y \in TxStates /\ WritesOK(y)
  BY <1>1, TxFacts
<1>3. y.step = "fk" /\ Blockers(Ingest) = {} /\ UNCHANGED <<db, sending>>
  BY DEF ReferToCheck, At
<1>4. \A d \in Deleters : Check \notin tx[d].locks
  BY <1>1, <1>3, NotBlocked DEF WantsShare
<1>5. rows \subseteq Notes
  BY NewNotesFacts DEF Events
<1>6. /\ rows \in SUBSET Rows /\ "pending" \in Values /\ "commit" \in Steps
      /\ Fits(rows, "pending")
  BY <1>5, RowsDiffer, RowValueFacts DEF Values, NoteValues, LiveStates, Steps, Fits
<1>7. \A r \in rows : r # Check /\ r # State /\ r \notin Incidents
  BY <1>5, RowsDiffer
<1> HIDE DEF rows
<1>8. PICK z : z = Rewritten(y, rows, "pending", "commit")
  OBVIOUS
<1>9. IsRewrite(z, y, rows, "pending", "commit")
  BY <1>2, <1>6, <1>8, RewriteRecord
<1>10. PICK x : x = [z EXCEPT !.share = TRUE]
  OBVIOUS
<1>11. tx' = [tx EXCEPT ![Ingest] = x]
  BY <1>8, <1>10 DEF ReferToCheck, rows
<1>12. /\ x \in TxStates /\ WritesOK(x)
       /\ x.step = "commit" /\ x.targets = {} /\ x.share = TRUE
       /\ x.locks = y.locks \cup rows
       /\ DOMAIN x.new = rows \cup DOMAIN y.new
       /\ \A r \in DOMAIN y.new : r \notin rows => x.new[r] = y.new[r]
  <2>1. z \in TxStates /\ WritesOK(z)
    BY <1>9 DEF IsRewrite
  <2>2. /\ x \in TxStates /\ x.step = z.step /\ x.targets = z.targets
        /\ x.share = TRUE /\ x.locks = z.locks /\ x.new = z.new
    BY <1>10, <2>1 DEF TxStates, TxRecords
  <2>3. WritesOK(x)
    BY <2>1, <2>2 DEF WritesOK
  <2> QED
    BY <1>9, <2>2, <2>3 DEF IsRewrite
<1>13. IngestOK(x)
  BY <1>1, <1>3, <1>7, <1>12 DEF IngestOK, IngestSteps
<1>14. State \in x.locks => \A d \in Deleters : State \notin tx[d].locks
  BY <1>7, <1>12 DEF RowLocksInv, LocksExclude
<1> QED
  BY <1>3, <1>4, <1>11, <1>12, <1>13, <1>14, IngestMoves

\* The look for the open incident
LEMMA ScanOpenKeeps ==
  ASSUME RowLocksInv, ScanOpen
  PROVE  RowLocksInv'
<1> DEFINE y == tx[Ingest]
<1>1. Ingest \in Txs /\ IngestOK(y)
  BY DEF Txs, RowLocksInv
<1>2. y \in TxStates /\ WritesOK(y)
  BY <1>1, TxFacts
<1>3. y.step = "resolve" /\ UNCHANGED <<db, sending>>
  BY DEF ScanOpen, At
<1>4. OpenIncidents \in SUBSET Rows /\ OpenIncidents \subseteq Incidents
      /\ "resolve_wait" \in Steps
  BY RowsDiffer DEF OpenIncidents, Steps
<1>5. PICK x : x = Scanned(y, OpenIncidents, "resolve_wait")
  OBVIOUS
<1>6. tx' = [tx EXCEPT ![Ingest] = x]
  BY <1>5 DEF ScanOpen, Scan
<1>7. /\ x \in TxStates /\ WritesOK(x)
      /\ x.step = "resolve_wait" /\ x.targets = OpenIncidents
      /\ x.locks = y.locks /\ x.share = y.share /\ x.new = y.new
  BY <1>2, <1>4, <1>5, ScanRecord
<1>8. IngestOK(x)
  BY <1>1, <1>3, <1>4, <1>7 DEF IngestOK, IngestSteps
<1>9. /\ x.share => \A d \in Deleters : Check \notin tx[d].locks
      /\ State \in x.locks => \A d \in Deleters : State \notin tx[d].locks
  BY <1>7 DEF RowLocksInv, LocksExclude
<1> QED
  BY <1>3, <1>6, <1>7, <1>8, <1>9, IngestMoves

\* The open incident is resolved.
LEMMA ResolveOpenKeeps ==
  ASSUME RowLocksInv, ResolveOpen
  PROVE  RowLocksInv'
<1> DEFINE y == tx[Ingest]
           rows == StillOpen(Ingest)
           next == IF rows = {} THEN "commit" ELSE "supersede"
<1>1. Ingest \in Txs /\ IngestOK(y)
  BY DEF Txs, RowLocksInv
<1>2. y \in TxStates /\ WritesOK(y)
  BY <1>1, TxFacts
<1>3. y.step = "resolve_wait" /\ UNCHANGED <<db, sending>>
  BY DEF ResolveOpen, At
<1>4. rows \subseteq Incidents
  BY <1>1, <1>3 DEF IngestOK, StillOpen
<1>5. /\ rows \in SUBSET Rows /\ "resolved" \in Values /\ Fits(rows, "resolved")
  BY <1>4, RowsDiffer, RowValueFacts DEF Values, IncidentValues, Fits
<1>6. \A r \in rows : r # Check /\ r # State /\ r \notin DownNotes
  BY <1>4, RowsDiffer
<1>7. next \in {"commit", "supersede"} /\ next \in Steps
  BY DEF Steps
<1>8. tx' = [tx EXCEPT ![Ingest] = Rewritten(y, rows, "resolved", next)]
  BY DEF ResolveOpen, Rewrite
<1> HIDE DEF rows, next
<1>9. PICK x : x = Rewritten(y, rows, "resolved", next)
  OBVIOUS
<1>10. IsRewrite(x, y, rows, "resolved", next)
  BY <1>2, <1>5, <1>7, <1>9, RewriteRecord
<1>11. IngestOK(x)
  BY <1>1, <1>3, <1>6, <1>7, <1>10 DEF IsRewrite, IngestOK, IngestSteps
<1>12. /\ x.share => \A d \in Deleters : Check \notin tx[d].locks
       /\ State \in x.locks => \A d \in Deleters : State \notin tx[d].locks
  BY <1>6, <1>10 DEF IsRewrite, RowLocksInv, LocksExclude
<1>13. x \in TxStates /\ WritesOK(x)
  BY <1>10 DEF IsRewrite
<1> QED
  BY <1>3, <1>8, <1>9, <1>11, <1>12, <1>13, IngestMoves

\* The look for its down notification
LEMMA ScanDownKeeps ==
  ASSUME RowLocksInv, ScanDown
  PROVE  RowLocksInv'
<1> DEFINE y == tx[Ingest]
           rows == {n \in {Note(i, "down") : i \in Touched} :
                      db[n] \notin {"none", "delivered"}}
<1>1. Ingest \in Txs /\ IngestOK(y)
  BY DEF Txs, RowLocksInv
<1>2. y \in TxStates /\ WritesOK(y)
  BY <1>1, TxFacts
<1>3. y.step = "supersede" /\ UNCHANGED <<db, sending>>
  BY DEF ScanDown, At
<1>4. rows \subseteq Notes
  BY DEF Touched, Notes, Events
<1>5. rows \in SUBSET Rows /\ "supersede_wait" \in Steps
  BY <1>4, RowsDiffer DEF Steps
<1>6. tx' = [tx EXCEPT ![Ingest] = Scanned(y, rows, "supersede_wait")]
  BY DEF ScanDown, Scan
<1> HIDE DEF rows
<1>7. PICK x : x = Scanned(y, rows, "supersede_wait")
  OBVIOUS
<1>8. /\ x \in TxStates /\ WritesOK(x)
      /\ x.step = "supersede_wait" /\ x.targets = rows
      /\ x.locks = y.locks /\ x.share = y.share /\ x.new = y.new
  BY <1>2, <1>5, <1>7, ScanRecord
<1>9. IngestOK(x)
  BY <1>1, <1>3, <1>4, <1>8 DEF IngestOK, IngestSteps
<1>10. /\ x.share => \A d \in Deleters : Check \notin tx[d].locks
       /\ State \in x.locks => \A d \in Deleters : State \notin tx[d].locks
  BY <1>8 DEF RowLocksInv, LocksExclude
<1> QED
  BY <1>3, <1>6, <1>7, <1>8, <1>9, <1>10, IngestMoves

\* The down notification is superseded and the up notification inserted.
LEMMA SupersedeDownKeeps ==
  ASSUME RowLocksInv, SupersedeDown
  PROVE  RowLocksInv'
<1> DEFINE y == tx[Ingest]
           stale == {n \in tx[Ingest].targets : db[n] # "delivered"}
           ups == NewNotes("up")
<1>1. Ingest \in Txs /\ IngestOK(y)
  BY DEF Txs, RowLocksInv
<1>2. y \in TxStates /\ WritesOK(y)
  BY <1>1, TxFacts
<1>3. y.step = "supersede_wait" /\ UNCHANGED <<db, sending>>
  BY DEF SupersedeDown, At
<1>4. stale \subseteq Notes /\ ups \subseteq Notes /\ \A n \in ups : n \notin DownNotes
  BY <1>1, <1>3, NewNotesFacts DEF IngestOK, Events
<1>5. /\ stale \in SUBSET Rows /\ "superseded" \in Values /\ Fits(stale, "superseded")
      /\ ups \in SUBSET Rows /\ "pending" \in Values /\ Fits(ups, "pending")
      /\ "commit" \in Steps
  BY <1>4, RowsDiffer, RowValueFacts
  DEF Values, NoteValues, LiveStates, Fits, Steps
<1>6. \A r \in stale \cup ups : r # Check /\ r # State /\ r \notin Incidents
  BY <1>4, RowsDiffer
<1>7. tx' = [tx EXCEPT ![Ingest] =
        Rewritten(Rewritten(y, stale, "superseded", "commit"), ups, "pending", "commit")]
  BY DEF SupersedeDown
<1> HIDE DEF stale, ups
<1>8. PICK z : z = Rewritten(y, stale, "superseded", "commit")
  OBVIOUS
<1>9. IsRewrite(z, y, stale, "superseded", "commit")
  BY <1>2, <1>5, <1>8, RewriteRecord
<1>10. z \in TxStates /\ WritesOK(z)
  BY <1>9 DEF IsRewrite
<1>11. PICK x : x = Rewritten(z, ups, "pending", "commit")
  OBVIOUS
<1>12. IsRewrite(x, z, ups, "pending", "commit")
  BY <1>5, <1>10, <1>11, RewriteRecord
<1>13. /\ x \in TxStates /\ WritesOK(x) /\ x.step = "commit"
       /\ x.locks = y.locks \cup stale \cup ups /\ x.share = y.share
       /\ DOMAIN x.new = ups \cup (stale \cup DOMAIN y.new)
  BY <1>9, <1>12 DEF IsRewrite
<1>14. \A r \in DOMAIN x.new : \/ r \in ups
                               \/ r \in stale /\ x.new[r] = "superseded"
                               \/ r \in DOMAIN y.new /\ x.new[r] = y.new[r]
  BY <1>9, <1>12 DEF IsRewrite
<1>15. "superseded" \notin LiveStates
  BY DEF LiveStates
<1>16. IngestOK(x)
  BY <1>1, <1>3, <1>4, <1>6, <1>13, <1>14, <1>15 DEF IngestOK, IngestSteps
<1>17. /\ x.share => \A d \in Deleters : Check \notin tx[d].locks
       /\ State \in x.locks => \A d \in Deleters : State \notin tx[d].locks
  BY <1>6, <1>13 DEF RowLocksInv, LocksExclude
<1> QED
  BY <1>3, <1>7, <1>8, <1>11, <1>13, <1>16, <1>17, IngestMoves

----------------------------------------------------------------------------
(* DeleteCheck *)

LEMMA BeginDeleteKeeps ==
  ASSUME RowLocksInv, NEW d \in Deleters, BeginDelete(d)
  PROVE  RowLocksInv'
<1>1. PICK x : x = [NoTx EXCEPT !.step = "select", !.kind = "none", !.hook = FALSE]
  OBVIOUS
<1>2. tx' = [tx EXCEPT ![d] = x] /\ UNCHANGED <<db, sending>>
  BY <1>1 DEF BeginDelete, Begin
<1>3. /\ x.step = "select" /\ x.locks = {} /\ x.share = FALSE /\ DOMAIN x.new = {}
  BY <1>1 DEF NoTx
<1>4. x \in TxStates
  BY <1>1, NoTxOK DEF TxStates, TxRecords, Steps
<1>5. WritesOK(x) /\ DeleterOK(x)
  BY <1>3 DEF WritesOK, DeleterOK
<1> QED
  BY <1>2, <1>3, <1>4, <1>5, DeleterMoves

\* A delete between its first and its last statement
LEMMA DeleterFacts ==
  ASSUME RowLocksInv, NEW d \in Deleters
  PROVE  /\ d \in Txs /\ d # Ingest /\ Ingest \in Txs
         /\ tx[d] \in TxStates /\ WritesOK(tx[d]) /\ DeleterOK(tx[d])
         /\ tx[d].step \in {"notes", "notes_wait", "incidents", "incidents_wait",
                            "state", "state_wait"} =>
              Check \in tx[d].locks /\ DeleteProgress(tx[d])
         /\ Check \in tx[d].locks =>
              /\ ~tx[Ingest].share
              /\ \A e \in Deleters : e # d => Check \notin tx[e].locks
         /\ State \in tx[d].locks => State \notin tx[Ingest].locks
<1>1. d \in Txs /\ d # Ingest /\ Ingest \in Txs
  BY RowLocksAssumption DEF Txs
<1>2. tx[d] \in TxStates /\ WritesOK(tx[d]) /\ DeleterOK(tx[d])
  BY <1>1, TxFacts DEF RowLocksInv
<1>3. tx[d].step \in {"notes", "notes_wait", "incidents", "incidents_wait",
                      "state", "state_wait"} =>
        Check \in tx[d].locks /\ DeleteProgress(tx[d])
  BY <1>2 DEF DeleterOK
<1> QED
  BY <1>1, <1>2, <1>3 DEF RowLocksInv, LocksExclude

\* SELECT ... FOR UPDATE
LEMMA LockCheckKeeps ==
  ASSUME RowLocksInv, NEW d \in Deleters, LockCheck(d)
  PROVE  RowLocksInv'
<1> DEFINE y == tx[d]
<1>1. d \in Txs /\ d # Ingest /\ Ingest \in Txs /\ \A e \in Deleters : e \in Txs
  BY DeleterFacts DEF Txs
<1>2. y \in TxStates /\ WritesOK(y) /\ DeleterOK(y)
  BY DeleterFacts
<1>3. y.step = "select" /\ Blockers(d) = {} /\ UNCHANGED <<db, sending>>
  BY DEF LockCheck, At
<1>4. Check \notin y.locks /\ y.locks = {} /\ DOMAIN y.new = {} /\ ~y.share
  BY <1>2, <1>3 DEF DeleterOK, DeleteProgress
<1>5. /\ ~tx[Ingest].share
      /\ \A e \in Deleters : e # d => Check \notin tx[e].locks
  BY <1>1, <1>3, NotBlocked, WantsFacts
<1>6. CASE Rewrite(d, {Check}, "deleted", "notes")
  <2>1. /\ {Check} \in SUBSET Rows /\ "deleted" \in Values /\ "notes" \in Steps
        /\ Fits({Check}, "deleted")
    BY RowsDiffer, RowValueFacts DEF Values, CheckValues, Steps, Fits
  <2>2. PICK x : x = Rewritten(y, {Check}, "deleted", "notes")
    OBVIOUS
  <2>3. tx' = [tx EXCEPT ![d] = x]
    BY <1>6, <2>2 DEF Rewrite
  <2>4. IsRewrite(x, y, {Check}, "deleted", "notes")
    BY <1>2, <2>1, <2>2, RewriteRecord
  <2>5. /\ x \in TxStates /\ WritesOK(x) /\ x.locks = {Check} /\ ~x.share
        /\ x.step = "notes" /\ DOMAIN x.new = {Check}
    BY <1>4, <2>4 DEF IsRewrite
  <2>6. DeleterOK(x)
    BY <2>5, RowsDiffer DEF DeleterOK, DeleteProgress
  <2> QED
    BY <1>3, <1>5, <2>3, <2>5, <2>6, RowsDiffer, DeleterMoves
<1>7. CASE Scan(d, {}, "commit")
  <2>1. {} \in SUBSET Rows /\ "commit" \in Steps
    BY DEF Steps
  <2>2. PICK x : x = Scanned(y, {}, "commit")
    OBVIOUS
  <2>3. tx' = [tx EXCEPT ![d] = x]
    BY <1>7, <2>2 DEF Scan
  <2>4. /\ x \in TxStates /\ WritesOK(x) /\ x.step = "commit"
        /\ x.locks = y.locks /\ x.share = y.share /\ x.new = y.new
    BY <1>2, <2>1, <2>2, ScanRecord
  <2>5. DeleterOK(x)
    BY <1>4, <2>4 DEF DeleterOK
  <2> QED
    BY <1>3, <1>4, <2>3, <2>4, <2>5, DeleterMoves
<1> QED
  BY <1>6, <1>7 DEF LockCheck

\* The statements that look for notifications, incidents and the state row
LEMMA DeleteScanKeeps ==
  ASSUME RowLocksInv, NEW d \in Deleters,
         ScanNotes(d) \/ ScanIncidents(d) \/ ScanState(d)
  PROVE  RowLocksInv'
<1> DEFINE y == tx[d]
<1>1. /\ y \in TxStates /\ WritesOK(y) /\ DeleterOK(y)
      /\ y.step \in {"notes", "incidents", "state"}
      /\ Check \in y.locks /\ DeleteProgress(y)
      /\ ~tx[Ingest].share
      /\ \A e \in Deleters : e # d => Check \notin tx[e].locks
      /\ State \in y.locks => State \notin tx[Ingest].locks
  <2>1. y.step \in {"notes", "incidents", "state"}
    BY DEF ScanNotes, ScanIncidents, ScanState, At
  <2> QED
    BY <2>1, DeleterFacts
<1>2. UNCHANGED <<db, sending>>
  BY DEF ScanNotes, ScanIncidents, ScanState
<1>3. ASSUME NEW rows \in SUBSET Rows, NEW next \in {"notes_wait", "incidents_wait", "state_wait"},
             Scan(d, rows, next),
             \A x : x.step = next /\ x.targets = rows /\ x.locks = y.locks
                      /\ x.new = y.new => DeleteProgress(x)
      PROVE  RowLocksInv'
  <2>1. PICK x : x = Scanned(y, rows, next)
    OBVIOUS
  <2>2. tx' = [tx EXCEPT ![d] = x]
    BY <1>3, <2>1 DEF Scan
  <2>3. next \in Steps
    BY DEF Steps
  <2>4. /\ x \in TxStates /\ WritesOK(x) /\ x.step = next /\ x.targets = rows
        /\ x.locks = y.locks /\ x.share = y.share /\ x.new = y.new
    BY <1>1, <2>1, <2>3, ScanRecord
  <2>5. DeleteProgress(x)
    BY <1>3, <2>4
  <2>6. DeleterOK(x)
    BY <1>1, <2>4, <2>5 DEF DeleterOK
  <2> QED
    BY <1>1, <1>2, <2>2, <2>4, <2>6, DeleterMoves
<1>4. CASE ScanNotes(d)
  <2>1. /\ LiveNotes \in SUBSET Rows /\ LiveNotes \subseteq Notes
        /\ LiveDown \subseteq LiveNotes
    BY RowsDiffer DEF LiveNotes, LiveDown
  <2>2. ASSUME NEW x, x.step = "notes_wait", x.targets = LiveNotes
        PROVE  DeleteProgress(x)
    BY <2>1, <2>2 DEF DeleteProgress
  <2> QED
    BY <1>3, <1>4, <2>1, <2>2 DEF ScanNotes
<1>5. CASE ScanIncidents(d)
  <2>1. OpenIncidents \in SUBSET Rows /\ OpenIncidents \subseteq Incidents
    BY RowsDiffer DEF OpenIncidents
  <2>2. y.step = "incidents"
    BY <1>5 DEF ScanIncidents, At
  <2>3. ASSUME NEW x, x.step = "incidents_wait", x.targets = OpenIncidents,
               x.new = y.new
        PROVE  DeleteProgress(x)
    BY <1>1, <2>1, <2>2, <2>3 DEF DeleteProgress
  <2> QED
    BY <1>3, <1>5, <2>1, <2>3 DEF ScanIncidents
<1>6. CASE ScanState(d)
  <2> DEFINE rows == {r \in {State} : db[r] = "present"}
  <2>1. rows \in SUBSET Rows
    BY RowsDiffer
  <2>2. rows = {State} \/ (rows = {} /\ db[State] = "absent")
    <3>1. db[State] \in StateValues
      BY TxFacts DEF Txs
    <3> QED
      BY <3>1 DEF StateValues
  <2>3. y.step = "state" /\ Scan(d, rows, "state_wait")
    BY <1>6 DEF ScanState, At
  <2> HIDE DEF rows
  <2>4. ASSUME NEW x, x.step = "state_wait", x.targets = rows, x.new = y.new
        PROVE  DeleteProgress(x)
    BY <1>1, <2>2, <2>3, <2>4 DEF DeleteProgress
  <2> QED
    BY <1>3, <2>1, <2>3, <2>4
<1> QED
  BY <1>4, <1>5, <1>6

\* The statements that change the rows found and still matching
LEMMA DeleteRewriteKeeps ==
  ASSUME RowLocksInv, NEW d \in Deleters,
         SupersedeNotes(d) \/ ResolveIncidents(d) \/ DeleteState(d)
  PROVE  RowLocksInv'
<1> DEFINE y == tx[d]
<1>1. /\ y \in TxStates /\ WritesOK(y) /\ DeleterOK(y)
      /\ y.step \in {"notes_wait", "incidents_wait", "state_wait"}
      /\ Check \in y.locks /\ DeleteProgress(y)
      /\ ~tx[Ingest].share
      /\ \A e \in Deleters : e # d => Check \notin tx[e].locks
      /\ State \in y.locks => State \notin tx[Ingest].locks
  <2>1. y.step \in {"notes_wait", "incidents_wait", "state_wait"}
    BY DEF SupersedeNotes, ResolveIncidents, DeleteState, At
  <2> QED
    BY <2>1, DeleterFacts
<1>2. UNCHANGED <<db, sending>> /\ Blockers(d) = {}
  BY DEF SupersedeNotes, ResolveIncidents, DeleteState, At
<1>3. CASE SupersedeNotes(d)
  <2> DEFINE rows == y.targets \cap LiveNotes
  <2>1. y.step = "notes_wait" /\ Rewrite(d, rows, "superseded", "incidents")
    BY <1>3 DEF SupersedeNotes, At
  <2>2. rows \subseteq Notes /\ LiveDown \subseteq rows
    BY <1>1, <2>1, RowsDiffer DEF DeleteProgress, LiveDown, LiveNotes
  <2>3. /\ rows \in SUBSET Rows /\ "superseded" \in Values /\ "incidents" \in Steps
        /\ Fits(rows, "superseded")
    BY <2>2, RowsDiffer, RowValueFacts DEF Values, NoteValues, Steps, Fits
  <2>4. \A r \in rows : r # State /\ r \notin Incidents
    BY <2>2, RowsDiffer
  <2> HIDE DEF rows
  <2>5. PICK x : x = Rewritten(y, rows, "superseded", "incidents")
    OBVIOUS
  <2>6. tx' = [tx EXCEPT ![d] = x]
    BY <2>1, <2>5 DEF Rewrite
  <2>7. IsRewrite(x, y, rows, "superseded", "incidents")
    BY <1>1, <2>3, <2>5, RewriteRecord
  <2>8. DeleteProgress(x)
    BY <2>2, <2>7 DEF IsRewrite, DeleteProgress
  <2>9. DeleterOK(x)
    BY <1>1, <2>4, <2>7, <2>8 DEF IsRewrite, DeleterOK
  <2>10. x \in TxStates /\ WritesOK(x) /\ (State \in x.locks => State \in y.locks)
    BY <2>4, <2>7 DEF IsRewrite
  <2> QED
    BY <1>1, <1>2, <2>6, <2>9, <2>10, DeleterMoves
<1>4. CASE ResolveIncidents(d)
  <2> DEFINE rows == StillOpen(d)
  <2>1. y.step = "incidents_wait" /\ Rewrite(d, rows, "resolved", "state")
    BY <1>4 DEF ResolveIncidents, At
  <2>2. rows \subseteq Incidents /\ OpenIncidents \subseteq rows
    BY <1>1, <2>1 DEF DeleteProgress, StillOpen, OpenIncidents
  <2>3. /\ rows \in SUBSET Rows /\ "resolved" \in Values /\ "state" \in Steps
        /\ Fits(rows, "resolved")
    BY <2>2, RowsDiffer, RowValueFacts DEF Values, IncidentValues, Steps, Fits
  <2>4. \A r \in rows : r # State /\ r \notin Notes /\ r \notin LiveDown
    BY <2>2, RowsDiffer DEF LiveDown
  <2> HIDE DEF rows
  <2>5. PICK x : x = Rewritten(y, rows, "resolved", "state")
    OBVIOUS
  <2>6. tx' = [tx EXCEPT ![d] = x]
    BY <2>1, <2>5 DEF Rewrite
  <2>7. IsRewrite(x, y, rows, "resolved", "state")
    BY <1>1, <2>3, <2>5, RewriteRecord
  <2>8. DeleteProgress(x)
    <3>1. \A n \in LiveDown : n \in DOMAIN y.new /\ y.new[n] = "superseded"
      BY <1>1, <2>1 DEF DeleteProgress
    <3> QED
      BY <2>2, <2>4, <2>7, <3>1 DEF IsRewrite, DeleteProgress
  <2>9. DeleterOK(x)
    BY <1>1, <2>4, <2>7, <2>8 DEF IsRewrite, DeleterOK
  <2>10. x \in TxStates /\ WritesOK(x) /\ (State \in x.locks => State \in y.locks)
    BY <2>4, <2>7 DEF IsRewrite
  <2> QED
    BY <1>1, <1>2, <2>6, <2>9, <2>10, DeleterMoves
<1>5. CASE DeleteState(d)
  <2> DEFINE rows == y.targets
  <2>1. y.step = "state_wait" /\ Rewrite(d, rows, "absent", "commit")
    BY <1>5 DEF DeleteState, At
  <2>2. rows = {State} \/ (rows = {} /\ db[State] = "absent")
    BY <1>1, <2>1 DEF DeleteProgress
  <2>3. /\ rows \in SUBSET Rows /\ "absent" \in Values /\ "commit" \in Steps
        /\ Fits(rows, "absent")
    BY <2>2, RowsDiffer, RowValueFacts DEF Values, StateValues, Steps, Fits
  <2>4. \A r \in rows : r \notin Incidents /\ r \notin Notes
    BY <2>2, RowsDiffer
  <2>5. State \in rows => State \notin tx[Ingest].locks
    <3>1. d \in Txs /\ Ingest \in Txs /\ d # Ingest
      BY DeleterFacts
    <3>2. Wants(d) \cap tx[Ingest].locks = {} /\ Wants(d) = rows
      BY <1>2, <2>1, <3>1, NotBlocked, WantsFacts
    <3> QED
      BY <3>2
  <2> HIDE DEF rows
  <2>6. PICK x : x = Rewritten(y, rows, "absent", "commit")
    OBVIOUS
  <2>7. tx' = [tx EXCEPT ![d] = x]
    BY <2>1, <2>6 DEF Rewrite
  <2>8. IsRewrite(x, y, rows, "absent", "commit")
    BY <1>1, <2>3, <2>6, RewriteRecord
  <2>9. DeleteProgress(x)
    <3>1. /\ \A n \in LiveDown : n \in DOMAIN y.new /\ y.new[n] = "superseded"
          /\ \A r \in OpenIncidents : r \in DOMAIN y.new /\ y.new[r] = "resolved"
      BY <1>1, <2>1 DEF DeleteProgress
    <3>2. \A r \in LiveDown \cup OpenIncidents : r \notin rows
      BY <2>4, RowsDiffer DEF LiveDown, OpenIncidents
    <3> QED
      BY <2>2, <2>8, <3>1, <3>2 DEF IsRewrite, DeleteProgress
  <2>10. DeleterOK(x)
    BY <1>1, <2>4, <2>8, <2>9 DEF IsRewrite, DeleterOK
  <2>11. /\ x \in TxStates /\ WritesOK(x)
         /\ State \in x.locks => State \in y.locks \/ State \in rows
    BY <2>8 DEF IsRewrite
  <2> QED
    BY <1>1, <1>2, <2>5, <2>7, <2>10, <2>11, DeleterMoves
<1> QED
  BY <1>3, <1>4, <1>5

----------------------------------------------------------------------------
(* Commit and abort *)

\* The committed rows after a commit
LEMMA CommitEffect ==
  ASSUME RowLocksInv, NEW t \in Txs, Commit(t)
  PROVE  /\ \A r \in Rows :
              db'[r] = IF r \in DOMAIN tx[t].new THEN tx[t].new[r] ELSE db[r]
         /\ RowTypes' /\ SendingExists'
         /\ tx'[t] = NoTx /\ \A u \in Txs : u # t => tx'[u] = tx[u]
<1> DEFINE y == tx[t]
<1>1. db' = Over(y.new, db) /\ tx' = [tx EXCEPT ![t] = NoTx] /\ sending' = sending
  BY DEF Commit
<1>2. y \in TxStates /\ WritesOK(y) /\ y.new \in Writes
  BY TxFacts
<1>3. DOMAIN y.new \subseteq Rows /\ \A r \in DOMAIN y.new : y.new[r] \in Values
  BY <1>2, WritesFacts
<1>4. db \in [Rows -> Values] /\ \A r \in Rows : db[r] \in RowValues(r)
  BY DEF RowLocksInv, RowTypes
<1>5. db' = [r \in DOMAIN y.new \cup DOMAIN db |->
               IF r \in DOMAIN y.new THEN y.new[r] ELSE db[r]]
  BY <1>1 DEF Over
<1>6. DOMAIN y.new \cup DOMAIN db = Rows
  BY <1>3, <1>4
<1>7. \A r \in Rows : db'[r] = IF r \in DOMAIN y.new THEN y.new[r] ELSE db[r]
  BY <1>5, <1>6
<1>8. db' \in [Rows -> Values]
  BY <1>3, <1>4, <1>5, <1>6
<1>9. \A r \in Rows : db'[r] \in RowValues(r)
  BY <1>2, <1>4, <1>7 DEF WritesOK
<1>10. /\ tx' \in [Txs -> TxStates] /\ tx'[t] = NoTx
       /\ \A u \in Txs : u # t => tx'[u] = tx[u]
  BY <1>1, NoTxOK DEF RowLocksInv, RowTypes
<1>11. RowTypes'
  <2>1. \A u \in Txs : WritesOK(tx[u])'
    BY <1>10, NoTxOK DEF RowLocksInv, RowTypes, WritesOK
  <2> QED
    BY <1>1, <1>8, <1>9, <1>10, <2>1 DEF RowLocksInv, RowTypes, RowValues
<1>12. SendingExists'
  <2>1. sending \subseteq Rows
    BY RowsDiffer DEF RowLocksInv, RowTypes
  <2> QED
    BY <1>1, <1>2, <1>7, <2>1 DEF RowLocksInv, SendingExists, WritesOK
<1> QED
  BY <1>7, <1>10, <1>11, <1>12

\* A result is committed: while a delete holds the check it opens no incident,
\* queues no down alert and creates no state row.
LEMMA CommitIngestKeeps ==
  ASSUME RowLocksInv, Commit(Ingest)
  PROVE  RowLocksInv'
<1> DEFINE y == tx[Ingest]
<1>1. Ingest \in Txs /\ IngestOK(y) /\ \A d \in Deleters : d \in Txs /\ d # Ingest
  BY RowLocksAssumption DEF Txs, RowLocksInv
<1>2. /\ \A r \in Rows : db'[r] = IF r \in DOMAIN y.new THEN y.new[r] ELSE db[r]
      /\ RowTypes' /\ SendingExists'
      /\ tx'[Ingest] = NoTx /\ \A d \in Deleters : tx'[d] = tx[d]
  BY <1>1, CommitEffect
<1>3. WritesOK(y) /\ y.step = "commit"
  BY <1>1, TxFacts DEF Commit
<1>4. Check \notin DOMAIN y.new /\ db'[Check] = db[Check]
  BY <1>1, <1>2, <1>3, RowsDiffer DEF IngestOK, WritesOK
<1>5. ~y.share \/ db[Check] # "active" =>
        OpenIncidents' \subseteq OpenIncidents /\ LiveDown' \subseteq LiveDown
  <2> SUFFICES ASSUME ~y.share \/ db[Check] # "active"
               PROVE  /\ \A r \in Incidents : db'[r] = "open" => db[r] = "open"
                      /\ \A n \in DownNotes : db'[n] \in LiveStates =>
                                                db[n] \in LiveStates
    BY DEF OpenIncidents, LiveDown
  <2> QED
    BY <1>1, <1>2, <1>3, RowsDiffer DEF IngestOK
<1>6. ~y.share /\ db[State] = "absent" => db'[State] = "absent"
  BY <1>1, <1>2, <1>3, RowsDiffer DEF IngestOK, WritesOK
<1>7. LocksExclude'
  BY <1>2, NoTxOK DEF RowLocksInv, LocksExclude
<1>8. IngestOK(tx[Ingest])'
  <2>1. /\ NoTx.step = "idle" /\ NoTx.locks = {} /\ DOMAIN NoTx.new = {}
        /\ NoTx = [NoTx EXCEPT !.step = NoTx.step, !.kind = NoTx.kind,
                               !.hook = NoTx.hook]
    BY DEF NoTx
  <2> QED
    BY <1>2, <2>1 DEF IngestOK, IngestSteps
<1>9. ASSUME NEW d \in Deleters PROVE DeleterOK(tx[d])'
  <2>1. DeleterOK(tx[d]) /\ tx'[d] = tx[d]
    BY <1>2 DEF RowLocksInv
  <2>2. CASE Check \notin tx[d].locks
    BY <2>1, <2>2 DEF DeleterOK
  <2>3. CASE Check \in tx[d].locks
    <3>1. ~y.share
      BY <2>3 DEF RowLocksInv, LocksExclude
    <3>2. /\ OpenIncidents' \subseteq OpenIncidents /\ LiveDown' \subseteq LiveDown
          /\ db[State] = "absent" => db'[State] = "absent"
      BY <1>5, <1>6, <3>1
    <3>3. DeleteProgress(tx[d])
      BY <2>1, <2>3 DEF DeleterOK
    <3>4. DeleteProgress(tx[d])'
      BY <2>1, <3>2, <3>3 DEF DeleteProgress
    <3> QED
      BY <2>1, <2>3, <3>4 DEF DeleterOK
  <2> QED
    BY <2>2, <2>3
<1>10. NoIncidentForDeletedCheck' /\ NoDownAlertForDeletedCheck'
  <2> SUFFICES ASSUME db[Check] = "deleted"
               PROVE  OpenIncidents' = {} /\ \A i \in Ids : db'[Note(i, "down")] \notin LiveStates
    BY <1>4 DEF NoIncidentForDeletedCheck, NoDownAlertForDeletedCheck
  <2>1. OpenIncidents' \subseteq OpenIncidents /\ LiveDown' \subseteq LiveDown
    BY <1>5
  <2>2. OpenIncidents = {} /\ LiveDown = {}
    BY DEF RowLocksInv, NoIncidentForDeletedCheck, NoDownAlertForDeletedCheck,
           LiveDown, DownNotes
  <2>3. LiveDown' = {}
    BY <2>1, <2>2
  <2> QED
    BY <2>1, <2>2, <2>3 DEF LiveDown, DownNotes
<1> QED
  BY <1>2, <1>7, <1>8, <1>9, <1>10 DEF RowLocksInv

\* A delete is committed: no result is past its first statement, since either
\* the delete holds the state row or there was none and the result would hold
\* the check.
LEMMA CommitDeleteKeeps ==
  ASSUME RowLocksInv, NEW d \in Deleters, Commit(d)
  PROVE  RowLocksInv'
<1> DEFINE y == tx[d]
           z == tx[Ingest]
<1>1. /\ d \in Txs /\ d # Ingest /\ Ingest \in Txs /\ \A e \in Deleters : e \in Txs
      /\ DeleterOK(y) /\ WritesOK(y) /\ IngestOK(z)
  BY DeleterFacts DEF Txs, RowLocksInv
<1>2. /\ \A r \in Rows : db'[r] = IF r \in DOMAIN y.new THEN y.new[r] ELSE db[r]
      /\ RowTypes' /\ SendingExists'
      /\ tx'[d] = NoTx /\ tx'[Ingest] = z
      /\ \A e \in Deleters : e # d => tx'[e] = tx[e]
  BY <1>1, CommitEffect
<1>3. y.step = "commit"
  BY DEF Commit
<1>4. LocksExclude'
  BY <1>2, NoTxOK DEF RowLocksInv, LocksExclude
<1>5. OpenIncidents' \subseteq OpenIncidents /\ LiveDown' \subseteq LiveDown
  <2>1. "superseded" \notin LiveStates
    BY DEF LiveStates
  <2>2. \A r \in Incidents : db'[r] = "open" => db[r] = "open"
    BY <1>1, <1>2, RowsDiffer DEF DeleterOK
  <2>3. \A n \in DownNotes : db'[n] \in LiveStates => db[n] \in LiveStates
    BY <1>1, <1>2, <2>1, RowsDiffer DEF DeleterOK
  <2> QED
    BY <2>2, <2>3 DEF OpenIncidents, LiveDown
<1>6. DeleterOK(tx[d])'
  BY <1>2 DEF DeleterOK, NoTx
<1>7. CASE Check \notin y.locks
  <2>1. \A r \in Rows : db'[r] = db[r]
    BY <1>1, <1>2, <1>7 DEF DeleterOK
  <2>2. db'[Check] = db[Check] /\ db'[State] = db[State]
    BY <2>1, RowsDiffer
  <2>3. OpenIncidents' = OpenIncidents /\ LiveDown' = LiveDown
    BY <2>1, RowsDiffer DEF OpenIncidents, LiveDown
  <2>4. IngestOK(tx[Ingest])'
    BY <1>1, <1>2, <2>2 DEF IngestOK
  <2>5. ASSUME NEW e \in Deleters, e # d PROVE DeleterOK(tx[e])'
    BY <1>2, <2>2, <2>3, <2>5 DEF RowLocksInv, DeleterOK, DeleteProgress
  <2>6. \A i \in Ids : Note(i, "down") \in Rows
    BY RowsDiffer DEF DownNotes
  <2>7. NoIncidentForDeletedCheck' /\ NoDownAlertForDeletedCheck'
    BY <2>1, <2>2, <2>3, <2>6
    DEF RowLocksInv, NoIncidentForDeletedCheck, NoDownAlertForDeletedCheck
  <2>8. \A e \in Deleters : DeleterOK(tx[e])'
    BY <1>6, <2>5
  <2> QED
    BY <1>2, <1>4, <2>4, <2>7, <2>8 DEF RowLocksInv
<1>8. CASE Check \in y.locks
  <2>1. DeleteProgress(y) /\ ~z.share /\ \A e \in Deleters : e # d => Check \notin tx[e].locks
    BY <1>1, <1>8, DeleterFacts DEF DeleterOK
  <2>2. OpenIncidents' = {} /\ LiveDown' = {}
    <3>1. /\ \A n \in LiveDown : n \in DOMAIN y.new /\ y.new[n] = "superseded"
          /\ \A r \in OpenIncidents : r \in DOMAIN y.new /\ y.new[r] = "resolved"
      BY <1>3, <2>1 DEF DeleteProgress
    <3>2. \A n \in LiveDown : db'[n] = "superseded"
      BY <1>2, <3>1, RowsDiffer DEF LiveDown
    <3>3. \A r \in OpenIncidents : db'[r] = "resolved"
      BY <1>2, <3>1, RowsDiffer DEF OpenIncidents
    <3>4. /\ \A n \in LiveDown' : db'[n] \in LiveStates
          /\ \A r \in OpenIncidents' : db'[r] = "open"
      BY DEF LiveDown, OpenIncidents
    <3> QED
      BY <1>5, <3>2, <3>3, <3>4 DEF LiveStates
  <2>3. State \notin z.locks
    <3>1. State \in y.locks \/ db[State] = "absent"
      BY <1>3, <2>1 DEF DeleteProgress
    <3>2. State \in y.locks => State \notin z.locks
      BY DeleterFacts
    <3> QED
      BY <1>1, <2>1, <3>1, <3>2 DEF IngestOK
  <2>4. IngestOK(tx[Ingest])'
    <3>1. z.step \in {"idle", "upsert"}
      BY <1>1, <2>3 DEF IngestOK
    <3>2. DOMAIN z.new = {}
      BY <1>1, <3>1 DEF IngestOK, NoTx
    <3> QED
      BY <1>1, <1>2, <2>3, <3>1, <3>2 DEF IngestOK
  <2>5. ASSUME NEW e \in Deleters, e # d PROVE DeleterOK(tx[e])'
    BY <1>2, <2>1, <2>5 DEF RowLocksInv, DeleterOK
  <2>6. NoIncidentForDeletedCheck' /\ NoDownAlertForDeletedCheck'
    BY <2>2 DEF NoIncidentForDeletedCheck, NoDownAlertForDeletedCheck, LiveDown, DownNotes
  <2>7. \A e \in Deleters : DeleterOK(tx[e])'
    BY <1>6, <2>5
  <2> QED
    BY <1>2, <1>4, <2>4, <2>6, <2>7 DEF RowLocksInv
<1> QED
  BY <1>7, <1>8

\* Postgres ends a transaction: the deferred Rollback
LEMMA AbortKeeps ==
  ASSUME RowLocksInv, NEW t \in Txs, Abort(t)
  PROVE  RowLocksInv'
<1>1. tx' = [tx EXCEPT ![t] = NoTx] /\ UNCHANGED <<db, sending>>
  BY DEF Abort
<1>2. PICK x : x = NoTx
  OBVIOUS
<1>3. /\ x \in TxStates /\ WritesOK(x) /\ IngestOK(x) /\ DeleterOK(x)
      /\ x.locks = {} /\ ~x.share
  BY <1>2, NoTxOK
<1>4. CASE t = Ingest
  BY <1>1, <1>2, <1>3, <1>4, IngestMoves
<1>5. CASE t \in Deleters
  BY <1>1, <1>2, <1>3, <1>5, DeleterMoves
<1> QED
  BY <1>4, <1>5 DEF Txs

----------------------------------------------------------------------------
(* The Sender *)

\* No statement of the Sender brings a notification back to life.
LEMMA NoteMoves ==
  ASSUME RowLocksInv, NEW n \in Notes, NEW v \in NoteValues \ {"none"},
         v \in LiveStates => db[n] \in LiveStates,
         db' = [db EXCEPT ![n] = v], UNCHANGED tx,
         sending' \subseteq sending \cup {n}
  PROVE  RowLocksInv'
<1>1. /\ n \in Rows /\ n # Check /\ n # State /\ n \notin Incidents
      /\ RowValues(n) = NoteValues /\ v \in Values
  BY RowsDiffer, RowValueFacts DEF Values
<1>2. /\ db \in [Rows -> Values] /\ db' \in [Rows -> Values]
      /\ \A r \in Rows : db'[r] = IF r = n THEN v ELSE db[r]
  BY <1>1 DEF RowLocksInv, RowTypes
<1>3. db'[Check] = db[Check] /\ db'[State] = db[State]
  BY <1>1, <1>2, RowsDiffer
<1>4. OpenIncidents' = OpenIncidents
  BY <1>1, <1>2, RowsDiffer DEF OpenIncidents
<1>5. LiveDown' \subseteq LiveDown
  BY <1>2, RowsDiffer DEF LiveDown
<1>6. RowTypes'
  <2>1. \A r \in Rows : db'[r] \in RowValues(r)
    BY <1>1, <1>2 DEF RowLocksInv, RowTypes
  <2>2. \A t \in Txs : WritesOK(tx[t])'
    BY DEF RowLocksInv, RowTypes, WritesOK
  <2>3. sending' \subseteq Notes
    BY DEF RowLocksInv, RowTypes
  <2> QED
    BY <1>2, <2>1, <2>2, <2>3 DEF RowLocksInv, RowTypes
<1>7. LocksExclude'
  BY DEF RowLocksInv, LocksExclude
<1>8. SendingExists'
  <2>1. sending \subseteq Rows
    BY RowsDiffer DEF RowLocksInv, RowTypes
  <2> QED
    BY <1>2, <2>1 DEF RowLocksInv, SendingExists
<1>9. IngestOK(tx[Ingest])'
  BY <1>3 DEF RowLocksInv, IngestOK
<1>10. ASSUME NEW d \in Deleters PROVE DeleterOK(tx[d])'
  BY <1>3, <1>4, <1>5 DEF RowLocksInv, DeleterOK, DeleteProgress
<1>11. NoIncidentForDeletedCheck'
  BY <1>3, <1>4 DEF RowLocksInv, NoIncidentForDeletedCheck
<1>12. NoDownAlertForDeletedCheck'
  <2>1. \A i \in Ids : db'[Note(i, "down")] \in LiveStates => db[Note(i, "down")] \in LiveStates
    BY <1>5 DEF LiveDown, DownNotes
  <2> QED
    BY <1>3, <2>1 DEF RowLocksInv, NoDownAlertForDeletedCheck
<1> QED
  BY <1>6, <1>7, <1>8, <1>9, <1>10, <1>11, <1>12 DEF RowLocksInv

LEMMA SenderKeeps ==
  ASSUME RowLocksInv, NEW i \in Ids, NEW e \in Events,
         Claim(i, e) \/ MarkDelivered(i, e) \/ MarkRetry(i, e)
  PROVE  RowLocksInv'
<1>1. PICK n : n = Note(i, e)
  OBVIOUS
<1>2. n \in Notes
  BY <1>1 DEF Notes
<1>3. db[n] \in NoteValues
  BY <1>2, RowsDiffer, RowValueFacts DEF RowLocksInv, RowTypes
<1>4. CASE Claim(i, e)
  <2>1. /\ db[n] \in LiveStates /\ db' = [db EXCEPT ![n] = "processing"]
        /\ sending' = sending \cup {n} /\ UNCHANGED tx
    BY <1>1, <1>4 DEF Claim, ClaimNote
  <2>2. "processing" \in NoteValues \ {"none"}
    BY DEF NoteValues, LiveStates
  <2> QED
    BY <1>2, <2>1, <2>2, NoteMoves
<1>5. CASE MarkDelivered(i, e)
  <2>1. PICK v : v = IF db[n] = "processing" THEN "delivered" ELSE db[n]
    OBVIOUS
  <2>2. /\ n \in sending /\ db' = [db EXCEPT ![n] = v]
        /\ sending' = sending \ {n} /\ UNCHANGED tx
    BY <1>1, <1>5, <2>1 DEF MarkDelivered, DeliverNote
  <2>3. db[n] # "none"
    BY <2>2 DEF RowLocksInv, SendingExists
  <2>4. v \in NoteValues \ {"none"} /\ (v \in LiveStates => db[n] \in LiveStates)
    BY <1>3, <2>1, <2>3 DEF NoteValues, LiveStates
  <2> QED
    BY <1>2, <2>2, <2>4, NoteMoves
<1>6. CASE MarkRetry(i, e)
  <2>1. PICK v : v = IF db[n] = "delivered" THEN db[n] ELSE RetryState(i, e)
    OBVIOUS
  <2>2. /\ n \in sending /\ db' = [db EXCEPT ![n] = v]
        /\ sending' = sending \ {n} /\ UNCHANGED tx
    BY <1>1, <1>6, <2>1 DEF MarkRetry, RetryNote
  <2>3. db[n] # "none"
    BY <2>2 DEF RowLocksInv, SendingExists
  <2>4. v \in NoteValues \ {"none"} /\ (v \in LiveStates => db[n] \in LiveStates)
    BY <1>1, <1>3, <2>1, <2>3 DEF NoteValues, LiveStates, RetryState
  <2> QED
    BY <1>2, <2>2, <2>4, NoteMoves
<1> QED
  BY <1>4, <1>5, <1>6

----------------------------------------------------------------------------
(* The rows that a transaction has written stay as it found them.  First   *)
(* the steps that leave the committed rows alone.                          *)

\* The names of rows tell them apart.
LEMMA RowNames ==
  ASSUME NEW i \in Ids
  PROVE  /\ Incident(i) \in Incidents /\ Incident(i) \in Rows
         /\ \A e \in Events : Note(i, e) \in Notes /\ Note(i, e) \in Rows
         /\ Note(i, "down") \in DownNotes /\ Note(i, "up") \notin DownNotes
         /\ Note(i, "down") # Note(i, "up")
         /\ \A j \in Ids : /\ Incident(i) = Incident(j) => i = j
                           /\ \A e, f \in Events : Note(i, e) = Note(j, f) => i = j /\ e = f
<1>1. Incident(i) \in Incidents /\ \A e \in Events : Note(i, e) \in Notes
  BY DEF Incidents, Notes
<1>2. \A j \in Ids : Incident(i) = Incident(j) => i = j
  BY DEF Incident
<1>3. \A j \in Ids : \A e, f \in Events : Note(i, e) = Note(j, f) => i = j /\ e = f
  BY DEF Note
<1>4. Note(i, "down") \in DownNotes
  BY DEF DownNotes
<1>5. Note(i, "up") \notin DownNotes /\ Note(i, "down") # Note(i, "up")
  BY <1>3 DEF DownNotes, Events
<1> QED
  BY <1>1, <1>2, <1>3, <1>4, <1>5, RowsDiffer

\* What the invariants say of the ingesting transaction
LEMMA IngestFacts ==
  ASSUME RowLocksInv, AtomicInv
  PROVE  /\ Ingest \in Txs /\ \A d \in Deleters : d \in Txs /\ d # Ingest
         /\ tx[Ingest] \in TxStates /\ WritesOK(tx[Ingest])
         /\ IngestOK(tx[Ingest]) /\ IngestWrites(tx[Ingest])
         /\ tx[Ingest].locks = DOMAIN tx[Ingest].new
         /\ \A d \in Deleters : tx[Ingest].locks \cap tx[d].locks = {}
<1>1. Ingest \in Txs /\ \A d \in Deleters : d \in Txs /\ d # Ingest
  BY RowLocksAssumption DEF Txs
<1>2. tx[Ingest] \in TxStates /\ WritesOK(tx[Ingest])
  BY <1>1, TxFacts
<1> QED
  BY <1>1, <1>2 DEF RowLocksInv, AtomicInv, LocksAreWrites, RowsExclude

\* A row that does not exist yet is not locked by a delete.
LEMMA NewRowsFree ==
  ASSUME RowLocksInv, AtomicInv, NEW d \in Deleters,
         NEW r \in Incidents \cup Notes, db[r] = "none"
  PROVE  r \notin tx[d].locks
<1>1. tx[d].locks = DOMAIN tx[d].new /\ DeleteWrites(tx[d])
  BY DEF AtomicInv, LocksAreWrites, Txs
<1> QED
  BY <1>1 DEF DeleteWrites, LiveStates

LEMMA IngestMovesAtomic ==
  ASSUME RowLocksInv, AtomicInv, NEW x,
         tx' = [tx EXCEPT ![Ingest] = x], UNCHANGED db,
         x.locks = DOMAIN x.new, \A d \in Deleters : x.locks \cap tx[d].locks = {},
         IngestWrites(x)
  PROVE  AtomicInv'
<1>1. tx'[Ingest] = x /\ \A d \in Deleters : tx'[d] = tx[d]
  BY RowLocksAssumption DEF RowLocksInv, RowTypes, Txs
<1>2. LocksAreWrites'
  BY <1>1 DEF AtomicInv, LocksAreWrites, Txs
<1>3. RowsExclude'
  BY <1>1 DEF AtomicInv, RowsExclude, Txs
<1>4. IncidentRows'
  BY DEF AtomicInv, IncidentRows, OpenIncidents
<1>5. IngestWrites(tx[Ingest])'
  BY <1>1 DEF IngestWrites, Opens, Resolves, StaleNotes, OpenIncidents
<1>6. ASSUME NEW d \in Deleters PROVE DeleteWrites(tx[d])'
  BY <1>1 DEF AtomicInv, DeleteWrites
<1> QED
  BY <1>2, <1>3, <1>4, <1>5, <1>6 DEF AtomicInv

LEMMA DeleterMovesAtomic ==
  ASSUME RowLocksInv, AtomicInv, NEW d \in Deleters, NEW x,
         tx' = [tx EXCEPT ![d] = x], UNCHANGED db,
         x.locks = DOMAIN x.new,
         \A u \in Txs : u # d => x.locks \cap tx[u].locks = {},
         DeleteWrites(x)
  PROVE  AtomicInv'
<1>1. /\ tx'[d] = x /\ tx'[Ingest] = tx[Ingest]
      /\ \A u \in Txs : u # d => tx'[u] = tx[u]
  BY RowLocksAssumption DEF RowLocksInv, RowTypes, Txs
<1>2. LocksAreWrites'
  BY <1>1 DEF AtomicInv, LocksAreWrites
<1>3. RowsExclude'
  BY <1>1 DEF AtomicInv, RowsExclude
<1>4. IncidentRows'
  BY DEF AtomicInv, IncidentRows, OpenIncidents
<1>5. IngestWrites(tx[Ingest])'
  BY <1>1 DEF AtomicInv, IngestWrites, Opens, Resolves, StaleNotes, OpenIncidents
<1>6. ASSUME NEW e \in Deleters PROVE DeleteWrites(tx[e])'
  BY <1>1 DEF AtomicInv, DeleteWrites, Txs
<1> QED
  BY <1>2, <1>3, <1>4, <1>5, <1>6 DEF AtomicInv

\* A transaction that has no locks
LEMMA FreshAtomic ==
  ASSUME RowLocksInv, AtomicInv, NEW t \in Txs, NEW x,
         tx' = [tx EXCEPT ![t] = x], UNCHANGED db,
         x.locks = {}, DOMAIN x.new = {}, t = Ingest => x.step \in {"idle", "upsert"}
  PROVE  AtomicInv'
<1>1. CASE t = Ingest
  <2>1. IngestWrites(x)
    BY <1>1 DEF IngestWrites
  <2> QED
    BY <1>1, <2>1, IngestMovesAtomic
<1>2. CASE t \in Deleters
  <2>1. DeleteWrites(x)
    BY DEF DeleteWrites
  <2> QED
    BY <1>2, <2>1, DeleterMovesAtomic
<1> QED
  BY <1>1, <1>2 DEF Txs

\* A statement of a result that looks for rows
LEMMA IngestScansAtomic ==
  ASSUME RowLocksInv, AtomicInv, NEW rows \in SUBSET Rows, NEW next \in Steps,
         Scan(Ingest, rows, next), UNCHANGED db,
         \A x : /\ x.step = next /\ x.targets = rows /\ x.new = tx[Ingest].new
                => IngestWrites(x)
  PROVE  AtomicInv'
<1>1. PICK x : x = Scanned(tx[Ingest], rows, next)
  OBVIOUS
<1>2. /\ x.step = next /\ x.targets = rows
      /\ x.locks = tx[Ingest].locks /\ x.new = tx[Ingest].new
  BY <1>1, IngestFacts, ScanRecord
<1>3. tx' = [tx EXCEPT ![Ingest] = x]
  BY <1>1 DEF Scan
<1>4. IngestWrites(x)
  BY <1>2
<1> QED
  BY <1>2, <1>3, <1>4, IngestFacts, IngestMovesAtomic

LEMMA UpsertStateAtomic ==
  ASSUME RowLocksInv, AtomicInv, UpsertState
  PROVE  AtomicInv'
<1> DEFINE y == tx[Ingest]
<1>1. /\ y \in TxStates /\ WritesOK(y) /\ IngestOK(y) /\ y.locks = DOMAIN y.new
      /\ Ingest \in Txs /\ \A d \in Deleters : d \in Txs /\ d # Ingest
  BY IngestFacts
<1>2. y.step = "upsert" /\ Blockers(Ingest) = {} /\ UNCHANGED db
  BY DEF UpsertState, At
<1>3. DOMAIN y.new = {}
  BY <1>1, <1>2 DEF IngestOK, NoTx
<1>4. \A d \in Deleters : State \notin tx[d].locks
  BY <1>1, <1>2, NotBlocked, WantsFacts
<1>5. AfterUpsert \in {"commit", "open", "resolve"} /\ AfterUpsert \in Steps
  BY <1>1 DEF AfterUpsert, Steps, TxStates, TxRecords
<1>6. {State} \in SUBSET Rows /\ "present" \in Values /\ Fits({State}, "present")
  BY RowsDiffer, RowValueFacts DEF Values, StateValues, Fits
<1>7. PICK z : z = Rewritten(y, {State}, "present", AfterUpsert)
  OBVIOUS
<1>8. IsRewrite(z, y, {State}, "present", AfterUpsert)
  BY <1>1, <1>5, <1>6, <1>7, RewriteRecord
<1>9. PICK x : x = [z EXCEPT !.share = WantsShare(Ingest)]
  OBVIOUS
<1>10. tx' = [tx EXCEPT ![Ingest] = x]
  BY <1>7, <1>9 DEF UpsertState
<1>11. x.step = AfterUpsert /\ x.locks = z.locks /\ x.new = z.new
  BY <1>8, <1>9 DEF IsRewrite, TxStates, TxRecords
<1>12. x.locks = {State} /\ DOMAIN x.new = {State} /\ x.new[State] = "present"
  BY <1>1, <1>3, <1>8, <1>11 DEF IsRewrite
<1>13. IngestWrites(x)
  BY <1>5, <1>11, <1>12 DEF IngestWrites
<1> QED
  BY <1>2, <1>4, <1>10, <1>12, <1>13, IngestMovesAtomic

LEMMA SelectCheckAtomic ==
  ASSUME RowLocksInv, AtomicInv, SelectCheck
  PROVE  AtomicInv'
<1> DEFINE next == IF db[Check] = "deleted" THEN "commit" ELSE "insert"
<1>1. tx[Ingest].step = "open" /\ UNCHANGED db /\ Scan(Ingest, {}, next)
  BY DEF SelectCheck, At
<1>2. next \in {"commit", "insert"} /\ next \in Steps
  BY DEF Steps
<1> HIDE DEF next
<1>3. ASSUME NEW x, x.step = next, x.new = tx[Ingest].new PROVE IngestWrites(x)
  BY <1>1, <1>2, <1>3, IngestFacts DEF IngestWrites
<1> QED
  BY <1>1, <1>2, <1>3, IngestScansAtomic

\* What a statement of a result that writes one kind of rows must show
LEMMA IngestRewritesAtomic ==
  ASSUME RowLocksInv, AtomicInv, NEW rows \in SUBSET Rows, NEW next \in Steps,
         NEW v \in Values, Fits(rows, v), UNCHANGED db,
         Rewrite(Ingest, rows, v, next),
         \A d \in Deleters : rows \cap tx[d].locks = {},
         \A x : IsRewrite(x, tx[Ingest], rows, v, next) => IngestWrites(x)
  PROVE  AtomicInv'
<1> DEFINE y == tx[Ingest]
<1>1. PICK x : x = Rewritten(y, rows, v, next)
  OBVIOUS
<1>2. IsRewrite(x, y, rows, v, next)
  BY <1>1, IngestFacts, RewriteRecord
<1>3. tx' = [tx EXCEPT ![Ingest] = x]
  BY <1>1 DEF Rewrite
<1>4. x.locks = DOMAIN x.new /\ \A d \in Deleters : x.locks \cap tx[d].locks = {}
  BY <1>2, IngestFacts DEF IsRewrite
<1>5. IngestWrites(x)
  BY <1>2
<1> QED
  BY <1>3, <1>4, <1>5, IngestMovesAtomic

LEMMA InsertIncidentAtomic ==
  ASSUME RowLocksInv, AtomicInv, InsertIncident
  PROVE  AtomicInv'
<1> DEFINE y == tx[Ingest]
<1>1. y.step = "insert" /\ UNCHANGED db
  BY DEF InsertIncident, At
<1>2. DOMAIN y.new = {State} /\ y.new[State] = "present"
  BY <1>1, IngestFacts DEF IngestWrites
<1>3. CASE Scan(Ingest, {}, "commit")
  <2>1. "commit" \in Steps
    BY DEF Steps
  <2>2. ASSUME NEW x, x.step = "commit", x.new = y.new PROVE IngestWrites(x)
    BY <1>2, <2>2 DEF IngestWrites
  <2> QED
    BY <1>1, <1>3, <2>1, <2>2, IngestScansAtomic
<1>4. ASSUME NEW i \in FreeIds, OpenIncidents = {},
             Rewrite(Ingest, {Incident(i)}, "open", "fk")
      PROVE  AtomicInv'
  <2>1. i \in Ids /\ db[Incident(i)] = "none"
    BY DEF FreeIds
  <2>2. Incident(i) \in Incidents /\ Incident(i) # State
    BY <2>1, RowNames, RowsDiffer
  <2>3. /\ {Incident(i)} \in SUBSET Rows /\ "fk" \in Steps /\ "open" \in Values
        /\ Fits({Incident(i)}, "open")
    BY <2>2, RowsDiffer, RowValueFacts DEF Fits, Steps, Values, IncidentValues
  <2>4. \A d \in Deleters : {Incident(i)} \cap tx[d].locks = {}
    BY <2>1, <2>2, NewRowsFree
  <2>5. ASSUME NEW x, IsRewrite(x, y, {Incident(i)}, "open", "fk")
        PROVE  IngestWrites(x)
    <3>1. /\ x.step = "fk" /\ DOMAIN x.new = {State, Incident(i)} \cup {}
          /\ x.new[Incident(i)] = "open" /\ x.new[State] = "present"
      BY <1>2, <2>2, <2>5 DEF IsRewrite
    <3>2. Opens(x, i, {})
      BY <1>4, <2>1, <3>1 DEF Opens
    <3> QED
      BY <2>1, <3>1, <3>2 DEF IngestWrites
  <2> QED
    BY <1>1, <1>4, <2>3, <2>4, <2>5, IngestRewritesAtomic
<1> QED
  BY <1>3, <1>4 DEF InsertIncident

\* The notifications of the one incident that a result touches
LEMMA TouchedFacts ==
  ASSUME NEW i \in Ids, DOMAIN tx[Ingest].new = {State, Incident(i)},
         NEW event \in Events
  PROVE  Touched = {i} /\ NewNotes(event) \subseteq {Note(i, event)}
<1>1. Touched = {i}
  <2>1. \A j \in Ids : Incident(j) # State
    BY RowNames, RowsDiffer
  <2> QED
    BY <2>1, RowNames DEF Touched
<1> QED
  BY <1>1 DEF NewNotes

LEMMA ReferToCheckAtomic ==
  ASSUME RowLocksInv, AtomicInv, ReferToCheck
  PROVE  AtomicInv'
<1> DEFINE y == tx[Ingest]
           rows == NewNotes("down")
<1>1. y.step = "fk" /\ UNCHANGED db
  BY DEF ReferToCheck, At
<1>2. y \in TxStates /\ WritesOK(y) /\ y.locks = DOMAIN y.new /\ y.new[State] = "present"
  BY <1>1, IngestFacts DEF IngestWrites
<1>3. PICK i \in Ids : Opens(y, i, {})
  BY <1>1, IngestFacts DEF IngestWrites
<1>4. /\ DOMAIN y.new = {State, Incident(i)} /\ y.new[Incident(i)] = "open"
      /\ OpenIncidents = {} /\ db[Incident(i)] = "none"
  BY <1>3 DEF Opens
<1>5. rows \subseteq {Note(i, "down")}
  BY <1>4, TouchedFacts DEF Events
<1>6. Note(i, "down") \in Notes /\ Note(i, "down") \notin {State, Incident(i)}
  BY RowNames, RowsDiffer DEF Events
<1>7. /\ rows \in SUBSET Rows /\ "pending" \in Values /\ "commit" \in Steps
      /\ Fits(rows, "pending") /\ rows \in SUBSET Notes
  BY <1>5, <1>6, RowsDiffer, RowValueFacts DEF Values, NoteValues, LiveStates, Steps, Fits
<1>8. \A d \in Deleters : rows \cap tx[d].locks = {}
  <2>1. db[Note(i, "down")] = "none"
    BY <1>4 DEF AtomicInv, IncidentRows
  <2> QED
    BY <1>5, <1>6, <2>1, NewRowsFree
<1>9. PICK z : z = Rewritten(y, rows, "pending", "commit")
  OBVIOUS
<1>10. PICK x : x = [z EXCEPT !.share = TRUE]
  OBVIOUS
<1>11. tx' = [tx EXCEPT ![Ingest] = x]
  BY <1>9, <1>10 DEF ReferToCheck
<1> HIDE DEF rows
<1>12. IsRewrite(z, y, rows, "pending", "commit")
  BY <1>2, <1>7, <1>9, RewriteRecord
<1>13. x.step = "commit" /\ x.locks = z.locks /\ x.new = z.new
  BY <1>10, <1>12 DEF IsRewrite, TxStates, TxRecords
<1>14. /\ x.locks = y.locks \cup rows /\ DOMAIN x.new = {State, Incident(i)} \cup rows
       /\ x.new[State] = "present" /\ x.new[Incident(i)] = "open"
       /\ \A n \in rows : x.new[n] = "pending"
  BY <1>2, <1>4, <1>5, <1>6, <1>12, <1>13 DEF IsRewrite
<1>15. IngestWrites(x)
  <2>1. Opens(x, i, rows)
    BY <1>4, <1>5, <1>14 DEF Opens
  <2> QED
    BY <1>7, <1>13, <1>14, <2>1 DEF IngestWrites
<1>16. x.locks = DOMAIN x.new /\ \A d \in Deleters : x.locks \cap tx[d].locks = {}
  BY <1>2, <1>4, <1>8, <1>14, IngestFacts
<1> QED
  BY <1>1, <1>11, <1>15, <1>16, IngestMovesAtomic

LEMMA ScanOpenAtomic ==
  ASSUME RowLocksInv, AtomicInv, ScanOpen
  PROVE  AtomicInv'
<1>1. tx[Ingest].step = "resolve" /\ UNCHANGED db
      /\ Scan(Ingest, OpenIncidents, "resolve_wait")
  BY DEF ScanOpen, At
<1>2. OpenIncidents \in SUBSET Rows /\ "resolve_wait" \in Steps
  BY RowsDiffer DEF OpenIncidents, Steps
<1>3. ASSUME NEW x, x.step = "resolve_wait", x.new = tx[Ingest].new
      PROVE  IngestWrites(x)
  BY <1>1, <1>3, IngestFacts DEF IngestWrites
<1> QED
  BY <1>1, <1>2, <1>3, IngestScansAtomic

LEMMA ResolveOpenAtomic ==
  ASSUME RowLocksInv, AtomicInv, ResolveOpen
  PROVE  AtomicInv'
<1> DEFINE y == tx[Ingest]
           rows == StillOpen(Ingest)
           next == IF rows = {} THEN "commit" ELSE "supersede"
<1>1. /\ y.step = "resolve_wait" /\ UNCHANGED db /\ Blockers(Ingest) = {}
      /\ Rewrite(Ingest, rows, "resolved", next)
  BY DEF ResolveOpen, At
<1>2. DOMAIN y.new = {State} /\ y.new[State] = "present" /\ y.targets \subseteq Incidents
  BY <1>1, IngestFacts DEF IngestWrites, IngestOK
<1>3. rows \subseteq y.targets /\ rows \subseteq OpenIncidents
  BY <1>2 DEF StillOpen, OpenIncidents
<1>4. \A r \in rows : r \in Incidents /\ r # State
  BY <1>2, <1>3, RowsDiffer
<1>5. /\ rows \in SUBSET Rows /\ "resolved" \in Values /\ Fits(rows, "resolved")
      /\ next \in Steps
  BY <1>4, RowsDiffer, RowValueFacts DEF Values, IncidentValues, Fits, Steps
<1>6. \A d \in Deleters : rows \cap tx[d].locks = {}
  <2>1. Wants(Ingest) = y.targets
    BY <1>1 DEF Wants
  <2>2. \A d \in Deleters : Wants(Ingest) \cap tx[d].locks = {}
    BY <1>1, IngestFacts, NotBlocked
  <2> QED
    BY <1>3, <2>1, <2>2
<1>7. rows = {} \/ \E i \in Ids : rows = {Incident(i)} /\ db[Incident(i)] = "open"
  <2>1. \A r, q \in rows : r = q
    BY <1>3 DEF AtomicInv, IncidentRows
  <2>2. \A r \in rows : \E i \in Ids : r = Incident(i) /\ db[r] = "open"
    BY <1>3 DEF OpenIncidents, Incidents
  <2> QED
    BY <2>1, <2>2
<1>8. (rows = {} => next = "commit") /\ (rows # {} => next = "supersede")
  OBVIOUS
<1> HIDE DEF rows, next
<1>9. ASSUME NEW x, IsRewrite(x, y, rows, "resolved", next) PROVE IngestWrites(x)
  <2>1. x.step = next /\ DOMAIN x.new = {State} \cup rows /\ x.new[State] = "present"
    BY <1>2, <1>4, <1>9 DEF IsRewrite
  <2>2. CASE rows = {}
    BY <1>8, <2>1, <2>2 DEF IngestWrites
  <2>3. ASSUME NEW i \in Ids, rows = {Incident(i)}, db[Incident(i)] = "open"
        PROVE  IngestWrites(x)
    <3>1. x.new[Incident(i)] = "resolved" /\ next = "supersede"
      BY <1>8, <1>9, <2>3 DEF IsRewrite
    <3>2. Resolves(x, i, {}, {})
      BY <2>1, <2>3, <3>1 DEF Resolves
    <3> QED
      BY <2>1, <3>1, <3>2 DEF IngestWrites
  <2> QED
    BY <1>7, <2>2, <2>3
<1> QED
  BY <1>1, <1>5, <1>6, <1>9, IngestRewritesAtomic

LEMMA ScanDownAtomic ==
  ASSUME RowLocksInv, AtomicInv, ScanDown
  PROVE  AtomicInv'
<1> DEFINE y == tx[Ingest]
<1>1. y.step = "supersede" /\ UNCHANGED db
  BY DEF ScanDown, At
<1>2. PICK i \in Ids : Resolves(y, i, {}, {})
  BY <1>1, IngestFacts DEF IngestWrites
<1>3. Touched = {i}
  BY <1>2, TouchedFacts DEF Resolves, Events
<1>4. Scan(Ingest, StaleNotes(i), "supersede_wait")
  BY <1>3 DEF ScanDown, StaleNotes
<1>5. StaleNotes(i) \in SUBSET Rows /\ "supersede_wait" \in Steps
  BY RowNames DEF StaleNotes, Steps, Events
<1>6. ASSUME NEW x, x.step = "supersede_wait", x.targets = StaleNotes(i), x.new = y.new
      PROVE  IngestWrites(x)
  <2>1. Resolves(x, i, {}, {})
    BY <1>2, <1>6 DEF Resolves
  <2>2. StaleNotes(i) \subseteq {Note(i, "down")} /\ \A n \in StaleNotes(i) : db[n] # "none"
    BY DEF StaleNotes
  <2> QED
    BY <1>1, <1>6, <2>1, <2>2, IngestFacts DEF IngestWrites
<1> QED
  BY <1>1, <1>4, <1>5, <1>6, IngestScansAtomic

LEMMA SupersedeDownAtomic ==
  ASSUME RowLocksInv, AtomicInv, SupersedeDown
  PROVE  AtomicInv'
<1> DEFINE y == tx[Ingest]
           stale == {n \in tx[Ingest].targets : db[n] # "delivered"}
           ups == NewNotes("up")
<1>1. y.step = "supersede_wait" /\ UNCHANGED db /\ Blockers(Ingest) = {}
  BY DEF SupersedeDown, At
<1>2. y \in TxStates /\ WritesOK(y) /\ y.locks = DOMAIN y.new /\ y.new[State] = "present"
  BY <1>1, IngestFacts DEF IngestWrites
<1>3. PICK i \in Ids : /\ Resolves(y, i, {}, {}) /\ StaleNotes(i) \subseteq y.targets
                       /\ y.targets \subseteq {Note(i, "down")}
                       /\ \A n \in y.targets : db[n] # "none"
  BY <1>1, IngestFacts DEF IngestWrites
<1>4. /\ DOMAIN y.new = {State, Incident(i)} /\ y.new[Incident(i)] = "resolved"
      /\ db[Incident(i)] = "open"
  BY <1>3 DEF Resolves
<1>5. stale = StaleNotes(i)
  BY <1>3 DEF StaleNotes
<1>6. ups \subseteq {Note(i, "up")} /\ stale \subseteq {Note(i, "down")}
  BY <1>3, <1>4, TouchedFacts DEF Events
<1>7. /\ Note(i, "down") \in Notes /\ Note(i, "up") \in Notes
      /\ Note(i, "down") # Note(i, "up")
      /\ Note(i, "down") \notin {State, Incident(i)}
      /\ Note(i, "up") \notin {State, Incident(i)}
  BY RowNames, RowsDiffer DEF Events
<1>8. /\ stale \in SUBSET Rows /\ "superseded" \in Values /\ Fits(stale, "superseded")
      /\ ups \in SUBSET Rows /\ "pending" \in Values /\ Fits(ups, "pending")
      /\ "commit" \in Steps /\ ups \in SUBSET Notes
  BY <1>6, <1>7, RowsDiffer, RowValueFacts
  DEF Values, NoteValues, LiveStates, Fits, Steps
<1>9. \A d \in Deleters : stale \cap tx[d].locks = {} /\ ups \cap tx[d].locks = {}
  <2>1. db[Note(i, "up")] = "none"
    BY <1>4 DEF AtomicInv, IncidentRows
  <2>2. \A d \in Deleters : ups \cap tx[d].locks = {}
    BY <1>6, <1>7, <2>1, NewRowsFree
  <2>3. Wants(Ingest) = y.targets
    BY <1>1 DEF Wants
  <2>4. \A d \in Deleters : y.targets \cap tx[d].locks = {}
    BY <1>1, <2>3, IngestFacts, NotBlocked
  <2> QED
    BY <2>2, <2>4
<1>10. tx' = [tx EXCEPT ![Ingest] =
        Rewritten(Rewritten(y, stale, "superseded", "commit"), ups, "pending", "commit")]
  BY DEF SupersedeDown
<1> HIDE DEF stale, ups
<1>11. PICK z : z = Rewritten(y, stale, "superseded", "commit")
  OBVIOUS
<1>12. IsRewrite(z, y, stale, "superseded", "commit")
  BY <1>2, <1>8, <1>11, RewriteRecord
<1>13. z \in TxStates /\ WritesOK(z)
  BY <1>12 DEF IsRewrite
<1>14. PICK x : x = Rewritten(z, ups, "pending", "commit")
  OBVIOUS
<1>15. IsRewrite(x, z, ups, "pending", "commit")
  BY <1>8, <1>13, <1>14, RewriteRecord
<1>16. /\ x.step = "commit" /\ x.locks = y.locks \cup stale \cup ups
       /\ DOMAIN x.new = {State, Incident(i)} \cup stale \cup ups
  BY <1>4, <1>12, <1>15 DEF IsRewrite
<1>17. \A n \in ups : x.new[n] = "pending"
  BY <1>15 DEF IsRewrite
<1>18. \A n \in stale : x.new[n] = "superseded"
  <2>1. \A n \in stale : n \notin ups
    BY <1>6, <1>7
  <2> QED
    BY <1>12, <1>15, <2>1 DEF IsRewrite
<1>19. x.new[State] = "present" /\ x.new[Incident(i)] = "resolved"
  <2>1. \A r \in {State, Incident(i)} : r \notin stale /\ r \notin ups
    BY <1>6, <1>7
  <2> QED
    BY <1>2, <1>4, <1>12, <1>15, <2>1 DEF IsRewrite
<1>20. IngestWrites(x)
  <2>1. Resolves(x, i, StaleNotes(i), ups)
    BY <1>4, <1>5, <1>6, <1>16, <1>17, <1>18, <1>19 DEF Resolves
  <2> QED
    BY <1>8, <1>16, <1>19, <2>1 DEF IngestWrites
<1>21. x.locks = DOMAIN x.new /\ \A d \in Deleters : x.locks \cap tx[d].locks = {}
  <2>1. \A d \in Deleters : y.locks \cap tx[d].locks = {}
    BY IngestFacts
  <2> QED
    BY <1>2, <1>4, <1>9, <1>16, <2>1
<1> QED
  BY <1>1, <1>10, <1>11, <1>14, <1>20, <1>21, IngestMovesAtomic

\* The statements of a delete, which leave no row behind that it has not locked
LEMMA DeleteFactsAtomic ==
  ASSUME RowLocksInv, AtomicInv, NEW d \in Deleters
  PROVE  /\ d \in Txs /\ tx[d] \in TxStates /\ WritesOK(tx[d]) /\ DeleteWrites(tx[d])
         /\ tx[d].locks = DOMAIN tx[d].new
         /\ \A u \in Txs : u # d => tx[d].locks \cap tx[u].locks = {}
BY DeleterFacts DEF AtomicInv, LocksAreWrites, RowsExclude

LEMMA DeleteScansAtomic ==
  ASSUME RowLocksInv, AtomicInv, NEW d \in Deleters,
         NEW rows \in SUBSET Rows, NEW next \in Steps, Scan(d, rows, next), UNCHANGED db
  PROVE  AtomicInv'
<1>1. PICK x : x = Scanned(tx[d], rows, next)
  OBVIOUS
<1>2. x.locks = tx[d].locks /\ x.new = tx[d].new
  BY <1>1, DeleteFactsAtomic, ScanRecord
<1>3. tx' = [tx EXCEPT ![d] = x]
  BY <1>1 DEF Scan
<1>4. DeleteWrites(x)
  BY <1>2, DeleteFactsAtomic DEF DeleteWrites
<1>5. x.locks = DOMAIN x.new /\ \A u \in Txs : u # d => x.locks \cap tx[u].locks = {}
  BY <1>2, DeleteFactsAtomic
<1> QED
  BY <1>3, <1>4, <1>5, DeleterMovesAtomic

LEMMA DeleteRewritesAtomic ==
  ASSUME RowLocksInv, AtomicInv, NEW d \in Deleters,
         NEW rows \in SUBSET Rows, NEW next \in Steps, NEW v \in Values, Fits(rows, v),
         Rewrite(d, rows, v, next), UNCHANGED db,
         rows \subseteq Wants(d), Blockers(d) = {},
         \A r \in rows : /\ r = Check => db[r] = "active" /\ v = "deleted"
                         /\ r = State => v = "absent"
                         /\ r \in Incidents => db[r] = "open"
                         /\ r \in Notes => db[r] \in LiveStates
  PROVE  AtomicInv'
<1> DEFINE y == tx[d]
<1>1. PICK x : x = Rewritten(y, rows, v, next)
  OBVIOUS
<1>2. IsRewrite(x, y, rows, v, next)
  BY <1>1, DeleteFactsAtomic, RewriteRecord
<1>3. tx' = [tx EXCEPT ![d] = x]
  BY <1>1 DEF Rewrite
<1>4. \A u \in Txs : u # d => rows \cap tx[u].locks = {}
  <2>1. \A u \in Txs : u # d => Wants(d) \cap tx[u].locks = {}
    BY DeleteFactsAtomic, NotBlocked
  <2> QED
    BY <2>1
<1>5. x.locks = DOMAIN x.new /\ \A u \in Txs : u # d => x.locks \cap tx[u].locks = {}
  BY <1>2, <1>4, DeleteFactsAtomic DEF IsRewrite
<1>6. DeleteWrites(x)
  <2> SUFFICES ASSUME NEW r \in DOMAIN x.new
               PROVE  /\ r = Check => db[r] = "active" /\ x.new[r] = "deleted"
                      /\ r = State => x.new[r] = "absent"
                      /\ r \in Incidents => db[r] = "open"
                      /\ r \in Notes => db[r] \in LiveStates
    BY DEF DeleteWrites
  <2>1. CASE r \in rows
    BY <1>2, <2>1 DEF IsRewrite
  <2>2. CASE r \notin rows
    <3>1. r \in DOMAIN y.new /\ x.new[r] = y.new[r] /\ DeleteWrites(y)
      BY <1>2, <2>2, DeleteFactsAtomic DEF IsRewrite
    <3> QED
      BY <3>1 DEF DeleteWrites
  <2> QED
    BY <2>1, <2>2
<1> QED
  BY <1>3, <1>5, <1>6, DeleterMovesAtomic

LEMMA DeleteStatementsAtomic ==
  ASSUME RowLocksInv, AtomicInv, NEW d \in Deleters,
         \/ LockCheck(d) \/ ScanNotes(d) \/ SupersedeNotes(d) \/ ScanIncidents(d)
         \/ ResolveIncidents(d) \/ ScanState(d) \/ DeleteState(d)
  PROVE  AtomicInv'
<1> DEFINE y == tx[d]
<1>1. UNCHANGED db /\ Blockers(d) = {}
  BY DEF LockCheck, ScanNotes, SupersedeNotes, ScanIncidents, ResolveIncidents,
         ScanState, DeleteState, At
<1>2. /\ y.step \in {"notes_wait", "incidents_wait", "state_wait"} =>
           Wants(d) = y.targets /\ DeleteProgress(y)
      /\ y.step = "select" => Wants(d) = {Check}
  BY DeleterFacts DEF Wants
<1>3. /\ LiveNotes \in SUBSET Rows /\ OpenIncidents \in SUBSET Rows
      /\ {r \in {State} : db[r] = "present"} \in SUBSET Rows /\ {} \in SUBSET Rows
      /\ {"notes", "notes_wait", "incidents", "incidents_wait", "state", "state_wait",
          "commit"} \subseteq Steps
  BY RowsDiffer DEF LiveNotes, OpenIncidents, Steps
<1>4. CASE LockCheck(d)
  <2>1. /\ {Check} \in SUBSET Rows /\ "deleted" \in Values /\ Fits({Check}, "deleted")
        /\ Check # State /\ Check \notin Incidents /\ Check \notin Notes
    BY RowsDiffer, RowValueFacts DEF Values, CheckValues, Fits
  <2>2. y.step = "select"
    BY <1>4 DEF LockCheck, At
  <2>3. CASE db[Check] = "active" /\ Rewrite(d, {Check}, "deleted", "notes")
    BY <1>1, <1>2, <1>3, <2>1, <2>2, <2>3, DeleteRewritesAtomic
  <2>4. CASE Scan(d, {}, "commit")
    BY <1>1, <1>3, <2>4, DeleteScansAtomic
  <2> QED
    BY <1>4, <2>3, <2>4 DEF LockCheck
<1>5. CASE ScanNotes(d) \/ ScanIncidents(d) \/ ScanState(d)
  BY <1>1, <1>3, <1>5, DeleteScansAtomic DEF ScanNotes, ScanIncidents, ScanState
<1>6. CASE SupersedeNotes(d)
  <2> DEFINE rows == y.targets \cap LiveNotes
  <2>1. y.step = "notes_wait" /\ Rewrite(d, rows, "superseded", "incidents")
    BY <1>6 DEF SupersedeNotes, At
  <2>2. rows \subseteq Notes /\ \A r \in rows : db[r] \in LiveStates
    BY DEF LiveNotes
  <2>3. /\ rows \in SUBSET Rows /\ "superseded" \in Values /\ Fits(rows, "superseded")
        /\ \A r \in rows : r # Check /\ r # State /\ r \notin Incidents
    BY <2>2, RowsDiffer, RowValueFacts DEF Values, NoteValues, Fits
  <2>4. rows \subseteq Wants(d)
    BY <1>2, <2>1
  <2> HIDE DEF rows
  <2> QED
    BY <1>1, <1>3, <2>1, <2>2, <2>3, <2>4, DeleteRewritesAtomic
<1>7. CASE ResolveIncidents(d)
  <2> DEFINE rows == StillOpen(d)
  <2>1. y.step = "incidents_wait" /\ Rewrite(d, rows, "resolved", "state")
    BY <1>7 DEF ResolveIncidents, At
  <2>2. /\ rows \subseteq Incidents /\ rows \subseteq Wants(d)
        /\ \A r \in rows : db[r] = "open"
    BY <1>2, <2>1 DEF StillOpen, DeleteProgress
  <2>3. /\ rows \in SUBSET Rows /\ "resolved" \in Values /\ Fits(rows, "resolved")
        /\ \A r \in rows : r # Check /\ r # State /\ r \notin Notes
    BY <2>2, RowsDiffer, RowValueFacts DEF Values, IncidentValues, Fits
  <2> HIDE DEF rows
  <2> QED
    BY <1>1, <1>3, <2>1, <2>2, <2>3, DeleteRewritesAtomic
<1>8. CASE DeleteState(d)
  <2> DEFINE rows == y.targets
  <2>1. y.step = "state_wait" /\ Rewrite(d, rows, "absent", "commit")
    BY <1>8 DEF DeleteState, At
  <2>2. rows \subseteq {State} /\ rows \subseteq Wants(d)
    BY <1>2, <2>1 DEF DeleteProgress
  <2>3. /\ rows \in SUBSET Rows /\ "absent" \in Values /\ Fits(rows, "absent")
        /\ \A r \in rows : r # Check /\ r \notin Incidents /\ r \notin Notes
    BY <2>2, RowsDiffer, RowValueFacts DEF Values, StateValues, Fits
  <2> HIDE DEF rows
  <2> QED
    BY <1>1, <1>3, <2>1, <2>2, <2>3, DeleteRewritesAtomic
<1> QED
  BY <1>4, <1>5, <1>6, <1>7, <1>8

----------------------------------------------------------------------------
(* A commit is a step of CheckRows.                                        *)

\* What the committed rows are after a commit, as functions
LEMMA CommitRows ==
  ASSUME RowLocksInv, NEW t \in Txs, Commit(t)
  PROVE  /\ db \in [Rows -> Values] /\ db' \in [Rows -> Values] /\ sending' = sending
         /\ \A r \in Rows :
              db'[r] = IF r \in DOMAIN tx[t].new THEN tx[t].new[r] ELSE db[r]
BY CommitEffect DEF RowLocksInv, RowTypes, Commit

\* The result that opens an incident
LEMMA OpeningCommits ==
  ASSUME RowLocksInv, AtomicInv, Commit(Ingest), NEW i \in Ids, NEW notes \in SUBSET Notes,
         Opens(tx[Ingest], i, notes)
  PROVE  \E hook \in BOOLEAN : OpenIncident(i, hook)
<1> DEFINE y == tx[Ingest]
           s == Incident(i)
           n == Note(i, "down")
           hook == n \in notes
<1>1. /\ y.step = "commit" /\ IngestOK(y) /\ Ingest \in Txs
      /\ State \in DOMAIN y.new /\ y.new[State] = "present"
  BY IngestFacts DEF Commit, IngestWrites
<1>2. /\ db \in [Rows -> Values] /\ db' \in [Rows -> Values] /\ sending' = sending
      /\ \A r \in Rows : db'[r] = IF r \in DOMAIN y.new THEN y.new[r] ELSE db[r]
  BY <1>1, CommitRows
<1>3. /\ State \in Rows /\ s \in Rows /\ n \in Rows /\ s \in Incidents
      /\ State # s /\ State # n /\ s # n
  BY RowsDiffer, RowNames DEF Events
<1>4. /\ OpenIncidents = {} /\ db[s] = "none"
      /\ DOMAIN y.new = {State, s} \cup notes /\ y.new[s] = "open"
      /\ notes \subseteq {n} /\ \A m \in notes : y.new[m] = "pending"
  BY DEF Opens
<1>5. db[Check] = "active"
  BY <1>1, <1>3, <1>4 DEF IngestOK
<1>6. \A r \in Rows : db'[r] = IF r = n THEN (IF hook THEN "pending" ELSE db[n])
                               ELSE IF r = s THEN "open"
                               ELSE IF r = State THEN "present" ELSE db[r]
  BY <1>1, <1>2, <1>3, <1>4
<1>7. hook \in BOOLEAN
  OBVIOUS
<1> HIDE DEF s, n, hook
<1>8. db' = [db EXCEPT ![State] = "present", ![s] = "open",
                       ![n] = IF hook THEN "pending" ELSE @]
  BY <1>2, <1>3, <1>6
<1>9. OpenIncident(i, hook)
  BY <1>2, <1>4, <1>5, <1>8 DEF OpenIncident, s, n
<1> QED
  BY <1>7, <1>9

\* The result that resolves it: the down notification that was found is the one
\* that is there now.
LEMMA ResolvingCommits ==
  ASSUME RowLocksInv, AtomicInv, Commit(Ingest), NEW i \in Ids, NEW ups \in SUBSET Notes,
         Resolves(tx[Ingest], i, StaleNotes(i), ups)
  PROVE  \E hook \in BOOLEAN : ResolveIncident(i, hook)
<1> DEFINE y == tx[Ingest]
           s == Incident(i)
           n == Note(i, "down")
           m == Note(i, "up")
           hook == m \in ups
<1>1. /\ y.step = "commit" /\ Ingest \in Txs
      /\ State \in DOMAIN y.new /\ y.new[State] = "present"
  BY IngestFacts DEF Commit, IngestWrites
<1>2. /\ db \in [Rows -> Values] /\ db' \in [Rows -> Values] /\ sending' = sending
      /\ \A r \in Rows : db'[r] = IF r \in DOMAIN y.new THEN y.new[r] ELSE db[r]
  BY <1>1, CommitRows
<1>3. /\ State \in Rows /\ s \in Rows /\ n \in Rows /\ m \in Rows
      /\ State # s /\ State # n /\ State # m /\ s # n /\ s # m /\ n # m
  BY RowsDiffer, RowNames DEF Events
<1>4. /\ db[s] = "open"
      /\ DOMAIN y.new = {State, s} \cup StaleNotes(i) \cup ups /\ y.new[s] = "resolved"
      /\ \A q \in StaleNotes(i) : y.new[q] = "superseded"
      /\ ups \subseteq {m} /\ \A q \in ups : y.new[q] = "pending"
  BY DEF Resolves
<1>5. /\ StaleNotes(i) \subseteq {n}
      /\ n \in StaleNotes(i) <=> db[n] \notin {"none", "delivered"}
  BY DEF StaleNotes
<1>6. hook \in BOOLEAN
  OBVIOUS
<1> HIDE DEF s, n, m
<1>7. \A r \in Rows :
        db'[r] = IF r = m THEN (IF hook THEN "pending" ELSE db[m])
                 ELSE IF r = n THEN (IF db[n] \in {"none", "delivered"} THEN db[n]
                                     ELSE "superseded")
                 ELSE IF r = s THEN "resolved"
                 ELSE IF r = State THEN "present" ELSE db[r]
  BY <1>1, <1>2, <1>3, <1>4, <1>5
<1> HIDE DEF hook
<1>8. db' = [db EXCEPT ![State] = "present", ![s] = "resolved",
                       ![n] = IF @ \in {"none", "delivered"} THEN @ ELSE "superseded",
                       ![m] = IF hook THEN "pending" ELSE @]
  BY <1>2, <1>3, <1>7
<1>9. ResolveIncident(i, hook)
  BY <1>2, <1>4, <1>8 DEF ResolveIncident, s, n, m
<1> QED
  BY <1>6, <1>9

LEMMA IngestCommits ==
  ASSUME RowLocksInv, AtomicInv, Commit(Ingest)
  PROVE  RowsNext
<1> DEFINE y == tx[Ingest]
<1>1. /\ y.step = "commit" /\ Ingest \in Txs /\ IngestWrites(y)
      /\ State \in DOMAIN y.new /\ y.new[State] = "present"
  BY IngestFacts DEF Commit, IngestWrites
<1>2. CASE DOMAIN y.new = {State}
  <2>1. /\ db \in [Rows -> Values] /\ db' \in [Rows -> Values] /\ sending' = sending
        /\ \A r \in Rows : db'[r] = IF r \in DOMAIN y.new THEN y.new[r] ELSE db[r]
    BY <1>1, CommitRows
  <2>2. \A r \in Rows : db'[r] = IF r = State THEN "present" ELSE db[r]
    BY <1>1, <1>2, <2>1
  <2>3. db' = [db EXCEPT ![State] = "present"]
    BY <2>1, <2>2, RowsDiffer
  <2> QED
    BY <2>1, <2>3 DEF RowsNext, PersistState
<1>3. ASSUME NEW i \in Ids, NEW notes \in SUBSET Notes, Opens(y, i, notes)
      PROVE  RowsNext
  BY <1>3, OpeningCommits DEF RowsNext
<1>4. ASSUME NEW i \in Ids, NEW ups \in SUBSET Notes, Resolves(y, i, StaleNotes(i), ups)
      PROVE  RowsNext
  BY <1>4, ResolvingCommits DEF RowsNext
<1> QED
  BY <1>1, <1>2, <1>3, <1>4 DEF IngestWrites

\* The delete: what it has not locked is not live and not open.
LEMMA DeleteCommits ==
  ASSUME RowLocksInv, AtomicInv, NEW d \in Deleters, Commit(d)
  PROVE  IF Check \in tx[d].locks THEN RowsNext ELSE UNCHANGED <<db, sending>>
<1> DEFINE y == tx[d]
<1>1. /\ d \in Txs /\ DeleterOK(y) /\ WritesOK(y) /\ DeleteWrites(y)
      /\ y.locks = DOMAIN y.new /\ y.step = "commit"
      /\ DOMAIN y.new \subseteq Rows
  BY DeleterFacts, DeleteFactsAtomic, TxFacts, WritesFacts DEF Commit
<1>2. /\ db \in [Rows -> Values] /\ db' \in [Rows -> Values] /\ sending' = sending
      /\ \A r \in Rows : db'[r] = IF r \in DOMAIN y.new THEN y.new[r] ELSE db[r]
  BY <1>1, CommitRows
<1>3. CASE Check \notin y.locks
  <2>1. \A r \in Rows : db'[r] = db[r]
    BY <1>1, <1>2, <1>3
       DEF DeleterOK
  <2>2. db' = db
    BY <1>2, <2>1
  <2> QED
    BY <1>2, <1>3, <2>2
<1>4. CASE Check \in y.locks
  <2> DEFINE ups == DOMAIN y.new \cap (Notes \ DownNotes)
  <2>1. /\ \A n \in LiveDown : n \in DOMAIN y.new /\ y.new[n] = "superseded"
        /\ \A r \in OpenIncidents : r \in DOMAIN y.new /\ y.new[r] = "resolved"
        /\ State \in y.locks \/ db[State] = "absent"
    BY <1>1, <1>4 DEF DeleterOK, DeleteProgress
  <2>2. /\ Check \in DOMAIN y.new /\ y.new[Check] = "deleted" /\ db[Check] = "active"
        /\ State \in DOMAIN y.new => y.new[State] = "absent"
        /\ \A r \in DOMAIN y.new : r \in Incidents => r \in OpenIncidents
        /\ \A r \in DOMAIN y.new : r \in Notes => r \in LiveDown \cup ups
        /\ \A r \in ups : r \in LiveUp /\ y.new[r] = "superseded"
    <3>1. Check \in DOMAIN y.new /\ y.new[Check] = "deleted" /\ db[Check] = "active"
      BY <1>1, <1>4 DEF DeleteWrites
    <3>2. State \in DOMAIN y.new => y.new[State] = "absent"
      BY <1>1 DEF DeleteWrites
    <3>3. \A r \in DOMAIN y.new : r \in Incidents => r \in OpenIncidents
      BY <1>1 DEF DeleteWrites, OpenIncidents
    <3>4. \A r \in DOMAIN y.new : r \in Notes => r \in LiveDown \cup ups
      BY <1>1 DEF DeleteWrites, LiveDown
    <3>5. \A r \in ups : r \in LiveUp /\ y.new[r] = "superseded"
      BY <1>1 DEF DeleteWrites, DeleterOK, LiveUp
    <3> QED
      BY <3>1, <3>2, <3>3, <3>4, <3>5
  <2>3. ups \in SUBSET Notes /\ ups \subseteq LiveUp /\ ups \subseteq DOMAIN y.new
    BY <2>2
  <2>4. OpenIncidents \subseteq Incidents /\ LiveDown \subseteq Notes /\ LiveUp \subseteq Notes
    BY RowsDiffer DEF OpenIncidents, LiveDown, LiveUp
  <2> HIDE DEF ups
  <2>5. \A r \in Rows :
          db'[r] = IF r = Check THEN "deleted"
                   ELSE IF r = State THEN "absent"
                   ELSE IF r \in OpenIncidents THEN "resolved"
                   ELSE IF r \in LiveDown \cup ups THEN "superseded" ELSE db[r]
    <3> SUFFICES ASSUME NEW r \in Rows
                 PROVE  db'[r] = IF r = Check THEN "deleted"
                                 ELSE IF r = State THEN "absent"
                                 ELSE IF r \in OpenIncidents THEN "resolved"
                                 ELSE IF r \in LiveDown \cup ups THEN "superseded" ELSE db[r]
      OBVIOUS
    <3>1. CASE r = Check
      BY <1>2, <2>2, <3>1
    <3>2. CASE r = State
      BY <1>1, <1>2, <2>1, <2>2, <3>2, RowsDiffer
    <3>3. CASE r \in Incidents
      BY <1>2, <2>1, <2>2, <2>3, <2>4, <3>3, RowsDiffer
    <3>4. CASE r \in Notes
      BY <1>2, <2>1, <2>2, <2>3, <2>4, <3>4, RowsDiffer
    <3> QED
      BY <3>1, <3>2, <3>3, <3>4 DEF Rows
  <2>6. db' = [r \in Rows |->
                 IF r = Check THEN "deleted"
                 ELSE IF r = State THEN "absent"
                 ELSE IF r \in OpenIncidents THEN "resolved"
                 ELSE IF r \in LiveDown \cup ups THEN "superseded" ELSE db[r]]
    BY <1>2, <2>5
  <2>7. DeleteCheck(ups)
    BY <1>2, <2>2, <2>3, <2>6 DEF DeleteCheck
  <2> QED
    BY <1>4, <2>3, <2>7 DEF RowsNext
<1> QED
  BY <1>3, <1>4

\* Every other step of a transaction leaves the committed rows alone.
LEMMA StepsRefine ==
  ASSUME RowLocksInv, AtomicInv, [Next]_vars
  PROVE  [RowsNext]_<<db, sending>>
<1>1. ASSUME NEW kind \in {"none", "open", "resolve"}, NEW hook \in BOOLEAN,
             BeginIngest(kind, hook)
      PROVE  UNCHANGED <<db, sending>>
  BY <1>1 DEF BeginIngest, Begin
<1>2. CASE IngestStep
  <2>1. CASE Commit(Ingest)
    BY <2>1, IngestCommits
  <2>2. CASE ~Commit(Ingest)
    BY <1>2, <2>2 DEF IngestStep, UpsertState, SelectCheck, InsertIncident, ReferToCheck,
       ScanOpen, ResolveOpen, ScanDown, SupersedeDown
  <2> QED
    BY <2>1, <2>2
<1>3. ASSUME NEW d \in Deleters, BeginDelete(d) \/ DeleteStep(d)
      PROVE  [RowsNext]_<<db, sending>>
  <2>1. CASE Commit(d)
    BY <2>1, DeleteCommits
  <2>2. CASE ~Commit(d)
    BY <1>3, <2>2 DEF BeginDelete, Begin, DeleteStep, LockCheck, ScanNotes, SupersedeNotes,
       ScanIncidents, ResolveIncidents, ScanState, DeleteState
  <2> QED
    BY <2>1, <2>2
<1>4. ASSUME NEW t \in Txs, Abort(t) PROVE UNCHANGED <<db, sending>>
  BY <1>4 DEF Abort
<1>5. ASSUME NEW i \in Ids, NEW e \in Events,
             Claim(i, e) \/ MarkDelivered(i, e) \/ MarkRetry(i, e)
      PROVE  RowsNext
  BY <1>5 DEF Claim, MarkDelivered, MarkRetry, RowsNext
<1>6. CASE UNCHANGED vars
  BY <1>6 DEF vars
<1> QED
  BY <1>1, <1>2, <1>3, <1>4, <1>5, <1>6 DEF Next

----------------------------------------------------------------------------
(* The steps that change the committed rows                                *)

\* When incidents and notifications only move forward
LEMMA IncidentsMove ==
  ASSUME IncidentRows, \A r, q \in OpenIncidents' : r = q,
         \A i \in Ids :
           /\ db'[Incident(i)] = "none" =>
                /\ db[Incident(i)] = "none"
                /\ db[Note(i, "down")] = "none" => db'[Note(i, "down")] = "none"
           /\ db'[Incident(i)] # "resolved" =>
                /\ db[Incident(i)] # "resolved"
                /\ db[Note(i, "up")] = "none" => db'[Note(i, "up")] = "none"
  PROVE  IncidentRows'
BY DEF IncidentRows

\* A statement of the Sender changes a notification that exists.
LEMMA SenderIncidents ==
  ASSUME RowLocksInv, IncidentRows, NEW n \in Notes, NEW v, db[n] # "none",
         db' = [db EXCEPT ![n] = v]
  PROVE  IncidentRows'
<1>1. /\ \A r \in Rows : db'[r] = IF r = n THEN v ELSE db[r]
      /\ n \notin Incidents /\ Incidents \subseteq Rows
  BY RowsDiffer DEF RowLocksInv, RowTypes
<1>2. OpenIncidents' = OpenIncidents
  BY <1>1 DEF OpenIncidents
<1>3. \A i \in Ids : /\ Incident(i) \in Incidents
                     /\ Note(i, "down") \in Rows /\ Note(i, "up") \in Rows
  BY RowNames DEF Events
<1>4. \A r, q \in OpenIncidents' : r = q
  BY <1>2 DEF IncidentRows
<1>5. \A i \in Ids :
        /\ db'[Incident(i)] = db[Incident(i)]
        /\ db[Note(i, "down")] = "none" => db'[Note(i, "down")] = "none"
        /\ db[Note(i, "up")] = "none" => db'[Note(i, "up")] = "none"
  BY <1>1, <1>3
<1> QED
  BY <1>4, <1>5, IncidentsMove

\* Every step of CheckRows keeps one incident open at most, and a notification
\* after its incident.
LEMMA RowsStepKeeps ==
  ASSUME RowLocksInv, IncidentRows, [RowsNext]_<<db, sending>>
  PROVE  IncidentRows'
<1>1. db \in [Rows -> Values]
  BY DEF RowLocksInv, RowTypes
<1>2. \A i \in Ids : /\ Incident(i) \in Incidents /\ Incident(i) \in Rows
                     /\ Note(i, "down") \in Rows /\ Note(i, "up") \in Rows
                     /\ Note(i, "down") \in Notes /\ Note(i, "up") \in Notes
  BY RowNames DEF Events
<1>3. CASE PersistState
  <2>1. \A r \in Rows : r # State => db'[r] = db[r]
    BY <1>1, <1>3 DEF PersistState
  <2>2. OpenIncidents' = OpenIncidents
    BY <2>1, RowsDiffer DEF OpenIncidents
  <2>3. \A i \in Ids : /\ db'[Incident(i)] = db[Incident(i)]
                       /\ db'[Note(i, "down")] = db[Note(i, "down")]
                       /\ db'[Note(i, "up")] = db[Note(i, "up")]
    BY <1>2, <2>1, RowsDiffer
  <2> QED
    BY <2>2, <2>3, IncidentsMove DEF IncidentRows
<1>4. ASSUME NEW i \in Ids, NEW hook \in BOOLEAN, OpenIncident(i, hook)
      PROVE  IncidentRows'
  <2>1. /\ OpenIncidents = {} /\ db[Incident(i)] = "none"
        /\ \A r \in Rows : r \notin {State, Incident(i), Note(i, "down")} => db'[r] = db[r]
        /\ db'[Incident(i)] = "open"
    BY <1>1, <1>2, <1>4, RowsDiffer DEF OpenIncident
  <2>2. \A r \in OpenIncidents' : r = Incident(i)
    BY <1>2, <2>1, RowsDiffer DEF OpenIncidents
  <2>3. ASSUME NEW j \in Ids
        PROVE  /\ db'[Incident(j)] = "none" =>
                    /\ db[Incident(j)] = "none"
                    /\ db[Note(j, "down")] = "none" => db'[Note(j, "down")] = "none"
               /\ db'[Incident(j)] # "resolved" =>
                    /\ db[Incident(j)] # "resolved"
                    /\ db[Note(j, "up")] = "none" => db'[Note(j, "up")] = "none"
    <3>1. db'[Note(j, "up")] = db[Note(j, "up")]
      BY <1>2, <2>1, RowsDiffer, RowNames DEF Events
    <3>2. CASE j = i
      BY <2>1, <3>1, <3>2
    <3>3. CASE j # i
      <4>1. /\ Incident(j) \notin {State, Incident(i), Note(i, "down")}
            /\ Note(j, "down") \notin {State, Incident(i), Note(i, "down")}
        BY <1>2, <3>3, RowsDiffer, RowNames DEF Events
      <4> QED
        BY <1>2, <2>1, <3>1, <4>1
    <3> QED
      BY <3>2, <3>3
  <2> QED
    BY <2>2, <2>3, IncidentsMove
<1>5. ASSUME NEW i \in Ids, NEW hook \in BOOLEAN, ResolveIncident(i, hook)
      PROVE  IncidentRows'
  <2>1. /\ db[Incident(i)] = "open"
        /\ \A r \in Rows : r \notin {State, Incident(i), Note(i, "down"), Note(i, "up")} =>
                             db'[r] = db[r]
        /\ db'[Incident(i)] = "resolved"
    BY <1>1, <1>2, <1>5, RowsDiffer DEF ResolveIncident
  <2>2. OpenIncidents' \subseteq OpenIncidents
    BY <1>2, <2>1, RowsDiffer DEF OpenIncidents
  <2>3. ASSUME NEW j \in Ids
        PROVE  /\ db'[Incident(j)] = "none" =>
                    /\ db[Incident(j)] = "none"
                    /\ db[Note(j, "down")] = "none" => db'[Note(j, "down")] = "none"
               /\ db'[Incident(j)] # "resolved" =>
                    /\ db[Incident(j)] # "resolved"
                    /\ db[Note(j, "up")] = "none" => db'[Note(j, "up")] = "none"
    <3>1. CASE j = i
      BY <2>1, <3>1
    <3>2. CASE j # i
      <4> DEFINE changed == {State, Incident(i), Note(i, "down"), Note(i, "up")}
      <4>1. /\ Incident(j) \notin changed /\ Note(j, "down") \notin changed
            /\ Note(j, "up") \notin changed
        BY <1>2, <3>2, RowsDiffer, RowNames DEF Events
      <4> QED
        BY <1>2, <2>1, <4>1
    <3> QED
      BY <3>1, <3>2
  <2>4. \A r, q \in OpenIncidents' : r = q
    BY <2>2 DEF IncidentRows
  <2> QED
    BY <2>3, <2>4, IncidentsMove
<1>6. ASSUME NEW ups \in SUBSET Notes, DeleteCheck(ups)
      PROVE  IncidentRows'
  <2>1. /\ \A r \in Incidents : db'[r] = IF db[r] = "open" THEN "resolved" ELSE db[r]
        /\ \A n \in Notes : db[n] = "none" => db'[n] = "none"
    <3>1. /\ ups \subseteq LiveUp
          /\ \A r \in Rows :
               db'[r] = IF r = Check THEN "deleted"
                        ELSE IF r = State THEN "absent"
                        ELSE IF r \in OpenIncidents THEN "resolved"
                        ELSE IF r \in LiveDown \cup ups THEN "superseded"
                        ELSE db[r]
      BY <1>6 DEF DeleteCheck
    <3>2. \A n \in Notes : db[n] = "none" => n \notin LiveDown \cup ups /\ n \notin OpenIncidents
      BY <3>1 DEF LiveDown, LiveUp, LiveStates, OpenIncidents
    <3>3. \A r \in Incidents : r \notin LiveDown \cup ups /\ (r \in OpenIncidents <=> db[r] = "open")
      BY RowsDiffer DEF LiveDown, OpenIncidents
    <3> QED
      BY <3>1, <3>2, <3>3, RowsDiffer
  <2>2. OpenIncidents' = {}
    BY <2>1 DEF OpenIncidents
  <2>3. \A i \in Ids :
          /\ db[Note(i, "down")] = "none" => db'[Note(i, "down")] = "none"
          /\ db[Note(i, "up")] = "none" => db'[Note(i, "up")] = "none"
          /\ db'[Incident(i)] = "none" => db[Incident(i)] = "none"
          /\ db'[Incident(i)] # "resolved" => db[Incident(i)] # "resolved"
    BY <1>2, <2>1
  <2> QED
    BY <2>2, <2>3, IncidentsMove
<1>7. ASSUME NEW i \in Ids, NEW e \in Events,
             ClaimNote(i, e) \/ DeliverNote(i, e) \/ RetryNote(i, e)
      PROVE  IncidentRows'
  <2>1. PICK n : n = Note(i, e)
    OBVIOUS
  <2>2. n \in Notes
    BY <2>1 DEF Notes
  <2>3. db[n] # "none"
    BY <1>7, <2>1 DEF ClaimNote, DeliverNote, RetryNote, RowLocksInv, SendingExists, LiveStates
  <2>4. \E v : db' = [db EXCEPT ![n] = v]
    BY <1>7, <2>1 DEF ClaimNote, DeliverNote, RetryNote
  <2> QED
    BY <2>2, <2>3, <2>4, SenderIncidents
<1>8. CASE UNCHANGED <<db, sending>>
  BY <1>8 DEF IncidentRows, OpenIncidents
<1> QED
  BY <1>3, <1>4, <1>5, <1>6, <1>7, <1>8 DEF RowsNext

\* A result is committed: no delete has locked a row that it writes.
LEMMA CommitIngestAtomic ==
  ASSUME RowLocksInv, AtomicInv, Commit(Ingest), IncidentRows'
  PROVE  AtomicInv'
<1> DEFINE y == tx[Ingest]
<1>1. /\ \A r \in Rows : db'[r] = IF r \in DOMAIN y.new THEN y.new[r] ELSE db[r]
      /\ tx'[Ingest] = NoTx /\ \A u \in Txs : u # Ingest => tx'[u] = tx[u]
  BY IngestFacts, CommitEffect
<1>2. NoTx.locks = {} /\ DOMAIN NoTx.new = {} /\ NoTx.step = "idle"
  BY DEF NoTx
<1>3. LocksAreWrites' /\ RowsExclude'
  BY <1>1, <1>2 DEF AtomicInv, LocksAreWrites, RowsExclude
<1>4. IngestWrites(tx[Ingest])'
  BY <1>1, <1>2 DEF IngestWrites
<1>5. ASSUME NEW d \in Deleters PROVE DeleteWrites(tx[d])'
  <2>1. /\ tx'[d] = tx[d] /\ DeleteWrites(tx[d])
        /\ DOMAIN tx[d].new \cap DOMAIN y.new = {}
    BY <1>1, IngestFacts, DeleteFactsAtomic
  <2>2. DOMAIN tx[d].new \subseteq Rows
    BY DeleteFactsAtomic, TxFacts, WritesFacts
  <2>3. \A r \in DOMAIN tx[d].new : db'[r] = db[r]
    BY <1>1, <2>1, <2>2
  <2> QED
    BY <2>1, <2>3 DEF DeleteWrites
<1> QED
  BY <1>3, <1>4, <1>5 DEF AtomicInv

\* A delete is committed: no result has written anything and no other delete
\* holds a row.
LEMMA CommitDeleteAtomic ==
  ASSUME RowLocksInv, AtomicInv, NEW d \in Deleters, Commit(d), IncidentRows'
  PROVE  AtomicInv'
<1> DEFINE y == tx[d]
           z == tx[Ingest]
<1>1. d \in Txs /\ d # Ingest /\ Ingest \in Txs /\ IngestOK(z) /\ DeleterOK(y) /\ y.step = "commit"
  BY DeleterFacts, IngestFacts DEF Commit
<1>2. NoTx.locks = {} /\ DOMAIN NoTx.new = {} /\ NoTx.step = "idle"
  BY DEF NoTx
<1>3. CASE Check \notin y.locks
  <2>1. tx' = [tx EXCEPT ![d] = NoTx] /\ UNCHANGED db
    BY <1>3, DeleteCommits DEF Commit
  <2>2. PICK x : x = NoTx
    OBVIOUS
  <2> QED
    BY <1>1, <1>2, <2>1, <2>2, FreshAtomic
<1>4. CASE Check \in y.locks
  <2>1. tx'[d] = NoTx /\ \A u \in Txs : u # d => tx'[u] = tx[u]
    BY <1>1, CommitEffect
  <2>2. LocksAreWrites' /\ RowsExclude'
    BY <1>2, <2>1 DEF AtomicInv, LocksAreWrites, RowsExclude
  <2>3. z.step \in {"idle", "upsert"}
    <3>1. State \in y.locks \/ db[State] = "absent"
      BY <1>1, <1>4 DEF DeleterOK, DeleteProgress
    <3>2. State \in y.locks => State \notin z.locks
      BY DeleterFacts
    <3>3. ~z.share
      BY <1>4 DEF RowLocksInv, LocksExclude
    <3> QED
      BY <1>1, <3>1, <3>2, <3>3 DEF IngestOK
  <2>4. IngestWrites(tx[Ingest])'
    BY <1>1, <2>1, <2>3 DEF IngestWrites
  <2>5. ASSUME NEW e \in Deleters PROVE DeleteWrites(tx[e])'
    <3>1. CASE e = d
      BY <1>2, <2>1, <3>1 DEF DeleteWrites
    <3>2. CASE e # d
      <4>1. Check \notin tx[e].locks /\ DeleterOK(tx[e]) /\ e \in Txs
        BY <1>4, <3>2, DeleterFacts DEF RowLocksInv, LocksExclude
      <4>2. tx'[e] = tx[e] /\ DOMAIN tx[e].new = {}
        BY <2>1, <3>2, <4>1 DEF DeleterOK
      <4> QED
        BY <4>2 DEF DeleteWrites
    <3> QED
      BY <3>1, <3>2
  <2> QED
    BY <2>2, <2>4, <2>5 DEF AtomicInv
<1> QED
  BY <1>3, <1>4

\* The Sender changes a notification that nobody has locked, and never one that
\* was delivered: a result that is about to commit has missed none.
LEMMA NoteMovesAtomic ==
  ASSUME RowLocksInv, AtomicInv, IncidentRows', NEW n \in Notes, NEW v,
         v # "none", db[n] # "none", db[n] = "delivered" => v = "delivered",
         db' = [db EXCEPT ![n] = v], UNCHANGED tx,
         \A t \in Txs : n \notin tx[t].locks
  PROVE  AtomicInv'
<1> DEFINE y == tx[Ingest]
<1>1. \A r \in Rows : db'[r] = IF r = n THEN v ELSE db[r]
  BY RowsDiffer DEF RowLocksInv, RowTypes
<1>2. LocksAreWrites' /\ RowsExclude'
  BY DEF AtomicInv, LocksAreWrites, RowsExclude
<1>3. OpenIncidents' = OpenIncidents /\ \A i \in Ids : db'[Incident(i)] = db[Incident(i)]
  BY <1>1, RowsDiffer, RowNames DEF OpenIncidents
<1>4. \A i \in Ids : StaleNotes(i)' \subseteq StaleNotes(i)
  BY <1>1, RowNames DEF StaleNotes, Events
<1>5. IngestWrites(tx[Ingest])'
  <2>1. /\ IngestWrites(y) /\ y.locks = DOMAIN y.new /\ n \notin DOMAIN y.new
        /\ UNCHANGED y
    BY IngestFacts
  <2>2. \A i \in Ids : \A notes : Opens(y, i, notes) => Opens(y, i, notes)'
    BY <1>3, <2>1 DEF Opens
  <2>3. \A i \in Ids : Resolves(y, i, {}, {}) => Resolves(y, i, {}, {})'
    BY <1>3, <2>1 DEF Resolves
  <2>4. ASSUME NEW i \in Ids, y.targets \subseteq {Note(i, "down")},
               \A m \in y.targets : db[m] # "none"
        PROVE  \A m \in y.targets : db'[m] # "none"
    BY <1>1, <2>4, RowNames DEF Events
  <2>5. ASSUME NEW i \in Ids, NEW ups \in SUBSET Notes, Resolves(y, i, StaleNotes(i), ups)
        PROVE  Resolves(y, i, StaleNotes(i), ups)'
    <3>1. n \notin StaleNotes(i)
      BY <2>1, <2>5 DEF Resolves
    <3>2. StaleNotes(i)' = StaleNotes(i)
      BY <1>1, <3>1, RowNames DEF StaleNotes, Events
    <3> QED
      BY <1>3, <2>1, <2>5, <3>2 DEF Resolves
  <2>6. y.step = "supersede_wait" =>
          \E i \in Ids : /\ Resolves(y, i, {}, {})' /\ StaleNotes(i)' \subseteq y.targets
                         /\ y.targets \subseteq {Note(i, "down")}
                         /\ \A m \in y.targets : db'[m] # "none"
    BY <1>4, <2>1, <2>3, <2>4 DEF IngestWrites
  <2>7. y.step = "commit" =>
          \/ DOMAIN y.new = {State}
          \/ \E i \in Ids : \E notes \in SUBSET Notes : Opens(y, i, notes)'
          \/ \E i \in Ids : \E ups \in SUBSET Notes : Resolves(y, i, StaleNotes(i), ups)'
    BY <2>1, <2>2, <2>5 DEF IngestWrites
  <2>8. /\ y.step = "fk" => \E i \in Ids : Opens(y, i, {})'
        /\ y.step = "supersede" => \E i \in Ids : Resolves(y, i, {}, {})'
    BY <2>1, <2>2, <2>3 DEF IngestWrites
  <2>9. /\ y.step \notin {"idle", "upsert"} => State \in DOMAIN y.new /\ y.new[State] = "present"
        /\ y.step \in {"open", "insert", "resolve", "resolve_wait"} => DOMAIN y.new = {State}
    BY <2>1 DEF IngestWrites
  <2> QED
    BY <2>1, <2>6, <2>7, <2>8, <2>9 DEF IngestWrites
<1>6. ASSUME NEW d \in Deleters PROVE DeleteWrites(tx[d])'
  <2>1. /\ DeleteWrites(tx[d]) /\ n \notin DOMAIN tx[d].new /\ tx'[d] = tx[d]
    BY DeleteFactsAtomic
  <2>2. DOMAIN tx[d].new \subseteq Rows
    BY DeleteFactsAtomic, TxFacts, WritesFacts
  <2>3. \A r \in DOMAIN tx[d].new : db'[r] = db[r]
    BY <1>1, <2>1, <2>2
  <2> QED
    BY <2>1, <2>3 DEF DeleteWrites
<1> QED
  BY <1>2, <1>5, <1>6 DEF AtomicInv

LEMMA SenderAtomic ==
  ASSUME RowLocksInv, AtomicInv, IncidentRows', NEW i \in Ids, NEW e \in Events,
         Claim(i, e) \/ MarkDelivered(i, e) \/ MarkRetry(i, e)
  PROVE  AtomicInv'
<1>1. PICK n : n = Note(i, e)
  OBVIOUS
<1>2. n \in Notes
  BY <1>1 DEF Notes
<1>3. \A t \in Txs : n \notin tx[t].locks
  BY <1>1 DEF Claim, MarkDelivered, MarkRetry, Free
<1>4. db[n] # "none" /\ UNCHANGED tx
  BY <1>1 DEF Claim, MarkDelivered, MarkRetry, ClaimNote, DeliverNote, RetryNote,
     RowLocksInv, SendingExists, LiveStates
<1>5. CASE Claim(i, e)
  <2>1. db[n] \in LiveStates /\ db' = [db EXCEPT ![n] = "processing"]
    BY <1>1, <1>5 DEF Claim, ClaimNote
  <2>2. db[n] # "delivered"
    BY <2>1 DEF LiveStates
  <2> QED
    BY <1>2, <1>3, <1>4, <2>1, <2>2, NoteMovesAtomic
<1>6. CASE MarkDelivered(i, e)
  <2>1. PICK v : v = IF db[n] = "processing" THEN "delivered" ELSE db[n]
    OBVIOUS
  <2>2. db' = [db EXCEPT ![n] = v]
    BY <1>1, <1>6, <2>1 DEF MarkDelivered, DeliverNote
  <2>3. v # "none" /\ (db[n] = "delivered" => v = "delivered")
    BY <1>4, <2>1
  <2> QED
    BY <1>2, <1>3, <1>4, <2>2, <2>3, NoteMovesAtomic
<1>7. CASE MarkRetry(i, e)
  <2>1. PICK v : v = IF db[n] = "delivered" THEN db[n] ELSE RetryState(i, e)
    OBVIOUS
  <2>2. db' = [db EXCEPT ![n] = v]
    BY <1>1, <1>7, <2>1 DEF MarkRetry, RetryNote
  <2>3. v # "none" /\ (db[n] = "delivered" => v = "delivered")
    BY <2>1 DEF RetryState
  <2> QED
    BY <1>2, <1>3, <1>4, <2>2, <2>3, NoteMovesAtomic
<1> QED
  BY <1>5, <1>6, <1>7

----------------------------------------------------------------------------
(* Theorems *)

\* At the start the check is active and nothing else is there.
LEMMA RowLocksStart ==
  Init => RowLocksInv
<1> SUFFICES ASSUME Init PROVE RowLocksInv
  OBVIOUS
<1>1. /\ db \in [Rows -> Values]
      /\ \A r \in Rows : db[r] = IF r = Check THEN "active"
                                 ELSE IF r = State THEN "absent" ELSE "none"
  BY DEF Init, RowsInit, Values, CheckValues, StateValues, NoteValues
<1>2. \A r \in Rows : db[r] \in RowValues(r)
  BY <1>1, RowsDiffer
  DEF RowValues, CheckValues, StateValues, IncidentValues, NoteValues
<1>3. tx \in [Txs -> TxStates] /\ \A t \in Txs : tx[t] = NoTx
  BY NoTxOK DEF Init
<1>4. Ingest \in Txs /\ \A d \in Deleters : d \in Txs
  BY DEF Txs
<1>5. RowTypes
  BY <1>1, <1>2, <1>3, NoTxOK DEF Init, RowsInit, RowTypes
<1>6. LocksExclude /\ IngestOK(tx[Ingest]) /\ \A d \in Deleters : DeleterOK(tx[d])
  BY <1>3, <1>4, NoTxOK DEF LocksExclude
<1>7. SendingExists
  BY DEF Init, RowsInit, SendingExists
<1>8. db[Check] = "active"
  BY <1>1, RowsDiffer
<1> QED
  BY <1>5, <1>6, <1>7, <1>8
  DEF RowLocksInv, NoIncidentForDeletedCheck, NoDownAlertForDeletedCheck

\* Every statement keeps the invariant.
LEMMA RowLocksStep ==
  RowLocksInv /\ [Next]_vars => RowLocksInv'
<1> SUFFICES ASSUME RowLocksInv, [Next]_vars PROVE RowLocksInv'
  OBVIOUS
<1>1. ASSUME NEW kind \in {"none", "open", "resolve"}, NEW hook \in BOOLEAN,
             BeginIngest(kind, hook)
      PROVE  RowLocksInv'
  BY <1>1, BeginIngestKeeps
<1>2. CASE IngestStep
  BY <1>2, UpsertStateKeeps, SelectCheckKeeps, InsertIncidentKeeps, ReferToCheckKeeps,
     ScanOpenKeeps, ResolveOpenKeeps, ScanDownKeeps, SupersedeDownKeeps,
     CommitIngestKeeps DEF IngestStep
<1>3. ASSUME NEW d \in Deleters, BeginDelete(d) \/ DeleteStep(d)
      PROVE  RowLocksInv'
  BY <1>3, BeginDeleteKeeps, LockCheckKeeps, DeleteScanKeeps, DeleteRewriteKeeps,
     CommitDeleteKeeps DEF DeleteStep
<1>4. ASSUME NEW t \in Txs, Abort(t) PROVE RowLocksInv'
  BY <1>4, AbortKeeps
<1>5. ASSUME NEW i \in Ids, NEW e \in Events,
             Claim(i, e) \/ MarkDelivered(i, e) \/ MarkRetry(i, e)
      PROVE  RowLocksInv'
  BY <1>5, SenderKeeps
<1>6. CASE UNCHANGED vars
  <2>1. UNCHANGED <<db, tx, sending>>
    BY <1>6 DEF vars
  <2> QED
    BY <2>1 DEF RowLocksInv, RowTypes, LocksExclude, SendingExists, IngestOK,
       DeleterOK, DeleteProgress, LiveDown, OpenIncidents, WritesOK,
       NoIncidentForDeletedCheck, NoDownAlertForDeletedCheck
<1> QED
  BY <1>1, <1>2, <1>3, <1>4, <1>5, <1>6 DEF Next

LEMMA RowLocksInvariant ==
  Spec => []RowLocksInv
BY RowLocksStart, RowLocksStep, PTL DEF Spec

\* At the start no transaction has written anything.
LEMMA AtomicStart ==
  Init => AtomicInv
<1> SUFFICES ASSUME Init PROVE AtomicInv
  OBVIOUS
<1>1. /\ \A t \in Txs : tx[t] = NoTx
      /\ NoTx.locks = {} /\ DOMAIN NoTx.new = {} /\ NoTx.step = "idle"
      /\ Ingest \in Txs /\ \A d \in Deleters : d \in Txs
  BY DEF Init, NoTx, Txs
<1>2. \A r \in Incidents \cup Notes : db[r] = "none"
  BY RowsDiffer DEF Init, RowsInit
<1>3. IncidentRows
  BY <1>2, RowNames DEF IncidentRows, OpenIncidents, Events
<1> QED
  BY <1>1, <1>3 DEF AtomicInv, LocksAreWrites, RowsExclude, IngestWrites, DeleteWrites

\* Every statement keeps what has been written as the commit needs it.
LEMMA AtomicStep ==
  ASSUME RowLocksInv, AtomicInv, [Next]_vars
  PROVE  AtomicInv'
<1>1. IncidentRows'
  BY StepsRefine, RowsStepKeeps DEF AtomicInv
<1>2. ASSUME NEW t \in Txs, NEW step, NEW kind, NEW hook, Begin(t, step, kind, hook),
             t = Ingest => step = "upsert"
      PROVE  AtomicInv'
  <2>1. PICK x : x = [NoTx EXCEPT !.step = step, !.kind = kind, !.hook = hook]
    OBVIOUS
  <2>2. x.locks = {} /\ DOMAIN x.new = {} /\ x.step = step
    BY <2>1 DEF NoTx
  <2>3. tx' = [tx EXCEPT ![t] = x] /\ UNCHANGED db
    BY <1>2, <2>1 DEF Begin
  <2> QED
    BY <1>2, <2>2, <2>3, FreshAtomic
<1>3. ASSUME NEW kind \in {"none", "open", "resolve"}, NEW hook \in BOOLEAN,
             BeginIngest(kind, hook)
      PROVE  AtomicInv'
  BY <1>2, <1>3, IngestFacts DEF BeginIngest
<1>4. CASE IngestStep
  BY <1>1, <1>4, UpsertStateAtomic, SelectCheckAtomic, InsertIncidentAtomic,
     ReferToCheckAtomic, ScanOpenAtomic, ResolveOpenAtomic, ScanDownAtomic,
     SupersedeDownAtomic, CommitIngestAtomic DEF IngestStep
<1>5. ASSUME NEW d \in Deleters, BeginDelete(d) \/ DeleteStep(d)
      PROVE  AtomicInv'
  <2>1. d \in Txs /\ d # Ingest
    BY IngestFacts
  <2>2. CASE BeginDelete(d)
    BY <1>2, <2>1, <2>2 DEF BeginDelete
  <2>3. CASE DeleteStep(d)
    BY <1>1, <2>3, DeleteStatementsAtomic, CommitDeleteAtomic DEF DeleteStep
  <2> QED
    BY <1>5, <2>2, <2>3
<1>6. ASSUME NEW t \in Txs, Abort(t) PROVE AtomicInv'
  <2>1. PICK x : x = NoTx
    OBVIOUS
  <2>2. x.locks = {} /\ DOMAIN x.new = {} /\ x.step = "idle"
    BY <2>1 DEF NoTx
  <2>3. tx' = [tx EXCEPT ![t] = x] /\ UNCHANGED db
    BY <1>6, <2>1 DEF Abort
  <2> QED
    BY <2>2, <2>3, FreshAtomic
<1>7. ASSUME NEW i \in Ids, NEW e \in Events,
             Claim(i, e) \/ MarkDelivered(i, e) \/ MarkRetry(i, e)
      PROVE  AtomicInv'
  BY <1>1, <1>7, SenderAtomic
<1>8. CASE UNCHANGED vars
  <2>1. UNCHANGED <<db, tx, sending>>
    BY <1>8 DEF vars
  <2> QED
    BY <2>1 DEF AtomicInv, LocksAreWrites, RowsExclude, IncidentRows, IngestWrites,
       DeleteWrites, Opens, Resolves, StaleNotes, OpenIncidents
<1> QED
  BY <1>3, <1>4, <1>5, <1>6, <1>7, <1>8 DEF Next

\* Rows and transactions have their types, and no transaction writes a row that
\* it has not locked.
THEOREM RowLocksTypes ==
  Spec => []TypeOK
<1>1. RowLocksInv => TypeOK
  <2> SUFFICES ASSUME RowLocksInv PROVE TypeOK
    OBVIOUS
  <2> DEFINE News == {tx[t].new : t \in Txs}
  <2>1. ASSUME NEW t \in Txs
        PROVE  /\ tx[t] \in TxRecords(News)
               /\ tx[t].new \in [DOMAIN tx[t].new -> Values]
    <3>1. tx[t] \in TxStates /\ tx[t].new \in Writes
      BY TxFacts
    <3>2. tx[t].new \in News
      OBVIOUS
    <3> HIDE DEF News
    <3>3. tx[t] \in TxRecords(News)
      BY <3>1, <3>2 DEF TxStates, TxRecords
    <3> QED
      BY <3>1, <3>3, WritesFacts
  <2> HIDE DEF News
  <2>2. tx \in [Txs -> TxRecords(News)]
    BY <2>1 DEF RowLocksInv, RowTypes
  <2> QED
    BY <2>1, <2>2 DEF RowLocksInv, RowTypes, TypeOK, News
<1> QED
  BY <1>1, RowLocksInvariant, PTL

\* No incident stays open for a deleted check, whatever results and deletes run
\* between each other's statements (openIncidentWithNotificationByCheckIDTx,
\* upsertCheckStateTx, DeleteCheck).
THEOREM NoIncidentAfterDelete ==
  Spec => []NoIncidentForDeletedCheck
<1>1. RowLocksInv => NoIncidentForDeletedCheck
  BY DEF RowLocksInv
<1> QED
  BY <1>1, RowLocksInvariant, PTL

\* No down alert of a deleted check is left to be claimed, whatever claims and
\* marks run between the statements of DeleteCheck.
THEOREM NoDownAlertAfterDelete ==
  Spec => []NoDownAlertForDeletedCheck
<1>1. RowLocksInv => NoDownAlertForDeletedCheck
  BY DEF RowLocksInv
<1> QED
  BY <1>1, RowLocksInvariant, PTL

\* The row locks make each transaction of a result and of a delete, statement by
\* statement as they are written, one step at its commit: no UPDATE is lost and
\* none rests on a row that another transaction has changed
\* (PersistMonitoringBatch, DeleteCheck, ClaimDueIncidentNotifications and the
\* marks).
THEOREM TransactionsAreAtomic ==
  Spec => ImplementsRows
<1>1. Init => RowsInit
  BY DEF Init
<1>2. RowLocksInv /\ AtomicInv /\ [Next]_vars => AtomicInv'
  BY AtomicStep
<1>3. RowLocksInv /\ AtomicInv /\ [Next]_vars => [RowsNext]_<<db, sending>>
  BY StepsRefine
<1> QED
  BY <1>1, <1>2, <1>3, AtomicStart, RowLocksInvariant, PTL DEF Spec, ImplementsRows, RowsSpec

============================================================================
