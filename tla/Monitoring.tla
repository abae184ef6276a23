----------------------------- MODULE Monitoring -----------------------------
(***************************************************************************)
(* The monitoring server: the in-memory Runtime (internal/monitoring), the *)
(* handlers and sweepers that change it, and the Postgres tables it is     *)
(* rebuilt from after a restart.                                           *)
(*                                                                         *)
(* One mutex guards the Runtime.  A result batch, or one step of the check *)
(* sweeper, holds it while it changes the Runtime, commits its writes in   *)
(* one transaction, and on an error undoes the change; "txn" is that       *)
(* critical section.  Statements that only touch the database (creating    *)
(* and deleting a check, registering a probe) interleave with it.          *)
(*                                                                         *)
(* Time: see QuorumMachine.  Tick ages every stored deadline.  No code     *)
(* reads the clock while it holds the mutex, so Tick may wait for it.      *)
(***************************************************************************)
EXTENDS QuorumMachine, Sequences

CONSTANTS
  Checks,        \* check IDs; a UUID is never used again after a delete
  Probes,        \* probe IDs
  ConfigProbes,  \* the probes that the configuration file lists
  EvidenceTTLs,  \* lifetimes of a result (twice the interval of its check)
  OfflineAfter,  \* probe_offline_after
  MaxBatch,      \* bound: results in one upload
  MaxRequests,   \* bound: uploads between normalizeBatch and the mutex
  Env            \* the requests, faults and passing of time that may happen

Requests == {"seed", "create", "delete", "credential", "register", "heartbeat"}
CommitFaults == {"commit_fails", "commit_unknown"}

ASSUME MonitoringAssumption ==
  /\ IsFiniteSet(Probes)
  /\ ConfigProbes \subseteq Probes
  /\ EvidenceTTLs \subseteq Nat \ {0}
  /\ OfflineAfter \in Nat \ {0}
  /\ MaxBatch \in Nat /\ MaxRequests \in Nat
  /\ Env \subseteq Requests \cup CommitFaults \cup {"crash", "tick"}

VARIABLES
  \* Runtime (memory)
  phase,         \* "stopped", "starting" (before the first sweep), "serving"
  known,         \* keys of Runtime.quorums
  quorum,        \* QuorumMachine.state of each check
  assigned,      \* keys of QuorumMachine.checks
  exec,          \* CheckMachine.state of each (check, probe)
  probe,         \* ProbeMachine.state; "unknown" outside Runtime.probes
  \* handlers between two of their steps
  creating,      \* handleCreateCheck before EnsureCheck
  deleting,      \* handleDeleteCheck before RemoveCheck
  registering,   \* ProbeProcessor.Register before AddProbe
  requests,      \* ProcessBatch before it takes the mutex
  txn,           \* the critical section that is writing, if any
  \* Postgres
  status,        \* checks: "absent", "active", "deleted" (deleted_at set)
  row,           \* check_probe_state
  openIncidents, \* checks with an unresolved row in incidents
  provisioned,   \* probes with a usable credential
  lastSeen,      \* probes.last_seen_at, aged against OfflineAfter
  \* history, read by no action
  drifted,       \* checks whose memory and tables were let apart
  before,        \* the Runtime when txn began
  trail          \* the Runtime before each entry of txn.undo

memory   == <<known, quorum, assigned, exec>>
handlers == <<creating, deleting, registering, requests>>
tables   == <<status, row, openIncidents, provisioned, lastSeen>>
history  == <<drifted, before, trail>>
vars == <<phase, memory, probe, handlers, txn, tables, history>>

Times == Nat \cup {NoTime}

Items == [check : Checks, probe : Probes, outcome : StableStates, ttl : Nat]

\* observedResultRollback
Undos ==
  [check : Checks, probe : Probes, createdQuorum : BOOLEAN,
   createdAssignment : BOOLEAN, previousCheck : ExecStates(Times),
   previousQuorum : QuorumRecords]

\* store.MonitoringWrite with the counts of its notification payload
Writes ==
  [check : Checks, probe : Probes, state : ExecStates(Times),
   incident : {"none", "open", "resolve"}, probesDown : Nat, probesTotal : Nat]

Idle == [step |-> "idle", todo |-> <<>>, undo |-> <<>>, writes |-> <<>>]

NoRow == NewCheckExecState

\* The values of memory
Memories ==
  (SUBSET Checks) \X [Checks -> QuorumRecords] \X [Checks -> SUBSET Probes]
    \X [Checks -> [Probes -> ExecStates(Times)]]

TypeOK ==
  /\ phase \in {"stopped", "starting", "serving"}
  /\ known \subseteq Checks
  /\ quorum \in [Checks -> QuorumRecords]
  /\ assigned \in [Checks -> SUBSET Probes]
  /\ exec \in [Checks -> [Probes -> ExecStates(Times)]]
  /\ probe \in [Probes -> [State : {"unknown", "offline", "online"},
                           LastHeartbeatAt : Times]]
  /\ creating \subseteq Checks
  /\ deleting \subseteq Checks
  /\ registering \subseteq Probes
  /\ requests \subseteq Seq(Items)
  /\ txn \in [step : {"idle", "apply", "rollback"}, todo : Seq(Items),
              undo : Seq(Undos), writes : Seq(Writes)]
  /\ status \in [Checks -> {"absent", "active", "deleted"}]
  /\ row \in [Checks -> [Probes -> ExecStates(Times)]]
  /\ openIncidents \subseteq Checks
  /\ provisioned \subseteq Probes
  /\ lastSeen \in [Probes -> Times]
  /\ drifted \subseteq Checks
  /\ trail \in Seq(Memories)

----------------------------------------------------------------------------
(* Start-up and crash *)

UnknownProbe == [State |-> "unknown", LastHeartbeatAt |-> NoTime]

EmptyQuorums == [c \in Checks |-> NewCheckQuorumState]
EmptyExec == [c \in Checks |-> [p \in Probes |-> NewCheckExecState]]

Init ==
  /\ phase = "stopped"
  /\ known = {}
  /\ quorum = EmptyQuorums
  /\ assigned = [c \in Checks |-> {}]
  /\ exec = EmptyExec
  /\ probe = [p \in Probes |-> UnknownProbe]
  /\ creating = {} /\ deleting = {} /\ registering = {} /\ requests = {}
  /\ txn = Idle
  /\ status = [c \in Checks |-> "absent"]
  /\ row = EmptyExec
  /\ openIncidents = {}
  /\ provisioned = ConfigProbes   \* SeedProbes
  /\ lastSeen = [p \in Probes |-> NoTime]
  /\ drifted = {} /\ before = <<>> /\ trail = <<>>

\* main calls SeedChecks before it loads the runtime.
SeedCheck(c) ==
  /\ "seed" \in Env
  /\ phase = "stopped"
  /\ status[c] = "absent"
  /\ status' = [status EXCEPT ![c] = "active"]
  /\ UNCHANGED <<phase, memory, probe, handlers, txn, row, openIncidents,
                 provisioned, lastSeen, history>>

\* A (check, probe) pair has a row once a result of the probe was committed.
HasRow(c, p) == row[c][p].LastResultAt

RestoredMembers(c) ==
  IF status[c] = "active" THEN {p \in provisioned : HasRow(c, p)} ELSE {}

\* Probes without a persisted heartbeat contribute no old votes.
RestoredExec(c, p) ==
  IF p \notin RestoredMembers(c) THEN NewCheckExecState
  ELSE IF lastSeen[p] = NoTime THEN LoseEvidence(row[c][p])
  ELSE row[c][p]

RestoredQuorum(c) ==
  IF c \in openIncidents
    THEN [State |-> "down", LastStableState |-> "down", IncidentOpen |-> TRUE]
    ELSE NewCheckQuorumState

LoadRuntime ==
  /\ phase = "stopped"
  /\ phase' = "starting"
  /\ known' = {c \in Checks : status[c] = "active"}
  /\ assigned' = [c \in Checks |-> RestoredMembers(c)]
  /\ exec' = [c \in Checks |-> [p \in Probes |-> RestoredExec(c, p)]]
  /\ quorum' = [c \in Checks |->
       IF status[c] = "active"
         THEN Recompute(RestoredQuorum(c), assigned'[c], exec'[c])
         ELSE NewCheckQuorumState]
  /\ probe' = [p \in Probes |->
       IF p \in provisioned
         THEN [State |-> IF lastSeen[p] = NoTime THEN "offline" ELSE "online",
               LastHeartbeatAt |-> lastSeen[p]]
         ELSE UnknownProbe]
  /\ drifted' = {}
  /\ UNCHANGED <<handlers, txn, tables, before, trail>>

StaleHeartbeat(p) == probe[p].State = "online" /\ probe[p].LastHeartbeatAt = 0

\* The handlers and the sweep loops start after the initial probe sweep.
Serve ==
  /\ phase = "starting"
  /\ \A p \in Probes : ~StaleHeartbeat(p)
  /\ phase' = "serving"
  /\ UNCHANGED <<memory, probe, handlers, txn, tables, history>>

\* A crash loses the Runtime and every handler that was running.
Crash ==
  /\ "crash" \in Env
  /\ phase # "stopped"
  /\ phase' = "stopped"
  /\ known' = {} /\ quorum' = EmptyQuorums
  /\ assigned' = [c \in Checks |-> {}] /\ exec' = EmptyExec
  /\ probe' = [p \in Probes |-> UnknownProbe]
  /\ creating' = {} /\ deleting' = {} /\ registering' = {} /\ requests' = {}
  /\ txn' = Idle
  /\ before' = <<>> /\ trail' = <<>>
  /\ UNCHANGED <<tables, drifted>>

----------------------------------------------------------------------------
(* Checks *)

CreateCheck(c) ==
  /\ "create" \in Env
  /\ phase = "serving"
  /\ status[c] = "absent"
  /\ status' = [status EXCEPT ![c] = "active"]
  /\ creating' = creating \cup {c}
  /\ UNCHANGED <<phase, memory, probe, deleting, registering, requests, txn,
                 row, openIncidents, provisioned, lastSeen, history>>

\* Mutant: a quorum that a result has already created is replaced.
EnsureCheck_Replaces(c) ==
  /\ c \in creating
  /\ txn.step = "idle"
  /\ known' = known \cup {c}
  /\ quorum' = [quorum EXCEPT ![c] = NewCheckQuorumState]
  /\ assigned' = [assigned EXCEPT ![c] = {}]
  /\ exec' = [exec EXCEPT ![c] = [p \in Probes |-> NewCheckExecState]]
  /\ creating' = creating \ {c}
  /\ UNCHANGED <<phase, probe, deleting, registering, requests, txn, tables,
                 history>>

EnsureCheck(c) ==
  /\ c \in creating
  /\ txn.step = "idle"
  /\ known' = known \cup {c}
  /\ creating' = creating \ {c}
  /\ UNCHANGED <<phase, quorum, assigned, exec, probe, deleting, registering,
                 requests, txn, tables, history>>

\* One transaction: incidents are resolved, recovery rows are deleted.
DeleteCheck(c) ==
  /\ "delete" \in Env
  /\ phase = "serving"
  /\ status[c] = "active"
  /\ status' = [status EXCEPT ![c] = "deleted"]
  /\ openIncidents' = openIncidents \ {c}
  /\ row' = [row EXCEPT ![c] = [p \in Probes |-> NoRow]]
  /\ deleting' = deleting \cup {c}
  /\ UNCHANGED <<phase, memory, probe, creating, registering, requests, txn,
                 provisioned, lastSeen, history>>

RemoveCheck(c) ==
  /\ c \in deleting
  /\ txn.step = "idle"
  /\ known' = known \ {c}
  /\ quorum' = [quorum EXCEPT ![c] = NewCheckQuorumState]
  /\ assigned' = [assigned EXCEPT ![c] = {}]
  /\ exec' = [exec EXCEPT ![c] = [p \in Probes |-> NewCheckExecState]]
  /\ deleting' = deleting \ {c}
  /\ UNCHANGED <<phase, probe, creating, registering, requests, txn, tables,
                 history>>

----------------------------------------------------------------------------
(* Probes *)

\* Register writes probes.last_seen_at first and tells the Runtime second.
RegisterProbe(p) ==
  /\ "register" \in Env
  /\ phase = "serving"
  /\ p \in provisioned
  /\ lastSeen' = [lastSeen EXCEPT ![p] = OfflineAfter]
  /\ registering' = registering \cup {p}
  /\ UNCHANGED <<phase, memory, probe, creating, deleting, requests, txn,
                 status, row, openIncidents, provisioned, history>>

\* addProbeLocked
AddedProbe(p) ==
  IF probe[p].State = "unknown" THEN [probe[p] EXCEPT !.State = "offline"]
  ELSE probe[p]

\* Mutant: the Runtime is not told.
CreateProbeCredential_NotAdded(p) ==
  /\ "credential" \in Env
  /\ phase = "serving"
  /\ txn.step = "idle"
  /\ p \notin provisioned
  /\ provisioned' = provisioned \cup {p}
  /\ UNCHANGED <<phase, memory, probe, handlers, txn, status, row,
                 openIncidents, lastSeen, history>>

\* handleCreateProbeCredential inserts the row, adds the probe to the Runtime
\* and returns the secret, which nobody has before that.
CreateProbeCredential(p) ==
  /\ "credential" \in Env
  /\ phase = "serving"
  /\ txn.step = "idle"
  /\ p \notin provisioned
  /\ provisioned' = provisioned \cup {p}
  /\ probe' = [probe EXCEPT ![p] = AddedProbe(p)]
  /\ UNCHANGED <<phase, memory, handlers, txn, status, row, openIncidents,
                 lastSeen, history>>

AddProbe(p) ==
  /\ p \in registering
  /\ txn.step = "idle"
  /\ probe' = [probe EXCEPT ![p] = AddedProbe(p)]
  /\ registering' = registering \ {p}
  /\ UNCHANGED <<phase, memory, creating, deleting, requests, txn, tables,
                 history>>

\* What the caller of a commit may see: it may fail, or succeed and report
\* an error all the same (the connection breaks while COMMIT is answered).
CommitResults ==
  {"ok"} \cup (Env \cap CommitFaults)

\* AddProbe, then applyHeartbeat under the mutex, undone if the write fails
Heartbeat(p, result) ==
  /\ "heartbeat" \in Env
  /\ phase = "serving"
  /\ p \in provisioned
  /\ txn.step = "idle"
  /\ probe' = [probe EXCEPT ![p] =
       IF result = "ok"
         THEN [State |-> "online", LastHeartbeatAt |-> OfflineAfter]
         ELSE AddedProbe(p)]
  /\ lastSeen' = [lastSeen EXCEPT ![p] =
       IF result = "commit_fails" THEN @ ELSE OfflineAfter]
  /\ UNCHANGED <<phase, memory, handlers, txn, status, row, openIncidents,
                 provisioned, history>>

\* applyProbeDegradationLocked: exec and quorum once p has lost its evidence
DegradedExec(p) ==
  [c \in Checks |-> IF p \in assigned[c]
                      THEN [exec[c] EXCEPT ![p] = LoseEvidence(@)]
                      ELSE exec[c]]

\* Mutant: the quorum is not recomputed.
DegradedQuorum_NotRecomputed(p) == quorum

DegradedQuorum(p) ==
  [c \in Checks |-> IF p \in assigned[c]
                      THEN Recompute(quorum[c], assigned[c], DegradedExec(p)[c])
                      ELSE quorum[c]]

\* Mutant: the votes are cleared and the probe is left online.
SweepProbe_StaysOnline(p) ==
  /\ phase # "stopped"
  /\ txn.step = "idle"
  /\ StaleHeartbeat(p)
  /\ exec' = DegradedExec(p)
  /\ quorum' = DegradedQuorum(p)
  /\ drifted' = drifted \cup
       {c \in Checks : quorum'[c].IncidentOpen # quorum[c].IncidentOpen}
  /\ UNCHANGED <<phase, known, assigned, probe, handlers, txn, tables, before,
                 trail>>

\* One probe of SweepProbes.  It changes memory only.
SweepProbe(p) ==
  /\ phase # "stopped"
  /\ txn.step = "idle"
  /\ StaleHeartbeat(p)
  /\ probe' = [probe EXCEPT ![p].State = "offline"]
  /\ exec' = DegradedExec(p)
  /\ quorum' = DegradedQuorum(p)
  /\ drifted' = drifted \cup
       {c \in Checks : quorum'[c].IncidentOpen # quorum[c].IncidentOpen}
  /\ UNCHANGED <<phase, known, assigned, handlers, txn, tables, before, trail>>

----------------------------------------------------------------------------
(* Results *)

ActiveItems(p) ==
  [check : {c \in Checks : status[c] = "active"}, probe : {p},
   outcome : StableStates, ttl : EvidenceTTLs]

Uploads(p) == UNION {[1..n -> ActiveItems(p)] : n \in 1..MaxBatch}

\* ProcessBatch up to the mutex: results of checks that the database does
\* not know are dropped, the others are stamped with the server's time.
NormalizeBatch(p) ==
  /\ phase = "serving"
  /\ p \in provisioned
  /\ Cardinality(requests) < MaxRequests
  /\ \E items \in Uploads(p) : requests' = requests \cup {items}
  /\ UNCHANGED <<phase, memory, probe, creating, deleting, registering, txn,
                 tables, history>>

\* applyObservedResultBatch takes the mutex.  A probe outside Runtime.probes
\* would get ErrUnknownProbe; ProbesKnown says that there is none.
LockBatch(items) ==
  /\ items \in requests
  /\ txn.step = "idle"
  /\ probe[items[1].probe].State # "unknown"
  /\ requests' = requests \ {items}
  /\ txn' = [step |-> "apply", todo |-> items, undo |-> <<>>, writes |-> <<>>]
  /\ before' = memory
  /\ UNCHANGED <<phase, memory, probe, creating, deleting, registering, tables,
                 drifted, trail>>

\* monitoringWriteForCheckEvent
IncidentEffect(previous, current) ==
  CASE previous.LastStableState = "up" /\ current.LastStableState = "down"
         -> "open"
    [] /\ previous.IncidentOpen
       /\ previous.LastStableState = "down" /\ current.LastStableState = "up"
         -> "resolve"
    [] OTHER -> "none"

\* Mutant: the row gets the state from before the result.
WriteFor_StateBefore(c, p, members, checks, incident) ==
  [check |-> c, probe |-> p, state |-> exec[c][p], incident |-> incident,
   probesDown |-> ProbesDown(members, checks),
   probesTotal |-> Cardinality(members)]

\* The recovery row and the incident effect of one step
WriteFor(c, p, members, checks, incident) ==
  [check |-> c, probe |-> p, state |-> checks[p], incident |-> incident,
   probesDown |-> ProbesDown(members, checks),
   probesTotal |-> Cardinality(members)]

\* The quorum after AddProbe, which recomputes when the probe is new
JoinedQuorum(c, p) ==
  IF p \in assigned[c] THEN quorum[c]
  ELSE Recompute(quorum[c], assigned[c] \cup {p}, exec[c])

\* applyObservedResultLocked
ApplyObservedResult ==
  /\ txn.step = "apply"
  /\ txn.todo # <<>>
  /\ LET item     == Head(txn.todo)
         c        == item.check
         p        == item.probe
         members  == assigned[c] \cup {p}
         checks   == [exec[c] EXCEPT ![p] = Observe(@, item.outcome, item.ttl)]
         current  == Recompute(JoinedQuorum(c, p), members, checks)
         incident == IncidentEffect(quorum[c], current)
     IN  /\ known' = known \cup {c}   \* ensureQuorumLocked
         /\ assigned' = [assigned EXCEPT ![c] = members]
         /\ exec' = [exec EXCEPT ![c] = checks]
         /\ quorum' = [quorum EXCEPT ![c] = current]
         /\ txn' = [txn EXCEPT
              !.todo = Tail(@),
              !.undo = Append(@,
                 [check |-> c, probe |-> p,
                  createdQuorum |-> c \notin known,
                  createdAssignment |-> p \notin assigned[c],
                  previousCheck |-> exec[c][p],
                  previousQuorum |-> quorum[c]]),
              !.writes = Append(@, WriteFor(c, p, members, checks, incident))]
  /\ trail' = Append(trail, memory)
  /\ UNCHANGED <<phase, probe, handlers, tables, drifted, before>>

\* One assignment of SweepChecks, up to PersistMonitoringWrite.  The check
\* definition is read only when the stable state moved, and a deleted check
\* has no incident effect.
SweepCheck(c, p) ==
  /\ phase = "serving"
  /\ txn.step = "idle"
  /\ c \in known /\ p \in assigned[c]
  /\ exec[c][p].ExpiresAt = 0
  /\ LET checks   == [exec[c] EXCEPT ![p] = LoseEvidence(@)]
         current  == Recompute(quorum[c], assigned[c], checks)
         incident == IF status[c] = "active"
                       THEN IncidentEffect(quorum[c], current) ELSE "none"
     IN  /\ exec' = [exec EXCEPT ![c] = checks]
         /\ quorum' = [quorum EXCEPT ![c] = current]
         /\ txn' = [step |-> "apply", todo |-> <<>>,
                    undo |-> <<[check |-> c, probe |-> p,
                                createdQuorum |-> FALSE,
                                createdAssignment |-> FALSE,
                                previousCheck |-> exec[c][p],
                                previousQuorum |-> quorum[c]]>>,
                    writes |-> <<WriteFor(c, p, assigned[c], checks, incident)>>]
  /\ before' = memory /\ trail' = <<memory>>
  /\ UNCHANGED <<phase, known, assigned, probe, handlers, tables, drifted>>

----------------------------------------------------------------------------
(* The transaction of PersistMonitoringBatch *)

\* normalizeCheckStateWrite: a zero expires_at is stored as last_result_at.
StoredState(state) ==
  [state EXCEPT !.ExpiresAt = IF @ = NoTime THEN 0 ELSE @]

LastIndex(I) == CHOOSE i \in I : \A j \in I : j <= i

\* The writes happen in order, so the last upsert of a row stays.
RowAfter(writes, c, p) ==
  LET I == {i \in 1..Len(writes) : writes[i].check = c /\ writes[i].probe = p}
  IN  IF I = {} THEN row[c][p] ELSE StoredState(writes[LastIndex(I)].state)

\* Mutant: the insert does not look at deleted_at.
OpenAfter_AnyStatus(writes, c) ==
  LET I == {i \in 1..Len(writes) : writes[i].check = c
                                    /\ writes[i].incident # "none"}
  IN  IF I = {} THEN c \in openIncidents
      ELSE writes[LastIndex(I)].incident = "open"

\* openIncident... inserts a row for a check that is not deleted and does
\* nothing if one is open; resolveIncident... does nothing if none is.
OpenAfter(writes, c) ==
  LET I == {i \in 1..Len(writes) : writes[i].check = c
                                    /\ writes[i].incident # "none"}
  IN  IF I = {} THEN c \in openIncidents
      ELSE writes[LastIndex(I)].incident = "open" /\ status[c] = "active"

PersistMonitoringBatch(result) ==
  /\ txn.step = "apply"
  /\ txn.todo = <<>>
  /\ IF result = "commit_fails"
       THEN UNCHANGED <<row, openIncidents>>
       ELSE /\ row' = [c \in Checks |-> [p \in Probes |->
                         RowAfter(txn.writes, c, p)]]
            /\ openIncidents' = {c \in Checks : OpenAfter(txn.writes, c)}
  /\ IF result = "ok"
       THEN txn' = Idle /\ before' = <<>> /\ trail' = <<>>
       ELSE txn' = [txn EXCEPT !.step = "rollback"] /\ UNCHANGED <<before, trail>>
  /\ drifted' = IF result = "commit_unknown"
                  THEN drifted \cup {txn.writes[i].check : i \in 1..Len(txn.writes)}
                  ELSE drifted
  /\ UNCHANGED <<phase, memory, probe, handlers, status, provisioned, lastSeen>>

\* One round of the loop in rollbackObservedResultsLocked: the Runtime m with
\* one entry undone
Undone(m, undo) ==
  LET c == undo.check
      p == undo.probe
  IN  <<IF undo.createdQuorum THEN m[1] \ {c} ELSE m[1],
        [m[2] EXCEPT ![c] = IF undo.createdQuorum THEN NewCheckQuorumState
                            ELSE undo.previousQuorum],
        [m[3] EXCEPT ![c] = IF undo.createdQuorum THEN {}
                            ELSE IF undo.createdAssignment THEN @ \ {p} ELSE @],
        [m[4] EXCEPT ![c] =
           IF undo.createdQuorum THEN [q \in Probes |-> NewCheckExecState]
           ELSE [@ EXCEPT ![p] = IF undo.createdAssignment
                                   THEN NewCheckExecState
                                   ELSE undo.previousCheck]]>>

\* The Runtime is m from now on.
MemoryBecomes(m) ==
  known' = m[1] /\ quorum' = m[2] /\ assigned' = m[3] /\ exec' = m[4]

\* Mutant: the oldest entry first.
RollbackObservedResult_OldestFirst ==
  /\ txn.step = "rollback"
  /\ txn.undo # <<>>
  /\ MemoryBecomes(Undone(memory, Head(txn.undo)))
  /\ txn' = [txn EXCEPT !.undo = Tail(@)]
  /\ trail' = Tail(trail)
  /\ UNCHANGED <<phase, probe, handlers, tables, drifted, before>>

\* rollbackObservedResultsLocked, one entry, the newest first
RollbackObservedResult ==
  /\ txn.step = "rollback"
  /\ txn.undo # <<>>
  /\ MemoryBecomes(Undone(memory, txn.undo[Len(txn.undo)]))
  /\ txn' = [txn EXCEPT !.undo = SubSeq(@, 1, Len(@) - 1)]
  /\ trail' = SubSeq(trail, 1, Len(trail) - 1)
  /\ UNCHANGED <<phase, probe, handlers, tables, drifted, before>>

\* The handler returns the error and gives the mutex back.
ReturnError ==
  /\ txn.step = "rollback"
  /\ txn.undo = <<>>
  /\ txn' = Idle
  /\ before' = <<>> /\ trail' = <<>>
  /\ UNCHANGED <<phase, memory, probe, handlers, tables, drifted>>

----------------------------------------------------------------------------

Aged(t) == IF t > 0 THEN t - 1 ELSE t

AgedExec(e) ==
  [c \in Checks |-> [p \in Probes |-> [e[c][p] EXCEPT !.ExpiresAt = Aged(@)]]]

AgedItems(items) ==
  [i \in 1..Len(items) |-> [items[i] EXCEPT !.ttl = Aged(@)]]

Tick ==
  /\ "tick" \in Env
  /\ phase # "starting"
  /\ txn.step = "idle"
  /\ exec' = AgedExec(exec)
  /\ row' = AgedExec(row)
  /\ probe' = [p \in Probes |-> [probe[p] EXCEPT !.LastHeartbeatAt = Aged(@)]]
  /\ lastSeen' = [p \in Probes |-> Aged(lastSeen[p])]
  /\ requests' = {AgedItems(items) : items \in requests}
  /\ UNCHANGED <<phase, known, quorum, assigned, creating, deleting,
                 registering, txn, status, openIncidents, provisioned, history>>

CheckNext ==
  \E c \in Checks :
    \/ SeedCheck(c) \/ CreateCheck(c) \/ EnsureCheck(c)
    \/ DeleteCheck(c) \/ RemoveCheck(c)
    \/ \E p \in Probes : SweepCheck(c, p)

ProbeNext ==
  \E p \in Probes :
    \/ CreateProbeCredential(p) \/ RegisterProbe(p) \/ AddProbe(p)
    \/ SweepProbe(p) \/ NormalizeBatch(p)
    \/ \E result \in CommitResults : Heartbeat(p, result)

BatchNext ==
  \/ \E items \in requests : LockBatch(items)
  \/ ApplyObservedResult
  \/ \E result \in CommitResults : PersistMonitoringBatch(result)
  \/ RollbackObservedResult
  \/ ReturnError

Next ==
  LoadRuntime \/ Serve \/ Crash \/ Tick \/ CheckNext \/ ProbeNext \/ BatchNext

Spec == Init /\ [][Next]_vars

\* A handler that runs goes on to its end, and the database answers.
HandlersRun ==
  /\ WF_vars(LoadRuntime) /\ WF_vars(Serve)
  /\ WF_vars(ApplyObservedResult) /\ WF_vars(PersistMonitoringBatch("ok"))
  /\ WF_vars(RollbackObservedResult) /\ WF_vars(ReturnError)

\* The sweep loops keep running; they obtain the mutex infinitely often, since
\* sync.RWMutex does not starve a writer.
Fairness ==
  /\ HandlersRun
  /\ \A p \in Probes : SF_vars(SweepProbe(p))
  /\ \A c \in Checks, p \in Probes : SF_vars(SweepCheck(c, p))

FairSpec == Spec /\ Fairness

\* The probe's scheduler: p reports c down again and again, and the requests
\* of p reach the mutex.
ReportsDown(c, p) ==
  /\ NormalizeBatch(p)
  /\ \E items \in requests' : \A i \in 1..Len(items) :
       items[i].check = c /\ items[i].probe = p /\ items[i].outcome = "down"

Handles(p) ==
  \E items \in requests : items[1].probe = p /\ LockBatch(items)

ReportingSpec ==
  /\ Spec /\ HandlersRun
  /\ \A p \in Probes : SF_vars(Handles(p))
  /\ \A c \in Checks, p \in Probes : SF_vars(ReportsDown(c, p))

----------------------------------------------------------------------------
(* Properties *)

\* The state that the status pages show for a check is the one its votes
\* give: recomputing without new evidence changes nothing, although opening
\* or resolving an incident changes which up results count (Recompute).
StateMatchesVotes ==
  \A c \in Checks :
    quorum[c].State = AggregateState(quorum[c], assigned[c], exec[c])

\* Every alert that a transaction is about to record carries counts that
\* justify it: a "down" alert a strict majority of probes down, an "up" alert
\* a minority, also when a probe joins the quorum in the same step
\* (monitoringWriteForCheckEvent, quorumCounts).
AlertsNeedMajority ==
  \A i \in 1..Len(txn.writes) :
    LET w == txn.writes[i]
    IN  /\ w.incident = "open" => 2 * w.probesDown > w.probesTotal
        /\ w.incident = "resolve" => 2 * w.probesDown < w.probesTotal

\* A deleted check has no open incident, even if a result or a sweep that
\* started before the delete commits after it (DeleteCheck,
\* openIncidentWithNotificationByCheckIDTx).
NoIncidentForDeletedCheck ==
  \A c \in openIncidents : status[c] = "active"

\* Every probe whose credential is accepted is in the Runtime, after a restart
\* and after its credential was created while the server runs: no upload and
\* no heartbeat of it is refused with ErrUnknownProbe (LoadRuntime,
\* handleCreateProbeCredential, applyObservedResultLocked).
ProbesKnown ==
  phase # "stopped" => \A p \in provisioned : probe[p].State # "unknown"

Settled(c) ==
  /\ phase # "stopped" /\ txn.step = "idle"
  /\ status[c] = "active" /\ c \notin drifted

\* Between transactions the Runtime has an incident open exactly when the
\* incidents table has, across batches, rollbacks, check sweeps, deletes and
\* restarts.  The two known ways to let them apart, a probe sweep that moves
\* the stable state and a commit that reports an error, are in "drifted".
IncidentAgreement ==
  \A c \in Checks :
    Settled(c) => (quorum[c].IncidentOpen <=> c \in openIncidents)

\* The recovery row of every (check, probe) pair that holds evidence is what
\* the Runtime holds, so that a crash at any moment loses no part of a streak
\* (applyObservedResultLocked, SweepChecks, LoadRuntime).
RecoveryRowsCurrent ==
  \A c \in Checks : Settled(c) =>
    \A p \in Probes :
      exec[c][p].LastOutcome # "none" => row[c][p] = exec[c][p]

\* A batch or sweep whose write failed leaves the Runtime as it found it,
\* whatever it had created or recomputed (rollbackObservedResultsLocked).
RollbackRestores ==
  [][txn.step = "rollback" /\ txn'.step = "idle" /\ phase' = phase
       => memory' = before]_vars

\* A stable state is promoted only if the aggregate already had it before the
\* step: no single result, not even the first result of a probe, which
\* recomputes twice, can move it on its own (Recompute, QuorumMachine.AddProbe).
PromotionRepeats ==
  [][\A c \in Checks :
       /\ phase # "stopped" /\ txn.step # "rollback"
       /\ quorum'[c].LastStableState # quorum[c].LastStableState
       /\ quorum'[c].LastStableState # "none"
       => quorum'[c].LastStableState = quorum[c].State]_vars

\* The words of the documentation, with no exception: whenever the Runtime
\* takes a check to be in an incident, so does the database, and conversely.
StableTransitionsRecorded ==
  \A c \in Checks :
    phase # "stopped" /\ txn.step = "idle" /\ status[c] = "active"
      => (quorum[c].IncidentOpen <=> c \in openIncidents)

HasExpired(c, p) == p \in assigned[c] /\ exec[c][p].ExpiresAt = 0

\* Evidence that has expired does not stay in a quorum: the check sweeper
\* drops it or a fresh result replaces it (SweepChecks).
ExpiredEvidenceLeaves ==
  \A c \in Checks, p \in Probes : []<>~HasExpired(c, p)

\* A probe that stops sending heartbeats does not stay online, also if its
\* silence began before a restart (SweepProbes, LoadRuntime).
SilentProbeGoesOffline ==
  \A p \in Probes : []<>~StaleHeartbeat(p)

UpReported(c) ==
  \E items \in requests \cup {txn.todo} : \E i \in 1..Len(items) :
    items[i].check = c /\ items[i].outcome = "up"

\* An outage is detected: once no probe reports a check up any more and all
\* keep reporting it down, its stable state becomes down and stays so
\* (Observe, Recompute).
OutageDetected ==
  \A c \in Checks :
    (<>[](status[c] = "active" /\ ~UpReported(c)))
      => <>[](quorum[c].LastStableState = "down")

----------------------------------------------------------------------------
(* The inductive invariant behind StateMatchesVotes, AlertsNeedMajority,    *)
(* PromotionRepeats and RollbackRestores (MonitoringProofs).               *)

\* CheckMachine.State is the vote, and evidence has a deadline.
EvidenceOK(e) ==
  /\ (e.State = "down" <=> ContributesDown(e))
  /\ e.LastOutcome # "none" => e.ExpiresAt # NoTime

\* The state of check c in m is the one its votes give, it has none outside
\* Runtime.quorums, and only assigned probes have evidence.
CheckOK(m, c) ==
  /\ m[2][c].State = AggregateState(m[2][c], m[3][c], m[4][c])
  /\ c \notin m[1] => m[2][c] = NewCheckQuorumState /\ m[3][c] = {}
  /\ \A p \in Probes :
       /\ EvidenceOK(m[4][c][p])
       /\ p \notin m[3][c] => m[4][c][p] = NewCheckExecState

MemoryOK(m) == \A c \in Checks : CheckOK(m, c)

\* Undoing the entries from the end leads back, state by state, to the Runtime
\* of before.
TrailInv ==
  /\ phase = "stopped" => txn.step = "idle" /\ requests = {}
  /\ txn.step = "idle" => txn = Idle
  /\ Len(trail) = Len(txn.undo)
  /\ txn.step # "idle" =>
       IF trail = <<>> THEN memory = before ELSE trail[1] = before
  /\ \A i \in 1..Len(trail) :
       trail[i] = Undone(IF i < Len(trail) THEN trail[i + 1] ELSE memory,
                         txn.undo[i])

VotesInv ==
  /\ TypeOK /\ TrailInv /\ AlertsNeedMajority
  /\ MemoryOK(memory)
  /\ \A i \in 1..Len(trail) : MemoryOK(trail[i])
  /\ \A c \in Checks, p \in Probes : EvidenceOK(row[c][p])
  /\ \A i \in 1..Len(txn.writes) : EvidenceOK(txn.writes[i].state)

----------------------------------------------------------------------------
(* The inductive invariant behind IncidentAgreement and                    *)
(* NoIncidentForDeletedCheck (IncidentProofs).                             *)

IncidentMeansDown(q) == q.IncidentOpen => q.LastStableState = "down"

\* The machines of the Runtime: an incident is open only while the stable
\* state is down, and a check outside Runtime.quorums has no state.
MachineInv ==
  \A c \in Checks :
    /\ IncidentMeansDown(quorum[c])
    /\ c \notin known => quorum[c] = NewCheckQuorumState /\ assigned[c] = {}

\* Nothing refers to a check before it is created, RemoveCheck runs for
\* deleted checks only, and incidents are open for active checks only.
LifecycleInv ==
  /\ \A c \in known \cup creating : status[c] # "absent"
  /\ \A c \in deleting : status[c] = "deleted"
  /\ NoIncidentForDeletedCheck
  /\ \A items \in requests : \A i \in 1..Len(items) :
       status[items[i].check] # "absent"
  /\ \A i \in 1..Len(txn.todo) : status[txn.todo[i].check] # "absent"
  /\ \A i \in 1..Len(txn.undo) : status[txn.undo[i].check] # "absent"
  /\ \A i \in 1..Len(txn.writes) : status[txn.writes[i].check] # "absent"

\* The quorums when txn began
QuorumBefore == before[2]

\* No earlier entry of the undo log is about check c.
FirstUndo(i, c) == \A j \in 1..(i - 1) : txn.undo[j].check # c

\* The undo log leads back to the quorums as they were when txn began, and
\* no handler runs while the server is stopped.
UndoInv ==
  /\ phase = "stopped" => txn.step = "idle" /\ requests = {}
  /\ txn.step = "idle" => txn = Idle
  /\ \A i \in 1..Len(txn.undo) :
       LET u == txn.undo[i]
       IN  /\ u.check \in known
           /\ IncidentMeansDown(u.previousQuorum)
           /\ u.createdQuorum =>
                u.previousQuorum = NewCheckQuorumState /\ FirstUndo(i, u.check)
           /\ FirstUndo(i, u.check) => u.previousQuorum = QuorumBefore[u.check]
  /\ txn.step # "idle" =>
       \A c \in Checks :
         FirstUndo(Len(txn.undo) + 1, c) => quorum[c] = QuorumBefore[c]

IncidentWrite(i, c) ==
  txn.writes[i].check = c /\ txn.writes[i].incident # "none"

\* While a transaction is prepared, the last incident write of a check gives
\* the Runtime's flag.
FlagFollowsWrites(c) ==
  /\ (\A i \in 1..Len(txn.writes) : ~IncidentWrite(i, c))
       => (quorum[c].IncidentOpen <=> QuorumBefore[c].IncidentOpen)
  /\ \A i \in 1..Len(txn.writes) :
       /\ IncidentWrite(i, c)
       /\ \A j \in (i + 1)..Len(txn.writes) : ~IncidentWrite(j, c)
       => (quorum[c].IncidentOpen <=> txn.writes[i].incident = "open")

\* The flag agrees with the table between transactions, and the flag from
\* before the transaction does during one.
AgreementInv ==
  \A c \in Checks : status[c] = "active" =>
    /\ Settled(c) => (quorum[c].IncidentOpen <=> c \in openIncidents)
    /\ txn.step # "idle" /\ c \notin drifted =>
         (QuorumBefore[c].IncidentOpen <=> c \in openIncidents)
    /\ txn.step = "apply" => FlagFollowsWrites(c)

IncidentInv ==
  TypeOK /\ MachineInv /\ LifecycleInv /\ UndoInv /\ AgreementInv

----------------------------------------------------------------------------
(* What RecoveryRowsCurrent needs beside VotesInv and IncidentInv           *)
(* (IncidentProofs): where the Runtime is ahead of the rows.               *)

\* The evidence when txn began
ExecBefore == before[4]

RowHolds(c, p, e) == e.LastOutcome # "none" => row[c][p] = e

StateWrite(i, c, p) ==
  txn.writes[i].check = c /\ txn.writes[i].probe = p

\* While a transaction is prepared, the last write of a row has the evidence
\* of the Runtime.
ExecFollowsWrites(c, p) ==
  /\ (\A i \in 1..Len(txn.writes) : ~StateWrite(i, c, p))
       => exec[c][p] = ExecBefore[c][p]
  /\ \A i \in 1..Len(txn.writes) :
       /\ StateWrite(i, c, p)
       /\ \A j \in (i + 1)..Len(txn.writes) : ~StateWrite(j, c, p)
       => txn.writes[i].state = exec[c][p]

\* The rows hold the evidence between transactions, and the evidence from
\* before the transaction during one.
RowsInv ==
  \A c \in Checks, p \in Probes : status[c] # "deleted" =>
    /\ phase # "stopped" /\ txn.step = "idle" /\ c \notin drifted =>
         RowHolds(c, p, exec[c][p])
    /\ txn.step # "idle" /\ c \notin drifted => RowHolds(c, p, ExecBefore[c][p])
    /\ txn.step = "apply" => ExecFollowsWrites(c, p)

=============================================================================
