--------------------------- MODULE IncidentProofs ---------------------------
(***************************************************************************)
(* The Runtime and the incidents table agree, for every instance of        *)
(* Monitoring.  IncidentAgreement is not inductive: while a transaction is *)
(* prepared the Runtime is ahead of the table, and after a failed commit   *)
(* it is led back by the undo log.  IncidentInv says by how much it is     *)
(* ahead (AgreementInv) and where the undo log ends (UndoInv).             *)
(***************************************************************************)
EXTENDS MonitoringProofs

-----------------------------------------------------------------------------
(* Recompute and the incident effect *)

\* A recompute keeps the incident flag unless it moves the stable state, and an
\* incident stays a sign of a stable state that is down.
LEMMA RecomputeKeepsFlag ==
  ASSUME NEW q \in QuorumRecords, IncidentMeansDown(q), NEW members, NEW checks
  PROVE  IncidentMeansDown(Recompute(q, members, checks))
<1> DEFINE r == Recompute(q, members, checks)
<1>1. /\ r.LastStableState # q.LastStableState => r.LastStableState \in StableStates
      /\ r.IncidentOpen = IncidentFlag(q, r.LastStableState)
  BY RecomputeFacts
<1> HIDE DEF r
<1>2. IncidentMeansDown(r)
  BY <1>1 DEF IncidentMeansDown, IncidentFlag, QuorumRecords, StableStates
<1> QED
  BY <1>2 DEF r

\* The incident effect of one or two recomputes is exactly the change of the
\* incident flag: joining a quorum recomputes twice but promotes only once.
LEMMA EffectIsFlagChange ==
  ASSUME NEW q \in QuorumRecords, IncidentMeansDown(q),
         NEW q1 \in QuorumRecords, NEW S1, NEW e1,
         q1 = q \/ q1 = Recompute(q, S1, e1),
         NEW S2, NEW e2, NEW q2, q2 = Recompute(q1, S2, e2)
  PROVE  /\ IncidentEffect(q, q2) = "none" => q2.IncidentOpen = q.IncidentOpen
         /\ IncidentEffect(q, q2) # "none" =>
              (q2.IncidentOpen <=> IncidentEffect(q, q2) = "open")
<1>1. /\ q1.LastStableState # q.LastStableState =>
           /\ q1.LastStableState = q1.State
           /\ q1.LastStableState \in StableStates
      /\ q1.IncidentOpen = IncidentFlag(q, q1.LastStableState)
  <2>1. CASE q1 = q
    BY <2>1 DEF IncidentFlag
  <2>2. CASE q1 = Recompute(q, S1, e1)
    BY <2>2, RecomputeFacts
  <2> QED BY <2>1, <2>2
<1>2. /\ q2 \in QuorumRecords
      /\ q2.LastStableState # q1.LastStableState =>
           /\ q2.LastStableState = q1.State
           /\ q2.LastStableState \in StableStates
      /\ q2.IncidentOpen = IncidentFlag(q1, q2.LastStableState)
  BY RecomputeFacts
<1>3. q1.LastStableState = q.LastStableState \/ q2.LastStableState = q1.LastStableState
  BY <1>1, <1>2
<1>4. q2.IncidentOpen = IncidentFlag(q, q2.LastStableState)
  <2>1. CASE q1.LastStableState = q.LastStableState
    BY <1>1, <1>2, <2>1 DEF IncidentFlag, QuorumRecords
  <2>2. CASE q2.LastStableState = q1.LastStableState
    BY <1>1, <1>2, <2>2 DEF IncidentFlag, QuorumRecords
  <2> QED BY <1>3, <2>1, <2>2
<1> QED
  BY <1>2, <1>4 DEF IncidentEffect, IncidentFlag, IncidentMeansDown, QuorumRecords

\* Reloading an incident neither opens nor closes it.
LEMMA RestoredFlag ==
  ASSUME NEW c \in Checks, NEW members, NEW checks
  PROVE  LET r == Recompute(RestoredQuorum(c), members, checks)
         IN  /\ IncidentMeansDown(r)
             /\ r.IncidentOpen <=> c \in openIncidents
<1> DEFINE q == RestoredQuorum(c)
           r == Recompute(q, members, checks)
<1>1. /\ q \in QuorumRecords
      /\ q.IncidentOpen <=> c \in openIncidents
      /\ q.IncidentOpen => q.LastStableState = "down" /\ q.State = "down"
      /\ ~q.IncidentOpen => q.LastStableState = "none"
  BY DEF RestoredQuorum, NewCheckQuorumState, QuorumRecords, QuorumStates,
         StableStates
<1> HIDE DEF q
<1>2. /\ r.LastStableState # q.LastStableState => r.LastStableState = q.State
      /\ r.IncidentOpen = IncidentFlag(q, r.LastStableState)
  BY <1>1, RecomputeFacts
<1>3. IncidentMeansDown(r)
  BY <1>1, RecomputeKeepsFlag DEF IncidentMeansDown
<1> HIDE DEF r
<1>4. r.IncidentOpen <=> c \in openIncidents
  BY <1>1, <1>2 DEF IncidentFlag
<1> QED
  BY <1>3, <1>4 DEF q, r

-----------------------------------------------------------------------------
(* MachineInv *)

\* What a step of the three actions that recompute one check does to it.
LEMMA ApplyFacts ==
  ASSUME TypeOK, MachineInv, ApplyObservedResult
  PROVE  \E c \in Checks, u \in Undos, w \in Writes :
           /\ txn.step = "apply" /\ Len(txn.todo) > 0
           /\ c = txn.todo[1].check
           /\ u.check = c /\ w.check = c
           /\ u.createdQuorum = (c \notin known)
           /\ u.previousQuorum = quorum[c]
           /\ txn' = [txn EXCEPT !.todo = Tail(@), !.undo = Append(@, u),
                                 !.writes = Append(@, w)]
           /\ known' = known \cup {c}
           /\ assigned' = [assigned EXCEPT ![c] = assigned'[c]]
           /\ quorum' = [quorum EXCEPT ![c] = quorum'[c]]
           /\ IncidentMeansDown(quorum'[c])
           /\ w.incident = "none" =>
                (quorum'[c].IncidentOpen <=> quorum[c].IncidentOpen)
           /\ w.incident # "none" =>
                (quorum'[c].IncidentOpen <=> w.incident = "open")
<1> DEFINE item     == Head(txn.todo)
           c        == item.check
           p        == item.probe
           members  == assigned[c] \cup {p}
           checks   == [exec[c] EXCEPT ![p] = Observe(@, item.outcome, item.ttl)]
           current  == Recompute(JoinedQuorum(c, p), members, checks)
           incident == IncidentEffect(quorum[c], current)
           undo     == [check |-> c, probe |-> p,
                        createdQuorum |-> c \notin known,
                        createdAssignment |-> p \notin assigned[c],
                        previousCheck |-> exec[c][p],
                        previousQuorum |-> quorum[c]]
           write    == WriteFor(c, p, members, checks, incident)
<1>1. /\ txn.step = "apply" /\ Len(txn.todo) > 0
      /\ item = txn.todo[1] /\ item \in Items
  BY NextItem
<1>2. c \in Checks /\ p \in Probes /\ item.outcome \in StableStates
      /\ item.ttl \in Times
  BY <1>1 DEF Items, Times
<1>3. checks \in [Probes -> ExecStates(Times)]
  BY <1>2, ObserveType DEF TypeOK
<1>4. quorum[c] \in QuorumRecords /\ IncidentMeansDown(quorum[c])
  BY <1>2 DEF TypeOK, MachineInv
<1>5. /\ JoinedQuorum(c, p) \in QuorumRecords
      /\ IncidentMeansDown(JoinedQuorum(c, p))
      /\ \/ JoinedQuorum(c, p) = quorum[c]
         \/ JoinedQuorum(c, p) = Recompute(quorum[c], members, exec[c])
  BY <1>4, RecomputeType, RecomputeKeepsFlag DEF JoinedQuorum
<1>6. undo \in Undos
  BY <1>2 DEF Undos, TypeOK
<1>7. write \in Writes
  BY <1>2, <1>3, WriteForType, IncidentEffectType, ZenonT(60) DEF TypeOK
<1>8. write.check = c /\ write.incident = incident
  BY DEF WriteFor
<1>9. undo.check = c /\ undo.createdQuorum = (c \notin known)
      /\ undo.previousQuorum = quorum[c]
  OBVIOUS
<1>10. /\ known' = known \cup {c}
       /\ assigned' = [assigned EXCEPT ![c] = members]
       /\ quorum' = [quorum EXCEPT ![c] = current]
       /\ txn' = [txn EXCEPT !.todo = Tail(@), !.undo = Append(@, undo),
                             !.writes = Append(@, write)]
  BY DEF ApplyObservedResult
<1>11. /\ IncidentMeansDown(current)
       /\ incident = "none" => current.IncidentOpen = quorum[c].IncidentOpen
       /\ incident # "none" => (current.IncidentOpen <=> incident = "open")
  BY <1>4, <1>5, RecomputeKeepsFlag, EffectIsFlagChange
<1> HIDE DEF c, p, item, members, checks, current, incident, undo, write
<1>12. quorum'[c] = current /\ assigned'[c] = members
  BY <1>2, <1>10 DEF TypeOK
<1>13. c = txn.todo[1].check
  BY <1>1 DEF c
<1> QED
  BY <1>1, <1>2, <1>6, <1>7, <1>8, <1>9, <1>10, <1>11, <1>12, <1>13, ZenonT(60)

\* The same for a check sweep, which recomputes once.
LEMMA SweepFacts ==
  ASSUME TypeOK, MachineInv, NEW c \in Checks, NEW p \in Probes, SweepCheck(c, p)
  PROVE  \E u \in Undos, w \in Writes :
           /\ txn.step = "idle" /\ phase = "serving" /\ c \in known
           /\ u.check = c /\ w.check = c
           /\ ~u.createdQuorum
           /\ u.previousQuorum = quorum[c]
           /\ txn' = [step |-> "apply", todo |-> <<>>, undo |-> <<u>>,
                      writes |-> <<w>>]
           /\ quorum' = [quorum EXCEPT ![c] = quorum'[c]]
           /\ IncidentMeansDown(quorum'[c])
           /\ status[c] = "active" =>
                /\ w.incident = "none" =>
                     (quorum'[c].IncidentOpen <=> quorum[c].IncidentOpen)
                /\ w.incident # "none" =>
                     (quorum'[c].IncidentOpen <=> w.incident = "open")
<1> DEFINE checks   == [exec[c] EXCEPT ![p] = LoseEvidence(@)]
           current  == Recompute(quorum[c], assigned[c], checks)
           incident == IF status[c] = "active"
                         THEN IncidentEffect(quorum[c], current) ELSE "none"
           undo     == [check |-> c, probe |-> p,
                        createdQuorum |-> FALSE, createdAssignment |-> FALSE,
                        previousCheck |-> exec[c][p],
                        previousQuorum |-> quorum[c]]
           write    == WriteFor(c, p, assigned[c], checks, incident)
<1>1. checks \in [Probes -> ExecStates(Times)]
  BY LoseEvidenceType DEF TypeOK
<1>2. quorum[c] \in QuorumRecords /\ IncidentMeansDown(quorum[c])
  BY DEF TypeOK, MachineInv
<1>3. undo \in Undos
  BY DEF Undos, TypeOK
<1>4. write \in Writes
  BY <1>1, WriteForType, IncidentEffectType DEF TypeOK
<1>5. write.check = c /\ write.incident = incident
  BY DEF WriteFor
<1>6. undo.check = c /\ ~undo.createdQuorum /\ undo.previousQuorum = quorum[c]
  OBVIOUS
<1>7. /\ txn.step = "idle" /\ phase = "serving" /\ c \in known
      /\ quorum' = [quorum EXCEPT ![c] = current]
      /\ txn' = [step |-> "apply", todo |-> <<>>, undo |-> <<undo>>,
                 writes |-> <<write>>]
  BY DEF SweepCheck
<1>8. /\ IncidentMeansDown(current)
      /\ status[c] = "active" =>
           /\ incident = "none" => current.IncidentOpen = quorum[c].IncidentOpen
           /\ incident # "none" => (current.IncidentOpen <=> incident = "open")
  BY <1>2, RecomputeKeepsFlag, EffectIsFlagChange
<1> HIDE DEF checks, current, incident, undo, write
<1>9. quorum'[c] = current
  BY <1>7 DEF TypeOK
<1> QED
  BY <1>3, <1>4, <1>5, <1>6, <1>7, <1>8, <1>9

\* No step opens an incident in the Runtime without a stable state down, or
\* leaves state behind for a check that the Runtime does not know.
LEMMA MachineStep == IncidentInv /\ [Next]_vars => MachineInv'
<1> SUFFICES ASSUME IncidentInv, [Next]_vars PROVE MachineInv'
  OBVIOUS
<1> USE DEF memory
<1>0. TypeOK /\ MachineInv
  BY DEF IncidentInv
<1>1. CASE UNCHANGED <<known, quorum, assigned>>
  BY <1>0, <1>1 DEF MachineInv
<1>2. CASE LoadRuntime
  <2>1. \A c \in Checks :
          quorum'[c] = IF status[c] = "active"
                         THEN Recompute(RestoredQuorum(c), assigned'[c], exec'[c])
                         ELSE NewCheckQuorumState
    BY <1>2 DEF LoadRuntime
  <2>2. \A c \in Checks : IncidentMeansDown(quorum'[c])
    BY <2>1, RestoredFlag DEF IncidentMeansDown, NewCheckQuorumState
  <2>3. \A c \in Checks : c \notin known' =>
          quorum'[c] = NewCheckQuorumState /\ assigned'[c] = {}
    BY <1>2, <2>1 DEF LoadRuntime, RestoredMembers
  <2> QED BY <2>2, <2>3 DEF MachineInv
<1>3. CASE Crash
  BY <1>3 DEF Crash, MachineInv, EmptyQuorums, NewCheckQuorumState,
              IncidentMeansDown
<1>4. ASSUME NEW c \in Checks, EnsureCheck(c) PROVE MachineInv'
  BY <1>0, <1>4 DEF EnsureCheck, MachineInv
<1>5. ASSUME NEW c \in Checks, RemoveCheck(c) PROVE MachineInv'
  BY <1>0, <1>5 DEF RemoveCheck, MachineInv, TypeOK, NewCheckQuorumState,
                    IncidentMeansDown
<1>6. ASSUME NEW p \in Probes, SweepProbe(p) PROVE MachineInv'
  <2>1. \A c \in Checks : IncidentMeansDown(quorum'[c])
    BY <1>0, <1>6, RecomputeKeepsFlag
       DEF SweepProbe, DegradedQuorum, MachineInv, TypeOK
  <2>2. \A c \in Checks : c \notin known' =>
          quorum'[c] = NewCheckQuorumState /\ assigned'[c] = {}
    BY <1>0, <1>6 DEF SweepProbe, DegradedQuorum, MachineInv
  <2> QED BY <2>1, <2>2 DEF MachineInv
<1>7. CASE ApplyObservedResult
  <2>1. PICK c \in Checks :
          /\ known' = known \cup {c}
          /\ assigned' = [assigned EXCEPT ![c] = assigned'[c]]
          /\ quorum' = [quorum EXCEPT ![c] = quorum'[c]]
          /\ IncidentMeansDown(quorum'[c])
    BY <1>0, <1>7, ApplyFacts
  <2> QED BY <1>0, <2>1 DEF MachineInv, TypeOK
<1>8. ASSUME NEW c \in Checks, NEW p \in Probes, SweepCheck(c, p)
      PROVE  MachineInv'
  <2>1. /\ c \in known
        /\ quorum' = [quorum EXCEPT ![c] = quorum'[c]]
        /\ IncidentMeansDown(quorum'[c])
    BY <1>0, <1>8, SweepFacts
  <2>2. UNCHANGED <<known, assigned>>
    BY <1>8 DEF SweepCheck
  <2> QED BY <1>0, <2>1, <2>2 DEF MachineInv, TypeOK
<1>9. CASE RollbackObservedResult
  <2> DEFINE u == txn.undo[Len(txn.undo)]
             c == u.check
  <2>1. Len(txn.undo) \in 1..Len(txn.undo) /\ u \in Undos
    BY <1>0, <1>9 DEF RollbackObservedResult, TypeOK
  <2>2. c \in Checks /\ u.previousQuorum \in QuorumRecords
    BY <2>1 DEF Undos
  <2>3. c \in known /\ IncidentMeansDown(u.previousQuorum)
    BY <2>1 DEF IncidentInv, UndoInv
  <2>4. /\ known' = IF u.createdQuorum THEN known \ {c} ELSE known
        /\ quorum' = [quorum EXCEPT ![c] =
             IF u.createdQuorum THEN NewCheckQuorumState ELSE u.previousQuorum]
    BY <1>9 DEF RollbackObservedResult, MemoryBecomes, Undone, memory
  <2>5. /\ \A d \in Checks : d # c => assigned'[d] = assigned[d]
        /\ u.createdQuorum => assigned'[c] = {}
    BY <1>0, <1>9, <2>2 DEF RollbackObservedResult, MemoryBecomes, Undone, memory, TypeOK
  <2> HIDE DEF u, c
  <2>6. IncidentMeansDown(NewCheckQuorumState)
    BY DEF IncidentMeansDown, NewCheckQuorumState
  <2> QED
    BY <1>0, <2>2, <2>3, <2>4, <2>5, <2>6 DEF MachineInv, TypeOK
<1>10. ASSUME [Next]_vars,
              ~LoadRuntime, ~Crash, \A c \in Checks : ~EnsureCheck(c),
              \A c \in Checks : ~RemoveCheck(c), \A p \in Probes : ~SweepProbe(p),
              ~ApplyObservedResult,
              \A c \in Checks, p \in Probes : ~SweepCheck(c, p),
              ~RollbackObservedResult
       PROVE  UNCHANGED <<known, quorum, assigned>>
  BY <1>10
     DEF Next, CheckNext, ProbeNext, BatchNext, vars, SeedCheck, Serve,
         CreateCheck, DeleteCheck, CreateProbeCredential, RegisterProbe,
         AddProbe, Heartbeat, NormalizeBatch, LockBatch,
         PersistMonitoringBatch, ReturnError, Tick
<1> QED
  BY <1>1, <1>2, <1>3, <1>4, <1>5, <1>6, <1>7, <1>8, <1>9, <1>10

-----------------------------------------------------------------------------
(* LifecycleInv *)

\* The states a check goes through only move forward.
LEMMA StatusStep ==
  ASSUME TypeOK, [Next]_vars, NEW c \in Checks
  PROVE  /\ status[c] # "absent" => status'[c] # "absent"
         /\ status[c] = "deleted" => status'[c] = "deleted"
<1> USE DEF tables
<1>1. ASSUME NEW d \in Checks, SeedCheck(d) PROVE status' = [status EXCEPT ![d] = "active"] /\ status[d] = "absent"
  BY <1>1 DEF SeedCheck
<1>2. ASSUME NEW d \in Checks, CreateCheck(d) PROVE status' = [status EXCEPT ![d] = "active"] /\ status[d] = "absent"
  BY <1>2 DEF CreateCheck
<1>3. ASSUME NEW d \in Checks, DeleteCheck(d) PROVE status' = [status EXCEPT ![d] = "deleted"]
  BY <1>3 DEF DeleteCheck
<1>4. ASSUME \A d \in Checks : ~SeedCheck(d) /\ ~CreateCheck(d) /\ ~DeleteCheck(d)
      PROVE  UNCHANGED status
  BY <1>4, ZenonT(60)
     DEF Next, CheckNext, ProbeNext, BatchNext, vars, LoadRuntime, Serve, Crash,
         EnsureCheck, RemoveCheck, SweepCheck, SweepProbe, CreateProbeCredential,
         RegisterProbe, AddProbe, Heartbeat, NormalizeBatch,
         LockBatch, ApplyObservedResult, PersistMonitoringBatch,
         RollbackObservedResult, ReturnError, Tick
<1> QED
  BY <1>1, <1>2, <1>3, <1>4 DEF TypeOK

\* Ageing an upload keeps its checks.
LEMMA AgedItemsChecks ==
  ASSUME NEW items \in Seq(Items)
  PROVE  /\ Len(AgedItems(items)) = Len(items)
         /\ \A i \in 1..Len(items) : AgedItems(items)[i].check = items[i].check
<1>1. \A i \in 1..Len(items) : items[i] \in Items
  OBVIOUS
<1>2. \A i \in 1..Len(items) : AgedItems(items)[i] = [items[i] EXCEPT !.ttl = Aged(@)]
  BY DEF AgedItems
<1> QED
  BY <1>1, <1>2 DEF AgedItems, Items

\* normalizeBatch lets only results of active checks through.
LEMMA UploadsActive ==
  ASSUME NEW p \in Probes, NEW items \in Uploads(p)
  PROVE  \A i \in 1..Len(items) : status[items[i].check] = "active"
<1>1. PICK n \in 1..MaxBatch : items \in [1..n -> ActiveItems(p)]
  BY DEF Uploads
<1>2. n \in Nat /\ Len(items) = n
  BY <1>1, MonitoringAssumption
<1> QED
  BY <1>1, <1>2 DEF ActiveItems

\* A transaction opens incidents of active checks only.
LEMMA OpenAfterActive ==
  ASSUME NEW c \in Checks, NoIncidentForDeletedCheck, OpenAfter(txn.writes, c)
  PROVE  status[c] = "active"
BY DEF OpenAfter, NoIncidentForDeletedCheck

\* No step refers to a check before it is created or opens an incident of a
\* deleted one.
LEMMA LifecycleStep == IncidentInv /\ [Next]_vars => LifecycleInv'
<1> SUFFICES ASSUME IncidentInv, [Next]_vars PROVE LifecycleInv'
  OBVIOUS
<1> USE DEF memory, handlers, tables, history
<1>0. TypeOK /\ MachineInv /\ LifecycleInv /\ UndoInv
  BY DEF IncidentInv
<1>1. /\ \A c \in Checks : status[c] # "absent" => status'[c] # "absent"
      /\ \A c \in Checks : status[c] = "deleted" => status'[c] = "deleted"
  BY <1>0, StatusStep
<1>2. \A c \in known' \cup creating' : status'[c] # "absent"
  <2>1. CASE LoadRuntime
    BY <1>0, <2>1 DEF LoadRuntime, LifecycleInv, TypeOK
  <2>2. ASSUME NEW c \in Checks, CreateCheck(c) PROVE status'[c] = "active" /\ creating' = creating \cup {c} /\ known' = known
    BY <1>0, <2>2 DEF CreateCheck, TypeOK
  <2>3. CASE ApplyObservedResult
    <3>1. PICK c \in Checks : /\ Len(txn.todo) > 0 /\ c = txn.todo[1].check
                              /\ known' = known \cup {c}
      BY <1>0, <2>3, ApplyFacts, ZenonT(60)
    <3>2. status[c] # "absent"
      BY <1>0, <3>1 DEF LifecycleInv, TypeOK
    <3> QED BY <1>0, <1>1, <2>3, <3>1, <3>2 DEF ApplyObservedResult, LifecycleInv, TypeOK
  <2>4. ASSUME ~LoadRuntime, \A c \in Checks : ~CreateCheck(c), ~ApplyObservedResult
        PROVE  known' \cup creating' \subseteq known \cup creating
    BY <2>4, ZenonT(60)
       DEF Next, CheckNext, ProbeNext, BatchNext, vars, Serve, Crash, SeedCheck,
           DeleteCheck, EnsureCheck, RemoveCheck, SweepCheck, SweepProbe,
           CreateProbeCredential, RegisterProbe, AddProbe, Heartbeat,
           NormalizeBatch, LockBatch, PersistMonitoringBatch,
           RollbackObservedResult, MemoryBecomes, Undone, ReturnError, Tick
  <2> QED
    BY <1>0, <1>1, <2>1, <2>2, <2>3, <2>4 DEF LifecycleInv, TypeOK
<1>3. \A c \in deleting' : status'[c] = "deleted"
  <2>1. ASSUME NEW c \in Checks, DeleteCheck(c) PROVE status'[c] = "deleted" /\ deleting' = deleting \cup {c}
    BY <1>0, <2>1 DEF DeleteCheck, TypeOK
  <2>2. ASSUME \A c \in Checks : ~DeleteCheck(c) PROVE deleting' \subseteq deleting
    BY <2>2, ZenonT(60)
       DEF Next, CheckNext, ProbeNext, BatchNext, vars, LoadRuntime, Serve, Crash,
           SeedCheck, CreateCheck, EnsureCheck, RemoveCheck, SweepCheck,
           SweepProbe, CreateProbeCredential, RegisterProbe, AddProbe, Heartbeat,
           NormalizeBatch, LockBatch, ApplyObservedResult,
           PersistMonitoringBatch, RollbackObservedResult, ReturnError, Tick
  <2> QED
    BY <1>0, <1>1, <2>1, <2>2 DEF LifecycleInv, TypeOK
<1>4. NoIncidentForDeletedCheck'
  <2>1. ASSUME NEW c \in Checks, DeleteCheck(c)
        PROVE  /\ openIncidents' = openIncidents \ {c}
               /\ \A d \in Checks : d # c => status'[d] = status[d]
    BY <1>0, <2>1 DEF DeleteCheck, TypeOK
  <2>2. ASSUME NEW result, PersistMonitoringBatch(result)
        PROVE  (\A c \in openIncidents' : status[c] = "active") /\ status' = status
    BY <1>0, <2>2, OpenAfterActive
       DEF PersistMonitoringBatch, LifecycleInv, NoIncidentForDeletedCheck
  <2>3. ASSUME \A c \in Checks : ~DeleteCheck(c),
               \A result \in CommitResults : ~PersistMonitoringBatch(result)
        PROVE  openIncidents' = openIncidents
    BY <2>3, ZenonT(60)
       DEF Next, CheckNext, ProbeNext, BatchNext, vars, LoadRuntime, Serve, Crash,
           SeedCheck, CreateCheck, EnsureCheck, RemoveCheck, SweepCheck,
           SweepProbe, CreateProbeCredential, RegisterProbe, AddProbe, Heartbeat,
           NormalizeBatch, LockBatch, ApplyObservedResult,
           RollbackObservedResult, ReturnError, Tick
  <2>4. ASSUME \A c \in Checks : ~DeleteCheck(c), NEW c \in Checks,
               status[c] = "active"
        PROVE  status'[c] = "active"
    BY <1>0, <2>4, ZenonT(60)
       DEF TypeOK, Next, CheckNext, ProbeNext, BatchNext, vars, LoadRuntime,
           Serve, Crash, SeedCheck, CreateCheck, EnsureCheck, RemoveCheck,
           SweepCheck, SweepProbe, CreateProbeCredential, RegisterProbe, AddProbe,
           Heartbeat, NormalizeBatch, LockBatch, ApplyObservedResult,
           PersistMonitoringBatch, RollbackObservedResult, ReturnError, Tick
  <2> QED
    BY <1>0, <2>1, <2>2, <2>3, <2>4
       DEF LifecycleInv, NoIncidentForDeletedCheck, TypeOK
<1>5. \A items \in requests' : \A i \in 1..Len(items) :
         status'[items[i].check] # "absent"
  <2>1. ASSUME NEW p \in Probes, NormalizeBatch(p)
        PROVE  \E items \in Uploads(p) : requests' = requests \cup {items}
    BY <2>1 DEF NormalizeBatch
  <2>2. ASSUME NEW p \in Probes, NormalizeBatch(p) PROVE status' = status
    BY <2>2 DEF NormalizeBatch
  <2>3. \A items \in requests : \A i \in 1..Len(items) : items[i].check \in Checks
    <3>1. \A items \in requests : \A i \in 1..Len(items) : items[i] \in Items
      BY <1>0 DEF TypeOK
    <3> QED BY <3>1 DEF Items
  <2>4. ASSUME Tick, NEW items \in requests', NEW i \in 1..Len(items)
        PROVE  status'[items[i].check] # "absent"
    <3>1. PICK old \in requests : items = AgedItems(old)
      BY <2>4 DEF Tick
    <3>2. old \in Seq(Items)
      BY <1>0, <3>1 DEF TypeOK
    <3>3. i \in 1..Len(old) /\ items[i].check = old[i].check
      BY <3>1, <3>2, AgedItemsChecks
    <3> QED BY <1>0, <1>1, <2>3, <3>1, <3>3 DEF LifecycleInv
  <2>5. ASSUME \A p \in Probes : ~NormalizeBatch(p), ~Tick
        PROVE  requests' \subseteq requests
    BY <2>5, ZenonT(60)
       DEF Next, CheckNext, ProbeNext, BatchNext, vars, LoadRuntime, Serve, Crash,
           SeedCheck, CreateCheck, DeleteCheck, EnsureCheck, RemoveCheck,
           SweepCheck, SweepProbe, CreateProbeCredential, RegisterProbe, AddProbe,
           Heartbeat, LockBatch, ApplyObservedResult,
           PersistMonitoringBatch, RollbackObservedResult, ReturnError
  <2>6. CASE requests' \subseteq requests
    BY <1>0, <1>1, <2>3, <2>6 DEF LifecycleInv
  <2>7. ASSUME NEW p \in Probes, NormalizeBatch(p)
        PROVE  \A items \in requests' : \A i \in 1..Len(items) :
                 status'[items[i].check] # "absent"
    BY <1>0, <2>1, <2>2, <2>7, UploadsActive DEF LifecycleInv
  <2> QED
    BY <2>4, <2>5, <2>6, <2>7
<1>6. /\ \A i \in 1..Len(txn'.todo) : status'[txn'.todo[i].check] # "absent"
      /\ \A i \in 1..Len(txn'.undo) : status'[txn'.undo[i].check] # "absent"
      /\ \A i \in 1..Len(txn'.writes) : status'[txn'.writes[i].check] # "absent"
  <2>0. /\ \A i \in 1..Len(txn.todo) : txn.todo[i].check \in Checks
        /\ \A i \in 1..Len(txn.undo) : txn.undo[i].check \in Checks
        /\ \A i \in 1..Len(txn.writes) : txn.writes[i].check \in Checks
    <3>1. /\ \A i \in 1..Len(txn.todo) : txn.todo[i] \in Items
          /\ \A i \in 1..Len(txn.undo) : txn.undo[i] \in Undos
          /\ \A i \in 1..Len(txn.writes) : txn.writes[i] \in Writes
      BY <1>0 DEF TypeOK
    <3> QED BY <3>1 DEF Items, Undos, Writes
  <2>1. CASE UNCHANGED <<txn.todo, txn.undo, txn.writes>>
    BY <1>0, <1>1, <2>0, <2>1 DEF LifecycleInv
  <2>2. CASE txn' = Idle
    BY <2>2 DEF Idle
  <2>3. ASSUME NEW items \in requests, LockBatch(items)
        PROVE  /\ txn'.todo = items /\ txn'.undo = <<>> /\ txn'.writes = <<>>
               /\ status' = status
    BY <2>3 DEF LockBatch
  <2>4. CASE ApplyObservedResult
    <3>1. PICK c \in Checks, u \in Undos, w \in Writes :
            /\ Len(txn.todo) > 0 /\ c = txn.todo[1].check
            /\ u.check = c /\ w.check = c
            /\ txn' = [txn EXCEPT !.todo = Tail(@), !.undo = Append(@, u),
                                  !.writes = Append(@, w)]
      BY <1>0, <2>4, ApplyFacts, ZenonT(60)
    <3>2a. status' = status
      BY <2>4 DEF ApplyObservedResult
    <3>2b. 1 \in 1..Len(txn.todo)
      BY <1>0, <3>1 DEF TypeOK
    <3>2. status[c] # "absent" /\ status' = status
      BY <1>0, <3>1, <3>2a, <3>2b DEF LifecycleInv
    <3>3. /\ txn'.todo = Tail(txn.todo)
          /\ txn'.undo = Append(txn.undo, u)
          /\ txn'.writes = Append(txn.writes, w)
      BY <1>0, <3>1 DEF TypeOK
    <3>4. /\ Len(txn'.todo) = Len(txn.todo) - 1
          /\ \A i \in 1..Len(txn'.todo) : txn'.todo[i] = txn.todo[i + 1]
      BY <1>0, <3>1, <3>3 DEF TypeOK
    <3>5. \A i \in 1..Len(txn'.todo) : status'[txn'.todo[i].check] # "absent"
      <4>1. \A i \in 1..Len(txn'.todo) : i + 1 \in 1..Len(txn.todo)
        BY <1>0, <3>4 DEF TypeOK
      <4> QED BY <1>0, <3>2, <3>4, <4>1 DEF LifecycleInv
    <3>6. \A i \in 1..Len(txn'.undo) : status'[txn'.undo[i].check] # "absent"
      <4>1. txn.undo \in Seq(Undos)
        BY <1>0 DEF TypeOK
      <4>2. \A i \in 1..Len(txn'.undo) : i \in 1..Len(txn.undo) \/ i = Len(txn.undo) + 1
        BY <3>3, <4>1, AppendFacts
      <4> QED BY <1>0, <3>1, <3>2, <3>3, <4>1, <4>2, AppendFacts DEF LifecycleInv
    <3>7. \A i \in 1..Len(txn'.writes) : status'[txn'.writes[i].check] # "absent"
      <4>1. txn.writes \in Seq(Writes)
        BY <1>0 DEF TypeOK
      <4>2. \A i \in 1..Len(txn'.writes) : i \in 1..Len(txn.writes) \/ i = Len(txn.writes) + 1
        BY <3>3, <4>1, AppendFacts
      <4> QED BY <1>0, <3>1, <3>2, <3>3, <4>1, <4>2, AppendFacts DEF LifecycleInv
    <3> QED BY <3>5, <3>6, <3>7
  <2>5. ASSUME NEW c \in Checks, NEW p \in Probes, SweepCheck(c, p)
        PROVE  /\ \A i \in 1..Len(txn'.todo) : status'[txn'.todo[i].check] # "absent"
               /\ \A i \in 1..Len(txn'.undo) : status'[txn'.undo[i].check] # "absent"
               /\ \A i \in 1..Len(txn'.writes) : status'[txn'.writes[i].check] # "absent"
    <3>1. PICK u \in Undos, w \in Writes :
            /\ c \in known /\ u.check = c /\ w.check = c
            /\ txn' = [step |-> "apply", todo |-> <<>>, undo |-> <<u>>,
                       writes |-> <<w>>]
      BY <1>0, <2>5, SweepFacts
    <3>2. status[c] # "absent" /\ status' = status
      BY <1>0, <2>5, <3>1 DEF LifecycleInv, SweepCheck
    <3> QED BY <3>1, <3>2
  <2>6. CASE RollbackObservedResult
    <3>1. /\ txn'.todo = txn.todo /\ txn'.writes = txn.writes
          /\ txn'.undo = SubSeq(txn.undo, 1, Len(txn.undo) - 1)
          /\ status' = status /\ txn.undo # <<>>
      BY <1>0, <2>6 DEF RollbackObservedResult, TypeOK
    <3>2. /\ Len(txn'.undo) = Len(txn.undo) - 1
          /\ \A i \in 1..Len(txn'.undo) :
               i \in 1..Len(txn.undo) /\ txn'.undo[i] = txn.undo[i]
      <4>1. txn.undo \in Seq(Undos)
        BY <1>0 DEF TypeOK
      <4> QED BY <3>1, <4>1, FrontFacts
    <3> QED BY <1>0, <3>1, <3>2 DEF LifecycleInv
  <2>7. ASSUME NEW result, PersistMonitoringBatch(result)
        PROVE  txn' = Idle \/ UNCHANGED <<txn.todo, txn.undo, txn.writes>>
    BY <1>0, <2>7 DEF PersistMonitoringBatch, TypeOK
  <2>8. ASSUME \A items \in requests : ~LockBatch(items), ~ApplyObservedResult,
               \A c \in Checks, p \in Probes : ~SweepCheck(c, p),
               ~RollbackObservedResult,
               \A result \in CommitResults : ~PersistMonitoringBatch(result)
        PROVE  txn' = Idle \/ UNCHANGED txn
    BY <2>8
       DEF Next, CheckNext, ProbeNext, BatchNext, vars, LoadRuntime, Serve, Crash,
           SeedCheck, CreateCheck, DeleteCheck, EnsureCheck, RemoveCheck,
           SweepProbe, CreateProbeCredential, RegisterProbe, AddProbe, Heartbeat,
           NormalizeBatch, ReturnError, Tick
  <2>9. ASSUME NEW items \in requests, LockBatch(items)
        PROVE  /\ \A i \in 1..Len(txn'.todo) : status'[txn'.todo[i].check] # "absent"
               /\ \A i \in 1..Len(txn'.undo) : status'[txn'.undo[i].check] # "absent"
               /\ \A i \in 1..Len(txn'.writes) : status'[txn'.writes[i].check] # "absent"
    BY <1>0, <2>3, <2>9 DEF LifecycleInv
  <2> QED
    BY <2>1, <2>2, <2>4, <2>5, <2>6, <2>7, <2>8, <2>9
<1> QED
  BY <1>2, <1>3, <1>4, <1>5, <1>6 DEF LifecycleInv

-----------------------------------------------------------------------------
(* UndoInv *)

\* Every step keeps the undo log a way back to the quorums of before.
LEMMA UndoStep == IncidentInv /\ [Next]_vars => UndoInv'
<1> SUFFICES ASSUME IncidentInv, [Next]_vars PROVE UndoInv'
  OBVIOUS
<1> USE DEF memory, handlers, tables, history
<1> DEFINE First1(i, c) == \A j \in 1..(i - 1) : txn'.undo[j].check # c
<1>0. TypeOK /\ MachineInv /\ UndoInv
  BY DEF IncidentInv
<1>1. txn.undo \in Seq(Undos) /\ Len(txn.undo) \in Nat
  BY <1>0 DEF TypeOK
<1>2. \A i \in 1..Len(txn.undo) : txn.undo[i] \in Undos /\ txn.undo[i].check \in Checks
  <2>1. \A i \in 1..Len(txn.undo) : txn.undo[i] \in Undos
    BY <1>1
  <2> QED BY <2>1 DEF Undos
<1>3. phase' = "stopped" => txn'.step = "idle" /\ requests' = {}
  <2>1. CASE Crash
    BY <2>1 DEF Crash, Idle
  <2>2. ASSUME ~Crash PROVE phase' = "stopped" => phase = "stopped"
    BY <2>2, ZenonT(60)
       DEF Next, CheckNext, ProbeNext, BatchNext, vars, LoadRuntime, Serve,
           SeedCheck, CreateCheck, DeleteCheck, EnsureCheck, RemoveCheck,
           SweepCheck, SweepProbe, CreateProbeCredential, RegisterProbe, AddProbe,
           Heartbeat, NormalizeBatch, LockBatch, ApplyObservedResult,
           PersistMonitoringBatch, RollbackObservedResult, ReturnError, Tick
  <2>3. ASSUME phase = "stopped", ~Crash PROVE UNCHANGED txn /\ requests' = {}
    <3>1. txn.step = "idle" /\ requests = {}
      BY <1>0, <2>3 DEF UndoInv
    <3>2. ~(txn.step = "apply") /\ ~(txn.step = "rollback")
      BY <3>1
    <3> QED
      BY <2>3, <3>1, <3>2
       DEF Next, CheckNext, ProbeNext, BatchNext, vars, LoadRuntime, Serve,
           SeedCheck, CreateCheck, DeleteCheck, EnsureCheck, RemoveCheck,
           SweepCheck, SweepProbe, CreateProbeCredential, RegisterProbe, AddProbe,
           Heartbeat, NormalizeBatch, LockBatch, ApplyObservedResult,
           PersistMonitoringBatch, RollbackObservedResult, ReturnError, Tick
  <2> QED BY <1>0, <2>1, <2>2, <2>3 DEF UndoInv
<1>4. CASE txn' = Idle
  BY <1>3, <1>4 DEF UndoInv, Idle
<1>5. CASE UNCHANGED <<txn, quorum, before>> /\ known \subseteq known'
  BY <1>0, <1>3, <1>5 DEF UndoInv, FirstUndo, QuorumBefore
<1>6. ASSUME NEW result, PersistMonitoringBatch(result) PROVE UndoInv'
  <2>1. CASE result = "ok"
    BY <1>4, <1>6, <2>1 DEF PersistMonitoringBatch
  <2>2. CASE result # "ok"
    <3>1. /\ txn'.undo = txn.undo /\ txn'.step = "rollback" /\ txn.step = "apply"
          /\ UNCHANGED <<quorum, before, known>>
      BY <1>0, <1>6, <2>2 DEF PersistMonitoringBatch, TypeOK
    <3> QED BY <1>0, <1>3, <3>1 DEF UndoInv, FirstUndo, QuorumBefore
  <2> QED BY <2>1, <2>2
<1>7. ASSUME NEW items \in requests, LockBatch(items) PROVE UndoInv'
  <2>1. /\ txn'.undo = <<>> /\ txn'.step = "apply" /\ QuorumBefore' = quorum
        /\ quorum' = quorum
    BY <1>7 DEF LockBatch, QuorumBefore
  <2> QED BY <1>3, <2>1 DEF UndoInv
<1>8. ASSUME NEW c \in Checks, NEW p \in Probes, SweepCheck(c, p) PROVE UndoInv'
  <2>1. PICK u \in Undos :
          /\ c \in known /\ u.check = c /\ ~u.createdQuorum
          /\ u.previousQuorum = quorum[c]
          /\ txn'.step = "apply" /\ txn'.undo = <<u>>
          /\ quorum' = [quorum EXCEPT ![c] = quorum'[c]]
    BY <1>0, <1>8, SweepFacts
  <2>2. QuorumBefore' = quorum /\ known' = known
    BY <1>8 DEF SweepCheck, QuorumBefore
  <2>3. IncidentMeansDown(quorum[c])
    BY <1>0 DEF MachineInv
  <2>4. \A d \in Checks : First1(Len(txn'.undo) + 1, d) => d # c
    BY <2>1 DEF FirstUndo
  <2>5. \A d \in Checks : d # c => quorum'[d] = quorum[d]
    BY <1>0, <2>1 DEF TypeOK
  <2> QED BY <1>3, <2>1, <2>2, <2>3, <2>4, <2>5 DEF UndoInv, FirstUndo
<1>9. CASE ApplyObservedResult
  <2>1. PICK c \in Checks, u \in Undos :
          /\ txn.step = "apply"
          /\ u.check = c
          /\ u.createdQuorum = (c \notin known)
          /\ u.previousQuorum = quorum[c]
          /\ txn'.undo = Append(txn.undo, u) /\ txn'.step = "apply"
          /\ known' = known \cup {c}
          /\ quorum' = [quorum EXCEPT ![c] = quorum'[c]]
    <3>1. PICK c \in Checks, u \in Undos, w \in Writes :
          /\ txn.step = "apply"
          /\ u.check = c
          /\ u.createdQuorum = (c \notin known)
          /\ u.previousQuorum = quorum[c]
          /\ txn' = [txn EXCEPT !.todo = Tail(@), !.undo = Append(@, u),
                                !.writes = Append(@, w)]
          /\ known' = known \cup {c}
          /\ quorum' = [quorum EXCEPT ![c] = quorum'[c]]
      BY <1>0, <1>9, ApplyFacts, ZenonT(60)
    <3>2. txn'.undo = Append(txn.undo, u) /\ txn'.step = "apply"
      BY <1>0, <3>1 DEF TypeOK
    <3> QED BY <3>1, <3>2
  <2> DEFINE n == Len(txn.undo)
  <2>2. /\ n \in Nat /\ Len(txn'.undo) = n + 1
        /\ \A i \in 1..n : txn'.undo[i] = txn.undo[i]
        /\ txn'.undo[n + 1] = u
    BY <1>1, <2>1, AppendFacts
  <2>3. before' = before
    BY <1>9 DEF ApplyObservedResult
  <2>4. ASSUME NEW i \in 1..(n + 1), NEW d
        PROVE  First1(i, d) <=> FirstUndo(i, d)
    <3>1. \A j \in 1..(i - 1) : txn'.undo[j] = txn.undo[j]
      BY <2>2
    <3> QED BY <3>1 DEF FirstUndo
  <2>5. \A d : First1(n + 2, d) <=> FirstUndo(n + 1, d) /\ d # c
    <3>1. n + 2 - 1 = n + 1 /\ n + 1 - 1 = n /\ 1..(n + 1) = 1..n \cup {n + 1}
      BY <2>2
    <3> QED BY <2>1, <2>2, <3>1 DEF FirstUndo
  <2>6. u.createdQuorum => quorum[c] = NewCheckQuorumState /\ FirstUndo(n + 1, c)
    <3>1. n + 1 - 1 = n
      BY <2>2
    <3>2. \A j \in 1..n : txn.undo[j].check \in known
      BY <1>0 DEF UndoInv
    <3>3. u.createdQuorum => c \notin known /\ quorum[c] = NewCheckQuorumState
      BY <1>0, <2>1 DEF MachineInv
    <3>4. c \notin known => FirstUndo(n + 1, c)
      BY <3>1, <3>2 DEF FirstUndo
    <3> QED BY <3>3, <3>4
  <2>7. FirstUndo(n + 1, c) => quorum[c] = QuorumBefore[c]
    BY <1>0, <2>1 DEF UndoInv
  <2>8. IncidentMeansDown(quorum[c])
    BY <1>0 DEF MachineInv
  <2>9. ASSUME NEW i \in 1..(n + 1)
        PROVE  LET e == txn'.undo[i]
               IN  /\ e.check \in known'
                   /\ IncidentMeansDown(e.previousQuorum)
                   /\ e.createdQuorum =>
                        /\ e.previousQuorum = NewCheckQuorumState
                        /\ First1(i, e.check)
                   /\ First1(i, e.check) =>
                        e.previousQuorum = QuorumBefore'[e.check]
    <3>1. CASE i = n + 1
      BY <2>1, <2>2, <2>3, <2>4, <2>6, <2>7, <2>8, <3>1, ZenonT(60) DEF QuorumBefore
    <3>2. CASE i # n + 1
      <4>1. i \in 1..n /\ txn'.undo[i] = txn.undo[i]
        BY <2>2, <3>2
      <4> QED BY <1>0, <2>1, <2>3, <2>4, <4>1, SMTT(60) DEF UndoInv, QuorumBefore
    <3> QED BY <3>1, <3>2
  <2>10. \A d \in Checks : First1(n + 2, d) => quorum'[d] = QuorumBefore'[d]
    <3>1. \A d \in Checks : d # c => quorum'[d] = quorum[d]
      BY <1>0, <2>1 DEF TypeOK
    <3>2. \A d \in Checks : FirstUndo(n + 1, d) => quorum[d] = QuorumBefore[d]
      BY <1>0, <2>1 DEF UndoInv
    <3> QED BY <2>3, <2>5, <3>1, <3>2 DEF QuorumBefore
  <2>11. Len(txn'.undo) + 1 = n + 2
    BY <2>2
  <2> QED BY <1>3, <2>1, <2>2, <2>9, <2>10, <2>11, ZenonT(60) DEF UndoInv, FirstUndo
<1>10. CASE RollbackObservedResult
  <2> DEFINE n == Len(txn.undo)
             u == txn.undo[n]
             c == u.check
  <2>1. txn.step = "rollback" /\ txn.undo # <<>>
    BY <1>10 DEF RollbackObservedResult
  <2>2. txn'.undo = SubSeq(txn.undo, 1, n - 1) /\ txn'.step = "rollback"
    BY <1>0, <1>10 DEF RollbackObservedResult, TypeOK
  <2>3. /\ known' = IF u.createdQuorum THEN known \ {c} ELSE known
        /\ quorum' = [quorum EXCEPT ![c] =
             IF u.createdQuorum THEN NewCheckQuorumState ELSE u.previousQuorum]
        /\ before' = before
    BY <1>10 DEF RollbackObservedResult, MemoryBecomes, Undone, memory
  <2>4. /\ n \in Nat \ {0} /\ Len(txn'.undo) = n - 1
        /\ \A i \in 1..(n - 1) : txn'.undo[i] = txn.undo[i]
    BY <1>1, <2>1, <2>2, FrontFacts
  <2>5. n \in 1..n /\ c \in Checks
    BY <1>2, <2>4
  <2>6. /\ u.createdQuorum =>
             u.previousQuorum = NewCheckQuorumState /\ FirstUndo(n, c)
        /\ FirstUndo(n, c) => u.previousQuorum = QuorumBefore[c]
    BY <1>0, <2>5 DEF UndoInv
  <2> HIDE DEF u, c
  <2>7. \A i \in 1..n : \A d : First1(i, d) <=> FirstUndo(i, d)
    BY <2>4, SMTT(60) DEF FirstUndo
  <2>8. \A d : FirstUndo(n + 1, d) <=> FirstUndo(n, d) /\ d # c
    <3>1. n + 1 - 1 = n /\ 1..n = 1..(n - 1) \cup {n}
      BY <2>4
    <3> QED BY <3>1 DEF FirstUndo, u, c
  <2>9. ASSUME NEW i \in 1..(n - 1)
        PROVE  LET e == txn'.undo[i]
               IN  /\ e.check \in known'
                   /\ IncidentMeansDown(e.previousQuorum)
                   /\ e.createdQuorum =>
                        e.previousQuorum = NewCheckQuorumState /\ First1(i, e.check)
                   /\ First1(i, e.check) =>
                        e.previousQuorum = QuorumBefore'[e.check]
    <3>1. i \in 1..n /\ txn'.undo[i] = txn.undo[i]
      BY <2>4
    <3>2. u.createdQuorum => txn.undo[i].check # c
      BY <2>6 DEF FirstUndo
    <3>3. txn.undo[i].check \in known'
      BY <1>0, <2>3, <3>1, <3>2 DEF UndoInv
    <3> QED BY <1>0, <2>3, <2>7, <3>1, <3>3, SMTT(60) DEF UndoInv, QuorumBefore
  <2>10. ASSUME NEW d \in Checks, First1(n, d)
         PROVE  quorum'[d] = QuorumBefore'[d]
    <3>1. FirstUndo(n, d)
      BY <2>5, <2>7, <2>10
    <3>2. CASE d = c
      BY <1>0, <2>3, <2>5, <2>6, <3>1, <3>2 DEF TypeOK, QuorumBefore
    <3>3. CASE d # c
      BY <1>0, <2>1, <2>3, <2>5, <2>8, <3>1, <3>3 DEF TypeOK, QuorumBefore, UndoInv
    <3> QED BY <3>2, <3>3
  <2>11. Len(txn'.undo) + 1 = n
    BY <2>4
  <2> QED BY <1>3, <2>2, <2>4, <2>9, <2>10, <2>11 DEF UndoInv, FirstUndo
<1>11. ASSUME txn = Idle, UNCHANGED txn PROVE UndoInv'
  BY <1>4, <1>11
<1>12. ASSUME \A items \in requests : ~LockBatch(items), ~ApplyObservedResult,
              \A c \in Checks, p \in Probes : ~SweepCheck(c, p),
              ~RollbackObservedResult,
              \A result \in CommitResults : ~PersistMonitoringBatch(result),
              txn' # Idle
       PROVE  /\ UNCHANGED txn
              /\ \/ txn.step = "idle" \/ phase = "stopped"
                 \/ UNCHANGED <<quorum, before>> /\ known \subseteq known'
  BY <1>12
     DEF Next, CheckNext, ProbeNext, BatchNext, vars, LoadRuntime, Serve, Crash,
         SeedCheck, CreateCheck, DeleteCheck, EnsureCheck, RemoveCheck,
         SweepProbe, CreateProbeCredential, RegisterProbe, AddProbe, Heartbeat,
         NormalizeBatch, ReturnError, Tick
<1>13. txn.step = "idle" \/ phase = "stopped" => txn = Idle
  BY <1>0 DEF UndoInv
<1> QED
  BY <1>4, <1>5, <1>6, <1>7, <1>8, <1>9, <1>10, <1>11, <1>12, <1>13

-----------------------------------------------------------------------------
(* AgreementInv *)

\* What the commit of a transaction leaves in the incidents table is the flag
\* of the Runtime.
LEMMA OpenAfterFollows ==
  ASSUME TypeOK, NEW c \in Checks, status[c] = "active", FlagFollowsWrites(c),
         QuorumBefore[c].IncidentOpen <=> c \in openIncidents
  PROVE  OpenAfter(txn.writes, c) <=> quorum[c].IncidentOpen
<1> DEFINE I == {i \in 1..Len(txn.writes) : /\ txn.writes[i].check = c
                                            /\ txn.writes[i].incident # "none"}
<1>1. Len(txn.writes) \in Nat
  BY DEF TypeOK
<1>2. CASE I = {}
  BY <1>2 DEF OpenAfter, FlagFollowsWrites, IncidentWrite
<1>3. CASE I # {}
  <2>1. /\ LastIndex(I) \in I
        /\ \A j \in I : j <= LastIndex(I)
    BY <1>1, <1>3, LastIndexIn
  <2>2. OpenAfter(txn.writes, c) <=> txn.writes[LastIndex(I)].incident = "open"
    BY <1>3 DEF OpenAfter
  <2> DEFINE k == LastIndex(I)
  <2> HIDE DEF k
  <2>3. /\ k \in 1..Len(txn.writes) /\ IncidentWrite(k, c)
        /\ \A j \in 1..Len(txn.writes) : IncidentWrite(j, c) => j <= k
    BY <2>1 DEF k, IncidentWrite
  <2>4. \A j \in (k + 1)..Len(txn.writes) : ~IncidentWrite(j, c)
    BY <1>1, <2>3
  <2>5. quorum[c].IncidentOpen <=> txn.writes[k].incident = "open"
    BY <2>3, <2>4 DEF FlagFollowsWrites
  <2> QED BY <2>2, <2>5 DEF k
<1> QED BY <1>2, <1>3

\* A check that no write of the transaction is about keeps its incidents row.
LEMMA OpenAfterSame ==
  ASSUME NEW c \in Checks,
         \A i \in 1..Len(txn.writes) : txn.writes[i].check # c
  PROVE  OpenAfter(txn.writes, c) <=> c \in openIncidents
BY DEF OpenAfter

\* Every step keeps the incident flag and the incidents table together.
LEMMA AgreementStep == IncidentInv /\ [Next]_vars => AgreementInv'
<1> SUFFICES ASSUME IncidentInv, [Next]_vars, NEW c \in Checks,
                    status'[c] = "active"
             PROVE  /\ phase' # "stopped" /\ txn'.step = "idle" /\ c \notin drifted' =>
                         (quorum'[c].IncidentOpen <=> c \in openIncidents')
                    /\ txn'.step # "idle" /\ c \notin drifted' =>
                         (QuorumBefore'[c].IncidentOpen <=> c \in openIncidents')
                    /\ txn'.step = "apply" => FlagFollowsWrites(c)'
  BY DEF AgreementInv, Settled
<1> DEFINE
      A1 == phase' # "stopped" /\ txn'.step = "idle" /\ c \notin drifted' =>
              (quorum'[c].IncidentOpen <=> c \in openIncidents')
      A2 == txn'.step # "idle" /\ c \notin drifted' =>
              (QuorumBefore'[c].IncidentOpen <=> c \in openIncidents')
      A3 == txn'.step = "apply" => FlagFollowsWrites(c)'
      Goal == A1 /\ A2 /\ A3
<1> USE DEF memory, handlers, tables, history
<1>0. TypeOK /\ MachineInv /\ LifecycleInv /\ UndoInv /\ AgreementInv
  BY DEF IncidentInv
<1>1. ASSUME status[c] = "active"
      PROVE  /\ phase # "stopped" /\ txn.step = "idle" /\ c \notin drifted =>
                  (quorum[c].IncidentOpen <=> c \in openIncidents)
             /\ txn.step # "idle" /\ c \notin drifted =>
                  (QuorumBefore[c].IncidentOpen <=> c \in openIncidents)
             /\ txn.step = "apply" => FlagFollowsWrites(c)
  BY <1>0, <1>1 DEF AgreementInv, Settled
<1>2. ASSUME UNCHANGED <<txn, before>>, quorum'[c] = quorum[c],
             c \in openIncidents' <=> c \in openIncidents,
             drifted \subseteq drifted', status[c] = "active",
             phase' # "stopped" => phase # "stopped"
      PROVE  Goal
  <2>1. QuorumBefore' = QuorumBefore
    BY <1>2 DEF QuorumBefore
  <2>2. FlagFollowsWrites(c)' <=> FlagFollowsWrites(c)
    BY <1>2, <2>1 DEF FlagFollowsWrites, IncidentWrite
  <2> QED BY <1>1, <1>2, <2>1, <2>2
<1>3. ASSUME status[c] = "absent", UNCHANGED <<txn, before, quorum, openIncidents>>
      PROVE  Goal
  <2>1. c \notin known /\ c \notin openIncidents
    BY <1>0, <1>3 DEF LifecycleInv, NoIncidentForDeletedCheck
  <2>2. quorum[c] = NewCheckQuorumState
    BY <1>0, <2>1 DEF MachineInv
  <2>3. /\ \A i \in 1..Len(txn.undo) : txn.undo[i].check # c
        /\ \A i \in 1..Len(txn.writes) : txn.writes[i].check # c
    BY <1>0, <1>3 DEF LifecycleInv
  <2>4. Len(txn.undo) \in Nat
    BY <1>0 DEF TypeOK
  <2>5. FirstUndo(Len(txn.undo) + 1, c)
    BY <2>3, <2>4 DEF FirstUndo
  <2>6. txn.step # "idle" => quorum[c] = QuorumBefore[c]
    BY <1>0, <2>5 DEF UndoInv
  <2>7. ~quorum[c].IncidentOpen
    BY <2>2 DEF NewCheckQuorumState
  <2>8. QuorumBefore' = QuorumBefore
    BY <1>3 DEF QuorumBefore
  <2>9. txn.step = "apply" => FlagFollowsWrites(c)'
    BY <1>3, <2>3, <2>6, <2>8 DEF FlagFollowsWrites, IncidentWrite
  <2> QED BY <1>3, <2>1, <2>6, <2>7, <2>8, <2>9
<1>4. CASE LoadRuntime
  <2>1. txn' = Idle /\ txn'.step = "idle"
    BY <1>0, <1>4 DEF LoadRuntime, UndoInv, Idle
  <2>2. quorum'[c] = Recompute(RestoredQuorum(c), assigned'[c], exec'[c])
        /\ openIncidents' = openIncidents
    BY <1>4 DEF LoadRuntime
  <2> QED BY <2>1, <2>2, RestoredFlag
<1>5. CASE Crash
  BY <1>5 DEF Crash, Idle
<1>6. ASSUME NEW p \in Probes, SweepProbe(p) PROVE Goal
  <2>1. /\ txn.step = "idle" /\ UNCHANGED <<txn, openIncidents, status>>
        /\ phase # "stopped"
        /\ drifted' = drifted \cup
             {d \in Checks : quorum'[d].IncidentOpen # quorum[d].IncidentOpen}
    BY <1>6 DEF SweepProbe
  <2>2. c \notin drifted' =>
          c \notin drifted /\ quorum'[c].IncidentOpen = quorum[c].IncidentOpen
    BY <2>1
  <2> QED BY <1>1, <2>1, <2>2
<1>7. ASSUME NEW items \in requests, LockBatch(items) PROVE Goal
  <2>1. /\ txn.step = "idle" /\ UNCHANGED <<quorum, openIncidents, status, drifted>>
        /\ QuorumBefore' = quorum
        /\ txn'.step = "apply" /\ txn'.writes = <<>>
    BY <1>7 DEF LockBatch, QuorumBefore
  <2>2. phase # "stopped"
    BY <1>0, <1>7 DEF UndoInv
  <2>3. FlagFollowsWrites(c)'
    BY <2>1 DEF FlagFollowsWrites
  <2> QED BY <1>1, <2>1, <2>2, <2>3
<1>8. ASSUME NEW d \in Checks, NEW p \in Probes, SweepCheck(d, p) PROVE Goal
  <2>1. PICK w \in Writes :
          /\ txn.step = "idle" /\ phase = "serving"
          /\ w.check = d
          /\ txn'.step = "apply" /\ txn'.writes = <<w>>
          /\ quorum' = [quorum EXCEPT ![d] = quorum'[d]]
          /\ status[d] = "active" =>
                /\ w.incident = "none" =>
                     (quorum'[d].IncidentOpen <=> quorum[d].IncidentOpen)
                /\ w.incident # "none" =>
                     (quorum'[d].IncidentOpen <=> w.incident = "open")
    BY <1>0, <1>8, SweepFacts
  <2>2. UNCHANGED <<openIncidents, status, drifted>> /\ QuorumBefore' = quorum
    BY <1>8 DEF SweepCheck, QuorumBefore
  <2>3. c # d => quorum'[c] = quorum[c]
    BY <1>0, <2>1 DEF TypeOK
  <2>4. \A i \in 1..Len(txn'.writes) : i = 1 /\ txn'.writes[i] = w
    BY <2>1
  <2>5. 1 \in 1..Len(txn'.writes)
    BY <2>1
  <2>6. FlagFollowsWrites(c)'
    BY <2>1, <2>2, <2>3, <2>4, <2>5 DEF FlagFollowsWrites, IncidentWrite
  <2> QED BY <1>1, <2>1, <2>2, <2>6
<1>9. CASE ApplyObservedResult
  <2>1. PICK d \in Checks, w \in Writes :
          /\ txn.step = "apply"
          /\ w.check = d
          /\ txn'.step = "apply" /\ txn'.writes = Append(txn.writes, w)
          /\ quorum' = [quorum EXCEPT ![d] = quorum'[d]]
          /\ w.incident = "none" =>
               (quorum'[d].IncidentOpen <=> quorum[d].IncidentOpen)
          /\ w.incident # "none" =>
               (quorum'[d].IncidentOpen <=> w.incident = "open")
    <3>1. PICK d \in Checks, u \in Undos, w \in Writes :
          /\ txn.step = "apply"
          /\ w.check = d
          /\ txn' = [txn EXCEPT !.todo = Tail(@), !.undo = Append(@, u),
                                !.writes = Append(@, w)]
          /\ quorum' = [quorum EXCEPT ![d] = quorum'[d]]
          /\ w.incident = "none" =>
               (quorum'[d].IncidentOpen <=> quorum[d].IncidentOpen)
          /\ w.incident # "none" =>
               (quorum'[d].IncidentOpen <=> w.incident = "open")
      BY <1>0, <1>9, ApplyFacts, ZenonT(60)
    <3>2. txn'.step = "apply" /\ txn'.writes = Append(txn.writes, w)
      BY <1>0, <3>1 DEF TypeOK
    <3> QED BY <3>1, <3>2, SMTT(60)
  <2>2. UNCHANGED <<openIncidents, status, drifted, before>>
    BY <1>9 DEF ApplyObservedResult
  <2>3. QuorumBefore' = QuorumBefore
    BY <2>2 DEF QuorumBefore
  <2> DEFINE n == Len(txn.writes)
             K == w.check = c /\ w.incident # "none"
  <2>4. txn.writes \in Seq(Writes) /\ n \in Nat
    BY <1>0 DEF TypeOK
  <2>5. /\ Len(txn'.writes) = n + 1
        /\ \A i \in 1..n : txn'.writes[i] = txn.writes[i]
        /\ txn'.writes[n + 1] = w
    BY <2>1, <2>4, AppendFacts
  <2>6. /\ K => (quorum'[c].IncidentOpen <=> w.incident = "open")
        /\ ~K => (quorum'[c].IncidentOpen <=> quorum[c].IncidentOpen)
    BY <1>0, <2>1 DEF TypeOK
  <2> DEFINE W1(i) == txn'.writes[i].check = c /\ txn'.writes[i].incident # "none"
  <2>7. W1(n + 1) <=> K
    BY <2>5
  <2>8. \A i \in 1..n : W1(i) <=> IncidentWrite(i, c)
    BY <2>5 DEF IncidentWrite
  <2>9. FlagFollowsWrites(c)
    BY <1>1, <2>1, <2>2
  <2> HIDE DEF W1, n, K
  <2>10. (\A i \in 1..(n + 1) : ~W1(i)) =>
            (quorum'[c].IncidentOpen <=> QuorumBefore[c].IncidentOpen)
    BY <2>4, <2>6, <2>7, <2>8, <2>9 DEF FlagFollowsWrites, n
  <2>11. ASSUME NEW i \in 1..(n + 1), W1(i),
                \A j \in (i + 1)..(n + 1) : ~W1(j)
         PROVE  quorum'[c].IncidentOpen <=> txn'.writes[i].incident = "open"
    <3>1. CASE i = n + 1
      BY <2>5, <2>6, <2>7, <2>11, <3>1 DEF n
    <3>2. CASE i # n + 1
      <4>1. i \in 1..n /\ n + 1 \in (i + 1)..(n + 1)
        BY <2>4, <3>2 DEF n
      <4>2. ~K /\ IncidentWrite(i, c)
        BY <2>7, <2>8, <2>11, <4>1
      <4>3. \A j \in (i + 1)..n : ~IncidentWrite(j, c)
        BY <2>4, <2>8, <2>11, <4>1 DEF n
      <4>4. txn'.writes[i] = txn.writes[i]
        BY <2>5, <4>1 DEF n
      <4> QED BY <2>6, <2>9, <4>1, <4>2, <4>3, <4>4 DEF FlagFollowsWrites, n
    <3> QED BY <3>1, <3>2
  <2>12. Len(txn'.writes) = n + 1
    BY <2>5 DEF n
  <2>13. FlagFollowsWrites(c)'
    BY <2>3, <2>10, <2>11, <2>12 DEF FlagFollowsWrites, IncidentWrite, W1
  <2> QED BY <1>1, <2>1, <2>2, <2>3, <2>13
<1>10. ASSUME NEW result \in CommitResults, PersistMonitoringBatch(result)
       PROVE  Goal
  <2>1. txn.step = "apply" /\ status' = status /\ quorum' = quorum
    BY <1>10 DEF PersistMonitoringBatch
  <2>2. result \in {"ok", "commit_fails", "commit_unknown"}
    BY DEF CommitResults, CommitFaults
  <2>3. CASE result = "ok"
    <3>1. /\ txn'.step = "idle" /\ drifted' = drifted
          /\ openIncidents' = {d \in Checks : OpenAfter(txn.writes, d)}
      BY <1>10, <2>3 DEF PersistMonitoringBatch, Idle
    <3> QED BY <1>0, <1>1, <2>1, <3>1, OpenAfterFollows
  <2>4. CASE result # "ok"
    <3>1. txn'.step = "rollback" /\ before' = before
      BY <1>0, <1>10, <2>4 DEF PersistMonitoringBatch, TypeOK
    <3>2. QuorumBefore' = QuorumBefore
      BY <3>1 DEF QuorumBefore
    <3>3. CASE result = "commit_fails"
      <4>1. UNCHANGED <<openIncidents, drifted>>
        BY <1>10, <3>3 DEF PersistMonitoringBatch
      <4> QED BY <1>1, <2>1, <3>1, <3>2, <4>1
    <3>4. CASE result = "commit_unknown"
      <4>1. /\ openIncidents' = {d \in Checks : OpenAfter(txn.writes, d)}
            /\ drifted' = drifted \cup
                 {txn.writes[i].check : i \in 1..Len(txn.writes)}
        BY <1>10, <3>4 DEF PersistMonitoringBatch
      <4>2. c \notin drifted' =>
              /\ c \notin drifted
              /\ \A i \in 1..Len(txn.writes) : txn.writes[i].check # c
        BY <4>1
      <4>3. c \notin drifted' => (c \in openIncidents' <=> c \in openIncidents)
        BY <4>1, <4>2, OpenAfterSame
      <4> QED BY <1>1, <2>1, <3>1, <3>2, <4>2, <4>3
    <3> QED BY <2>2, <2>4, <3>3, <3>4
  <2> QED BY <2>3, <2>4
<1>11. CASE RollbackObservedResult
  <2>1. /\ txn.step = "rollback" /\ txn'.step = "rollback"
        /\ UNCHANGED <<openIncidents, status, drifted, before>>
    BY <1>0, <1>11 DEF RollbackObservedResult, TypeOK
  <2>2. QuorumBefore' = QuorumBefore
    BY <2>1 DEF QuorumBefore
  <2> QED BY <1>1, <2>1, <2>2
<1>12. CASE ReturnError
  <2>1. /\ txn.step = "rollback" /\ txn.undo = <<>> /\ txn'.step = "idle"
        /\ UNCHANGED <<quorum, openIncidents, status, drifted>>
    BY <1>12 DEF ReturnError, Idle
  <2>2. FirstUndo(Len(txn.undo) + 1, c)
    BY <2>1 DEF FirstUndo
  <2>3. quorum[c] = QuorumBefore[c]
    BY <1>0, <2>1, <2>2 DEF UndoInv
  <2> QED BY <1>1, <2>1, <2>3
<1>13. ASSUME NEW d \in Checks, SeedCheck(d) \/ CreateCheck(d) PROVE Goal
  <2>1. /\ UNCHANGED <<txn, before, quorum, openIncidents, drifted, phase>>
        /\ status[d] = "absent" /\ status' = [status EXCEPT ![d] = "active"]
    BY <1>13 DEF SeedCheck, CreateCheck
  <2>2. status[c] = "active" \/ status[c] = "absent"
    BY <1>0, <2>1 DEF TypeOK
  <2> QED BY <1>2, <1>3, <2>1, <2>2
<1>14. ASSUME NEW d \in Checks, DeleteCheck(d) PROVE Goal
  <2>1. /\ UNCHANGED <<txn, before, quorum, drifted, phase>>
        /\ openIncidents' = openIncidents \ {d}
        /\ status' = [status EXCEPT ![d] = "deleted"]
    BY <1>14 DEF DeleteCheck
  <2>2. c # d /\ status[c] = "active"
    BY <1>0, <2>1 DEF TypeOK
  <2> QED BY <1>2, <2>1, <2>2
<1>15. ASSUME NEW d \in Checks, RemoveCheck(d) PROVE Goal
  <2>1. /\ UNCHANGED <<txn, before, openIncidents, status, drifted, phase>>
        /\ d \in deleting
        /\ quorum' = [quorum EXCEPT ![d] = NewCheckQuorumState]
    BY <1>15 DEF RemoveCheck
  <2>2. status[d] = "deleted"
    BY <1>0, <2>1 DEF LifecycleInv
  <2>3. c # d
    BY <2>1, <2>2
  <2>4. quorum'[c] = quorum[c]
    BY <1>0, <2>1, <2>3 DEF TypeOK
  <2> QED BY <1>2, <2>1, <2>4
<1>16. ASSUME ~LoadRuntime, ~Crash, \A p \in Probes : ~SweepProbe(p),
              \A items \in requests : ~LockBatch(items),
              \A d \in Checks, p \in Probes : ~SweepCheck(d, p),
              ~ApplyObservedResult,
              \A result \in CommitResults : ~PersistMonitoringBatch(result),
              ~RollbackObservedResult, ~ReturnError,
              \A d \in Checks : /\ ~SeedCheck(d) /\ ~CreateCheck(d)
                                /\ ~DeleteCheck(d) /\ ~RemoveCheck(d)
       PROVE  /\ UNCHANGED <<txn, before, quorum, openIncidents, drifted, status>>
              /\ phase' # "stopped" => phase # "stopped"
  BY <1>16
     DEF Next, CheckNext, ProbeNext, BatchNext, vars, Serve, EnsureCheck,
         CreateProbeCredential, RegisterProbe, AddProbe, Heartbeat,
         NormalizeBatch, Tick
<1>17. Goal
  BY <1>2, <1>4, <1>5, <1>6, <1>7, <1>8, <1>9, <1>10, <1>11, <1>12, <1>13,
     <1>14, <1>15, <1>16
<1> QED
  BY <1>17

-----------------------------------------------------------------------------
(* The theorems *)

\* The inductive invariant holds before the server is started.
LEMMA IncidentInit == Init => IncidentInv
<1> SUFFICES ASSUME Init PROVE IncidentInv
  OBVIOUS
<1> USE DEF Init
<1>1. TypeOK
  BY InitType
<1>2. MachineInv
  BY DEF MachineInv, EmptyQuorums, NewCheckQuorumState, IncidentMeansDown
<1>3. LifecycleInv
  BY DEF LifecycleInv, NoIncidentForDeletedCheck, Idle
<1>4. UndoInv
  BY DEF UndoInv, Idle
<1>5. AgreementInv
  BY DEF AgreementInv, Settled, Idle
<1> QED
  BY <1>1, <1>2, <1>3, <1>4, <1>5 DEF IncidentInv

\* The inductive invariant is inductive.
LEMMA IncidentStep == IncidentInv /\ [Next]_vars => IncidentInv'
<1>1. IncidentInv /\ [Next]_vars => TypeOK'
  BY NextType DEF IncidentInv
<1> QED
  BY <1>1, MachineStep, LifecycleStep, UndoStep, AgreementStep DEF IncidentInv

\* The inductive invariant holds in every state of the server.
THEOREM IncidentInvariant == Spec => []IncidentInv
BY IncidentInit, IncidentStep, PTL DEF Spec

\* Between transactions the Runtime and the incidents table agree on every
\* active check that no probe sweep and no unanswered commit has let apart:
\* batches, rollbacks, check sweeps, deletes, crashes and restarts keep them
\* together (ApplyObservedResult, SweepCheck, PersistMonitoringBatch,
\* RollbackObservedResult, LoadRuntime).
THEOREM IncidentAgreementHolds == Spec => []IncidentAgreement
<1>1. IncidentInv => IncidentAgreement
  BY DEF IncidentInv, AgreementInv, IncidentAgreement, Settled
<1> QED
  BY <1>1, IncidentInvariant, PTL

\* No open incident is left behind for a deleted check, whichever batch or
\* sweep commits after the delete (DeleteCheck, OpenAfter).
THEOREM DeletedChecksHaveNoIncident == Spec => []NoIncidentForDeletedCheck
<1>1. IncidentInv => NoIncidentForDeletedCheck
  BY DEF IncidentInv, LifecycleInv
<1> QED
  BY <1>1, IncidentInvariant, PTL

-----------------------------------------------------------------------------
(* The recovery rows *)

\* Evidence has a deadline, so its row stores it as it is.
LEMMA StoredEvidence ==
  ASSUME NEW e \in ExecStates(Times), EvidenceOK(e), e.LastOutcome # "none"
  PROVE  StoredState(e) = e
BY DEF EvidenceOK, StoredState, ExecStates

\* If no row is ahead before a prepared transaction, none is behind after it.
LEMMA RowAfterFollows ==
  ASSUME TypeOK, NEW c \in Checks, NEW p \in Probes, EvidenceOK(exec[c][p]),
         ExecFollowsWrites(c, p), RowHolds(c, p, ExecBefore[c][p]),
         exec[c][p].LastOutcome # "none"
  PROVE  RowAfter(txn.writes, c, p) = exec[c][p]
<1> DEFINE I == {i \in 1..Len(txn.writes) :
                   txn.writes[i].check = c /\ txn.writes[i].probe = p}
<1>1. Len(txn.writes) \in Nat /\ exec[c][p] \in ExecStates(Times)
  BY DEF TypeOK
<1>2. CASE I = {}
  <2>1. exec[c][p] = ExecBefore[c][p]
    BY <1>2 DEF ExecFollowsWrites, StateWrite
  <2> QED BY <1>2, <2>1 DEF RowAfter, RowHolds
<1>3. CASE I # {}
  <2>1. LastIndex(I) \in I /\ \A j \in I : j <= LastIndex(I)
    BY <1>1, <1>3, LastIndexIn
  <2>2. RowAfter(txn.writes, c, p) = StoredState(txn.writes[LastIndex(I)].state)
    BY <1>3 DEF RowAfter
  <2> DEFINE k == LastIndex(I)
  <2> HIDE DEF k
  <2>3. /\ k \in 1..Len(txn.writes) /\ StateWrite(k, c, p)
        /\ \A j \in 1..Len(txn.writes) : StateWrite(j, c, p) => j <= k
    BY <2>1 DEF k, StateWrite
  <2>4. \A j \in (k + 1)..Len(txn.writes) : ~StateWrite(j, c, p)
    BY <1>1, <2>3
  <2>5. txn.writes[k].state = exec[c][p]
    BY <2>3, <2>4 DEF ExecFollowsWrites
  <2> QED BY <1>1, <2>2, <2>5, StoredEvidence DEF k
<1> QED BY <1>2, <1>3

\* A row that no write of the transaction is about stays.
LEMMA RowAfterSame ==
  ASSUME NEW c \in Checks, NEW p \in Probes,
         \A i \in 1..Len(txn.writes) : txn.writes[i].check # c
  PROVE  RowAfter(txn.writes, c, p) = row[c][p]
BY DEF RowAfter

\* The write of an observed result has the evidence that the result leaves.
LEMMA ApplyWrites ==
  ASSUME TypeOK, ApplyObservedResult
  PROVE  \E d \in Checks, x \in Probes, w \in Writes :
           /\ txn'.step = "apply" /\ txn'.writes = Append(txn.writes, w)
           /\ w.check = d /\ w.probe = x /\ w.state = exec'[d][x]
           /\ \A c \in Checks, p \in Probes :
                c # d \/ p # x => exec'[c][p] = exec[c][p]
<1> DEFINE item     == Head(txn.todo)
           d        == item.check
           x        == item.probe
           members  == assigned[d] \cup {x}
           checks   == [exec[d] EXCEPT ![x] = Observe(@, item.outcome, item.ttl)]
           current  == Recompute(JoinedQuorum(d, x), members, checks)
           incident == IncidentEffect(quorum[d], current)
           write    == WriteFor(d, x, members, checks, incident)
<1>1. item \in Items
  BY NextItem
<1>2. d \in Checks /\ x \in Probes /\ item.outcome \in StableStates
      /\ item.ttl \in Times
  BY <1>1 DEF Items, Times
<1>3. /\ checks \in [Probes -> ExecStates(Times)]
      /\ \A p \in Probes : p # x => checks[p] = exec[d][p]
  BY <1>2, ObserveType DEF TypeOK
<1>4. write \in Writes
  BY <1>2, <1>3, WriteForType, IncidentEffectType, ZenonT(60) DEF TypeOK
<1>5. write.check = d /\ write.probe = x /\ write.state = checks[x]
  BY DEF WriteFor
<1>6. /\ exec' = [exec EXCEPT ![d] = checks]
      /\ txn'.writes = Append(txn.writes, write) /\ txn'.step = "apply"
  BY DEF ApplyObservedResult, TypeOK
<1> HIDE DEF item, d, x, members, checks, current, incident, write
<1>7. exec'[d] = checks /\ \A c \in Checks : c # d => exec'[c] = exec[c]
  BY <1>2, <1>6 DEF TypeOK
<1> QED
  BY <1>2, <1>3, <1>4, <1>5, <1>6, <1>7, SMTT(60)

\* The same for a check sweep.
LEMMA SweepWrites ==
  ASSUME TypeOK, NEW d \in Checks, NEW x \in Probes, SweepCheck(d, x)
  PROVE  \E w \in Writes :
           /\ txn'.step = "apply" /\ txn'.writes = <<w>>
           /\ w.check = d /\ w.probe = x /\ w.state = exec'[d][x]
           /\ \A c \in Checks, p \in Probes :
                c # d \/ p # x => exec'[c][p] = exec[c][p]
<1> DEFINE checks   == [exec[d] EXCEPT ![x] = LoseEvidence(@)]
           current  == Recompute(quorum[d], assigned[d], checks)
           incident == IF status[d] = "active"
                         THEN IncidentEffect(quorum[d], current) ELSE "none"
           write    == WriteFor(d, x, assigned[d], checks, incident)
<1>1. /\ checks \in [Probes -> ExecStates(Times)]
      /\ \A p \in Probes : p # x => checks[p] = exec[d][p]
  BY LoseEvidenceType DEF TypeOK
<1>2. write \in Writes
  BY <1>1, WriteForType, IncidentEffectType DEF TypeOK
<1>3. write.check = d /\ write.probe = x /\ write.state = checks[x]
  BY DEF WriteFor
<1>4. /\ exec' = [exec EXCEPT ![d] = checks]
      /\ txn'.writes = <<write>> /\ txn'.step = "apply"
  BY DEF SweepCheck
<1> HIDE DEF checks, current, incident, write
<1>5. exec'[d] = checks /\ \A c \in Checks : c # d => exec'[c] = exec[c]
  BY <1>4 DEF TypeOK
<1> QED
  BY <1>1, <1>2, <1>3, <1>4, <1>5

\* Every step keeps the rows and the evidence together.
LEMMA RowsStep == VotesInv /\ IncidentInv /\ RowsInv /\ [Next]_vars => RowsInv'
<1> SUFFICES ASSUME VotesInv, IncidentInv, RowsInv, [Next]_vars,
                    NEW c \in Checks, NEW p \in Probes, status'[c] # "deleted"
             PROVE  /\ phase' # "stopped" /\ txn'.step = "idle" /\ c \notin drifted' =>
                         RowHolds(c, p, exec[c][p])'
                    /\ txn'.step # "idle" /\ c \notin drifted' =>
                         RowHolds(c, p, ExecBefore[c][p])'
                    /\ txn'.step = "apply" => ExecFollowsWrites(c, p)'
  BY DEF RowsInv
<1> DEFINE
      R1 == phase' # "stopped" /\ txn'.step = "idle" /\ c \notin drifted' =>
              RowHolds(c, p, exec[c][p])'
      R2 == txn'.step # "idle" /\ c \notin drifted' =>
              RowHolds(c, p, ExecBefore[c][p])'
      R3 == txn'.step = "apply" => ExecFollowsWrites(c, p)'
      Goal == R1 /\ R2 /\ R3
<1> USE DEF memory, handlers, tables, history
<1>0. /\ TypeOK /\ TrailInv /\ LifecycleInv
      /\ EvidenceOK(exec[c][p]) /\ exec[c][p] \in ExecStates(Times)
  BY MemoryFacts DEF VotesInv, IncidentInv, TypeOK
<1>1. status[c] # "deleted"
  BY <1>0, StatusStep
<1>2. /\ phase # "stopped" /\ txn.step = "idle" /\ c \notin drifted =>
           RowHolds(c, p, exec[c][p])
      /\ txn.step # "idle" /\ c \notin drifted => RowHolds(c, p, ExecBefore[c][p])
      /\ txn.step = "apply" => ExecFollowsWrites(c, p)
  BY <1>1 DEF RowsInv
<1>3. ASSUME UNCHANGED <<txn, before>>, exec'[c] = exec[c], row'[c] = row[c],
             drifted \subseteq drifted', phase' # "stopped" => phase # "stopped"
      PROVE  Goal
  <2>1. ExecBefore' = ExecBefore
    BY <1>3 DEF ExecBefore
  <2>2. ExecFollowsWrites(c, p)' <=> ExecFollowsWrites(c, p)
    BY <1>3, <2>1 DEF ExecFollowsWrites, StateWrite
  <2> QED BY <1>2, <1>3, <2>1, <2>2 DEF RowHolds
<1>4. CASE LoadRuntime
  <2>1. txn'.step = "idle"
    BY <1>0, <1>4 DEF LoadRuntime, TrailInv
  <2>2. exec'[c][p] = RestoredExec(c, p) /\ row' = row
    BY <1>4 DEF LoadRuntime
  <2>3. \/ RestoredExec(c, p) = row[c][p]
        \/ RestoredExec(c, p).LastOutcome = "none"
    BY DEF RestoredExec, LoseEvidence, NewCheckExecState
  <2> QED BY <2>1, <2>2, <2>3 DEF RowHolds
<1>5. CASE Crash
  BY <1>5 DEF Crash, Idle
<1>6. ASSUME NEW x \in Probes, SweepProbe(x) PROVE Goal
  <2>1. /\ txn.step = "idle" /\ UNCHANGED <<txn, row>> /\ phase # "stopped"
        /\ drifted \subseteq drifted'
        /\ exec'[c] = IF x \in assigned[c]
                        THEN [exec[c] EXCEPT ![x] = LoseEvidence(@)] ELSE exec[c]
    BY <1>6 DEF SweepProbe, DegradedExec
  <2>2. exec'[c][p] = exec[c][p] \/ exec'[c][p].LastOutcome = "none"
    BY <1>0, <2>1 DEF TypeOK, LoseEvidence
  <2> QED BY <1>2, <2>1, <2>2 DEF RowHolds
<1>7. CASE Tick
  <2>1. /\ txn.step = "idle" /\ UNCHANGED <<txn, drifted, phase>>
        /\ exec'[c][p] = [exec[c][p] EXCEPT !.ExpiresAt = Aged(@)]
        /\ row'[c][p] = [row[c][p] EXCEPT !.ExpiresAt = Aged(@)]
    BY <1>7 DEF Tick, AgedExec
  <2>2. exec'[c][p].LastOutcome = exec[c][p].LastOutcome
    BY <1>0, <2>1 DEF ExecStates
  <2> QED BY <1>2, <2>1, <2>2 DEF RowHolds
<1>8. ASSUME NEW items \in requests, LockBatch(items) PROVE Goal
  <2>1. /\ txn.step = "idle" /\ UNCHANGED <<exec, row, drifted>>
        /\ ExecBefore' = exec
        /\ txn'.step = "apply" /\ txn'.writes = <<>>
    BY <1>8 DEF LockBatch, ExecBefore
  <2>2. phase # "stopped"
    BY <1>0, <1>8 DEF TrailInv
  <2>3. ExecFollowsWrites(c, p)'
    BY <2>1 DEF ExecFollowsWrites
  <2> QED BY <1>2, <2>1, <2>2, <2>3 DEF RowHolds
<1>9. ASSUME NEW d \in Checks, NEW x \in Probes, SweepCheck(d, x) PROVE Goal
  <2>1. PICK w \in Writes :
           /\ txn'.step = "apply" /\ txn'.writes = <<w>>
           /\ w.check = d /\ w.probe = x /\ w.state = exec'[d][x]
           /\ c # d \/ p # x => exec'[c][p] = exec[c][p]
    BY <1>0, <1>9, SweepWrites
  <2>2. /\ UNCHANGED <<row, drifted>> /\ ExecBefore' = exec
        /\ txn.step = "idle" /\ phase # "stopped"
    BY <1>9 DEF SweepCheck, ExecBefore
  <2>3. \A i \in 1..Len(txn'.writes) : i = 1 /\ txn'.writes[i] = w
    BY <2>1
  <2>4. 1 \in 1..Len(txn'.writes)
    BY <2>1
  <2>5. ExecFollowsWrites(c, p)'
    BY <2>1, <2>2, <2>3, <2>4 DEF ExecFollowsWrites, StateWrite
  <2> QED BY <1>2, <2>1, <2>2, <2>5 DEF RowHolds
<1>10. CASE ApplyObservedResult
  <2>1. PICK d \in Checks, x \in Probes, w \in Writes :
           /\ txn'.step = "apply" /\ txn'.writes = Append(txn.writes, w)
           /\ w.check = d /\ w.probe = x /\ w.state = exec'[d][x]
           /\ c # d \/ p # x => exec'[c][p] = exec[c][p]
    BY <1>0, <1>10, ApplyWrites, SMTT(60)
  <2>2. UNCHANGED <<row, drifted, before>> /\ txn.step = "apply"
    BY <1>10 DEF ApplyObservedResult
  <2>3. ExecBefore' = ExecBefore
    BY <2>2 DEF ExecBefore
  <2> DEFINE n == Len(txn.writes)
             K == d = c /\ x = p
             W1(i) == txn'.writes[i].check = c /\ txn'.writes[i].probe = p
  <2>4. txn.writes \in Seq(Writes) /\ n \in Nat
    BY <1>0 DEF TypeOK
  <2>5. /\ Len(txn'.writes) = n + 1
        /\ \A i \in 1..n : txn'.writes[i] = txn.writes[i]
        /\ txn'.writes[n + 1] = w
    BY <2>1, <2>4, AppendFacts
  <2>6. /\ K => exec'[c][p] = w.state
        /\ ~K => exec'[c][p] = exec[c][p]
    BY <2>1
  <2>7. W1(n + 1) <=> K
    BY <2>1, <2>5
  <2>8. \A i \in 1..n : W1(i) <=> StateWrite(i, c, p)
    BY <2>5 DEF StateWrite
  <2>9. ExecFollowsWrites(c, p)
    BY <1>2, <2>2
  <2> HIDE DEF W1, n, K
  <2>10. (\A i \in 1..(n + 1) : ~W1(i)) => exec'[c][p] = ExecBefore[c][p]
    BY <2>4, <2>6, <2>7, <2>8, <2>9 DEF ExecFollowsWrites, n
  <2>11. ASSUME NEW i \in 1..(n + 1), W1(i),
                \A j \in (i + 1)..(n + 1) : ~W1(j)
         PROVE  txn'.writes[i].state = exec'[c][p]
    <3>1. CASE i = n + 1
      BY <2>5, <2>6, <2>7, <2>11, <3>1 DEF n
    <3>2. CASE i # n + 1
      <4>1. i \in 1..n /\ n + 1 \in (i + 1)..(n + 1)
        BY <2>4, <3>2 DEF n
      <4>2. ~K /\ StateWrite(i, c, p)
        BY <2>7, <2>8, <2>11, <4>1
      <4>3. \A j \in (i + 1)..n : ~StateWrite(j, c, p)
        BY <2>4, <2>8, <2>11, <4>1 DEF n
      <4>4. txn'.writes[i] = txn.writes[i]
        BY <2>5, <4>1 DEF n
      <4> QED BY <2>6, <2>9, <4>1, <4>2, <4>3, <4>4 DEF ExecFollowsWrites, n
    <3> QED BY <3>1, <3>2
  <2>12. Len(txn'.writes) = n + 1
    BY <2>5 DEF n
  <2>13. ExecFollowsWrites(c, p)'
    BY <2>3, <2>10, <2>11, <2>12 DEF ExecFollowsWrites, StateWrite, W1
  <2> QED BY <1>2, <2>1, <2>2, <2>3, <2>13 DEF RowHolds
<1>11. ASSUME NEW result \in CommitResults, PersistMonitoringBatch(result)
       PROVE  Goal
  <2>1. txn.step = "apply" /\ exec' = exec
    BY <1>11 DEF PersistMonitoringBatch
  <2>2. result \in {"ok", "commit_fails", "commit_unknown"}
    BY DEF CommitResults, CommitFaults
  <2>3. CASE result = "ok"
    <3>1. /\ txn'.step = "idle" /\ drifted' = drifted
          /\ row'[c][p] = RowAfter(txn.writes, c, p)
      BY <1>11, <2>3 DEF PersistMonitoringBatch, Idle
    <3> QED BY <1>0, <1>2, <2>1, <3>1, RowAfterFollows DEF RowHolds
  <2>4. CASE result # "ok"
    <3>1. txn'.step = "rollback" /\ before' = before
      BY <1>0, <1>11, <2>4 DEF PersistMonitoringBatch, TypeOK
    <3>2. ExecBefore' = ExecBefore
      BY <3>1 DEF ExecBefore
    <3>3. CASE result = "commit_fails"
      <4>1. UNCHANGED <<row, drifted>>
        BY <1>11, <3>3 DEF PersistMonitoringBatch
      <4> QED BY <1>2, <2>1, <3>1, <3>2, <4>1 DEF RowHolds
    <3>4. CASE result = "commit_unknown"
      <4>1. /\ row'[c][p] = RowAfter(txn.writes, c, p)
            /\ drifted' = drifted \cup
                 {txn.writes[i].check : i \in 1..Len(txn.writes)}
        BY <1>11, <3>4 DEF PersistMonitoringBatch
      <4>2. c \notin drifted' =>
              /\ c \notin drifted
              /\ \A i \in 1..Len(txn.writes) : txn.writes[i].check # c
        BY <4>1
      <4>3. c \notin drifted' => row'[c][p] = row[c][p]
        BY <4>1, <4>2, RowAfterSame
      <4> QED BY <1>2, <2>1, <3>1, <3>2, <4>2, <4>3 DEF RowHolds
    <3> QED BY <2>2, <2>4, <3>3, <3>4
  <2> QED BY <2>3, <2>4
<1>12. CASE RollbackObservedResult
  <2>1. /\ txn.step = "rollback" /\ txn'.step = "rollback"
        /\ UNCHANGED <<row, drifted, before>>
    BY <1>0, <1>12 DEF RollbackObservedResult, TypeOK
  <2>2. ExecBefore' = ExecBefore
    BY <2>1 DEF ExecBefore
  <2> QED BY <1>2, <2>1, <2>2 DEF RowHolds
<1>13. CASE ReturnError
  <2>1. /\ txn.step = "rollback" /\ txn.undo = <<>> /\ txn'.step = "idle"
        /\ UNCHANGED <<exec, row, drifted>>
    BY <1>13 DEF ReturnError, Idle
  <2>2. Len(trail) = 0 /\ trail \in Seq(Memories)
    BY <1>0, <2>1 DEF TrailInv, TypeOK
  <2>3. trail = <<>>
    BY <2>2
  <2>4. before = <<known, quorum, assigned, exec>>
    BY <1>0, <2>1, <2>3 DEF TrailInv
  <2>5. exec = ExecBefore
    BY <2>4 DEF ExecBefore
  <2> QED BY <1>2, <2>1, <2>5 DEF RowHolds
<1>14. ASSUME NEW d \in Checks, DeleteCheck(d) PROVE Goal
  <2>1. /\ UNCHANGED <<txn, before, exec, drifted, phase>>
        /\ status'[d] = "deleted"
        /\ c # d => row'[c] = row[c]
    BY <1>0, <1>14 DEF DeleteCheck, TypeOK
  <2> QED BY <1>3, <2>1
<1>15. ASSUME NEW d \in Checks, RemoveCheck(d) PROVE Goal
  <2>1. /\ UNCHANGED <<txn, before, row, drifted, phase, status>> /\ d \in deleting
        /\ c # d => exec'[c] = exec[c]
    BY <1>0, <1>15 DEF RemoveCheck, TypeOK
  <2>2. status[d] = "deleted"
    BY <1>0, <2>1 DEF LifecycleInv
  <2> QED BY <1>1, <1>3, <2>1, <2>2
<1>16. ASSUME ~LoadRuntime, ~Crash, ~Tick, \A x \in Probes : ~SweepProbe(x),
              \A items \in requests : ~LockBatch(items),
              \A d \in Checks, x \in Probes : ~SweepCheck(d, x),
              ~ApplyObservedResult,
              \A result \in CommitResults : ~PersistMonitoringBatch(result),
              ~RollbackObservedResult, ~ReturnError,
              \A d \in Checks : ~DeleteCheck(d) /\ ~RemoveCheck(d)
       PROVE  /\ UNCHANGED <<txn, before, exec, row, drifted>>
              /\ phase' # "stopped" => phase # "stopped"
  BY <1>16
     DEF Next, CheckNext, ProbeNext, BatchNext, vars, Serve, SeedCheck,
         CreateCheck, EnsureCheck, CreateProbeCredential, RegisterProbe,
         AddProbe, Heartbeat, NormalizeBatch
<1>17. Goal
  BY <1>3, <1>4, <1>5, <1>6, <1>7, <1>8, <1>9, <1>10, <1>11, <1>12, <1>13,
     <1>14, <1>15, <1>16
<1> QED
  BY <1>17

\* A crash loses no part of a streak: between transactions the row of every
\* pair with evidence is what the Runtime holds, but for checks that a commit
\* without an answer has let apart (applyObservedResultLocked, SweepChecks,
\* LoadRuntime).
THEOREM RowsStayCurrent == Spec => []RecoveryRowsCurrent
<1>1. Init => RowsInv
  BY DEF Init, RowsInv, Idle
<1>2. RowsInv => RecoveryRowsCurrent
  BY DEF RowsInv, RecoveryRowsCurrent, Settled, RowHolds
<1> QED
  BY <1>1, <1>2, RowsStep, VotesInvariant, IncidentInvariant, PTL DEF Spec

=============================================================================
