-------------------------- MODULE MonitoringProofs --------------------------
(***************************************************************************)
(* Theorems about Monitoring, for every set of checks and probes, every    *)
(* bound and every choice of environment events.                           *)
(***************************************************************************)
EXTENDS Monitoring, FiniteSetTheorems, SequenceTheorems, WellFoundedInduction,
        TLAPS

\* The number of elements of a set of probes is a natural number.
LEMMA ProbeSetCardinality ==
  ASSUME NEW S \in SUBSET Probes
  PROVE  IsFiniteSet(S) /\ Cardinality(S) \in Nat
BY MonitoringAssumption, FS_Subset, FS_CardinalityType

\* The operations of CheckMachine stay within the type of its state.
LEMMA ObserveType ==
  ASSUME NEW e \in ExecStates(Times), NEW o \in StableStates, NEW t \in Times
  PROVE  Observe(e, o, t) \in ExecStates(Times)
BY StreakCapAssumption
   DEF Observe, ExecStates, BumpOutcome, ContributionStateFor, StableStates,
       Outcomes, CheckStates, Threshold

\* The same for LoseEvidence.
LEMMA LoseEvidenceType ==
  ASSUME NEW e \in ExecStates(Times)
  PROVE  LoseEvidence(e) \in ExecStates(Times)
BY StreakCapAssumption
   DEF LoseEvidence, NewCheckExecState, ExecStates, Outcomes, CheckStates,
       Times, NoTime, Threshold

\* The states of a new check, probe and quorum are well typed.
LEMMA NewStateTypes ==
  /\ NewCheckExecState \in ExecStates(Times)
  /\ NewCheckQuorumState \in QuorumRecords
BY StreakCapAssumption
   DEF NewCheckExecState, NewCheckQuorumState, ExecStates, QuorumRecords,
       Outcomes, CheckStates, QuorumStates, StableStates, Times, NoTime, Threshold

\* A recompute stays within the type of the aggregate state.
LEMMA RecomputeType ==
  ASSUME NEW q \in QuorumRecords, NEW members, NEW checks
  PROVE  Recompute(q, members, checks) \in QuorumRecords
<1>1. AggregateState(q, members, checks) \in QuorumStates
  BY DEF AggregateState, QuorumStates
<1>2. PromotedStableState(q, AggregateState(q, members, checks))
        \in StableStates \cup {"none"}
  BY DEF PromotedStableState, QuorumRecords
<1>3. \A s : IncidentFlag(q, s) \in BOOLEAN
  BY DEF IncidentFlag, QuorumRecords
<1> QED
  BY <1>1, <1>2, <1>3 DEF Recompute, QuorumRecords

-----------------------------------------------------------------------------
(* Logs *)

\* Opening the log of a transaction with one more entry
LEMMA AppendFacts ==
  ASSUME NEW S, NEW s \in Seq(S), NEW x \in S
  PROVE  /\ Len(Append(s, x)) = Len(s) + 1
         /\ \A i \in 1..Len(s) : Append(s, x)[i] = s[i]
         /\ Append(s, x)[Len(s) + 1] = x
OBVIOUS

\* Closing it with its last entry
LEMMA FrontFacts ==
  ASSUME NEW S, NEW s \in Seq(S), s # <<>>,
         NEW t, t = SubSeq(s, 1, Len(s) - 1)
  PROVE  /\ Len(s) \in Nat \ {0}
         /\ t \in Seq(S)
         /\ Len(t) = Len(s) - 1
         /\ \A i \in 1..(Len(s) - 1) : t[i] = s[i]
<1>1. Len(s) \in Nat /\ Len(s) # 0
  OBVIOUS
<1>2. Len(s) - 1 \in Int /\ \A i \in 1..(Len(s) - 1) : s[i] \in S
  BY <1>1
<1>3. /\ SubSeq(s, 1, Len(s) - 1) \in Seq(S)
      /\ Len(SubSeq(s, 1, Len(s) - 1)) =
           IF 1 <= Len(s) - 1 THEN Len(s) - 1 - 1 + 1 ELSE 0
      /\ \A i \in 1..(Len(s) - 1 - 1 + 1) :
           SubSeq(s, 1, Len(s) - 1)[i] = s[1 + i - 1]
  BY <1>2, SubSeqProperties
<1>4. Len(t) = Len(s) - 1
  <2>1. CASE 1 <= Len(s) - 1
    <3>1. Len(s) - 1 - 1 + 1 = Len(s) - 1
      BY <1>1
    <3> QED BY <1>3, <2>1, <3>1, Zenon
  <2>2. CASE ~(1 <= Len(s) - 1)
    <3>1. \A n \in Nat : n # 0 /\ ~(1 <= n - 1) => 0 = n - 1
      OBVIOUS
    <3>2. 0 = Len(s) - 1
      BY <1>1, <2>2, <3>1, Zenon
    <3> QED BY <1>3, <2>2, <3>2, Zenon
  <2> QED BY <2>1, <2>2
<1>5. ASSUME NEW i \in 1..(Len(s) - 1) PROVE t[i] = s[i]
  <2>1. i \in 1..(Len(s) - 1 - 1 + 1) /\ 1 + i - 1 = i
    BY <1>1
  <2> QED BY <1>3, <2>1, Zenon
<1>6. t \in Seq(S)
  BY <1>3
<1> QED
  BY <1>1, <1>4, <1>5, <1>6

-----------------------------------------------------------------------------
(* Type correctness *)

\* Ageing a deadline gives a deadline, and ageing an upload an upload.
LEMMA AgedType ==
  /\ \A t \in Times : Aged(t) \in Times
  /\ \A t \in Nat : Aged(t) \in Nat
BY DEF Aged, Times, NoTime

\* The same for all the evidence of the Runtime or of the table.
LEMMA AgedExecType ==
  ASSUME NEW e \in [Checks -> [Probes -> ExecStates(Times)]]
  PROVE  AgedExec(e) \in [Checks -> [Probes -> ExecStates(Times)]]
<1>1. \A x \in ExecStates(Times) :
         [x EXCEPT !.ExpiresAt = Aged(@)] \in ExecStates(Times)
  BY AgedType DEF ExecStates
<1> QED
  BY <1>1 DEF AgedExec

\* The same for the results of an upload.
LEMMA AgedItemsType ==
  ASSUME NEW items \in Seq(Items)
  PROVE  AgedItems(items) \in Seq(Items)
<1>1. \A x \in Items : [x EXCEPT !.ttl = Aged(@)] \in Items
  BY AgedType DEF Items
<1>2. \A i \in 1..Len(items) : items[i] \in Items
  OBVIOUS
<1> QED
  BY <1>1, <1>2 DEF AgedItems

\* An upload that normalizeBatch lets through is a sequence of results.
LEMMA UploadsType ==
  ASSUME NEW p \in Probes, NEW items \in Uploads(p)
  PROVE  items \in Seq(Items)
<1>1. ActiveItems(p) \subseteq Items
  BY MonitoringAssumption DEF ActiveItems, Items
<1>2. PICK n \in 1..MaxBatch : items \in [1..n -> ActiveItems(p)]
  BY DEF Uploads
<1>3. n \in Nat
  BY <1>2, MonitoringAssumption
<1> QED
  BY <1>1, <1>2, <1>3

\* The write of one step is well typed.
LEMMA WriteForType ==
  ASSUME NEW c \in Checks, NEW p \in Probes, NEW members \in SUBSET Probes,
         NEW checks \in [Probes -> ExecStates(Times)],
         NEW incident \in {"none", "open", "resolve"}
  PROVE  WriteFor(c, p, members, checks, incident) \in Writes
<1>1. ProbesDown(members, checks) \in Nat /\ Cardinality(members) \in Nat
  BY ProbeSetCardinality DEF ProbesDown
<1> QED
  BY <1>1 DEF WriteFor, Writes

\* A step has one of three effects on the incidents table.
LEMMA IncidentEffectType ==
  ASSUME NEW a, NEW b
  PROVE  IncidentEffect(a, b) \in {"none", "open", "resolve"}
BY DEF IncidentEffect

\* The empty transaction is well typed.
LEMMA IdleType ==
  Idle \in [step : {"idle", "apply", "rollback"}, todo : Seq(Items),
            undo : Seq(Undos), writes : Seq(Writes)]
BY DEF Idle

\* The initial state is well typed.
LEMMA InitType == Init => TypeOK
BY NewStateTypes, IdleType, MonitoringAssumption
   DEF Init, TypeOK, EmptyQuorums, EmptyExec, UnknownProbe, Times, NoTime

\* What the table stores of a state is a state.
LEMMA StoredStateType ==
  ASSUME NEW e \in ExecStates(Times)
  PROVE  StoredState(e) \in ExecStates(Times)
BY DEF StoredState, ExecStates, Times

\* The last element of a non-empty finite set of indices is one of them.
LEMMA LastIndexIn ==
  ASSUME NEW n \in Nat, NEW I \in SUBSET (1..n), I # {}
  PROVE  /\ LastIndex(I) \in I
         /\ \A j \in I : j <= LastIndex(I)
<1> DEFINE T == {n - i : i \in I}
           R == OpToRel(<, Nat)
<1>1. T \subseteq Nat /\ T # {}
  <2>1. \A i \in I : i \in 1..n
    OBVIOUS
  <2>2. \A i \in I : n - i \in Nat
    BY <2>1
  <2> QED BY <2>2
<1>2. \E x \in T : \A y \in T : ~(<<y, x>> \in R)
  <2> HIDE DEF T, R
  <2> QED BY <1>1, NatLessThanWellFounded, WFMin DEF R
<1>3. PICK i \in I : \A y \in T : ~(<<y, n - i>> \in R)
  BY <1>2
<1>4. \A a, b \in Nat : a < b => <<a, b>> \in R
  BY DEF OpToRel
<1>5. \A j \in I : j <= i
  <2> SUFFICES ASSUME NEW j \in I, i < j PROVE FALSE
    OBVIOUS
  <2>1. n - j \in Nat /\ n - i \in Nat /\ n - j < n - i
    BY <1>1
  <2> QED BY <1>3, <1>4, <2>1
<1> QED
  BY <1>5 DEF LastIndex

\* A commit leaves well-typed rows.
LEMMA RowAfterType ==
  ASSUME TypeOK, NEW c \in Checks, NEW p \in Probes
  PROVE  RowAfter(txn.writes, c, p) \in ExecStates(Times)
<1> DEFINE I == {i \in 1..Len(txn.writes) :
                   txn.writes[i].check = c /\ txn.writes[i].probe = p}
<1>1. CASE I = {}
  BY <1>1 DEF RowAfter, TypeOK
<1>2. CASE I # {}
  <2>1. Len(txn.writes) \in Nat
    BY DEF TypeOK
  <2>2. LastIndex(I) \in 1..Len(txn.writes)
    BY <1>2, <2>1, LastIndexIn
  <2>3. txn.writes[LastIndex(I)] \in Writes
    <3> HIDE DEF I
    <3> QED BY <2>2 DEF TypeOK
  <2>4. txn.writes[LastIndex(I)].state \in ExecStates(Times)
    BY <2>3 DEF Writes
  <2> QED
    BY <1>2, <2>4, StoredStateType DEF RowAfter
<1> QED
  BY <1>1, <1>2

\* The Runtime is one of the values that the trail may hold.
LEMMA MemoryType == TypeOK => memory \in Memories
BY DEF TypeOK, memory, Memories

\* Undoing a step gives a well-typed Runtime.
LEMMA UndoneType ==
  ASSUME NEW m \in Memories, NEW undo \in Undos
  PROVE  Undone(m, undo) \in Memories
<1>1. /\ m[1] \in SUBSET Checks
      /\ m[2] \in [Checks -> QuorumRecords]
      /\ m[3] \in [Checks -> SUBSET Probes]
      /\ m[4] \in [Checks -> [Probes -> ExecStates(Times)]]
  BY DEF Memories
<1>2. /\ undo.check \in Checks /\ undo.probe \in Probes
      /\ undo.previousCheck \in ExecStates(Times)
      /\ undo.previousQuorum \in QuorumRecords
  BY DEF Undos
<1>3. /\ Undone(m, undo)[1] \in SUBSET Checks
      /\ Undone(m, undo)[2] \in [Checks -> QuorumRecords]
      /\ Undone(m, undo)[3] \in [Checks -> SUBSET Probes]
  BY <1>1, <1>2, NewStateTypes DEF Undone
<1>4. Undone(m, undo)[4] \in [Checks -> [Probes -> ExecStates(Times)]]
  BY <1>1, <1>2, NewStateTypes DEF Undone
<1>5. Undone(m, undo) = <<Undone(m, undo)[1], Undone(m, undo)[2],
                          Undone(m, undo)[3], Undone(m, undo)[4]>>
  BY DEF Undone
<1> QED
  BY <1>3, <1>4, <1>5 DEF Memories

\* The result that is applied next is the first of the batch.
LEMMA NextItem ==
  ASSUME TypeOK, ApplyObservedResult
  PROVE  /\ txn.step = "apply" /\ Len(txn.todo) > 0
         /\ Head(txn.todo) = txn.todo[1] /\ Head(txn.todo) \in Items
         /\ Tail(txn.todo) \in Seq(Items)
<1>1. txn.step = "apply" /\ txn.todo # <<>>
  BY Zenon DEF ApplyObservedResult
<1>2. txn.todo \in Seq(Items)
  BY DEF TypeOK
<1>3. PICK s : s = txn.todo
  OBVIOUS
<1>4. /\ Len(s) > 0 /\ Head(s) = s[1] /\ Head(s) \in Items
      /\ Tail(s) \in Seq(Items)
  BY <1>1, <1>2, <1>3
<1> QED
  BY <1>1, <1>3, <1>4, Zenon

\* Every step keeps the state well typed.
LEMMA NextType == TypeOK /\ [Next]_vars => TypeOK'
<1> SUFFICES ASSUME TypeOK, [Next]_vars PROVE TypeOK'
  OBVIOUS
<1> USE DEF memory, handlers, tables, history
<1>1. CASE UNCHANGED vars
  BY <1>1 DEF vars, TypeOK
<1>2. ASSUME NEW c \in Checks, SeedCheck(c) PROVE TypeOK'
  BY <1>2 DEF SeedCheck, TypeOK
<1>3. CASE LoadRuntime
  <2>1. \A c \in Checks : RestoredMembers(c) \in SUBSET Probes
    BY DEF RestoredMembers, TypeOK
  <2>2. \A c \in Checks, p \in Probes : RestoredExec(c, p) \in ExecStates(Times)
    BY NewStateTypes, LoseEvidenceType DEF RestoredExec, TypeOK
  <2>3. \A c \in Checks : RestoredQuorum(c) \in QuorumRecords
    BY NewStateTypes
       DEF RestoredQuorum, QuorumRecords, QuorumStates, StableStates
  <2>4. quorum' \in [Checks -> QuorumRecords]
    BY <1>3, <2>3, RecomputeType, NewStateTypes DEF LoadRuntime
  <2>5. probe' \in [Probes -> [State : {"unknown", "offline", "online"},
                               LastHeartbeatAt : Times]]
    BY <1>3 DEF LoadRuntime, TypeOK, UnknownProbe, Times, NoTime
  <2> QED
    BY <1>3, <2>1, <2>2, <2>4, <2>5 DEF LoadRuntime, TypeOK
<1>4. CASE Serve
  BY <1>4 DEF Serve, TypeOK
<1>5. CASE Crash
  BY <1>5, NewStateTypes, IdleType
     DEF Crash, TypeOK, EmptyQuorums, EmptyExec, UnknownProbe, Times, NoTime
<1>6. ASSUME NEW c \in Checks, CreateCheck(c) PROVE TypeOK'
  BY <1>6 DEF CreateCheck, TypeOK
<1>7. ASSUME NEW c \in Checks, EnsureCheck(c) PROVE TypeOK'
  BY <1>7 DEF EnsureCheck, TypeOK
<1>8. ASSUME NEW c \in Checks, DeleteCheck(c) PROVE TypeOK'
  BY <1>8, NewStateTypes DEF DeleteCheck, TypeOK, NoRow
<1>9. ASSUME NEW c \in Checks, RemoveCheck(c) PROVE TypeOK'
  BY <1>9, NewStateTypes DEF RemoveCheck, TypeOK
<1>11. ASSUME NEW p \in Probes, RegisterProbe(p) PROVE TypeOK'
  BY <1>11, MonitoringAssumption DEF RegisterProbe, TypeOK, Times
<1>12. ASSUME NEW p \in Probes
       PROVE  AddedProbe(p) \in [State : {"unknown", "offline", "online"},
                                 LastHeartbeatAt : Times]
  BY DEF AddedProbe, TypeOK
<1>10. ASSUME NEW p \in Probes, CreateProbeCredential(p) PROVE TypeOK'
  BY <1>10, <1>12 DEF CreateProbeCredential, TypeOK
<1>13. ASSUME NEW p \in Probes, AddProbe(p) PROVE TypeOK'
  BY <1>12, <1>13 DEF AddProbe, TypeOK
<1>14. ASSUME NEW p \in Probes, NEW result, Heartbeat(p, result) PROVE TypeOK'
  BY <1>12, <1>14, MonitoringAssumption DEF Heartbeat, TypeOK, Times
<1>15. ASSUME NEW p \in Probes, SweepProbe(p) PROVE TypeOK'
  <2>1. exec' \in [Checks -> [Probes -> ExecStates(Times)]]
    BY <1>15, LoseEvidenceType DEF SweepProbe, DegradedExec, TypeOK
  <2>2. quorum' \in [Checks -> QuorumRecords]
    BY <1>15, RecomputeType DEF SweepProbe, DegradedQuorum, TypeOK
  <2>3. probe' \in [Probes -> [State : {"unknown", "offline", "online"},
                               LastHeartbeatAt : Times]]
    BY <1>15, ZenonT(60) DEF SweepProbe, TypeOK
  <2> QED
    BY <1>15, <2>1, <2>2, <2>3 DEF SweepProbe, TypeOK
<1>16. ASSUME NEW p \in Probes, NormalizeBatch(p) PROVE TypeOK'
  BY <1>16, UploadsType DEF NormalizeBatch, TypeOK
<1>18. ASSUME NEW items \in requests, LockBatch(items) PROVE TypeOK'
  BY <1>18 DEF LockBatch, TypeOK
<1>19. CASE ApplyObservedResult
  <2> DEFINE item     == Head(txn.todo)
             c        == item.check
             p        == item.probe
             members  == assigned[c] \cup {p}
             checks   == [exec[c] EXCEPT ![p] = Observe(@, item.outcome, item.ttl)]
             current  == Recompute(JoinedQuorum(c, p), members, checks)
             incident == IncidentEffect(quorum[c], current)
             undo     == [check |-> c, probe |-> p,
                          createdQuorum |-> c \notin known,
                          createdAssignment |-> p \notin assigned[c],
                          previousCheck |-> exec[c][p],
                          previousQuorum |-> quorum[c]]
             write    == WriteFor(c, p, members, checks, incident)
  <2>1. item \in Items /\ Tail(txn.todo) \in Seq(Items)
    BY <1>19, NextItem
  <2>2. c \in Checks /\ p \in Probes /\ item.outcome \in StableStates
        /\ item.ttl \in Times
    BY <2>1 DEF Items, Times
  <2>3. members \in SUBSET Probes
    BY <2>2 DEF TypeOK
  <2>4. checks \in [Probes -> ExecStates(Times)]
    BY <2>2, ObserveType DEF TypeOK
  <2>5. JoinedQuorum(c, p) \in QuorumRecords
    BY <2>2, RecomputeType DEF JoinedQuorum, TypeOK
  <2>6. current \in QuorumRecords
    BY <2>5, RecomputeType
  <2>7. undo \in Undos
    BY <2>2 DEF Undos, TypeOK
  <2>8. write \in Writes
    BY <2>2, <2>3, <2>4, WriteForType, IncidentEffectType, SMTT(60)
  <2> HIDE DEF item, c, p, members, checks, current, incident, undo, write
  <2>9. /\ known' = known \cup {c}
        /\ assigned' = [assigned EXCEPT ![c] = members]
        /\ exec' = [exec EXCEPT ![c] = checks]
        /\ quorum' = [quorum EXCEPT ![c] = current]
        /\ txn' = [txn EXCEPT !.todo = Tail(@), !.undo = Append(@, undo),
                              !.writes = Append(@, write)]
    BY <1>19
       DEF ApplyObservedResult, item, c, p, members, checks, current,
           incident, undo, write
  <2>10. txn' \in [step : {"idle", "apply", "rollback"}, todo : Seq(Items),
                   undo : Seq(Undos), writes : Seq(Writes)]
    <3>1. /\ Append(txn.undo, undo) \in Seq(Undos)
          /\ Append(txn.writes, write) \in Seq(Writes)
      BY <2>7, <2>8 DEF TypeOK
    <3> QED BY <2>1, <2>9, <3>1 DEF TypeOK
  <2>11. /\ UNCHANGED <<phase, probe, handlers, tables, drifted>>
         /\ trail' = Append(trail, memory)
    BY <1>19 DEF ApplyObservedResult
  <2>12. trail' \in Seq(Memories)
    BY <2>11, MemoryType DEF TypeOK
  <2> QED
    BY <2>2, <2>3, <2>4, <2>6, <2>9, <2>10, <2>11, <2>12, SMTT(60) DEF TypeOK
<1>20. ASSUME NEW c \in Checks, NEW p \in Probes, SweepCheck(c, p) PROVE TypeOK'
  <2> DEFINE checks   == [exec[c] EXCEPT ![p] = LoseEvidence(@)]
             current  == Recompute(quorum[c], assigned[c], checks)
             incident == IF status[c] = "active"
                           THEN IncidentEffect(quorum[c], current) ELSE "none"
             undo     == [check |-> c, probe |-> p,
                          createdQuorum |-> FALSE, createdAssignment |-> FALSE,
                          previousCheck |-> exec[c][p],
                          previousQuorum |-> quorum[c]]
             write    == WriteFor(c, p, assigned[c], checks, incident)
  <2>1. checks \in [Probes -> ExecStates(Times)]
    BY LoseEvidenceType DEF TypeOK
  <2>2. current \in QuorumRecords
    BY RecomputeType DEF TypeOK
  <2>3. undo \in Undos
    BY DEF Undos, TypeOK
  <2>4. write \in Writes
    BY <2>1, WriteForType, IncidentEffectType DEF TypeOK
  <2> HIDE DEF checks, current, incident, undo, write
  <2>5. /\ exec' = [exec EXCEPT ![c] = checks]
        /\ quorum' = [quorum EXCEPT ![c] = current]
        /\ txn' = [step |-> "apply", todo |-> <<>>, undo |-> <<undo>>,
                   writes |-> <<write>>]
    BY <1>20 DEF SweepCheck, checks, current, incident, undo, write
  <2>6. UNCHANGED <<phase, known, assigned, probe, handlers, tables, drifted>>
    BY <1>20 DEF SweepCheck
  <2>7. trail' \in Seq(Memories)
    <3>1. trail' = <<memory>>
      BY <1>20 DEF SweepCheck
    <3> QED BY <3>1, MemoryType
  <2> QED
    BY <2>1, <2>2, <2>3, <2>4, <2>5, <2>6, <2>7 DEF TypeOK
<1>21. ASSUME NEW result, PersistMonitoringBatch(result) PROVE TypeOK'
  <2>1. row' \in [Checks -> [Probes -> ExecStates(Times)]]
    BY <1>21, RowAfterType DEF PersistMonitoringBatch, TypeOK
  <2>2. openIncidents' \subseteq Checks
    BY <1>21 DEF PersistMonitoringBatch, TypeOK
  <2>3. drifted' \subseteq Checks
    <3>1. \A i \in 1..Len(txn.writes) : txn.writes[i] \in Writes
      BY DEF TypeOK
    <3>2. {txn.writes[i].check : i \in 1..Len(txn.writes)} \subseteq Checks
      BY <3>1 DEF Writes
    <3> QED BY <1>21, <3>2 DEF PersistMonitoringBatch, TypeOK
  <2>4. txn' \in [step : {"idle", "apply", "rollback"}, todo : Seq(Items),
                  undo : Seq(Undos), writes : Seq(Writes)]
    BY <1>21, IdleType DEF PersistMonitoringBatch, TypeOK
  <2> QED
    BY <1>21, <2>1, <2>2, <2>3, <2>4 DEF PersistMonitoringBatch, TypeOK
<1>22. CASE RollbackObservedResult
  <2> DEFINE undo == txn.undo[Len(txn.undo)]
  <2>1. undo \in Undos /\ SubSeq(txn.undo, 1, Len(txn.undo) - 1) \in Seq(Undos)
    BY <1>22 DEF RollbackObservedResult, TypeOK
  <2>2. PICK m \in Memories : m = Undone(memory, undo)
    BY <2>1, MemoryType, UndoneType
  <2>3. /\ m[1] \in SUBSET Checks
        /\ m[2] \in [Checks -> QuorumRecords]
        /\ m[3] \in [Checks -> SUBSET Probes]
        /\ m[4] \in [Checks -> [Probes -> ExecStates(Times)]]
    BY DEF Memories
  <2>4. known' = m[1] /\ quorum' = m[2] /\ assigned' = m[3] /\ exec' = m[4]
    BY <1>22, <2>2 DEF RollbackObservedResult, MemoryBecomes
  <2>5. txn' \in [step : {"idle", "apply", "rollback"}, todo : Seq(Items),
                  undo : Seq(Undos), writes : Seq(Writes)]
    BY <1>22, <2>1 DEF RollbackObservedResult, TypeOK
  <2>6. trail' \in Seq(Memories)
    <3>1. /\ trail \in Seq(Memories)
          /\ trail' = SubSeq(trail, 1, Len(trail) - 1)
      BY <1>22 DEF RollbackObservedResult, TypeOK
    <3> QED BY <3>1
  <2> QED
    BY <1>22, <2>3, <2>4, <2>5, <2>6 DEF RollbackObservedResult, TypeOK
<1>23. CASE ReturnError
  BY <1>23, IdleType DEF ReturnError, TypeOK
<1>24. CASE Tick
  <2>1. exec' \in [Checks -> [Probes -> ExecStates(Times)]]
        /\ row' \in [Checks -> [Probes -> ExecStates(Times)]]
    BY <1>24, AgedExecType DEF Tick, TypeOK
  <2>2. requests' \subseteq Seq(Items)
    BY <1>24, AgedItemsType DEF Tick, TypeOK
  <2>3. probe' \in [Probes -> [State : {"unknown", "offline", "online"},
                               LastHeartbeatAt : Times]]
        /\ lastSeen' \in [Probes -> Times]
    BY <1>24, AgedType DEF Tick, TypeOK
  <2> QED
    BY <1>24, <2>1, <2>2, <2>3 DEF Tick, TypeOK
<1> QED
  BY <1>1, <1>2, <1>3, <1>4, <1>5, <1>6, <1>7, <1>8, <1>9, <1>10, <1>11,
     <1>13, <1>14, <1>15, <1>16, <1>18, <1>19, <1>20, <1>21, <1>22,
     <1>23, <1>24
     DEF Next, CheckNext, ProbeNext, BatchNext

\* The state of the server and of its tables is always well typed: no
\* handler, sweep, fault or restart leaves a value outside the states that
\* types.go and the schema allow.
THEOREM TypeCorrect == Spec => []TypeOK
BY InitType, NextType, PTL DEF Spec

\* A probe that is in the Runtime stays there while the server runs.
LEMMA ProbesStep ==
  TypeOK /\ ProbesKnown /\ [Next]_vars => ProbesKnown'
<1> SUFFICES ASSUME TypeOK, ProbesKnown, [Next]_vars PROVE ProbesKnown'
  OBVIOUS
<1>1. CASE LoadRuntime
  BY <1>1 DEF LoadRuntime, tables, TypeOK, ProbesKnown
<1>2. CASE Crash
  BY <1>2 DEF Crash, ProbesKnown
<1>3. ASSUME NEW p \in Probes, CreateProbeCredential(p) PROVE ProbesKnown'
  BY <1>3 DEF CreateProbeCredential, AddedProbe, TypeOK, ProbesKnown
<1>4. ASSUME NEW p \in Probes, AddProbe(p) PROVE ProbesKnown'
  BY <1>4 DEF AddProbe, AddedProbe, tables, TypeOK, ProbesKnown
<1>5. ASSUME NEW p \in Probes, NEW result, Heartbeat(p, result) PROVE ProbesKnown'
  BY <1>5 DEF Heartbeat, AddedProbe, TypeOK, ProbesKnown
<1>6. ASSUME NEW p \in Probes, SweepProbe(p) PROVE ProbesKnown'
  BY <1>6 DEF SweepProbe, tables, TypeOK, ProbesKnown
<1>7. CASE Tick
  BY <1>7 DEF Tick, TypeOK, ProbesKnown
<1>8. ASSUME UNCHANGED <<probe, provisioned>>, phase' = phase \/ phase = "starting"
      PROVE  ProbesKnown'
  BY <1>8 DEF ProbesKnown
<1>9. ASSUME ~LoadRuntime, ~Crash, ~Tick,
             \A p \in Probes : ~CreateProbeCredential(p) /\ ~AddProbe(p)
               /\ ~SweepProbe(p) /\ \A result \in CommitResults : ~Heartbeat(p, result)
      PROVE  UNCHANGED <<probe, provisioned>> /\ (phase' = phase \/ phase = "starting")
  BY <1>9, ZenonT(60)
     DEF Next, CheckNext, ProbeNext, BatchNext, vars, tables, Serve, SeedCheck,
         CreateCheck, EnsureCheck, DeleteCheck, RemoveCheck, SweepCheck,
         RegisterProbe, NormalizeBatch, LockBatch, ApplyObservedResult,
         PersistMonitoringBatch, RollbackObservedResult, ReturnError
<1> QED
  BY <1>1, <1>2, <1>3, <1>4, <1>5, <1>6, <1>7, <1>8, <1>9

\* The Runtime knows every probe whose credential is accepted, so ErrUnknownProbe
\* is never the answer to an authenticated probe (LoadRuntime,
\* handleCreateProbeCredential).
THEOREM ProvisionedProbesKnown == Spec => []ProbesKnown
<1>1. Init => ProbesKnown
  BY DEF Init, ProbesKnown
<1> QED
  BY <1>1, InitType, NextType, ProbesStep, PTL DEF Spec

-----------------------------------------------------------------------------
(* Votes and majorities *)

\* What one recompute does: it moves the stable state only to the aggregate
\* state of both this and the previous recompute, and the incident flag only
\* with the stable state.
LEMMA RecomputeFacts ==
  ASSUME NEW q \in QuorumRecords, NEW members, NEW checks,
         NEW r, r = Recompute(q, members, checks)
  PROVE  /\ r \in QuorumRecords
         /\ r.LastStableState # q.LastStableState =>
              /\ r.LastStableState = r.State
              /\ r.LastStableState = q.State
              /\ r.LastStableState \in StableStates
         /\ r.IncidentOpen = IncidentFlag(q, r.LastStableState)
<1>1. r \in QuorumRecords
  BY RecomputeType
<1>2. r.LastStableState = PromotedStableState(q, r.State)
  BY DEF Recompute
<1>3. r.IncidentOpen = IncidentFlag(q, r.LastStableState)
  BY DEF Recompute
<1> QED
  BY <1>1, <1>2, <1>3 DEF PromotedStableState


\* Two quorums of the same probes share one: with a majority in A, any B
\* without a member of A is a minority.
LEMMA MajorityFacts ==
  ASSUME NEW M \in SUBSET Probes, NEW A \in SUBSET M, NEW B \in SUBSET M,
         A \cap B = {},
         Cardinality(A) >= QuorumThreshold(Cardinality(M))
  PROVE  /\ 2 * Cardinality(A) > Cardinality(M)
         /\ 2 * Cardinality(B) < Cardinality(M)
         /\ ~(Cardinality(B) >= QuorumThreshold(Cardinality(M)))
<1>1. /\ Cardinality(M) \in Nat /\ Cardinality(A) \in Nat /\ Cardinality(B) \in Nat
      /\ IsFiniteSet(A) /\ IsFiniteSet(B) /\ IsFiniteSet(M)
  BY ProbeSetCardinality
<1>2. Cardinality(A \cup B) = Cardinality(A) + Cardinality(B) - Cardinality(A \cap B)
  BY <1>1, FS_Union
<1>3. Cardinality(A \cap B) = 0
  BY FS_EmptySet
<1>4. Cardinality(A \cup B) <= Cardinality(M)
  <2>1. A \cup B \in SUBSET M
    OBVIOUS
  <2> QED BY <1>1, <2>1, FS_Subset
<1>5. Cardinality(A) + Cardinality(B) <= Cardinality(M)
  BY <1>1, <1>2, <1>3, <1>4
<1>6. \A n \in Nat : QuorumThreshold(n) \in Nat /\ 2 * QuorumThreshold(n) > n
  BY DEF QuorumThreshold
<1> QED
  BY <1>1, <1>5, <1>6

\* One more probe does not lower the number of votes that is required.
LEMMA ThresholdGrows ==
  ASSUME NEW M \in SUBSET Probes, NEW p \in Probes
  PROVE  /\ QuorumThreshold(Cardinality(M)) \in Nat \ {0}
         /\ QuorumThreshold(Cardinality(M)) <= QuorumThreshold(Cardinality(M \cup {p}))
<1>1. /\ Cardinality(M) \in Nat /\ Cardinality(M \cup {p}) \in Nat
      /\ IsFiniteSet(M \cup {p})
  BY ProbeSetCardinality
<1>2. Cardinality(M) <= Cardinality(M \cup {p})
  BY <1>1, FS_Subset
<1>3. \A m, n \in Nat : m <= n => QuorumThreshold(m) <= QuorumThreshold(n)
  BY DEF QuorumThreshold
<1>4. \A n \in Nat : QuorumThreshold(n) \in Nat \ {0}
  BY DEF QuorumThreshold
<1> QED
  BY <1>1, <1>2, <1>3, <1>4

UpVoters(q, M, e) == {p \in M : ContributesUp(e[p], q)}
DownVoters(M, e) == {p \in M : ContributesDown(e[p])}

\* AggregateState in terms of the voters
LEMMA AggregateFacts ==
  ASSUME NEW q, NEW M \in SUBSET Probes, NEW e
  PROVE  /\ UpVoters(q, M, e) \in SUBSET M /\ DownVoters(M, e) \in SUBSET M
         /\ UpVoters(q, M, e) \cap DownVoters(M, e) = {}
         /\ LET required == QuorumThreshold(Cardinality(M))
                up   == Cardinality(UpVoters(q, M, e)) >= required
                down == Cardinality(DownVoters(M, e)) >= required
            IN  /\ ~(up /\ down)
                /\ (AggregateState(q, M, e) = "up" <=> up)
                /\ (AggregateState(q, M, e) = "down" <=> down)
                /\ ~up /\ ~down => AggregateState(q, M, e) =
                     IF q.LastStableState = "none" THEN "pending" ELSE "error"
<1> DEFINE U == UpVoters(q, M, e)
           D == DownVoters(M, e)
           required == QuorumThreshold(Cardinality(M))
<1>1. U \in SUBSET M /\ D \in SUBSET M /\ U \cap D = {}
  BY DEF UpVoters, DownVoters, ContributesUp, ContributesDown
<1>2. /\ required \in Nat \ {0}
      /\ Cardinality(U) \in Nat /\ Cardinality(D) \in Nat
      /\ M = {} => Cardinality(U) = 0 /\ Cardinality(D) = 0
  BY <1>1, ProbeSetCardinality, ThresholdGrows, FS_EmptySet
<1>3. ~(Cardinality(U) >= required /\ Cardinality(D) >= required)
  BY <1>1, MajorityFacts
<1>4. AggregateState(q, M, e) =
        IF M # {} /\ Cardinality(U) >= required THEN "up"
        ELSE IF M # {} /\ Cardinality(D) >= required THEN "down"
        ELSE IF q.LastStableState = "none" THEN "pending" ELSE "error"
  BY DEF AggregateState, UpVotes, DownVotes, UpVoters, DownVoters
<1> HIDE DEF U, D, required
<1>5. /\ ~(Cardinality(U) >= required /\ Cardinality(D) >= required)
      /\ (AggregateState(q, M, e) = "up" <=> Cardinality(U) >= required)
      /\ (AggregateState(q, M, e) = "down" <=> Cardinality(D) >= required)
      /\ ~(Cardinality(U) >= required) /\ ~(Cardinality(D) >= required) =>
           AggregateState(q, M, e) =
             IF q.LastStableState = "none" THEN "pending" ELSE "error"
  BY <1>2, <1>3, <1>4
<1> QED
  BY <1>1, <1>5 DEF U, D, required

\* The same votes give the same state.
LEMMA SameVotesSameState ==
  ASSUME NEW q, NEW r, r.LastStableState = q.LastStableState,
         NEW M \in SUBSET Probes, NEW e, NEW f,
         \A p \in M : /\ (ContributesUp(e[p], q) <=> ContributesUp(f[p], r))
                      /\ (ContributesDown(e[p]) <=> ContributesDown(f[p]))
  PROVE  AggregateState(q, M, e) = AggregateState(r, M, f)
<1>1. {p \in M : ContributesUp(e[p], q)} = {p \in M : ContributesUp(f[p], r)}
  OBVIOUS
<1>2. {p \in M : ContributesDown(e[p])} = {p \in M : ContributesDown(f[p])}
  OBVIOUS
<1> QED
  BY <1>1, <1>2 DEF AggregateState, UpVotes, DownVotes

\* Recompute is idempotent in the state it shows: opening an incident takes up
\* votes away but the state is down then, and resolving one adds some.
LEMMA RecomputeSettles ==
  ASSUME NEW q \in QuorumRecords, NEW M \in SUBSET Probes, NEW e,
         NEW r, r = Recompute(q, M, e)
  PROVE  r.State = AggregateState(r, M, e)
<1>1. r.State = AggregateState(q, M, e)
  BY DEF Recompute
<1>2. /\ r \in QuorumRecords
      /\ r.LastStableState # q.LastStableState =>
           r.LastStableState = r.State /\ r.LastStableState \in StableStates
      /\ r.IncidentOpen = IncidentFlag(q, r.LastStableState)
  BY RecomputeFacts
<1>3. CASE r.LastStableState = q.LastStableState
  <2>1. r.IncidentOpen = q.IncidentOpen
    BY <1>2, <1>3 DEF IncidentFlag
  <2>2. \A p \in M : ContributesUp(e[p], q) <=> ContributesUp(e[p], r)
    BY <2>1 DEF ContributesUp
  <2> QED BY <1>1, <1>3, <2>2, SameVotesSameState
<1>4. CASE r.LastStableState # q.LastStableState /\ r.State = "up"
  <2>1. r.IncidentOpen => q.IncidentOpen
    BY <1>2, <1>4 DEF IncidentFlag, QuorumRecords
  <2>2. UpVoters(q, M, e) \in SUBSET UpVoters(r, M, e)
    BY <2>1 DEF UpVoters, ContributesUp
  <2>3. /\ UpVoters(r, M, e) \in SUBSET Probes
        /\ UpVoters(q, M, e) \in SUBSET Probes
    BY DEF UpVoters
  <2>4. /\ Cardinality(UpVoters(q, M, e)) \in Nat
        /\ Cardinality(UpVoters(r, M, e)) \in Nat
        /\ Cardinality(UpVoters(q, M, e)) <= Cardinality(UpVoters(r, M, e))
    BY <2>2, <2>3, ProbeSetCardinality, FS_Subset
  <2>5. QuorumThreshold(Cardinality(M)) \in Nat
    BY <1>2, ThresholdGrows, ProbeSetCardinality DEF QuorumThreshold
  <2>6. Cardinality(UpVoters(q, M, e)) >= QuorumThreshold(Cardinality(M))
    BY <1>1, <1>4, AggregateFacts
  <2>7. Cardinality(UpVoters(r, M, e)) >= QuorumThreshold(Cardinality(M))
    BY <2>4, <2>5, <2>6
  <2> QED BY <1>4, <2>7, AggregateFacts
<1>5. CASE r.LastStableState # q.LastStableState /\ r.State = "down"
  <2>1. Cardinality(DownVoters(M, e)) >= QuorumThreshold(Cardinality(M))
    BY <1>1, <1>5, AggregateFacts, ZenonT(60)
  <2> QED BY <1>5, <2>1, AggregateFacts
<1> QED
  BY <1>2, <1>3, <1>4, <1>5 DEF StableStates

\* A probe that joins without evidence brings no stable state about: votes
\* that are a majority with it were one without it.
LEMMA JoiningBringsNoState ==
  ASSUME NEW q, NEW M \in SUBSET Probes, NEW p \in Probes, NEW e,
         e[p] = NewCheckExecState,
         AggregateState(q, M \cup {p}, e) \in StableStates
  PROVE  AggregateState(q, M, e) = AggregateState(q, M \cup {p}, e)
<1>1. ~ContributesUp(e[p], q) /\ ~ContributesDown(e[p])
  BY DEF ContributesUp, ContributesDown, NewCheckExecState
<1>2. /\ UpVoters(q, M \cup {p}, e) = UpVoters(q, M, e)
      /\ DownVoters(M \cup {p}, e) = DownVoters(M, e)
  BY <1>1 DEF UpVoters, DownVoters
<1> DEFINE u == Cardinality(UpVoters(q, M, e))
           d == Cardinality(DownVoters(M, e))
           low  == QuorumThreshold(Cardinality(M))
           high == QuorumThreshold(Cardinality(M \cup {p}))
<1>3. u \in Nat /\ d \in Nat
  <2>1. UpVoters(q, M, e) \in SUBSET Probes /\ DownVoters(M, e) \in SUBSET Probes
    BY DEF UpVoters, DownVoters
  <2> QED BY <2>1, ProbeSetCardinality
<1>4. low \in Nat /\ high \in Nat /\ low <= high
  <2>1. M \cup {p} \in SUBSET Probes
    OBVIOUS
  <2> QED BY <2>1, ThresholdGrows
<1>5. /\ (AggregateState(q, M \cup {p}, e) = "up" <=> u >= high)
      /\ (AggregateState(q, M \cup {p}, e) = "down" <=> d >= high)
  <2>1. M \cup {p} \in SUBSET Probes
    OBVIOUS
  <2> QED BY <1>2, <2>1, AggregateFacts
<1>6. /\ (AggregateState(q, M, e) = "up" <=> u >= low)
      /\ (AggregateState(q, M, e) = "down" <=> d >= low)
  BY AggregateFacts
<1> HIDE DEF u, d, low, high
<1> QED
  BY <1>3, <1>4, <1>5, <1>6 DEF StableStates

\* The counts that an alert carries justify the state.
LEMMA CountsJustifyState ==
  ASSUME NEW q, NEW M \in SUBSET Probes, NEW e,
         \A p \in M : EvidenceOK(e[p])
  PROVE  /\ AggregateState(q, M, e) = "down" => 2 * ProbesDown(M, e) > Cardinality(M)
         /\ AggregateState(q, M, e) = "up" => 2 * ProbesDown(M, e) < Cardinality(M)
<1>1. {p \in M : e[p].State = "down"} = DownVoters(M, e)
  BY DEF EvidenceOK, DownVoters
<1>2. ProbesDown(M, e) = Cardinality(DownVoters(M, e))
  BY <1>1 DEF ProbesDown
<1>3. /\ UpVoters(q, M, e) \in SUBSET M /\ DownVoters(M, e) \in SUBSET M
      /\ UpVoters(q, M, e) \cap DownVoters(M, e) = {}
  BY AggregateFacts
<1>4. ASSUME AggregateState(q, M, e) = "down"
      PROVE  2 * Cardinality(DownVoters(M, e)) > Cardinality(M)
  <2>1. Cardinality(DownVoters(M, e)) >= QuorumThreshold(Cardinality(M))
    BY <1>4, AggregateFacts
  <2>2. DownVoters(M, e) \cap UpVoters(q, M, e) = {}
    BY <1>3
  <2> QED BY <1>3, <2>1, <2>2, MajorityFacts
<1>5. ASSUME AggregateState(q, M, e) = "up"
      PROVE  2 * Cardinality(DownVoters(M, e)) < Cardinality(M)
  <2>1. Cardinality(UpVoters(q, M, e)) >= QuorumThreshold(Cardinality(M))
    BY <1>5, AggregateFacts
  <2> QED BY <1>3, <2>1, MajorityFacts
<1> QED
  BY <1>2, <1>4, <1>5

\* The operations of CheckMachine keep State in step with the vote.
LEMMA EvidenceFacts ==
  /\ EvidenceOK(NewCheckExecState)
  /\ \A e \in ExecStates(Times) : EvidenceOK(LoseEvidence(e))
  /\ \A e \in ExecStates(Times) : EvidenceOK(e) => EvidenceOK(StoredState(e))
  /\ \A e \in ExecStates(Times) : EvidenceOK(e) =>
       EvidenceOK([e EXCEPT !.ExpiresAt = Aged(@)])
<1>1. EvidenceOK(NewCheckExecState)
  BY DEF EvidenceOK, NewCheckExecState, ContributesDown
<1>2. \A e \in ExecStates(Times) : EvidenceOK(LoseEvidence(e))
  BY DEF EvidenceOK, LoseEvidence, ContributesDown
<1>3. ASSUME NEW e \in ExecStates(Times), EvidenceOK(e)
      PROVE  EvidenceOK(StoredState(e))
  BY <1>3 DEF EvidenceOK, StoredState, ContributesDown, ExecStates, NoTime
<1>4. ASSUME NEW e \in ExecStates(Times), EvidenceOK(e)
      PROVE  EvidenceOK([e EXCEPT !.ExpiresAt = Aged(@)])
  BY <1>4 DEF EvidenceOK, Aged, ContributesDown, ExecStates, Times, NoTime
<1> QED
  BY <1>1, <1>2, <1>3, <1>4

\* The same for a result; one result alone is no vote.
LEMMA ObserveFacts ==
  ASSUME NEW e \in ExecStates(Times), NEW o \in StableStates, NEW t \in Nat
  PROVE  /\ EvidenceOK(Observe(e, o, t))
         /\ Observe(NewCheckExecState, o, t).State = "missing"
<1>1. BumpOutcome(e, o) \in Nat
  BY StreakCapAssumption DEF BumpOutcome, ExecStates
<1>2. EvidenceOK(Observe(e, o, t))
  BY <1>1 DEF EvidenceOK, Observe, ContributionStateFor, ContributesDown,
              StableStates, NoTime, Threshold
<1>3. Observe(NewCheckExecState, o, t).State = "missing"
  BY DEF Observe, ContributionStateFor, BumpOutcome, NewCheckExecState,
         StableStates, Threshold
<1> QED
  BY <1>2, <1>3

\* A result o with lifetime t of probe p takes the quorum q of the probes M with
\* evidence e to q1, when p joins, and then to q2, of the probes N with evidence f.
Applies(q, M, p, e, o, t, f, N, q1, q2) ==
  /\ f[p] = Observe(e[p], o, t)
  /\ \A x \in Probes : x # p => f[x] = e[x]
  /\ N = M \cup {p}
  /\ q1 = IF p \in M THEN q ELSE Recompute(q, N, e)
  /\ q2 = Recompute(q1, N, f)

\* applyObservedResultLocked on the quorum q of the probes M with evidence e:
\* the state it ends with, when it may promote, and the counts of its alert.
LEMMA ApplyVotes ==
  ASSUME NEW q \in QuorumRecords, NEW M \in SUBSET Probes, NEW p \in Probes,
         NEW e \in [Probes -> ExecStates(Times)],
         q.State = AggregateState(q, M, e),
         \A x \in Probes : EvidenceOK(e[x]),
         p \notin M => e[p] = NewCheckExecState,
         NEW o \in StableStates, NEW t \in Nat,
         NEW f, NEW N, NEW q1, NEW q2, Applies(q, M, p, e, o, t, f, N, q1, q2)
  PROVE  /\ q2.State = AggregateState(q2, N, f)
         /\ q2.LastStableState # q.LastStableState => q2.LastStableState = q.State
         /\ IncidentEffect(q, q2) = "open" => 2 * ProbesDown(N, f) > Cardinality(N)
         /\ IncidentEffect(q, q2) = "resolve" => 2 * ProbesDown(N, f) < Cardinality(N)
<1> USE DEF Applies
<1>1. N \in SUBSET Probes /\ q1 \in QuorumRecords
  BY RecomputeType
<1>3. \A x \in Probes : EvidenceOK(f[x])
  BY ObserveFacts
<1>4. q2.State = AggregateState(q2, N, f)
  BY <1>1, RecomputeSettles
<1>5. /\ q2.LastStableState # q1.LastStableState =>
           /\ q2.LastStableState = q2.State
           /\ q2.LastStableState = q1.State
           /\ q2.LastStableState \in StableStates
      /\ q2.State = AggregateState(q1, N, f)
  BY <1>1, RecomputeFacts DEF Recompute
<1>6. q1.LastStableState # q.LastStableState =>
        /\ p \notin M
        /\ q1.LastStableState = q1.State
        /\ q1.LastStableState = q.State
        /\ q1.LastStableState \in StableStates
  BY RecomputeFacts
<1>7. p \notin M => q1.State = AggregateState(q, N, e)
  BY DEF Recompute
<1>8. ASSUME p \notin M PROVE ProbesDown(N, f) = ProbesDown(N, e)
  <2>1. e[p] = NewCheckExecState /\ f[p].State = "missing"
    BY <1>8, ObserveFacts
  <2>2. e[p].State # "down" /\ f[p].State # "down"
    BY <2>1 DEF NewCheckExecState
  <2>3. \A x \in N : e[x].State = "down" <=> f[x].State = "down"
    BY <1>1, <2>2
  <2>4. {x \in N : e[x].State = "down"} = {x \in N : f[x].State = "down"}
    BY <2>3
  <2> QED BY <2>4 DEF ProbesDown
<1>9. ASSUME q2.LastStableState # q.LastStableState
      PROVE  q2.LastStableState = q.State
  <2>1. CASE q1.LastStableState # q.LastStableState
    BY <1>5, <1>6, <2>1
  <2>2. CASE q1.LastStableState = q.LastStableState /\ p \in M
    BY <1>5, <1>9, <2>2
  <2>3. CASE q1.LastStableState = q.LastStableState /\ p \notin M
    <3>1. AggregateState(q, M \cup {p}, e) \in StableStates
          /\ q2.LastStableState = AggregateState(q, M \cup {p}, e)
      BY <1>5, <1>7, <1>9, <2>3
    <3>2. AggregateState(q, M, e) = AggregateState(q, M \cup {p}, e)
      BY <2>3, <3>1, JoiningBringsNoState
    <3> QED BY <3>1, <3>2
  <2> QED BY <2>1, <2>2, <2>3
<1>10. ASSUME q2.LastStableState # q.LastStableState
       PROVE  /\ q2.LastStableState = "down" => 2 * ProbesDown(N, f) > Cardinality(N)
              /\ q2.LastStableState = "up" => 2 * ProbesDown(N, f) < Cardinality(N)
  <2>1. CASE q2.LastStableState # q1.LastStableState
    <3>1. q2.LastStableState = AggregateState(q1, N, f)
      BY <1>5, <2>1
    <3> QED BY <1>1, <1>3, <3>1, CountsJustifyState
  <2>2. CASE q2.LastStableState = q1.LastStableState
    <3>1. p \notin M /\ q2.LastStableState = AggregateState(q, N, e)
      BY <1>6, <1>7, <1>10, <2>2
    <3>2. ProbesDown(N, f) = ProbesDown(N, e)
      BY <1>8, <3>1
    <3>3. \A x \in N : EvidenceOK(e[x])
      BY <1>1
    <3>4. /\ AggregateState(q, N, e) = "down" => 2 * ProbesDown(N, e) > Cardinality(N)
          /\ AggregateState(q, N, e) = "up" => 2 * ProbesDown(N, e) < Cardinality(N)
      BY <1>1, <3>3, CountsJustifyState
    <3> QED BY <3>1, <3>2, <3>4
  <2> QED BY <2>1, <2>2
<1>11. /\ IncidentEffect(q, q2) = "open" =>
            q.LastStableState = "up" /\ q2.LastStableState = "down"
       /\ IncidentEffect(q, q2) = "resolve" =>
            q.LastStableState = "down" /\ q2.LastStableState = "up"
  BY DEF IncidentEffect
<1> QED
  BY <1>4, <1>9, <1>10, <1>11

\* LoseEvidence and Recompute, by a sweep: the same with one recompute.
LEMMA SweepVotes ==
  ASSUME NEW q \in QuorumRecords, NEW M \in SUBSET Probes,
         NEW f, \A x \in M : EvidenceOK(f[x]),
         NEW r, r = Recompute(q, M, f)
  PROVE  /\ r.State = AggregateState(r, M, f)
         /\ r.LastStableState # q.LastStableState => r.LastStableState = q.State
         /\ IncidentEffect(q, r) = "open" => 2 * ProbesDown(M, f) > Cardinality(M)
         /\ IncidentEffect(q, r) = "resolve" => 2 * ProbesDown(M, f) < Cardinality(M)
<1>1. r.State = AggregateState(r, M, f)
  BY RecomputeSettles
<1>2. /\ r.LastStableState # q.LastStableState =>
           r.LastStableState = r.State /\ r.LastStableState = q.State
      /\ r.State = AggregateState(q, M, f)
  BY RecomputeFacts DEF Recompute
<1>3. /\ AggregateState(q, M, f) = "down" => 2 * ProbesDown(M, f) > Cardinality(M)
      /\ AggregateState(q, M, f) = "up" => 2 * ProbesDown(M, f) < Cardinality(M)
  BY CountsJustifyState
<1> QED
  BY <1>1, <1>2, <1>3 DEF IncidentEffect

-----------------------------------------------------------------------------
(* VotesInv *)

\* MemoryOK of the Runtime, without the tuple
LEMMA MemoryFacts ==
  MemoryOK(memory) <=>
    \A c \in Checks :
      /\ quorum[c].State = AggregateState(quorum[c], assigned[c], exec[c])
      /\ c \notin known => quorum[c] = NewCheckQuorumState /\ assigned[c] = {}
      /\ \A p \in Probes :
           /\ EvidenceOK(exec[c][p])
           /\ p \notin assigned[c] => exec[c][p] = NewCheckExecState
BY DEF MemoryOK, CheckOK, memory

\* The same after a step
LEMMA MemoryFactsNext ==
  MemoryOK(memory)' <=>
    \A c \in Checks :
      /\ quorum'[c].State = AggregateState(quorum'[c], assigned'[c], exec'[c])
      /\ c \notin known' => quorum'[c] = NewCheckQuorumState /\ assigned'[c] = {}
      /\ \A p \in Probes :
           /\ EvidenceOK(exec'[c][p])
           /\ p \notin assigned'[c] => exec'[c][p] = NewCheckExecState
BY DEF MemoryOK, CheckOK, memory

\* The write carries counts that justify its incident effect.
WriteOK(w) ==
  /\ EvidenceOK(w.state)
  /\ w.incident = "open" => 2 * w.probesDown > w.probesTotal
  /\ w.incident = "resolve" => 2 * w.probesDown < w.probesTotal

\* A stable state of the Runtime moves only to the state that was shown.
Promotes(c) ==
  quorum'[c].LastStableState # quorum[c].LastStableState =>
    quorum'[c].LastStableState = quorum[c].State

\* What one observed result does: it leaves a Runtime whose states match their
\* votes, an undo entry that leads back and a write with counts that fit.
LEMMA ApplyStep ==
  ASSUME VotesInv, ApplyObservedResult
  PROVE  /\ MemoryOK(memory)'
         /\ \A c \in Checks : Promotes(c)
         /\ \E u \in Undos, w \in Writes :
              /\ txn' = [txn EXCEPT !.todo = Tail(@), !.undo = Append(@, u),
                                    !.writes = Append(@, w)]
              /\ WriteOK(w)
              /\ memory = Undone(memory', u)
<1> DEFINE item     == Head(txn.todo)
           c        == item.check
           p        == item.probe
           members  == assigned[c] \cup {p}
           checks   == [exec[c] EXCEPT ![p] = Observe(@, item.outcome, item.ttl)]
           joined   == JoinedQuorum(c, p)
           current  == Recompute(joined, members, checks)
           incident == IncidentEffect(quorum[c], current)
           undo     == [check |-> c, probe |-> p,
                        createdQuorum |-> c \notin known,
                        createdAssignment |-> p \notin assigned[c],
                        previousCheck |-> exec[c][p],
                        previousQuorum |-> quorum[c]]
           write    == WriteFor(c, p, members, checks, incident)
<1>0. TypeOK /\ MemoryOK(memory)
  BY SMTT(60) DEF VotesInv
<1>1. item \in Items
  BY <1>0, NextItem
<1>2. c \in Checks /\ p \in Probes /\ item.outcome \in StableStates
      /\ item.ttl \in Nat /\ item.ttl \in Times
  BY <1>1 DEF Items, Times
<1>3. /\ quorum[c] \in QuorumRecords /\ assigned[c] \in SUBSET Probes
      /\ exec[c] \in [Probes -> ExecStates(Times)]
  BY <1>0, <1>2 DEF TypeOK
<1>4. /\ quorum[c].State = AggregateState(quorum[c], assigned[c], exec[c])
      /\ c \notin known => quorum[c] = NewCheckQuorumState /\ assigned[c] = {}
      /\ \A x \in Probes : EvidenceOK(exec[c][x])
      /\ \A x \in Probes : x \notin assigned[c] => exec[c][x] = NewCheckExecState
  BY <1>0, <1>2, MemoryFacts
<1>5. /\ checks \in [Probes -> ExecStates(Times)]
      /\ checks[p] = Observe(exec[c][p], item.outcome, item.ttl)
      /\ \A x \in Probes : x # p => checks[x] = exec[c][x]
  BY <1>2, <1>3, ObserveType
<1>6. joined = IF p \in assigned[c] THEN quorum[c]
               ELSE Recompute(quorum[c], members, exec[c])
  BY DEF JoinedQuorum
<1>7. /\ current.State = AggregateState(current, members, checks)
      /\ current.LastStableState # quorum[c].LastStableState =>
           current.LastStableState = quorum[c].State
      /\ incident = "open" => 2 * ProbesDown(members, checks) > Cardinality(members)
      /\ incident = "resolve" => 2 * ProbesDown(members, checks) < Cardinality(members)
  <2>1. PICK f : f = checks
    OBVIOUS
  <2>2. PICK N : N = members
    OBVIOUS
  <2>3. PICK q1 : q1 = joined
    OBVIOUS
  <2>4. PICK q2 : q2 = Recompute(q1, N, f)
    OBVIOUS
  <2> HIDE DEF checks, members, joined
  <2>5. current = q2 /\ incident = IncidentEffect(quorum[c], q2)
    BY <2>1, <2>2, <2>3, <2>4, SMTT(60)
  <2>6. Applies(quorum[c], assigned[c], p, exec[c], item.outcome, item.ttl,
                f, N, q1, q2)
    BY <1>5, <1>6, <2>1, <2>2, <2>3, <2>4 DEF members, Applies
  <2> HIDE DEF c, p, item, current, incident
  <2>7. /\ q2.State = AggregateState(q2, N, f)
        /\ q2.LastStableState # quorum[c].LastStableState =>
             q2.LastStableState = quorum[c].State
        /\ IncidentEffect(quorum[c], q2) = "open" =>
             2 * ProbesDown(N, f) > Cardinality(N)
        /\ IncidentEffect(quorum[c], q2) = "resolve" =>
             2 * ProbesDown(N, f) < Cardinality(N)
    BY <1>2, <1>3, <1>4, <2>6, ApplyVotes
  <2> QED BY <2>1, <2>2, <2>5, <2>7
<1>8. undo \in Undos
  BY <1>2, <1>3, SMTT(60) DEF Undos
<1>9. write \in Writes
  BY <1>2, <1>3, <1>5, WriteForType, IncidentEffectType
<1>10. WriteOK(write)
  <2>1. EvidenceOK(checks[p])
    BY <1>2, <1>3, <1>5, ObserveFacts
  <2>2. /\ write.state = checks[p] /\ write.incident = incident
        /\ write.probesDown = ProbesDown(members, checks)
        /\ write.probesTotal = Cardinality(members)
    BY SMTT(60) DEF WriteFor
  <2> HIDE DEF write, checks, members, incident
  <2> QED BY <1>7, <2>1, <2>2 DEF WriteOK
<1>11. /\ known' = known \cup {c}
       /\ assigned' = [assigned EXCEPT ![c] = members]
       /\ exec' = [exec EXCEPT ![c] = checks]
       /\ quorum' = [quorum EXCEPT ![c] = current]
       /\ txn' = [txn EXCEPT !.todo = Tail(@), !.undo = Append(@, undo),
                             !.writes = Append(@, write)]
  BY ZenonT(60) DEF ApplyObservedResult
<1>12. \A x \in Probes : EvidenceOK(checks[x])
  BY <1>2, <1>3, <1>4, <1>5, ObserveFacts
<1>13. undo.check = c /\ undo.probe = p /\ undo.createdQuorum = (c \notin known)
       /\ undo.createdAssignment = (p \notin assigned[c])
       /\ undo.previousCheck = exec[c][p] /\ undo.previousQuorum = quorum[c]
  OBVIOUS
<1>14. members = assigned[c] \cup {p}
  OBVIOUS
<1> HIDE DEF item, c, p, members, checks, joined, current, incident, undo, write
<1>15. /\ quorum'[c] = current /\ assigned'[c] = members /\ exec'[c] = checks
       /\ \A d \in Checks : d # c => /\ quorum'[d] = quorum[d]
                                     /\ assigned'[d] = assigned[d]
                                     /\ exec'[d] = exec[d]
  BY <1>0, <1>2, <1>11 DEF TypeOK
<1>16. MemoryOK(memory)'
  <2>1. ASSUME NEW x \in Probes, x \notin members
        PROVE  checks[x] = NewCheckExecState
    BY <1>4, <1>5, <1>14, <2>1
  <2>2. ASSUME NEW d \in Checks
        PROVE  /\ quorum'[d].State = AggregateState(quorum'[d], assigned'[d], exec'[d])
               /\ d \notin known' => quorum'[d] = NewCheckQuorumState /\ assigned'[d] = {}
               /\ \A x \in Probes :
                    /\ EvidenceOK(exec'[d][x])
                    /\ x \notin assigned'[d] => exec'[d][x] = NewCheckExecState
    <3>1. CASE d = c
      BY <1>7, <1>11, <1>12, <1>15, <2>1, <3>1
    <3>2. CASE d # c
      BY <1>0, <1>11, <1>15, <3>2, MemoryFacts
    <3> QED BY <3>1, <3>2
  <2> QED BY <2>2, MemoryFactsNext
<1>17. \A d \in Checks : Promotes(d)
  BY <1>7, <1>15 DEF Promotes
<1>18. memory = Undone(memory', undo)
  <2>1. known = IF c \notin known THEN known' \ {c} ELSE known'
    BY <1>11
  <2>2. quorum = [quorum' EXCEPT ![c] = IF c \notin known THEN NewCheckQuorumState
                                        ELSE quorum[c]]
    BY <1>0, <1>2, <1>4, <1>11 DEF TypeOK
  <2>3. assigned = [assigned' EXCEPT ![c] =
                      IF c \notin known THEN {}
                      ELSE IF p \notin assigned[c] THEN @ \ {p} ELSE @]
    <3>1. assigned[c] = IF c \notin known THEN {}
                        ELSE IF p \notin assigned[c] THEN members \ {p} ELSE members
      BY <1>4, <1>14
    <3> QED BY <1>0, <1>2, <1>11, <1>15, <3>1 DEF TypeOK
  <2>4. exec = [exec' EXCEPT ![c] =
                  IF c \notin known THEN [q \in Probes |-> NewCheckExecState]
                  ELSE [@ EXCEPT ![p] = IF p \notin assigned[c]
                                          THEN NewCheckExecState
                                          ELSE exec[c][p]]]
    <3>1. CASE c \notin known
      <4>1. exec[c] = [q \in Probes |-> NewCheckExecState]
        BY <1>3, <1>4, <3>1
      <4> QED BY <1>0, <1>2, <1>11, <3>1, <4>1 DEF TypeOK
    <3>2. CASE c \in known
      <4>1. exec[c] = [checks EXCEPT ![p] = IF p \notin assigned[c]
                                              THEN NewCheckExecState
                                              ELSE exec[c][p]]
        BY <1>2, <1>3, <1>4, <1>5
      <4> QED BY <1>0, <1>2, <1>11, <1>15, <3>2, <4>1 DEF TypeOK
    <3> QED BY <3>1, <3>2
  <2> QED
    BY <1>13, <2>1, <2>2, <2>3, <2>4 DEF Undone, memory
<1> QED
  BY <1>8, <1>9, <1>10, <1>11, <1>16, <1>17, <1>18

\* The same for one assignment of SweepChecks.
LEMMA SweepStep ==
  ASSUME VotesInv, NEW c \in Checks, NEW p \in Probes, SweepCheck(c, p)
  PROVE  /\ MemoryOK(memory)'
         /\ \A d \in Checks : Promotes(d)
         /\ \E u \in Undos, w \in Writes :
              /\ txn' = [step |-> "apply", todo |-> <<>>, undo |-> <<u>>,
                         writes |-> <<w>>]
              /\ WriteOK(w)
              /\ memory = Undone(memory', u)
<1> DEFINE checks   == [exec[c] EXCEPT ![p] = LoseEvidence(@)]
           current  == Recompute(quorum[c], assigned[c], checks)
           incident == IF status[c] = "active"
                         THEN IncidentEffect(quorum[c], current) ELSE "none"
           undo     == [check |-> c, probe |-> p,
                        createdQuorum |-> FALSE, createdAssignment |-> FALSE,
                        previousCheck |-> exec[c][p],
                        previousQuorum |-> quorum[c]]
           write    == WriteFor(c, p, assigned[c], checks, incident)
<1>0. TypeOK /\ MemoryOK(memory)
  BY DEF VotesInv
<1>1. /\ quorum[c] \in QuorumRecords /\ assigned[c] \in SUBSET Probes
      /\ exec[c] \in [Probes -> ExecStates(Times)]
  BY <1>0 DEF TypeOK
<1>2. /\ c \in known /\ p \in assigned[c]
      /\ \A x \in Probes : EvidenceOK(exec[c][x])
      /\ \A x \in Probes : x \notin assigned[c] => exec[c][x] = NewCheckExecState
  BY <1>0, MemoryFacts DEF SweepCheck
<1>3. /\ checks \in [Probes -> ExecStates(Times)]
      /\ checks[p] = LoseEvidence(exec[c][p])
      /\ \A x \in Probes : x # p => checks[x] = exec[c][x]
  BY <1>1, LoseEvidenceType
<1>4. \A x \in Probes : EvidenceOK(checks[x])
  BY <1>1, <1>2, <1>3, EvidenceFacts
<1>5. /\ current.State = AggregateState(current, assigned[c], checks)
      /\ current.LastStableState # quorum[c].LastStableState =>
           current.LastStableState = quorum[c].State
      /\ IncidentEffect(quorum[c], current) = "open" =>
           2 * ProbesDown(assigned[c], checks) > Cardinality(assigned[c])
      /\ IncidentEffect(quorum[c], current) = "resolve" =>
           2 * ProbesDown(assigned[c], checks) < Cardinality(assigned[c])
  <2> HIDE DEF checks
  <2>1. \A x \in assigned[c] : EvidenceOK(checks[x])
    BY <1>1, <1>4
  <2> QED BY <1>1, <2>1, SweepVotes
<1>6. undo \in Undos
  BY <1>1 DEF Undos
<1>7. write \in Writes
  BY <1>1, <1>3, WriteForType, IncidentEffectType
<1>8. WriteOK(write)
  <2>1. /\ write.state = checks[p] /\ write.incident = incident
        /\ write.probesDown = ProbesDown(assigned[c], checks)
        /\ write.probesTotal = Cardinality(assigned[c])
    BY DEF WriteFor
  <2> HIDE DEF write, checks, current
  <2> QED BY <1>4, <1>5, <2>1 DEF WriteOK
<1>9. /\ known' = known /\ assigned' = assigned
      /\ exec' = [exec EXCEPT ![c] = checks]
      /\ quorum' = [quorum EXCEPT ![c] = current]
      /\ txn' = [step |-> "apply", todo |-> <<>>, undo |-> <<undo>>,
                 writes |-> <<write>>]
  BY DEF SweepCheck
<1>10. undo.check = c /\ undo.probe = p /\ ~undo.createdQuorum
       /\ ~undo.createdAssignment
       /\ undo.previousCheck = exec[c][p] /\ undo.previousQuorum = quorum[c]
  OBVIOUS
<1> HIDE DEF checks, current, incident, undo, write
<1>11. /\ quorum'[c] = current /\ exec'[c] = checks
       /\ \A d \in Checks : d # c => quorum'[d] = quorum[d] /\ exec'[d] = exec[d]
  BY <1>0, <1>9 DEF TypeOK
<1>12. MemoryOK(memory)'
  <2>1. ASSUME NEW x \in Probes, x \notin assigned[c]
        PROVE  checks[x] = NewCheckExecState
    BY <1>2, <1>3, <2>1
  <2>2. ASSUME NEW d \in Checks
        PROVE  /\ quorum'[d].State = AggregateState(quorum'[d], assigned'[d], exec'[d])
               /\ d \notin known' => quorum'[d] = NewCheckQuorumState /\ assigned'[d] = {}
               /\ \A x \in Probes :
                    /\ EvidenceOK(exec'[d][x])
                    /\ x \notin assigned'[d] => exec'[d][x] = NewCheckExecState
    <3>1. CASE d = c
      BY <1>2, <1>4, <1>5, <1>9, <1>11, <2>1, <3>1
    <3>2. CASE d # c
      BY <1>0, <1>9, <1>11, <3>2, MemoryFacts
    <3> QED BY <3>1, <3>2
  <2> QED BY <2>2, MemoryFactsNext
<1>13. \A d \in Checks : Promotes(d)
  BY <1>5, <1>11 DEF Promotes
<1>14. memory = Undone(memory', undo)
  <2>1. quorum = [quorum' EXCEPT ![c] = quorum[c]]
    BY <1>0, <1>9 DEF TypeOK
  <2>2. assigned = [assigned' EXCEPT ![c] = @]
    BY <1>0, <1>9 DEF TypeOK
  <2>3. exec = [exec' EXCEPT ![c] = [@ EXCEPT ![p] = exec[c][p]]]
    <3>1. exec[c] = [checks EXCEPT ![p] = exec[c][p]]
      BY <1>1, <1>3
    <3> QED BY <1>0, <1>9, <1>11, <3>1 DEF TypeOK
  <2> QED
    BY <1>9, <1>10, <2>1, <2>2, <2>3 DEF Undone, memory
<1> QED
  BY <1>6, <1>7, <1>8, <1>9, <1>12, <1>13, <1>14

\* What undoing the last entry does: the Runtime becomes the end of the trail.
LEMMA RollbackStep ==
  ASSUME VotesInv, RollbackObservedResult
  PROVE  /\ Len(trail) \in Nat \ {0} /\ Len(txn.undo) = Len(trail)
         /\ memory' = trail[Len(trail)]
<1>1. /\ TypeOK /\ Len(trail) = Len(txn.undo)
      /\ \A i \in 1..Len(trail) :
           trail[i] = Undone(IF i < Len(trail) THEN trail[i + 1] ELSE memory,
                             txn.undo[i])
  BY DEF VotesInv, TrailInv
<1>2. Len(txn.undo) \in Nat \ {0}
  BY <1>1 DEF RollbackObservedResult, TypeOK
<1>3. trail[Len(trail)] = Undone(memory, txn.undo[Len(txn.undo)])
  BY <1>1, <1>2
<1>4. MemoryBecomes(Undone(memory, txn.undo[Len(txn.undo)]))
  BY DEF RollbackObservedResult
<1>5. memory' = Undone(memory, txn.undo[Len(txn.undo)])
  BY <1>4 DEF MemoryBecomes, Undone, memory
<1> QED
  BY <1>1, <1>2, <1>3, <1>5

\* Every step leaves a Runtime in which the states match the votes.
LEMMA MemoryStep == VotesInv /\ [Next]_vars => MemoryOK(memory)'
<1> SUFFICES ASSUME VotesInv, [Next]_vars PROVE MemoryOK(memory)'
  OBVIOUS
<1>0. TypeOK /\ MemoryOK(memory)
  BY DEF VotesInv
<1>1. AggregateState(NewCheckQuorumState, {}, [p \in Probes |-> NewCheckExecState])
        = "pending"
  BY DEF AggregateState, NewCheckQuorumState
<1>2. NewCheckQuorumState.State = "pending"
  BY DEF NewCheckQuorumState
<1>3. CASE LoadRuntime
  <2>1. ASSUME NEW c \in Checks, NEW p \in Probes
        PROVE  /\ EvidenceOK(RestoredExec(c, p))
               /\ p \notin RestoredMembers(c) => RestoredExec(c, p) = NewCheckExecState
    <3>1. row[c][p] \in ExecStates(Times) /\ EvidenceOK(row[c][p])
      BY <1>0 DEF VotesInv, TypeOK
    <3> QED BY <3>1, EvidenceFacts DEF RestoredExec
  <2>2. ASSUME NEW c \in Checks
        PROVE  RestoredQuorum(c) \in QuorumRecords /\ RestoredMembers(c) \in SUBSET Probes
    BY <1>0, NewStateTypes
       DEF RestoredQuorum, RestoredMembers, QuorumRecords, QuorumStates,
           StableStates, TypeOK
  <2>3. /\ known' = {c \in Checks : status[c] = "active"}
        /\ \A c \in Checks :
             /\ assigned'[c] = RestoredMembers(c)
             /\ \A p \in Probes : exec'[c][p] = RestoredExec(c, p)
             /\ exec'[c] = [p \in Probes |-> RestoredExec(c, p)]
             /\ quorum'[c] = IF status[c] = "active"
                  THEN Recompute(RestoredQuorum(c), assigned'[c], exec'[c])
                  ELSE NewCheckQuorumState
    BY <1>3 DEF LoadRuntime
  <2>4. ASSUME NEW c \in Checks, status[c] # "active"
        PROVE  /\ assigned'[c] = {} /\ quorum'[c] = NewCheckQuorumState
               /\ exec'[c] = [p \in Probes |-> NewCheckExecState]
    <3>1. RestoredMembers(c) = {}
      BY <2>4 DEF RestoredMembers
    <3>2. \A p \in Probes : RestoredExec(c, p) = NewCheckExecState
      BY <3>1 DEF RestoredExec
    <3> QED BY <2>3, <2>4, <3>1, <3>2
  <2>5. ASSUME NEW c \in Checks
        PROVE  quorum'[c].State = AggregateState(quorum'[c], assigned'[c], exec'[c])
    <3>1. CASE status[c] = "active"
      <4>1. /\ quorum'[c] = Recompute(RestoredQuorum(c), assigned'[c], exec'[c])
            /\ assigned'[c] \in SUBSET Probes
        BY <2>2, <2>3, <3>1
      <4> QED BY <2>2, <4>1, RecomputeSettles
    <3>2. CASE status[c] # "active"
      BY <1>1, <1>2, <2>4, <3>2
    <3> QED BY <3>1, <3>2
  <2>6. ASSUME NEW c \in Checks, c \notin known'
        PROVE  quorum'[c] = NewCheckQuorumState /\ assigned'[c] = {}
    <3>1. status[c] # "active"
      BY <2>3, <2>6
    <3> QED BY <2>4, <3>1
  <2>7. ASSUME NEW c \in Checks, NEW p \in Probes
        PROVE  /\ EvidenceOK(exec'[c][p])
               /\ p \notin assigned'[c] => exec'[c][p] = NewCheckExecState
    <3>1. exec'[c][p] = RestoredExec(c, p) /\ assigned'[c] = RestoredMembers(c)
      BY <2>3
    <3> QED BY <2>1, <3>1
  <2> QED BY <2>5, <2>6, <2>7, MemoryFactsNext
<1>4. CASE Crash
  <2>1. /\ \A c \in Checks : /\ quorum'[c] = NewCheckQuorumState /\ assigned'[c] = {}
                             /\ exec'[c] = [p \in Probes |-> NewCheckExecState]
    BY <1>4 DEF Crash, EmptyQuorums, EmptyExec
  <2> QED BY <1>1, <1>2, <2>1, EvidenceFacts, MemoryFactsNext
<1>5. ASSUME NEW c \in Checks, EnsureCheck(c) PROVE MemoryOK(memory)'
  BY <1>0, <1>5, MemoryFacts, MemoryFactsNext DEF EnsureCheck
<1>6. ASSUME NEW c \in Checks, RemoveCheck(c) PROVE MemoryOK(memory)'
  <2>1. /\ known' = known \ {c}
        /\ quorum'[c] = NewCheckQuorumState /\ assigned'[c] = {}
        /\ exec'[c] = [p \in Probes |-> NewCheckExecState]
        /\ \A d \in Checks : d # c => /\ quorum'[d] = quorum[d]
                                      /\ assigned'[d] = assigned[d]
                                      /\ exec'[d] = exec[d]
    BY <1>0, <1>6 DEF RemoveCheck, TypeOK
  <2>2. ASSUME NEW d \in Checks
        PROVE  /\ quorum'[d].State = AggregateState(quorum'[d], assigned'[d], exec'[d])
               /\ d \notin known' => quorum'[d] = NewCheckQuorumState /\ assigned'[d] = {}
               /\ \A x \in Probes :
                    /\ EvidenceOK(exec'[d][x])
                    /\ x \notin assigned'[d] => exec'[d][x] = NewCheckExecState
    <3>1. CASE d = c
      BY <1>1, <1>2, <2>1, <3>1, EvidenceFacts
    <3>2. CASE d # c
      BY <1>0, <2>1, <3>2, MemoryFacts
    <3> QED BY <3>1, <3>2
  <2> QED BY <2>2, MemoryFactsNext
<1>7. ASSUME NEW p \in Probes, SweepProbe(p) PROVE MemoryOK(memory)'
  <2>1. /\ known' = known /\ assigned' = assigned
        /\ \A c \in Checks : p \notin assigned[c] =>
             exec'[c] = exec[c] /\ quorum'[c] = quorum[c]
        /\ \A c \in Checks : p \in assigned[c] =>
             /\ exec'[c] = [exec[c] EXCEPT ![p] = LoseEvidence(@)]
             /\ quorum'[c] = Recompute(quorum[c], assigned[c], exec'[c])
    BY <1>7 DEF SweepProbe, DegradedExec, DegradedQuorum
  <2>2. ASSUME NEW d \in Checks
        PROVE  /\ quorum'[d].State = AggregateState(quorum'[d], assigned'[d], exec'[d])
               /\ d \notin known' => quorum'[d] = NewCheckQuorumState /\ assigned'[d] = {}
               /\ \A x \in Probes :
                    /\ EvidenceOK(exec'[d][x])
                    /\ x \notin assigned'[d] => exec'[d][x] = NewCheckExecState
    <3>1. CASE p \notin assigned[d]
      BY <1>0, <2>1, <3>1, MemoryFacts
    <3>2. CASE p \in assigned[d]
      <4>1. /\ quorum[d] \in QuorumRecords /\ assigned[d] \in SUBSET Probes
            /\ exec[d] \in [Probes -> ExecStates(Times)]
        BY <1>0 DEF TypeOK
      <4>2. quorum'[d].State = AggregateState(quorum'[d], assigned'[d], exec'[d])
        <5>1. /\ quorum'[d] = Recompute(quorum[d], assigned[d], exec'[d])
              /\ assigned'[d] = assigned[d]
          BY <2>1, <3>2
        <5> QED BY <4>1, <5>1, RecomputeSettles
      <4>3. /\ exec'[d][p] = LoseEvidence(exec[d][p])
            /\ \A x \in Probes : x # p => exec'[d][x] = exec[d][x]
        BY <2>1, <3>2, <4>1
      <4>4. d \in known
        BY <1>0, <3>2, MemoryFacts
      <4> QED BY <1>0, <2>1, <3>2, <4>1, <4>2, <4>3, <4>4, EvidenceFacts, MemoryFacts
    <3> QED BY <3>1, <3>2
  <2> QED BY <2>2, MemoryFactsNext
<1>8. CASE Tick
  <2>1. /\ known' = known /\ assigned' = assigned /\ quorum' = quorum
        /\ \A c \in Checks, p \in Probes :
             exec'[c][p] = [exec[c][p] EXCEPT !.ExpiresAt = Aged(@)]
    BY <1>8 DEF Tick, AgedExec
  <2>2. ASSUME NEW c \in Checks, NEW p \in Probes
        PROVE  /\ exec'[c][p].LastOutcome = exec[c][p].LastOutcome
               /\ exec'[c][p].StreakLen = exec[c][p].StreakLen
               /\ exec'[c][p].LastResultAt = exec[c][p].LastResultAt
               /\ EvidenceOK(exec'[c][p])
               /\ exec[c][p] = NewCheckExecState => exec'[c][p] = NewCheckExecState
    <3>1. exec[c][p] \in ExecStates(Times) /\ EvidenceOK(exec[c][p])
      BY <1>0, MemoryFacts DEF TypeOK
    <3>2. EvidenceOK(exec'[c][p])
      BY <2>1, <3>1, EvidenceFacts
    <3>3. exec[c][p] = NewCheckExecState => exec'[c][p] = NewCheckExecState
      BY <2>1, <3>1 DEF NewCheckExecState, Aged, NoTime, ExecStates
    <3> QED BY <2>1, <3>1, <3>2, <3>3, ZenonT(60) DEF ExecStates
  <2>3. ASSUME NEW c \in Checks
        PROVE  AggregateState(quorum[c], assigned[c], exec[c])
                 = AggregateState(quorum[c], assigned[c], exec'[c])
    <3>1. assigned[c] \in SUBSET Probes
      BY <1>0 DEF TypeOK
    <3>2. \A p \in assigned[c] :
            /\ (ContributesUp(exec[c][p], quorum[c])
                 <=> ContributesUp(exec'[c][p], quorum[c]))
            /\ (ContributesDown(exec[c][p]) <=> ContributesDown(exec'[c][p]))
      BY <2>2, <3>1 DEF ContributesUp, ContributesDown
    <3> QED BY <3>1, <3>2, SameVotesSameState
  <2> QED BY <1>0, <2>1, <2>2, <2>3, MemoryFacts, MemoryFactsNext
<1>9. CASE ApplyObservedResult
  BY <1>9, ApplyStep
<1>10. ASSUME NEW c \in Checks, NEW p \in Probes, SweepCheck(c, p)
       PROVE  MemoryOK(memory)'
  BY <1>10, SweepStep
<1>11. CASE RollbackObservedResult
  <2>1. Len(trail) \in 1..Len(trail) /\ memory' = trail[Len(trail)]
    BY <1>11, RollbackStep
  <2>2. MemoryOK(memory')
    BY <2>1 DEF VotesInv
  <2> QED BY <2>2 DEF MemoryOK, CheckOK
<1>12. ASSUME ~LoadRuntime, ~Crash, \A c \in Checks : ~EnsureCheck(c),
              \A c \in Checks : ~RemoveCheck(c), \A p \in Probes : ~SweepProbe(p),
              ~Tick, ~ApplyObservedResult,
              \A c \in Checks, p \in Probes : ~SweepCheck(c, p),
              ~RollbackObservedResult
       PROVE  MemoryOK(memory)'
  <2>1. UNCHANGED <<known, quorum, assigned, exec>>
    BY <1>12
       DEF Next, CheckNext, ProbeNext, BatchNext, vars, memory, Serve, SeedCheck,
           CreateCheck, DeleteCheck, CreateProbeCredential, RegisterProbe,
           AddProbe, Heartbeat, NormalizeBatch, LockBatch,
           PersistMonitoringBatch, ReturnError
  <2> QED BY <1>0, <2>1, MemoryFacts, MemoryFactsNext
<1> QED
  BY <1>3, <1>4, <1>5, <1>6, <1>7, <1>8, <1>9, <1>10, <1>11, <1>12

\* The steps that neither begin, extend, undo nor end a transaction.
LEMMA QuietSteps ==
  ASSUME [Next]_vars, ~Crash, \A items \in requests : ~LockBatch(items),
         ~ApplyObservedResult,
         \A c \in Checks, p \in Probes : ~SweepCheck(c, p),
         \A result \in CommitResults : ~PersistMonitoringBatch(result),
         ~RollbackObservedResult, ~ReturnError
  PROVE  /\ UNCHANGED <<txn, before, trail>>
         /\ UNCHANGED <<known, quorum, assigned, exec>> \/ txn.step = "idle"
                                                      \/ phase = "stopped"
         /\ phase' = "stopped" => phase = "stopped"
         /\ \/ requests' = requests
            \/ phase = "serving"
            \/ requests' = {AgedItems(items) : items \in requests}
BY DEF Next, CheckNext, ProbeNext, BatchNext, vars, memory, handlers, history,
       LoadRuntime, Serve, SeedCheck, CreateCheck, EnsureCheck, DeleteCheck,
       RemoveCheck, CreateProbeCredential, RegisterProbe, AddProbe, Heartbeat,
       SweepProbe, NormalizeBatch, Tick

\* Every step keeps the undo log a way back to the Runtime of before.
LEMMA TrailStep == VotesInv /\ [Next]_vars => TrailInv'
<1> SUFFICES ASSUME VotesInv, [Next]_vars PROVE TrailInv'
  OBVIOUS
<1>0. /\ TypeOK /\ TrailInv
      /\ trail \in Seq(Memories) /\ Len(trail) \in Nat
      /\ txn.undo \in Seq(Undos) /\ txn.writes \in Seq(Writes)
  BY DEF VotesInv, TypeOK
<1>1. Idle.step = "idle" /\ Idle.undo = <<>> /\ Len(Idle.undo) = 0
  BY DEF Idle
<1>2. txn.step = "idle" => Len(trail) = 0 /\ trail = <<>>
  BY <1>0, <1>1 DEF TrailInv
<1>3. CASE Crash
  BY <1>1, <1>3 DEF Crash, TrailInv
<1>4. ASSUME NEW items \in requests, LockBatch(items) PROVE TrailInv'
  <2>1. /\ txn'.step = "apply" /\ txn'.undo = <<>> /\ trail' = trail
        /\ before' = memory /\ memory' = memory /\ phase' = phase
    BY <1>4 DEF LockBatch, memory
  <2>2. txn.step = "idle" /\ phase # "stopped"
    BY <1>0, <1>4 DEF LockBatch, TrailInv
  <2> QED BY <1>2, <2>1, <2>2 DEF TrailInv
<1>5. CASE ApplyObservedResult
  <2>1. PICK u \in Undos :
          /\ txn'.undo = Append(txn.undo, u) /\ txn'.step = txn.step
          /\ memory = Undone(memory', u)
    BY <1>0, <1>5, ApplyStep, ZenonT(60) DEF TypeOK
  <2>2. /\ trail' = Append(trail, memory) /\ before' = before /\ phase' = phase
        /\ requests' = requests /\ txn.step = "apply"
    BY <1>5 DEF ApplyObservedResult, handlers
  <2>3. memory \in Memories
    BY <1>0, MemoryType
  <2>4. /\ Len(trail') = Len(trail) + 1
        /\ \A i \in 1..Len(trail) : trail'[i] = trail[i]
        /\ trail'[Len(trail) + 1] = memory
    BY <1>0, <2>2, <2>3, AppendFacts
  <2>5. /\ Len(txn'.undo) = Len(txn.undo) + 1
        /\ \A i \in 1..Len(txn.undo) : txn'.undo[i] = txn.undo[i]
        /\ txn'.undo[Len(txn.undo) + 1] = u
    BY <1>0, <2>1, AppendFacts
  <2>6. ASSUME NEW i \in 1..Len(trail')
        PROVE  trail'[i] = Undone(IF i < Len(trail') THEN trail'[i + 1] ELSE memory',
                                  txn'.undo[i])
    <3>1. CASE i = Len(trail) + 1
      <4>1. ~(i < Len(trail'))
        BY <1>0, <2>4, <3>1
      <4> QED BY <1>0, <2>1, <2>4, <2>5, <3>1, <4>1 DEF TrailInv
    <3>2. CASE i = Len(trail) /\ i # Len(trail) + 1
      <4>1. i \in 1..Len(trail) /\ ~(i < Len(trail)) /\ i < Len(trail')
        BY <1>0, <2>4, <3>2
      <4>2. trail[i] = Undone(memory, txn.undo[i]) /\ i \in 1..Len(txn.undo)
        BY <1>0, <4>1 DEF TrailInv
      <4> QED BY <2>4, <2>5, <3>2, <4>1, <4>2
    <3>3. CASE i < Len(trail)
      <4>1. i \in 1..Len(trail) /\ i + 1 \in 1..Len(trail) /\ i < Len(trail')
        BY <1>0, <2>4, <3>3
      <4>2. trail[i] = Undone(trail[i + 1], txn.undo[i]) /\ i \in 1..Len(txn.undo)
        BY <1>0, <3>3, <4>1 DEF TrailInv
      <4> QED BY <2>4, <2>5, <4>1, <4>2
    <3> QED BY <1>0, <2>4, <3>1, <3>2, <3>3
  <2>7. trail' # <<>> /\ trail'[1] = before'
    <3>1. CASE trail = <<>>
      BY <1>0, <2>2, <2>4, <3>1 DEF TrailInv
    <3>2. CASE trail # <<>>
      <4>1. 1 \in 1..Len(trail) /\ trail[1] = before
        BY <1>0, <2>2, <3>2 DEF TrailInv
      <4> QED BY <2>2, <2>4, <4>1
    <3> QED BY <3>1, <3>2
  <2>8. /\ phase' # "stopped" /\ txn'.step = "apply"
    BY <1>0, <2>1, <2>2 DEF TrailInv
  <2>9. Len(trail') = Len(txn'.undo)
    BY <1>0, <2>4, <2>5 DEF TrailInv
  <2> QED BY <2>6, <2>7, <2>8, <2>9 DEF TrailInv
<1>6. ASSUME NEW c \in Checks, NEW p \in Probes, SweepCheck(c, p) PROVE TrailInv'
  <2>1. PICK u \in Undos :
          /\ txn'.undo = <<u>> /\ txn'.step = "apply"
          /\ memory = Undone(memory', u)
    BY <1>6, SweepStep
  <2>2. trail' = <<memory>> /\ before' = memory /\ phase' = "serving"
    BY <1>6 DEF SweepCheck
  <2> QED BY <2>1, <2>2 DEF TrailInv
<1>7. ASSUME NEW result \in CommitResults, PersistMonitoringBatch(result)
      PROVE  TrailInv'
  <2>1. txn.step = "apply" /\ memory' = memory /\ phase' = phase /\ requests' = requests
    BY <1>7 DEF PersistMonitoringBatch, memory, handlers
  <2>2. CASE result = "ok"
    <3>1. txn' = Idle /\ trail' = <<>> /\ phase' # "stopped"
      BY <1>0, <1>7, <2>1, <2>2 DEF PersistMonitoringBatch, TrailInv
    <3> QED BY <1>1, <3>1 DEF TrailInv
  <2>3. CASE result # "ok"
    <3>1. /\ txn'.undo = txn.undo /\ txn'.step = "rollback"
          /\ before' = before /\ trail' = trail
      BY <1>0, <1>7, <2>3 DEF PersistMonitoringBatch, TypeOK
    <3> QED BY <1>0, <2>1, <3>1 DEF TrailInv
  <2> QED BY <2>2, <2>3
<1>8. CASE RollbackObservedResult
  <2> DEFINE n == Len(trail)
  <2>1. n \in Nat \ {0} /\ Len(txn.undo) = n /\ memory' = trail[n]
    BY <1>8, RollbackStep
  <2>2. /\ txn.step = "rollback" /\ before' = before
        /\ phase' = phase /\ requests' = requests
        /\ trail' = SubSeq(trail, 1, Len(trail) - 1)
        /\ txn'.undo = SubSeq(txn.undo, 1, Len(txn.undo) - 1)
        /\ txn'.step = "rollback"
    BY <1>0, <1>8 DEF RollbackObservedResult, handlers, TypeOK
  <2>3. trail # <<>> /\ txn.undo # <<>>
    BY <1>0, <2>1
  <2>4. Len(trail') = n - 1 /\ \A i \in 1..(n - 1) : trail'[i] = trail[i]
    <3>1. PICK t : t = SubSeq(trail, 1, Len(trail) - 1)
      OBVIOUS
    <3>0. trail \in Seq(Memories)
      BY <1>0
    <3>2. Len(t) = Len(trail) - 1 /\ \A i \in 1..(Len(trail) - 1) : t[i] = trail[i]
      BY <2>3, <3>0, <3>1, FrontFacts, ZenonT(60)
    <3> QED BY <2>2, <3>1, <3>2
  <2>5. Len(txn'.undo) = n - 1 /\ \A i \in 1..(n - 1) : txn'.undo[i] = txn.undo[i]
    <3>1. PICK t : t = SubSeq(txn.undo, 1, Len(txn.undo) - 1)
      OBVIOUS
    <3>2. /\ Len(t) = Len(txn.undo) - 1
          /\ \A i \in 1..(Len(txn.undo) - 1) : t[i] = txn.undo[i]
      BY <1>0, <2>3, <3>1, FrontFacts
    <3> QED BY <2>1, <2>2, <3>1, <3>2
  <2>6. trail[1] = before /\ phase # "stopped"
    BY <1>0, <2>2, <2>3 DEF TrailInv
  <2> HIDE DEF n
  <2>7. ASSUME NEW i \in 1..Len(trail')
        PROVE  trail'[i] = Undone(IF i < Len(trail') THEN trail'[i + 1] ELSE memory',
                                  txn'.undo[i])
    <3>1. i \in 1..(n - 1) /\ i \in 1..n /\ i < n
      BY <2>1, <2>4
    <3>2. trail[i] = Undone(trail[i + 1], txn.undo[i])
      BY <1>0, <3>1 DEF TrailInv, n
    <3>3. trail[i + 1] = IF i < Len(trail') THEN trail'[i + 1] ELSE memory'
      <4>1. CASE i < n - 1
        <5>1. i + 1 \in 1..(n - 1) /\ i < Len(trail')
          BY <2>1, <2>4, <3>1, <4>1
        <5> QED BY <2>4, <5>1
      <4>2. CASE ~(i < n - 1)
        <5>1. i + 1 = n /\ ~(i < Len(trail'))
          BY <2>1, <2>4, <3>1, <4>2
        <5> QED BY <2>1, <5>1
      <4> QED BY <4>1, <4>2
    <3> QED BY <2>4, <2>5, <3>1, <3>2, <3>3
  <2>8. IF trail' = <<>> THEN memory' = before' ELSE trail'[1] = before'
    <3>1. CASE n = 1
      <4>1. memory' = before' /\ Len(trail') = 0
        BY <2>1, <2>2, <2>4, <2>6, <3>1
      <4>2. trail' = <<>>
        <5>1. trail' \in Seq(Memories)
          BY <1>0, <2>2, <2>3, FrontFacts
        <5> QED BY <4>1, <5>1
      <4> QED BY <4>1, <4>2
    <3>2. CASE n # 1
      <4>1. 1 \in 1..(n - 1) /\ Len(trail') # 0
        BY <2>1, <2>4, <3>2
      <4>2. trail' # <<>>
        BY <4>1
      <4> QED BY <2>2, <2>4, <2>6, <4>1, <4>2
    <3> QED BY <3>1, <3>2
  <2> QED BY <2>2, <2>4, <2>5, <2>6, <2>7, <2>8 DEF TrailInv
<1>9. CASE ReturnError
  <2>1. txn' = Idle /\ trail' = <<>> /\ phase' = phase /\ txn.step = "rollback"
    BY <1>9 DEF ReturnError
  <2>2. phase' # "stopped"
    BY <1>0, <2>1 DEF TrailInv
  <2> QED BY <1>1, <2>1, <2>2 DEF TrailInv
<1>10. ASSUME ~Crash, \A items \in requests : ~LockBatch(items),
              ~ApplyObservedResult,
              \A c \in Checks, p \in Probes : ~SweepCheck(c, p),
              \A result \in CommitResults : ~PersistMonitoringBatch(result),
              ~RollbackObservedResult, ~ReturnError
       PROVE  TrailInv'
  <2>1. /\ UNCHANGED <<txn, before, trail>>
        /\ UNCHANGED <<known, quorum, assigned, exec>> \/ txn.step = "idle"
                                                     \/ phase = "stopped"
        /\ phase' = "stopped" => phase = "stopped"
        /\ \/ requests' = requests
           \/ phase = "serving"
           \/ requests' = {AgedItems(items) : items \in requests}
    BY <1>10, QuietSteps
  <2>2. memory' = memory \/ txn.step = "idle"
    BY <1>0, <2>1 DEF TrailInv, memory
  <2>3. phase' = "stopped" => txn'.step = "idle" /\ requests' = {}
    BY <1>0, <2>1 DEF TrailInv
  <2>4. CASE txn.step = "idle"
    BY <1>0, <1>2, <2>1, <2>3, <2>4 DEF TrailInv
  <2>5. CASE memory' = memory
    BY <1>0, <2>1, <2>3, <2>5 DEF TrailInv
  <2> QED BY <2>2, <2>4, <2>5
<1> QED
  BY <1>3, <1>4, <1>5, <1>6, <1>7, <1>8, <1>9, <1>10
     DEF Next, CheckNext, BatchNext

\* The Runtimes of the trail and the writes of the transaction
LogsOK ==
  /\ \A i \in 1..Len(trail) : MemoryOK(trail[i])
  /\ \A i \in 1..Len(txn.writes) : WriteOK(txn.writes[i])

\* They are part of the invariant.
LEMMA LogsFacts == VotesInv => LogsOK
BY DEF VotesInv, LogsOK, WriteOK, AlertsNeedMajority

\* Every step records Runtimes whose states match their votes, and writes with
\* counts that justify them.
LEMMA LogsStep == VotesInv /\ [Next]_vars => LogsOK'
<1> SUFFICES ASSUME VotesInv, [Next]_vars PROVE LogsOK'
  OBVIOUS
<1>0. /\ TypeOK /\ LogsOK /\ MemoryOK(memory)
      /\ trail \in Seq(Memories) /\ txn.writes \in Seq(Writes)
  BY LogsFacts DEF VotesInv, TypeOK
<1>1. Len(Idle.writes) = 0 /\ Len(<<>>) = 0
  BY DEF Idle
<1>2. ASSUME trail' = <<>> \/ trail' = trail, txn' = Idle \/ txn'.writes = txn.writes
      PROVE  LogsOK'
  BY <1>0, <1>1, <1>2 DEF LogsOK, MemoryOK, CheckOK
<1>3. CASE Crash
  BY <1>2, <1>3 DEF Crash
<1>4. ASSUME NEW items \in requests, LockBatch(items) PROVE LogsOK'
  <2>1. trail' = trail /\ Len(txn'.writes) = 0
    BY <1>4 DEF LockBatch
  <2> QED BY <1>0, <2>1 DEF LogsOK, MemoryOK, CheckOK
<1>5. CASE ApplyObservedResult
  <2>1. PICK w \in Writes : txn'.writes = Append(txn.writes, w) /\ WriteOK(w)
    BY <1>0, <1>5, ApplyStep, ZenonT(60) DEF TypeOK
  <2>2. trail' = Append(trail, memory) /\ memory \in Memories
    BY <1>0, <1>5, MemoryType DEF ApplyObservedResult
  <2>3. ASSUME NEW i \in 1..Len(trail') PROVE MemoryOK(trail'[i])
    <3>1. /\ Len(trail') = Len(trail) + 1 /\ Len(trail) \in Nat
          /\ \A j \in 1..Len(trail) : trail'[j] = trail[j]
          /\ trail'[Len(trail) + 1] = memory
      BY <1>0, <2>2, AppendFacts
    <3> QED BY <1>0, <3>1 DEF LogsOK
  <2>4. ASSUME NEW i \in 1..Len(txn'.writes) PROVE WriteOK(txn'.writes[i])
    <3>1. /\ Len(txn'.writes) = Len(txn.writes) + 1 /\ Len(txn.writes) \in Nat
          /\ \A j \in 1..Len(txn.writes) : txn'.writes[j] = txn.writes[j]
          /\ txn'.writes[Len(txn.writes) + 1] = w
      BY <1>0, <2>1, AppendFacts
    <3> QED BY <1>0, <2>1, <3>1 DEF LogsOK
  <2> QED BY <2>3, <2>4 DEF LogsOK, MemoryOK, CheckOK
<1>6. ASSUME NEW c \in Checks, NEW p \in Probes, SweepCheck(c, p) PROVE LogsOK'
  <2>1. PICK w \in Writes : txn'.writes = <<w>> /\ WriteOK(w)
    BY <1>6, SweepStep
  <2>2. trail' = <<memory>>
    BY <1>6 DEF SweepCheck
  <2>3. \A i \in 1..Len(trail') : MemoryOK(trail'[i])
    BY <1>0, <2>2
  <2>4. \A i \in 1..Len(txn'.writes) : WriteOK(txn'.writes[i])
    BY <2>1
  <2> QED BY <2>3, <2>4 DEF LogsOK, MemoryOK, CheckOK
<1>7. ASSUME NEW result \in CommitResults, PersistMonitoringBatch(result)
      PROVE  LogsOK'
  <2>1. /\ trail' = <<>> \/ trail' = trail
        /\ txn' = Idle \/ txn'.writes = txn.writes
    BY <1>0, <1>7 DEF PersistMonitoringBatch, TypeOK
  <2> QED BY <1>2, <2>1
<1>8. CASE RollbackObservedResult
  <2>1. Len(trail) \in Nat \ {0}
    BY <1>8, RollbackStep
  <2>2. trail \in Seq(Memories) /\ trail # <<>>
    BY <1>0, <2>1
  <2>3. /\ trail' = SubSeq(trail, 1, Len(trail) - 1)
        /\ txn'.writes = txn.writes
    BY <1>0, <1>8 DEF RollbackObservedResult, TypeOK
  <2>4. Len(trail') = Len(trail) - 1 /\ \A i \in 1..(Len(trail) - 1) : trail'[i] = trail[i]
    <3>1. PICK t : t = SubSeq(trail, 1, Len(trail) - 1)
      OBVIOUS
    <3>2. Len(t) = Len(trail) - 1 /\ \A i \in 1..(Len(trail) - 1) : t[i] = trail[i]
      BY <2>2, <3>1, FrontFacts, ZenonT(60)
    <3> QED BY <2>3, <3>1, <3>2
  <2>5. \A i \in 1..Len(trail') : MemoryOK(trail'[i])
    BY <1>0, <2>1, <2>4 DEF LogsOK
  <2> QED BY <1>0, <2>3, <2>5 DEF LogsOK, MemoryOK, CheckOK
<1>9. CASE ReturnError
  BY <1>2, <1>9 DEF ReturnError
<1>10. ASSUME ~Crash, \A items \in requests : ~LockBatch(items),
              ~ApplyObservedResult,
              \A c \in Checks, p \in Probes : ~SweepCheck(c, p),
              \A result \in CommitResults : ~PersistMonitoringBatch(result),
              ~RollbackObservedResult, ~ReturnError
       PROVE  LogsOK'
  <2>1. UNCHANGED <<txn, trail>>
    BY <1>10, QuietSteps
  <2> QED BY <1>2, <2>1
<1> QED
  BY <1>3, <1>4, <1>5, <1>6, <1>7, <1>8, <1>9, <1>10
     DEF Next, CheckNext, BatchNext

\* Every step leaves rows in which State is the vote.
LEMMA RowStep ==
  VotesInv /\ [Next]_vars => (\A c \in Checks, p \in Probes : EvidenceOK(row[c][p]))'
<1> SUFFICES ASSUME VotesInv, [Next]_vars, NEW c \in Checks, NEW p \in Probes
             PROVE  EvidenceOK(row'[c][p])
  OBVIOUS
<1>0. /\ TypeOK /\ EvidenceOK(row[c][p]) /\ row[c][p] \in ExecStates(Times)
      /\ \A i \in 1..Len(txn.writes) : EvidenceOK(txn.writes[i].state)
  BY DEF VotesInv, TypeOK
<1>1. ASSUME NEW d \in Checks, DeleteCheck(d) PROVE EvidenceOK(row'[c][p])
  <2>1. row'[c] = row[c] \/ row'[c] = [x \in Probes |-> NoRow]
    BY <1>0, <1>1 DEF DeleteCheck, TypeOK
  <2> QED BY <1>0, <2>1, EvidenceFacts DEF NoRow
<1>2. CASE Tick
  <2>1. row'[c][p] = [row[c][p] EXCEPT !.ExpiresAt = Aged(@)]
    BY <1>2 DEF Tick, AgedExec
  <2> QED BY <1>0, <2>1, EvidenceFacts
<1>3. ASSUME NEW result \in CommitResults, PersistMonitoringBatch(result)
      PROVE  EvidenceOK(row'[c][p])
  <2>1. row'[c][p] = row[c][p] \/ row'[c][p] = RowAfter(txn.writes, c, p)
    BY <1>3 DEF PersistMonitoringBatch
  <2> DEFINE I == {i \in 1..Len(txn.writes) :
                     txn.writes[i].check = c /\ txn.writes[i].probe = p}
  <2>2. CASE I = {}
    BY <1>0, <2>1, <2>2 DEF RowAfter
  <2>3. CASE I # {}
    <3>1. Len(txn.writes) \in Nat
      BY <1>0 DEF TypeOK
    <3>2. LastIndex(I) \in 1..Len(txn.writes)
      BY <2>3, <3>1, LastIndexIn
    <3>3. /\ txn.writes[LastIndex(I)] \in Writes
          /\ EvidenceOK(txn.writes[LastIndex(I)].state)
      <4> HIDE DEF I
      <4> QED BY <1>0, <3>2 DEF TypeOK
    <3>4. txn.writes[LastIndex(I)].state \in ExecStates(Times)
      BY <3>3 DEF Writes
    <3>5. EvidenceOK(StoredState(txn.writes[LastIndex(I)].state))
      BY <3>3, <3>4, EvidenceFacts, SMTT(60)
    <3> QED BY <1>0, <2>1, <2>3, <3>5 DEF RowAfter
  <2> QED BY <2>2, <2>3
<1>4. ASSUME \A d \in Checks : ~DeleteCheck(d), ~Tick,
             \A result \in CommitResults : ~PersistMonitoringBatch(result)
      PROVE  row' = row
  BY <1>4, ZenonT(60)
     DEF Next, CheckNext, ProbeNext, BatchNext, vars, tables, LoadRuntime, Serve,
         Crash, SeedCheck, CreateCheck, EnsureCheck, RemoveCheck, SweepCheck,
         CreateProbeCredential, RegisterProbe, AddProbe, Heartbeat, SweepProbe,
         NormalizeBatch, LockBatch, ApplyObservedResult, RollbackObservedResult,
         ReturnError
<1> QED
  BY <1>0, <1>1, <1>2, <1>3, <1>4

\* The initial state has no votes, no transaction and no rows.
LEMMA VotesInit == Init => VotesInv
<1> SUFFICES ASSUME Init PROVE VotesInv
  OBVIOUS
<1>1. TypeOK
  BY InitType
<1>2. TrailInv
  BY DEF Init, TrailInv, Idle
<1>3. AlertsNeedMajority /\ Len(trail) = 0 /\ Len(txn.writes) = 0
  BY DEF Init, AlertsNeedMajority, Idle
<1>4. MemoryOK(memory)
  <2>1. \A c \in Checks : /\ quorum[c] = NewCheckQuorumState /\ assigned[c] = {}
                          /\ \A p \in Probes : exec[c][p] = NewCheckExecState
    BY DEF Init, EmptyQuorums, EmptyExec
  <2>2. \A e : NewCheckQuorumState.State = AggregateState(NewCheckQuorumState, {}, e)
    BY DEF AggregateState, NewCheckQuorumState
  <2> QED BY <2>1, <2>2, EvidenceFacts, MemoryFacts
<1>5. \A c \in Checks, p \in Probes : EvidenceOK(row[c][p])
  BY EvidenceFacts DEF Init, EmptyExec
<1> QED
  BY <1>1, <1>2, <1>3, <1>4, <1>5 DEF VotesInv

\* Every step keeps VotesInv.
LEMMA VotesStep == VotesInv /\ [Next]_vars => VotesInv'
<1> SUFFICES ASSUME VotesInv, [Next]_vars PROVE VotesInv'
  OBVIOUS
<1>1. TypeOK'
  BY NextType DEF VotesInv
<1>2. TrailInv' /\ MemoryOK(memory)' /\ LogsOK'
  BY TrailStep, MemoryStep, LogsStep
<1>3. (\A c \in Checks, p \in Probes : EvidenceOK(row[c][p]))'
  BY RowStep
<1>4. /\ AlertsNeedMajority'
      /\ \A i \in 1..Len(txn'.writes) : EvidenceOK(txn'.writes[i].state)
      /\ (\A i \in 1..Len(trail) : MemoryOK(trail[i]))'
  BY <1>2 DEF LogsOK, WriteOK, AlertsNeedMajority
<1> QED
  BY <1>1, <1>2, <1>3, <1>4 DEF VotesInv

\* The undo log leads back, and every state in memory, on the way back and in
\* the tables is the one its evidence gives (applyObservedResultLocked,
\* rollbackObservedResultsLocked, SweepChecks, SweepProbes).
THEOREM VotesInvariant == Spec => []VotesInv
BY VotesInit, VotesStep, PTL DEF Spec

\* The state that is shown for a check is the one its votes give, for any
\* number of probes (Recompute).
THEOREM StatesMatchVotes == Spec => []StateMatchesVotes
<1>1. VotesInv => StateMatchesVotes
  BY MemoryFacts DEF VotesInv, StateMatchesVotes
<1> QED
  BY <1>1, VotesInvariant, PTL

\* Every alert carries counts that justify it, for any number of probes
\* (monitoringWriteForCheckEvent, quorumCounts).
THEOREM AlertsHaveMajority == Spec => []AlertsNeedMajority
<1>1. VotesInv => AlertsNeedMajority
  BY DEF VotesInv
<1> QED
  BY <1>1, VotesInvariant, PTL

\* A failed write leaves the Runtime as it was, for batches of any length
\* (rollbackObservedResultsLocked).
THEOREM RollbacksRestore == Spec => RollbackRestores
<1>1. VotesInv /\ [Next]_vars =>
        [txn.step = "rollback" /\ txn'.step = "idle" /\ phase' = phase
           => memory' = before]_vars
  <2> SUFFICES ASSUME VotesInv, Next, txn.step = "rollback", txn'.step = "idle",
                      phase' = phase
               PROVE  memory' = before
    OBVIOUS
  <2>1. CASE ReturnError
    <3>1. memory' = memory /\ txn.undo = <<>>
      BY <2>1 DEF ReturnError, memory
    <3>2. TrailInv /\ trail \in Seq(Memories)
      BY DEF VotesInv, TypeOK
    <3>3. Len(trail) = 0
      BY <3>1, <3>2 DEF TrailInv
    <3>4. trail = <<>>
      BY <3>2, <3>3
    <3> QED BY <3>1, <3>2, <3>4 DEF TrailInv
  <2>2. CASE ~ReturnError
    <3>1. ~Crash
      BY DEF Crash
    <3>2. txn'.step = txn.step
      <4>1. CASE RollbackObservedResult
        BY <4>1 DEF RollbackObservedResult, VotesInv, TypeOK
      <4>2. CASE ~RollbackObservedResult
        <5>1. /\ \A items \in requests : ~LockBatch(items)
              /\ ~ApplyObservedResult
              /\ \A c \in Checks, p \in Probes : ~SweepCheck(c, p)
              /\ \A result \in CommitResults : ~PersistMonitoringBatch(result)
          BY DEF LockBatch, ApplyObservedResult, SweepCheck, PersistMonitoringBatch
        <5> QED BY <2>2, <3>1, <4>2, <5>1, QuietSteps
      <4> QED BY <4>1, <4>2
    <3> QED BY <3>2
  <2> QED BY <2>1, <2>2
<1> QED
  BY <1>1, VotesInvariant, PTL DEF Spec, RollbackRestores

\* A step promotes a stable state only if it was shown before, for any number
\* of probes: a probe that joins brings no state about (Recompute, AddProbe).
THEOREM PromotionsRepeat == Spec => PromotionRepeats
<1>1. VotesInv /\ [Next]_vars =>
        [\A c \in Checks :
           /\ phase # "stopped" /\ txn.step # "rollback"
           /\ quorum'[c].LastStableState # quorum[c].LastStableState
           /\ quorum'[c].LastStableState # "none"
           => quorum'[c].LastStableState = quorum[c].State]_vars
  <2> SUFFICES ASSUME VotesInv, Next, NEW c \in Checks,
                      phase # "stopped", txn.step # "rollback",
                      quorum'[c].LastStableState # "none"
               PROVE  Promotes(c)
    BY DEF Promotes
  <2>0. TypeOK
    BY DEF VotesInv
  <2>1. CASE ApplyObservedResult
    BY <2>1, ApplyStep
  <2>2. ASSUME NEW d \in Checks, NEW p \in Probes, SweepCheck(d, p) PROVE Promotes(c)
    BY <2>2, SweepStep
  <2>3. ASSUME NEW p \in Probes, SweepProbe(p) PROVE Promotes(c)
    <3>1. \/ quorum'[c] = quorum[c]
          \/ quorum'[c] = Recompute(quorum[c], assigned[c], DegradedExec(p)[c])
      BY <2>3 DEF SweepProbe, DegradedQuorum
    <3>2. quorum[c] \in QuorumRecords
      BY <2>0 DEF TypeOK
    <3> QED BY <3>1, <3>2, RecomputeFacts DEF Promotes
  <2>4. CASE Crash
    <3>1. quorum'[c] = NewCheckQuorumState
      BY <2>4 DEF Crash, EmptyQuorums
    <3> QED BY <3>1 DEF NewCheckQuorumState
  <2>5. ASSUME NEW d \in Checks, RemoveCheck(d) PROVE Promotes(c)
    <3>1. quorum'[c] = NewCheckQuorumState \/ quorum'[c] = quorum[c]
      BY <2>0, <2>5 DEF RemoveCheck, TypeOK
    <3> QED BY <3>1 DEF NewCheckQuorumState, Promotes
  <2>6. ASSUME ~ApplyObservedResult, ~Crash, \A p \in Probes : ~SweepProbe(p),
               \A d \in Checks, p \in Probes : ~SweepCheck(d, p),
               \A d \in Checks : ~RemoveCheck(d)
        PROVE  quorum' = quorum
    BY <2>6
       DEF Next, CheckNext, ProbeNext, BatchNext, memory, LoadRuntime, Serve,
           SeedCheck, CreateCheck, EnsureCheck, DeleteCheck,
           CreateProbeCredential, RegisterProbe, AddProbe, Heartbeat,
           NormalizeBatch, LockBatch, PersistMonitoringBatch,
           RollbackObservedResult, ReturnError, Tick
  <2> QED BY <2>1, <2>2, <2>3, <2>4, <2>5, <2>6 DEF Promotes
<1> QED
  BY <1>1, VotesInvariant, PTL DEF Spec, PromotionRepeats

=============================================================================
