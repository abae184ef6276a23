-------------------------- MODULE SchedulerProofs --------------------------
(***************************************************************************)
(* Theorems about Scheduler, for any checks and definitions, and any       *)
(* bounds on edits, exits and goroutines.                                  *)
(***************************************************************************)
EXTENDS Scheduler, FiniteSetTheorems, TLAPS

----------------------------------------------------------------------------
(* Slots *)

\* A finite set fits into one that is not smaller.
LEMMA InjectionExists ==
  ASSUME NEW A, NEW B, IsFiniteSet(A), IsFiniteSet(B),
         Cardinality(B) >= Cardinality(A)
  PROVE  \E f \in [A -> B] : \A c, d \in A : f[c] = f[d] => c = d
<1> DEFINE n == Cardinality(A)
           m == Cardinality(B)
<1>1. n \in Nat /\ m \in Nat /\ n <= m
  BY FS_CardinalityType
<1>2. PICK f \in [1..n -> A] : \A c \in A : \E i \in 1..n : f[i] = c
  <2>1. PICK f : f \in Bijection(1..n, A)
    BY FS_CardinalityType DEF ExistsBijection
  <2> QED
    BY <2>1 DEF Bijection, Injection, Surjection
<1>3. PICK g \in [1..m -> B] : \A i, j \in 1..m : g[i] = g[j] => i = j
  <2>1. PICK g : g \in Bijection(1..m, B)
    BY FS_CardinalityType DEF ExistsBijection
  <2> QED
    BY <2>1 DEF Bijection, Injection, IsInjective
<1> HIDE DEF n, m
<1> DEFINE at(c) == CHOOSE i \in 1..n : f[i] = c
           h == [c \in A |-> g[at(c)]]
<1>4. \A c \in A : at(c) \in 1..n /\ f[at(c)] = c
  BY <1>2
<1> HIDE DEF at
<1>5. \A c \in A : at(c) \in 1..m
  BY <1>1, <1>4
<1>6. h \in [A -> B]
  BY <1>3, <1>5
<1>7. \A c, d \in A : h[c] = h[d] => c = d
  BY <1>3, <1>4, <1>5
<1> QED
  BY <1>6, <1>7

\* Where Reconcile is enabled, every new worker has a slot of its own.
LEMMA PlacementExists ==
  ASSUME TypeOK, Cardinality(Slots \ Alive) >= Cardinality(Changed)
  PROVE  /\ Placement \in [Changed -> Slots \ Alive]
         /\ \A c, d \in Changed : Placement[c] = Placement[d] => c = d
<1>1. IsFiniteSet(Changed)
  <2>1. Changed \in SUBSET Checks
    BY DEF Changed, Listed
  <2> QED
    BY <2>1, FS_Subset, SchedulerAssumption
<1>2. IsFiniteSet(Slots \ Alive)
  <2>1. 1 \in Int /\ MaxWorkers \in Int
    BY SchedulerAssumption
  <2>2. IsFiniteSet(Slots)
    BY <2>1, FS_Interval DEF Slots
  <2>3. Slots \ Alive \in SUBSET Slots
    OBVIOUS
  <2> QED
    BY <2>2, <2>3, FS_Subset
<1>3. \E f \in [Changed -> Slots \ Alive] : \A c, d \in Changed : f[c] = f[d] => c = d
  BY <1>1, <1>2, InjectionExists
<1> QED
  BY <1>3 DEF Placement

----------------------------------------------------------------------------
(* Steps *)

\* A worker's own step
LEMMA WorkerEffect ==
  ASSUME TypeOK, NEW w \in Slots, RunAndQueue(w) \/ SelectTick(w)
  PROVE  \E x \in Running :
           /\ workers[w] \in Running /\ workers' = [workers EXCEPT ![w] = x]
           /\ x.check = workers[w].check /\ x.cancelled = workers[w].cancelled
           /\ UNCHANGED <<table, edits, probe, running>>
<1>1. workers[w] \in Running
  BY DEF RunAndQueue, SelectTick, TypeOK, NoWorker
<1>2. PICK s \in {"run", "select"} :
        workers' = [workers EXCEPT ![w] = [workers[w] EXCEPT !.step = s]]
  BY Zenon DEF RunAndQueue, SelectTick
<1> DEFINE x == [workers[w] EXCEPT !.step = s]
<1>3. x \in Running /\ x.check = workers[w].check /\ x.cancelled = workers[w].cancelled
  BY <1>1 DEF Running
<1> HIDE DEF x
<1> QED
  BY <1>1, <1>2, <1>3 DEF x, RunAndQueue, SelectTick

\* Reconcile, slot by slot and check by check
LEMMA ReconcileEffect ==
  ASSUME TypeOK, Reconcile
  PROVE  \E place \in [Changed -> Slots \ Alive] :
           /\ \A c, d \in Changed : place[c] = place[d] => c = d
           /\ running' = [c \in Checks |->
                IF c \in Changed THEN place[c]
                ELSE IF c \in Unlisted THEN 0 ELSE running[c]]
           /\ \A c \in Changed : workers'[place[c]] = Worker(c)
           /\ \A w \in Slots : (\A c \in Changed : place[c] # w) =>
                workers'[w] = IF w \in Cancelled
                                THEN [workers[w] EXCEPT !.cancelled = TRUE]
                                ELSE workers[w]
           /\ workers' = [w \in Slots |-> workers'[w]]
           /\ step' = "sync" /\ UNCHANGED <<table, edits, exits, fetched, last>>
<1> DEFINE place == Placement
<1>1. /\ place \in [Changed -> Slots \ Alive]
      /\ \A c, d \in Changed : place[c] = place[d] => c = d
  BY PlacementExists DEF Reconcile
<1>2. /\ running' = [c \in Checks |->
           IF c \in Changed THEN place[c]
           ELSE IF c \in Unlisted THEN 0 ELSE running[c]]
      /\ workers' = [w \in Slots |->
           IF \E c \in Changed : place[c] = w
             THEN Worker(CHOOSE c \in Changed : place[c] = w)
           ELSE IF w \in Cancelled THEN [workers[w] EXCEPT !.cancelled = TRUE]
           ELSE workers[w]]
      /\ step' = "sync" /\ UNCHANGED <<table, edits, exits, fetched, last>>
  BY DEF Reconcile
<1> HIDE DEF place
<1>3. ASSUME NEW c \in Changed
      PROVE  workers'[place[c]] = Worker(c)
  <2>1. place[c] \in Slots /\ (CHOOSE d \in Changed : place[d] = place[c]) = c
    BY <1>1
  <2> QED
    BY <1>2, <2>1
<1>4. ASSUME NEW w \in Slots, \A c \in Changed : place[c] # w
      PROVE  workers'[w] = IF w \in Cancelled
                             THEN [workers[w] EXCEPT !.cancelled = TRUE]
                             ELSE workers[w]
  BY <1>2, <1>4
<1>5. workers' = [w \in Slots |-> workers'[w]]
  BY <1>2
<1> QED
  BY <1>1, <1>2, <1>3, <1>4, <1>5

----------------------------------------------------------------------------
(* Types *)

\* Every step keeps every variable within its type.
LEMMA TypeStep ==
  ASSUME TypeOK, PointsToWorker, [Next]_vars
  PROVE  TypeOK'
<1> USE SchedulerAssumption DEF probe
<1>1. ASSUME NEW c \in Checks, NEW v \in Defs \cup {"deleted"}, Edit(c, v)
      PROVE  TypeOK'
  BY <1>1 DEF Edit, TypeOK
<1>2. ASSUME NEW c \in Checks, NEW d \in Defs, CreateCheck(c, d) \/ UpdateCheck(c, d)
      PROVE  TypeOK'
  BY <1>1, <1>2 DEF CreateCheck, UpdateCheck
<1>3. ASSUME NEW c \in Checks, DeleteCheck(c)
      PROVE  TypeOK'
  BY <1>1, <1>3 DEF DeleteCheck
<1>4. CASE Register \/ Restart
  BY <1>4 DEF Register, Restart, TypeOK
<1>5. CASE FetchChecks
  BY <1>5 DEF FetchChecks, ProbeChecks, Active, TypeOK
<1>6. CASE Exit
  BY <1>6 DEF Exit, NoChecks, TypeOK
<1>7. CASE Reconcile
  <2>1. PICK place \in [Changed -> Slots \ Alive] :
          /\ running' = [c \in Checks |->
               IF c \in Changed THEN place[c]
               ELSE IF c \in Unlisted THEN 0 ELSE running[c]]
          /\ \A c \in Changed : workers'[place[c]] = Worker(c)
          /\ \A w \in Slots : (\A c \in Changed : place[c] # w) =>
               workers'[w] = IF w \in Cancelled
                               THEN [workers[w] EXCEPT !.cancelled = TRUE]
                               ELSE workers[w]
          /\ workers' = [w \in Slots |-> workers'[w]]
          /\ step' = "sync" /\ UNCHANGED <<table, edits, exits, fetched, last>>
    BY <1>7, ReconcileEffect
  <2>2. running' \in [Checks -> 0..MaxWorkers]
    BY <2>1 DEF TypeOK, Slots
  <2>3. \A c \in Changed : Worker(c) \in Running
    BY DEF Worker, Running, Changed, Listed, TypeOK
  <2>4. ASSUME NEW w \in Slots
        PROVE  workers'[w] \in {NoWorker} \cup Running
    <3>1. CASE \E c \in Changed : place[c] = w
      BY <2>1, <2>3, <3>1
    <3>2. CASE (\A c \in Changed : place[c] # w) /\ w \in Cancelled
      <4>1. workers'[w] = [workers[w] EXCEPT !.cancelled = TRUE]
        BY <2>1, <3>2
      <4>2. PICK c \in Checks : running[c] = w /\ running[c] # 0
        BY <3>2 DEF Cancelled, Unlisted, Changed, Listed
      <4>3. workers[w] \in Running
        BY <4>2 DEF PointsToWorker, Alive, TypeOK, NoWorker
      <4> QED
        BY <4>1, <4>3 DEF Running
    <3>3. CASE (\A c \in Changed : place[c] # w) /\ w \notin Cancelled
      BY <2>1, <3>3 DEF TypeOK
    <3> QED
      BY <3>1, <3>2, <3>3
  <2>5. workers' \in [Slots -> {NoWorker} \cup Running]
    BY <2>1, <2>4
  <2> QED
    BY <2>1, <2>2, <2>5 DEF TypeOK
<1>8. ASSUME NEW w \in Slots, RunAndQueue(w) \/ SelectTick(w)
      PROVE  TypeOK'
  <2>1. PICK x \in Running :
          /\ workers[w] \in Running /\ workers' = [workers EXCEPT ![w] = x]
          /\ UNCHANGED <<table, edits, probe, running>>
    BY <1>8, WorkerEffect
  <2>2. last' \in [Checks -> Defs \cup {"none"}]
    <3>1. workers[w].check \in Checks /\ workers[w].def \in Defs
      BY <2>1 DEF Running
    <3> QED
      BY <1>8, <3>1 DEF RunAndQueue, SelectTick, TypeOK
  <2> QED
    BY <2>1, <2>2 DEF TypeOK
<1>9. ASSUME NEW w \in Slots, SelectDone(w)
      PROVE  TypeOK'
  BY <1>9 DEF SelectDone, TypeOK
<1>10. CASE UNCHANGED vars
  BY <1>10 DEF vars, TypeOK
<1> QED
  BY <1>2, <1>3, <1>4, <1>5, <1>6, <1>7, <1>8, <1>9, <1>10 DEF Next

----------------------------------------------------------------------------
(* Workers *)

\* Every step keeps the workers that go on within reach of the scheduler.
LEMMA WorkersStep ==
  ASSUME TypeOK, PointsToWorker, OneWorkerPerCheck, [Next]_vars
  PROVE  PointsToWorker' /\ OneWorkerPerCheck'
<1> USE DEF probe
<1>1. CASE UNCHANGED <<running, workers>>
  BY <1>1 DEF PointsToWorker, OneWorkerPerCheck, Alive
<1>2. CASE Exit
  <2>1. \A c \in Checks : running'[c] = 0
    BY <1>2 DEF Exit
  <2>2. Alive' = {}
    BY <1>2 DEF Exit, Alive, NoWorker
  <2> QED
    BY <2>1, <2>2 DEF PointsToWorker, OneWorkerPerCheck
<1>3. ASSUME NEW w \in Slots, RunAndQueue(w) \/ SelectTick(w)
      PROVE  PointsToWorker' /\ OneWorkerPerCheck'
  <2>1. PICK x \in Running :
          /\ workers[w] \in Running /\ workers' = [workers EXCEPT ![w] = x]
          /\ x.check = workers[w].check /\ x.cancelled = workers[w].cancelled
          /\ UNCHANGED running
    BY <1>3, WorkerEffect
  <2>2. w \in Alive /\ x.step # "free"
    BY <2>1 DEF Running, Alive
  <2>3. \A v \in Slots : /\ workers'[v].check = workers[v].check
                        /\ workers'[v].cancelled = workers[v].cancelled
                        /\ (workers'[v].step # "free" <=> workers[v].step # "free")
    <3>1. \A v \in Slots : workers'[v] = IF v = w THEN x ELSE workers[v]
      BY <2>1 DEF TypeOK
    <3>2. workers[w].step # "free"
      BY <2>2 DEF Alive
    <3> QED
      BY <2>1, <2>2, <3>1, <3>2
  <2>4. Alive' = Alive
    <3>1. \A v \in Slots : workers'[v].step # "free" <=> workers[v].step # "free"
      BY <2>3
    <3> QED
      BY <3>1, Zenon DEF Alive
  <2>5. PointsToWorker'
    BY <2>1, <2>3, <2>4 DEF PointsToWorker, Alive
  <2>6. OneWorkerPerCheck'
    BY <2>1, <2>3, <2>4 DEF OneWorkerPerCheck, Alive
  <2> QED
    BY <2>5, <2>6
<1>4. ASSUME NEW w \in Slots, SelectDone(w)
      PROVE  PointsToWorker' /\ OneWorkerPerCheck'
  <2>1. /\ workers' = [workers EXCEPT ![w] = NoWorker] /\ UNCHANGED running
        /\ workers[w].cancelled /\ w \in Alive
    BY <1>4 DEF SelectDone, Alive
  <2>2. running[workers[w].check] # w
    BY <2>1 DEF OneWorkerPerCheck
  <2>3. \A c \in Checks : running[c] # w \/ running[c] = 0
    BY <2>2 DEF PointsToWorker
  <2>4. \A v \in Slots : workers'[v] = IF v = w THEN NoWorker ELSE workers[v]
    BY <2>1 DEF TypeOK
  <2>5. Alive' = Alive \ {w}
    BY <2>4 DEF Alive, NoWorker
  <2>6. PointsToWorker'
    BY <2>1, <2>3, <2>4, <2>5 DEF PointsToWorker, Alive
  <2>7. OneWorkerPerCheck'
    BY <2>1, <2>4, <2>5 DEF OneWorkerPerCheck, Alive
  <2> QED
    BY <2>6, <2>7
<1>5. CASE Reconcile
  <2>1. PICK place \in [Changed -> Slots \ Alive] :
          /\ \A c, d \in Changed : place[c] = place[d] => c = d
          /\ running' = [c \in Checks |->
               IF c \in Changed THEN place[c]
               ELSE IF c \in Unlisted THEN 0 ELSE running[c]]
          /\ \A c \in Changed : workers'[place[c]] = Worker(c)
          /\ \A w \in Slots : (\A c \in Changed : place[c] # w) =>
               workers'[w] = IF w \in Cancelled
                               THEN [workers[w] EXCEPT !.cancelled = TRUE]
                               ELSE workers[w]
    BY <1>5, ReconcileEffect
  <2>2. 0 \notin Slots /\ Changed \subseteq Checks /\ Unlisted \subseteq Checks
    BY DEF Slots, Changed, Listed, Unlisted
  <2>3. ASSUME NEW w \in Alive
        PROVE  /\ workers'[w].check = workers[w].check
               /\ workers'[w].step = workers[w].step
               /\ workers'[w].cancelled =
                    IF w \in Cancelled THEN TRUE ELSE workers[w].cancelled
    <3>1. w \in Slots /\ workers[w] \in Running /\ \A c \in Changed : place[c] # w
      BY <2>1 DEF Alive, TypeOK, NoWorker
    <3>2. workers'[w] = IF w \in Cancelled
                          THEN [workers[w] EXCEPT !.cancelled = TRUE] ELSE workers[w]
      BY <2>1, <3>1
    <3> QED
      BY <3>1, <3>2 DEF Running
  <2>4. \A c \in Checks : running[c] \in Cancelled /\ running[c] # 0 =>
                           c \in Unlisted \cup Changed
    <3> TAKE c \in Checks
    <3> HAVE running[c] \in Cancelled /\ running[c] # 0
    <3>1. PICK d \in Unlisted \cup Changed : running[d] = running[c] /\ running[d] # 0
      BY DEF Cancelled
    <3>2. c = d
      BY <2>2, <3>1 DEF PointsToWorker
    <3> QED
      BY <3>1, <3>2
  <2>5. ASSUME NEW c \in Checks, running'[c] # 0
        PROVE  running'[c] \in Alive' /\ workers'[running'[c]].check = c
    <3>1. CASE c \in Changed
      <4>1. running'[c] = place[c] /\ place[c] \in Slots
        BY <2>1, <2>2, <3>1
      <4>2. workers'[place[c]] = Worker(c)
        BY <2>1, <3>1
      <4> QED
        BY <4>1, <4>2 DEF Worker, Alive
    <3>2. CASE c \notin Changed
      <4>1. running'[c] = running[c] /\ c \notin Unlisted
        BY <2>1, <2>5, <3>2
      <4>2. running[c] \in Alive /\ workers[running[c]].check = c
        BY <2>5, <4>1 DEF PointsToWorker
      <4>3. /\ workers'[running[c]].check = c
            /\ workers'[running[c]].step = workers[running[c]].step
        BY <2>3, <4>2
      <4> QED
        BY <4>1, <4>2, <4>3 DEF Alive
    <3> QED
      BY <3>1, <3>2
  <2>6. ASSUME NEW w \in Alive'
        PROVE  workers'[w].cancelled <=> running'[workers'[w].check] # w
    <3>1. CASE \E c \in Changed : place[c] = w
      <4>1. PICK c \in Changed : place[c] = w
        BY <3>1
      <4>2. workers'[w] = Worker(c) /\ running'[c] = w
        BY <2>1, <2>2, <4>1
      <4> QED
        BY <4>2 DEF Worker
    <3>2. CASE \A c \in Changed : place[c] # w
      <4>1. w \in Slots
        BY DEF Alive
      <4>2. w \in Alive
        <5>1. workers'[w] = IF w \in Cancelled
                              THEN [workers[w] EXCEPT !.cancelled = TRUE] ELSE workers[w]
          BY <2>1, <3>2, <4>1
        <5>2. CASE w \in Cancelled
          <6>1. PICK c \in Checks : running[c] # 0 /\ running[c] = w
            BY <5>2 DEF Cancelled, Unlisted, Changed, Listed
          <6> QED
            BY <6>1 DEF PointsToWorker
        <5>3. CASE w \notin Cancelled
          BY <4>1, <5>1, <5>3 DEF Alive
        <5> QED
          BY <5>2, <5>3
      <4> DEFINE c == workers[w].check
      <4>3. c \in Checks /\ workers'[w].check = c
        <5>1. workers[w] \in Running
          BY <4>1, <4>2 DEF Alive, TypeOK, NoWorker
        <5>2. workers[w].check \in Checks
          BY <5>1 DEF Running
        <5> QED
          BY <2>3, <4>2, <5>2
      <4>4. workers[w].cancelled <=> running[c] # w
        BY <4>2 DEF OneWorkerPerCheck
      <4>5. running'[c] = IF c \in Changed THEN place[c]
                          ELSE IF c \in Unlisted THEN 0 ELSE running[c]
        BY <2>1, <4>3
      <4>6. CASE w \in Cancelled
        <5>1. PICK d \in Unlisted \cup Changed : running[d] = w
          BY <4>1, <4>6 DEF Cancelled
        <5>2. d = c
          BY <2>2, <4>1, <5>1 DEF PointsToWorker
        <5>3. running'[c] # w
          BY <2>2, <3>2, <4>1, <4>5, <5>1, <5>2
        <5> QED
          BY <2>3, <4>2, <4>3, <4>6, <5>3
      <4>7. CASE w \notin Cancelled
        <5>1. running[c] = w => c \notin Unlisted \cup Changed
          BY <2>2, <4>1, <4>7 DEF Cancelled
        <5>2. running'[c] # w <=> running[c] # w
          BY <2>2, <3>2, <4>1, <4>5, <5>1
        <5> QED
          BY <2>3, <4>2, <4>3, <4>4, <4>7, <5>2
      <4> QED
        BY <4>6, <4>7
    <3> QED
      BY <3>1, <3>2
  <2> QED
    BY <2>5, <2>6 DEF PointsToWorker, OneWorkerPerCheck
<1>6. ASSUME NEW c \in Checks, NEW d,
             CreateCheck(c, d) \/ UpdateCheck(c, d) \/ DeleteCheck(c)
      PROVE  UNCHANGED <<running, workers>>
  BY <1>6 DEF CreateCheck, UpdateCheck, DeleteCheck, Edit
<1>7. CASE Register \/ FetchChecks \/ Restart \/ UNCHANGED vars
  BY <1>1, <1>7 DEF Register, FetchChecks, Restart, vars
<1> QED
  BY <1>1, <1>2, <1>3, <1>4, <1>5, <1>6, <1>7 DEF Next

----------------------------------------------------------------------------
(* Theorems *)

\* The inductive invariant holds in every state.
LEMMA SchedulerInvHolds ==
  Spec => []SchedulerInv
<1>1. Init => SchedulerInv
  <2> SUFFICES ASSUME Init PROVE SchedulerInv
    OBVIOUS
  <2>1. TypeOK
    BY SchedulerAssumption DEF Init, TypeOK, NoChecks
  <2>2. PointsToWorker /\ Alive = {}
    BY DEF Init, PointsToWorker, Alive, NoWorker
  <2> QED
    BY <2>1, <2>2 DEF SchedulerInv, OneWorkerPerCheck
<1>2. SchedulerInv /\ [Next]_vars => SchedulerInv'
  BY TypeStep, WorkersStep DEF SchedulerInv
<1> QED
  BY <1>1, <1>2, PTL DEF Spec

\* Every variable stays within its type.
THEOREM SchedulerTypes ==
  Spec => []TypeOK
<1>1. SchedulerInv => TypeOK
  BY DEF SchedulerInv
<1> QED
  BY <1>1, SchedulerInvHolds, PTL

\* A check never has two workers that go on, however the table changes between
\* the lists that Reconcile is given.
THEOREM WorkersOnce ==
  Spec => []OneWorkerPerCheck
<1>1. SchedulerInv => OneWorkerPerCheck
  BY DEF SchedulerInv
<1> QED
  BY <1>1, SchedulerInvHolds, PTL

============================================================================
