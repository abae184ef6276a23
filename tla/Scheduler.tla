----------------------------- MODULE Scheduler -----------------------------
(***************************************************************************)
(* The probe process: start-up and the check sync loop (cmd/wacht-probe/   *)
(* main.go), the scheduler and its workers (scheduler.go), against the     *)
(* server's table of checks.                                               *)
(*                                                                         *)
(* The list that is fetched may be out of date when it is applied, and a   *)
(* worker that was cancelled may still be running its check or, as select  *)
(* picks any case that is ready, run it again.  Its results carry the id   *)
(* of the check and are taken for results of the new definition.           *)
(***************************************************************************)
EXTENDS Integers, FiniteSets

CONSTANTS
  Checks,      \* ids; an id is never used again
  Defs,        \* type, target and interval of a check
  MaxEdits,    \* bound: creations, changes and deletions of checks
  MaxExits,    \* bound: ends of the probe process
  MaxWorkers   \* bound: goroutines alive at a time

ASSUME SchedulerAssumption ==
  /\ MaxEdits \in Nat /\ MaxExits \in Nat /\ MaxWorkers \in Nat
  /\ {"none", "deleted"} \cap Defs = {}
  /\ IsFiniteSet(Checks)

Slots == 1..MaxWorkers

VARIABLES
  table,    \* the server's checks
  edits,    \* changes of the table so far
  step,     \* of the probe's main goroutine
  exits,    \* ends of the process so far
  fetched,  \* the list of the latest FetchChecks
  running,  \* scheduler.running: the worker of each check, or 0
  workers,  \* the goroutines
  last      \* history: the definition behind the latest result of each check

vars == <<table, edits, step, exits, fetched, running, workers, last>>
probe == <<step, exits, fetched>>

Active == {c \in Checks : table[c] \in Defs}
Listed == {c \in Checks : fetched[c] \in Defs}

NoWorker == [check |-> "none", def |-> "none", cancelled |-> FALSE,
             step |-> "free"]
NoChecks == [c \in Checks |-> "none"]

Running == [check : Checks, def : Defs, cancelled : BOOLEAN,
            step : {"run", "select"}]

Alive == {w \in Slots : workers[w].step # "free"}

TypeOK ==
  /\ table \in [Checks -> Defs \cup {"none", "deleted"}]
  /\ edits \in 0..MaxEdits /\ exits \in 0..MaxExits
  /\ step \in {"register", "fetch", "reconcile", "sync", "exited"}
  /\ fetched \in [Checks -> Defs \cup {"none"}]
  /\ running \in [Checks -> 0..MaxWorkers]
  /\ workers \in [Slots -> {NoWorker} \cup Running]
  /\ last \in [Checks -> Defs \cup {"none"}]

Init ==
  /\ table \in [Checks -> Defs \cup {"none"}]
  /\ edits = 0 /\ exits = 0
  /\ step = "register"
  /\ fetched = NoChecks
  /\ running = [c \in Checks |-> 0]
  /\ workers = [w \in Slots |-> NoWorker]
  /\ last = NoChecks

----------------------------------------------------------------------------
(* The server *)

Edit(c, value) ==
  /\ edits < MaxEdits
  /\ edits' = edits + 1
  /\ table' = [table EXCEPT ![c] = value]
  /\ UNCHANGED <<probe, running, workers, last>>

CreateCheck(c, d) == table[c] = "none" /\ Edit(c, d)

\* A change of the webhook alone is not seen by probes.
UpdateCheck(c, d) == c \in Active /\ table[c] # d /\ Edit(c, d)

DeleteCheck(c) == c \in Active /\ Edit(c, "deleted")

\* Mutant: deleted checks are listed too.
ProbeChecks_WithDeleted == table

\* handleProbeChecks, ListAllChecks: the active checks of all users
ProbeChecks == [c \in Checks |-> IF c \in Active THEN table[c] ELSE "none"]

----------------------------------------------------------------------------
(* The probe's main goroutine *)

Register ==
  /\ step = "register"
  /\ step' = "fetch"
  /\ UNCHANGED <<table, edits, exits, fetched, running, workers, last>>

\* FetchChecks answers, at start-up or when the ticker of checkSyncLoop fires;
\* an error there is logged and the loop goes on.
FetchChecks ==
  /\ step \in {"fetch", "sync"}
  /\ fetched' = ProbeChecks
  /\ step' = "reconcile"
  /\ UNCHANGED <<table, edits, exits, running, workers, last>>

\* An error at start-up, or a crash; every goroutine is gone.
Exit ==
  /\ step # "exited" /\ exits < MaxExits
  /\ exits' = exits + 1
  /\ step' = "exited"
  /\ fetched' = NoChecks
  /\ running' = [c \in Checks |-> 0]
  /\ workers' = [w \in Slots |-> NoWorker]
  /\ UNCHANGED <<table, edits, last>>

Restart ==
  /\ step = "exited"
  /\ step' = "register"
  /\ UNCHANGED <<table, edits, exits, fetched, running, workers, last>>

----------------------------------------------------------------------------
(* The scheduler *)

Unlisted == {c \in Checks : running[c] # 0 /\ c \notin Listed}

\* Mutant: a worker is left alone when its check has one.
Changed_NewOnly == {c \in Listed : running[c] = 0}

\* New checks, and those whose worker has another definition
Changed ==
  {c \in Listed : running[c] = 0 \/ workers[running[c]].def # fetched[c]}

\* Mutant: the worker of a changed check is not cancelled.
Cancelled_RemovedOnly == {running[c] : c \in Unlisted}

\* The workers that Reconcile stops
Cancelled == {running[c] : c \in {d \in Unlisted \cup Changed : running[d] # 0}}

\* Which free slot each new worker takes
Placement ==
  CHOOSE f \in [Changed -> Slots \ Alive] :
    \A c, d \in Changed : f[c] = f[d] => c = d

Worker(c) == [check |-> c, def |-> fetched[c], cancelled |-> FALSE,
              step |-> "run"]

Reconcile ==
  /\ step = "reconcile"
  /\ step' = "sync"
  /\ Cardinality(Slots \ Alive) >= Cardinality(Changed)
  /\ LET place == Placement
     IN  /\ running' = [c \in Checks |->
              IF c \in Changed THEN place[c]
              ELSE IF c \in Unlisted THEN 0 ELSE running[c]]
         /\ workers' = [w \in Slots |->
              IF \E c \in Changed : place[c] = w
                THEN Worker(CHOOSE c \in Changed : place[c] = w)
              ELSE IF w \in Cancelled THEN [workers[w] EXCEPT !.cancelled = TRUE]
              ELSE workers[w]]
  /\ UNCHANGED <<table, edits, exits, fetched, last>>

\* runAndQueue ends: the result goes to the batcher, also when the worker was
\* cancelled meanwhile.
RunAndQueue(w) ==
  /\ workers[w].step = "run"
  /\ last' = [last EXCEPT ![workers[w].check] = workers[w].def]
  /\ workers' = [workers EXCEPT ![w].step = "select"]
  /\ UNCHANGED <<table, edits, probe, running>>

\* The select of a worker: the ticker, cancelled or not ...
SelectTick(w) ==
  /\ workers[w].step = "select"
  /\ workers' = [workers EXCEPT ![w].step = "run"]
  /\ UNCHANGED <<table, edits, probe, running, last>>

\* ... or ctx.Done
SelectDone(w) ==
  /\ workers[w].step = "select" /\ workers[w].cancelled
  /\ workers' = [workers EXCEPT ![w] = NoWorker]
  /\ UNCHANGED <<table, edits, probe, running, last>>

Next ==
  \/ \E c \in Checks : \/ \E d \in Defs : CreateCheck(c, d) \/ UpdateCheck(c, d)
                       \/ DeleteCheck(c)
  \/ Register \/ FetchChecks \/ Reconcile \/ Exit \/ Restart
  \/ \E w \in Slots : RunAndQueue(w) \/ SelectTick(w) \/ SelectDone(w)

Spec == Init /\ [][Next]_vars

\* The server answers again and again; the probe is started again; a run of a
\* check has a timeout; and select does not pass over ctx.Done for ever.
Fairness ==
  /\ WF_vars(Register) /\ WF_vars(Restart)
  /\ WF_vars(FetchChecks) /\ WF_vars(Reconcile)
  /\ \A w \in Slots : /\ WF_vars(RunAndQueue(w)) /\ WF_vars(SelectTick(w))
                      /\ SF_vars(SelectDone(w))

FairSpec == Spec /\ Fairness

----------------------------------------------------------------------------
(* Properties *)

\* A check never has two workers that go on: every worker that is not cancelled
\* is the one the scheduler can still stop (Reconcile).
OneWorkerPerCheck ==
  \A w \in Alive : workers[w].cancelled <=> running[workers[w].check] # w

\* Once the table stays as it is, the probe comes to run every active check with
\* its current definition, and its results are no longer those of an old one.
ProbeCatchesUp ==
  \A c \in Checks :
    <>[](c \in Active => /\ running[c] # 0 /\ workers[running[c]].def = table[c]
                         /\ last[c] = table[c])

----------------------------------------------------------------------------
(* The inductive invariant behind the properties (SchedulerProofs): what   *)
(* scheduler.running points at is a worker of that check.                  *)

PointsToWorker ==
  \A c \in Checks :
    running[c] # 0 => running[c] \in Alive /\ workers[running[c]].check = c

SchedulerInv == TypeOK /\ PointsToWorker /\ OneWorkerPerCheck

============================================================================
