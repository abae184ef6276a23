--------------------------- MODULE Notifications ---------------------------
(***************************************************************************)
(* Durable webhook delivery: the rows of incidents and                     *)
(* incident_notifications (internal/store) and the workers of the Sender   *)
(* (internal/alert) that claim, send and mark them.                        *)
(*                                                                         *)
(* Every statement or transaction of the store is one action.  Sending     *)
(* happens between two of them, so a worker that was slow marks a row that *)
(* a recovery, a delete or another worker has changed in the meantime.     *)
(*                                                                         *)
(* A timer is the time left until next_attempt_at, or, for a row that is   *)
(* processing, until last_attempt_at is stale.                             *)
(***************************************************************************)
EXTENDS Integers, FiniteSets, Sequences

CONSTANTS
  Checks,
  Workers,        \* the goroutines of the Sender; each claims one row a time
  StaleAfter,     \* defaultWebhookStaleAfter
  HoldLimit,      \* the longest time a worker takes from claim to mark
  MaxRetryDelay,  \* maxWebhookRetryDelay
  AttemptCap,     \* bound: attempts are not told apart beyond it
  MaxIncidents,   \* bound: incidents in the table
  Env             \* the requests and faults that may happen

ASSUME NotificationsAssumption ==
  /\ StaleAfter \in Nat \ {0} /\ HoldLimit \in Nat
  /\ MaxRetryDelay \in Nat \ {0} /\ MaxIncidents \in Nat
  /\ AttemptCap \in 1..11   \* the shift of nextRetryDelayWithBackoff ends at 10
  /\ Env \subseteq {"delete", "crash", "mark_fails"}

ASSUME AttemptCapAssumption == 2 ^ (AttemptCap - 1) >= MaxRetryDelay

Ids == 1..MaxIncidents
Events == {"down", "up"}
Jobs == Ids \X Events

VARIABLES
  incidents,   \* the table: a sequence indexed by incident id
  deleted,     \* checks with deleted_at set
  row,         \* incident_notifications by (incident_id, event)
  worker,      \* what each worker is doing
  accepted,    \* history: the jobs whose webhook answered 2xx
  overdue      \* history: the jobs that were not marked in time

history == <<accepted, overdue>>
vars == <<incidents, deleted, row, worker, history>>

LiveStates == {"pending", "processing", "retrying"}
FinalStates == {"delivered", "superseded"}

\* No row waits longer than the longest backoff or the staleness limit.
LongestWait == IF StaleAfter > MaxRetryDelay THEN StaleAfter ELSE MaxRetryDelay

Rows == [state : {"none"} \cup LiveStates \cup FinalStates,
         attempts : 0..AttemptCap, timer : 0..LongestWait]

NoRow == [state |-> "none", attempts |-> 0, timer |-> 0]
IdleWorker == [step |-> "idle", job |-> <<>>, attempts |-> 0, held |-> 0]

\* A worker that has claimed a row
Busy == [step : {"sending", "sent", "failed"}, job : Jobs,
         attempts : 1..AttemptCap, held : Nat]

TypeOK ==
  /\ incidents \in Seq([check : Checks, resolved : BOOLEAN])
  /\ Len(incidents) <= MaxIncidents
  /\ deleted \subseteq Checks
  /\ row \in [Jobs -> Rows]
  /\ worker \in [Workers -> {IdleWorker} \cup Busy]
  /\ accepted \subseteq Jobs /\ overdue \subseteq Jobs

Init ==
  /\ incidents = <<>>
  /\ deleted = {}
  /\ row = [n \in Jobs |-> NoRow]
  /\ worker = [w \in Workers |-> IdleWorker]
  /\ accepted = {} /\ overdue = {}

----------------------------------------------------------------------------
(* The transactions of result ingestion and of the API *)

IsOpen(i) == i \in 1..Len(incidents) /\ ~incidents[i].resolved

OpenIds(c) == {i \in 1..Len(incidents) : incidents[i].check = c /\ IsOpen(i)}

\* insertIncidentNotification: nothing is inserted without a webhook URL.
NewRow(hook) ==
  IF hook THEN [state |-> "pending", attempts |-> 0, timer |-> 0] ELSE NoRow

\* A row that is not delivered is superseded; one that is absent stays so.
Superseded(r) ==
  IF r.state \in LiveStates
    THEN [r EXCEPT !.state = "superseded", !.timer = 0] ELSE r

\* openIncidentWithNotificationByCheckIDTx, when no incident is open
OpenIncident(c, hook) ==
  /\ c \notin deleted
  /\ OpenIds(c) = {}
  /\ Len(incidents) < MaxIncidents
  /\ incidents' = Append(incidents, [check |-> c, resolved |-> FALSE])
  /\ row' = [row EXCEPT ![<<Len(incidents) + 1, "down">>] = NewRow(hook)]
  /\ UNCHANGED <<deleted, worker, history>>

\* resolveIncidentWithNotificationByCheckIDTx
ResolveIncident(c, hook) ==
  \E i \in OpenIds(c) :
    /\ incidents' = [incidents EXCEPT ![i].resolved = TRUE]
    /\ row' = [row EXCEPT ![<<i, "down">>] = Superseded(@),
                          ![<<i, "up">>] = NewRow(hook)]
    /\ UNCHANGED <<deleted, worker, history>>

\* Store.DeleteCheck ends every incident and every delivery of the check.
DeleteCheck(c) ==
  /\ "delete" \in Env
  /\ c \notin deleted
  /\ deleted' = deleted \cup {c}
  /\ incidents' = [i \in 1..Len(incidents) |->
       IF incidents[i].check = c THEN [incidents[i] EXCEPT !.resolved = TRUE]
       ELSE incidents[i]]
  /\ row' = [n \in Jobs |->
       IF n[1] \in 1..Len(incidents) /\ incidents[n[1]].check = c
         THEN Superseded(row[n]) ELSE row[n]]
  /\ UNCHANGED <<worker, history>>

----------------------------------------------------------------------------
(* The Sender *)

StaleDown(n) == n[2] = "down" /\ ~IsOpen(n[1])

\* Mutant: a row that is processing is due at once.
Due_NoStaleness(n) ==
  /\ row[n].state \in LiveStates
  /\ row[n].state # "processing" => row[n].timer = 0
  /\ ~StaleDown(n)

\* Mutant: stale rows are not recovered.
Due_NeverStale(n) ==
  /\ row[n].state \in {"pending", "retrying"}
  /\ row[n].timer = 0
  /\ ~StaleDown(n)

\* The WHERE clause of ClaimDueIncidentNotifications
Due(n) ==
  /\ row[n].state \in LiveStates
  /\ row[n].timer = 0
  /\ ~StaleDown(n)

NextAttempt(n) ==
  IF row[n].attempts < AttemptCap THEN row[n].attempts + 1 ELSE AttemptCap

\* runBatch claims a row (FOR UPDATE SKIP LOCKED: any that is due).
Claim(w, n) ==
  /\ worker[w].step = "idle"
  /\ Due(n)
  /\ row' = [row EXCEPT ![n] = [state |-> "processing",
                                attempts |-> NextAttempt(n),
                                timer |-> StaleAfter]]
  /\ worker' = [worker EXCEPT ![w] = [step |-> "sending", job |-> n,
                                      attempts |-> NextAttempt(n), held |-> 0]]
  /\ UNCHANGED <<incidents, deleted, history>>

\* Fire: the webhook answers 2xx, or the request fails or times out.
Send(w, ok) ==
  /\ worker[w].step = "sending"
  /\ worker' = [worker EXCEPT ![w].step = IF ok THEN "sent" ELSE "failed"]
  /\ accepted' = IF ok THEN accepted \cup {worker[w].job} ELSE accepted
  /\ UNCHANGED <<incidents, deleted, row, overdue>>

\* Mutant: whatever the state of the row.
Delivered_AnyState(r) == [r EXCEPT !.state = "delivered", !.timer = 0]

\* MarkIncidentNotificationDelivered
Delivered(r) ==
  IF r.state = "processing"
    THEN [r EXCEPT !.state = "delivered", !.timer = 0] ELSE r

MarkDelivered(w) ==
  /\ worker[w].step = "sent"
  /\ row' = [row EXCEPT ![worker[w].job] = Delivered(@)]
  /\ worker' = [worker EXCEPT ![w] = IdleWorker]
  /\ UNCHANGED <<incidents, deleted, history>>

\* Mutant: the delay has no limit.
RetryDelay_NoLimit(attempts) == 2 ^ (attempts - 1)

\* nextRetryDelayWithBackoff
RetryDelay(attempts) ==
  LET delay == 2 ^ (attempts - 1)
  IN  IF delay > MaxRetryDelay THEN MaxRetryDelay ELSE delay

\* Mutant: a recovery in the meantime is not looked at.
Retried_Always(n, attempts) ==
  IF row[n].state = "delivered" THEN row[n]
  ELSE [row[n] EXCEPT !.state = "retrying", !.timer = RetryDelay(attempts)]

\* MarkIncidentNotificationRetry: the row as the statement finds it, not as the
\* worker claimed it, decides.
Retried(n, attempts) ==
  IF row[n].state = "delivered" THEN row[n]
  ELSE IF row[n].state = "superseded" \/ StaleDown(n)
    THEN [row[n] EXCEPT !.state = "superseded", !.timer = 0]
  ELSE [row[n] EXCEPT !.state = "retrying", !.timer = RetryDelay(attempts)]

MarkRetry(w) ==
  /\ worker[w].step = "failed"
  /\ LET n == worker[w].job
     IN  row' = [row EXCEPT ![n] = Retried(n, worker[w].attempts)]
  /\ worker' = [worker EXCEPT ![w] = IdleWorker]
  /\ UNCHANGED <<incidents, deleted, history>>

\* dispatch logs an error of the mark and goes on.
MarkFails(w) ==
  /\ "mark_fails" \in Env
  /\ worker[w].step \in {"sent", "failed"}
  /\ worker' = [worker EXCEPT ![w] = IdleWorker]
  /\ UNCHANGED <<incidents, deleted, row, history>>

\* The server crashes, or Close stops the workers, and it is started again.
Crash ==
  /\ "crash" \in Env
  /\ worker' = [w \in Workers |-> IdleWorker]
  /\ UNCHANGED <<incidents, deleted, row, history>>

Tick ==
  /\ \A w \in Workers : worker[w].step # "idle" => worker[w].held < HoldLimit
  /\ row' = [n \in Jobs |->
       [row[n] EXCEPT !.timer = IF @ > 0 THEN @ - 1 ELSE 0]]
  /\ worker' = [w \in Workers |->
       IF worker[w].step = "idle" THEN worker[w]
       ELSE [worker[w] EXCEPT !.held = @ + 1]]
  /\ overdue' = overdue \cup
       {n \in Jobs : row'[n].state = "processing" /\ row'[n].timer = 0}
  /\ UNCHANGED <<incidents, deleted, accepted>>

Next ==
  \/ \E c \in Checks, hook \in BOOLEAN :
       OpenIncident(c, hook) \/ ResolveIncident(c, hook)
  \/ \E c \in Checks : DeleteCheck(c)
  \/ \E w \in Workers :
       \/ \E n \in Jobs : Claim(w, n)
       \/ \E ok \in BOOLEAN : Send(w, ok)
       \/ MarkDelivered(w) \/ MarkRetry(w) \/ MarkFails(w)
  \/ Crash
  \/ Tick

Spec == Init /\ [][Next]_vars

SendsJob(n) == \E w \in Workers : worker[w].job = n /\ Send(w, TRUE)
MarksJob(n) == \E w \in Workers : worker[w].job = n /\ MarkDelivered(w)

\* Time passes; due rows are claimed oldest first, so none is passed over for
\* ever; a send ends (its client has a timeout); a webhook that is tried again
\* and again answers one day, and so does the database.
Fairness ==
  /\ WF_vars(Tick)
  /\ \A w \in Workers : WF_vars(Send(w, FALSE) \/ Send(w, TRUE))
  /\ \A w \in Workers : WF_vars(MarkDelivered(w) \/ MarkRetry(w))
  /\ \A n \in Jobs : /\ SF_vars(\E w \in Workers : Claim(w, n))
                     /\ SF_vars(SendsJob(n)) /\ SF_vars(MarksJob(n))

FairSpec == Spec /\ Fairness

----------------------------------------------------------------------------
(* Properties *)

\* Once an incident is resolved no down alert of it can be claimed any more:
\* the row is superseded with the recovery, and no late mark brings it back
\* (resolveIncidentWithNotificationByCheckIDTx, MarkIncidentNotificationRetry).
NoLiveDownAfterRecovery ==
  \A i \in 1..Len(incidents) :
    incidents[i].resolved => row[<<i, "down">>].state \notin LiveStates

\* A delivered or superseded row never changes again, whichever marks, claims,
\* recoveries and deletes are still on their way.
FinalStatesStay ==
  [][\A n \in Jobs : row[n].state \in FinalStates => row'[n] = row[n]]_vars

Sends(w, n) == worker[w].step = "sending" /\ worker[w].job = n

\* Unless a claim of the row was once not marked in time, a webhook is never
\* called by two workers at once, nor again after it has answered 2xx, also if
\* the server crashes or the row is superseded (runBatch, dispatch,
\* ClaimDueIncidentNotifications).
NoDuplicateSends ==
  \A n \in Jobs \ overdue :
    /\ \A v, w \in Workers : Sends(v, n) /\ Sends(w, n) => v = w
    /\ n \in accepted => \A w \in Workers : ~Sends(w, n)

HeldTooLong == \E w \in Workers : worker[w].held >= StaleAfter

\* Durable delivery: every notification is delivered or superseded in the end,
\* although sends fail, marks are lost and the server crashes between the
\* claim and the mark.  Marks that come after their row is stale must end one
\* day, as the timeout of the webhook client sees to: two workers that overtake
\* each other for ever undo each other's marks.
NotificationsSettle ==
  <>[]~HeldTooLong =>
    \A n \in Jobs :
      row[n].state \in LiveStates ~> row[n].state \in FinalStates

----------------------------------------------------------------------------
(* The inductive invariant behind the properties (NotificationsProofs).    *)

Holding(w, n) == worker[w].step # "idle" /\ worker[w].job = n

\* A row is there only once its event has happened, and stays from then on; a
\* row that is final waits for nothing.
RowOK(n) ==
  /\ row[n].state \in FinalStates => row[n].timer = 0
  /\ n[1] > Len(incidents) => row[n].state = "none"
  /\ n[2] = "up" /\ IsOpen(n[1]) => row[n].state = "none"
  /\ \A w \in Workers : Holding(w, n) => row[n].state # "none"

\* While the claims of a row are marked in time: it has one holder, which
\* nobody but a recovery or a delete overtakes, and once its webhook has
\* answered nothing is left to do but the mark.
ClaimOK(n) ==
  /\ row[n].state = "processing" => row[n].timer > 0
  /\ \A w \in Workers : Holding(w, n) => row[n].state \in {"processing", "superseded"}
  /\ \A v, w \in Workers : Holding(v, n) /\ Holding(w, n) => v = w
  /\ n \in accepted =>
       /\ row[n].state \in {"processing", "delivered", "superseded"}
       /\ \A w \in Workers : Holding(w, n) => worker[w].step = "sent"

NotificationsInv ==
  /\ TypeOK
  /\ NoLiveDownAfterRecovery
  /\ \A n \in Jobs : RowOK(n) /\ (n \notin overdue => ClaimOK(n))

============================================================================
