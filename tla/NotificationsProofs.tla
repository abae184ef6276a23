------------------------ MODULE NotificationsProofs ------------------------
(***************************************************************************)
(* Theorems about Notifications, for any checks, any number of workers and *)
(* incidents, any delays, and with or without deletes, crashes and lost    *)
(* marks.                                                                  *)
(***************************************************************************)
EXTENDS Notifications, TLAPS

----------------------------------------------------------------------------
(* Operators *)

\* The powers that nextRetryDelayWithBackoff shifts by
LEMMA PowerTypes ==
  \A k \in 1..11 : 2 ^ (k - 1) \in Nat
<1> DEFINE p(k) == 2 ^ k
<1>1. /\ p(0) = 1 /\ p(1) = 2 /\ p(2) = 4 /\ p(3) = 8 /\ p(4) = 16 /\ p(5) = 32
      /\ p(6) = 64 /\ p(7) = 128 /\ p(8) = 256 /\ p(9) = 512 /\ p(10) = 1024
  OBVIOUS
<1> HIDE DEF p
<1>2. ASSUME NEW k \in 1..11
      PROVE  p(k - 1) \in Nat
  <2>1. k - 1 \in {0, 1, 2, 3, 4, 5, 6, 7, 8, 9, 10}
    OBVIOUS
  <2> QED
    BY <1>1, <2>1
<1> QED
  BY <1>2 DEF p

\* No retry waits longer than maxWebhookRetryDelay.
LEMMA RetryDelayBound ==
  ASSUME NEW k \in 1..AttemptCap
  PROVE  RetryDelay(k) \in 0..MaxRetryDelay
<1>1. 2 ^ (k - 1) \in Nat
  <2>1. k \in 1..11
    BY NotificationsAssumption
  <2> QED
    BY <2>1, PowerTypes
<1> DEFINE delay == 2 ^ (k - 1)
<1> HIDE DEF delay
<1>2. (IF delay > MaxRetryDelay THEN MaxRetryDelay ELSE delay) \in 0..MaxRetryDelay
  BY <1>1, NotificationsAssumption DEF delay
<1> QED
  BY <1>2 DEF RetryDelay, delay

\* The rows that the statements write are rows.
LEMMA RowTypes ==
  /\ NoRow \in Rows
  /\ \A hook \in BOOLEAN : NewRow(hook) \in Rows
  /\ \A r \in Rows : Superseded(r) \in Rows /\ Delivered(r) \in Rows
  /\ \A r \in Rows, k \in 1..AttemptCap :
       /\ [r EXCEPT !.state = "retrying", !.timer = RetryDelay(k)] \in Rows
       /\ [r EXCEPT !.state = "superseded", !.timer = 0] \in Rows
       /\ [state |-> "processing", attempts |-> k, timer |-> StaleAfter] \in Rows
  /\ \A r \in Rows :
       [r EXCEPT !.timer = IF r.timer > 0 THEN r.timer - 1 ELSE 0] \in Rows
<1> USE NotificationsAssumption DEF Rows, LiveStates, FinalStates
<1>1. 0 \in 0..LongestWait /\ StaleAfter \in 0..LongestWait
  BY DEF LongestWait
<1>2. \A k \in 1..AttemptCap : RetryDelay(k) \in 0..LongestWait
  BY RetryDelayBound DEF LongestWait
<1>3. NoRow \in Rows /\ \A hook \in BOOLEAN : NewRow(hook) \in Rows
  BY <1>1 DEF NoRow, NewRow
<1>4. \A r \in Rows : Superseded(r) \in Rows /\ Delivered(r) \in Rows
  BY <1>1 DEF Superseded, Delivered
<1>5. ASSUME NEW r \in Rows, NEW k \in 1..AttemptCap
      PROVE  /\ [r EXCEPT !.state = "retrying", !.timer = RetryDelay(k)] \in Rows
             /\ [r EXCEPT !.state = "superseded", !.timer = 0] \in Rows
             /\ [state |-> "processing", attempts |-> k, timer |-> StaleAfter] \in Rows
  <2>1. [r EXCEPT !.state = "superseded", !.timer = 0] \in Rows
    BY <1>1
  <2>2. [state |-> "processing", attempts |-> k, timer |-> StaleAfter] \in Rows
    BY <1>1
  <2>3. ASSUME NEW d \in 0..LongestWait
        PROVE  [r EXCEPT !.state = "retrying", !.timer = d] \in Rows
    OBVIOUS
  <2> QED
    BY <1>2, <2>1, <2>2, <2>3
<1>6. ASSUME NEW r \in Rows
      PROVE  [r EXCEPT !.timer = IF r.timer > 0 THEN r.timer - 1 ELSE 0] \in Rows
  <2>1. (IF r.timer > 0 THEN r.timer - 1 ELSE 0) \in 0..LongestWait
    BY DEF LongestWait
  <2> QED
    BY <2>1
<1> QED
  BY <1>3, <1>4, <1>5, <1>6

\* The keys of incident_notifications
LEMMA JobTypes ==
  /\ \A n \in Jobs : n[1] \in Ids /\ n[2] \in Events /\ n = <<n[1], n[2]>>
  /\ \A i \in Ids : <<i, "down">> \in Jobs /\ <<i, "up">> \in Jobs
BY DEF Jobs, Events

----------------------------------------------------------------------------
(* The steps, row by row and worker by worker *)

IncidentType == [check : Checks, resolved : BOOLEAN]

\* A check goes down.
LEMMA OpenEffect ==
  ASSUME TypeOK, NEW c \in Checks, NEW hook \in BOOLEAN, OpenIncident(c, hook)
  PROVE  LET i == Len(incidents) + 1
         IN  /\ i \in Ids /\ Len(incidents) \in Nat /\ Len(incidents') = i
             /\ incidents' \in Seq(IncidentType)
             /\ \A j \in 1..Len(incidents) : incidents'[j] = incidents[j]
             /\ ~incidents'[i].resolved
             /\ row' = [n \in Jobs |-> IF n = <<i, "down">> THEN NewRow(hook)
                                       ELSE row[n]]
             /\ UNCHANGED <<deleted, worker, history>>
<1> DEFINE i == Len(incidents) + 1
           x == [check |-> c, resolved |-> FALSE]
<1>1. i \in Ids /\ Len(incidents) \in Nat
  BY NotificationsAssumption DEF TypeOK, OpenIncident, Ids
<1>2. x \in IncidentType /\ incidents \in Seq(IncidentType)
  BY DEF TypeOK, IncidentType
<1>3. incidents' = Append(incidents, x)
  BY DEF OpenIncident
<1>4. ~x.resolved
  OBVIOUS
<1> HIDE DEF x
<1>5. /\ incidents' \in Seq(IncidentType) /\ Len(incidents') = i
      /\ \A j \in 1..Len(incidents) : incidents'[j] = incidents[j]
      /\ incidents'[i] = x
  BY <1>2, <1>3
<1>6. row' = [n \in Jobs |-> IF n = <<i, "down">> THEN NewRow(hook) ELSE row[n]]
  BY <1>1, JobTypes DEF TypeOK, OpenIncident
<1> QED
  BY <1>1, <1>4, <1>5, <1>6 DEF OpenIncident

\* A check recovers.
LEMMA ResolveEffect ==
  ASSUME TypeOK, NEW c \in Checks, NEW hook \in BOOLEAN, ResolveIncident(c, hook)
  PROVE  \E i \in 1..Len(incidents) :
           /\ IsOpen(i) /\ i \in Ids
           /\ incidents' \in Seq(IncidentType) /\ Len(incidents') = Len(incidents)
           /\ \A j \in 1..Len(incidents) \ {i} : incidents'[j] = incidents[j]
           /\ incidents'[i].resolved
           /\ row' = [n \in Jobs |->
                CASE n = <<i, "down">> -> Superseded(row[n])
                  [] n = <<i, "up">> -> NewRow(hook)
                  [] OTHER -> row[n]]
           /\ UNCHANGED <<deleted, worker, history>>
<1>1. PICK i \in OpenIds(c) :
        /\ incidents' = [incidents EXCEPT ![i] = [incidents[i] EXCEPT !.resolved = TRUE]]
        /\ row' = [row EXCEPT ![<<i, "down">>] = Superseded(@),
                              ![<<i, "up">>] = NewRow(hook)]
        /\ UNCHANGED <<deleted, worker, history>>
  BY Zenon DEF ResolveIncident
<1>2. i \in 1..Len(incidents) /\ IsOpen(i) /\ i \in Ids
  BY NotificationsAssumption DEF OpenIds, TypeOK, Ids
<1>3. /\ incidents' \in Seq(IncidentType) /\ Len(incidents') = Len(incidents)
      /\ \A j \in 1..Len(incidents) \ {i} : incidents'[j] = incidents[j]
      /\ incidents'[i].resolved
  <2> DEFINE x == [incidents[i] EXCEPT !.resolved = TRUE]
  <2>1. incidents \in Seq(IncidentType)
    BY DEF TypeOK, IncidentType
  <2>2. incidents[i] \in IncidentType
    BY <1>2, <2>1
  <2>3. x \in IncidentType /\ x.resolved
    BY <2>2 DEF IncidentType
  <2>4. incidents' = [incidents EXCEPT ![i] = x]
    BY <1>1
  <2> HIDE DEF x
  <2> QED
    BY <1>2, <2>1, <2>3, <2>4
<1>4. row' = [n \in Jobs |->
               CASE n = <<i, "down">> -> Superseded(row[n])
                 [] n = <<i, "up">> -> NewRow(hook)
                 [] OTHER -> row[n]]
  BY <1>1, <1>2, JobTypes DEF TypeOK
<1> QED
  BY <1>1, <1>2, <1>3, <1>4

\* A check is deleted.
LEMMA DeleteEffect ==
  ASSUME TypeOK, NEW c \in Checks, DeleteCheck(c)
  PROVE  /\ incidents' \in Seq(IncidentType) /\ Len(incidents') = Len(incidents)
         /\ \A j \in 1..Len(incidents) :
              IF incidents[j].check = c THEN incidents'[j].resolved
              ELSE incidents'[j] = incidents[j]
         /\ row' = [n \in Jobs |->
              IF n[1] \in 1..Len(incidents) /\ incidents[n[1]].check = c
                THEN Superseded(row[n]) ELSE row[n]]
         /\ deleted' \subseteq Checks
         /\ UNCHANGED <<worker, history>>
<1>1. incidents \in Seq(IncidentType) /\ Len(incidents) \in Nat
  BY DEF TypeOK, IncidentType
<1>2. \A j \in 1..Len(incidents) : incidents[j] \in IncidentType
  BY <1>1
<1>3. incidents' = [j \in 1..Len(incidents) |->
        IF incidents[j].check = c THEN [incidents[j] EXCEPT !.resolved = TRUE]
        ELSE incidents[j]]
  BY DEF DeleteCheck
<1>4. /\ incidents' \in Seq(IncidentType) /\ Len(incidents') = Len(incidents)
  <2>1. \A x \in IncidentType : [x EXCEPT !.resolved = TRUE] \in IncidentType
    BY DEF IncidentType
  <2>2. incidents' \in [1..Len(incidents) -> IncidentType]
    BY <1>2, <1>3, <2>1
  <2> QED
    BY <1>1, <2>2
<1>5. \A j \in 1..Len(incidents) :
        IF incidents[j].check = c THEN incidents'[j].resolved
        ELSE incidents'[j] = incidents[j]
  <2>1. \A x \in IncidentType : [x EXCEPT !.resolved = TRUE].resolved
    BY DEF IncidentType
  <2> QED
    BY <1>2, <1>3, <2>1
<1> QED
  BY <1>4, <1>5 DEF DeleteCheck, TypeOK

\* The step of a worker, with what it does to the row of its job
LEMMA SendEffect ==
  ASSUME TypeOK, NEW w \in Workers, NEW ok \in BOOLEAN, Send(w, ok)
  PROVE  \E x \in Busy :
           /\ worker[w].step = "sending" /\ worker[w].job \in Jobs
           /\ worker' = [worker EXCEPT ![w] = x]
           /\ x.job = worker[w].job /\ x.step \in {"sent", "failed"}
           /\ x.step = "sent" <=> ok
           /\ accepted' = IF ok THEN accepted \cup {worker[w].job} ELSE accepted
           /\ UNCHANGED <<incidents, deleted, row, overdue>>
<1>1. worker[w] \in Busy /\ worker[w].step = "sending"
  BY DEF Send, TypeOK, IdleWorker
<1> DEFINE s == IF ok THEN "sent" ELSE "failed"
           x == [worker[w] EXCEPT !.step = s]
<1>2. s \in {"sent", "failed"} /\ (s = "sent" <=> ok)
  OBVIOUS
<1>3. worker' = [worker EXCEPT ![w] = x]
  BY Zenon DEF Send
<1> HIDE DEF s
<1>4. /\ x \in Busy /\ x.job = worker[w].job /\ x.step = s
  BY <1>1, <1>2 DEF Busy
<1>5. worker[w].job \in Jobs
  BY <1>1 DEF Busy
<1> HIDE DEF x
<1> QED
  BY <1>1, <1>2, <1>3, <1>4, <1>5 DEF Send

LEMMA ClaimEffect ==
  ASSUME TypeOK, NEW w \in Workers, NEW n \in Jobs, Claim(w, n)
  PROVE  \E r \in Rows, x \in Busy :
           /\ worker[w].step = "idle" /\ Due(n)
           /\ row' = [row EXCEPT ![n] = r] /\ worker' = [worker EXCEPT ![w] = x]
           /\ r.state = "processing" /\ r.timer = StaleAfter
           /\ x.step = "sending" /\ x.job = n
           /\ UNCHANGED <<incidents, deleted, history>>
<1> DEFINE k == NextAttempt(n)
           r == [state |-> "processing", attempts |-> k, timer |-> StaleAfter]
           x == [step |-> "sending", job |-> n, attempts |-> k, held |-> 0]
<1>1. k \in 1..AttemptCap
  BY NotificationsAssumption DEF TypeOK, Rows, NextAttempt
<1> HIDE DEF k
<1>2. r \in Rows
  BY <1>1, RowTypes DEF TypeOK
<1>3. x \in Busy
  BY <1>1 DEF Busy
<1>4. row' = [row EXCEPT ![n] = r] /\ worker' = [worker EXCEPT ![w] = x]
  BY DEF Claim, k
<1>5. r.state = "processing" /\ r.timer = StaleAfter /\ x.step = "sending" /\ x.job = n
  OBVIOUS
<1> HIDE DEF r, x
<1> QED
  BY <1>2, <1>3, <1>4, <1>5 DEF Claim

\* What the mark of worker w, or its failure, makes of the row n
Marked(w, n, r) ==
  \/ r = row[n]
  \/ /\ row[n].state \in LiveStates \cup {"none"}
     /\ r.state \in FinalStates /\ r.timer = 0
  \/ /\ row[n].state = "superseded" /\ r.attempts = row[n].attempts
     /\ r.state = "superseded" /\ r.timer = 0
  \/ /\ row[n].state \in LiveStates \cup {"none"}
     /\ r.state = "retrying" /\ ~StaleDown(n) /\ worker[w].step = "failed"

\* A mark, or its failure, leaves the row as it is, ends it, or, if its event
\* is still current, lets it be tried again.
LEMMA MarkEffect ==
  ASSUME TypeOK, NEW w \in Workers,
         MarkDelivered(w) \/ MarkRetry(w) \/ MarkFails(w)
  PROVE  \E r \in Rows, n \in Jobs :
           /\ n = worker[w].job /\ worker[w].step \in {"sent", "failed"}
           /\ row' = [row EXCEPT ![n] = r]
           /\ worker' = [worker EXCEPT ![w] = IdleWorker]
           /\ Marked(w, n, r)
           /\ UNCHANGED <<incidents, deleted, history>>
<1>1. worker[w] \in Busy /\ worker[w].step \in {"sent", "failed"}
  BY DEF MarkDelivered, MarkRetry, MarkFails, TypeOK, IdleWorker
<1>2. PICK n \in Jobs : n = worker[w].job
  BY <1>1 DEF Busy
<1>3. PICK k \in 1..AttemptCap : k = worker[w].attempts
  BY <1>1 DEF Busy
<1>4. row[n] \in Rows
  BY DEF TypeOK
<1>5. /\ worker' = [worker EXCEPT ![w] = IdleWorker]
      /\ UNCHANGED <<incidents, deleted, history>>
  BY DEF MarkDelivered, MarkRetry, MarkFails
<1>6. CASE MarkDelivered(w)
  <2> DEFINE r == Delivered(row[n])
  <2>1. row' = [row EXCEPT ![n] = r] /\ r \in Rows
    BY <1>2, <1>4, <1>6, RowTypes DEF MarkDelivered
  <2>2. \/ r = row[n]
        \/ /\ row[n].state \in LiveStates /\ r.state \in FinalStates /\ r.timer = 0
    BY <1>4 DEF Delivered, Rows, LiveStates, FinalStates
  <2> HIDE DEF r
  <2> QED
    BY <1>1, <1>2, <1>5, <2>1, <2>2 DEF Marked
<1>7. CASE MarkRetry(w)
  <2> DEFINE r == Retried(n, k)
  <2>1. row' = [row EXCEPT ![n] = r] /\ worker[w].step = "failed"
    BY <1>2, <1>3, <1>7 DEF MarkRetry
  <2>2. r \in Rows
    BY <1>4, RowTypes DEF Retried
  <2>3. CASE row[n].state = "delivered"
    <3>1. r = row[n]
      BY <2>3 DEF Retried
    <3> HIDE DEF r
    <3> QED
      BY <1>1, <1>2, <1>5, <2>1, <2>2, <3>1 DEF Marked
  <2>4. CASE row[n].state # "delivered" /\ (row[n].state = "superseded" \/ StaleDown(n))
    <3>1. r = [row[n] EXCEPT !.state = "superseded", !.timer = 0]
      BY <2>4 DEF Retried
    <3>2. r.state = "superseded" /\ r.timer = 0 /\ r.attempts = row[n].attempts
      BY <1>4, <3>1 DEF Rows
    <3> HIDE DEF r
    <3> QED
      BY <1>1, <1>2, <1>4, <1>5, <2>1, <2>2, <2>4, <3>2
         DEF Rows, LiveStates, FinalStates, Marked
  <2>5. CASE row[n].state # "delivered" /\ ~(row[n].state = "superseded" \/ StaleDown(n))
    <3>1. r.state = "retrying"
      BY <1>4, <2>5 DEF Retried, Rows
    <3> HIDE DEF r
    <3> QED
      BY <1>1, <1>2, <1>4, <1>5, <2>1, <2>2, <2>5, <3>1
         DEF Rows, LiveStates, FinalStates, Marked
  <2> QED
    BY <2>3, <2>4, <2>5
<1>8. CASE MarkFails(w)
  <2>1. row' = [row EXCEPT ![n] = row[n]]
    BY <1>8 DEF MarkFails, TypeOK
  <2> QED
    BY <1>1, <1>2, <1>4, <1>5, <2>1 DEF Marked
<1> QED
  BY <1>6, <1>7, <1>8

\* Time passes.
LEMMA TickEffect ==
  ASSUME TypeOK, Tick
  PROVE  /\ row' \in [Jobs -> Rows] /\ worker' \in [Workers -> {IdleWorker} \cup Busy]
         /\ \A n \in Jobs :
              /\ row'[n].state = row[n].state /\ row'[n].attempts = row[n].attempts
              /\ row[n].timer = 0 => row'[n].timer = 0
         /\ \A w \in Workers : /\ worker'[w].step = worker[w].step
                               /\ worker'[w].job = worker[w].job
         /\ overdue' = overdue \cup
              {n \in Jobs : row'[n].state = "processing" /\ row'[n].timer = 0}
         /\ UNCHANGED <<incidents, deleted, accepted>>
<1>1. \A n \in Jobs : /\ row[n] \in Rows
                     /\ row'[n] = [row[n] EXCEPT !.timer =
                                     IF row[n].timer > 0 THEN row[n].timer - 1 ELSE 0]
  BY DEF Tick, TypeOK
<1>2. row' \in [Jobs -> Rows]
  <2>1. \A n \in Jobs : row'[n] \in Rows
    BY <1>1, RowTypes, ZenonT(60)
  <2> QED
    BY <2>1 DEF Tick
<1>3. ASSUME NEW n \in Jobs
      PROVE  /\ row'[n].state = row[n].state /\ row'[n].attempts = row[n].attempts
             /\ row[n].timer = 0 => row'[n].timer = 0
  <2> DEFINE d == IF row[n].timer > 0 THEN row[n].timer - 1 ELSE 0
  <2>1. row[n].timer = 0 => d = 0
    OBVIOUS
  <2> HIDE DEF d
  <2>2. row[n] \in Rows /\ row'[n] = [row[n] EXCEPT !.timer = d]
    BY <1>1 DEF d
  <2> QED
    BY <2>1, <2>2 DEF Rows
<1>4. ASSUME NEW w \in Workers
      PROVE  /\ worker'[w].step = worker[w].step /\ worker'[w].job = worker[w].job
             /\ worker'[w] \in {IdleWorker} \cup Busy
  <2>1. CASE worker[w].step = "idle"
    BY <2>1 DEF Tick, TypeOK
  <2>2. CASE worker[w].step # "idle"
    <3>1. worker[w] \in Busy
      BY <2>2 DEF TypeOK, IdleWorker
    <3>2. worker'[w] = [worker[w] EXCEPT !.held = worker[w].held + 1]
      BY <2>2 DEF Tick
    <3> QED
      BY <3>1, <3>2 DEF Busy
  <2> QED
    BY <2>1, <2>2
<1>5. worker' \in [Workers -> {IdleWorker} \cup Busy]
  BY <1>4 DEF Tick
<1> QED
  BY <1>2, <1>3, <1>4, <1>5 DEF Tick

----------------------------------------------------------------------------
(* Types *)

\* Every step keeps every variable within its type.
LEMMA TypeStep ==
  ASSUME TypeOK, [Next]_vars
  PROVE  TypeOK'
<1>1. ASSUME NEW c \in Checks, NEW hook \in BOOLEAN, OpenIncident(c, hook)
      PROVE  TypeOK'
  <2>1. row' \in [Jobs -> Rows]
    BY <1>1, OpenEffect, RowTypes DEF TypeOK
  <2>2. incidents' \in Seq(IncidentType) /\ Len(incidents') \in Ids
    BY <1>1, OpenEffect
  <2>3. UNCHANGED <<deleted, worker, history>>
    BY <1>1, OpenEffect
  <2> QED
    BY <2>1, <2>2, <2>3 DEF TypeOK, IncidentType, Ids, history
<1>2. ASSUME NEW c \in Checks, NEW hook \in BOOLEAN, ResolveIncident(c, hook)
      PROVE  TypeOK'
  <2>1. PICK i \in 1..Len(incidents) :
          /\ incidents' \in Seq(IncidentType) /\ Len(incidents') = Len(incidents)
          /\ row' = [n \in Jobs |->
               CASE n = <<i, "down">> -> Superseded(row[n])
                 [] n = <<i, "up">> -> NewRow(hook)
                 [] OTHER -> row[n]]
          /\ UNCHANGED <<deleted, worker, history>>
    BY <1>2, ResolveEffect
  <2>2. row' \in [Jobs -> Rows]
    BY <2>1, RowTypes DEF TypeOK
  <2> QED
    BY <2>1, <2>2 DEF TypeOK, IncidentType, history
<1>3. ASSUME NEW c \in Checks, DeleteCheck(c)
      PROVE  TypeOK'
  <2>1. row' \in [Jobs -> Rows]
    <3>1. row' = [n \in Jobs |->
            IF n[1] \in 1..Len(incidents) /\ incidents[n[1]].check = c
              THEN Superseded(row[n]) ELSE row[n]]
      BY <1>3 DEF DeleteCheck
    <3>2. \A n \in Jobs : row[n] \in Rows /\ Superseded(row[n]) \in Rows
      BY RowTypes DEF TypeOK
    <3> QED
      BY <3>1, <3>2
  <2>2. /\ incidents' \in Seq(IncidentType) /\ Len(incidents') = Len(incidents)
        /\ deleted' \subseteq Checks /\ UNCHANGED <<worker, history>>
    BY <1>3, DeleteEffect
  <2> QED
    BY <2>1, <2>2 DEF TypeOK, IncidentType, history
<1>4. ASSUME NEW w \in Workers, NEW n \in Jobs, Claim(w, n)
      PROVE  TypeOK'
  <2>1. PICK r \in Rows, x \in Busy :
          /\ row' = [row EXCEPT ![n] = r] /\ worker' = [worker EXCEPT ![w] = x]
          /\ UNCHANGED <<incidents, deleted, history>>
    BY <1>4, ClaimEffect
  <2> QED
    BY <2>1 DEF TypeOK, history
<1>5. ASSUME NEW w \in Workers, NEW ok \in BOOLEAN, Send(w, ok)
      PROVE  TypeOK'
  <2>1. PICK x \in Busy :
          /\ worker[w].job \in Jobs /\ worker' = [worker EXCEPT ![w] = x]
          /\ accepted' = IF ok THEN accepted \cup {worker[w].job} ELSE accepted
          /\ UNCHANGED <<incidents, deleted, row, overdue>>
    BY <1>5, SendEffect
  <2> QED
    BY <2>1 DEF TypeOK
<1>6. ASSUME NEW w \in Workers, MarkDelivered(w) \/ MarkRetry(w) \/ MarkFails(w)
      PROVE  TypeOK'
  <2>1. PICK r \in Rows, n \in Jobs :
          /\ row' = [row EXCEPT ![n] = r]
          /\ worker' = [worker EXCEPT ![w] = IdleWorker]
          /\ UNCHANGED <<incidents, deleted, history>>
    BY <1>6, MarkEffect
  <2> QED
    BY <2>1 DEF TypeOK, history
<1>7. CASE Crash
  BY <1>7 DEF Crash, TypeOK, history
<1>8. CASE Tick
  <2>1. overdue' \subseteq Jobs
    BY <1>8, TickEffect DEF TypeOK
  <2> QED
    BY <1>8, <2>1, TickEffect DEF TypeOK
<1>9. CASE UNCHANGED vars
  BY <1>9 DEF vars, history, TypeOK
<1> QED
  BY <1>1, <1>2, <1>3, <1>4, <1>5, <1>6, <1>7, <1>8, <1>9 DEF Next

----------------------------------------------------------------------------
(* Down alerts of incidents that are over *)

\* A row that is superseded is final, and one that is not there stays so.
LEMMA SupersededState ==
  \A r \in Rows :
    /\ Superseded(r) \in Rows
    /\ r.state \in LiveStates =>
         Superseded(r).state = "superseded" /\ Superseded(r).timer = 0
    /\ r.state \notin LiveStates => Superseded(r) = r
BY RowTypes DEF Superseded, Rows, LiveStates

\* No step brings a down alert of a resolved incident back.
LEMMA DownStep ==
  ASSUME TypeOK, NoLiveDownAfterRecovery, [Next]_vars
  PROVE  NoLiveDownAfterRecovery'
<1> USE DEF NoLiveDownAfterRecovery
<1>0. /\ Len(incidents) \in Nat /\ 1..Len(incidents) \subseteq Ids
      /\ row \in [Jobs -> Rows]
      /\ \A i \in 1..Len(incidents) : <<i, "down">> \in Jobs
  <2>1. Len(incidents) \in Nat /\ 1..Len(incidents) \subseteq Ids
    BY NotificationsAssumption DEF TypeOK, Ids
  <2> QED
    BY <2>1, JobTypes DEF TypeOK
<1>1. ASSUME NEW c \in Checks, NEW hook \in BOOLEAN, OpenIncident(c, hook)
      PROVE  NoLiveDownAfterRecovery'
  <2>1. /\ Len(incidents') = Len(incidents) + 1
        /\ \A j \in 1..Len(incidents) : /\ incidents'[j] = incidents[j]
                                        /\ row'[<<j, "down">>] = row[<<j, "down">>]
        /\ ~incidents'[Len(incidents) + 1].resolved
    BY <1>0, <1>1, OpenEffect
  <2> QED
    BY <1>0, <2>1
<1>2. ASSUME NEW c \in Checks, NEW hook \in BOOLEAN, ResolveIncident(c, hook)
      PROVE  NoLiveDownAfterRecovery'
  <2>1. PICK i \in 1..Len(incidents) :
          /\ Len(incidents') = Len(incidents)
          /\ \A j \in 1..Len(incidents) \ {i} : incidents'[j] = incidents[j]
          /\ row' = [n \in Jobs |->
               CASE n = <<i, "down">> -> Superseded(row[n])
                 [] n = <<i, "up">> -> NewRow(hook)
                 [] OTHER -> row[n]]
    BY <1>2, ResolveEffect
  <2>2. ASSUME NEW j \in 1..Len(incidents), incidents'[j].resolved
        PROVE  row'[<<j, "down">>].state \notin LiveStates
    <3>1. CASE j = i
      <4>1. row'[<<j, "down">>] = Superseded(row[<<j, "down">>])
        BY <1>0, <2>1, <3>1
      <4> QED
        BY <1>0, <4>1, SupersededState DEF LiveStates
    <3>2. CASE j # i
      <4>1. row'[<<j, "down">>] = row[<<j, "down">>]
        BY <1>0, <2>1, <3>2
      <4> QED
        BY <2>1, <2>2, <3>2, <4>1
    <3> QED
      BY <3>1, <3>2
  <2> QED
    BY <2>1, <2>2
<1>3. ASSUME NEW c \in Checks, DeleteCheck(c)
      PROVE  NoLiveDownAfterRecovery'
  <2>1. Len(incidents') = Len(incidents)
    BY <1>3, DeleteEffect
  <2>2. ASSUME NEW j \in 1..Len(incidents), incidents'[j].resolved
        PROVE  row'[<<j, "down">>].state \notin LiveStates
    <3>1. CASE incidents[j].check = c
      <4>1. row'[<<j, "down">>] = Superseded(row[<<j, "down">>])
        BY <1>0, <1>3, <3>1, DeleteEffect
      <4> QED
        BY <1>0, <4>1, SupersededState DEF LiveStates
    <3>2. CASE incidents[j].check # c
      <4>1. row'[<<j, "down">>] = row[<<j, "down">>] /\ incidents'[j] = incidents[j]
        BY <1>0, <1>3, <3>2, DeleteEffect
      <4> QED
        BY <2>2, <4>1
    <3> QED
      BY <3>1, <3>2
  <2> QED
    BY <2>1, <2>2
<1>4. ASSUME NEW w \in Workers, NEW n \in Jobs, Claim(w, n)
      PROVE  NoLiveDownAfterRecovery'
  <2>1. PICK r \in Rows : /\ row' = [row EXCEPT ![n] = r] /\ Due(n)
                          /\ UNCHANGED incidents
    BY <1>4, ClaimEffect
  <2>2. ASSUME NEW j \in 1..Len(incidents), incidents[j].resolved
        PROVE  n # <<j, "down">>
    BY <2>1, <2>2 DEF Due, StaleDown, IsOpen
  <2> QED
    BY <1>0, <2>1, <2>2
<1>5. ASSUME NEW w \in Workers, MarkDelivered(w) \/ MarkRetry(w) \/ MarkFails(w)
      PROVE  NoLiveDownAfterRecovery'
  <2>1. PICK r \in Rows, n \in Jobs :
          /\ row' = [row EXCEPT ![n] = r] /\ UNCHANGED incidents
          /\ Marked(w, n, r)
    BY <1>5, MarkEffect
  <2>2. ASSUME NEW j \in 1..Len(incidents), incidents[j].resolved
        PROVE  row'[<<j, "down">>].state \notin LiveStates
    <3>1. CASE n = <<j, "down">>
      <4>1. StaleDown(n)
        BY <2>2, <3>1 DEF StaleDown, IsOpen
      <4> QED
        BY <1>0, <2>1, <2>2, <3>1, <4>1 DEF LiveStates, FinalStates, Marked
    <3>2. CASE n # <<j, "down">>
      BY <1>0, <2>1, <2>2, <3>2
    <3> QED
      BY <3>1, <3>2
  <2> QED
    BY <2>1, <2>2
<1>6. CASE Tick
  BY <1>0, <1>6, TickEffect
<1>7. ASSUME NEW w \in Workers, NEW ok \in BOOLEAN, Send(w, ok)
      PROVE  NoLiveDownAfterRecovery'
  BY <1>7 DEF Send
<1>8. CASE Crash \/ UNCHANGED vars
  BY <1>8 DEF Crash, vars
<1> QED
  BY <1>1, <1>2, <1>3, <1>4, <1>5, <1>6, <1>7, <1>8 DEF Next

----------------------------------------------------------------------------
(* Rows come and go in order *)

\* A step that leaves the incidents and a row alone, and gives it no new holder
LEMMA SameRow ==
  ASSUME NEW n \in Jobs, RowOK(n), UNCHANGED incidents,
         row'[n].state = row[n].state, row[n].timer = 0 => row'[n].timer = 0,
         \A w \in Workers : Holding(w, n)' => Holding(w, n)
  PROVE  RowOK(n)'
BY DEF RowOK, IsOpen, Holding

\* Every step keeps the rows in order.
LEMMA RowStep ==
  ASSUME TypeOK, \A n \in Jobs : RowOK(n), [Next]_vars, NEW n \in Jobs
  PROVE  RowOK(n)'
<1>0. /\ RowOK(n) /\ Len(incidents) \in Nat /\ row \in [Jobs -> Rows]
      /\ n[1] \in Nat /\ n[2] \in Events /\ n = <<n[1], n[2]>>
  BY JobTypes DEF TypeOK, Ids
<1>1. ASSUME NEW c \in Checks, NEW hook \in BOOLEAN, OpenIncident(c, hook)
      PROVE  RowOK(n)'
  <2> DEFINE i == Len(incidents) + 1
  <2>1. /\ Len(incidents') = i /\ i \in Ids
        /\ \A j \in 1..Len(incidents) : incidents'[j] = incidents[j]
        /\ row' = [m \in Jobs |-> IF m = <<i, "down">> THEN NewRow(hook) ELSE row[m]]
        /\ UNCHANGED worker
    BY <1>1, OpenEffect
  <2>2. \A w \in Workers : Holding(w, n)' <=> Holding(w, n)
    BY <2>1 DEF Holding
  <2>3. CASE n = <<i, "down">>
    <3>1. /\ row[n].state = "none" /\ row'[n] = NewRow(hook)
          /\ \A w \in Workers : ~Holding(w, n)
      BY <1>0, <2>1, <2>3 DEF RowOK
    <3>2. n[1] = i /\ n[2] = "down" /\ row'[n].state \notin FinalStates
      BY <2>3, <3>1 DEF NewRow, NoRow, FinalStates
    <3> QED
      BY <2>1, <2>2, <3>1, <3>2, <1>0 DEF RowOK
  <2>4. CASE n # <<i, "down">>
    <3>1. row'[n] = row[n]
      BY <2>1, <2>4
    <3>2. n[1] > Len(incidents') => n[1] > Len(incidents)
      BY <1>0, <2>1
    <3>3. n[2] = "up" /\ IsOpen(n[1])' => row[n].state = "none"
      BY <1>0, <2>1 DEF RowOK, IsOpen
    <3> QED
      BY <1>0, <2>2, <3>1, <3>2, <3>3 DEF RowOK
  <2> QED
    BY <2>3, <2>4
<1>2. ASSUME NEW c \in Checks, NEW hook \in BOOLEAN, ResolveIncident(c, hook)
      PROVE  RowOK(n)'
  <2>1. PICK i \in 1..Len(incidents) :
          /\ IsOpen(i) /\ i \in Ids /\ Len(incidents') = Len(incidents)
          /\ \A j \in 1..Len(incidents) \ {i} : incidents'[j] = incidents[j]
          /\ incidents'[i].resolved
          /\ row' = [m \in Jobs |->
               CASE m = <<i, "down">> -> Superseded(row[m])
                 [] m = <<i, "up">> -> NewRow(hook)
                 [] OTHER -> row[m]]
          /\ UNCHANGED worker
    BY <1>2, ResolveEffect
  <2>2. \A w \in Workers : Holding(w, n)' <=> Holding(w, n)
    BY <2>1 DEF Holding
  <2>3. IsOpen(n[1])' => IsOpen(n[1])
    BY <2>1 DEF IsOpen
  <2>4. CASE n = <<i, "down">>
    <3>1. row'[n] = Superseded(row[n]) /\ n[1] = i /\ n[2] = "down"
      BY <2>1, <2>4
    <3>2. /\ row[n].state = "none" => row'[n].state = "none"
          /\ row[n].state # "none" => row'[n].state # "none"
          /\ row'[n].state \in FinalStates => row'[n].timer = 0
      BY <1>0, <3>1, SupersededState DEF RowOK, LiveStates
    <3> QED
      BY <1>0, <2>1, <2>2, <3>1, <3>2 DEF RowOK
  <2>5. CASE n = <<i, "up">>
    <3>1. row'[n] = NewRow(hook) /\ n[1] = i /\ n[2] = "up"
      BY <2>1, <2>5
    <3>2. ~IsOpen(n[1])' /\ ~(n[1] > Len(incidents))
      BY <2>1, <3>1 DEF IsOpen
    <3>3. row'[n].state \notin FinalStates
      BY <3>1 DEF NewRow, NoRow, FinalStates
    <3>4. \A w \in Workers : ~Holding(w, n)
      BY <1>0, <2>1, <3>1 DEF RowOK
    <3> QED
      BY <2>1, <2>2, <3>2, <3>3, <3>4 DEF RowOK
  <2>6. CASE n # <<i, "down">> /\ n # <<i, "up">>
    <3>1. row'[n] = row[n]
      BY <2>1, <2>6
    <3> QED
      BY <1>0, <2>1, <2>2, <2>3, <3>1 DEF RowOK
  <2> QED
    BY <2>4, <2>5, <2>6
<1>3. ASSUME NEW c \in Checks, DeleteCheck(c)
      PROVE  RowOK(n)'
  <2>1. Len(incidents') = Len(incidents) /\ UNCHANGED worker
    BY <1>3, DeleteEffect
  <2>2. \A w \in Workers : Holding(w, n)' <=> Holding(w, n)
    BY <2>1 DEF Holding
  <2>3. IsOpen(n[1])' => IsOpen(n[1])
    BY <1>3, DeleteEffect DEF IsOpen
  <2>4. row'[n] = Superseded(row[n]) \/ row'[n] = row[n]
    BY <1>3, DeleteEffect
  <2>5. /\ row[n].state = "none" => row'[n].state = "none"
        /\ row[n].state # "none" => row'[n].state # "none"
        /\ row'[n].state \in FinalStates => row'[n].timer = 0
    BY <1>0, <2>4, SupersededState DEF RowOK, LiveStates
  <2> QED
    BY <1>0, <2>1, <2>2, <2>3, <2>5 DEF RowOK
<1>4. ASSUME NEW w \in Workers, NEW m \in Jobs, Claim(w, m)
      PROVE  RowOK(n)'
  <2>1. PICK r \in Rows, x \in Busy :
          /\ Due(m) /\ row' = [row EXCEPT ![m] = r]
          /\ worker' = [worker EXCEPT ![w] = x]
          /\ r.state = "processing" /\ x.job = m /\ UNCHANGED incidents
    BY <1>4, ClaimEffect
  <2>2. worker \in [Workers -> {IdleWorker} \cup Busy]
    BY DEF TypeOK
  <2>3. CASE n = m
    <3>1. row'[n] = r /\ row[n].state # "none"
      BY <1>0, <2>1, <2>3 DEF Due, LiveStates
    <3> QED
      BY <1>0, <2>1, <3>1 DEF RowOK, IsOpen, FinalStates
  <2>4. CASE n # m
    <3>1. \A v \in Workers : Holding(v, n)' => Holding(v, n)
      BY <2>1, <2>2, <2>4 DEF Holding
    <3> QED
      BY <1>0, <2>1, <2>4, <3>1, SameRow
  <2> QED
    BY <2>3, <2>4
<1>5. ASSUME NEW w \in Workers, MarkDelivered(w) \/ MarkRetry(w) \/ MarkFails(w)
      PROVE  RowOK(n)'
  <2>1. PICK r \in Rows, m \in Jobs :
          /\ m = worker[w].job /\ worker[w].step \in {"sent", "failed"}
          /\ row' = [row EXCEPT ![m] = r] /\ UNCHANGED incidents
          /\ worker' = [worker EXCEPT ![w] = IdleWorker]
          /\ Marked(w, m, r)
    BY <1>5, MarkEffect
  <2>2. \A v \in Workers : Holding(v, n)' => Holding(v, n)
    BY <2>1 DEF Holding, TypeOK, IdleWorker
  <2>3. CASE n = m
    <3>1. Holding(w, n)
      BY <2>1, <2>3 DEF Holding
    <3>2. row[n].state # "none" /\ row'[n] = r
      BY <1>0, <2>1, <2>3, <3>1 DEF RowOK
    <3> QED
      BY <1>0, <2>1, <2>2, <2>3, <3>2 DEF RowOK, IsOpen, FinalStates, Marked
  <2>4. CASE n # m
    BY <1>0, <2>1, <2>2, <2>4, SameRow
  <2> QED
    BY <2>3, <2>4
<1>6. ASSUME NEW w \in Workers, NEW ok \in BOOLEAN, Send(w, ok)
      PROVE  RowOK(n)'
  <2>1. PICK x \in Busy :
          /\ worker[w].step = "sending" /\ worker' = [worker EXCEPT ![w] = x]
          /\ x.job = worker[w].job /\ UNCHANGED <<incidents, row>>
    BY <1>6, SendEffect
  <2>2. \A v \in Workers : Holding(v, n)' => Holding(v, n)
    BY <2>1 DEF Holding, TypeOK
  <2> QED
    BY <1>0, <2>1, <2>2, SameRow
<1>7. CASE Tick
  <2>1. \A v \in Workers : Holding(v, n)' => Holding(v, n)
    BY <1>7, TickEffect DEF Holding
  <2> QED
    BY <1>0, <1>7, <2>1, TickEffect, SameRow
<1>8. CASE Crash \/ UNCHANGED vars
  <2>1. \A v \in Workers : Holding(v, n)' => Holding(v, n)
    BY <1>8 DEF Crash, vars, Holding, IdleWorker
  <2> QED
    BY <1>0, <1>8, <2>1, SameRow DEF Crash, vars
<1> QED
  BY <1>1, <1>2, <1>3, <1>4, <1>5, <1>6, <1>7, <1>8 DEF Next

----------------------------------------------------------------------------
(* One claim, one send *)

\* A step that leaves a row in the state it is in, or supersedes it, and gives
\* it no new holder, and no holder a new step
LEMMA SameClaim ==
  ASSUME NEW n \in Jobs, ClaimOK(n),
         \/ row'[n].state = row[n].state
         \/ row[n].state \in LiveStates /\ row'[n].state = "superseded",
         row'[n].state = "processing" => row'[n].timer > 0,
         \A w \in Workers :
           Holding(w, n)' => Holding(w, n) /\ worker'[w].step = worker[w].step,
         n \in accepted' => n \in accepted
  PROVE  ClaimOK(n)'
BY DEF ClaimOK, LiveStates, Holding

\* Every step keeps the claims of a row in order while they are marked in time.
LEMMA ClaimStep ==
  ASSUME TypeOK, [Next]_vars, NEW n \in Jobs,
         \A m \in Jobs : RowOK(m) /\ (m \notin overdue => ClaimOK(m)), n \notin overdue'
  PROVE  ClaimOK(n)'
<1>0. /\ n \notin overdue /\ ClaimOK(n) /\ RowOK(n) /\ row \in [Jobs -> Rows]
      /\ worker \in [Workers -> {IdleWorker} \cup Busy]
  <2>1. n \notin overdue
    <3>1. overdue \subseteq overdue'
      BY DEF Next, OpenIncident, ResolveIncident, DeleteCheck, Claim, Send,
             MarkDelivered, MarkRetry, MarkFails, Crash, Tick, history, vars
    <3> QED
      BY <3>1
  <2> QED
    BY <2>1 DEF TypeOK
<1>1. ASSUME NEW c \in Checks, NEW hook \in BOOLEAN, OpenIncident(c, hook)
      PROVE  ClaimOK(n)'
  <2> DEFINE i == Len(incidents) + 1
  <2>1. /\ i \in Nat /\ Len(incidents) \in Nat
        /\ row' = [m \in Jobs |-> IF m = <<i, "down">> THEN NewRow(hook) ELSE row[m]]
        /\ UNCHANGED <<worker, accepted>>
    BY <1>1, OpenEffect DEF history, Ids
  <2>2. \A w \in Workers : Holding(w, n)' <=> Holding(w, n)
    BY <2>1 DEF Holding
  <2>3. CASE n = <<i, "down">>
    <3>1. n[1] > Len(incidents)
      BY <2>1, <2>3
    <3>2. row[n].state = "none"
      BY <1>0, <3>1 DEF RowOK
    <3>3. n \notin accepted /\ \A w \in Workers : ~Holding(w, n)
      BY <1>0, <3>2 DEF ClaimOK
    <3>4. row'[n].state # "processing"
      BY <2>1, <2>3 DEF NewRow, NoRow
    <3> QED
      BY <2>1, <2>2, <3>3, <3>4 DEF ClaimOK
  <2>4. CASE n # <<i, "down">>
    BY <1>0, <2>1, <2>2, <2>4, SameClaim DEF ClaimOK
  <2> QED
    BY <2>3, <2>4
<1>2. ASSUME NEW c \in Checks, NEW hook \in BOOLEAN, ResolveIncident(c, hook)
      PROVE  ClaimOK(n)'
  <2>1. PICK i \in 1..Len(incidents) :
          /\ IsOpen(i)
          /\ row' = [m \in Jobs |->
               CASE m = <<i, "down">> -> Superseded(row[m])
                 [] m = <<i, "up">> -> NewRow(hook)
                 [] OTHER -> row[m]]
          /\ UNCHANGED <<worker, accepted>>
    BY <1>2, ResolveEffect DEF history
  <2>2. \A w \in Workers : Holding(w, n)' <=> Holding(w, n)
    BY <2>1 DEF Holding
  <2>3. CASE n = <<i, "down">>
    <3>1. row'[n] = Superseded(row[n])
      BY <2>1, <2>3
    <3>2. /\ \/ row'[n] = row[n]
             \/ row[n].state \in LiveStates /\ row'[n].state = "superseded"
      BY <1>0, <3>1, SupersededState
    <3> QED
      BY <1>0, <2>1, <2>2, <3>2, SameClaim DEF ClaimOK
  <2>4. CASE n = <<i, "up">>
    <3>1. row[n].state = "none" /\ row'[n] = NewRow(hook)
      BY <1>0, <2>1, <2>4 DEF RowOK
    <3>2. n \notin accepted /\ \A w \in Workers : ~Holding(w, n)
      BY <1>0, <3>1 DEF ClaimOK
    <3>3. row'[n].state # "processing"
      BY <3>1 DEF NewRow, NoRow
    <3> QED
      BY <2>1, <2>2, <3>2, <3>3 DEF ClaimOK
  <2>5. CASE n # <<i, "down">> /\ n # <<i, "up">>
    <3>1. row'[n] = row[n]
      BY <2>1, <2>5
    <3> QED
      BY <1>0, <2>1, <2>2, <3>1, SameClaim DEF ClaimOK
  <2> QED
    BY <2>3, <2>4, <2>5
<1>3. ASSUME NEW c \in Checks, DeleteCheck(c)
      PROVE  ClaimOK(n)'
  <2>1. /\ UNCHANGED <<worker, accepted>>
        /\ row'[n] = Superseded(row[n]) \/ row'[n] = row[n]
    BY <1>3, DeleteEffect DEF history
  <2>2. \A w \in Workers : Holding(w, n)' <=> Holding(w, n)
    BY <2>1 DEF Holding
  <2>3. \/ row'[n] = row[n]
        \/ row[n].state \in LiveStates /\ row'[n].state = "superseded"
    BY <1>0, <2>1, SupersededState
  <2> QED
    BY <1>0, <2>1, <2>2, <2>3, SameClaim DEF ClaimOK
<1>4. ASSUME NEW w \in Workers, NEW m \in Jobs, Claim(w, m)
      PROVE  ClaimOK(n)'
  <2>1. PICK r \in Rows, x \in Busy :
          /\ Due(m) /\ row' = [row EXCEPT ![m] = r]
          /\ worker' = [worker EXCEPT ![w] = x]
          /\ r.state = "processing" /\ r.timer = StaleAfter
          /\ x.job = m /\ UNCHANGED accepted
    BY <1>4, ClaimEffect DEF history
  <2>2. CASE n = m
    <3>1. row[n].timer = 0 /\ row[n].state \in LiveStates
      BY <2>1, <2>2 DEF Due
    <3>2. row[n].state \in {"pending", "retrying"}
      BY <1>0, <3>1 DEF ClaimOK, LiveStates
    <3>3. n \notin accepted /\ \A v \in Workers : ~Holding(v, n)
      BY <1>0, <3>2 DEF ClaimOK
    <3>4. \A v \in Workers : Holding(v, n)' => v = w
      BY <1>0, <2>1, <3>3 DEF Holding
    <3>5. row'[n].state = "processing" /\ row'[n].timer > 0
      BY <1>0, <2>1, <2>2, NotificationsAssumption
    <3> QED
      BY <2>1, <3>3, <3>4, <3>5 DEF ClaimOK
  <2>3. CASE n # m
    <3>1. \A v \in Workers :
           Holding(v, n)' => Holding(v, n) /\ worker'[v].step = worker[v].step
      BY <1>0, <2>1, <2>3 DEF Holding
    <3>2. row'[n] = row[n]
      BY <1>0, <2>1, <2>3
    <3> QED
      BY <1>0, <2>1, <3>1, <3>2, SameClaim DEF ClaimOK
  <2> QED
    BY <2>2, <2>3
<1>5. ASSUME NEW w \in Workers, MarkDelivered(w) \/ MarkRetry(w) \/ MarkFails(w)
      PROVE  ClaimOK(n)'
  <2>1. PICK r \in Rows, m \in Jobs :
          /\ m = worker[w].job /\ worker[w].step \in {"sent", "failed"}
          /\ row' = [row EXCEPT ![m] = r] /\ UNCHANGED accepted
          /\ worker' = [worker EXCEPT ![w] = IdleWorker]
          /\ Marked(w, m, r)
    BY <1>5, MarkEffect DEF history
  <2>2. \A v \in Workers :
          Holding(v, n)' => Holding(v, n) /\ worker'[v].step = worker[v].step
    BY <1>0, <2>1 DEF Holding, IdleWorker
  <2>3. CASE n = m
    <3>1. Holding(w, n)
      BY <2>1, <2>3 DEF Holding
    <3>2. \A v \in Workers : ~Holding(v, n)'
      BY <1>0, <2>1, <3>1 DEF ClaimOK, Holding, IdleWorker
    <3>3. n \in accepted => worker[w].step = "sent"
      BY <1>0, <3>1 DEF ClaimOK
    <3>4. row'[n] = r
      BY <1>0, <2>1, <2>3
    <3>5. row'[n].state = "processing" => row'[n].timer > 0
      BY <1>0, <2>1, <2>3, <3>4 DEF ClaimOK, FinalStates, Marked
    <3>6. n \in accepted => row'[n].state \in {"processing", "delivered", "superseded"}
      BY <1>0, <2>1, <2>3, <3>3, <3>4 DEF ClaimOK, FinalStates, Marked
    <3> QED
      BY <2>1, <3>2, <3>5, <3>6 DEF ClaimOK
  <2>4. CASE n # m
    <3>1. row'[n] = row[n]
      BY <1>0, <2>1, <2>4
    <3> QED
      BY <1>0, <2>1, <2>2, <3>1, SameClaim DEF ClaimOK
  <2> QED
    BY <2>3, <2>4
<1>6. ASSUME NEW w \in Workers, NEW ok \in BOOLEAN, Send(w, ok)
      PROVE  ClaimOK(n)'
  <2>1. PICK x \in Busy :
          /\ worker[w].step = "sending" /\ worker' = [worker EXCEPT ![w] = x]
          /\ x.job = worker[w].job /\ (x.step = "sent" <=> ok)
          /\ accepted' = IF ok THEN accepted \cup {worker[w].job} ELSE accepted
          /\ UNCHANGED row
    BY <1>6, SendEffect
  <2>2. \A v \in Workers : Holding(v, n)' => Holding(v, n)
    BY <1>0, <2>1 DEF Holding
  <2>3. CASE worker[w].job = n
    <3>1. Holding(w, n) /\ \A v \in Workers : Holding(v, n) => v = w
      BY <1>0, <2>1, <2>3 DEF ClaimOK, Holding
    <3>2. n \notin accepted
      BY <1>0, <2>1, <3>1 DEF ClaimOK
    <3>3. n \in accepted' => worker'[w].step = "sent"
      BY <1>0, <2>1, <3>2
    <3>4. row[n].state \in {"processing", "superseded"}
      BY <1>0, <3>1 DEF ClaimOK
    <3> QED
      BY <1>0, <2>1, <2>2, <3>1, <3>3, <3>4 DEF ClaimOK
  <2>4. CASE worker[w].job # n
    <3>1. n \in accepted' => n \in accepted
      BY <2>1, <2>4
    <3>2. \A v \in Workers :
            Holding(v, n)' => Holding(v, n) /\ worker'[v].step = worker[v].step
      BY <1>0, <2>1, <2>4 DEF Holding
    <3> QED
      BY <1>0, <2>1, <3>1, <3>2, SameClaim DEF ClaimOK
  <2> QED
    BY <2>3, <2>4
<1>7. CASE Tick
  <2>1. \A v \in Workers :
          Holding(v, n)' => Holding(v, n) /\ worker'[v].step = worker[v].step
    BY <1>7, TickEffect DEF Holding
  <2>2. /\ row'[n].state = row[n].state /\ row'[n] \in Rows /\ UNCHANGED accepted
        /\ ~(row'[n].state = "processing" /\ row'[n].timer = 0)
    BY <1>7, TickEffect
  <2>3. row'[n].state = "processing" => row'[n].timer > 0
    BY <2>2 DEF Rows
  <2> QED
    BY <1>0, <2>1, <2>2, <2>3, SameClaim
<1>8. CASE Crash \/ UNCHANGED vars
  <2>1. \A v \in Workers :
          Holding(v, n)' => Holding(v, n) /\ worker'[v].step = worker[v].step
    BY <1>8 DEF Crash, vars, Holding, IdleWorker
  <2>2. UNCHANGED <<row, accepted>>
    BY <1>8 DEF Crash, vars, history
  <2> QED
    BY <1>0, <2>1, <2>2, SameClaim DEF ClaimOK
<1> QED
  BY <1>1, <1>2, <1>3, <1>4, <1>5, <1>6, <1>7, <1>8 DEF Next

----------------------------------------------------------------------------
(* Theorems *)

\* The inductive invariant holds in every state.
LEMMA NotificationsInvHolds ==
  Spec => []NotificationsInv
<1>1. Init => NotificationsInv
  <2> SUFFICES ASSUME Init PROVE NotificationsInv
    OBVIOUS
  <2>1. TypeOK
    <3>1. incidents \in Seq(IncidentType) /\ Len(incidents) <= MaxIncidents
      BY NotificationsAssumption DEF Init
    <3>2. row \in [Jobs -> Rows]
      BY RowTypes DEF Init
    <3>3. worker \in [Workers -> {IdleWorker} \cup Busy]
      BY DEF Init
    <3> QED
      BY <3>1, <3>2, <3>3 DEF Init, TypeOK, IncidentType
  <2>2. NoLiveDownAfterRecovery
    <3>1. Len(incidents) = 0
      BY DEF Init
    <3> QED
      BY <3>1 DEF NoLiveDownAfterRecovery
  <2>3. ASSUME NEW n \in Jobs
        PROVE  RowOK(n) /\ ClaimOK(n)
    <3>1. row[n].state = "none" /\ n \notin accepted
      BY DEF Init, NoRow
    <3>2. \A w \in Workers : ~Holding(w, n)
      BY DEF Init, Holding, IdleWorker
    <3> QED
      BY <3>1, <3>2 DEF RowOK, ClaimOK, FinalStates
  <2> QED
    BY <2>1, <2>2, <2>3 DEF NotificationsInv
<1>2. NotificationsInv /\ [Next]_vars => NotificationsInv'
  BY TypeStep, DownStep, RowStep, ClaimStep DEF NotificationsInv
<1> QED
  BY <1>1, <1>2, PTL DEF Spec

\* Every variable stays within its type.
THEOREM NotificationsTypes ==
  Spec => []TypeOK
<1>1. NotificationsInv => TypeOK
  BY DEF NotificationsInv
<1> QED
  BY <1>1, NotificationsInvHolds, PTL

\* Once an incident is resolved no down alert of it is claimed any more,
\* however late the marks of workers come.
THEOREM RecoveryEndsDown ==
  Spec => []NoLiveDownAfterRecovery
<1>1. NotificationsInv => NoLiveDownAfterRecovery
  BY DEF NotificationsInv
<1> QED
  BY <1>1, NotificationsInvHolds, PTL

\* A webhook is not called twice, by two workers or after a 2xx, unless a claim
\* was not marked in time.
THEOREM SendsOnce ==
  Spec => []NoDuplicateSends
<1>1. NotificationsInv => NoDuplicateSends
  <2> SUFFICES ASSUME NotificationsInv, NEW n \in Jobs \ overdue
               PROVE  /\ \A v, w \in Workers : Sends(v, n) /\ Sends(w, n) => v = w
                      /\ n \in accepted => \A w \in Workers : ~Sends(w, n)
    BY DEF NoDuplicateSends
  <2>1. ClaimOK(n)
    BY DEF NotificationsInv
  <2>2. \A w \in Workers : Sends(w, n) => Holding(w, n) /\ worker[w].step # "sent"
    BY DEF Sends, Holding
  <2> QED
    BY <2>1, <2>2 DEF ClaimOK
<1> QED
  BY <1>1, NotificationsInvHolds, PTL

\* A delivered or superseded row never changes again.
THEOREM FinalRowsStay ==
  Spec => FinalStatesStay
<1>1. ASSUME NotificationsInv, [Next]_vars, NEW n \in Jobs,
             row[n].state \in FinalStates
      PROVE  row'[n] = row[n]
  <2>0. /\ TypeOK /\ RowOK(n) /\ row \in [Jobs -> Rows] /\ row[n] \in Rows
        /\ row[n].state \notin LiveStates /\ row[n].state # "none"
        /\ row[n].timer = 0 /\ n[1] \in Nat /\ Len(incidents) \in Nat
    <3>1. TypeOK /\ RowOK(n)
      BY <1>1 DEF NotificationsInv
    <3> QED
      BY <1>1, <3>1, JobTypes DEF RowOK, TypeOK, LiveStates, FinalStates, Ids
  <2>1. ASSUME NEW c \in Checks, NEW hook \in BOOLEAN, OpenIncident(c, hook)
        PROVE  row'[n] = row[n]
    <3>1. n # <<Len(incidents) + 1, "down">>
      BY <2>0 DEF RowOK
    <3> QED
      BY <2>0, <2>1, <3>1, OpenEffect
  <2>2. ASSUME NEW c \in Checks, NEW hook \in BOOLEAN, ResolveIncident(c, hook)
        PROVE  row'[n] = row[n]
    <3>1. PICK i \in 1..Len(incidents) :
            /\ IsOpen(i)
            /\ row' = [m \in Jobs |->
                 CASE m = <<i, "down">> -> Superseded(row[m])
                   [] m = <<i, "up">> -> NewRow(hook)
                   [] OTHER -> row[m]]
      BY <2>0, <2>2, ResolveEffect
    <3>2. n # <<i, "up">>
      BY <2>0, <3>1 DEF RowOK
    <3>3. row'[n] = Superseded(row[n]) \/ row'[n] = row[n]
      BY <3>1, <3>2
    <3> QED
      BY <2>0, <3>3, SupersededState
  <2>3. ASSUME NEW c \in Checks, DeleteCheck(c)
        PROVE  row'[n] = row[n]
    <3>1. row'[n] = Superseded(row[n]) \/ row'[n] = row[n]
      BY <2>0, <2>3, DeleteEffect
    <3> QED
      BY <2>0, <3>1, SupersededState
  <2>4. ASSUME NEW w \in Workers, NEW m \in Jobs, Claim(w, m)
        PROVE  row'[n] = row[n]
    <3>1. Due(m) /\ \E r \in Rows : row' = [row EXCEPT ![m] = r]
      BY <2>0, <2>4, ClaimEffect
    <3>2. n # m
      BY <2>0, <3>1 DEF Due
    <3> QED
      BY <2>0, <3>1, <3>2
  <2>5. ASSUME NEW w \in Workers, MarkDelivered(w) \/ MarkRetry(w) \/ MarkFails(w)
        PROVE  row'[n] = row[n]
    <3>1. PICK r \in Rows, m \in Jobs :
            row' = [row EXCEPT ![m] = r] /\ Marked(w, m, r)
      BY <2>0, <2>5, MarkEffect
    <3>2. CASE n = m
      <4>1. \/ r = row[n]
            \/ /\ row[n].state = "superseded" /\ r.attempts = row[n].attempts
               /\ r.state = "superseded" /\ r.timer = 0
        BY <2>0, <3>1, <3>2 DEF Marked
      <4>2. r = row[n]
        BY <2>0, <4>1 DEF Rows
      <4> QED
        BY <2>0, <3>1, <3>2, <4>2
    <3>3. CASE n # m
      BY <2>0, <3>1, <3>3
    <3> QED
      BY <3>2, <3>3
  <2>6. CASE Tick
    <3>1. /\ row'[n] \in Rows /\ row'[n].state = row[n].state
          /\ row'[n].attempts = row[n].attempts /\ row'[n].timer = 0
      BY <2>0, <2>6, TickEffect
    <3> QED
      BY <2>0, <3>1 DEF Rows
  <2>7. ASSUME NEW w \in Workers, NEW ok \in BOOLEAN, Send(w, ok)
        PROVE  row'[n] = row[n]
    BY <2>7 DEF Send
  <2>8. CASE Crash \/ UNCHANGED vars
    BY <2>8 DEF Crash, vars
  <2> QED
    BY <1>1, <2>1, <2>2, <2>3, <2>4, <2>5, <2>6, <2>7, <2>8 DEF Next
<1>2. NotificationsInv /\ [Next]_vars =>
        [\A n \in Jobs : row[n].state \in FinalStates => row'[n] = row[n]]_vars
  BY <1>1
<1> QED
  BY <1>2, NotificationsInvHolds, PTL DEF Spec, FinalStatesStay

============================================================================
