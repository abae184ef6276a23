------------------------------ MODULE Uploads ------------------------------
(***************************************************************************)
(* The way of a result, from the probe's queue to the vote of the probe:   *)
(* the resultBatcher of one probe composed with the handlers of the server *)
(* that receive its uploads and with the CheckMachine of one check.        *)
(*                                                                         *)
(* The server stamps results with the time of arrival and keeps no number  *)
(* of them, so it cannot tell a batch that is uploaded again from a new    *)
(* one.  The batcher has one upload at a time, but it gives up after       *)
(* DefaultRequestTimeout, and the handler, which looks at no context, goes *)
(* on without it.                                                          *)
(***************************************************************************)
EXTENDS ResultBatcher, QuorumMachine

CONSTANTS
  Network,    \* the answers to an upload that may happen
  Handlers,   \* bound: goroutines of the server that run handleResult
  NoHandler

ASSUME UploadsAssumption == Network \subseteq Answers /\ NoHandler \notin Handlers

VARIABLES
  outcome,    \* what the probe measures, by result
  handler,    \* each goroutine: its step, its batch and the result it is at
  current,    \* the handler of the upload that the probe waits for
  exec,       \* the CheckExecState of the check and the probe
  before,     \* exec when the handler that holds the mutex took it
  processed,  \* history: the results that the server has processed
  overtaken   \* history: the last batch it processed had been given up

server == <<outcome, handler, current, exec, before, processed, overtaken>>
allVars == <<vars, server>>

HandlerSteps == {"idle", "waiting", "applying", "ok", "failed"}

IdleHandler == [step |-> "idle", results |-> <<>>, next |-> 1]

UploadsTypeOK ==
  /\ TypeOK
  /\ outcome \in [Results -> StableStates]
  /\ handler \in [Handlers -> [step : HandlerSteps, results : Seq(Results),
                               next : Nat]]
  /\ current \in Handlers \cup {NoHandler}
  /\ exec \in ExecStates({NoTime, 1}) /\ before \in ExecStates({NoTime, 1})
  /\ processed \subseteq Results
  /\ overtaken \in BOOLEAN

UploadsInit ==
  /\ Init
  /\ outcome \in [Results -> StableStates]
  /\ handler = [h \in Handlers |-> IdleHandler]
  /\ current = NoHandler
  /\ exec = NewCheckExecState /\ before = NewCheckExecState
  /\ processed = {} /\ overtaken = FALSE

----------------------------------------------------------------------------
(* The server *)

\* The upload reaches ProcessBatch.
Receive(h) ==
  /\ loop = "posting" /\ current = NoHandler
  /\ handler[h].step = "idle"
  /\ handler' = [handler EXCEPT ![h] =
                   [step |-> "waiting", results |-> batch, next |-> 1]]
  /\ current' = h
  /\ UNCHANGED <<vars, outcome, exec, before, processed, overtaken>>

MutexFree == \A h \in Handlers : handler[h].step # "applying"

\* applyObservedResultBatch takes the mutex ...
Lock(h) ==
  /\ handler[h].step = "waiting" /\ MutexFree
  /\ handler' = [handler EXCEPT ![h].step = "applying"]
  /\ before' = exec
  /\ UNCHANGED <<vars, outcome, current, exec, processed, overtaken>>

\* Mutant: the batch is applied from its end.
ApplyResult_FromEnd(h) ==
  LET x == handler[h]
  IN  /\ x.step = "applying" /\ x.next <= Len(x.results)
      /\ exec' = Observe(exec, outcome[x.results[Len(x.results) + 1 - x.next]], 1)
      /\ handler' = [handler EXCEPT ![h].next = @ + 1]
      /\ UNCHANGED <<vars, outcome, current, before, processed, overtaken>>

\* ... applies one result after the other ...
ApplyResult(h) ==
  LET x == handler[h]
  IN  /\ x.step = "applying" /\ x.next <= Len(x.results)
      /\ exec' = Observe(exec, outcome[x.results[x.next]], 1)
      /\ handler' = [handler EXCEPT ![h].next = @ + 1]
      /\ UNCHANGED <<vars, outcome, current, before, processed, overtaken>>

ResultsOf(h) == {handler[h].results[i] : i \in 1..Len(handler[h].results)}

\* The handler answers, if there is still somebody to answer to.
Finished(h, answer) ==
  handler' = [handler EXCEPT ![h] =
                IF h = current THEN [@ EXCEPT !.step = answer] ELSE IdleHandler]

\* ... and persists the batch ...
Persist(h) ==
  /\ handler[h].step = "applying" /\ handler[h].next > Len(handler[h].results)
  /\ Finished(h, "ok")
  /\ processed' = processed \cup ResultsOf(h)
  /\ overtaken' = (h # current)
  /\ before' = NewCheckExecState
  /\ UNCHANGED <<vars, outcome, current, exec>>

\* ... or undoes all of it, when a result or the transaction fails.
Rollback(h) ==
  /\ handler[h].step = "applying"
  /\ Finished(h, "failed")
  /\ exec' = before /\ before' = NewCheckExecState
  /\ UNCHANGED <<vars, outcome, current, processed, overtaken>>

\* SweepChecks, when the result is too old
LoseEvidenceOfProbe ==
  /\ MutexFree
  /\ exec.LastOutcome # "none"
  /\ exec' = LoseEvidence(exec)
  /\ UNCHANGED <<vars, outcome, handler, current, before, processed, overtaken>>

----------------------------------------------------------------------------
(* The probe *)

\* How far the server is with the upload
Progress == IF current = NoHandler THEN "idle" ELSE handler[current].step

\* An answer, or none, is what the server's progress allows: without one the
\* upload is retried, whether it never arrived, failed, or is still running.
Possible(answer) ==
  CASE answer \in {"ok", "answer_lost"} -> Progress = "ok"
    [] answer = "rejected"  -> Progress = "idle"
    [] answer = "retryable" -> Progress # "ok"

\* flushOne from the upload on.  The handler has ended or goes on alone.
Upload(answer) ==
  /\ PostResults(answer)
  /\ Possible(answer)
  /\ handler' = IF Progress \in {"ok", "failed"}
                  THEN [handler EXCEPT ![current] = IdleHandler] ELSE handler
  /\ current' = NoHandler
  /\ UNCHANGED <<outcome, exec, before, processed, overtaken>>

UploadsNext ==
  \/ /\ Enqueue \/ Close \/ SelectTick \/ SelectWake \/ SelectStop \/ TakeBatch
     /\ UNCHANGED server
  \/ \E answer \in Network : Upload(answer)
  \/ \E h \in Handlers :
       Receive(h) \/ Lock(h) \/ ApplyResult(h) \/ Persist(h) \/ Rollback(h)
  \/ LoseEvidenceOfProbe

UploadsSpec == UploadsInit /\ [][UploadsNext]_allVars

----------------------------------------------------------------------------
(* Properties *)

Newest(s) == CHOOSE r \in s : \A q \in s : q <= r

NewestEvidence(e) ==
  ~overtaken /\ e.LastOutcome # "none" => e.LastOutcome = outcome[Newest(processed)]

\* Between two batches a probe's evidence is that of the newest result the
\* server has processed, although batches are uploaded again.  Only a handler
\* whose client gave up can bring back an older one, and the next upload that
\* is processed sets it right (requeue, takeBatch, applyObservedResultBatch).
EvidenceIsNewest == MutexFree => NewestEvidence(exec)

\* "A probe contributes a down vote only after two consecutive down results for
\* a check."  The vote rests on the last two results that were processed.
DownVoteNeedsTwoResults ==
  MutexFree /\ ContributesDown(exec) =>
    \E r \in processed :
      /\ r < Newest(processed)
      /\ \A q \in processed : q >= r => outcome[q] = "down"

----------------------------------------------------------------------------
(* The inductive invariant behind EvidenceIsNewest (UploadsProofs).  What  *)
(* the server holds or has processed is not newer than the batch on its    *)
(* way or, without one, than the next batch: so the upload that the probe  *)
(* waits for ends with the newest result of all.                           *)

MutexHeldOnce ==
  \A g, h \in Handlers :
    handler[g].step = "applying" /\ handler[h].step = "applying" => g = h

\* The handler that the probe waits for has the batch on its way.
CurrentOK ==
  current # NoHandler =>
    /\ loop = "posting"
    /\ handler[current].step # "idle" /\ handler[current].results = batch

\* A handler x has a batch that ends with its newest result, and the evidence
\* is the result it has applied last.
HandlerOK(x) ==
  x.step # "idle" =>
    /\ x.results # <<>> /\ x.results[Len(x.results)] <= NextEnd
    /\ \A i \in 1..Len(x.results) : x.results[i] <= x.results[Len(x.results)]
    /\ x.next \in 1..(Len(x.results) + 1)
    /\ x.step = "waiting" => x.next = 1
    /\ x.step = "applying" /\ x.next > 1 =>
         exec.LastOutcome = outcome[x.results[x.next - 1]]

\* The evidence is right when nobody holds the mutex, and what a rollback would
\* bring back is right while somebody does.
EvidenceInv == NewestEvidence(IF MutexFree THEN exec ELSE before)

ServerInv ==
  /\ UploadsTypeOK /\ BatcherInv /\ MutexHeldOnce /\ CurrentOK
  /\ \A h \in Handlers : HandlerOK(handler[h])
  /\ \A r \in processed : r <= NextEnd
  /\ EvidenceInv

============================================================================
