--------------------------- MODULE ResultBatcher ---------------------------
(***************************************************************************)
(* The probe's resultBatcher (cmd/wacht-probe) and its uploads through the *)
(* probe API client: check workers enqueue results while one goroutine     *)
(* takes batches off the queue, uploads them without holding the mutex and *)
(* puts a batch back in front when the upload failed.                      *)
(*                                                                         *)
(* Results are numbered in the order they are enqueued.                    *)
(***************************************************************************)
EXTENDS Integers, Sequences

CONSTANTS
  MaxBatchSize,       \* defaultResultBatchMaxSize
  MaxPendingBatches,  \* defaultResultPendingMaxBatches
  MaxResults          \* bound: results the probe produces

ASSUME BatcherAssumption ==
  /\ MaxBatchSize \in Nat \ {0} /\ MaxPendingBatches \in Nat \ {0}
  /\ MaxResults \in Nat

MaxPending == MaxBatchSize * MaxPendingBatches

VARIABLES
  pending,    \* the queue
  closed,     \* Close was called; it has also closed the channel stop
  wakeFlush,  \* the channel of capacity one holds a signal
  loop,       \* where loop() is: "select", "flush", "posting", "done"
  draining,   \* loop() is in flushPendingForShutdown
  batch,      \* what flushOne has taken
  enqueued,   \* history: the number of results so far
  newest,     \* history: the newest result of the uploads that were processed
  failed      \* history: the last upload failed and was put back

vars == <<pending, closed, wakeFlush, loop, draining, batch, enqueued, newest,
          failed>>

Results == 1..MaxResults

TypeOK ==
  /\ pending \in Seq(Results) /\ Len(pending) <= MaxPending
  /\ batch \in Seq(Results) /\ Len(batch) <= MaxBatchSize
  /\ closed \in BOOLEAN /\ wakeFlush \in BOOLEAN /\ draining \in BOOLEAN
  /\ loop \in {"select", "flush", "posting", "done"}
  /\ enqueued \in 0..MaxResults /\ newest \in 0..MaxResults
  /\ failed \in BOOLEAN

Init ==
  /\ pending = <<>> /\ batch = <<>>
  /\ closed = FALSE /\ wakeFlush = FALSE /\ draining = FALSE
  /\ loop = "select"
  /\ enqueued = 0 /\ newest = 0 /\ failed = FALSE

----------------------------------------------------------------------------

Smaller(m, n) == IF m < n THEN m ELSE n

\* Mutant: nothing is dropped.
Trimmed_Never(s) == s

\* Mutant: the newest results are dropped.
Trimmed_DropsNewest(s) == SubSeq(s, 1, Smaller(Len(s), MaxPending))

\* trimPendingLocked: the oldest results are dropped.
Trimmed(s) ==
  IF Len(s) <= MaxPending THEN s
  ELSE SubSeq(s, Len(s) - MaxPending + 1, Len(s))

\* Enqueue does nothing once the batcher is closed.
Enqueue ==
  /\ ~closed
  /\ enqueued < MaxResults
  /\ enqueued' = enqueued + 1
  /\ pending' = Trimmed(Append(pending, enqueued + 1))
  /\ wakeFlush' = (wakeFlush \/ Len(pending') >= MaxBatchSize)
  /\ UNCHANGED <<closed, loop, draining, batch, newest, failed>>

Close ==
  /\ ~closed
  /\ closed' = TRUE
  /\ UNCHANGED <<pending, wakeFlush, loop, draining, batch, enqueued, newest,
                 failed>>

\* The three cases of the select; a ticker may fire at any time.
SelectTick ==
  /\ loop = "select"
  /\ loop' = "flush"
  /\ UNCHANGED <<pending, closed, wakeFlush, draining, batch, enqueued, newest,
                 failed>>

SelectWake ==
  /\ loop = "select"
  /\ wakeFlush
  /\ wakeFlush' = FALSE
  /\ loop' = "flush"
  /\ UNCHANGED <<pending, closed, draining, batch, enqueued, newest, failed>>

SelectStop ==
  /\ loop = "select"
  /\ closed
  /\ draining' = TRUE
  /\ loop' = "flush"
  /\ UNCHANGED <<pending, closed, wakeFlush, batch, enqueued, newest, failed>>

\* Mutant: the batch stays in the queue.
TakeBatch_Keeps ==
  /\ loop = "flush"
  /\ batch' = SubSeq(pending, 1, Smaller(Len(pending), MaxBatchSize))
  /\ loop' = IF pending # <<>> THEN "posting"
             ELSE IF draining THEN "done" ELSE "select"
  /\ UNCHANGED <<pending, closed, wakeFlush, draining, enqueued, newest, failed>>

\* takeBatch; with nothing to take the flush, or the shutdown, is over.
TakeBatch ==
  /\ loop = "flush"
  /\ LET size == Smaller(Len(pending), MaxBatchSize)
     IN  /\ batch' = SubSeq(pending, 1, size)
         /\ pending' = SubSeq(pending, size + 1, Len(pending))
  /\ loop' = IF pending # <<>> THEN "posting"
             ELSE IF draining THEN "done" ELSE "select"
  /\ UNCHANGED <<closed, wakeFlush, draining, enqueued, newest, failed>>

\* The answers to PostResults: the server may have processed the batch and the
\* answer is lost all the same.
Answers == {"ok", "rejected", "retryable", "answer_lost"}

\* IsRetryablePostResultsError
Retryable(answer) == answer \in {"retryable", "answer_lost"}

\* Mutant: the batch goes to the end of the queue.
Requeued_AtEnd == Trimmed(pending \o batch)

\* requeue
Requeued == Trimmed(batch \o pending)

\* Mutant: a full queue is not signalled after a flush.
SignalAfterFlush_Missing == wakeFlush

\* signalFlush at the end of flushOne
SignalAfterFlush == wakeFlush \/ Len(pending) >= MaxBatchSize

\* Mutant: the shutdown tries a failed batch again.
LoopAfter_KeepsTrying(answer) == IF draining THEN "flush" ELSE "select"

\* loop() waits again, or flushPendingForShutdown goes on or gives up.
LoopAfter(answer) ==
  IF ~draining THEN "select" ELSE IF Retryable(answer) THEN "done" ELSE "flush"

\* flushOne from the upload on
PostResults(answer) ==
  /\ loop = "posting"
  /\ newest' = IF answer \in {"ok", "answer_lost"} THEN batch[Len(batch)]
               ELSE newest
  /\ IF Retryable(answer)
       THEN /\ pending' = Requeued
            /\ UNCHANGED wakeFlush
       ELSE /\ wakeFlush' = SignalAfterFlush
            /\ UNCHANGED pending
  /\ loop' = LoopAfter(answer)
  /\ failed' = Retryable(answer)
  /\ batch' = <<>>
  /\ UNCHANGED <<closed, draining, enqueued>>

Next ==
  \/ Enqueue \/ Close \/ SelectTick \/ SelectWake \/ SelectStop \/ TakeBatch
  \/ \E answer \in Answers : PostResults(answer)

Spec == Init /\ [][Next]_vars

\* The ticker fires and the goroutine runs on; a select that finds stop ready
\* again and again takes it; an upload ends (the request has a timeout).
Fairness ==
  /\ WF_vars(SelectTick) /\ SF_vars(SelectStop) /\ WF_vars(TakeBatch)
  /\ WF_vars(\E answer \in Answers : PostResults(answer))

FairSpec == Spec /\ Fairness

----------------------------------------------------------------------------
(* Properties *)

\* The queue is an unbroken run of results that ends with the newest one not
\* taken: results that are dropped while a batch is being uploaded leave no
\* hole in front of it when the batch is put back (Enqueue, requeue,
\* trimPendingLocked).
NoHoleInQueue ==
  /\ \A i \in 1..(Len(pending) - 1) : pending[i + 1] = pending[i] + 1
  /\ pending # <<>> => pending[Len(pending)] = enqueued
  /\ batch # <<>> /\ Len(pending) < MaxPending =>
       batch[Len(batch)] = enqueued - Len(pending)

\* No upload that is processed ends before an earlier one, also when a batch is
\* uploaded again (takeBatch, requeue).
UploadsInOrder == [][newest' >= newest]_vars

\* No wakeup is lost: while a full batch is waiting and the last upload did
\* not fail, the goroutine has a signal (signalFlush).
FullBatchIsSignalled ==
  loop = "select" /\ ~failed /\ Len(pending) >= MaxBatchSize => wakeFlush

Queued(r) == \E i \in 1..Len(pending) : pending[i] = r

\* Every result leaves the queue, uploaded or dropped, unless every upload
\* fails from some time on or the batcher is closed (loop, flushOne).
ResultsLeave ==
  []<>~failed => \A r \in Results : Queued(r) ~> (closed \/ ~Queued(r))

\* Close returns: the goroutine ends although uploads may fail.
CloseReturns == closed ~> loop = "done"

----------------------------------------------------------------------------
(* The inductive invariant behind the properties (UploadsProofs): the      *)
(* queue holds the newest results, the batch is a run of older ones, and   *)
(* what the server has seen is not newer than the batch on its way or,     *)
(* without one, than the end of the batch that would be taken next.        *)

PendingRun ==
  \A i \in 1..Len(pending) : pending[i] = enqueued - Len(pending) + i

BatchRun ==
  batch # <<>> =>
    /\ \A i \in 1..Len(batch) : batch[i] = batch[Len(batch)] - Len(batch) + i
    /\ batch[Len(batch)] <= enqueued - Len(pending)
    /\ Len(pending) < MaxPending => batch[Len(batch)] = enqueued - Len(pending)

\* Where the batch on its way ends or, without one, the next one
NextEnd ==
  IF batch # <<>> THEN batch[Len(batch)]
  ELSE enqueued - Len(pending) + Smaller(Len(pending), MaxBatchSize)

NewestBound == newest <= NextEnd

PostingHasBatch == loop = "posting" <=> batch # <<>>

BatcherInv ==
  /\ TypeOK /\ PostingHasBatch /\ PendingRun /\ BatchRun /\ NewestBound
  /\ FullBatchIsSignalled

============================================================================
