--------------------------- MODULE UploadsProofs ---------------------------
(***************************************************************************)
(* Proofs about the probe's resultBatcher, alone (Spec) and composed with  *)
(* the server's handlers and evidence (UploadsSpec): what the queue holds, *)
(* the order of the uploads, the signal for a full batch, and which result *)
(* the evidence is that of.                                                *)
(***************************************************************************)
EXTENDS Uploads, TLAPS

----------------------------------------------------------------------------
(* Operators *)

\* The queue has room for at least one batch.
LEMMA PendingBound ==
  MaxPending \in Nat /\ MaxPending >= MaxBatchSize /\ MaxBatchSize >= 1
                     /\ MaxBatchSize \in Nat
<1>1. \A m, n \in Nat : m >= 1 /\ n >= 1 => m * n \in Nat /\ m * n >= m
  OBVIOUS
<1> QED
  BY <1>1, BatcherAssumption DEF MaxPending

\* Smaller is the minimum of two lengths.
LEMMA SmallerFacts ==
  ASSUME NEW m \in Nat, NEW n \in Nat
  PROVE  /\ Smaller(m, n) \in Nat /\ Smaller(m, n) <= m /\ Smaller(m, n) <= n
         /\ Smaller(m, n) = m \/ Smaller(m, n) = n
BY DEF Smaller

\* trimPendingLocked keeps the newest MaxPending results, in their order.
LEMMA TrimmedFacts ==
  ASSUME NEW T, NEW s \in Seq(T)
  PROVE  /\ Trimmed(s) \in Seq(T)
         /\ Len(Trimmed(s)) = Smaller(Len(s), MaxPending)
         /\ \A i \in 1..Len(Trimmed(s)) :
              Trimmed(s)[i] = s[Len(s) - Len(Trimmed(s)) + i]
<1>1. MaxPending \in Nat
  BY PendingBound
<1>2. CASE Len(s) <= MaxPending
  BY <1>1, <1>2 DEF Trimmed, Smaller
<1>3. CASE Len(s) > MaxPending
  <2> DEFINE t == SubSeq(s, Len(s) - MaxPending + 1, Len(s))
  <2>1. Trimmed(s) = t
    BY <1>1, <1>3 DEF Trimmed
  <2>2. t \in Seq(T) /\ Len(t) = MaxPending
    BY <1>1, <1>3
  <2>3. \A i \in 1..MaxPending : t[i] = s[Len(s) - MaxPending + i]
    BY <1>1, <1>3
  <2> QED
    BY <1>1, <1>3, <2>1, <2>2, <2>3 DEF Smaller
<1> QED
  BY <1>1, <1>2, <1>3

----------------------------------------------------------------------------
(* What the steps do to the queue *)

\* Enqueue appends the newest result; a full queue loses its oldest one.
LEMMA EnqueueEffect ==
  ASSUME BatcherInv, Enqueue
  PROVE  /\ pending' \in Seq(Results)
         /\ Len(pending') = Smaller(Len(pending) + 1, MaxPending)
         /\ \A i \in 1..Len(pending') :
              pending'[i] = enqueued + 1 - Len(pending') + i
         /\ enqueued' = enqueued + 1 /\ enqueued' \in 0..MaxResults
<1> DEFINE s == Append(pending, enqueued + 1)
<1>1. enqueued \in Nat /\ enqueued < MaxResults /\ MaxResults \in Nat
  BY BatcherAssumption DEF Enqueue, BatcherInv, TypeOK
<1>2. enqueued + 1 \in Results
  BY <1>1 DEF Results
<1>3. pending \in Seq(Results)
  BY DEF BatcherInv, TypeOK
<1>4. s \in Seq(Results) /\ Len(s) = Len(pending) + 1
  BY <1>2, <1>3
<1>5. \A i \in 1..Len(s) : s[i] = enqueued + 1 - Len(s) + i
  BY <1>1, <1>3, <1>4 DEF BatcherInv, PendingRun
<1>6. pending' = Trimmed(s) /\ enqueued' = enqueued + 1
  BY DEF Enqueue
<1> HIDE DEF s
<1>7. /\ Trimmed(s) \in Seq(Results)
      /\ Len(Trimmed(s)) = Smaller(Len(s), MaxPending)
      /\ \A i \in 1..Len(Trimmed(s)) :
           Trimmed(s)[i] = s[Len(s) - Len(Trimmed(s)) + i]
  BY <1>4, TrimmedFacts
<1>8. Len(s) \in Nat /\ Len(Trimmed(s)) \in Nat /\ Len(Trimmed(s)) <= Len(s)
  BY <1>4, <1>7, PendingBound, SmallerFacts
<1>9. \A i \in 1..Len(Trimmed(s)) :
        Trimmed(s)[i] = enqueued + 1 - Len(Trimmed(s)) + i
  <2> TAKE i \in 1..Len(Trimmed(s))
  <2> DEFINE j == Len(s) - Len(Trimmed(s)) + i
  <2>1. j \in 1..Len(s) /\ Trimmed(s)[i] = s[j]
    BY <1>7, <1>8
  <2>2. s[j] = enqueued + 1 - Len(s) + j
    BY <1>5, <2>1
  <2> QED
    BY <1>1, <1>8, <2>1, <2>2
<1> QED
  BY <1>1, <1>4, <1>6, <1>7, <1>9

\* takeBatch splits the queue.
LEMMA TakeBatchEffect ==
  ASSUME BatcherInv, TakeBatch
  PROVE  LET size == Smaller(Len(pending), MaxBatchSize)
         IN  /\ batch' \in Seq(Results) /\ Len(batch') = size
             /\ pending' \in Seq(Results)
             /\ Len(pending') = Len(pending) - size
             /\ \A i \in 1..size : batch'[i] = enqueued - Len(pending) + i
             /\ \A i \in 1..Len(pending') :
                  pending'[i] = enqueued - Len(pending') + i
<1> DEFINE size == Smaller(Len(pending), MaxBatchSize)
<1>1. pending \in Seq(Results) /\ Len(pending) \in Nat /\ enqueued \in Nat
  BY DEF BatcherInv, TypeOK
<1>2. size \in Nat /\ size <= Len(pending)
  BY <1>1, PendingBound, SmallerFacts
<1>3. /\ batch' = SubSeq(pending, 1, size)
      /\ pending' = SubSeq(pending, size + 1, Len(pending))
  BY DEF TakeBatch
<1>4. \A i \in 1..Len(pending) : pending[i] = enqueued - Len(pending) + i
  BY DEF BatcherInv, PendingRun
<1> HIDE DEF size
<1>5. /\ batch' \in Seq(Results) /\ Len(batch') = size
      /\ \A i \in 1..size : batch'[i] = pending[i]
  BY <1>1, <1>2, <1>3
<1>6. /\ pending' \in Seq(Results) /\ Len(pending') = Len(pending) - size
      /\ \A i \in 1..(Len(pending) - size) : pending'[i] = pending[size + i]
  BY <1>1, <1>2, <1>3
<1>7. \A i \in 1..size : batch'[i] = enqueued - Len(pending) + i
  BY <1>1, <1>2, <1>4, <1>5
<1>8. \A i \in 1..Len(pending') : pending'[i] = enqueued - Len(pending') + i
  BY <1>1, <1>2, <1>4, <1>6
<1> QED
  BY <1>5, <1>6, <1>7, <1>8 DEF size

\* requeue: the batch closes up with the queue, or the queue is full and
\* nothing of the batch remains that would leave a hole.
LEMMA RequeueEffect ==
  ASSUME BatcherInv, batch # <<>>
  PROVE  /\ Requeued \in Seq(Results)
         /\ Len(Requeued) = Smaller(Len(batch) + Len(pending), MaxPending)
         /\ \A i \in 1..Len(Requeued) :
              Requeued[i] = enqueued - Len(Requeued) + i
<1> DEFINE s == batch \o pending
<1>1. /\ pending \in Seq(Results) /\ Len(pending) \in Nat /\ enqueued \in Nat
      /\ batch \in Seq(Results) /\ Len(batch) \in Nat
      /\ Len(pending) <= MaxPending /\ MaxPending \in Nat
  BY PendingBound DEF BatcherInv, TypeOK
<1>2. s \in Seq(Results) /\ Len(s) = Len(batch) + Len(pending)
  BY <1>1
<1>3. \A i \in 1..Len(s) :
        s[i] = IF i <= Len(batch) THEN batch[i] ELSE pending[i - Len(batch)]
  BY <1>1, <1>2
<1>4. /\ Trimmed(s) \in Seq(Results)
      /\ Len(Trimmed(s)) = Smaller(Len(s), MaxPending)
      /\ \A i \in 1..Len(Trimmed(s)) :
           Trimmed(s)[i] = s[Len(s) - Len(Trimmed(s)) + i]
  BY <1>2, TrimmedFacts
<1>5. Requeued = Trimmed(s)
  BY DEF Requeued
<1> HIDE DEF s
<1>6. /\ Len(s) \in Nat /\ Len(Trimmed(s)) \in Nat /\ Len(Trimmed(s)) <= Len(s)
      /\ Len(Trimmed(s)) <= MaxPending
  BY <1>1, <1>2, <1>4, SmallerFacts
<1>7. ASSUME NEW i \in 1..Len(Trimmed(s))
      PROVE  Trimmed(s)[i] = enqueued - Len(Trimmed(s)) + i
  <2> DEFINE j == Len(s) - Len(Trimmed(s)) + i
  <2>1. j \in 1..Len(s) /\ Trimmed(s)[i] = s[j]
    BY <1>4, <1>6
  <2>2. CASE j > Len(batch)
    <3>1. j - Len(batch) \in 1..Len(pending)
      BY <1>1, <1>2, <2>1, <2>2
    <3>2. pending[j - Len(batch)] = enqueued - Len(pending) + (j - Len(batch))
      BY <3>1 DEF BatcherInv, PendingRun
    <3>3. s[j] = pending[j - Len(batch)]
      BY <1>1, <1>3, <2>1, <2>2
    <3> QED
      BY <1>1, <1>2, <1>6, <2>1, <3>2, <3>3
  <2>3. CASE j <= Len(batch)
    <3>1. Len(pending) < MaxPending
      BY <1>1, <1>2, <1>6, <2>1, <2>3
    <3>2. batch[Len(batch)] = enqueued - Len(pending)
      BY <3>1 DEF BatcherInv, BatchRun
    <3>3. batch[j] = batch[Len(batch)] - Len(batch) + j
      BY <1>1, <2>1, <2>3, SMTT(60) DEF BatcherInv, BatchRun
    <3>4. s[j] = batch[j]
      BY <1>3, <2>1, <2>3
    <3> QED
      BY <1>1, <1>2, <1>6, <2>1, <3>2, <3>3, <3>4
  <2> QED
    BY <1>1, <1>6, <2>1, <2>2, <2>3
<1> QED
  BY <1>2, <1>4, <1>5, <1>7

----------------------------------------------------------------------------
(* Where the next batch ends: no step moves it back. *)

\* Enqueue drops what is older than the end of the next batch.
LEMMA EnqueueBound ==
  ASSUME BatcherInv, Enqueue, NEW n \in Nat, n <= NextEnd
  PROVE  n <= NextEnd'
<1>1. /\ Len(pending) \in Nat /\ enqueued \in Nat
      /\ MaxPending \in Nat /\ MaxBatchSize \in Nat
      /\ Len(pending) <= MaxPending
  BY PendingBound DEF BatcherInv, TypeOK
<1>2. /\ Len(pending') = Smaller(Len(pending) + 1, MaxPending)
      /\ enqueued' = enqueued + 1
  BY EnqueueEffect
<1>3. batch' = batch
  BY DEF Enqueue
<1>4. CASE batch # <<>>
  BY <1>3, <1>4 DEF NextEnd
<1>5. CASE batch = <<>>
  <2>1. n <= enqueued - Len(pending) + Smaller(Len(pending), MaxBatchSize)
    BY <1>5 DEF NextEnd
  <2>2. \A e, l, k, m \in Nat :
          n <= e - l + Smaller(l, m) /\ (k = l + 1 \/ k = l) =>
            n <= (e + 1) - k + Smaller(k, m)
    BY DEF Smaller
  <2>3. /\ Len(pending') \in Nat
        /\ Len(pending') = Len(pending) + 1 \/ Len(pending') = Len(pending)
    BY <1>1, <1>2 DEF Smaller
  <2>4. n <= (enqueued + 1) - Len(pending') + Smaller(Len(pending'), MaxBatchSize)
    BY <1>1, <2>1, <2>2, <2>3
  <2> QED
    BY <1>2, <1>3, <1>5, <2>4 DEF NextEnd
<1> QED
  BY <1>4, <1>5

\* takeBatch takes the batch that was meant.
LEMMA TakeBatchBound ==
  ASSUME BatcherInv, TakeBatch, NEW n \in Nat, n <= NextEnd
  PROVE  n <= NextEnd'
<1> DEFINE size == Smaller(Len(pending), MaxBatchSize)
<1>1. /\ pending \in Seq(Results) /\ Len(pending) \in Nat /\ enqueued \in Nat
      /\ MaxBatchSize \in Nat /\ MaxBatchSize >= 1
  BY PendingBound DEF BatcherInv, TypeOK
<1>2. /\ batch' \in Seq(Results) /\ Len(batch') = size
      /\ Len(pending') = Len(pending) - size
      /\ \A i \in 1..size : batch'[i] = enqueued - Len(pending) + i
  BY TakeBatchEffect
<1>3. batch = <<>> /\ enqueued' = enqueued
  BY DEF TakeBatch, BatcherInv, PostingHasBatch
<1>4. n <= enqueued - Len(pending) + size
  BY <1>3 DEF NextEnd
<1>5. /\ size \in Nat /\ size <= Len(pending) /\ size <= MaxBatchSize
      /\ size = 0 <=> Len(pending) = 0
  BY <1>1 DEF Smaller
<1>6. batch' # <<>> <=> size # 0
  BY <1>2
<1> HIDE DEF size
<1>7. CASE size # 0
  <2>1. batch'[Len(batch')] = enqueued - Len(pending) + size
    BY <1>2, <1>5, <1>7
  <2> QED
    BY <1>4, <1>6, <1>7, <2>1 DEF NextEnd
<1>8. CASE size = 0
  <2>1. Len(pending) = 0 /\ Len(pending') = 0 /\ batch' = <<>>
    BY <1>1, <1>2, <1>5, <1>6, <1>8
  <2> QED
    BY <1>1, <1>3, <1>4, <1>8, <2>1 DEF NextEnd, Smaller
<1> QED
  BY <1>7, <1>8

\* A batch that is put back is the start of the one taken next; without it the
\* next one is newer.
LEMMA PostResultsBound ==
  ASSUME BatcherInv, NEW answer \in Answers, PostResults(answer),
         NEW n \in Nat, n <= NextEnd
  PROVE  n <= NextEnd'
<1> DEFINE end == batch[Len(batch)]
<1>1. /\ Len(pending) \in Nat /\ enqueued \in Nat
      /\ batch \in Seq(Results) /\ Len(batch) \in Nat
      /\ Len(pending) <= MaxPending /\ MaxPending \in Nat
      /\ MaxBatchSize \in Nat /\ MaxBatchSize <= MaxPending
      /\ Len(batch) <= MaxBatchSize
  BY PendingBound DEF BatcherInv, TypeOK
<1>2. batch # <<>> /\ Len(batch) >= 1
  <2>1. batch # <<>>
    BY DEF PostResults, BatcherInv, PostingHasBatch
  <2> QED
    BY <1>1, <2>1
<1>3. /\ end \in Nat /\ end <= enqueued - Len(pending)
      /\ Len(pending) < MaxPending => end = enqueued - Len(pending)
  <2>1. end \in Results
    BY <1>1, <1>2
  <2> QED
    BY <1>2, <2>1 DEF BatcherInv, BatchRun, Results
<1>4. n <= end
  BY <1>2 DEF NextEnd
<1>5. batch' = <<>> /\ enqueued' = enqueued
  BY DEF PostResults
<1> HIDE DEF end
<1>6. CASE Retryable(answer)
  <2>1. Len(pending') = Smaller(Len(batch) + Len(pending), MaxPending)
    BY <1>2, <1>6, RequeueEffect DEF PostResults
  <2>2. Len(pending') \in Nat
    BY <1>1, <2>1 DEF Smaller
  <2>3. end <= enqueued - Len(pending') + Smaller(Len(pending'), MaxBatchSize)
    <3>1. CASE Len(pending) = MaxPending
      BY <1>1, <1>2, <1>3, <2>1, <3>1 DEF Smaller
    <3>2. CASE Len(pending) < MaxPending
      BY <1>1, <1>2, <1>3, <2>1, <3>2 DEF Smaller
    <3> QED
      BY <1>1, <3>1, <3>2
  <2>4. Smaller(Len(pending'), MaxBatchSize) \in Nat
    BY <1>1, <2>2, SmallerFacts
  <2> QED
    BY <1>1, <1>3, <1>4, <1>5, <2>2, <2>3, <2>4 DEF NextEnd
<1>7. CASE ~Retryable(answer)
  <2>1. pending' = pending
    BY <1>7 DEF PostResults
  <2>2. Smaller(Len(pending), MaxBatchSize) \in Nat
    BY <1>1, SmallerFacts
  <2> QED
    BY <1>1, <1>3, <1>4, <1>5, <2>1, <2>2 DEF NextEnd
<1> QED
  BY <1>6, <1>7

----------------------------------------------------------------------------
(* The invariant, by action *)

\* At the start nothing is queued.
LEMMA BatcherStart ==
  Init => BatcherInv
<1> SUFFICES ASSUME Init PROVE BatcherInv
  OBVIOUS
<1>1. MaxPending \in Nat /\ MaxBatchSize \in Nat /\ MaxResults \in Nat
  BY PendingBound, BatcherAssumption
<1>2. TypeOK
  <2>1. pending = <<>> /\ batch = <<>>
    BY DEF Init
  <2>2. pending \in Seq(Results) /\ Len(pending) = 0
    BY <2>1
  <2>3. batch \in Seq(Results) /\ Len(batch) = 0
    BY <2>1
  <2>4. Len(pending) <= MaxPending /\ Len(batch) <= MaxBatchSize
    BY <1>1, <2>2, <2>3
  <2>5. enqueued \in 0..MaxResults /\ newest \in 0..MaxResults
    BY <1>1 DEF Init
  <2>6. /\ closed \in BOOLEAN /\ wakeFlush \in BOOLEAN /\ draining \in BOOLEAN
        /\ failed \in BOOLEAN
    BY DEF Init
  <2>7. loop \in {"select", "flush", "posting", "done"}
    BY DEF Init
  <2> QED
    BY <2>2, <2>3, <2>4, <2>5, <2>6, <2>7, Zenon DEF TypeOK
<1>3. NewestBound
  BY <1>1 DEF Init, NewestBound, NextEnd, Smaller
<1> QED
  BY <1>1, <1>2, <1>3, PendingBound
  DEF Init, BatcherInv, PostingHasBatch, PendingRun, BatchRun, FullBatchIsSignalled

\* Enqueue: the batch on its way stays next to the queue until the queue is
\* full.
LEMMA EnqueueKeeps ==
  ASSUME BatcherInv, Enqueue
  PROVE  BatcherInv'
<1>1. /\ pending \in Seq(Results) /\ Len(pending) \in Nat /\ enqueued \in Nat
      /\ batch \in Seq(Results) /\ Len(batch) \in Nat /\ newest \in Nat
      /\ Len(pending) <= MaxPending /\ MaxPending \in Nat
      /\ MaxBatchSize \in Nat /\ MaxBatchSize <= MaxPending
  BY PendingBound DEF BatcherInv, TypeOK
<1>2. /\ pending' \in Seq(Results)
      /\ Len(pending') = Smaller(Len(pending) + 1, MaxPending)
      /\ \A i \in 1..Len(pending') :
           pending'[i] = enqueued + 1 - Len(pending') + i
      /\ enqueued' = enqueued + 1 /\ enqueued' \in 0..MaxResults
  BY EnqueueEffect
<1>3. /\ UNCHANGED <<closed, loop, draining, batch, newest, failed>>
      /\ wakeFlush' = (wakeFlush \/ Len(pending') >= MaxBatchSize)
  BY DEF Enqueue
<1>4. /\ Len(pending') \in Nat
      /\ \/ Len(pending') = Len(pending) + 1
         \/ Len(pending') = Len(pending) /\ Len(pending) = MaxPending
      /\ Len(pending') <= MaxPending
  BY <1>1, <1>2 DEF Smaller
<1>5. TypeOK'
  BY <1>2, <1>3, <1>4 DEF BatcherInv, TypeOK
<1>6. PendingRun'
  BY <1>1, <1>2, <1>4 DEF PendingRun
<1>7. BatchRun'
  <2> SUFFICES ASSUME batch # <<>>
               PROVE  /\ batch[Len(batch)] <= enqueued + 1 - Len(pending')
                      /\ Len(pending') < MaxPending =>
                           batch[Len(batch)] = enqueued + 1 - Len(pending')
    BY <1>1, <1>2, <1>3, <1>4 DEF BatchRun, BatcherInv
  <2>1. batch[Len(batch)] \in Nat
    <3>1. Len(batch) \in 1..Len(batch)
      BY <1>1
    <3>2. batch[Len(batch)] \in Results
      BY <1>1, <3>1
    <3> QED
      BY <3>2 DEF Results
  <2> QED
    BY <1>1, <1>4, <2>1 DEF BatcherInv, BatchRun
<1>8. NewestBound'
  BY <1>1, <1>3, EnqueueBound DEF BatcherInv, NewestBound
<1>9. PostingHasBatch'
  BY <1>3 DEF BatcherInv, PostingHasBatch
<1>10. FullBatchIsSignalled'
  BY <1>3 DEF FullBatchIsSignalled
<1> QED
  BY <1>5, <1>6, <1>7, <1>8, <1>9, <1>10 DEF BatcherInv

\* Close and the three cases of the select leave queue and batch alone.
LEMMA SelectKeeps ==
  ASSUME BatcherInv,
         Close \/ SelectTick \/ SelectWake \/ SelectStop
  PROVE  BatcherInv'
<1>1. UNCHANGED <<pending, batch, enqueued, newest>>
  BY DEF Close, SelectTick, SelectWake, SelectStop
<1>2. TypeOK'
  BY <1>1 DEF Close, SelectTick, SelectWake, SelectStop, BatcherInv, TypeOK
<1>3. PostingHasBatch'
  BY <1>1 DEF Close, SelectTick, SelectWake, SelectStop, BatcherInv, PostingHasBatch
<1>4. PendingRun' /\ BatchRun' /\ NewestBound'
  BY <1>1 DEF BatcherInv, PendingRun, BatchRun, NewestBound, NextEnd
<1>5. FullBatchIsSignalled'
  BY <1>1 DEF Close, SelectTick, SelectWake, SelectStop, BatcherInv, FullBatchIsSignalled
<1> QED
  BY <1>2, <1>3, <1>4, <1>5 DEF BatcherInv

\* takeBatch: the batch ends where the queue now starts, and no earlier than
\* what the server has seen.
LEMMA TakeBatchKeeps ==
  ASSUME BatcherInv, TakeBatch
  PROVE  BatcherInv'
<1> DEFINE size == Smaller(Len(pending), MaxBatchSize)
<1>1. /\ pending \in Seq(Results) /\ Len(pending) \in Nat /\ enqueued \in Nat
      /\ newest \in Nat
      /\ Len(pending) <= MaxPending /\ MaxPending \in Nat
      /\ MaxBatchSize \in Nat /\ MaxBatchSize <= MaxPending /\ MaxBatchSize >= 1
  BY PendingBound DEF BatcherInv, TypeOK
<1>2. /\ batch' \in Seq(Results) /\ Len(batch') = size
      /\ pending' \in Seq(Results)
      /\ Len(pending') = Len(pending) - size
      /\ \A i \in 1..size : batch'[i] = enqueued - Len(pending) + i
      /\ \A i \in 1..Len(pending') : pending'[i] = enqueued - Len(pending') + i
  BY TakeBatchEffect
<1>3. /\ UNCHANGED <<closed, wakeFlush, draining, enqueued, newest, failed>>
      /\ loop = "flush"
      /\ loop' = IF pending # <<>> THEN "posting"
                 ELSE IF draining THEN "done" ELSE "select"
  BY DEF TakeBatch
<1>4. /\ size \in Nat /\ size <= Len(pending) /\ size <= MaxBatchSize
      /\ size = 0 <=> Len(pending) = 0
  BY <1>1 DEF Smaller
<1>5. batch = <<>>
  BY <1>3 DEF BatcherInv, PostingHasBatch
<1>7. (pending # <<>> <=> Len(pending) # 0) /\ (batch' # <<>> <=> size # 0)
  BY <1>1, <1>2
<1> HIDE DEF size
<1>8. Len(pending') \in Nat /\ Len(pending') <= MaxPending
  BY <1>1, <1>2, <1>4
<1>9. TypeOK'
  BY <1>2, <1>3, <1>4, <1>8 DEF BatcherInv, TypeOK
<1>10. PostingHasBatch'
  BY <1>1, <1>3, <1>4, <1>7 DEF PostingHasBatch
<1>11. PendingRun'
  BY <1>2, <1>3 DEF PendingRun
<1>12. batch' # <<>> => batch'[Len(batch')] = enqueued - Len(pending')
  BY <1>1, <1>2, <1>4, <1>7
<1>13. BatchRun'
  BY <1>1, <1>2, <1>3, <1>4, <1>8, <1>12 DEF BatchRun
<1>14. NewestBound'
  BY <1>1, <1>3, TakeBatchBound DEF BatcherInv, NewestBound
<1>15. FullBatchIsSignalled'
  BY <1>1, <1>2, <1>3, <1>4, <1>7 DEF FullBatchIsSignalled
<1> QED
  BY <1>9, <1>10, <1>11, <1>13, <1>14, <1>15 DEF BatcherInv

\* flushOne from the upload on: what the server has seen grows, and a batch
\* that is put back is the start of the batch taken next.
LEMMA PostResultsKeeps ==
  ASSUME BatcherInv, NEW answer \in Answers, PostResults(answer)
  PROVE  BatcherInv' /\ newest' >= newest
<1> DEFINE end == batch[Len(batch)]
<1>1. /\ pending \in Seq(Results) /\ Len(pending) \in Nat /\ enqueued \in Nat
      /\ batch \in Seq(Results) /\ Len(batch) \in Nat
      /\ newest \in Nat /\ newest \in 0..MaxResults
      /\ Len(pending) <= MaxPending /\ MaxPending \in Nat
      /\ MaxBatchSize \in Nat /\ MaxBatchSize <= MaxPending
      /\ Len(batch) <= MaxBatchSize
  BY PendingBound DEF BatcherInv, TypeOK
<1>2. batch # <<>> /\ Len(batch) >= 1
  <2>1. batch # <<>>
    BY DEF PostResults, BatcherInv, PostingHasBatch
  <2> QED
    BY <1>1, <2>1
<1>3. /\ end \in Nat /\ end \in 0..MaxResults /\ end <= enqueued - Len(pending)
      /\ Len(pending) < MaxPending => end = enqueued - Len(pending)
      /\ newest <= end
  <2>1. end \in Results
    BY <1>1, <1>2
  <2> QED
    BY <1>2, <2>1, BatcherAssumption DEF BatcherInv, BatchRun, NewestBound, NextEnd, Results
<1>4. /\ newest' = end \/ newest' = newest
      /\ loop' = LoopAfter(answer) /\ failed' = Retryable(answer)
      /\ batch' = <<>> /\ UNCHANGED <<closed, draining, enqueued>>
  BY DEF PostResults
<1> HIDE DEF end
<1>5. newest' >= newest /\ newest' <= end /\ newest' \in 0..MaxResults
  BY <1>1, <1>3, <1>4
<1>9. newest' <= NextEnd'
  <2>1. newest' \in Nat /\ newest' <= NextEnd
    BY <1>2, <1>5, BatcherAssumption DEF NextEnd, end
  <2> QED BY <2>1, PostResultsBound
<1>6. PostingHasBatch' /\ BatchRun'
  BY <1>4 DEF PostingHasBatch, BatchRun, LoopAfter
<1>7. CASE Retryable(answer)
  <2>1. pending' = Requeued /\ UNCHANGED wakeFlush
    BY <1>7 DEF PostResults
  <2>2. /\ pending' \in Seq(Results)
        /\ Len(pending') = Smaller(Len(batch) + Len(pending), MaxPending)
        /\ \A i \in 1..Len(pending') : pending'[i] = enqueued - Len(pending') + i
    BY <1>2, <2>1, RequeueEffect
  <2>3. Len(pending') \in Nat /\ Len(pending') <= MaxPending
    BY <1>1, <2>2 DEF Smaller
  <2>4. TypeOK'
    BY <1>1, <1>4, <1>5, <2>1, <2>2, <2>3
    DEF BatcherInv, TypeOK, LoopAfter, Retryable
  <2>5. PendingRun'
    BY <1>4, <2>2 DEF PendingRun
  <2>7. NewestBound'
    BY <1>5, <1>9 DEF NewestBound
  <2>8. FullBatchIsSignalled'
    BY <1>4, <1>7 DEF FullBatchIsSignalled
  <2> QED
    BY <1>5, <1>6, <2>4, <2>5, <2>7, <2>8 DEF BatcherInv
<1>8. CASE ~Retryable(answer)
  <2>1. UNCHANGED pending /\ wakeFlush' = (wakeFlush \/ Len(pending) >= MaxBatchSize)
    BY <1>8 DEF PostResults, SignalAfterFlush
  <2>2. TypeOK'
    BY <1>1, <1>4, <1>5, <2>1 DEF BatcherInv, TypeOK, LoopAfter, Retryable
  <2>3. PendingRun'
    BY <1>4, <2>1 DEF BatcherInv, PendingRun
  <2>4. NewestBound'
    BY <1>5, <1>9 DEF NewestBound
  <2>5. FullBatchIsSignalled'
    BY <2>1 DEF FullBatchIsSignalled
  <2> QED
    BY <1>5, <1>6, <2>2, <2>3, <2>4, <2>5 DEF BatcherInv
<1> QED
  BY <1>7, <1>8

\* Every step of the batcher keeps the invariant and the order of uploads.
LEMMA BatcherStep ==
  ASSUME BatcherInv, [Next]_vars
  PROVE  BatcherInv' /\ newest' >= newest
<1>1. newest \in Nat
  BY DEF BatcherInv, TypeOK
<1>2. CASE Enqueue
  BY <1>1, <1>2, EnqueueKeeps DEF Enqueue
<1>3. CASE Close \/ SelectTick \/ SelectWake \/ SelectStop
  <2>1. newest' = newest
    BY <1>3 DEF Close, SelectTick, SelectWake, SelectStop
  <2> QED
    BY <1>1, <1>3, <2>1, SelectKeeps
<1>4. CASE TakeBatch
  BY <1>1, <1>4, TakeBatchKeeps DEF TakeBatch
<1>5. ASSUME NEW answer \in Answers, PostResults(answer)
      PROVE  BatcherInv' /\ newest' >= newest
  BY <1>5, PostResultsKeeps
<1>6. CASE UNCHANGED vars
  BY <1>1, <1>6 DEF vars, BatcherInv, TypeOK, PostingHasBatch, PendingRun, BatchRun,
     NewestBound, NextEnd, FullBatchIsSignalled
<1> QED
  BY <1>2, <1>3, <1>4, <1>5, <1>6 DEF Next

\* The invariant gives the property of the queue that the run checks.
LEMMA RunsHaveNoHole ==
  BatcherInv => NoHoleInQueue
<1> SUFFICES ASSUME BatcherInv PROVE NoHoleInQueue
  OBVIOUS
<1>1. /\ pending \in Seq(Results) /\ Len(pending) \in Nat /\ enqueued \in Nat
      /\ \A i \in 1..Len(pending) : pending[i] = enqueued - Len(pending) + i
  BY DEF BatcherInv, TypeOK, PendingRun
<1>2. \A i \in 1..(Len(pending) - 1) : pending[i + 1] = pending[i] + 1
  BY <1>1
<1>3. pending # <<>> => pending[Len(pending)] = enqueued
  BY <1>1
<1> QED
  BY <1>2, <1>3 DEF NoHoleInQueue, BatcherInv, BatchRun

----------------------------------------------------------------------------
(* The server *)

\* Observe stays within the type of the evidence.
LEMMA ObserveType ==
  ASSUME NEW e \in ExecStates({NoTime, 1}), NEW o \in StableStates
  PROVE  /\ Observe(e, o, 1) \in ExecStates({NoTime, 1})
         /\ Observe(e, o, 1).LastOutcome = o
BY StreakCapAssumption
   DEF Observe, ExecStates, BumpOutcome, ContributionStateFor, StableStates,
       Outcomes, CheckStates, Threshold

\* The evidence of a new check and what LoseEvidence leaves.
LEMMA NoEvidenceType ==
  /\ NewCheckExecState \in ExecStates({NoTime, 1})
  /\ NewCheckExecState.LastOutcome = "none"
  /\ \A e \in ExecStates({NoTime, 1}) :
       /\ LoseEvidence(e) \in ExecStates({NoTime, 1})
       /\ LoseEvidence(e).LastOutcome = "none"
BY StreakCapAssumption
   DEF NewCheckExecState, LoseEvidence, ExecStates, Outcomes, CheckStates, Threshold

\* A member of a set that no other one exceeds is its newest.
LEMMA NewestIs ==
  ASSUME NEW s \in SUBSET Int, NEW m \in s, \A q \in s : q <= m
  PROVE  Newest(s) = m
<1>1. \E r \in s : \A q \in s : q <= r
  OBVIOUS
<1>2. Newest(s) \in s /\ \A q \in s : q <= Newest(s)
  BY <1>1, Zenon DEF Newest
<1>3. m \in Int /\ Newest(s) \in Int /\ m <= Newest(s) /\ Newest(s) <= m
  BY <1>2
<1> QED
  BY <1>3

\* No step of the batcher moves the end of the next upload back.
LEMMA BatcherBound ==
  ASSUME BatcherInv, [Next]_vars
  PROVE  \A n \in Nat : n <= NextEnd => n <= NextEnd'
<1> SUFFICES ASSUME NEW n \in Nat, n <= NextEnd PROVE n <= NextEnd'
  OBVIOUS
<1>1. CASE Enqueue
  BY <1>1, EnqueueBound
<1>2. CASE TakeBatch
  BY <1>2, TakeBatchBound
<1>3. ASSUME NEW answer \in Answers, PostResults(answer) PROVE n <= NextEnd'
  BY <1>3, PostResultsBound
<1>4. CASE Close \/ SelectTick \/ SelectWake \/ SelectStop \/ UNCHANGED vars
  <2>1. UNCHANGED <<pending, batch, enqueued>>
    BY <1>4 DEF Close, SelectTick, SelectWake, SelectStop, vars
  <2> QED
    BY <2>1 DEF NextEnd
<1> QED
  BY <1>1, <1>2, <1>3, <1>4 DEF Next

\* The invariant holds before the first upload.
LEMMA ServerStart ==
  UploadsInit => ServerInv
<1> SUFFICES ASSUME UploadsInit PROVE ServerInv
  OBVIOUS
<1>1. BatcherInv
  BY BatcherStart DEF UploadsInit
<1>2. \A h \in Handlers : handler[h] = IdleHandler
  BY DEF UploadsInit
<1>3. IdleHandler \in [step : HandlerSteps, results : Seq(Results), next : Nat]
  BY DEF IdleHandler, HandlerSteps
<1>4. UploadsTypeOK
  <2>1. handler \in [Handlers -> [step : HandlerSteps, results : Seq(Results),
                                  next : Nat]]
    BY <1>3 DEF UploadsInit
  <2> QED
    BY <1>1, <2>1, NoEvidenceType DEF UploadsInit, UploadsTypeOK, BatcherInv
<1>5. \A h \in Handlers : handler[h].step = "idle"
  BY <1>2 DEF IdleHandler
<1>6. MutexHeldOnce /\ CurrentOK /\ \A h \in Handlers : HandlerOK(handler[h])
  BY <1>5 DEF MutexHeldOnce, CurrentOK, HandlerOK, UploadsInit
<1>7. EvidenceInv
  BY NoEvidenceType DEF UploadsInit, EvidenceInv, NewestEvidence
<1>8. \A r \in processed : r <= NextEnd
  BY DEF UploadsInit
<1> QED
  BY <1>1, <1>4, <1>6, <1>7, <1>8 DEF ServerInv

\* While the batcher moves on, what the server holds stays in bounds.
LEMMA HandlersStayOK ==
  ASSUME ServerInv, [Next]_vars, UNCHANGED <<outcome, exec>>,
         NEW h \in Handlers, handler'[h] = handler[h]
  PROVE  HandlerOK(handler[h])'
<1> DEFINE x == handler[h]
           end == x.results[Len(x.results)]
<1>1. \A n \in Nat : n <= NextEnd => n <= NextEnd'
  BY BatcherBound DEF ServerInv
<1>2. HandlerOK(x) /\ x \in [step : HandlerSteps, results : Seq(Results), next : Nat]
  BY DEF ServerInv, UploadsTypeOK
<1>3. x.step # "idle" => end \in Nat
  <2> SUFFICES ASSUME x.step # "idle" PROVE end \in Nat
    OBVIOUS
  <2>1. x.results \in Seq(Results) /\ x.results # <<>>
    BY <1>2 DEF HandlerOK
  <2> HIDE DEF x
  <2>2. end \in Results
    BY <2>1
  <2> QED
    BY <2>2 DEF Results
<1>4. x.step # "idle" => end <= NextEnd'
  BY <1>1, <1>2, <1>3 DEF HandlerOK
<1> QED
  BY <1>2, <1>4 DEF HandlerOK

\* The same for what it has processed.
LEMMA ProcessedStays ==
  ASSUME ServerInv, [Next]_vars
  PROVE  \A r \in processed : r <= NextEnd'
<1>1. \A n \in Nat : n <= NextEnd => n <= NextEnd'
  BY BatcherBound DEF ServerInv
<1>2. \A r \in processed : r \in Nat /\ r <= NextEnd
  BY DEF ServerInv, UploadsTypeOK, Results
<1> QED
  BY <1>1, <1>2

\* The batcher's own steps leave the server alone, and no batch that is being
\* uploaded changes under it.
LEMMA BatcherMovesKeep ==
  ASSUME ServerInv, UNCHANGED server,
         Enqueue \/ Close \/ SelectTick \/ SelectWake \/ SelectStop \/ TakeBatch
           \/ UNCHANGED vars
  PROVE  ServerInv'
<1>1. [Next]_vars
  BY DEF Next
<1>2. BatcherInv'
  BY <1>1, BatcherStep DEF ServerInv
<1>3. UNCHANGED <<outcome, handler, current, exec, before, processed, overtaken>>
  BY DEF server
<1>4. UploadsTypeOK'
  BY <1>2, <1>3 DEF ServerInv, UploadsTypeOK, BatcherInv
<1>5. MutexHeldOnce' /\ EvidenceInv'
  BY <1>3 DEF ServerInv, MutexHeldOnce, EvidenceInv, NewestEvidence, MutexFree
<1>6. loop = "posting" => loop' = "posting" /\ batch' = batch
  BY DEF Enqueue, Close, SelectTick, SelectWake, SelectStop, TakeBatch, vars
<1>7. CurrentOK'
  BY <1>3, <1>6 DEF ServerInv, CurrentOK
<1>8. \A h \in Handlers : HandlerOK(handler[h])'
  BY <1>1, <1>3, HandlersStayOK
<1>9. (\A r \in processed : r <= NextEnd)'
  BY <1>1, <1>3, ProcessedStays
<1> QED
  BY <1>2, <1>4, <1>5, <1>7, <1>8, <1>9 DEF ServerInv

\* The probe stops waiting: the handler has ended or goes on alone.
LEMMA UploadKeeps ==
  ASSUME ServerInv, NEW answer \in Answers, Upload(answer)
  PROVE  ServerInv'
<1>1. [Next]_vars
  BY DEF Upload, Next
<1>2. BatcherInv'
  BY <1>1, BatcherStep DEF ServerInv
<1>3. UNCHANGED <<outcome, exec, before, processed, overtaken>> /\ current' = NoHandler
  BY DEF Upload
<1>4. handler \in [Handlers -> [step : HandlerSteps, results : Seq(Results),
                                next : Nat]]
  BY DEF ServerInv, UploadsTypeOK
<1>5. IdleHandler \in [step : HandlerSteps, results : Seq(Results), next : Nat]
  BY DEF IdleHandler, HandlerSteps
<1>6. \/ handler' = handler
      \/ /\ current \in Handlers /\ handler[current].step \in {"ok", "failed"}
         /\ handler' = [handler EXCEPT ![current] = IdleHandler]
  BY DEF Upload, Progress, ServerInv, UploadsTypeOK
<1>7. /\ handler' \in [Handlers -> [step : HandlerSteps, results : Seq(Results),
                                    next : Nat]]
      /\ \A h \in Handlers : \/ handler'[h] = handler[h]
                             \/ handler'[h] = IdleHandler
                                /\ handler[h].step \in {"ok", "failed"}
  BY <1>4, <1>5, <1>6
<1>8. \A h \in Handlers : handler'[h].step = "applying" <=> handler[h].step = "applying"
  BY <1>7 DEF IdleHandler
<1>9. UploadsTypeOK'
  BY <1>2, <1>3, <1>7 DEF ServerInv, UploadsTypeOK, BatcherInv
<1>10. MutexHeldOnce'
  BY <1>8 DEF ServerInv, MutexHeldOnce
<1>11. EvidenceInv'
  BY <1>3, <1>8 DEF ServerInv, EvidenceInv, NewestEvidence, MutexFree
<1>12. CurrentOK'
  BY <1>3 DEF CurrentOK
<1>13. ASSUME NEW h \in Handlers PROVE HandlerOK(handler[h])'
  <2>1. CASE handler'[h] = handler[h]
    BY <1>1, <1>3, <2>1, HandlersStayOK
  <2>2. CASE handler'[h] = IdleHandler
    BY <2>2 DEF HandlerOK, IdleHandler
  <2> QED
    BY <1>7, <2>1, <2>2
<1>14. (\A r \in processed : r <= NextEnd)'
  BY <1>1, <1>3, ProcessedStays
<1> QED
  BY <1>2, <1>9, <1>10, <1>11, <1>12, <1>13, <1>14 DEF ServerInv

\* What a step of the server leaves alone
LEMMA ServerSteps ==
  ASSUME ServerInv, UNCHANGED <<vars, outcome>>
  PROVE  BatcherInv' /\ NextEnd' = NextEnd /\ UNCHANGED <<loop, batch>>
<1>1. UNCHANGED <<loop, batch>> /\ [Next]_vars
  BY DEF vars
<1>2. BatcherInv'
  BY <1>1, BatcherStep DEF ServerInv
<1> QED
  BY <1>1, <1>2 DEF vars, NextEnd

\* ProcessBatch gets the batch on its way.
LEMMA ReceiveKeeps ==
  ASSUME ServerInv, NEW h \in Handlers, Receive(h)
  PROVE  ServerInv'
<1> DEFINE new == [step |-> "waiting", results |-> batch, next |-> 1]
<1>1. /\ handler' = [handler EXCEPT ![h] = new] /\ current' = h
      /\ handler[h].step = "idle" /\ loop = "posting"
      /\ UNCHANGED <<vars, outcome, exec, before, processed, overtaken>>
  BY DEF Receive
<1>2. BatcherInv' /\ NextEnd' = NextEnd /\ UNCHANGED <<loop, batch>>
  BY <1>1, ServerSteps
<1>3. batch \in Seq(Results) /\ batch # <<>> /\ NextEnd = batch[Len(batch)]
  BY <1>1 DEF ServerInv, BatcherInv, TypeOK, PostingHasBatch, NextEnd
<1>4. handler \in [Handlers -> [step : HandlerSteps, results : Seq(Results),
                                next : Nat]]
  BY DEF ServerInv, UploadsTypeOK
<1>5. new \in [step : HandlerSteps, results : Seq(Results), next : Nat]
  BY <1>3 DEF HandlerSteps
<1>6. /\ handler' \in [Handlers -> [step : HandlerSteps, results : Seq(Results),
                                    next : Nat]]
      /\ handler'[h] = new /\ \A g \in Handlers \ {h} : handler'[g] = handler[g]
  BY <1>1, <1>4, <1>5
<1>7. \A g \in Handlers : handler'[g].step = "applying" <=> handler[g].step = "applying"
  BY <1>1, <1>6
<1>8. UploadsTypeOK'
  BY <1>1, <1>2, <1>6 DEF ServerInv, UploadsTypeOK, BatcherInv
<1>9. MutexHeldOnce'
  BY <1>7 DEF ServerInv, MutexHeldOnce
<1>10. EvidenceInv'
  BY <1>1, <1>7 DEF ServerInv, EvidenceInv, NewestEvidence, MutexFree
<1>11. CurrentOK'
  BY <1>1, <1>2, <1>6 DEF CurrentOK
<1>12. HandlerOK(handler[h])'
  <2>1. batch[Len(batch)] \in Nat /\ Len(batch) \in Nat /\ Len(batch) >= 1
    <3>1. Len(batch) \in 1..Len(batch) /\ batch[Len(batch)] \in Results
      BY <1>3
    <3> QED
      BY <1>3, <3>1 DEF Results
  <2>2. \A i \in 1..Len(batch) : batch[i] <= batch[Len(batch)]
    BY <1>3, <2>1 DEF ServerInv, BatcherInv, BatchRun
  <2> QED
    BY <1>2, <1>3, <1>6, <2>1, <2>2 DEF HandlerOK
<1>13. ASSUME NEW g \in Handlers, g # h PROVE HandlerOK(handler[g])'
  BY <1>1, <1>6, <1>13, HandlersStayOK DEF vars
<1>14. (\A r \in processed : r <= NextEnd)'
  BY <1>1, <1>2 DEF ServerInv
<1> QED
  BY <1>2, <1>8, <1>9, <1>10, <1>11, <1>12, <1>13, <1>14 DEF ServerInv

\* The mutex: what a rollback would restore is the evidence of now.
LEMMA LockKeeps ==
  ASSUME ServerInv, NEW h \in Handlers, Lock(h)
  PROVE  ServerInv'
<1>1. /\ handler' = [handler EXCEPT ![h].step = "applying"] /\ before' = exec
      /\ handler[h].step = "waiting" /\ MutexFree
      /\ UNCHANGED <<vars, outcome, current, exec, processed, overtaken>>
  BY DEF Lock
<1>2. BatcherInv' /\ NextEnd' = NextEnd /\ UNCHANGED <<loop, batch>>
  BY <1>1, ServerSteps
<1>3. handler \in [Handlers -> [step : HandlerSteps, results : Seq(Results),
                                next : Nat]]
  BY DEF ServerInv, UploadsTypeOK
<1>4. /\ handler' \in [Handlers -> [step : HandlerSteps, results : Seq(Results),
                                    next : Nat]]
      /\ handler'[h].step = "applying" /\ handler'[h].results = handler[h].results
      /\ handler'[h].next = handler[h].next
      /\ \A g \in Handlers \ {h} : handler'[g] = handler[g]
  BY <1>1, <1>3 DEF HandlerSteps
<1>5. \A g \in Handlers : handler'[g].step = "applying" => g = h
  BY <1>1, <1>4 DEF MutexFree
<1>6. UploadsTypeOK'
  BY <1>1, <1>2, <1>4 DEF ServerInv, UploadsTypeOK, BatcherInv
<1>7. MutexHeldOnce'
  BY <1>5 DEF MutexHeldOnce
<1>8. EvidenceInv'
  <2>1. ~MutexFree'
    BY <1>4 DEF MutexFree
  <2> QED
    BY <1>1, <2>1 DEF ServerInv, EvidenceInv, NewestEvidence
<1>9. CurrentOK'
  BY <1>1, <1>2, <1>4 DEF ServerInv, CurrentOK
<1>10. HandlerOK(handler[h])'
  <2>1. HandlerOK(handler[h])
    BY DEF ServerInv
  <2> QED
    BY <1>1, <1>2, <1>4, <2>1 DEF HandlerOK
<1>11. ASSUME NEW g \in Handlers, g # h PROVE HandlerOK(handler[g])'
  BY <1>1, <1>4, <1>11, HandlersStayOK DEF vars
<1>12. (\A r \in processed : r <= NextEnd)'
  BY <1>1, <1>2 DEF ServerInv
<1> QED
  BY <1>2, <1>6, <1>7, <1>8, <1>9, <1>10, <1>11, <1>12 DEF ServerInv

\* One result: the evidence is the result applied last.
LEMMA ApplyResultKeeps ==
  ASSUME ServerInv, NEW h \in Handlers, ApplyResult(h)
  PROVE  ServerInv'
<1> DEFINE x == handler[h]
           o == outcome[x.results[x.next]]
<1>1. /\ x.step = "applying" /\ x.next <= Len(x.results)
      /\ exec' = Observe(exec, o, 1)
      /\ handler' = [handler EXCEPT ![h].next = @ + 1]
      /\ UNCHANGED <<vars, outcome, current, before, processed, overtaken>>
  BY DEF ApplyResult
<1>2. BatcherInv' /\ NextEnd' = NextEnd /\ UNCHANGED <<loop, batch>>
  BY <1>1, ServerSteps
<1>3. handler \in [Handlers -> [step : HandlerSteps, results : Seq(Results),
                                next : Nat]]
  BY DEF ServerInv, UploadsTypeOK
<1>4. /\ handler' \in [Handlers -> [step : HandlerSteps, results : Seq(Results),
                                    next : Nat]]
      /\ handler'[h].step = "applying" /\ handler'[h].results = x.results
      /\ handler'[h].next = x.next + 1
      /\ \A g \in Handlers \ {h} : handler'[g] = handler[g]
  BY <1>1, <1>3
<1>5. HandlerOK(x) /\ x.results \in Seq(Results) /\ x.next \in 1..Len(x.results)
  BY <1>1, <1>3 DEF ServerInv, HandlerOK
<1>6. o \in StableStates
  <2>1. x.results[x.next] \in Results
    BY <1>5
  <2> QED
    BY <2>1 DEF ServerInv, UploadsTypeOK
<1>7. exec' \in ExecStates({NoTime, 1}) /\ exec'.LastOutcome = o
  BY <1>1, <1>6, ObserveType DEF ServerInv, UploadsTypeOK
<1>8. \A g \in Handlers : handler[g].step = "applying" => g = h
  BY <1>1 DEF ServerInv, MutexHeldOnce
<1>9. UploadsTypeOK'
  BY <1>1, <1>2, <1>4, <1>7 DEF ServerInv, UploadsTypeOK, BatcherInv
<1>10. MutexHeldOnce'
  BY <1>4, <1>8 DEF MutexHeldOnce
<1>11. EvidenceInv'
  <2>1. ~MutexFree /\ ~MutexFree'
    BY <1>1, <1>4 DEF MutexFree
  <2> QED
    BY <1>1, <2>1 DEF ServerInv, EvidenceInv, NewestEvidence
<1>12. CurrentOK'
  BY <1>1, <1>2, <1>4 DEF ServerInv, CurrentOK
<1>13. HandlerOK(handler[h])'
  <2>1. outcome'[x.results[(x.next + 1) - 1]] = exec'.LastOutcome
    BY <1>1, <1>5, <1>7
  <2>2. Len(x.results) \in Nat
    BY <1>5
  <2> QED
    BY <1>1, <1>2, <1>4, <1>5, <2>1, <2>2 DEF HandlerOK
<1>14. ASSUME NEW g \in Handlers, g # h PROVE HandlerOK(handler[g])'
  <2>1. handler'[g] = handler[g] /\ handler[g].step # "applying"
    BY <1>4, <1>8, <1>14
  <2>2. HandlerOK(handler[g])
    BY DEF ServerInv
  <2> QED
    BY <1>2, <2>1, <2>2 DEF HandlerOK
<1>15. (\A r \in processed : r <= NextEnd)'
  BY <1>1, <1>2 DEF ServerInv
<1> QED
  BY <1>2, <1>9, <1>10, <1>11, <1>12, <1>13, <1>14, <1>15 DEF ServerInv

\* A handler ends: it was the one with the mutex, and others are as before.
LEMMA FinishedEffect ==
  ASSUME ServerInv, NEW h \in Handlers, NEW answer \in {"ok", "failed"},
         handler[h].step = "applying", Finished(h, answer)
  PROVE  /\ handler' \in [Handlers -> [step : HandlerSteps, results : Seq(Results),
                                       next : Nat]]
         /\ \A g \in Handlers : handler[g].step = "applying" <=> g = h
         /\ \A g \in Handlers : handler'[g].step # "applying"
         /\ \A g \in Handlers \ {h} : handler'[g] = handler[g]
         /\ IF h = current
              THEN /\ handler'[h].step = answer /\ handler'[h].next = handler[h].next
                   /\ handler'[h].results = handler[h].results
              ELSE handler'[h] = IdleHandler
<1>1. handler \in [Handlers -> [step : HandlerSteps, results : Seq(Results),
                                next : Nat]]
  BY DEF ServerInv, UploadsTypeOK
<1>2. IdleHandler \in [step : HandlerSteps, results : Seq(Results), next : Nat]
  BY DEF IdleHandler, HandlerSteps
<1>3. \A g \in Handlers : handler[g].step = "applying" <=> g = h
  BY DEF ServerInv, MutexHeldOnce
<1>4. [handler[h] EXCEPT !.step = answer]
        \in [step : HandlerSteps, results : Seq(Results), next : Nat]
  BY <1>1 DEF HandlerSteps
<1>5. handler' = [handler EXCEPT ![h] =
                    IF h = current THEN [handler[h] EXCEPT !.step = answer]
                    ELSE IdleHandler]
  BY <1>1 DEF Finished
<1>6. handler' \in [Handlers -> [step : HandlerSteps, results : Seq(Results),
                                 next : Nat]]
  BY <1>1, <1>2, <1>4, <1>5
<1>7. \A g \in Handlers \ {h} : handler'[g] = handler[g]
  BY <1>1, <1>5
<1>8. IF h = current
        THEN /\ handler'[h].step = answer /\ handler'[h].next = handler[h].next
             /\ handler'[h].results = handler[h].results
        ELSE handler'[h] = IdleHandler
  BY <1>1, <1>5
<1>9. \A g \in Handlers : handler'[g].step # "applying"
  BY <1>3, <1>7, <1>8 DEF IdleHandler
<1> QED
  BY <1>3, <1>6, <1>7, <1>8, <1>9

\* What the end of a handler keeps, whatever becomes of the evidence.
LEMMA FinishedKeeps ==
  ASSUME ServerInv, NEW h \in Handlers, NEW answer \in {"ok", "failed"},
         handler[h].step = "applying", Finished(h, answer),
         UNCHANGED <<vars, outcome, current>>
  PROVE  MutexHeldOnce' /\ CurrentOK' /\ \A g \in Handlers : HandlerOK(handler[g])'
<1>1. /\ \A g \in Handlers : handler[g].step = "applying" <=> g = h
      /\ \A g \in Handlers : handler'[g].step # "applying"
      /\ \A g \in Handlers \ {h} : handler'[g] = handler[g]
      /\ IF h = current
           THEN /\ handler'[h].step = answer /\ handler'[h].next = handler[h].next
                /\ handler'[h].results = handler[h].results
           ELSE handler'[h] = IdleHandler
  BY FinishedEffect
<1>2. NextEnd' = NextEnd /\ UNCHANGED <<loop, batch>>
  BY ServerSteps
<1>3. MutexHeldOnce'
  BY <1>1 DEF MutexHeldOnce
<1>4. CurrentOK'
  <2> SUFFICES ASSUME current # NoHandler
               PROVE  /\ loop = "posting" /\ handler'[current].step # "idle"
                      /\ handler'[current].results = batch
    BY <1>2 DEF CurrentOK
  <2>1. /\ loop = "posting" /\ current \in Handlers
        /\ handler[current].step # "idle" /\ handler[current].results = batch
    BY DEF ServerInv, CurrentOK, UploadsTypeOK
  <2> QED
    BY <1>1, <2>1
<1>5. ASSUME NEW g \in Handlers PROVE HandlerOK(handler[g])'
  <2>1. HandlerOK(handler[g])
    BY DEF ServerInv
  <2>2. CASE g # h
    BY <1>1, <1>2, <2>1, <2>2 DEF HandlerOK
  <2>3. CASE g = h /\ h = current
    BY <1>1, <1>2, <2>1, <2>3 DEF HandlerOK
  <2>4. CASE g = h /\ h # current
    BY <1>1, <2>4 DEF HandlerOK, IdleHandler
  <2> QED
    BY <2>2, <2>3, <2>4
<1> QED
  BY <1>3, <1>4, <1>5

\* The batch is processed.  If the probe still waits for it, its last result is
\* the newest of all.
LEMMA PersistKeeps ==
  ASSUME ServerInv, NEW h \in Handlers, Persist(h)
  PROVE  ServerInv'
<1> DEFINE x == handler[h]
           end == x.results[Len(x.results)]
<1>1. /\ x.step = "applying" /\ x.next > Len(x.results)
      /\ Finished(h, "ok")
      /\ processed' = processed \cup ResultsOf(h)
      /\ overtaken' = (h # current)
      /\ before' = NewCheckExecState
      /\ UNCHANGED <<vars, outcome, current, exec>>
  BY DEF Persist
<1>2. BatcherInv' /\ NextEnd' = NextEnd
  BY <1>1, ServerSteps
<1>3. /\ handler' \in [Handlers -> [step : HandlerSteps, results : Seq(Results),
                                    next : Nat]]
      /\ \A g \in Handlers : handler'[g].step # "applying"
  BY <1>1, FinishedEffect
<1>4. MutexHeldOnce' /\ CurrentOK' /\ \A g \in Handlers : HandlerOK(handler[g])'
  BY <1>1, FinishedKeeps
<1>5. /\ x.results \in Seq(Results) /\ x.results # <<>> /\ x.next \in Nat
      /\ end <= NextEnd
      /\ \A i \in 1..Len(x.results) : x.results[i] <= end
      /\ x.next \in 1..(Len(x.results) + 1)
      /\ x.next > 1 => exec.LastOutcome = outcome[x.results[x.next - 1]]
  BY <1>1 DEF ServerInv, UploadsTypeOK, HandlerOK
<1>6. /\ Len(x.results) \in Nat /\ Len(x.results) >= 1
      /\ x.next = Len(x.results) + 1 /\ x.next - 1 = Len(x.results)
  BY <1>1, <1>5
<1>7. exec.LastOutcome = outcome[end]
  BY <1>5, <1>6
<1>8. ResultsOf(h) \subseteq Results /\ end \in ResultsOf(h)
  BY <1>5, <1>6 DEF ResultsOf
<1>9. \A r \in ResultsOf(h) : r <= end
  BY <1>5 DEF ResultsOf
<1>10. NextEnd \in Int /\ end \in Int /\ \A r \in processed : r \in Int /\ r <= NextEnd
  <2>1. NextEnd \in Int
    <3>1. CASE batch # <<>>
      <4>1. batch[Len(batch)] \in Results
        BY <3>1 DEF ServerInv, BatcherInv, TypeOK
      <4> QED
        BY <3>1, <4>1 DEF NextEnd, Results
    <3>2. CASE batch = <<>>
      BY <3>2, BatcherAssumption DEF NextEnd, ServerInv, BatcherInv, TypeOK, Smaller
    <3> QED
      BY <3>1, <3>2
  <2> QED
    BY <1>8, <2>1 DEF ServerInv, UploadsTypeOK, Results
<1> HIDE DEF x, end
<1>11. (\A r \in processed : r <= NextEnd)'
  <2> SUFFICES ASSUME NEW r \in processed' PROVE r <= NextEnd
    BY <1>2
  <2>1. CASE r \in processed
    BY <1>10, <2>1
  <2>2. CASE r \in ResultsOf(h)
    <3>1. r \in Int /\ r <= end
      BY <1>8, <1>9, <2>2 DEF Results
    <3> QED
      BY <1>5, <1>10, <3>1
  <2> QED
    BY <1>1, <2>1, <2>2
<1>12. UploadsTypeOK'
  BY <1>1, <1>2, <1>3, <1>8, NoEvidenceType DEF ServerInv, UploadsTypeOK, BatcherInv
<1>13. EvidenceInv'
  <2>1. MutexFree'
    BY <1>3 DEF MutexFree
  <2> SUFFICES ASSUME h = current
               PROVE  exec.LastOutcome = outcome[Newest(processed')]
    BY <1>1, <2>1 DEF EvidenceInv, NewestEvidence
  <2>2. end = NextEnd
    <3>1. loop = "posting" /\ x.results = batch
      BY UploadsAssumption DEF x, ServerInv, CurrentOK
    <3> QED
      BY <1>5, <3>1 DEF NextEnd, end
  <2>3. end \in processed' /\ \A r \in processed' : r \in Int /\ r <= end
    BY <1>1, <1>2, <1>8, <1>11, <1>12, <2>2 DEF UploadsTypeOK, Results
  <2>4. Newest(processed') = end
    BY <2>3, NewestIs
  <2> QED
    BY <1>7, <2>4
<1> QED
  BY <1>2, <1>4, <1>11, <1>12, <1>13 DEF ServerInv

\* The batch is undone.
LEMMA RollbackKeeps ==
  ASSUME ServerInv, NEW h \in Handlers, Rollback(h)
  PROVE  ServerInv'
<1>1. /\ handler[h].step = "applying" /\ Finished(h, "failed")
      /\ exec' = before /\ before' = NewCheckExecState
      /\ UNCHANGED <<vars, outcome, current, processed, overtaken>>
  BY DEF Rollback
<1>2. BatcherInv' /\ NextEnd' = NextEnd
  BY <1>1, ServerSteps
<1>3. /\ handler' \in [Handlers -> [step : HandlerSteps, results : Seq(Results),
                                    next : Nat]]
      /\ \A g \in Handlers : handler'[g].step # "applying"
  BY <1>1, FinishedEffect
<1>4. MutexHeldOnce' /\ CurrentOK' /\ \A g \in Handlers : HandlerOK(handler[g])'
  BY <1>1, FinishedKeeps
<1>5. UploadsTypeOK'
  BY <1>1, <1>2, <1>3, NoEvidenceType DEF ServerInv, UploadsTypeOK, BatcherInv
<1>6. EvidenceInv'
  <2>1. ~MutexFree /\ MutexFree'
    BY <1>1, <1>3 DEF MutexFree
  <2> QED
    BY <1>1, <2>1 DEF ServerInv, EvidenceInv, NewestEvidence
<1>7. (\A r \in processed : r <= NextEnd)'
  BY <1>1, <1>2 DEF ServerInv
<1> QED
  BY <1>2, <1>4, <1>5, <1>6, <1>7 DEF ServerInv

\* SweepChecks takes the evidence away.
LEMMA LoseEvidenceKeeps ==
  ASSUME ServerInv, LoseEvidenceOfProbe
  PROVE  ServerInv'
<1>1. /\ MutexFree /\ exec' = LoseEvidence(exec)
      /\ UNCHANGED <<vars, outcome, handler, current, before, processed, overtaken>>
  BY DEF LoseEvidenceOfProbe
<1>2. BatcherInv' /\ NextEnd' = NextEnd /\ UNCHANGED <<loop, batch>>
  BY <1>1, ServerSteps
<1>3. exec' \in ExecStates({NoTime, 1}) /\ exec'.LastOutcome = "none"
  BY <1>1, NoEvidenceType DEF ServerInv, UploadsTypeOK
<1>4. UploadsTypeOK'
  BY <1>1, <1>2, <1>3 DEF ServerInv, UploadsTypeOK, BatcherInv
<1>5. MutexHeldOnce' /\ CurrentOK'
  BY <1>1, <1>2 DEF ServerInv, MutexHeldOnce, CurrentOK
<1>6. EvidenceInv'
  BY <1>1, <1>3 DEF EvidenceInv, NewestEvidence, MutexFree
<1>7. ASSUME NEW h \in Handlers PROVE HandlerOK(handler[h])'
  <2>1. HandlerOK(handler[h]) /\ handler[h].step # "applying"
    BY <1>1 DEF ServerInv, MutexFree
  <2> QED
    BY <1>1, <1>2, <2>1 DEF HandlerOK
<1>8. (\A r \in processed : r <= NextEnd)'
  BY <1>1, <1>2 DEF ServerInv
<1> QED
  BY <1>2, <1>4, <1>5, <1>6, <1>7, <1>8 DEF ServerInv

\* Every step of probe and server keeps the invariant.
LEMMA ServerStep ==
  ASSUME ServerInv, [UploadsNext]_allVars
  PROVE  ServerInv'
<1>1. CASE UNCHANGED server
           /\ (Enqueue \/ Close \/ SelectTick \/ SelectWake \/ SelectStop \/ TakeBatch)
  BY <1>1, BatcherMovesKeep
<1>2. ASSUME NEW answer \in Network, Upload(answer) PROVE ServerInv'
  BY <1>2, UploadKeeps, UploadsAssumption
<1>3. ASSUME NEW h \in Handlers,
             Receive(h) \/ Lock(h) \/ ApplyResult(h) \/ Persist(h) \/ Rollback(h)
      PROVE  ServerInv'
  BY <1>3, ReceiveKeeps, LockKeeps, ApplyResultKeeps, PersistKeeps, RollbackKeeps
<1>4. CASE LoseEvidenceOfProbe
  BY <1>4, LoseEvidenceKeeps
<1>5. CASE UNCHANGED allVars
  BY <1>5, BatcherMovesKeep DEF allVars
<1> QED
  BY <1>1, <1>2, <1>3, <1>4, <1>5 DEF UploadsNext

----------------------------------------------------------------------------
(* Theorems *)

\* The invariant of the batcher: the queue holds the newest results, and what
\* the server has processed is not newer than the upload to come (Enqueue,
\* takeBatch, requeue, trimPendingLocked), for any sizes.
THEOREM BatcherInvariant ==
  Spec => []BatcherInv
BY BatcherStart, BatcherStep, PTL DEF Spec

\* The queue and the batch have their types and lengths: no more than
\* MaxPending results wait (trimPendingLocked).
THEOREM BatcherTypes ==
  Spec => []TypeOK
<1>1. BatcherInv => TypeOK
  BY DEF BatcherInv
<1> QED
  BY <1>1, BatcherInvariant, PTL

\* The queue never has a hole and ends with the newest result (Enqueue, requeue,
\* trimPendingLocked).
THEOREM QueueHasNoHole ==
  Spec => []NoHoleInQueue
BY RunsHaveNoHole, BatcherInvariant, PTL

\* No wakeup is lost (signalFlush).
THEOREM FullBatchSignalled ==
  Spec => []FullBatchIsSignalled
<1>1. BatcherInv => FullBatchIsSignalled
  BY DEF BatcherInv
<1> QED
  BY <1>1, BatcherInvariant, PTL

\* No upload that is processed ends before an earlier one (takeBatch, requeue),
\* although a batch is sent again after a lost answer.
THEOREM UploadsStayInOrder ==
  Spec => UploadsInOrder
<1>1. BatcherInv /\ [Next]_vars => [newest' >= newest]_vars
  BY BatcherStep
<1> QED
  BY <1>1, BatcherInvariant, PTL DEF Spec, UploadsInOrder

\* Composed with the server, the batcher behaves as it does alone: whatever
\* answers the network gives, its handlers and SweepChecks do not disturb it.
\* So what is proved of Spec holds of UploadsSpec.
THEOREM UploadsImplementsBatcher ==
  UploadsSpec => Spec
<1>1. UploadsInit => Init
  BY DEF UploadsInit
<1>2. [UploadsNext]_allVars => [Next]_vars
  BY UploadsAssumption
  DEF UploadsNext, allVars, Next, Upload, Receive, Lock, ApplyResult, Persist,
      Rollback, LoseEvidenceOfProbe
<1> QED
  BY <1>1, <1>2, PTL DEF UploadsSpec, Spec

\* The invariant of probe and server: no handler holds, and the server has not
\* processed, a result newer than the end of the upload to come (handleResult,
\* applyObservedResultBatch), for any number of handlers that nobody waits for.
THEOREM ServerInvariant ==
  UploadsSpec => []ServerInv
BY ServerStart, ServerStep, PTL DEF UploadsSpec

\* Queue, handlers and evidence have their types.
THEOREM UploadsTypes ==
  UploadsSpec => []UploadsTypeOK
<1>1. ServerInv => UploadsTypeOK
  BY DEF ServerInv
<1> QED
  BY <1>1, ServerInvariant, PTL

\* Between two batches the evidence is that of the newest result processed,
\* unless the last batch was one that the probe had given up (requeue,
\* takeBatch, applyObservedResultBatch).
THEOREM EvidenceStaysNewest ==
  UploadsSpec => []EvidenceIsNewest
<1>1. ServerInv => EvidenceIsNewest
  BY DEF ServerInv, EvidenceInv, EvidenceIsNewest
<1> QED
  BY <1>1, ServerInvariant, PTL

============================================================================
