---------------------------- MODULE SignupLedger ---------------------------
(***************************************************************************)
(* What the signup flow promises, without transactions or locks.           *)
(*                                                                         *)
(* An email asks for access; an admin declines, or offers a setup token    *)
(* that is good for a limited time; the token sets the password once.  It  *)
(* must be presented before its time is over, although it may take until   *)
(* later to act on it.  An email that was declined, or whose offer ran     *)
(* out, may ask again once its wait is over.                               *)
(***************************************************************************)
EXTENDS Integers, Sequences

CONSTANTS
  Emails,
  Holders,      \* those who may present a token at the same time
  RetryWindow,  \* how long a declined email waits
  TokenTTL      \* how long a token is good

VARIABLES
  clock,
  status,   \* of the request of each email
  wait,     \* the time until which asking again is ignored
  offers,   \* every offer that was made, in order
  taken,    \* the offers whose token was used
  sessions, \* the sessions opened for each email
  bid       \* the offer whose token each holder has presented in time, or 0

vars == <<clock, status, wait, offers, taken, sessions, bid>>

Statuses == {"none", "pending", "approved", "rejected", "completed"}

TypeOK ==
  /\ clock \in Nat
  /\ status \in [Emails -> Statuses]
  /\ wait \in [Emails -> Nat]
  /\ offers \in Seq([email : Emails, until : Nat])
  /\ taken \subseteq 1..Len(offers)
  /\ sessions \in [Emails -> Nat]
  /\ bid \in [Holders -> 0..Len(offers)]

Init ==
  /\ clock = 0
  /\ status = [e \in Emails |-> "none"]
  /\ wait = [e \in Emails |-> 0]
  /\ offers = <<>>
  /\ taken = {}
  /\ sessions = [e \in Emails |-> 0]
  /\ bid = [h \in Holders |-> 0]

\* Only a request that is new, declined or left unused is opened, and the last
\* two only when their wait is over.
Ask(e) ==
  /\ status[e] \in {"none", "rejected", "approved"}
  /\ wait[e] <= clock
  /\ status' = [status EXCEPT ![e] = "pending"]
  /\ wait' = [wait EXCEPT ![e] = 0]
  /\ UNCHANGED <<clock, offers, taken, sessions, bid>>

\* One decision for each opening.  Its wait is counted from a time that may lie
\* in the past already.
Decline(e) ==
  /\ status[e] = "pending"
  /\ status' = [status EXCEPT ![e] = "rejected"]
  /\ wait'[e] \in 0..(clock + RetryWindow)
  /\ wait' = [wait EXCEPT ![e] = wait'[e]]
  /\ UNCHANGED <<clock, offers, taken, sessions, bid>>

Offer(e) ==
  /\ status[e] = "pending"
  /\ status' = [status EXCEPT ![e] = "approved"]
  /\ wait'[e] \in 0..(clock + TokenTTL)
  /\ wait' = [wait EXCEPT ![e] = wait'[e]]
  /\ offers' = Append(offers, [email |-> e, until |-> wait'[e]])
  /\ UNCHANGED <<clock, taken, sessions, bid>>

\* No later offer was made to the same email.
Latest(k) == \A j \in (k + 1)..Len(offers) : offers[j].email # offers[k].email

\* A holder brings the token of the k-th offer, which has not expired ...
Present(h, k) ==
  /\ clock < offers[k].until
  /\ bid' = [bid EXCEPT ![h] = k]
  /\ UNCHANGED <<clock, status, wait, offers, taken, sessions>>

\* ... and is turned away,
Withdraw(h) ==
  /\ bid' = [bid EXCEPT ![h] = 0]
  /\ UNCHANGED <<clock, status, wait, offers, taken, sessions>>

\* or the token is used, for the first and only time.
Accept(h, k) ==
  /\ bid[h] = k
  /\ k \notin taken /\ Latest(k)
  /\ status[offers[k].email] = "approved"
  /\ taken' = taken \cup {k}
  /\ sessions' = [sessions EXCEPT ![offers[k].email] = @ + 1]
  /\ status' = [status EXCEPT ![offers[k].email] = "completed"]
  /\ wait' = [wait EXCEPT ![offers[k].email] = 0]
  /\ bid' = [bid EXCEPT ![h] = 0]
  /\ UNCHANGED <<clock, offers>>

Pass ==
  /\ clock' = clock + 1
  /\ UNCHANGED <<status, wait, offers, taken, sessions, bid>>

Next ==
  \/ \E e \in Emails : Ask(e) \/ Decline(e) \/ Offer(e)
  \/ \E h \in Holders : \/ \E k \in 1..Len(offers) : Present(h, k) \/ Accept(h, k)
                        \/ Withdraw(h)
  \/ Pass

Spec == Init /\ [][Next]_vars

============================================================================
