------------------------------- MODULE Signup ------------------------------
(***************************************************************************)
(* Signup requests: the handlers of internal/server/auth.go and the        *)
(* transactions of internal/store/auth.go on the rows of signup_requests.  *)
(*                                                                         *)
(* A call takes the time when it starts, before it waits for its row, so   *)
(* its time may be old when it decides.  SELECT ... FOR UPDATE locks the   *)
(* row until the transaction ends; the write and the commit are one step,  *)
(* and until then the call may fail without a trace.                       *)
(*                                                                         *)
(* A row keeps the latest of its times that is compared with now:          *)
(* rejected_at + signupRetryWindow, or setup_token_expires_at.  Tokens are *)
(* numbers in the order of issue (randomHexToken never repeats one);       *)
(* setup_token_used_at is set exactly with status completed.               *)
(***************************************************************************)
EXTENDS Integers, Sequences, FiniteSets

CONSTANTS
  Emails,
  Calls,        \* HTTP requests that run at the same time
  RetryWindow,  \* signupRetryWindow
  TokenTTL,     \* setupTokenTTL
  MaxClock,     \* bound: the clock
  MaxTokens     \* bound: setup tokens

ASSUME SignupAssumption ==
  /\ RetryWindow \in Nat /\ TokenTTL \in Nat
  /\ MaxClock \in Nat /\ MaxTokens \in Nat

VARIABLES
  clock,
  row,       \* signup_requests by email
  users,     \* emails with a row in users
  sessions,  \* the sessions that setup has opened for each email
  page,      \* the requests on the admin's screen
  call,      \* what each HTTP request is doing
  approvals, \* history: the approvals that were committed, by token
  used       \* history: the tokens that set a password

vars == <<clock, row, users, sessions, page, call, approvals, used>>

Statuses == {"none", "pending", "approved", "rejected", "completed"}
Tokens == 1..MaxTokens

Times ==
  0..(MaxClock + IF RetryWindow > TokenTTL THEN RetryWindow ELSE TokenTTL)

RowType == [status : Statuses, token : 0..MaxTokens, until : Times]
NoRow == [status |-> "none", token |-> 0, until |-> 0]

Ops == {"none", "request", "approve", "reject", "setup"}
Idle == [op |-> "none", step |-> "idle", email |-> "none", token |-> 0,
         now |-> 0, saw |-> NoRow]

CallType ==
  [op : Ops, step : {"idle", "read", "write"}, email : Emails \cup {"none"},
   token : 0..MaxTokens, now : 0..MaxClock, saw : RowType]

TypeOK ==
  /\ clock \in 0..MaxClock
  /\ row \in [Emails -> RowType]
  /\ users \subseteq Emails
  /\ sessions \in [Emails -> Nat]
  /\ page \subseteq Emails
  /\ call \in [Calls -> CallType]
  /\ approvals \in Seq([email : Emails, until : Times])
  /\ Len(approvals) <= MaxTokens
  /\ used \subseteq 1..Len(approvals)

\* Some emails have an account already (the seed user).
Init ==
  /\ clock = 0
  /\ row = [e \in Emails |-> NoRow]
  /\ users \in SUBSET Emails
  /\ sessions = [e \in Emails |-> 0]
  /\ page = {}
  /\ call = [c \in Calls |-> Idle]
  /\ approvals = <<>>
  /\ used = {}

----------------------------------------------------------------------------
(* The handlers *)

Start(c, op, e, k) ==
  /\ call[c].step = "idle"
  /\ call' = [call EXCEPT ![c] = [op |-> op, step |-> "read", email |-> e,
                                  token |-> k, now |-> clock, saw |-> NoRow]]
  /\ UNCHANGED <<clock, row, users, sessions, page, approvals, used>>

HandleRequestAccess(c, e) == Start(c, "request", e, 0)

\* ListPendingSignupRequests; the admin decides on what the screen shows.
HandleListSignupRequests ==
  /\ page' = {e \in Emails : row[e].status = "pending"}
  /\ UNCHANGED <<clock, row, users, sessions, call, approvals, used>>

HandleApproveSignupRequest(c, e) == e \in page /\ Start(c, "approve", e, 0)

HandleRejectSignupRequest(c, e) == e \in page /\ Start(c, "reject", e, 0)

\* The holder of a token may use it more than once.
HandleSetupPassword(c, k) ==
  k \in 1..Len(approvals) /\ Start(c, "setup", "none", k)

\* The handler answers: the call is over.
Answer(c) == call' = [call EXCEPT ![c] = Idle]

\* An error of the database, or a crash: the transaction is rolled back.
Fail(c) ==
  /\ call[c].step # "idle"
  /\ Answer(c)
  /\ UNCHANGED <<clock, row, users, sessions, page, approvals, used>>

----------------------------------------------------------------------------
(* The transactions *)

\* The rows that a call's query finds
Found(c) ==
  {e \in Emails : row[e].status # "none" /\
     IF call[c].op = "setup" THEN row[e].token = call[c].token
     ELSE e = call[c].email}

\* Mutant: the row is read without FOR UPDATE.
Locked_Never(e) == FALSE

\* Mutant: SetupPassword reads without FOR UPDATE.
Locked_NotBySetup(e) ==
  \E c \in Calls : /\ call[c].step = "write" /\ call[c].email = e
                   /\ call[c].saw.status # "none" /\ call[c].op # "setup"

\* A transaction holds the row from its SELECT ... FOR UPDATE on.
Locked(e) ==
  \E c \in Calls : /\ call[c].step = "write" /\ call[c].email = e
                   /\ call[c].saw.status # "none"

\* getSignupRequestBy...ForUpdate
SelectForUpdate(c) ==
  /\ call[c].step = "read" /\ call[c].op # "reject"
  /\ \E e \in Found(c) :
       /\ ~Locked(e)
       /\ call' = [call EXCEPT ![c].step = "write", ![c].email = e,
                               ![c].saw = row[e]]
  /\ UNCHANGED <<clock, row, users, sessions, page, approvals, used>>

\* There is no such request: only CreateSignupRequest goes on.
SelectNothing(c) ==
  /\ call[c].step = "read" /\ call[c].op # "reject"
  /\ Found(c) = {}
  /\ IF call[c].op = "request"
       THEN call' = [call EXCEPT ![c].step = "write"]
       ELSE Answer(c)
  /\ UNCHANGED <<clock, row, users, sessions, page, approvals, used>>

Pending == [status |-> "pending", token |-> 0, until |-> 0]

\* Mutant: an approved request may be opened again at any time.
MayReopen_Early(r, now) ==
  \/ r.status = "rejected" /\ ~(r.until > now)
  \/ r.status = "approved"

\* The switch of CreateSignupRequest
MayReopen(r, now) ==
  r.status \in {"rejected", "approved"} /\ ~(r.until > now)

\* A new request (ON CONFLICT DO NOTHING), unless the email has an account, or
\* an old one reopened
CreateSignupRequest(c) ==
  /\ call[c].step = "write" /\ call[c].op = "request"
  /\ LET e == call[c].email
         opens == IF call[c].saw.status = "none"
                    THEN e \notin users /\ row[e].status = "none"
                    ELSE MayReopen(call[c].saw, call[c].now)
     IN  row' = IF opens THEN [row EXCEPT ![e] = Pending] ELSE row
  /\ Answer(c)
  /\ UNCHANGED <<clock, users, sessions, page, approvals, used>>

\* Mutant: the token is good for the retry window too.
ExpiresAt_BothWindows(now) == now + TokenTTL + RetryWindow

ExpiresAt(now) == now + TokenTTL

\* A user with a placeholder password is created, or the user reused, and a
\* fresh token is stored.
ApproveSignupRequest(c) ==
  /\ call[c].step = "write" /\ call[c].op = "approve"
  /\ LET e == call[c].email
         until == ExpiresAt(call[c].now)
         k == Len(approvals) + 1
     IN  IF call[c].saw.status = "pending"
           THEN /\ k \in Tokens
                /\ row' = [row EXCEPT ![e] = [status |-> "approved",
                                              token |-> k, until |-> until]]
                /\ users' = users \cup {e}
                /\ approvals' = Append(approvals, [email |-> e, until |-> until])
           ELSE UNCHANGED <<row, users, approvals>>
  /\ Answer(c)
  /\ UNCHANGED <<clock, sessions, page, used>>

\* A single UPDATE, which waits for the row like the others
RejectSignupRequest(c) ==
  /\ call[c].step = "read" /\ call[c].op = "reject"
  /\ LET e == call[c].email
     IN  /\ ~Locked(e)
         /\ row' = IF row[e].status = "pending"
              THEN [row EXCEPT ![e] = [status |-> "rejected", token |-> 0,
                                       until |-> call[c].now + RetryWindow]]
              ELSE row
  /\ Answer(c)
  /\ UNCHANGED <<clock, users, sessions, page, approvals, used>>

\* Mutant: the expiry of the token is not looked at.
Redeemable_Expired(r, now) == r.status = "approved"

\* The request is approved and its token has not expired.
Redeemable(r, now) == r.status = "approved" /\ r.until > now

Completed(r) == [status |-> "completed", token |-> 0, until |-> 0]

\* The password, the session and the end of the token are one transaction.
SetupPassword(c) ==
  /\ call[c].step = "write" /\ call[c].op = "setup"
  /\ LET e == call[c].email
     IN  IF Redeemable(call[c].saw, call[c].now)
           THEN /\ row' = [row EXCEPT ![e] = Completed(@)]
                /\ sessions' = [sessions EXCEPT ![e] = @ + 1]
                /\ used' = used \cup {call[c].token}
           ELSE UNCHANGED <<row, sessions, used>>
  /\ Answer(c)
  /\ UNCHANGED <<clock, users, page, approvals>>

Tick ==
  /\ clock < MaxClock
  /\ clock' = clock + 1
  /\ UNCHANGED <<row, users, sessions, page, call, approvals, used>>

Transaction(c) ==
  \/ SelectForUpdate(c) \/ SelectNothing(c)
  \/ CreateSignupRequest(c) \/ ApproveSignupRequest(c)
  \/ RejectSignupRequest(c) \/ SetupPassword(c)

Next ==
  \/ \E c \in Calls :
       \/ \E e \in Emails : \/ HandleRequestAccess(c, e)
                            \/ HandleApproveSignupRequest(c, e)
                            \/ HandleRejectSignupRequest(c, e)
       \/ \E k \in Tokens : HandleSetupPassword(c, k)
       \/ Transaction(c)
       \/ Fail(c)
  \/ HandleListSignupRequests
  \/ Tick

Spec == Init /\ [][Next]_vars

----------------------------------------------------------------------------
(* Properties *)

Stands(k) ==
  \/ k \in used
  \/ approvals[k].until <= clock
  \/ LET r == row[approvals[k].email]
     IN  r.status = "approved" /\ r.token = k /\ r.until = approvals[k].until

\* A setup token that was returned to an admin is good until it is used or its
\* time is over: no second decision, no early new request and no late call
\* takes it away (ApproveSignupRequest, CreateSignupRequest).
ApprovalStands == \A k \in 1..Len(approvals) : Stands(k)

\* A signup opens one session: of several calls with the same token one wins,
\* and a completed request is never opened again (SetupPassword).
OneSessionPerSignup == \A e \in Emails : sessions[e] <= 1

\* The token that a call has brought before it expired, or 0
Presented(c) ==
  IF call[c].op = "setup" /\ approvals[call[c].token].until > call[c].now
    THEN call[c].token ELSE 0

\* The transactions implement the ledger: each call has the effect of at most
\* one of its operations, at one moment, and a token sets a password only for a
\* call that began before the token expired (internal/store/auth.go).
Ledger == INSTANCE SignupLedger WITH
  Holders <- Calls,
  bid <- [c \in Calls |-> Presented(c)],
  status <- [e \in Emails |-> row[e].status],
  wait <- [e \in Emails |-> row[e].until],
  offers <- approvals,
  taken <- used

ImplementsLedger == Ledger!Spec

----------------------------------------------------------------------------
(* The inductive invariant behind the properties (SignupProofs).           *)

Writing(c) == call[c].step = "write"

\* The call has a row, and holds its lock.
Holds(c) == Writing(c) /\ call[c].saw.status # "none"

\* A call is not ahead of the clock, and its decision is on the row as it is.
CallOK(c) ==
  /\ call[c].now <= clock
  /\ call[c].step # "idle" /\ call[c].op # "setup" => call[c].email \in Emails
  /\ call[c].op = "setup" => call[c].token \in 1..Len(approvals)
  /\ ~Writing(c) => call[c].saw = NoRow
  /\ Writing(c) /\ ~Holds(c) => call[c].op = "request"
  /\ Holds(c) => /\ call[c].email \in Emails
                 /\ call[c].saw = row[call[c].email]
                 /\ call[c].op = "setup" => call[c].saw.token = call[c].token

\* No row is held twice.
CallInv ==
  /\ \A c \in Calls : CallOK(c)
  /\ \A c, d \in Calls :
       Holds(c) /\ Holds(d) /\ call[c].email = call[d].email => c = d

\* A token belongs to the latest approval of its email, which is not used, and
\* a session to a request that is completed.
TokenOK(e) ==
  /\ row[e].token # 0 <=> row[e].status = "approved"
  /\ row[e].status = "approved" =>
       /\ row[e].token \in 1..Len(approvals) /\ row[e].token \notin used
       /\ approvals[row[e].token] = [email |-> e, until |-> row[e].until]
       /\ \A j \in (row[e].token + 1)..Len(approvals) : approvals[j].email # e
  /\ row[e].status \in {"none", "pending", "completed"} => row[e].until = 0
  /\ sessions[e] = IF row[e].status = "completed" THEN 1 ELSE 0

TokenInv == \A e \in Emails : TokenOK(e)

SignupInv == TypeOK /\ CallInv /\ TokenInv /\ ApprovalStands

============================================================================
