---------------------------- MODULE SignupProofs ---------------------------
(***************************************************************************)
(* Theorems about Signup, for any set of emails, any number of calls at a  *)
(* time, any windows and any bounds.                                       *)
(***************************************************************************)
EXTENDS Signup, TLAPS

\* The deadlines that decisions write, and the empty one, are within Times.
LEMMA DeadlineTypes ==
  /\ 0 \in Times
  /\ \A now \in 0..MaxClock : /\ now + RetryWindow \in Times
                              /\ ExpiresAt(now) \in Times
BY SignupAssumption DEF Times, ExpiresAt

\* The rows that the transactions write are rows.
LEMMA RowTypes ==
  /\ NoRow \in RowType
  /\ Pending \in RowType
  /\ \A r : Completed(r) \in RowType
BY SignupAssumption, DeadlineTypes
   DEF NoRow, Pending, Completed, RowType, Statuses

----------------------------------------------------------------------------
(* Types *)

\* The idle call is a call.
LEMMA IdleType ==
  Idle \in CallType
BY RowTypes, SignupAssumption DEF Idle, CallType, Ops

\* A call that goes on to its write
LEMMA WriteStepType ==
  ASSUME NEW x \in CallType
  PROVE  /\ [x EXCEPT !.step = "write"] \in CallType
         /\ \A e \in Emails, r \in RowType :
              [x EXCEPT !.step = "write", !.email = e, !.saw = r] \in CallType
BY DEF CallType

\* Every step keeps every variable within its type.
LEMMA TypeStep ==
  ASSUME TypeOK, CallInv, [Next]_vars
  PROVE  TypeOK'
<1> USE SignupAssumption, RowTypes, IdleType
<1>1. ASSUME NEW c \in Calls, NEW op \in Ops, NEW e \in Emails \cup {"none"},
             NEW k \in 0..MaxTokens, Start(c, op, e, k)
      PROVE  TypeOK'
  <2>1. [op |-> op, step |-> "read", email |-> e, token |-> k, now |-> clock,
         saw |-> NoRow] \in CallType
    BY DEF CallType, TypeOK
  <2> QED
    BY <1>1, <2>1 DEF Start, TypeOK
<1>2. ASSUME NEW c \in Calls, NEW e \in Emails,
             \/ HandleRequestAccess(c, e) \/ HandleApproveSignupRequest(c, e)
             \/ HandleRejectSignupRequest(c, e)
      PROVE  TypeOK'
  <2>1. PICK op \in Ops : Start(c, op, e, 0)
    BY <1>2 DEF HandleRequestAccess, HandleApproveSignupRequest,
                HandleRejectSignupRequest, Ops
  <2> QED
    BY <1>1, <2>1
<1>3. ASSUME NEW c \in Calls, NEW k \in Tokens, HandleSetupPassword(c, k)
      PROVE  TypeOK'
  <2>1. "setup" \in Ops /\ k \in 0..MaxTokens /\ Start(c, "setup", "none", k)
    BY <1>3 DEF HandleSetupPassword, Ops, Tokens
  <2> QED
    BY <1>1, <2>1
<1>4. ASSUME NEW c \in Calls, SelectForUpdate(c)
      PROVE  TypeOK'
  <2>1. PICK e \in Emails :
          call' = [call EXCEPT ![c] = [call[c] EXCEPT !.step = "write",
                                         !.email = e, !.saw = row[e]]]
    BY <1>4, ZenonT(60) DEF SelectForUpdate, Found
  <2>2. [call[c] EXCEPT !.step = "write", !.email = e, !.saw = row[e]] \in CallType
    BY WriteStepType DEF TypeOK
  <2>3. UNCHANGED <<clock, row, users, sessions, page, approvals, used>>
    BY <1>4 DEF SelectForUpdate
  <2> QED
    BY <2>1, <2>2, <2>3 DEF TypeOK
<1>5. ASSUME NEW c \in Calls, SelectNothing(c)
      PROVE  TypeOK'
  <2>1. PICK x \in CallType : call' = [call EXCEPT ![c] = x]
    <3>1. [call[c] EXCEPT !.step = "write"] \in CallType
      BY WriteStepType DEF TypeOK
    <3> QED
      BY <1>5, <3>1 DEF SelectNothing, Answer
  <2>2. UNCHANGED <<clock, row, users, sessions, page, approvals, used>>
    BY <1>5 DEF SelectNothing
  <2> QED
    BY <2>1, <2>2 DEF TypeOK
<1>6. ASSUME NEW c \in Calls, CreateSignupRequest(c)
      PROVE  TypeOK'
  BY <1>6 DEF CreateSignupRequest, Answer, TypeOK
<1>7. ASSUME NEW c \in Calls, ApproveSignupRequest(c)
      PROVE  TypeOK'
  <2> DEFINE e == call[c].email
             until == ExpiresAt(call[c].now)
             k == Len(approvals) + 1
  <2>1. CASE call[c].saw.status # "pending"
    BY <1>7, <2>1 DEF ApproveSignupRequest, Answer, TypeOK
  <2>2. CASE call[c].saw.status = "pending"
    <3>1. e \in Emails /\ until \in Times
      <4>1. e \in Emails
        BY <1>7, <2>2 DEF ApproveSignupRequest, CallInv, CallOK, Writing, Holds
      <4>2. call[c].now \in 0..MaxClock
        BY DEF TypeOK, CallType
      <4> QED
        BY <4>1, <4>2, DeadlineTypes
    <3>2. /\ k \in Tokens
          /\ row' = [row EXCEPT ![e] = [status |-> "approved", token |-> k,
                                        until |-> until]]
          /\ users' = users \cup {e}
          /\ approvals' = Append(approvals, [email |-> e, until |-> until])
          /\ call' = [call EXCEPT ![c] = Idle]
          /\ UNCHANGED <<clock, sessions, page, used>>
      BY <1>7, <2>2 DEF ApproveSignupRequest, Answer
    <3>3. row' \in [Emails -> RowType]
      BY <3>1, <3>2 DEF TypeOK, RowType, Statuses, Tokens
    <3>4. /\ approvals' \in Seq([email : Emails, until : Times])
          /\ Len(approvals') = k
      BY <3>1, <3>2 DEF TypeOK
    <3> HIDE DEF e, until, k
    <3>5. used' \subseteq 1..Len(approvals')
      BY <3>2, <3>4 DEF TypeOK, k
    <3> QED
      BY <3>1, <3>2, <3>3, <3>4, <3>5 DEF TypeOK, Tokens
  <2> QED
    BY <2>1, <2>2
<1>8. ASSUME NEW c \in Calls, RejectSignupRequest(c)
      PROVE  TypeOK'
  <2>1. [status |-> "rejected", token |-> 0, until |-> call[c].now + RetryWindow]
          \in RowType
    BY DeadlineTypes DEF TypeOK, CallType, RowType, Statuses
  <2> QED
    BY <1>8, <2>1 DEF RejectSignupRequest, Answer, TypeOK
<1>9. ASSUME NEW c \in Calls, SetupPassword(c)
      PROVE  TypeOK'
  <2>1. call[c].token \in 1..Len(approvals)
    BY <1>9 DEF SetupPassword, CallInv, CallOK
  <2> DEFINE e == call[c].email
  <2>2. \/ UNCHANGED <<row, sessions, used>>
        \/ /\ row' = [row EXCEPT ![e] = Completed(row[e])]
           /\ sessions' = [sessions EXCEPT ![e] = sessions[e] + 1]
           /\ used' = used \cup {call[c].token}
    BY <1>9 DEF SetupPassword
  <2>3. row' \in [Emails -> RowType]
    BY <2>2 DEF TypeOK
  <2>4. sessions' \in [Emails -> Nat]
    BY <2>2 DEF TypeOK
  <2>5. used' \subseteq 1..Len(approvals)
    BY <2>1, <2>2 DEF TypeOK
  <2>6. /\ call' = [call EXCEPT ![c] = Idle]
        /\ UNCHANGED <<clock, users, page, approvals>>
    BY <1>9 DEF SetupPassword, Answer
  <2> QED
    BY <2>3, <2>4, <2>5, <2>6 DEF TypeOK
<1>10. ASSUME NEW c \in Calls, Fail(c)
       PROVE  TypeOK'
  BY <1>10 DEF Fail, Answer, TypeOK
<1>11. CASE HandleListSignupRequests
  BY <1>11 DEF HandleListSignupRequests, TypeOK
<1>12. CASE Tick
  BY <1>12 DEF Tick, TypeOK
<1>13. CASE UNCHANGED vars
  BY <1>13 DEF vars, TypeOK
<1> QED
  BY <1>2, <1>3, <1>4, <1>5, <1>6, <1>7, <1>8, <1>9, <1>10, <1>11, <1>12, <1>13
     DEF Next, Transaction

----------------------------------------------------------------------------
(* The calls *)

\* The locks of the model are the rows that calls hold.
LEMMA LockedIsHeld ==
  ASSUME NEW e
  PROVE  Locked(e) <=> \E c \in Calls : Holds(c) /\ call[c].email = e
BY DEF Locked, Holds, Writing

\* A call that ends, with a change of rows that no other call holds, leaves the
\* other calls as they were.
LEMMA AnswerKeepsCalls ==
  ASSUME TypeOK, CallInv, NEW c \in Calls, Answer(c), UNCHANGED clock,
         Len(approvals) \in Nat, Len(approvals') \in Nat,
         Len(approvals) <= Len(approvals'),
         \A d \in Calls \ {c} : Holds(d) => row'[call[d].email] = row[call[d].email]
  PROVE  CallInv'
<1>1. \A d \in Calls : call'[d] = IF d = c THEN Idle ELSE call[d]
  BY DEF Answer, TypeOK
<1>2. ASSUME NEW d \in Calls
      PROVE  CallOK(d)'
  <2>1. CASE d = c
    BY <1>1, <2>1, SignupAssumption DEF Idle, TypeOK, CallOK, Writing, Holds
  <2>2. CASE d # c
    <3>1. CallOK(d) /\ call'[d] = call[d]
      BY <1>1, <2>2 DEF CallInv
    <3>2. (Writing(d)' <=> Writing(d)) /\ (Holds(d)' <=> Holds(d))
      BY <3>1 DEF Writing, Holds
    <3>3. Holds(d) => row'[call[d].email] = row[call[d].email]
      BY <2>2
    <3> QED
      BY <3>1, <3>2, <3>3 DEF CallOK
  <2> QED
    BY <2>1, <2>2
<1>3. \A d, f \in Calls :
        Holds(d)' /\ Holds(f)' /\ call'[d].email = call'[f].email => d = f
  BY <1>1 DEF CallInv, Writing, Holds, Idle
<1> QED
  BY <1>2, <1>3 DEF CallInv

\* A call that starts or goes on leaves the other calls as they were.
LEMMA CallStep ==
  ASSUME TypeOK, CallInv, NEW c \in Calls, NEW x \in CallType,
         call' = [call EXCEPT ![c] = x], UNCHANGED <<clock, row, approvals>>,
         x.now <= clock,
         x.step # "idle" /\ x.op # "setup" => x.email \in Emails,
         x.op = "setup" => x.token \in 1..Len(approvals),
         x.step # "write" => x.saw = NoRow,
         x.step = "write" /\ x.saw.status = "none" => x.op = "request",
         x.step = "write" /\ x.saw.status # "none" =>
           /\ x.email \in Emails /\ x.saw = row[x.email] /\ ~Locked(x.email)
           /\ x.op = "setup" => x.saw.token = x.token
  PROVE  CallInv'
<1>1. \A d \in Calls : call'[d] = IF d = c THEN x ELSE call[d]
  BY DEF TypeOK
<1>2. ASSUME NEW d \in Calls
      PROVE  CallOK(d)'
  <2>1. CASE d = c
    BY <1>1, <2>1 DEF CallOK, Writing, Holds
  <2>2. CASE d # c
    <3>1. CallOK(d) /\ call'[d] = call[d]
      BY <1>1, <2>2 DEF CallInv
    <3>2. (Writing(d)' <=> Writing(d)) /\ (Holds(d)' <=> Holds(d))
      BY <3>1 DEF Writing, Holds
    <3> QED
      BY <3>1, <3>2 DEF CallOK
  <2> QED
    BY <2>1, <2>2
<1>3. \A d, f \in Calls :
        Holds(d)' /\ Holds(f)' /\ call'[d].email = call'[f].email => d = f
  BY <1>1, LockedIsHeld DEF CallInv, Writing, Holds
<1> QED
  BY <1>2, <1>3 DEF CallInv

\* A transaction that changes one row, which no other call holds, and ends
LEMMA RowStep ==
  ASSUME TypeOK, CallInv, NEW c \in Calls, Answer(c), UNCHANGED clock,
         approvals' = approvals \/ \E a : approvals' = Append(approvals, a),
         NEW e, NEW r, row' = row \/ row' = [row EXCEPT ![e] = r],
         \A d \in Calls \ {c} : Holds(d) => call[d].email # e
  PROVE  CallInv'
<1>1. \A d \in Calls \ {c} : Holds(d) => row'[call[d].email] = row[call[d].email]
  BY DEF TypeOK, CallInv, CallOK
<1>2. /\ Len(approvals) \in Nat /\ Len(approvals') \in Nat
      /\ Len(approvals) <= Len(approvals')
  BY DEF TypeOK
<1> QED
  BY <1>1, <1>2, AnswerKeepsCalls

\* Every step keeps the calls and their locks in order.
LEMMA CallInvStep ==
  ASSUME TypeOK, CallInv, [Next]_vars
  PROVE  CallInv'
<1> USE SignupAssumption
<1>1. ASSUME NEW c \in Calls, NEW op \in Ops, NEW e \in Emails \cup {"none"},
             NEW k \in 0..MaxTokens, Start(c, op, e, k),
             op # "setup" => e \in Emails, op = "setup" => k \in 1..Len(approvals)
      PROVE  CallInv'
  <2> DEFINE x == [op |-> op, step |-> "read", email |-> e, token |-> k,
                   now |-> clock, saw |-> NoRow]
  <2>1. x \in CallType
    BY RowTypes DEF CallType, TypeOK
  <2>2. /\ call' = [call EXCEPT ![c] = x] /\ UNCHANGED <<clock, row, approvals>>
    BY <1>1 DEF Start
  <2>3. /\ x.now <= clock
        /\ x.step # "idle" /\ x.op # "setup" => x.email \in Emails
        /\ x.op = "setup" => x.token \in 1..Len(approvals)
        /\ x.saw = NoRow /\ x.step # "write"
    BY <1>1 DEF TypeOK
  <2> HIDE DEF x
  <2> QED
    BY <2>1, <2>2, <2>3, CallStep
<1>2. ASSUME NEW c \in Calls, NEW e \in Emails,
             \/ HandleRequestAccess(c, e) \/ HandleApproveSignupRequest(c, e)
             \/ HandleRejectSignupRequest(c, e)
      PROVE  CallInv'
  <2>1. PICK op \in Ops \ {"setup"} : Start(c, op, e, 0)
    BY <1>2 DEF HandleRequestAccess, HandleApproveSignupRequest,
                HandleRejectSignupRequest, Ops
  <2> QED
    BY <1>1, <2>1
<1>3. ASSUME NEW c \in Calls, NEW k \in Tokens, HandleSetupPassword(c, k)
      PROVE  CallInv'
  <2>1. /\ "setup" \in Ops /\ k \in 0..MaxTokens /\ k \in 1..Len(approvals)
        /\ Start(c, "setup", "none", k)
    BY <1>3 DEF HandleSetupPassword, Ops, Tokens
  <2> QED
    BY <1>1, <2>1
<1>4. ASSUME NEW c \in Calls, SelectForUpdate(c)
      PROVE  CallInv'
  <2>1. PICK e \in Found(c) :
          /\ ~Locked(e)
          /\ call' = [call EXCEPT ![c] = [call[c] EXCEPT !.step = "write",
                                         !.email = e, !.saw = row[e]]]
    BY <1>4, Zenon DEF SelectForUpdate
  <2>2. /\ e \in Emails /\ row[e].status # "none" /\ row[e] \in RowType
        /\ call[c].op = "setup" => row[e].token = call[c].token
    BY DEF Found, TypeOK
  <2>3. call[c] \in CallType /\ CallOK(c)
    BY DEF TypeOK, CallInv
  <2> DEFINE x == [call[c] EXCEPT !.step = "write", !.email = e, !.saw = row[e]]
  <2>4. x \in CallType
    BY <2>2, <2>3, WriteStepType
  <2>5. /\ x.step = "write" /\ x.email = e /\ x.saw = row[e]
        /\ x.op = call[c].op /\ x.token = call[c].token /\ x.now = call[c].now
    BY <2>3 DEF CallType
  <2>6. call' = [call EXCEPT ![c] = x] /\ UNCHANGED <<clock, row, approvals>>
    BY <1>4, <2>1 DEF SelectForUpdate
  <2>7. x.now <= clock /\ (x.op = "setup" => x.token \in 1..Len(approvals))
    BY <2>3, <2>5 DEF CallOK
  <2> HIDE DEF x
  <2> QED
    BY <2>1, <2>2, <2>4, <2>5, <2>6, <2>7, CallStep
<1>5. ASSUME NEW c \in Calls, Fail(c)
      PROVE  CallInv'
  BY <1>5, AnswerKeepsCalls DEF Fail, TypeOK
<1>6. ASSUME NEW c \in Calls, SelectNothing(c)
      PROVE  CallInv'
  <2>1. CASE call[c].op # "request"
    BY <1>6, <2>1, AnswerKeepsCalls DEF SelectNothing, TypeOK
  <2>2. CASE call[c].op = "request"
    <3> DEFINE x == [call[c] EXCEPT !.step = "write"]
    <3>1. call[c] \in CallType /\ CallOK(c) /\ call[c].step = "read"
      BY <1>6 DEF TypeOK, CallInv, SelectNothing
    <3>2. x \in CallType
      BY <3>1, WriteStepType
    <3>3. /\ x.step = "write" /\ x.email = call[c].email /\ x.saw = call[c].saw
          /\ x.op = "request" /\ x.now = call[c].now
      BY <2>2, <3>1 DEF CallType
    <3>4. call' = [call EXCEPT ![c] = x] /\ UNCHANGED <<clock, row, approvals>>
      BY <1>6, <2>2 DEF SelectNothing
    <3>5. x.now <= clock /\ x.email \in Emails /\ x.saw.status = "none"
      BY <2>2, <3>1, <3>3 DEF CallOK, NoRow, Writing
    <3> HIDE DEF x
    <3> QED
      BY <3>2, <3>3, <3>4, <3>5, CallStep
  <2> QED
    BY <2>1, <2>2
<1>7. ASSUME NEW c \in Calls, Holds(c)
      PROVE  \A d \in Calls \ {c} : Holds(d) => call[d].email # call[c].email
  BY <1>7 DEF CallInv
<1>8. ASSUME NEW c \in Calls, CreateSignupRequest(c)
      PROVE  CallInv'
  <2> DEFINE e == call[c].email
  <2>1. /\ row' = row \/ row' = [row EXCEPT ![e] = Pending]
        /\ Answer(c) /\ UNCHANGED <<clock, approvals>>
    BY <1>8 DEF CreateSignupRequest
  <2>2. CASE Holds(c)
    <3>1. \A d \in Calls \ {c} : Holds(d) => call[d].email # e
      BY <1>7, <2>2
    <3> QED
      BY <2>1, <3>1, RowStep
  <2>3. CASE ~Holds(c) /\ row[e].status = "none"
    <3>1. \A d \in Calls \ {c} : Holds(d) => call[d].email # e
      BY <2>3 DEF CallInv, CallOK, Holds
    <3> QED
      BY <2>1, <3>1, RowStep
  <2>4. CASE ~Holds(c) /\ row[e].status # "none"
    <3>1. row' = row
      BY <1>8, <2>4 DEF CreateSignupRequest, Holds, Writing
    <3> QED
      BY <2>1, <3>1, AnswerKeepsCalls DEF TypeOK
  <2> QED
    BY <2>2, <2>3, <2>4
<1>9. ASSUME NEW c \in Calls, ApproveSignupRequest(c)
      PROVE  CallInv'
  <2> DEFINE e == call[c].email
             r == [status |-> "approved", token |-> Len(approvals) + 1,
                   until |-> ExpiresAt(call[c].now)]
  <2>1. /\ row' = row \/ row' = [row EXCEPT ![e] = r]
        /\ approvals' = approvals \/ \E a : approvals' = Append(approvals, a)
        /\ Answer(c) /\ UNCHANGED clock
    BY <1>9 DEF ApproveSignupRequest
  <2>2. Holds(c)
    BY <1>9 DEF ApproveSignupRequest, CallInv, CallOK, Writing
  <2>3. \A d \in Calls \ {c} : Holds(d) => call[d].email # e
    BY <1>7, <2>2
  <2> HIDE DEF r
  <2> QED
    BY <2>1, <2>3, RowStep, ZenonT(60)
<1>10. ASSUME NEW c \in Calls, RejectSignupRequest(c)
       PROVE  CallInv'
  <2> DEFINE e == call[c].email
             r == [status |-> "rejected", token |-> 0,
                   until |-> call[c].now + RetryWindow]
  <2>1. /\ row' = row \/ row' = [row EXCEPT ![e] = r]
        /\ Answer(c) /\ UNCHANGED <<clock, approvals>> /\ ~Locked(e)
    BY <1>10 DEF RejectSignupRequest
  <2>2. \A d \in Calls \ {c} : Holds(d) => call[d].email # e
    BY <2>1, LockedIsHeld
  <2> HIDE DEF r
  <2> QED
    BY <2>1, <2>2, RowStep, ZenonT(60)
<1>11. ASSUME NEW c \in Calls, SetupPassword(c)
       PROVE  CallInv'
  <2> DEFINE e == call[c].email
  <2>1. /\ row' = row \/ row' = [row EXCEPT ![e] = Completed(row[e])]
        /\ Answer(c) /\ UNCHANGED <<clock, approvals>>
    BY <1>11 DEF SetupPassword
  <2>2. Holds(c)
    BY <1>11 DEF SetupPassword, CallInv, CallOK, Writing
  <2>3. \A d \in Calls \ {c} : Holds(d) => call[d].email # e
    BY <1>7, <2>2
  <2> QED
    BY <2>1, <2>3, RowStep, ZenonT(60)
<1>12. CASE HandleListSignupRequests \/ UNCHANGED vars
  <2>1. UNCHANGED <<clock, row, call, approvals>>
    BY <1>12 DEF HandleListSignupRequests, vars
  <2> QED
    BY <2>1 DEF CallInv, CallOK, Holds, Writing
<1>13. CASE Tick
  <2>1. clock \in Nat /\ clock' = clock + 1 /\ UNCHANGED <<row, call, approvals>>
    BY <1>13 DEF Tick, TypeOK
  <2>2. ASSUME NEW c \in Calls
        PROVE  CallOK(c)'
    <3>1. CallOK(c) /\ call[c].now \in Nat
      BY DEF CallInv, TypeOK, CallType
    <3> QED
      BY <2>1, <3>1 DEF CallOK, Holds, Writing
  <2> QED
    BY <2>1, <2>2 DEF CallInv, Holds, Writing
<1> QED
  BY <1>2, <1>3, <1>4, <1>5, <1>6, <1>8, <1>9, <1>10, <1>11, <1>12, <1>13
     DEF Next, Transaction

----------------------------------------------------------------------------
(* What a step does to the rows *)

\* A call that brought no token ends.
Decides == \E c \in Calls : call[c].op # "setup" /\ Answer(c)

Opens(e) ==
  /\ Decides
  /\ row[e].status \in {"none", "rejected", "approved"} /\ row[e].until <= clock
  /\ row' = [row EXCEPT ![e] = Pending]
  /\ UNCHANGED <<clock, sessions, approvals, used>>

Declines(e, u) ==
  /\ Decides
  /\ row[e].status = "pending" /\ u <= clock + RetryWindow
  /\ row' = [row EXCEPT ![e] = [status |-> "rejected", token |-> 0, until |-> u]]
  /\ UNCHANGED <<clock, sessions, approvals, used>>

Offers(e, u) ==
  /\ Decides
  /\ row[e].status = "pending" /\ u <= clock + TokenTTL
  /\ row' = [row EXCEPT ![e] = [status |-> "approved",
                                token |-> Len(approvals) + 1, until |-> u]]
  /\ approvals' = Append(approvals, [email |-> e, until |-> u])
  /\ UNCHANGED <<clock, sessions, used>>

Accepts(e, c) ==
  /\ call[c].op = "setup" /\ call[c].token = row[e].token /\ Answer(c)
  /\ Redeemable(row[e], call[c].now)
  /\ row' = [row EXCEPT ![e] = Completed(row[e])]
  /\ sessions' = [sessions EXCEPT ![e] = sessions[e] + 1]
  /\ used' = used \cup {row[e].token}
  /\ UNCHANGED <<clock, approvals>>

\* Whatever a transaction saw, at the moment it writes it does one of these to
\* the row as it is then, or nothing.
LEMMA RowCases ==
  ASSUME TypeOK, CallInv, TokenInv, [Next]_vars
  PROVE  \/ UNCHANGED <<clock, row, sessions, approvals, used>>
         \/ Tick
         \/ \E e \in Emails : Opens(e) \/ \E c \in Calls : Accepts(e, c)
         \/ \E e \in Emails, u \in Times : Declines(e, u) \/ Offers(e, u)
<1> USE SignupAssumption
<1>1. ASSUME NEW c \in Calls
      PROVE  /\ CallOK(c) /\ call[c].now \in 0..MaxClock /\ clock \in Nat
             /\ call[c].now <= clock
  BY DEF TypeOK, CallInv, CallType, CallOK
<1>2. ASSUME NEW c \in Calls, CreateSignupRequest(c)
      PROVE  \/ UNCHANGED <<clock, row, sessions, approvals, used>>
             \/ \E e \in Emails : Opens(e)
  <2> DEFINE e == call[c].email
  <2>1. CallOK(c) /\ Writing(c) /\ e \in Emails /\ row[e] \in RowType
    BY <1>1, <1>2 DEF CreateSignupRequest, CallOK, TypeOK, Writing
  <2>2. UNCHANGED <<clock, sessions, approvals, used>> /\ Decides
    BY <1>2 DEF CreateSignupRequest, Decides
  <2>3. CASE row' # row /\ call[c].saw.status = "none"
    <3>1. row[e].status = "none" /\ row' = [row EXCEPT ![e] = Pending]
      BY <1>2, <2>3 DEF CreateSignupRequest
    <3>2. row[e].until = 0
      BY <2>1, <3>1 DEF TokenInv, TokenOK
    <3> QED
      <4>1. row[e].until <= clock
        BY <1>1, <3>2
      <4>2. Opens(e)
        BY <2>2, <3>1, <4>1 DEF Opens
      <4> QED
        BY <2>1, <4>2
  <2>4. CASE row' # row /\ call[c].saw.status # "none"
    <3>1. /\ MayReopen(call[c].saw, call[c].now)
          /\ row' = [row EXCEPT ![e] = Pending]
      BY <1>2, <2>4 DEF CreateSignupRequest
    <3>2. call[c].saw = row[e]
      BY <2>1, <2>4 DEF CallOK, Holds
    <3>3. row[e].status \in {"rejected", "approved"} /\ row[e].until <= clock
      BY <1>1, <2>1, <3>1, <3>2 DEF MayReopen, RowType, Times
    <3> QED
      BY <2>1, <2>2, <3>1, <3>3 DEF Opens
  <2> QED
    BY <2>2, <2>3, <2>4
<1>3. ASSUME NEW c \in Calls, ApproveSignupRequest(c)
      PROVE  \/ UNCHANGED <<clock, row, sessions, approvals, used>>
             \/ \E e \in Emails, u \in Times : Offers(e, u)
  <2> DEFINE e == call[c].email
             u == ExpiresAt(call[c].now)
  <2>1. CASE call[c].saw.status # "pending"
    BY <1>3, <2>1 DEF ApproveSignupRequest
  <2>2. CASE call[c].saw.status = "pending"
    <3>1. Holds(c) /\ e \in Emails /\ row[e].status = "pending"
      BY <1>1, <1>3, <2>2 DEF ApproveSignupRequest, CallOK, Holds, Writing
    <3>2. u \in Times /\ u <= clock + TokenTTL
      BY <1>1, DeadlineTypes DEF ExpiresAt
    <3>3. Offers(e, u)
      BY <1>3, <2>2, <3>1, <3>2 DEF ApproveSignupRequest, Offers, Decides
    <3> QED
      BY <3>1, <3>2, <3>3
  <2> QED
    BY <2>1, <2>2
<1>4. ASSUME NEW c \in Calls, RejectSignupRequest(c)
      PROVE  \/ UNCHANGED <<clock, row, sessions, approvals, used>>
             \/ \E e \in Emails, u \in Times : Declines(e, u)
  <2> DEFINE e == call[c].email
             u == call[c].now + RetryWindow
  <2>1. e \in Emails
    BY <1>1, <1>4 DEF RejectSignupRequest, CallOK
  <2>2. u \in Times /\ u <= clock + RetryWindow
    BY <1>1, DeadlineTypes
  <2>3. CASE row[e].status = "pending"
    <3>1. Declines(e, u)
      BY <1>4, <2>2, <2>3 DEF RejectSignupRequest, Declines, Decides
    <3> QED
      BY <2>1, <2>2, <3>1
  <2>4. CASE row[e].status # "pending"
    BY <1>4, <2>4 DEF RejectSignupRequest
  <2> QED
    BY <2>3, <2>4
<1>5. ASSUME NEW c \in Calls, SetupPassword(c)
      PROVE  \/ UNCHANGED <<clock, row, sessions, approvals, used>>
             \/ \E e \in Emails : \E d \in Calls : Accepts(e, d)
  <2> DEFINE e == call[c].email
  <2>1. CASE Redeemable(call[c].saw, call[c].now)
    <3>1. Holds(c) /\ call[c].op = "setup"
      BY <1>5, <2>1 DEF SetupPassword, Holds, Writing, Redeemable
    <3>2. /\ e \in Emails /\ Redeemable(row[e], call[c].now)
          /\ row[e].token = call[c].token
      BY <1>1, <2>1, <3>1 DEF CallOK
    <3>3. Accepts(e, c)
      BY <1>5, <2>1, <3>2 DEF SetupPassword, Accepts
    <3> QED
      BY <3>2, <3>3
  <2>2. CASE ~Redeemable(call[c].saw, call[c].now)
    BY <1>5, <2>2 DEF SetupPassword
  <2> QED
    BY <2>1, <2>2
<1>6. ASSUME NEW c \in Calls,
             \/ \E e \in Emails : \/ HandleRequestAccess(c, e)
                                  \/ HandleApproveSignupRequest(c, e)
                                  \/ HandleRejectSignupRequest(c, e)
             \/ \E k \in Tokens : HandleSetupPassword(c, k)
             \/ SelectForUpdate(c) \/ SelectNothing(c) \/ Fail(c)
      PROVE  UNCHANGED <<clock, row, sessions, approvals, used>>
  BY <1>6 DEF HandleRequestAccess, HandleApproveSignupRequest, Start, Fail,
              HandleRejectSignupRequest, HandleSetupPassword, SelectForUpdate,
              SelectNothing
<1>7. CASE HandleListSignupRequests \/ UNCHANGED vars
  BY <1>7 DEF HandleListSignupRequests, vars
<1> QED
  BY <1>2, <1>3, <1>4, <1>5, <1>6, <1>7 DEF Next, Transaction

----------------------------------------------------------------------------
(* The rows *)

\* An email whose row, sessions and token stay as they are
LEMMA OtherRow ==
  ASSUME NEW e \in Emails, TypeOK, TokenOK(e), row'[e] = row[e],
         sessions'[e] = sessions[e], row[e].token \notin used' \ used,
         \/ approvals' = approvals
         \/ \E a : a.email # e /\ approvals' = Append(approvals, a)
  PROVE  TokenOK(e)'
<1>1. ASSUME row[e].status = "approved"
      PROVE  /\ row[e].token \in 1..Len(approvals') /\ row[e].token \notin used'
             /\ approvals'[row[e].token] = [email |-> e, until |-> row[e].until]
             /\ \A j \in (row[e].token + 1)..Len(approvals') : approvals'[j].email # e
  <2> DEFINE k == row[e].token
  <2>1. /\ k \in 1..Len(approvals) /\ k \notin used
        /\ approvals[k] = [email |-> e, until |-> row[e].until]
        /\ \A j \in (k + 1)..Len(approvals) : approvals[j].email # e
    BY <1>1 DEF TokenOK
  <2>2. approvals \in Seq([email : Emails, until : Times])
    BY DEF TypeOK
  <2> HIDE DEF k
  <2>3. CASE approvals' = approvals
    BY <2>1, <2>3 DEF k
  <2>4. ASSUME NEW a, a.email # e, approvals' = Append(approvals, a)
        PROVE  /\ k \in 1..Len(approvals') /\ approvals'[k] = approvals[k]
               /\ \A j \in (k + 1)..Len(approvals') : approvals'[j].email # e
    <3>1. /\ Len(approvals') = Len(approvals) + 1 /\ Len(approvals) \in Nat
          /\ \A j \in 1..Len(approvals) : approvals'[j] = approvals[j]
          /\ approvals'[Len(approvals) + 1] = a
      BY <2>2, <2>4
    <3> QED
      BY <2>1, <2>4, <3>1
  <2> QED
    BY <2>1, <2>3, <2>4 DEF k
<1> QED
  BY <1>1 DEF TokenOK

\* Every step keeps the rows, the tokens and the sessions in order.
LEMMA TokenStep ==
  ASSUME TypeOK, CallInv, TokenInv, [Next]_vars
  PROVE  TokenInv'
<1> USE SignupAssumption
<1>1. CASE UNCHANGED <<clock, row, sessions, approvals, used>> \/ Tick
  <2>1. UNCHANGED <<row, sessions, approvals, used>>
    BY <1>1 DEF Tick
  <2> QED
    BY <2>1 DEF TokenInv, TokenOK
<1>2. ASSUME NEW e \in Emails, Opens(e)
      PROVE  TokenInv'
  <2>1. TokenOK(e)'
    BY <1>2 DEF Opens, Pending, TokenInv, TokenOK, TypeOK
  <2>2. ASSUME NEW f \in Emails, f # e
        PROVE  TokenOK(f)'
    BY <1>2, <2>2, OtherRow DEF Opens, TokenInv, TypeOK
  <2> QED
    BY <2>1, <2>2 DEF TokenInv
<1>3. ASSUME NEW e \in Emails, NEW u \in Times, Declines(e, u)
      PROVE  TokenInv'
  <2>1. TokenOK(e)'
    BY <1>3 DEF Declines, TokenInv, TokenOK, TypeOK
  <2>2. ASSUME NEW f \in Emails, f # e
        PROVE  TokenOK(f)'
    BY <1>3, <2>2, OtherRow DEF Declines, TokenInv, TypeOK
  <2> QED
    BY <2>1, <2>2 DEF TokenInv
<1>4. ASSUME NEW e \in Emails, NEW u \in Times, Offers(e, u)
      PROVE  TokenInv'
  <2>1. TokenOK(e)'
    <3>1. /\ Len(approvals') = Len(approvals) + 1 /\ Len(approvals) \in Nat
          /\ approvals'[Len(approvals) + 1] = [email |-> e, until |-> u]
          /\ Len(approvals) + 1 \notin used /\ UNCHANGED <<used, sessions>>
      BY <1>4 DEF Offers, TypeOK
    <3>2. /\ row'[e] = [status |-> "approved", token |-> Len(approvals) + 1,
                        until |-> u]
          /\ row[e].status = "pending"
      BY <1>4 DEF Offers, TypeOK
    <3>3. sessions[e] = 0
      BY <3>2 DEF TokenInv, TokenOK
    <3> QED
      BY <3>1, <3>2, <3>3 DEF TokenOK
  <2>2. ASSUME NEW f \in Emails, f # e
        PROVE  TokenOK(f)'
    BY <1>4, <2>2, OtherRow DEF Offers, TokenInv, TypeOK
  <2> QED
    BY <2>1, <2>2 DEF TokenInv
<1>5. ASSUME NEW e \in Emails, NEW c \in Calls, Accepts(e, c)
      PROVE  TokenInv'
  <2>0. row[e].status = "approved"
    BY <1>5 DEF Accepts, Redeemable
  <2>1. TokenOK(e)'
    <3>1. row'[e] = [status |-> "completed", token |-> 0, until |-> 0]
      BY <1>5 DEF Accepts, Completed, TypeOK
    <3>2. sessions[e] = 0
      BY <2>0 DEF TokenInv, TokenOK
    <3>3. sessions'[e] = 1
      BY <1>5, <3>2 DEF Accepts, TypeOK
    <3> QED
      BY <3>1, <3>3 DEF TokenOK
  <2>2. ASSUME NEW f \in Emails, f # e
        PROVE  TokenOK(f)'
    <3>1. TokenOK(e) /\ TokenOK(f)
      BY DEF TokenInv
    <3>2. row[f].token # row[e].token
      BY <2>0, <2>2, <3>1 DEF TokenOK
    <3> QED
      BY <1>5, <2>2, <3>1, <3>2, OtherRow DEF Accepts, TypeOK
  <2> QED
    BY <2>1, <2>2 DEF TokenInv
<1> QED
  BY <1>1, <1>2, <1>3, <1>4, <1>5, RowCases

\* Every step keeps the approvals standing: a row that is approved is opened
\* again only when its time is over, and a row that is decided on has no token.
LEMMA ApprovalStep ==
  ASSUME TypeOK, CallInv, TokenInv, ApprovalStands, [Next]_vars
  PROVE  ApprovalStands'
<1> USE SignupAssumption
<1>1. \A k \in 1..Len(approvals) :
        /\ Stands(k) /\ approvals[k].email \in Emails /\ approvals[k].until \in Nat
  <2>1. \A k \in 1..Len(approvals) : approvals[k] \in [email : Emails, until : Times]
    <3> DEFINE T == [email : Emails, until : Times]
    <3>1. approvals \in Seq(T)
      BY DEF TypeOK
    <3> HIDE DEF T
    <3>2. \A k \in 1..Len(approvals) : approvals[k] \in T
      BY <3>1
    <3> QED
      BY <3>2 DEF T
  <2>2. Times \subseteq Nat
    BY DEF Times
  <2>3. \A k \in 1..Len(approvals) : Stands(k)
    BY DEF ApprovalStands
  <2> QED
    BY <2>1, <2>2, <2>3
<1>2. CASE UNCHANGED <<clock, row, sessions, approvals, used>>
  BY <1>2 DEF ApprovalStands, Stands
<1>3. CASE Tick
  <2>1. ASSUME NEW k \in 1..Len(approvals)
        PROVE  Stands(k)'
    BY <1>1, <1>3 DEF Tick, TypeOK, Stands
  <2> QED
    BY <1>3, <2>1 DEF Tick, ApprovalStands
<1>4. ASSUME NEW e \in Emails, Opens(e)
      PROVE  ApprovalStands'
  <2>1. ASSUME NEW k \in 1..Len(approvals)
        PROVE  Stands(k)'
    BY <1>1, <1>4 DEF Opens, TypeOK, Stands
  <2> QED
    BY <1>4, <2>1 DEF Opens, ApprovalStands
<1>5. ASSUME NEW e \in Emails, NEW u \in Times, Declines(e, u)
      PROVE  ApprovalStands'
  <2>1. ASSUME NEW k \in 1..Len(approvals)
        PROVE  Stands(k)'
    BY <1>1, <1>5 DEF Declines, TypeOK, Stands
  <2> QED
    BY <1>5, <2>1 DEF Declines, ApprovalStands
<1>6. ASSUME NEW e \in Emails, NEW u \in Times, Offers(e, u)
      PROVE  ApprovalStands'
  <2>1. ASSUME NEW k \in 1..Len(approvals')
        PROVE  Stands(k)'
    <3>1. CASE k \in 1..Len(approvals)
      <4>1. approvals'[k] = approvals[k]
        BY <1>6, <3>1 DEF Offers, TypeOK
      <4> QED
        BY <1>1, <1>6, <3>1, <4>1 DEF Offers, TypeOK, Stands
    <3>2. CASE k = Len(approvals) + 1
      BY <1>6, <3>2 DEF Offers, TypeOK, Stands
    <3> QED
      BY <1>6, <3>1, <3>2 DEF Offers, TypeOK
  <2> QED
    BY <2>1 DEF ApprovalStands
<1>7. ASSUME NEW e \in Emails, NEW c \in Calls, Accepts(e, c)
      PROVE  ApprovalStands'
  <2>1. ASSUME NEW k \in 1..Len(approvals)
        PROVE  Stands(k)'
    BY <1>1, <1>7 DEF Accepts, TypeOK, Stands
  <2> QED
    BY <1>7, <2>1 DEF Accepts, ApprovalStands
<1> QED
  BY <1>2, <1>3, <1>4, <1>5, <1>6, <1>7, RowCases

----------------------------------------------------------------------------
(* Theorems *)

\* The inductive invariant holds in every state.
LEMMA SignupInvHolds ==
  Spec => []SignupInv
<1>1. Init => SignupInv
  <2> SUFFICES ASSUME Init PROVE SignupInv
    OBVIOUS
  <2> USE SignupAssumption
  <2>1. TypeOK
    BY IdleType, RowTypes DEF Init, TypeOK
  <2>2. CallInv
    BY DEF Init, CallInv, CallOK, Idle, Holds, Writing
  <2>3. TokenInv /\ ApprovalStands
    BY DEF Init, TokenInv, TokenOK, NoRow, ApprovalStands
  <2> QED
    BY <2>1, <2>2, <2>3 DEF SignupInv
<1>2. SignupInv /\ [Next]_vars => SignupInv'
  BY TypeStep, CallInvStep, TokenStep, ApprovalStep DEF SignupInv
<1> QED
  BY <1>1, <1>2, PTL DEF Spec

\* Every variable stays within its type, whatever calls run at the same time.
THEOREM SignupTypes ==
  Spec => []TypeOK
<1>1. SignupInv => TypeOK
  BY DEF SignupInv
<1> QED
  BY <1>1, SignupInvHolds, PTL

\* No call takes a setup token away before it is used or its time is over:
\* not a second decision, not an early new request, not one that is late.
THEOREM TokensStand ==
  Spec => []ApprovalStands
<1>1. SignupInv => ApprovalStands
  BY DEF SignupInv
<1> QED
  BY <1>1, SignupInvHolds, PTL

\* However many calls bring the same token, SetupPassword opens one session
\* for a signup.
THEOREM SessionsOnce ==
  Spec => []OneSessionPerSignup
<1>1. SignupInv => OneSessionPerSignup
  <2> SUFFICES ASSUME SignupInv, NEW e \in Emails
               PROVE  sessions[e] <= 1
    BY DEF OneSessionPerSignup
  <2>1. sessions[e] = 0 \/ sessions[e] = 1
    BY DEF SignupInv, TokenInv, TokenOK
  <2> QED
    BY <2>1
<1> QED
  BY <1>1, SignupInvHolds, PTL

----------------------------------------------------------------------------
(* The ledger *)

\* The token that a call x brings, if it brings one in time
BidOf(x) ==
  IF x.op = "setup" /\ approvals[x.token].until > x.now THEN x.token ELSE 0

Bids == [c \in Calls |-> Presented(c)]

\* A step that leaves the rows alone moves at most one call, which brings no
\* token, or goes on with the one it has, or has brought one just now.
LEMMA CallCases ==
  ASSUME TypeOK, CallInv, [Next]_vars,
         UNCHANGED <<clock, row, sessions, approvals, used>>
  PROVE  \/ UNCHANGED call
         \/ \E c \in Calls : \E x :
              /\ call' = [call EXCEPT ![c] = x]
              /\ \/ x.op # "setup"
                 \/ /\ x.op = call[c].op /\ x.token = call[c].token
                    /\ x.now = call[c].now
                 \/ x.token \in 1..Len(approvals) /\ x.now = clock
<1> DEFINE Moves(c, x) ==
      /\ call' = [call EXCEPT ![c] = x]
      /\ \/ x.op # "setup"
         \/ x.op = call[c].op /\ x.token = call[c].token /\ x.now = call[c].now
         \/ x.token \in 1..Len(approvals) /\ x.now = clock
<1>1. ASSUME NEW c \in Calls, Answer(c)
      PROVE  \E x : Moves(c, x)
  <2>1. Moves(c, Idle)
    BY <1>1 DEF Answer, Idle
  <2> QED
    BY <2>1
<1>2. ASSUME NEW c \in Calls, NEW op, NEW e, NEW k, Start(c, op, e, k),
             op # "setup" \/ k \in 1..Len(approvals)
      PROVE  \E x : Moves(c, x)
  <2> DEFINE y == [op |-> op, step |-> "read", email |-> e, token |-> k,
                   now |-> clock, saw |-> NoRow]
  <2>1. call' = [call EXCEPT ![c] = y] /\ y.op = op /\ y.token = k /\ y.now = clock
    BY <1>2 DEF Start
  <2> HIDE DEF y
  <2>2. Moves(c, y)
    BY <1>2, <2>1
  <2> QED
    BY <2>2
<1>3. ASSUME NEW c \in Calls, SelectForUpdate(c)
      PROVE  \E x : Moves(c, x)
  <2>1. PICK e \in Found(c) :
          call' = [call EXCEPT ![c] = [call[c] EXCEPT !.step = "write",
                                         !.email = e, !.saw = row[e]]]
    BY <1>3, Zenon DEF SelectForUpdate
  <2> DEFINE y == [call[c] EXCEPT !.step = "write", !.email = e, !.saw = row[e]]
  <2>2. y.op = call[c].op /\ y.token = call[c].token /\ y.now = call[c].now
    BY DEF TypeOK, CallType
  <2>3. call' = [call EXCEPT ![c] = y]
    BY <2>1
  <2> HIDE DEF y
  <2>4. Moves(c, y)
    BY <2>2, <2>3
  <2> QED
    BY <2>4
<1>4. ASSUME NEW c \in Calls, SelectNothing(c)
      PROVE  \E x : Moves(c, x)
  <2>1. CASE call[c].op # "request"
    BY <1>1, <1>4, <2>1 DEF SelectNothing
  <2>2. CASE call[c].op = "request"
    <3> DEFINE y == [call[c] EXCEPT !.step = "write"]
    <3>1. y.op = "request" /\ call' = [call EXCEPT ![c] = y]
      BY <1>4, <2>2 DEF SelectNothing, TypeOK, CallType
    <3> HIDE DEF y
    <3>2. Moves(c, y)
      BY <3>1
    <3> QED
      BY <3>2
  <2> QED
    BY <2>1, <2>2
<1> HIDE DEF Moves
<1>5. ASSUME NEW c \in Calls, NEW e \in Emails,
             \/ HandleRequestAccess(c, e) \/ HandleApproveSignupRequest(c, e)
             \/ HandleRejectSignupRequest(c, e)
      PROVE  \E x : Moves(c, x)
  BY <1>2, <1>5 DEF HandleRequestAccess, HandleApproveSignupRequest,
                    HandleRejectSignupRequest
<1>6. ASSUME NEW c \in Calls, NEW k \in Tokens, HandleSetupPassword(c, k)
      PROVE  \E x : Moves(c, x)
  BY <1>2, <1>6 DEF HandleSetupPassword
<1>7. ASSUME NEW c \in Calls,
             \/ CreateSignupRequest(c) \/ ApproveSignupRequest(c)
             \/ RejectSignupRequest(c) \/ SetupPassword(c) \/ Fail(c)
      PROVE  \E x : Moves(c, x)
  <2>1. Answer(c)
    BY <1>7 DEF CreateSignupRequest, ApproveSignupRequest, RejectSignupRequest,
                SetupPassword, Fail
  <2> QED
    BY <1>1, <2>1
<1>8. ASSUME HandleListSignupRequests \/ Tick \/ UNCHANGED vars
      PROVE  UNCHANGED call
  BY <1>8 DEF HandleListSignupRequests, Tick, vars
<1>9. ASSUME NEW c \in Calls,
             \/ \E e \in Emails : \/ HandleRequestAccess(c, e)
                                  \/ HandleApproveSignupRequest(c, e)
                                  \/ HandleRejectSignupRequest(c, e)
             \/ \E k \in Tokens : HandleSetupPassword(c, k)
             \/ Transaction(c)
             \/ Fail(c)
      PROVE  \E x : Moves(c, x)
  BY <1>3, <1>4, <1>5, <1>6, <1>7, <1>9, Zenon DEF Transaction
<1>10. Next \/ UNCHANGED vars
  OBVIOUS
<1>11. UNCHANGED call \/ \E c \in Calls : \E x : Moves(c, x)
  BY <1>8, <1>9, <1>10, Zenon DEF Next
<1> QED
  BY <1>11 DEF Moves

\* One call moves: its bid is what it brings now, and the others stay.
LEMMA BidMoves ==
  ASSUME TypeOK, CallInv, NEW c \in Calls, NEW x, call' = [call EXCEPT ![c] = x],
         \A k \in 1..Len(approvals) : approvals'[k] = approvals[k]
  PROVE  /\ Bids' = [Bids EXCEPT ![c] = BidOf(x)']
         /\ Bids[c] = BidOf(call[c])
<1>1. \A d \in Calls : call'[d] = IF d = c THEN x ELSE call[d]
  BY DEF TypeOK
<1>2. \A d \in Calls \ {c} : Presented(d)' = Presented(d)
  <2> TAKE d \in Calls \ {c}
  <2>1. CASE call[d].op # "setup"
    BY <1>1, <2>1 DEF Presented
  <2>2. CASE call[d].op = "setup"
    <3>1. call[d].token \in 1..Len(approvals)
      BY <2>2 DEF CallInv, CallOK
    <3> QED
      BY <1>1, <3>1 DEF Presented
  <2> QED
    BY <2>1, <2>2
<1>3. Presented(c)' = BidOf(x)'
  BY <1>1 DEF Presented, BidOf
<1>4. Presented(c) = BidOf(call[c])
  BY DEF Presented, BidOf
<1> QED
  BY <1>2, <1>3, <1>4 DEF Bids

\* A call without a token leaves the bids as they are when it ends.
LEMMA DecidesKeepsBids ==
  ASSUME TypeOK, CallInv, Decides,
         approvals' = approvals \/ \E a : approvals' = Append(approvals, a)
  PROVE  Bids' = Bids
<1>1. PICK c \in Calls : call[c].op # "setup" /\ call' = [call EXCEPT ![c] = Idle]
  BY DEF Decides, Answer
<1>2. \A k \in 1..Len(approvals) : approvals'[k] = approvals[k]
  BY DEF TypeOK
<1>3. Bids' = [Bids EXCEPT ![c] = BidOf(Idle)'] /\ Bids[c] = BidOf(call[c])
  BY <1>1, <1>2, BidMoves
<1>4. BidOf(Idle)' = 0 /\ BidOf(call[c]) = 0
  BY <1>1 DEF BidOf, Idle
<1> QED
  BY <1>3, <1>4 DEF Bids

\* The transactions of internal/store/auth.go implement the ledger: every step
\* is one of its operations or leaves it alone, so a token opens one session,
\* for a call that began before the token expired.
THEOREM SignupImplementsLedger ==
  Spec => ImplementsLedger
<1> USE SignupAssumption
<1>1. Init => Ledger!Init
  BY DEF Init, Ledger!Init, NoRow, Presented, Idle
<1>2. ASSUME SignupInv, [Next]_vars
      PROVE  [Ledger!Next]_(Ledger!vars)
  <2>1. TypeOK /\ CallInv /\ TokenInv
    BY <1>2 DEF SignupInv
  <2> DEFINE status == [e \in Emails |-> row[e].status]
             wait == [e \in Emails |-> row[e].until]
  <2>0. ASSUME NEW e \in Emails, NEW r, row' = [row EXCEPT ![e] = r]
        PROVE  /\ status' = [status EXCEPT ![e] = r.status]
               /\ wait' = [wait EXCEPT ![e] = r.until] /\ wait'[e] = r.until
    <3>1. row' = [f \in Emails |-> IF f = e THEN r ELSE row[f]]
      BY <2>0, <2>1 DEF TypeOK
    <3> QED
      BY <3>1
  <2>2. CASE UNCHANGED <<clock, row, sessions, approvals, used>>
    <3>0. UNCHANGED <<clock, status, wait, approvals, used, sessions>>
      BY <2>2
    <3>1. CASE UNCHANGED call
      <4>1. Bids' = Bids
        BY <2>2, <3>1 DEF Bids, Presented
      <4> QED
        BY <3>0, <4>1 DEF Ledger!vars, Bids
    <3>2. ASSUME NEW c \in Calls, NEW x, call' = [call EXCEPT ![c] = x],
                 \/ x.op # "setup"
                 \/ /\ x.op = call[c].op /\ x.token = call[c].token
                    /\ x.now = call[c].now
                 \/ x.token \in 1..Len(approvals) /\ x.now = clock
          PROVE  [Ledger!Next]_(Ledger!vars)
      <4>1. Bids' = [Bids EXCEPT ![c] = BidOf(x)'] /\ Bids[c] = BidOf(call[c])
        BY <2>1, <2>2, <3>2, BidMoves
      <4>2. BidOf(x)' = BidOf(x)
        BY <2>2 DEF BidOf
      <4>3. CASE BidOf(x) = 0
        <5>1. Ledger!Withdraw(c)
          BY <3>0, <4>1, <4>2, <4>3 DEF Ledger!Withdraw, Bids
        <5> QED
          BY <5>1 DEF Ledger!Next
      <4>4. CASE BidOf(x) = BidOf(call[c])
        <5>1. Bids' = Bids
          BY <4>1, <4>2, <4>4 DEF Bids
        <5> QED
          BY <3>0, <5>1 DEF Ledger!vars, Bids
      <4>5. CASE BidOf(x) # 0 /\ BidOf(x) # BidOf(call[c])
        <5>1. /\ x.token \in 1..Len(approvals) /\ BidOf(x) = x.token
              /\ approvals[x.token].until > clock
          BY <3>2, <4>5 DEF BidOf
        <5>2. clock < approvals[x.token].until
          BY <5>1
        <5>3. Ledger!Present(c, x.token)
          BY <3>0, <4>1, <4>2, <5>1, <5>2 DEF Ledger!Present, Bids
        <5> QED
          BY <5>1, <5>3 DEF Ledger!Next
      <4> QED
        BY <4>3, <4>4, <4>5
    <3> QED
      BY <1>2, <2>1, <2>2, <3>1, <3>2, CallCases
  <2>3. CASE Tick
    <3>1. Bids' = Bids
      BY <2>3 DEF Tick, Bids, Presented
    <3> QED
      BY <2>3, <3>1 DEF Tick, Ledger!Next, Ledger!Pass, Bids
  <2>4. ASSUME NEW e \in Emails, Opens(e)
        PROVE  Ledger!Next
    <3>1. /\ status' = [status EXCEPT ![e] = "pending"]
          /\ wait' = [wait EXCEPT ![e] = 0]
      BY <2>0, <2>4 DEF Opens, Pending
    <3>2. Bids' = Bids
      BY <2>1, <2>4, DecidesKeepsBids DEF Opens
    <3>3. Ledger!Ask(e)
      BY <2>4, <3>1, <3>2 DEF Opens, Ledger!Ask, Bids
    <3> QED
      BY <3>3 DEF Ledger!Next
  <2>5. ASSUME NEW e \in Emails, NEW u \in Times, Declines(e, u)
        PROVE  Ledger!Next
    <3>1. /\ status' = [status EXCEPT ![e] = "rejected"]
          /\ wait' = [wait EXCEPT ![e] = u] /\ wait'[e] = u
      <4> DEFINE r == [status |-> "rejected", token |-> 0, until |-> u]
      <4>1. row' = [row EXCEPT ![e] = r] /\ r.status = "rejected" /\ r.until = u
        BY <2>5 DEF Declines
      <4> HIDE DEF r
      <4> QED
        BY <2>0, <4>1
    <3>2. u \in 0..(clock + RetryWindow)
      BY <2>1, <2>5 DEF Declines, TypeOK, Times
    <3>3. Bids' = Bids
      BY <2>1, <2>5, DecidesKeepsBids DEF Declines
    <3>4. Ledger!Decline(e)
      BY <2>5, <3>1, <3>2, <3>3 DEF Declines, Ledger!Decline, Bids
    <3> QED
      BY <3>4 DEF Ledger!Next
  <2>6. ASSUME NEW e \in Emails, NEW u \in Times, Offers(e, u)
        PROVE  Ledger!Next
    <3>1. /\ status' = [status EXCEPT ![e] = "approved"]
          /\ wait' = [wait EXCEPT ![e] = u] /\ wait'[e] = u
      <4> DEFINE r == [status |-> "approved", token |-> Len(approvals) + 1, until |-> u]
      <4>1. row' = [row EXCEPT ![e] = r] /\ r.status = "approved" /\ r.until = u
        BY <2>6 DEF Offers
      <4> HIDE DEF r
      <4> QED
        BY <2>0, <4>1
    <3>2. u \in 0..(clock + TokenTTL)
      BY <2>1, <2>6 DEF Offers, TypeOK, Times
    <3>3. Bids' = Bids
      BY <2>1, <2>6, DecidesKeepsBids DEF Offers
    <3>4. Ledger!Offer(e)
      BY <2>6, <3>1, <3>2, <3>3 DEF Offers, Ledger!Offer, Bids
    <3> QED
      BY <3>4 DEF Ledger!Next
  <2>7. ASSUME NEW e \in Emails, NEW c \in Calls, Accepts(e, c)
        PROVE  Ledger!Next
    <3>0. TokenOK(e) /\ row[e].status = "approved" /\ row[e].until > call[c].now
      BY <2>1, <2>7 DEF Accepts, TokenInv, Redeemable
    <3> PICK k \in 1..Len(approvals) : k = row[e].token
      BY <3>0 DEF TokenOK
    <3>1. /\ status' = [status EXCEPT ![e] = "completed"]
          /\ wait' = [wait EXCEPT ![e] = 0]
      BY <2>0, <2>7 DEF Accepts, Completed
    <3>2. /\ k \in 1..Len(approvals) /\ k \notin used /\ approvals[k].email = e
          /\ \A j \in (k + 1)..Len(approvals) : approvals[j].email # e
          /\ approvals[k].until > call[c].now
      <4>1. approvals[k] = [email |-> e, until |-> row[e].until]
        BY <3>0 DEF TokenOK
      <4> QED
        BY <3>0, <4>1 DEF TokenOK
    <3>3. used' = used \cup {k}
      BY <2>7 DEF Accepts
    <3>4. Ledger!Latest(k)
      BY <3>2 DEF Ledger!Latest
    <3>5. Bids[c] = k /\ Bids' = [Bids EXCEPT ![c] = 0]
      <4>1. call' = [call EXCEPT ![c] = Idle] /\ UNCHANGED approvals
        BY <2>7 DEF Accepts, Answer
      <4>2. Bids' = [Bids EXCEPT ![c] = BidOf(Idle)'] /\ Bids[c] = BidOf(call[c])
        BY <2>1, <4>1, BidMoves
      <4>3. BidOf(Idle)' = 0
        BY DEF BidOf, Idle
      <4>4. BidOf(call[c]) = k
        BY <2>7, <3>2 DEF Accepts, BidOf
      <4> QED
        BY <4>2, <4>3, <4>4
    <3>6. Ledger!Accept(c, k)
      <4>1. /\ sessions' = [sessions EXCEPT ![e] = sessions[e] + 1]
            /\ UNCHANGED <<clock, approvals>>
        BY <2>7 DEF Accepts
      <4>2. status[e] = "approved"
        BY <3>0
      <4> QED
        BY <3>1, <3>2, <3>3, <3>4, <3>5, <4>1, <4>2, ZenonT(60)
           DEF Ledger!Accept, Bids
    <3> QED
      BY <3>2, <3>6 DEF Ledger!Next
  <2> QED
    BY <1>2, <2>1, <2>2, <2>3, <2>4, <2>5, <2>6, <2>7, RowCases
<1> QED
  BY <1>1, <1>2, SignupInvHolds, PTL DEF Spec, ImplementsLedger, Ledger!Spec

============================================================================
