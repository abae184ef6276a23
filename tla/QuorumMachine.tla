--------------------------- MODULE QuorumMachine ---------------------------
(***************************************************************************)
(* The two pure state machines of internal/monitoring: CheckMachine, the   *)
(* evidence one probe holds about one check, and QuorumMachine, the        *)
(* aggregate of a check over its assigned probes.  Every operator returns  *)
(* the state that the Go method leaves behind.                             *)
(*                                                                         *)
(* Times are remaining lifetimes: NoTime is Go's zero time, 0 a deadline   *)
(* that has passed, n > 0 one that is n ticks away.  The texts (LastError) *)
(* are left out.  "none" is Go's empty string.  The "error" state of       *)
(* CheckMachine is left out as well: MarkError has no caller outside the   *)
(* tests.                                                                  *)
(***************************************************************************)
EXTENDS Integers, FiniteSets

CONSTANT StreakCap   \* streak lengths are not told apart beyond this bound

NoTime == -1

\* const consecutiveEvidenceThreshold
Threshold == 2

\* The code only compares a streak with Threshold.
ASSUME StreakCapAssumption == StreakCap \in Nat /\ StreakCap >= Threshold

Outcomes == {"none", "up", "down"}
CheckStates == {"missing", "up", "down"}
QuorumStates == {"pending", "up", "down", "error"}
StableStates == {"up", "down"}

\* CheckExecState; "LastResultAt" says whether that time is non-zero.
ExecStates(Times) ==
  [LastOutcome : Outcomes, StreakLen : 0..StreakCap, ExpiresAt : Times,
   State : CheckStates, LastResultAt : BOOLEAN]

\* CheckQuorumState
QuorumRecords ==
  [State : QuorumStates, LastStableState : StableStates \cup {"none"},
   IncidentOpen : BOOLEAN]

NewCheckExecState ==
  [LastOutcome |-> "none", StreakLen |-> 0, ExpiresAt |-> NoTime,
   State |-> "missing", LastResultAt |-> FALSE]

NewCheckQuorumState ==
  [State |-> "pending", LastStableState |-> "none", IncidentOpen |-> FALSE]

----------------------------------------------------------------------------
(* CheckMachine *)

\* Mutant: a repeated outcome does not extend the streak.
BumpOutcome_NotExtended(check, outcome) ==
  IF check.LastOutcome # outcome THEN 1 ELSE check.StreakLen

\* bumpOutcome: the streak after one more outcome
BumpOutcome(check, outcome) ==
  IF check.LastOutcome # outcome THEN 1
  ELSE IF check.StreakLen < StreakCap THEN check.StreakLen + 1
  ELSE StreakCap

\* contributionStateFor
ContributionStateFor(streak, outcome) ==
  IF streak < Threshold THEN "missing" ELSE outcome

\* ObserveUp and ObserveDown
Observe(check, outcome, expiresAt) ==
  LET streak == BumpOutcome(check, outcome)
  IN  [LastOutcome  |-> outcome,
       StreakLen    |-> streak,
       ExpiresAt    |-> expiresAt,
       State        |-> ContributionStateFor(streak, outcome),
       LastResultAt |-> TRUE]

\* Mutant: the deadline is not cleared.
LoseEvidence_KeepsDeadline(check) ==
  [check EXCEPT !.LastOutcome = "none", !.StreakLen = 0, !.State = "missing"]

\* LoseEvidence keeps only the time of the last result.
LoseEvidence(check) ==
  [LastOutcome |-> "none", StreakLen |-> 0, ExpiresAt |-> NoTime,
   State |-> "missing", LastResultAt |-> check.LastResultAt]

----------------------------------------------------------------------------
(* QuorumMachine.  "members" is the key set of the map m.checks and        *)
(* "checks" gives the state of each member.                                *)

\* quorumContribution, the down vote
ContributesDown(check) ==
  check.LastOutcome = "down" /\ check.StreakLen >= Threshold

\* quorumContribution, the up vote: gated only while an incident is open
ContributesUp(check, current) ==
  /\ check.LastOutcome = "up"
  /\ current.IncidentOpen => check.StreakLen >= Threshold
  /\ check.LastResultAt

UpVotes(current, members, checks) ==
  Cardinality({p \in members : ContributesUp(checks[p], current)})

DownVotes(members, checks) ==
  Cardinality({p \in members : ContributesDown(checks[p])})

\* Mutant: half of the probes is enough.
QuorumThreshold_Half(totalAssigned) == (totalAssigned + 1) \div 2

\* quorumThreshold: a strict majority of the assigned probes
QuorumThreshold(totalAssigned) == totalAssigned \div 2 + 1

\* The first switch of Recompute
AggregateState(current, members, checks) ==
  LET required == QuorumThreshold(Cardinality(members))
  IN  IF members # {} /\ UpVotes(current, members, checks) >= required
        THEN "up"
      ELSE IF members # {} /\ DownVotes(members, checks) >= required
        THEN "down"
      ELSE IF current.LastStableState = "none" THEN "pending" ELSE "error"

\* Mutant: the isStableQuorumState guard is missing.
PromotedStableState_AnyState(current, state) ==
  IF state \in {current.LastStableState, current.State}
    THEN state ELSE current.LastStableState

\* Mutant: the first occurrence is promoted.
PromotedStableState_AtOnce(current, state) ==
  IF state \in StableStates THEN state ELSE current.LastStableState

\* Promotion: a stable state must repeat on two consecutive recomputes.
PromotedStableState(current, state) ==
  IF state \in StableStates /\ state \in {current.LastStableState, current.State}
    THEN state ELSE current.LastStableState

\* The second switch of Recompute
IncidentFlag(current, stable) ==
  IF current.LastStableState = "up" /\ stable = "down" THEN TRUE
  ELSE IF current.LastStableState = "down" /\ stable = "up" THEN FALSE
  ELSE current.IncidentOpen

Recompute(current, members, checks) ==
  LET state  == AggregateState(current, members, checks)
      stable == PromotedStableState(current, state)
  IN  [State           |-> state,
       LastStableState |-> stable,
       IncidentOpen    |-> IncidentFlag(current, stable)]

\* quorumCounts, the numbers an alert carries
ProbesDown(members, checks) ==
  Cardinality({p \in members : checks[p].State = "down"})

============================================================================
