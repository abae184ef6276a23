--------------------------- MODULE StartupProofs ---------------------------
(***************************************************************************)
(* Theorems about Startup, for any probes, checks, configurations and      *)
(* number of starts, with the process dying at any statement.              *)
(***************************************************************************)
EXTENDS Startup, TLAPS

\* The statements of main that leave the tables alone
Passes == SelectRevoked \/ ProbesSeeded \/ ChecksSeeded

\* What the configuration of a start holds
LEMMA ConfigTypes ==
  ASSUME NEW c \in Configs
  PROVE  /\ c.probes \subseteq Probes /\ c.secret \in {"old", "new"}
         /\ c.checks \subseteq Names
BY StartupAssumption

\* The rows that SeedProbes and insertProbeCredential write are rows.
LEMMA RowTypes ==
  ASSUME TypeOK
  PROVE  /\ \A p : Seeded(p) \in ProbeRows
         /\ [by |-> "api", secret |-> "api", revoked |-> FALSE] \in ProbeRows
<1>1. config.secret \in {"old", "new"}
  BY ConfigTypes DEF TypeOK
<1> QED
  BY <1>1 DEF Seeded, ProbeRows

\* Revoking changes one row, which a configuration had provisioned.
LEMMA RevokeEffect ==
  ASSUME TypeOK, ProbesInv, NEW p \in Probes, RevokeProbe(p)
  PROVE  \E r \in ProbeRows :
           /\ probes' = [probes EXCEPT ![p] = r]
           /\ probes[p].by = "config" /\ r.by = "config" /\ r.revoked
           /\ p \in Obsolete /\ p \notin config.probes
<1>1. p \in Obsolete /\ probes[p].by = "config" /\ p \notin config.probes
  BY DEF RevokeProbe, ProbesInv, Obsolete
<1> DEFINE r == [probes[p] EXCEPT !.revoked = TRUE]
<1>2. probes' = [probes EXCEPT ![p] = r]
  BY Zenon DEF RevokeProbe
<1>3. probes[p] \in ProbeRows /\ probes[p] # NoProbe
  BY <1>1 DEF TypeOK, NoProbe
<1>4. r \in ProbeRows /\ r.by = "config" /\ r.revoked
  BY <1>1, <1>3 DEF ProbeRows
<1> HIDE DEF r
<1> QED
  BY <1>1, <1>2, <1>4

----------------------------------------------------------------------------
(* Types *)

\* Every step keeps every variable within its type.
LEMMA TypeStep ==
  ASSUME TypeOK, ProbesInv, [Next]_vars
  PROVE  TypeOK'
<1> USE StartupAssumption DEF boots, tables, memory
<1>1. ASSUME NEW c \in Configs, Start(c)
      PROVE  TypeOK'
  <2>1. c.probes \subseteq Probes
    BY ConfigTypes
  <2> QED
    BY <1>1, <2>1 DEF Start, TypeOK
<1>2. ASSUME NEW p \in Probes, SeedProbe(p)
      PROVE  TypeOK'
  BY <1>2, RowTypes DEF SeedProbe, TypeOK
<1>3. ASSUME NEW p \in Probes, RevokeProbe(p)
      PROVE  TypeOK'
  <2>1. probes' \in [Probes -> ProbeRows]
    BY <1>3, RevokeEffect DEF TypeOK
  <2> QED
    BY <1>3, <2>1 DEF RevokeProbe, TypeOK
<1>4. ASSUME NEW p \in Probes, InsertProbeCredential(p)
      PROVE  TypeOK'
  BY <1>4, RowTypes DEF InsertProbeCredential, TypeOK
<1>5. ASSUME NEW p \in Probes, NEW s,
             AddCreatedProbe(p) \/ ProbeRequest(p, s)
      PROVE  TypeOK'
  BY <1>5 DEF AddCreatedProbe, ProbeRequest, TypeOK
<1>6. ASSUME NEW n \in Names, SeedCheck(n) \/ CreateCheck(n) \/ DeleteCheck(n)
      PROVE  TypeOK'
  <2>1. checks' \in [Names -> SUBSET {"user", "nobody"}]
    <3>1. PICK o \in {"user", "nobody"} :
            \/ checks' = [checks EXCEPT ![n] = checks[n] \cup {o}]
            \/ checks' = [checks EXCEPT ![n] = checks[n] \ {o}]
      BY <1>6 DEF SeedCheck, CreateCheck, DeleteCheck, TypeOK
    <3> QED
      BY <3>1 DEF TypeOK
  <2>2. todo' \subseteq todo
    BY <1>6 DEF SeedCheck, CreateCheck, DeleteCheck, RestAfter
  <2> QED
    BY <1>6, <2>1, <2>2 DEF SeedCheck, CreateCheck, DeleteCheck, TypeOK
<1>7. CASE Passes
  BY <1>7 DEF Passes, SelectRevoked, ProbesSeeded, ChecksSeeded, Obsolete, TypeOK
<1>8. CASE SeedUser
  <2>1. config.checks \subseteq Names
    BY ConfigTypes DEF TypeOK
  <2> QED
    BY <1>8, <2>1 DEF SeedUser, TypeOK
<1>9. CASE Load
  BY <1>9 DEF Load, Recoverable, TypeOK
<1>10. CASE Crash
  BY <1>10 DEF Crash, TypeOK, CallStates
<1>11. ASSUME NEW c \in Calls, NEW old \in Passwords, NEW new \in Passwords,
              VerifyPassword(c, old, new)
       PROVE  TypeOK'
  BY <1>11 DEF VerifyPassword, TypeOK, CallStates
<1>12. ASSUME NEW c \in Calls, WritePassword(c)
       PROVE  TypeOK'
  <2>1. call[c].new \in Passwords
    BY <1>12 DEF WritePassword, TypeOK, CallStates, NoCall
  <2> QED
    BY <1>12, <2>1 DEF WritePassword, TypeOK, CallStates
<1>13. CASE UNCHANGED vars
  BY <1>13 DEF vars, TypeOK
<1> QED
  BY <1>1, <1>2, <1>3, <1>4, <1>5, <1>6, <1>7, <1>8, <1>9, <1>10, <1>11, <1>12,
     <1>13 DEF Next, Passes

----------------------------------------------------------------------------
(* SeedProbes *)

\* Every step keeps SeedProbes where it says it is.
LEMMA ProbesStep ==
  ASSUME TypeOK, ProbesInv, [Next]_vars
  PROVE  ProbesInv'
<1> USE DEF boots, tables, memory
<1>0. config.probes \subseteq Probes
  BY ConfigTypes DEF TypeOK
<1>1. ASSUME NEW c \in Configs, Start(c)
      PROVE  ProbesInv'
  BY <1>1 DEF Start, ProbesInv
<1>2. ASSUME NEW p \in Probes, SeedProbe(p)
      PROVE  ProbesInv'
  <2>1. /\ probes' = [probes EXCEPT ![p] = Seeded(p)] /\ todo' = todo \ {p}
        /\ boot = "probes" /\ UNCHANGED <<config, boot>> /\ p \in todo
    BY <1>2 DEF SeedProbe
  <2>2. \A q : Seeded(q)' = Seeded(q)
    BY <2>1 DEF Seeded
  <2>3. \A q \in Probes : probes'[q] = IF q = p THEN Seeded(p) ELSE probes[q]
    BY <2>1 DEF TypeOK
  <2>4. \A q \in Probes : probes'[q].by = "api" => ~probes'[q].revoked
    BY <2>3 DEF ProbesInv, Seeded
  <2>5. \A q \in config'.probes \ todo' : probes'[q] = Seeded(q)'
    BY <1>0, <2>1, <2>2, <2>3 DEF ProbesInv
  <2> QED
    BY <2>1, <2>4, <2>5 DEF ProbesInv
<1>3. CASE SelectRevoked
  BY <1>3 DEF SelectRevoked, ProbesInv, SeededAll, Seeded, Obsolete
<1>4. ASSUME NEW p \in Probes, RevokeProbe(p)
      PROVE  ProbesInv'
  <2>1. PICK r \in ProbeRows :
          /\ probes' = [probes EXCEPT ![p] = r]
          /\ probes[p].by = "config" /\ r.by = "config" /\ r.revoked
          /\ p \in Obsolete /\ p \notin config.probes
    BY <1>4, RevokeEffect
  <2>2. /\ boot = "revoke" /\ todo' = todo \ {p} /\ UNCHANGED <<config, boot>>
    BY <1>4 DEF RevokeProbe
  <2>3. \A q \in Probes : probes'[q] = IF q = p THEN r ELSE probes[q]
    BY <2>1 DEF TypeOK
  <2>4. Obsolete' = Obsolete
    BY <2>1, <2>2, <2>3 DEF Obsolete
  <2>5. SeededAll'
    BY <1>0, <2>1, <2>2, <2>3 DEF ProbesInv, SeededAll, Seeded
  <2>6. todo' \subseteq Obsolete /\ \A q \in Obsolete \ todo' : probes'[q].revoked
    BY <2>1, <2>2, <2>3 DEF ProbesInv, Obsolete
  <2>7. \A q \in Probes : probes'[q].by = "api" => ~probes'[q].revoked
    BY <2>1, <2>3 DEF ProbesInv
  <2> QED
    BY <2>2, <2>4, <2>5, <2>6, <2>7 DEF ProbesInv
<1>5. CASE ProbesSeeded \/ ChecksSeeded \/ SeedUser \/ Load
  <2>1. UNCHANGED <<config, probes>>
    BY <1>5 DEF ProbesSeeded, ChecksSeeded, SeedUser, Load
  <2>2. Obsolete' = Obsolete /\ (SeededAll' <=> SeededAll)
    BY <2>1 DEF Obsolete, SeededAll, Seeded
  <2>3. boot' \in {"user", "checks", "load", "up"}
    BY <1>5 DEF ProbesSeeded, ChecksSeeded, SeedUser, Load
  <2>4. config.probes # {} => SeededAll /\ \A p \in Obsolete : probes[p].revoked
    BY <1>5 DEF ProbesSeeded, ChecksSeeded, SeedUser, Load, ProbesInv
  <2> QED
    BY <2>1, <2>2, <2>3, <2>4 DEF ProbesInv
<1>6. CASE Crash
  BY <1>6 DEF Crash, ProbesInv
<1>7. ASSUME NEW p \in Probes, InsertProbeCredential(p)
      PROVE  ProbesInv'
  <2>1. /\ boot = "up" /\ boot' = "up" /\ UNCHANGED config /\ probes[p].by = "none"
        /\ probes' = [probes EXCEPT ![p] = [by |-> "api", secret |-> "api",
                                           revoked |-> FALSE]]
    BY <1>7 DEF InsertProbeCredential
  <2>2. /\ probes'[p].by = "api" /\ ~probes'[p].revoked
        /\ \A q \in Probes \ {p} : probes'[q] = probes[q]
    BY <2>1 DEF TypeOK
  <2>3. Obsolete' = Obsolete
    BY <2>1, <2>2 DEF Obsolete
  <2>4. \A q \in Probes : probes'[q].by = "api" => ~probes'[q].revoked
    BY <2>2 DEF ProbesInv
  <2>5. CASE config.probes # {}
    <3>1. SeededAll /\ \A q \in Obsolete : probes[q].revoked
      BY <2>1, <2>5 DEF ProbesInv
    <3>2. p \notin config.probes /\ p \notin Obsolete
      BY <2>1, <3>1 DEF SeededAll, Seeded, Obsolete
    <3>3. SeededAll'
      BY <1>0, <2>1, <2>2, <3>1, <3>2 DEF SeededAll, Seeded
    <3>4. \A q \in Obsolete' : probes'[q].revoked
      BY <2>2, <2>3, <3>1, <3>2 DEF Obsolete
    <3> QED
      BY <2>1, <2>4, <3>3, <3>4 DEF ProbesInv
  <2>6. CASE config.probes = {}
    BY <2>1, <2>4, <2>6 DEF ProbesInv
  <2> QED
    BY <2>5, <2>6
<1>8. ASSUME UNCHANGED <<config, boot, probes>>, UNCHANGED todo \/ boot = "checks"
      PROVE  ProbesInv'
  <2>1. Obsolete' = Obsolete /\ (SeededAll' <=> SeededAll) /\ \A q : Seeded(q)' = Seeded(q)
    BY <1>8 DEF Obsolete, SeededAll, Seeded
  <2>2. CASE UNCHANGED todo
    BY <1>8, <2>1, <2>2 DEF ProbesInv, Seeded
  <2>3. CASE boot = "checks"
    BY <1>8, <2>1, <2>3 DEF ProbesInv
  <2> QED
    BY <1>8, <2>2, <2>3
<1>9. ASSUME NEW p \in Probes, NEW s, AddCreatedProbe(p) \/ ProbeRequest(p, s)
      PROVE  ProbesInv'
  BY <1>8, <1>9 DEF AddCreatedProbe, ProbeRequest
<1>10. ASSUME NEW n \in Names, SeedCheck(n) \/ CreateCheck(n) \/ DeleteCheck(n)
       PROVE  ProbesInv'
  BY <1>8, <1>10 DEF SeedCheck, CreateCheck, DeleteCheck
<1>11. ASSUME NEW c \in Calls, NEW old, NEW new,
              VerifyPassword(c, old, new) \/ WritePassword(c)
       PROVE  ProbesInv'
  BY <1>8, <1>11 DEF VerifyPassword, WritePassword
<1>12. CASE UNCHANGED vars
  BY <1>8, <1>12 DEF vars
<1> QED
  BY <1>1, <1>2, <1>3, <1>4, <1>5, <1>6, <1>7, <1>9, <1>10, <1>11, <1>12 DEF Next

----------------------------------------------------------------------------
(* SeedChecks *)

\* Every step keeps SeedChecks where it says it is.
LEMMA ChecksStep ==
  ASSUME TypeOK, ChecksInv, [Next]_vars
  PROVE  ChecksInv'
<1> USE DEF boots, tables, memory, ChecksInv
<1>1. ASSUME NEW c \in Configs, Start(c)
      PROVE  ChecksInv'
  BY <1>1 DEF Start
<1>2. CASE SelectRevoked \/ ProbesSeeded \/ SeedUser \/ Load \/ Crash
  BY <1>2 DEF SelectRevoked, ProbesSeeded, SeedUser, Load, Crash, TypeOK
<1>3. CASE ChecksSeeded
  BY <1>3 DEF ChecksSeeded
<1>4. ASSUME NEW n \in Names, SeedCheck(n)
      PROVE  ChecksInv'
  <2>1. /\ checks' = [checks EXCEPT ![n] = checks[n] \cup {owner}]
        /\ todo' = todo \ {n} /\ boot = "checks"
        /\ UNCHANGED <<config, boot, owner, password, call>>
    BY <1>4 DEF SeedCheck, RestAfter
  <2>2. config.checks \subseteq Names
    BY ConfigTypes DEF TypeOK
  <2>3. \A m \in Names : checks'[m] = IF m = n THEN checks[n] \cup {owner} ELSE checks[m]
    BY <2>1 DEF TypeOK
  <2>4. \A m \in config.checks \ todo' : owner' \in checks'[m]
    BY <2>1, <2>2, <2>3
  <2> QED
    BY <2>1, <2>4
<1>5. ASSUME UNCHANGED boot,
             \/ boot = "up"
             \/ UNCHANGED <<config, todo, owner, password, checks, call>>
             \/ /\ boot \in {"probes", "revoke"} /\ UNCHANGED call
      PROVE  ChecksInv'
  BY <1>5
<1>6. ASSUME NEW n \in Names, CreateCheck(n) \/ DeleteCheck(n)
      PROVE  ChecksInv'
  BY <1>5, <1>6 DEF CreateCheck, DeleteCheck
<1>7. ASSUME NEW p \in Probes, NEW s,
             \/ SeedProbe(p) \/ RevokeProbe(p) \/ InsertProbeCredential(p)
             \/ AddCreatedProbe(p) \/ ProbeRequest(p, s)
      PROVE  ChecksInv'
  BY <1>5, <1>7 DEF SeedProbe, RevokeProbe, InsertProbeCredential, AddCreatedProbe,
                    ProbeRequest
<1>8. ASSUME NEW c \in Calls, NEW old, NEW new,
             VerifyPassword(c, old, new) \/ WritePassword(c)
      PROVE  ChecksInv'
  <2>1. boot = "up" /\ UNCHANGED boot
    BY <1>8 DEF VerifyPassword, WritePassword, NoCall
  <2> QED
    BY <1>5, <2>1
<1>9. CASE UNCHANGED vars
  BY <1>5, <1>9 DEF vars
<1> QED
  BY <1>1, <1>2, <1>3, <1>4, <1>6, <1>7, <1>8, <1>9 DEF Next

----------------------------------------------------------------------------
(* The Runtime *)

AddingInv == (boot # "up" => adding = {}) /\ RuntimeMatchesTable

\* Every step keeps the Runtime in step with the table.
LEMMA RuntimeStep ==
  ASSUME TypeOK, AddingInv, [Next]_vars
  PROVE  AddingInv'
<1> USE DEF boots, tables, memory, AddingInv, RuntimeMatchesTable
<1>1. ASSUME NEW c \in Configs, Start(c)
      PROVE  AddingInv'
  BY <1>1 DEF Start
<1>2. ASSUME NEW p \in Probes, SeedProbe(p) \/ RevokeProbe(p)
      PROVE  AddingInv'
  BY <1>2 DEF SeedProbe, RevokeProbe
<1>3. CASE SelectRevoked \/ ProbesSeeded \/ SeedUser \/ ChecksSeeded
  BY <1>3 DEF SelectRevoked, ProbesSeeded, SeedUser, ChecksSeeded
<1>4. CASE Load
  BY <1>4 DEF Load, Recoverable
<1>5. CASE Crash
  BY <1>5 DEF Crash
<1>6. ASSUME NEW p \in Probes, InsertProbeCredential(p)
      PROVE  AddingInv'
  <2>1. /\ boot = "up" /\ boot' = "up" /\ adding' = adding \cup {p} /\ UNCHANGED runtime
        /\ probes' = [probes EXCEPT ![p] = [by |-> "api", secret |-> "api",
                                           revoked |-> FALSE]]
    BY <1>6 DEF InsertProbeCredential
  <2>2. Recoverable' = Recoverable \cup {p}
    BY <2>1 DEF Recoverable, TypeOK
  <2> QED
    BY <2>1, <2>2
<1>7. ASSUME NEW p \in Probes, AddCreatedProbe(p)
      PROVE  AddingInv'
  BY <1>7 DEF AddCreatedProbe, Recoverable
<1>8. ASSUME NEW p \in Probes, NEW s, ProbeRequest(p, s)
      PROVE  AddingInv'
  BY <1>8 DEF ProbeRequest, Authenticates, Recoverable
<1>9. ASSUME UNCHANGED <<boot, probes, runtime, adding>>
      PROVE  AddingInv'
  BY <1>9 DEF Recoverable
<1>10. ASSUME NEW n \in Names, SeedCheck(n) \/ CreateCheck(n) \/ DeleteCheck(n)
       PROVE  AddingInv'
  BY <1>9, <1>10 DEF SeedCheck, CreateCheck, DeleteCheck
<1>11. ASSUME NEW c \in Calls, NEW old, NEW new,
              VerifyPassword(c, old, new) \/ WritePassword(c)
       PROVE  AddingInv'
  BY <1>9, <1>11 DEF VerifyPassword, WritePassword
<1>12. CASE UNCHANGED vars
  BY <1>9, <1>12 DEF vars
<1> QED
  BY <1>1, <1>2, <1>3, <1>4, <1>5, <1>6, <1>7, <1>8, <1>10, <1>11, <1>12 DEF Next

----------------------------------------------------------------------------
(* Theorems *)

\* The inductive invariant holds in every state.
LEMMA StartupInvHolds ==
  Spec => []StartupInv
<1>1. Init => StartupInv
  <2> SUFFICES ASSUME Init PROVE StartupInv
    OBVIOUS
  <2>1. TypeOK
    <3>1. probes \in [Probes -> ProbeRows] /\ call \in [Calls -> CallStates]
      BY DEF Init, ProbeRows, CallStates
    <3>2. checks \in [Names -> SUBSET {"user", "nobody"}]
      BY DEF Init
    <3> QED
      BY <3>1, <3>2, StartupAssumption DEF Init, TypeOK
  <2>2. ProbesInv
    BY DEF Init, ProbesInv, NoProbe
  <2> QED
    BY <2>1, <2>2 DEF Init, StartupInv, ChecksInv, RuntimeMatchesTable
<1>2. StartupInv /\ [Next]_vars => StartupInv'
  BY TypeStep, ProbesStep, ChecksStep, RuntimeStep DEF StartupInv, AddingInv
<1> QED
  BY <1>1, <1>2, PTL DEF Spec

\* Every variable stays within its type.
THEOREM StartupTypes ==
  Spec => []TypeOK
<1>1. StartupInv => TypeOK
  BY DEF StartupInv
<1> QED
  BY <1>1, StartupInvHolds, PTL

\* While the server serves, its configuration decides which probes
\* authenticate, whatever earlier starts have left in the table.
THEOREM ConfigurationDecides ==
  Spec => []ConfigDecidesProbes
<1>1. StartupInv => ConfigDecidesProbes
  <2> SUFFICES ASSUME StartupInv, boot = "up", config.probes # {}
               PROVE  /\ \A p \in config.probes : Authenticates(p, config.secret)
                      /\ \A p \in Probes \ config.probes :
                           p \in Recoverable <=> probes[p].by = "api"
    BY DEF ConfigDecidesProbes
  <2>1. /\ TypeOK /\ SeededAll /\ \A p \in Obsolete : probes[p].revoked
        /\ \A p \in Probes : probes[p].by = "api" => ~probes[p].revoked
    BY DEF StartupInv, ProbesInv
  <2>2. config.probes \subseteq Probes
    BY <2>1, ConfigTypes DEF TypeOK
  <2>3. \A p \in config.probes : Authenticates(p, config.secret)
    <3>1. ASSUME NEW p \in config.probes
          PROVE  /\ probes[p].by = "config" /\ ~probes[p].revoked
                 /\ probes[p].secret = config.secret
      BY <2>1 DEF SeededAll, Seeded
    <3> QED
      BY <2>2, <3>1 DEF Authenticates, Recoverable
  <2>4. ASSUME NEW p \in Probes \ config.probes
        PROVE  p \in Recoverable <=> probes[p].by = "api"
    <3>1. probes[p].by \in {"none", "config", "api"}
      BY <2>1 DEF TypeOK, ProbeRows, NoProbe
    <3> QED
      BY <2>1, <3>1 DEF Recoverable, Obsolete
  <2> QED
    BY <2>3, <2>4
<1> QED
  BY <1>1, StartupInvHolds, PTL

\* The Runtime counts the probes that can authenticate, but for those that a
\* request is just adding.
THEOREM RuntimeCounts ==
  Spec => []RuntimeMatchesTable
<1>1. StartupInv => RuntimeMatchesTable
  BY DEF StartupInv
<1> QED
  BY <1>1, StartupInvHolds, PTL

\* Every configured check is active when the server begins to serve, and owned
\* by the seed user as long as the password is the configured one.
THEOREM ChecksServed ==
  Spec => ConfiguredChecksServed
<1>1. StartupInv /\ [Next]_vars =>
        [boot = "load" /\ boot' = "up" =>
           \A n \in config.checks :
             checks[n] # {} /\ (password = Initial => "user" \in checks[n])]_vars
  BY DEF StartupInv, ChecksInv
<1> QED
  BY <1>1, StartupInvHolds, PTL DEF Spec, ConfiguredChecksServed

============================================================================
