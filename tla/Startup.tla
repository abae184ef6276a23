------------------------------ MODULE Startup ------------------------------
(***************************************************************************)
(* Start-up of the server (cmd/wacht-server/main.go) against a database    *)
(* that earlier runs have left, and the requests that change what the next *)
(* start finds: probe credentials, the seed user's password, checks.       *)
(*                                                                         *)
(* The operator may edit the configuration before every start.  SeedProbes *)
(* and SeedChecks are one statement for each entry, without a transaction: *)
(* the process may die between any two.  The configuration names a seed    *)
(* user.                                                                   *)
(***************************************************************************)
EXTENDS Integers

CONSTANTS
  Probes,
  Names,      \* names of checks
  Passwords,
  Initial,    \* the password in the configuration
  Configs,    \* the configurations: their probes and their checks
  Calls,      \* requests to change the password
  MaxStarts   \* bound: starts of the server

ASSUME StartupAssumption ==
  /\ Configs \subseteq [probes : SUBSET Probes, secret : {"old", "new"},
                        checks : SUBSET Names]
  /\ Initial \in Passwords /\ "none" \notin Passwords
  /\ MaxStarts \in Nat

VARIABLES
  config,      \* the configuration of this start
  boot,        \* how far main has come; "up" when it serves
  todo,        \* the entries that the loop at hand has not handled
  owner,       \* whose checks SeedChecks inserts: "user", or "nobody" (id 0)
  starts,      \* starts so far
  probes,      \* the table
  password,    \* of the seed user, or "none" without a user
  checks,      \* the owners of the active checks of each name
  runtime,     \* the probes the Runtime knows
  adding,      \* probes inserted by a request that has not called AddProbe
  call         \* the requests to change the password

boots == <<config, boot, todo, owner, starts>>
vars == <<boots, probes, password, checks, runtime, adding, call>>

NoProbe == [by |-> "none", secret |-> "none", revoked |-> FALSE]
NoCall == [step |-> "idle", new |-> "none"]

ProbeRows == {NoProbe} \cup [by : {"config", "api"}, secret : {"old", "new", "api"},
                           revoked : BOOLEAN]
CallStates == {NoCall} \cup [step : {"write"}, new : Passwords]

TypeOK ==
  /\ config \in Configs
  /\ boot \in {"down", "probes", "revoke", "user", "checks", "load", "up"}
  /\ todo \subseteq Probes \cup Names
  /\ owner \in {"user", "nobody"}
  /\ starts \in 0..MaxStarts
  /\ probes \in [Probes -> ProbeRows]
  /\ password \in Passwords \cup {"none"}
  /\ checks \in [Names -> SUBSET {"user", "nobody"}]
  /\ runtime \subseteq Probes /\ adding \subseteq Probes
  /\ call \in [Calls -> CallStates]

Init ==
  /\ config \in Configs
  /\ boot = "down" /\ todo = {} /\ owner = "nobody" /\ starts = 0
  /\ probes = [p \in Probes |-> NoProbe]
  /\ password = "none"
  /\ checks = [n \in Names |-> {}]
  /\ runtime = {} /\ adding = {}
  /\ call = [c \in Calls |-> NoCall]

tables == <<probes, password, checks>>
memory == <<runtime, adding, call>>

----------------------------------------------------------------------------
(* main *)

\* The loop of SeedProbes, or the early return without probes
Start(c) ==
  /\ boot = "down" /\ starts < MaxStarts
  /\ starts' = starts + 1
  /\ config' = c
  /\ boot' = IF c.probes = {} THEN "user" ELSE "probes"
  /\ todo' = c.probes
  /\ owner' = "nobody"
  /\ UNCHANGED <<tables, memory>>

\* Mutant: a probe that was revoked stays so.
Seeded_KeepsRevoked(p) ==
  [by |-> "config", secret |-> config.secret, revoked |-> probes[p].revoked]

\* The upsert of SeedProbes
Seeded(p) == [by |-> "config", secret |-> config.secret, revoked |-> FALSE]

SeedProbe(p) ==
  /\ boot = "probes" /\ p \in todo
  /\ probes' = [probes EXCEPT ![p] = Seeded(p)]
  /\ todo' = todo \ {p}
  /\ UNCHANGED <<config, boot, owner, starts, password, checks, memory>>

\* Mutant: without the condition on provisioned_by.
Obsolete_AnyOrigin == Probes \ config.probes

\* SELECT ... WHERE provisioned_by = 'config', without those to keep
Obsolete == {p \in Probes : probes[p].by = "config"} \ config.probes

SelectRevoked ==
  /\ boot = "probes" /\ todo = {}
  /\ boot' = "revoke"
  /\ todo' = Obsolete
  /\ UNCHANGED <<config, owner, starts, tables, memory>>

RevokeProbe(p) ==
  /\ boot = "revoke" /\ p \in todo
  /\ probes' = [probes EXCEPT ![p].revoked = TRUE]
  /\ todo' = todo \ {p}
  /\ UNCHANGED <<config, boot, owner, starts, password, checks, memory>>

ProbesSeeded ==
  /\ boot = "revoke" /\ todo = {}
  /\ boot' = "user"
  /\ UNCHANGED <<config, todo, owner, starts, tables, memory>>

\* The seed user is created when there is no user at all; otherwise it is looked
\* up with the password of the configuration.
SeedUser ==
  /\ boot = "user"
  /\ password' = IF password = "none" THEN Initial ELSE password
  /\ owner' = IF password \in {"none", Initial} THEN "user" ELSE "nobody"
  /\ boot' = "checks"
  /\ todo' = config.checks
  /\ UNCHANGED <<config, starts, probes, checks, memory>>

\* Mutant: the first check that exists ends the loop.
RestAfter_Conflict(n) == IF owner \in checks[n] THEN {} ELSE todo \ {n}

RestAfter(n) == todo \ {n}

\* INSERT ... ON CONFLICT DO NOTHING: names are unique among the active checks
\* of an owner, and nobody is an owner too.
SeedCheck(n) ==
  /\ boot = "checks" /\ n \in todo
  /\ checks' = [checks EXCEPT ![n] = @ \cup {owner}]
  /\ todo' = RestAfter(n)
  /\ UNCHANGED <<config, boot, owner, starts, probes, password, memory>>

ChecksSeeded ==
  /\ boot = "checks" /\ todo = {}
  /\ boot' = "load"
  /\ UNCHANGED <<config, todo, owner, starts, tables, memory>>

\* RecoverableProbeStates
Recoverable == {p \in Probes : probes[p].by # "none" /\ ~probes[p].revoked}

\* LoadRuntime, and the server listens
Load ==
  /\ boot = "load"
  /\ runtime' = Recoverable
  /\ boot' = "up"
  /\ UNCHANGED <<config, todo, owner, starts, tables, adding, call>>

\* The process ends, at whatever statement.
Crash ==
  /\ boot # "down" /\ starts < MaxStarts
  /\ boot' = "down" /\ todo' = {} /\ owner' = "nobody"
  /\ runtime' = {} /\ adding' = {}
  /\ call' = [c \in Calls |-> NoCall]
  /\ UNCHANGED <<config, starts, tables>>

----------------------------------------------------------------------------
(* Requests *)

\* insertProbeCredential; a probe id that is taken, also by a revoked probe, is
\* refused.
InsertProbeCredential(p) ==
  /\ boot = "up" /\ probes[p].by = "none"
  /\ probes' = [probes EXCEPT ![p] = [by |-> "api", secret |-> "api",
                                      revoked |-> FALSE]]
  /\ adding' = adding \cup {p}
  /\ UNCHANGED <<boots, password, checks, runtime, call>>

\* Mutant: the Runtime is not told.
AddCreatedProbe_Forgets(p) ==
  /\ p \in adding
  /\ adding' = adding \ {p}
  /\ UNCHANGED <<boots, tables, runtime, call>>

\* handleCreateProbeCredential, the second half
AddCreatedProbe(p) ==
  /\ p \in adding
  /\ adding' = adding \ {p}
  /\ runtime' = runtime \cup {p}
  /\ UNCHANGED <<boots, tables, call>>

\* AuthenticateProbe
Authenticates(p, secret) == p \in Recoverable /\ probes[p].secret = secret

\* requireProbeAuth, and Register or Heartbeat
ProbeRequest(p, secret) ==
  /\ boot = "up" /\ Authenticates(p, secret)
  /\ runtime' = runtime \cup {p}
  /\ UNCHANGED <<boots, tables, adding, call>>

CreateCheck(n) ==
  /\ boot = "up" /\ "user" \notin checks[n]
  /\ checks' = [checks EXCEPT ![n] = @ \cup {"user"}]
  /\ UNCHANGED <<boots, probes, password, memory>>

DeleteCheck(n) ==
  /\ boot = "up" /\ "user" \in checks[n]
  /\ checks' = [checks EXCEPT ![n] = @ \ {"user"}]
  /\ UNCHANGED <<boots, probes, password, memory>>

\* UpdateUserPassword reads and compares the hash ...
VerifyPassword(c, current, new) ==
  /\ boot = "up" /\ call[c].step = "idle"
  /\ current = password
  /\ call' = [call EXCEPT ![c] = [step |-> "write", new |-> new]]
  /\ UNCHANGED <<boots, tables, runtime, adding>>

\* ... and replaces it in a statement of its own (setUserPassword).
WritePassword(c) ==
  /\ call[c].step = "write"
  /\ password' = call[c].new
  /\ call' = [call EXCEPT ![c] = NoCall]
  /\ UNCHANGED <<boots, probes, checks, runtime, adding>>

Next ==
  \/ \E c \in Configs : Start(c)
  \/ \E p \in Probes : \/ SeedProbe(p) \/ RevokeProbe(p)
                       \/ InsertProbeCredential(p) \/ AddCreatedProbe(p)
                       \/ \E s \in {"old", "new", "api"} : ProbeRequest(p, s)
  \/ \E n \in Names : SeedCheck(n) \/ CreateCheck(n) \/ DeleteCheck(n)
  \/ SelectRevoked \/ ProbesSeeded \/ SeedUser \/ ChecksSeeded \/ Load
  \/ Crash
  \/ \E c \in Calls : \/ \E old, new \in Passwords : VerifyPassword(c, old, new)
                      \/ WritePassword(c)

Spec == Init /\ [][Next]_vars

----------------------------------------------------------------------------
(* Properties *)

\* While the server serves with probes configured, exactly those and the ones
\* created through the API authenticate, with their current secrets, whatever
\* earlier starts had configured or left half done (SeedProbes).
ConfigDecidesProbes ==
  boot = "up" /\ config.probes # {} =>
    /\ \A p \in config.probes : Authenticates(p, config.secret)
    /\ \A p \in Probes \ config.probes :
         p \in Recoverable <=> probes[p].by = "api"

\* The Runtime counts exactly the probes that can authenticate, but for those
\* that a request is just adding (LoadRuntime, handleCreateProbeCredential).
RuntimeMatchesTable == boot = "up" => runtime \cup adding = Recoverable

\* When the server begins to serve, every configured check is active, also when
\* an earlier start died between two of them, and the seed user owns one of each
\* name as long as the password is the configured one (SeedChecks, main).
ConfiguredChecksServed ==
  [][boot = "load" /\ boot' = "up" =>
       \A n \in config.checks :
         checks[n] # {} /\ (password = Initial => "user" \in checks[n])]_vars

----------------------------------------------------------------------------
(* The inductive invariant behind the properties (StartupProofs).          *)

SeededAll == \A p \in config.probes : probes[p] = Seeded(p)

\* How far SeedProbes has come: the configured probes are written before the
\* others are looked for, and only those of a configuration are revoked.
ProbesInv ==
  /\ \A p \in Probes : probes[p].by = "api" => ~probes[p].revoked
  /\ boot = "probes" => /\ todo \subseteq config.probes
                        /\ \A p \in config.probes \ todo : probes[p] = Seeded(p)
  /\ boot = "revoke" => /\ SeededAll /\ todo \subseteq Obsolete
                        /\ \A p \in Obsolete \ todo : probes[p].revoked
  /\ boot \in {"user", "checks", "load", "up"} /\ config.probes # {} =>
       SeededAll /\ \A p \in Obsolete : probes[p].revoked

\* How far SeedChecks has come, and for whom: no request changes the password
\* before the server serves.
ChecksInv ==
  /\ boot = "checks" => \A n \in config.checks \ todo : owner \in checks[n]
  /\ boot = "load" => \A n \in config.checks : owner \in checks[n]
  /\ boot \in {"checks", "load"} /\ password = Initial => owner = "user"
  /\ boot # "up" => \A c \in Calls : call[c] = NoCall

StartupInv ==
  /\ TypeOK /\ ProbesInv /\ ChecksInv
  /\ boot # "up" => adding = {}
  /\ RuntimeMatchesTable

============================================================================
