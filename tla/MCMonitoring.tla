---------------------------- MODULE MCMonitoring ----------------------------
(* Instances of Monitoring for TLC. *)
EXTENDS Monitoring, TLC

\* The probes are interchangeable where the configuration lists all of them.
ProbeSymmetry == Permutations(Probes)

============================================================================
