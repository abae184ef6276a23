----------------------------- MODULE MCStartup -----------------------------
(* Model checking of Startup: the configurations that an operator goes     *)
(* through.                                                                *)
EXTENDS Startup

CONSTANTS p1, p2, web, api

MCConfigs ==
  [probes : SUBSET {p1, p2}, secret : {"old"}, checks : {{web, api}}]
    \cup [probes : {{p1}}, secret : {"new"}, checks : {{web}}]

============================================================================
