---------------------------- MODULE MCReplayGuard ----------------------------
(* ReplayGuard for TLC: every build where the waits are long enough, and      *)
(* builds with at most two features missing where they are not.               *)
EXTENDS ReplayGuard, FiniteSets

MCBuilds ==
    {b \in AllBuilds : b["timely"] \/ Cardinality({f \in Features : ~b[f]}) <= 2}
=============================================================================
