----------------------------- MODULE MCHubWake -----------------------------
(* HubWake for TLC: every build.                                              *)
EXTENDS HubWake

MCBuilds == AllBuilds
=============================================================================
