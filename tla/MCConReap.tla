------------------------------ MODULE MCConReap ------------------------------
(* ConReap for TLC: every build.                                              *)
EXTENDS ConReap

MCBuilds == AllBuilds
=============================================================================
