----------------------------- MODULE MCKeyRotate -----------------------------
(* KeyRotate for TLC: every build.                                            *)
EXTENDS KeyRotate

MCBuilds == AllBuilds
=============================================================================
