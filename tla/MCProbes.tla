------------------------------ MODULE MCProbes ------------------------------
(***************************************************************************)
(* Probes for TLC.  PumpBound has figures in base three and an unsigned    *)
(* long of four bits, or of eight: 16 and 17 pass LastNumber's guard and   *)
(* wrap in four.  AlexTest's clock ticks twice a second.                   *)
(***************************************************************************)
EXTENDS Probes

SmallWords   == {16, 256}
SmallLimits  == {1, 2, 3, 4, 5, 6, 7}
SmallFigures == {0, 1, 3, 4, 5, 6, 16, 17, 18}
=============================================================================
