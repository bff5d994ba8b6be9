----------------------------- MODULE GateVerdict -----------------------------
(***************************************************************************)
(* What a gate harness promises its caller, whatever it does inside.       *)
(*                                                                         *)
(* A harness is one process run against one build of the libraries under   *)
(* test.  It returns one of the four exit codes the suite uses, exactly    *)
(* once, and it may return 0 only when the build has every property the    *)
(* harness asserts.  Each harness module refines this specification.       *)
(***************************************************************************)
EXTENDS Integers

CONSTANTS Builds,   \* the builds of the libraries the harness may be run on
          Good      \* those that have every property the harness asserts

VARIABLES build,    \* the build this run is linked with: never changes
          exit      \* Running, or the exit code the process returned

gateVars == <<build, exit>>

Running      == -1
Pass         == 0
Fail         == 1
Setup        == 2
Inconclusive == 3
ExitCodes    == {Pass, Fail, Setup, Inconclusive}

GateInit ==
    /\ build \in Builds
    /\ exit = Running

\* The process returns.  Only a good build earns a pass.
Return(code) ==
    /\ exit = Running
    /\ exit' = code
    /\ code = Pass => build \in Good
    /\ UNCHANGED build

GateNext == \E code \in ExitCodes : Return(code)

GateSpec == GateInit /\ [][GateNext]_gateVars
=============================================================================
