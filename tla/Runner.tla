------------------------------- MODULE Runner --------------------------------
(***************************************************************************)
(* The unit-test runner: TestFramework.cpp and TestMain.cpp.               *)
(*                                                                         *)
(* One main thread enters cases, records failed checks and returns an exit *)
(* code.  Cases of the Targetcore suite spawn hub pumps, and the assert    *)
(* hook runs on whichever thread asserts, so `++g_tf.failures' is executed *)
(* by several threads with no lock: it is a load and a store here.  A pump *)
(* that outlives the bounded wait at the end of its case goes on asserting *)
(* into later cases and into the summary.                                  *)
(***************************************************************************)
EXTENDS Integers

CONSTANTS Pumps,     \* the hub pumps the cases may spawn
          MaxCases,  \* bound: cases entered
          MaxHits    \* bound: failures recorded

PumpsAssumption  == "main" \notin Pumps
BoundsAssumption == MaxCases \in Nat /\ MaxHits \in Nat

VARIABLES pc,            \* main: "start", "between", "case", "printed", "done"
          nSkipped,      \* suites compiled out of this build
          cases,         \* g_tf.cases
          failures,      \* g_tf.failures
          caseFailures,  \* g_tf.caseFailures
          baseline,      \* s_caseFailureBaseline
          reg,           \* what each thread loaded of failures and has yet to store
          alive,         \* the pumps running
          result,        \* the verdict printed in the summary
          exit,          \* the process exit code, or Running
          hits,          \* history: failures recorded, one per completed ++
          caseHit,       \* history: main recorded one in the current case
          hitCases       \* history: cases ended with caseHit

counters == <<failures, caseFailures, baseline, reg>>
history  == <<hits, caseHit, hitCases>>
vars     == <<pc, nSkipped, cases, counters, alive, result, exit, history>>

Threads == {"main"} \union Pumps
NoReg   == -1
Running == -1
Results == {"none", "PASS", "INCOMPLETE", "FAIL"}

Init ==
    /\ pc = "start" /\ nSkipped \in 0..1
    /\ cases = 0 /\ failures = 0 /\ caseFailures = 0 /\ baseline = 0
    /\ reg = [t \in Threads |-> NoReg]
    /\ alive = {} /\ result = "none" /\ exit = Running
    /\ hits = 0 /\ caseHit = FALSE /\ hitCases = 0

-----------------------------------------------------------------------------
(* Main *)

\* tf_runner_startup: without the P2Pmsg kernel the run is a failure.
Startup ==
    /\ pc = "start"
    /\ \/ pc' = "between" /\ UNCHANGED exit
       \/ pc' = "done" /\ exit' = 1
    /\ UNCHANGED <<nSkipped, cases, counters, alive, result, history>>

BeginCase ==
    /\ pc = "between" /\ cases < MaxCases
    /\ pc' = "case" /\ cases' = cases + 1
    /\ baseline' = failures
    /\ caseHit' = FALSE
    /\ UNCHANGED <<nSkipped, failures, caseFailures, reg, alive, result, exit, hits, hitCases>>

SpawnHub(p) ==
    /\ pc = "case" /\ reg["main"] = NoReg /\ p \notin alive
    /\ alive' = alive \union {p}
    /\ UNCHANGED <<pc, nSkipped, cases, counters, result, exit, history>>

\* WaitForSingleObject(hThread, 3000) that saw the pump end; one that timed out
\* leaves it alive, which is a case ended without this step.
JoinHub(p) ==
    /\ pc = "case" /\ reg["main"] = NoReg /\ p \in alive /\ reg[p] = NoReg
    /\ alive' = alive \ {p}
    /\ UNCHANGED <<pc, nSkipped, cases, counters, result, exit, history>>

EndCase ==
    /\ pc = "case" /\ reg["main"] = NoReg
    /\ pc' = "between"
    /\ caseFailures' = IF failures > baseline THEN caseFailures + 1 ELSE caseFailures
    /\ hitCases' = IF caseHit THEN hitCases + 1 ELSE hitCases
    /\ UNCHANGED <<nSkipped, cases, failures, baseline, reg, alive, result, exit, hits, caseHit>>

\* tf_runner_finish reads failures once for the printed verdict ...
Summary ==
    /\ pc = "between" /\ pc' = "printed"
    /\ result' = IF failures # 0 THEN "FAIL" ELSE IF nSkipped # 0 THEN "INCOMPLETE" ELSE "PASS"
    /\ UNCHANGED <<nSkipped, cases, counters, alive, exit, history>>

\* Mutant: the code is the number of failed cases.
FinishOnCases ==
    /\ pc = "printed" /\ pc' = "done"
    /\ exit' = IF caseFailures # 0 THEN 1 ELSE IF nSkipped # 0 THEN 2 ELSE 0
    /\ UNCHANGED <<nSkipped, cases, counters, alive, result, history>>

\* ... and once more for the exit code.
Finish ==
    /\ pc = "printed" /\ pc' = "done"
    /\ exit' = IF failures # 0 THEN 1 ELSE IF nSkipped # 0 THEN 2 ELSE 0
    /\ UNCHANGED <<nSkipped, cases, counters, alive, result, history>>

-----------------------------------------------------------------------------
(* ++g_tf.failures, from tf_fail on main or from AssertReportHook anywhere *)

MayFail(t) == IF t = "main" THEN pc = "case" ELSE t \in alive

LoadFailures(t) ==
    /\ exit = Running /\ MayFail(t) /\ reg[t] = NoReg /\ hits < MaxHits
    /\ reg' = [reg EXCEPT ![t] = failures]
    /\ UNCHANGED <<pc, nSkipped, cases, failures, caseFailures, baseline, alive, result, exit,
                   history>>

\* Mutant: the hook clears what it folded in.
StoreReset(t) ==
    /\ exit = Running /\ reg[t] # NoReg
    /\ failures' = IF t = "main" THEN reg[t] + 1 ELSE 0
    /\ reg' = [reg EXCEPT ![t] = NoReg]
    /\ hits' = hits + 1
    /\ caseHit' = (caseHit \/ t = "main")
    /\ UNCHANGED <<pc, nSkipped, cases, caseFailures, baseline, alive, result, exit, hitCases>>

StoreFailures(t) ==
    /\ exit = Running /\ reg[t] # NoReg
    /\ failures' = reg[t] + 1
    /\ reg' = [reg EXCEPT ![t] = NoReg]
    /\ hits' = hits + 1
    /\ caseHit' = (caseHit \/ t = "main")
    /\ UNCHANGED <<pc, nSkipped, cases, caseFailures, baseline, alive, result, exit, hitCases>>

Fail(t) == LoadFailures(t) \/ StoreFailures(t)

Main == \/ Startup \/ BeginCase \/ EndCase \/ Summary \/ Finish
        \/ \E p \in Pumps : SpawnHub(p) \/ JoinHub(p)

Done == pc = "done" /\ UNCHANGED vars

Next == Main \/ (\E t \in Threads : Fail(t)) \/ Done

Spec == Init /\ [][Next]_vars

-----------------------------------------------------------------------------
(* Properties *)

TypeOK ==
    /\ pc \in {"start", "between", "case", "printed", "done"}
    /\ nSkipped \in 0..1
    /\ cases \in Nat /\ failures \in Nat /\ caseFailures \in Nat /\ baseline \in Nat
    /\ reg \in [Threads -> Nat \union {NoReg}]
    /\ alive \in SUBSET Pumps
    /\ result \in Results
    /\ exit \in {Running, 0, 1, 2}
    /\ hits \in Nat /\ caseHit \in BOOLEAN /\ hitCases \in Nat

\* Updates of the unlocked counter are lost, but a failure is never forgotten
\* altogether: no store can take the counter back to zero, so a run that
\* recorded anything never exits 0 (nor 2, "everything that ran passed").
NoFalseGreen == exit \in {0, 2} => hits = 0

\* The lost updates go one way: the counter never says more than was recorded.
NeverOverCounted == failures <= hits

\* The two reads of the summary may disagree, a straggling pump being free to
\* assert between them, but only to the safe side: what was printed FAIL is not
\* exited 0 or 2, and what exits 0 was printed PASS.
SummaryIsSafe ==
    /\ exit \in {0, 2} => result # "FAIL"
    /\ exit = 0 => result = "PASS"

\* TestFramework.h:36 says that caseFailures counts "cases with at least one
\* failed check".
CaseCountAtLeast == pc \in {"between", "printed", "done"} => caseFailures >= hitCases
=============================================================================
