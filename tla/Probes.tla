------------------------------- MODULE Probes -------------------------------
(***************************************************************************)
(* The programs that are about one mechanism each: one run of one of them, *)
(* of the unit-test runner, p2p_pumpbound, p2p_linkcost, the two-process   *)
(* test or teardown_stress.  They share the variables they have a common   *)
(* name for.                                                               *)
(***************************************************************************)
EXTENDS Integers, Sequences

CONSTANTS Pumps, MaxCases, MaxHits
CONSTANTS kPostCeiling, kMinCredible, Radix, Largest, Words, Incidental, Limits, Figures,
          MaxBase, MaxStrays
CONSTANTS kPostures, nCount, g_nWindow
CONSTANTS nTotal, nConc
CONSTANTS kHeadStart, kServerWait, kClientWait, kFlush, kJoin, kReap, kTimeout, kDelay

VARIABLES harness, pc, nExit, exit, build, wire
VARIABLES nSkipped, cases, failures, caseFailures, baseline, reg, alive, result, hits, caseHit,
          hitCases
VARIABLES word, sites, keeps, base, count, nPosted, live, strays
VARIABLES i, posted, g_nRecv, g_nInFlight, g_hDrain, g_hDone, g_hReady, acked, carol, left,
          row, handled
VARIABLES now, script, server, client, killed
VARIABLES nMade, hub, addr, names

Run == INSTANCE Runner
Pump == INSTANCE PumpBound
Cost == INSTANCE LinkCost
Alex == INSTANCE AlexTest
Stress == INSTANCE TeardownStress

ASSUME PumpsAssumption    == Run!PumpsAssumption
ASSUME BoundsAssumption   == Run!BoundsAssumption
ASSUME FiguresAssumption  == Pump!FiguresAssumption
ASSUME CredibleAssumption == Pump!CredibleAssumption
ASSUME CostAssumption     == Cost!CostAssumption
ASSUME ClockAssumption    == Alex!ClockAssumption
ASSUME StressAssumption   == Stress!StressAssumption

\* What only one program has.
runOwn == <<nSkipped, cases, failures, caseFailures, baseline, reg, alive, result, hits, caseHit,
            hitCases>>
pumpOwn == <<word, sites, keeps, base, count, nPosted, live, strays>>
costOwn == <<posted, g_nRecv, g_nInFlight, g_hDrain, g_hDone, g_hReady, acked, carol, left,
             row, handled>>
alexOwn == <<now, script, server, client, killed>>
stressOwn == <<nMade, hub, addr, names>>
vars == <<harness, pc, nExit, exit, build, wire, i, runOwn, pumpOwn, costOwn, alexOwn, stressOwn>>

\* What another program has and this one has not is 0.
NoRun ==
    /\ nSkipped = 0 /\ cases = 0 /\ failures = 0 /\ caseFailures = 0 /\ baseline = 0
    /\ reg = 0 /\ alive = 0 /\ result = 0 /\ hits = 0 /\ caseHit = 0 /\ hitCases = 0

NoPump ==
    /\ word = 0 /\ sites = 0 /\ keeps = 0 /\ base = 0 /\ count = 0 /\ nPosted = 0
    /\ live = 0 /\ strays = 0

NoCost ==
    /\ posted = 0 /\ g_nRecv = 0 /\ g_nInFlight = 0 /\ g_hDrain = 0
    /\ g_hDone = 0 /\ g_hReady = 0 /\ acked = 0 /\ carol = 0 /\ left = 0 /\ row = 0
    /\ handled = 0

NoAlex ==
    /\ now = 0 /\ script = 0 /\ server = 0 /\ client = 0 /\ killed = 0

NoStress == nMade = 0 /\ hub = 0 /\ addr = 0 /\ names = 0

Init ==
    \/ /\ harness = "runner" /\ Run!Init /\ NoPump /\ NoCost /\ NoAlex /\ NoStress
       /\ nExit = 0 /\ build = 0 /\ wire = 0 /\ i = 0
    \/ /\ harness = "pumpbound" /\ Pump!Init /\ NoRun /\ NoCost /\ NoAlex /\ NoStress
       /\ exit = 0 /\ build = 0 /\ wire = 0 /\ i = 0
    \/ harness = "linkcost" /\ Cost!Init /\ NoRun /\ NoPump /\ NoAlex /\ NoStress
    \/ /\ harness = "alex_test" /\ Alex!Init /\ NoRun /\ NoPump /\ NoCost /\ NoStress
       /\ pc = "none" /\ nExit = 0 /\ exit = 0 /\ i = 0
    \/ /\ harness = "stress" /\ Stress!Init /\ NoRun /\ NoPump /\ NoCost /\ NoAlex
       /\ exit = 0 /\ wire = 0

RunStep(A) ==
    /\ harness = "runner" /\ A
    /\ UNCHANGED <<harness, nExit, build, wire, i, pumpOwn, costOwn, alexOwn, stressOwn>>
PumpStep(A) ==
    /\ harness = "pumpbound" /\ A
    /\ UNCHANGED <<harness, exit, build, wire, i, runOwn, costOwn, alexOwn, stressOwn>>
CostStep(A) ==
    harness = "linkcost" /\ A /\ UNCHANGED <<harness, runOwn, pumpOwn, alexOwn, stressOwn>>
AlexStep(A) ==
    /\ harness = "alex_test" /\ A
    /\ UNCHANGED <<harness, pc, nExit, exit, i, runOwn, pumpOwn, costOwn, stressOwn>>
StressStep(A) ==
    harness = "stress" /\ A /\ UNCHANGED <<harness, exit, wire, runOwn, pumpOwn, costOwn, alexOwn>>

Next ==
    \/ RunStep(Run!Next) \/ PumpStep(Pump!Next) \/ CostStep(Cost!Next)
    \/ AlexStep(Alex!Next) \/ StressStep(Stress!Next)

\* The fairness of each.
Spec ==
    /\ Init /\ [][Next]_vars
    /\ WF_vars(PumpStep(Pump!Main))
    /\ WF_vars(CostStep(Cost!Main))
    /\ \A p \in Cost!Postures : WF_vars(CostStep(Cost!Carol(p)))
    /\ WF_vars(StressStep(Stress!Main))
    /\ \A c \in Stress!Hubs : WF_vars(StressStep(nExit = Stress!Running /\ Stress!Ended(c)))

-----------------------------------------------------------------------------
\* Every program's variables keep their types.
TypeOK ==
    /\ harness = "runner"    => Run!TypeOK
    /\ harness = "pumpbound" => Pump!TypeOK
    /\ harness = "linkcost"  => Cost!TypeOK
    /\ harness = "alex_test" => Alex!TypeOK
    /\ harness = "stress"    => Stress!TypeOK

\* The unit-test runner never turns a recorded failure into a green exit.
NoFalseGreen == harness = "runner" => Run!NoFalseGreen

\* What it prints and what it returns differ to the safe side only.
SummaryIsSafe == harness = "runner" => Run!SummaryIsSafe

\* A pass of p2p_pumpbound means that every text names the bound the first site's
\* guard enforced, digit for digit: only that site is filled.
PassIsTruth == harness = "pumpbound" => Pump!PassIsTruth

\* It means that no site lets in more than that.
NoneEnforcesMore == harness = "pumpbound" => Pump!NoneEnforcesMore

\* Its verdict is the right one up to both edges of what it can measure.
TrueAtTheEdges == harness = "pumpbound" => Pump!TrueAtTheEdges

\* OK from p2p_linkcost means that every posture's messages came, unless the
\* pump of an earlier one was left running.
OkIsComplete == harness = "linkcost" => Cost!OkIsComplete

\* Its window is never exceeded, and its counter never short, while no pump of an
\* earlier posture was left running.
WindowHolds == harness = "linkcost" => Cost!WindowHolds

\* No wakeup of its main thread is lost on a machine that is not slow.
OnlyLossStalls == harness = "linkcost" => Cost!OnlyLossStalls

\* A pass of the two-process test means that the message crossed.
PassMeansCrossed == harness = "alex_test" => Alex!PassMeansCrossed

\* Its server outwaits any client that gets to post.
WhoPostsIsHeard == harness = "alex_test" => Alex!WhoPostsIsHeard

\* Its script kills no server that has the message.
KillSparesSuccess == harness = "alex_test" => Alex!KillSparesSuccess

\* What is left of a batch of teardown_stress's clients has no other client's
\* address, and SUCCESS is said of every client.
BatchesDoNotMeet == harness = "stress" => Stress!BatchesDoNotMeet

\* The single-process harnesses return, also from a build that enforces no bound,
\* loses messages, answers no login or does not end a hub's thread in time.
MainReturns ==
    /\ harness = "pumpbound" => Pump!MainReturns
    /\ harness = "linkcost"  => Cost!MainReturns
    /\ harness = "stress"    => Stress!MainReturns
=============================================================================
