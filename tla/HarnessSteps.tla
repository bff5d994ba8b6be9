---------------------------- MODULE HarnessSteps ----------------------------
(***************************************************************************)
(* The vocabulary in which the smaller harnesses are written down.         *)
(*                                                                         *)
(* Most gate harnesses have one shape: main arranges hubs and keys, posts  *)
(* something, waits a bounded time for an event a pump thread sets, and    *)
(* walks a ladder of ifs over what it saw.  A harness is a record          *)
(*   faults  : what a build may get wrong that the harness looks for,      *)
(*   proves  : those a pass rules out on any machine, however slow,        *)
(*   effects : what pump threads may do once main has asked for it,        *)
(*   program : main's steps, in order.                                     *)
(* Module Ladders runs such a record.                                      *)
(***************************************************************************)
EXTENDS Naturals, Sequences, TLC

(***************************************************************************)
(* Effects.  An effect sets a signal (one for each value of the harness's  *)
(* phase counter) on a build with all the faults in given and none of      *)
(* those in unless, after the effects in after.                            *)
(***************************************************************************)
Effect(signal, after, unless, given) ==
    [signal |-> signal, after |-> after, unless |-> unless, given |-> given]

\* What a sound build does.
Works(s, after, unless) == Effect(<<s>>, after, unless, {})

\* What only a build with all these faults does.
Breach(s, after, given, unless) == Effect(<<s>>, after, unless, given)

(***************************************************************************)
(* Main's steps.                                                           *)
(***************************************************************************)

\* Calls that may fail for reasons that are not the library's: return code.
Arrange(code) == [op |-> "arrange", code |-> code]

\* Hand work to the pump threads.
Ask(effects) == [op |-> "ask", effects |-> effects]

\* WaitForSingleObject on an auto-reset event: the reading says if it was set.
Wait(reading, signal) == [op |-> "wait", reading |-> reading, signal |-> signal]

\* Read a flag, a count or a manual-reset event now, leaving it as it is.
Poll(reading, signal) == [op |-> "poll", reading |-> reading, signal |-> signal]

\* Sleep long enough for the pumps to be done, on a machine that is not slow.
Rest == [op |-> "rest"]

\* Reset flags and counts before the next phase.
Clear(given) == [op |-> "clear", signals |-> given]

\* Close the phase's hubs: what they have not done yet they never will.
Shut == [op |-> "shut"]

\* Assign the global phase counter that handlers read.
Turn(n) == [op |-> "turn", phase |-> n]

\* Ask the library something it answers at once.  The reading is TRUE when the
\* answer is wrong, which is on the builds with one of these faults.
Look(reading, faults) == [op |-> "look", reading |-> reading, faults |-> faults]

\* A rung of the ladder: if any of the patterns fits the readings, return code
\* and accuse the build of one of these faults.
Rung(patterns, code, accused) ==
    [op |-> "rung", patterns |-> patterns, code |-> code, accused |-> accused]

Return(code) == [op |-> "return", code |-> code]

(***************************************************************************)
(* Patterns: part of the readings and what they have to be.                *)
(***************************************************************************)
Only(r, v) == [x \in {r} |-> v]

Seen(readings)    == {Only(r, TRUE)  : r \in readings}    \* one of them was seen
Missing(readings) == {Only(r, FALSE) : r \in readings}    \* one of them was not

\* The control did not hold, so nothing later can be judged.
Inconclusive(readings) == Rung(Missing(readings), 3, {})
=============================================================================
