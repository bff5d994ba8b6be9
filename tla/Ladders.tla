------------------------------ MODULE Ladders -------------------------------
(***************************************************************************)
(* One run of one of the harnesses in Table, against one build.            *)
(*                                                                         *)
(* Main executes the harness's program.  The pump threads deliver the      *)
(* effects main has asked for, at any time and in any order their after    *)
(* sets allow, also after main has stopped waiting for them.               *)
(***************************************************************************)
EXTENDS HarnessSteps, Integers, FiniteSets, FiniteSetsExt

CONSTANTS Table,      \* function from the names of harnesses to their records
          MaxTrouble  \* the faults of a build and the waits that are too short
                      \* for the machine: together at most this many

VARIABLES build,     \* [harness, faults, slow]: fixed for the run
          pc,        \* the step main is at
          phase,     \* the harness's global phase counter
          asked,     \* the phase in which main asked for an effect
          done,      \* the phase in which a pump thread delivered it
          signals,   \* events, flags and counts that are set
          reads,     \* what main has read so far
          exit       \* Running, or the exit code main returned

mainVars == <<pc, phase, reads, exit>>
pumpVars == <<asked, done>>
vars     == <<build, mainVars, pumpVars, signals>>

\* f, with v for the members of S.
Note(f, S, v) == [x \in DOMAIN f \cup S |-> IF x \in S THEN v ELSE f[x]]

Running == -1
Pass    == 0

(***************************************************************************)
(* The build, and what it makes of the harness's requests.                 *)
(***************************************************************************)
Harnesses == DOMAIN Table

programs == [h \in Harnesses |-> Table[h].program]
effects  == [h \in Harnesses |-> Table[h].effects]
faults   == [h \in Harnesses |-> Table[h].faults]

\* What may differ between the builds a harness is run on.
probed == [h \in Harnesses |-> Table[h].faults \cup Table[h].quirks]

\* Where a machine may be too slow for the harness.
bounded ==
    [h \in Harnesses |-> {i \in DOMAIN programs[h] : programs[h][i].op \in {"wait", "rest"}}]

UpTo(n, S) == UNION {kSubset(k, S) : k \in 0..n}

\* A build misbehaves in few of the ways the harness looks for, on a machine on
\* which few waits may end too early.
Builds ==
    {b \in UNION {[harness : {h}, faults : UpTo(MaxTrouble, probed[h]),
                   slow : UpTo(MaxTrouble, bounded[h])] : h \in Harnesses} :
        Cardinality(b.faults) + Cardinality(b.slow) <= MaxTrouble}

Timely == build.slow = {}

Program == programs[build.harness]
Effects == effects[build.harness]
Step    == Program[pc]

\* The build does this, and its turn has come.
Deliverable(e) ==
    /\ Effects[e].after \subseteq DOMAIN done
    /\ Effects[e].unless \cap build.faults = {}
    /\ Effects[e].given \subseteq build.faults

Quiet == \A e \in DOMAIN asked \ DOMAIN done : ~Deliverable(e)

\* No wait ends while a pump still has something to do, unless it is a slow one.
MayTimeOut == pc \in build.slow \/ Quiet

Fits(pattern) ==
    \A r \in DOMAIN pattern : r \in DOMAIN reads /\ reads[r] = pattern[r]

RungFits == \E p \in Step.patterns : Fits(p)

Init ==
    /\ build \in Builds
    /\ pc = 1
    /\ phase = 1
    /\ asked = <<>>
    /\ done = <<>>
    /\ signals = {}
    /\ reads = <<>>
    /\ exit = Running

(***************************************************************************)
(* Main.                                                                   *)
(***************************************************************************)
At(op) == exit = Running /\ Step.op = op

GoOn == pc' = pc + 1 /\ UNCHANGED exit

Stop(code) == exit' = code /\ UNCHANGED pc

Read(value) == reads' = Note(reads, {Step.reading}, value)

Arranged ==
    /\ At("arrange")
    /\ GoOn \/ Stop(Step.code)
    /\ UNCHANGED <<build, phase, reads, pumpVars, signals>>

Asking ==
    /\ At("ask")
    /\ asked' = Note(asked, Step.effects, phase)
    /\ GoOn
    /\ UNCHANGED <<build, phase, reads, done, signals>>

\* The event is set: the wait resets it.
Signalled ==
    /\ At("wait")
    /\ Step.signal \in signals
    /\ signals' = signals \ {Step.signal}
    /\ Read(TRUE)
    /\ GoOn
    /\ UNCHANGED <<build, phase, pumpVars>>

TimedOut ==
    /\ At("wait")
    /\ Step.signal \notin signals
    /\ MayTimeOut
    /\ Read(FALSE)
    /\ GoOn
    /\ UNCHANGED <<build, phase, pumpVars, signals>>

\* Mutant: main looks whether anything is set.
PolledAny ==
    /\ At("poll")
    /\ Read(signals # {})
    /\ GoOn
    /\ UNCHANGED <<build, phase, pumpVars, signals>>

Polled ==
    /\ At("poll")
    /\ Read(Step.signal \in signals)
    /\ GoOn
    /\ UNCHANGED <<build, phase, pumpVars, signals>>

\* Mutant: main does not give the pumps their time.
SleptNot ==
    /\ At("rest")
    /\ GoOn
    /\ UNCHANGED <<build, phase, reads, pumpVars, signals>>

Slept ==
    /\ At("rest")
    /\ MayTimeOut
    /\ GoOn
    /\ UNCHANGED <<build, phase, reads, pumpVars, signals>>

\* Mutant: a flag of the last phase is still set in the next one.
ClearedNothing ==
    /\ At("clear")
    /\ GoOn
    /\ UNCHANGED <<build, phase, reads, pumpVars, signals>>

Cleared ==
    /\ At("clear")
    /\ signals' = signals \ Step.signals
    /\ GoOn
    /\ UNCHANGED <<build, phase, reads, pumpVars>>

Closed ==
    /\ At("shut")
    /\ asked' = [e \in DOMAIN done |-> asked[e]]
    /\ GoOn
    /\ UNCHANGED <<build, phase, reads, done, signals>>

Turned ==
    /\ At("turn")
    /\ phase' = Step.phase
    /\ GoOn
    /\ UNCHANGED <<build, reads, pumpVars, signals>>

Looked ==
    /\ At("look")
    /\ Read(Step.faults \cap build.faults # {})
    /\ GoOn
    /\ UNCHANGED <<build, phase, pumpVars, signals>>

\* Mutant: a rung that fits is reported, and main goes on.
ClimbedOn ==
    /\ At("rung")
    /\ GoOn
    /\ UNCHANGED <<build, phase, reads, pumpVars, signals>>

Climbed ==
    /\ At("rung")
    /\ IF RungFits THEN Stop(Step.code) ELSE GoOn
    /\ UNCHANGED <<build, phase, reads, pumpVars, signals>>

Returned ==
    /\ At("return")
    /\ Stop(Step.code)
    /\ UNCHANGED <<build, phase, reads, pumpVars, signals>>

Main ==
    \/ Arranged \/ Asking \/ Signalled \/ TimedOut \/ Polled \/ Slept
    \/ Cleared \/ Closed \/ Turned \/ Looked \/ Climbed \/ Returned

(***************************************************************************)
(* A pump thread runs the handler an effect ends in.                       *)
(***************************************************************************)
SignalIn(e, n) ==
    LET s == Effects[e].signal IN IF n <= Len(s) THEN s[n] ELSE s[1]

Deliver(e) ==
    /\ Deliverable(e)
    /\ done' = Note(done, {e}, phase)
    /\ signals' = signals \cup {SignalIn(e, phase)}
    /\ UNCHANGED <<build, mainVars, asked>>

Pumps == exit = Running /\ \E e \in DOMAIN asked \ DOMAIN done : Deliver(e)

\* The process has ended: only after main returned is there nothing to do.
Over == exit # Running /\ UNCHANGED vars

Next == Main \/ Pumps \/ Over

Spec == Init /\ [][Next]_vars

-----------------------------------------------------------------------------
Fails == {1} \cup (Nat \ 0..3)

Accuses == exit # Running /\ Step.op = "rung" /\ Step.accused # {}

Sound == build.faults \cap faults[build.harness] = {}

Guilty == Step.accused \cap build.faults # {}

\* An effect delivered in a later phase than the one it was asked for in.
Astray == \E e \in DOMAIN done : done[e] # asked[e]

TypeOK ==
    /\ build.harness \in Harnesses
    /\ build.faults \subseteq probed[build.harness]
    /\ build.slow \subseteq bounded[build.harness]
    /\ pc \in DOMAIN Program
    /\ phase \in Nat \ {0}
    /\ DOMAIN asked \subseteq DOMAIN Effects
    /\ DOMAIN done \subseteq DOMAIN asked
    /\ \A r \in DOMAIN reads : reads[r] \in BOOLEAN
    /\ exit \in {Running} \cup Nat

\* The build has a fault that a pass rules out on any machine.
Disproved == build.faults \cap Table[build.harness].proves # {}

Gate == INSTANCE GateVerdict WITH
            build  <- Disproved,
            Builds <- BOOLEAN,
            Good   <- {FALSE},
            exit   <- IF exit \in Fails THEN 1 ELSE exit

\* A pass is evidence.
PassIsEvidence == Gate!GateSpec

\* On a timely machine the verdict is the truth: a build passes if and only if
\* it is sound, unless a setup fails, and it is accused of a fault it has.
Discriminates ==
    Timely /\ exit # Running =>
        /\ exit = Pass => Sound
        /\ Sound => exit = Pass \/ Step.op = "arrange"
        /\ Accuses => Guilty

\* Seeing something proves it.
SightIsProof ==
    Accuses /\ ~Astray
    /\ (\E p \in Step.patterns : Fits(p) /\ \E r \in DOMAIN p : p[r]) => Guilty

\* Every reading a pass rests on comes from what main asked for.
EvidenceIsOwn ==
    exit = Pass =>
        \A i \in DOMAIN Program :
            Program[i].op \in {"wait", "poll"} /\ Fits(Only(Program[i].reading, TRUE)) =>
                \E e \in DOMAIN done : SignalIn(e, asked[e]) = Program[i].signal
=============================================================================
