-------------------------- MODULE LaddersEvidence ---------------------------
(***************************************************************************)
(* What can be told from a harness's text alone: which faults bar it from  *)
(* passing, whatever the machine does, and what main's sightings are of.   *)
(*                                                                         *)
(* Past a rung its patterns do not fit.  A fault is barred if one of them  *)
(* then must: main demands a reading that nothing on such a build can set, *)
(* or excludes one that such a build always sets.                          *)
(***************************************************************************)
EXTENDS Ladders

Steps(h, ops) == {i \in DOMAIN programs[h] : programs[h][i].op \in ops}

Asks(h, e)   == {i \in Steps(h, {"ask"})   : e \in programs[h][i].effects}
Clears(h, s) == {i \in Steps(h, {"clear"}) : s \in programs[h][i].signals}

ReadersOf(h, r) ==
    {i \in Steps(h, {"wait", "poll", "look"}) : programs[h][i].reading = r}

Sets(h, e) == Range(effects[h][e].signal)

\* The one step that reads r.
ReadAt(h, r, i) == ReadersOf(h, r) = {i}

\* A rung up to k that stops main if r is v.
Stopped(h, r, v, k) ==
    \E j \in Steps(h, {"rung"}) :
        /\ j <= k
        /\ Only(r, v) \in programs[h][j].patterns
        /\ \E i \in Steps(h, {"wait", "poll", "look"}) : i < j /\ ReadAt(h, r, i)

(***************************************************************************)
(* Effects that a build with the fault never delivers.  Four steps of      *)
(* after are enough for the harnesses; with more this bars less.           *)
(***************************************************************************)
Behind(h, E) == E \cup {e \in DOMAIN effects[h] : effects[h][e].after \cap E # {}}

Undone(h, f) ==
    Behind(h, Behind(h, Behind(h, Behind(h,
        {e \in DOMAIN effects[h] : f \in effects[h][e].unless}))))

\* What may have set s before step i.
Sources(h, f, s, i) ==
    {e \in DOMAIN effects[h] \ Undone(h, f) :
        s \in Sets(h, e) /\ \E a \in Asks(h, e) : a < i}

\* What e set is cleared before step i, after hubs that were asked for e are
\* closed, and e is not asked for again.
Erased(h, e, s, i) ==
    \E j \in Steps(h, {"shut"}), c \in Clears(h, s) :
        j < c /\ c < i /\ \A a \in Asks(h, e) : a < i => a < j

\* A wait before step i took what e had set: only e can have set it.
TakenAt(h, f, e, s, w, i) ==
    /\ w < i
    /\ programs[h][w].signal = s
    /\ ReadAt(h, programs[h][w].reading, w)
    /\ Sources(h, f, s, w) \subseteq {e}

\* Main waited for it and would have stopped without it.
Taken(h, f, e, s, i, k) ==
    \E w \in Steps(h, {"wait"}) :
        TakenAt(h, f, e, s, w, i) /\ Stopped(h, programs[h][w].reading, FALSE, k)

\* Nothing can have set what step i reads, if main is past rung k.
Nothing(h, f, i, k) ==
    \A e \in Sources(h, f, programs[h][i].signal, i) :
        \/ Erased(h, e, programs[h][i].signal, i)
        \/ Taken(h, f, e, programs[h][i].signal, i, k)

Unset(h, f, r, k) ==
    \E i \in Steps(h, {"wait", "poll"}) :
        i <= k /\ ReadAt(h, r, i) /\ Nothing(h, f, i, k)

\* Nothing resets s.
Sticky(h, s) ==
    /\ Clears(h, s) = {}
    /\ \A i \in Steps(h, {"wait"}) : programs[h][i].signal # s

\* Whatever step w saw, step i sees what came before it.
Confirms(h, f, w, i) ==
    /\ w < i
    /\ \A e \in Sources(h, f, programs[h][w].signal, w) :
        \E c \in effects[h][e].after : Sets(h, c) = {programs[h][i].signal}

\* The build answers wrong, or main has seen what follows from it.
Set(h, f, r, k) ==
    \/ \E i \in Steps(h, {"look"}) :
        i <= k /\ ReadAt(h, r, i) /\ f \in programs[h][i].faults
    \/ \E i \in Steps(h, {"poll"}), w \in Steps(h, {"wait", "poll"}) :
        /\ i <= k /\ ReadAt(h, r, i)
        /\ Sticky(h, programs[h][i].signal)
        /\ Confirms(h, f, w, i)
        /\ ReadAt(h, programs[h][w].reading, w)
        /\ Stopped(h, programs[h][w].reading, FALSE, k)

Readings(h) == {programs[h][i].reading : i \in Steps(h, {"wait", "poll", "look"})}

\* Main cannot stop with a pass at step i.
NoPassAt(h, f, i) ==
    /\ i \in Steps(h, {"arrange", "return"}) => programs[h][i].code # Pass
    /\ i \in Steps(h, {"rung"}) /\ programs[h][i].code = Pass =>
        \A p \in programs[h][i].patterns :
            \E r \in Readings(h) : p = Only(r, TRUE) /\ Unset(h, f, r, i - 1)

\* A build with fault f never gets past rung k.
Bars(h, f, k) ==
    /\ \E r \in Readings(h) :
        \/ Stopped(h, r, FALSE, k) /\ Unset(h, f, r, k)
        \/ Stopped(h, r, TRUE, k) /\ Set(h, f, r, k)
    /\ \A i \in 1..k : NoPassAt(h, f, i)

Barred(h, f) == \E k \in Steps(h, {"rung"}) : Bars(h, f, k)

(***************************************************************************)
(* What a reading that is TRUE comes from.                                 *)
(***************************************************************************)

\* The phase main is in at step i: what the last turn before i has set.
PhasesAt(h, i) ==
    LET turns == {j \in Steps(h, {"turn"}) : j < i}
    IN IF turns = {} THEN {1}
       ELSE {programs[h][j].phase : j \in {t \in turns : \A u \in turns : u <= t}}

\* The signal e sets in phase n.
SignalOf(h, e, n) ==
    LET s == effects[h][e].signal IN IF n <= Len(s) THEN s[n] ELSE s[1]

\* The signals e sets in the phases in which main asks for it.
OwnSignals(h, e) == UNION {{SignalOf(h, e, n) : n \in PhasesAt(h, a)} : a \in Asks(h, e)}

\* If what step w reads is set, something main has asked for sets s.
OwnBy(h, w, s) ==
    \A e \in DOMAIN effects[h] :
        programs[h][w].signal \in Sets(h, e) /\ (\E a \in Asks(h, e) : a < w) =>
            \E c \in {e} \cup effects[h][e].after : OwnSignals(h, c) \subseteq {s}

\* If main stops at step k and step i has read TRUE, it is main's own doing:
\* for what i has read itself, or for what main must have read to get to k.
OwnEvidence(h, i, k) ==
    \/ Stopped(h, programs[h][i].reading, TRUE, k - 1)
    \/ \E w \in Steps(h, {"wait", "poll"}) :
        /\ ReadAt(h, programs[h][w].reading, w)
        /\ w = i \/ Stopped(h, programs[h][w].reading, FALSE, k - 1)
        /\ OwnBy(h, w, programs[h][i].signal)

\* Where main stops with a pass.
Passes(h) == {k \in Steps(h, {"arrange", "rung", "return"}) : programs[h][k].code = Pass}

\* What step j reads is set, in its phase, by a build with one of these faults
\* only.
Convicts(h, j, faulty) ==
    /\ j \in Steps(h, {"look"}) => programs[h][j].faults \subseteq faulty
    /\ j \in Steps(h, {"wait", "poll"}) =>
        \A e \in DOMAIN effects[h] :
            /\ programs[h][j].signal \in OwnSignals(h, e)
            /\ \E a \in Asks(h, e) : a < j
            /\ ~Erased(h, e, programs[h][j].signal, j)
            => \E c \in {e} \cup effects[h][e].after : effects[h][c].given \cap faulty # {}

\* If pattern p of rung k is to fit, one of its readings convicts the build.
Sighted(h, k, p) ==
    \E r \in DOMAIN p :
        p[r] /\ \A j \in ReadersOf(h, r) : j < k => Convicts(h, j, programs[h][k].accused)

(***************************************************************************)
(* What the proofs assume of a table, and TLC finds in MCLadders's.        *)
(***************************************************************************)
WellFormed(h) ==
    /\ Len(programs[h]) \in Nat \ {0}
    /\ DOMAIN programs[h] = 1..Len(programs[h])
    /\ programs[h][Len(programs[h])].op = "return"
    /\ \A i \in DOMAIN programs[h] :
        LET s == programs[h][i] IN
        /\ s.op \in {"arrange", "rung", "return"} => s.code \in Nat
        /\ s.op = "ask" => s.effects \subseteq DOMAIN effects[h]
        /\ s.op = "turn" => s.phase \in Nat \ {0}
    /\ \A e \in DOMAIN effects[h] : effects[h][e].signal \in Seq(STRING) \ {<<>>}

ASSUME TableAssumption == \A h \in Harnesses : WellFormed(h)

ASSUME EvidenceAssumption ==
    \A h \in Harnesses : \A f \in Table[h].proves : Barred(h, f)

ASSUME OwnAssumption ==
    \A h \in Harnesses : \A k \in Passes(h) : \A i \in Steps(h, {"wait", "poll"}) :
        OwnEvidence(h, i, k)

ASSUME SightAssumption ==
    \A h \in Harnesses : \A k \in Steps(h, {"rung"}) : \A p \in programs[h][k].patterns :
        programs[h][k].accused # {} /\ (\E r \in DOMAIN p : p[r]) => Sighted(h, k, p)
=============================================================================
