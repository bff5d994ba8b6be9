--------------------------- MODULE LaddersProofs ----------------------------
(***************************************************************************)
(* That a pass is evidence, for every table whose texts bar the faults     *)
(* they claim to rule out, any number of faults and any number of waits    *)
(* that are too short for the machine; and that on a timely machine the    *)
(* verdict is the truth, for every table whose texts say so.               *)
(***************************************************************************)
EXTENDS LaddersTimely, TLAPS

H == build.harness

\* A build's parts are what its harness has.
LEMMA BuildsAreOfTable ==
    ASSUME NEW b \in Builds
    PROVE  /\ b.harness \in Harnesses
           /\ b.faults \subseteq probed[b.harness]
           /\ b.slow \subseteq bounded[b.harness]
<1>1. PICK h \in Harnesses :
        b \in [harness : {h}, faults : UpTo(MaxTrouble, probed[h]),
               slow : UpTo(MaxTrouble, bounded[h])]
  BY DEF Builds
<1>2. b.faults \subseteq probed[h] /\ b.slow \subseteq bounded[h]
  BY <1>1 DEF UpTo, kSubset
<1> QED
  BY <1>1, <1>2

LEMMA TypeInit == Init => TypeOK
<1> SUFFICES ASSUME Init
             PROVE  TypeOK
  OBVIOUS
<1>1. H \in Harnesses
  BY BuildsAreOfTable DEF Init, H
<1>2. pc \in DOMAIN Program
  BY <1>1, TableAssumption DEF Init, Program, WellFormed, H
<1> QED
  BY <1>1, <1>2, BuildsAreOfTable DEF Init, TypeOK, H, Running

\* Only a return can be a program's last step.
LEMMA NextStepExists ==
    ASSUME TypeOK, Step.op # "return"
    PROVE  pc + 1 \in DOMAIN Program
<1>1. /\ Len(Program) \in Nat \ {0}
      /\ DOMAIN Program = 1..Len(Program)
      /\ Program[Len(Program)].op = "return"
  BY TableAssumption DEF TypeOK, WellFormed, Program
<1> QED
  BY <1>1 DEF TypeOK, Step

\* What a step's code and phase can be.
LEMMA StepsAreWellFormed ==
    ASSUME TypeOK
    PROVE  /\ At("arrange") \/ At("rung") \/ At("return") => Step.code \in Nat
           /\ At("ask") => Step.effects \subseteq DOMAIN Effects
           /\ At("turn") => Step.phase \in Nat \ {0}
  BY TableAssumption DEF TypeOK, WellFormed, Program, Effects, Step, At

LEMMA TypeNext == TypeOK /\ [Next]_vars => TypeOK'
<1> SUFFICES ASSUME TypeOK, [Next]_vars
             PROVE  TypeOK'
  OBVIOUS
<1> USE NextStepExists, StepsAreWellFormed
    DEF TypeOK, mainVars, pumpVars, Program, Effects, GoOn, Stop
<1>1. CASE Arranged
  BY <1>1 DEF Arranged, At
<1>2. CASE Asking
  BY <1>2 DEF Asking, At, Note
<1>3. CASE Signalled \/ TimedOut \/ Polled \/ Looked
  <2>1. PICK v \in BOOLEAN : Read(v)
    <3>1. CASE Signalled
      BY <3>1 DEF Signalled
    <3>2. CASE TimedOut
      BY <3>2 DEF TimedOut
    <3>3. CASE Polled
      BY <3>3, (Step.signal \in signals) \in BOOLEAN DEF Polled
    <3>4. CASE Looked
      BY <3>4, (Step.faults \cap build.faults # {}) \in BOOLEAN DEF Looked
    <3> QED
      BY <1>3, <3>1, <3>2, <3>3, <3>4
  <2>2. \A r \in DOMAIN reads' : reads'[r] \in BOOLEAN
    BY <2>1 DEF Read, Note
  <2> QED
    BY <1>3, <2>2 DEF Signalled, TimedOut, Polled, Looked, At
<1>4. CASE Slept \/ Cleared
  BY <1>4 DEF Slept, Cleared, At
<1>5. CASE Closed
  BY <1>5 DEF Closed, At
<1>6. CASE Turned
  BY <1>6 DEF Turned, At
<1>7. CASE Climbed \/ Returned
  BY <1>7 DEF Climbed, Returned, At
<1>8. CASE Pumps
  BY <1>8 DEF Pumps, Deliver, Note
<1>9. CASE Over \/ UNCHANGED vars
  BY <1>9 DEF Over, vars
<1> QED
  BY <1>1, <1>2, <1>3, <1>4, <1>5, <1>6, <1>7, <1>8, <1>9 DEF Next, Main

\* Main is at a step its harness has, and what it asked for, saw and read is
\* what the harness has: for every table that is well formed.
THEOREM Typing == Spec => []TypeOK
<1>1. Init => TypeOK
  BY TypeInit
<1>2. TypeOK /\ [Next]_vars => TypeOK'
  BY TypeNext
<1> QED
  BY <1>1, <1>2, PTL DEF Spec

(***************************************************************************)
(* What the pumps have done and what main has read, on a build with f.     *)
(***************************************************************************)
Reading(i) == programs[H][i].reading

Readers == Steps(H, {"wait", "poll", "look"})

\* A delivered effect was, and stays, deliverable.
Lawful == \A e \in DOMAIN done : Deliverable(e)

\* Main has asked for what the pumps do, and not closed the hubs since.
Pending ==
    /\ \A e \in DOMAIN asked : \E a \in Asks(H, e) : a < pc
    /\ \A e \in DOMAIN asked \ DOMAIN done : \E a \in Asks(H, e) :
        a < pc /\ \A j \in Steps(H, {"shut"}) : j < a \/ pc <= j

\* What nothing resets is set as soon as its effect is delivered.
Stays ==
    \A e \in DOMAIN done : \A s \in Sets(H, e) :
        Sets(H, e) = {s} /\ Sticky(H, s) => s \in signals

\* At step i, e can be what set s.
Own(f, e, s, i) ==
    /\ e \in DOMAIN done
    /\ s \in Sets(H, e)
    /\ \E a \in Asks(H, e) : a < i
    /\ ~Erased(H, e, s, i)
    /\ \A w \in Steps(H, {"wait"}) : TakenAt(H, f, e, s, w, i) => ~reads[Reading(w)]

\* What a wait took is done.
TakenIsDone(f) ==
    \A w \in Steps(H, {"wait"}) : \A e \in DOMAIN Effects :
        TakenAt(H, f, e, programs[H][w].signal, w, pc) /\ reads[Reading(w)] =>
            e \in DOMAIN done

Sourced(f) == \A s \in signals : \E e \in DOMAIN done : Own(f, e, s, pc)

\* Main has what it has read.
Recorded == \A i \in Readers : i < pc => Reading(i) \in DOMAIN reads

\* What main knows from the step i that has read something once and for all.
KnownFrom(f, i) ==
    /\ i \in Steps(H, {"look"}) =>
        reads[Reading(i)] = (programs[H][i].faults \cap build.faults # {})
    /\ i \notin Steps(H, {"look"}) /\ reads[Reading(i)] =>
        \E e \in DOMAIN done : Own(f, e, programs[H][i].signal, i)
    /\ \A w \in Steps(H, {"wait", "poll"}) :
        /\ i \in Steps(H, {"poll"})
        /\ Sticky(H, programs[H][i].signal)
        /\ Confirms(H, f, w, i)
        /\ ReadAt(H, Reading(w), w)
        /\ reads[Reading(w)]
        => reads[Reading(i)]

Known(f) ==
    \A i \in Readers : i < pc /\ ReadAt(H, Reading(i), i) => KnownFrom(f, i)

\* Main is past the rungs up to k: none of them fitted.
PastRungs(k) ==
    \A r \in Readings(H) : \A v \in BOOLEAN : Stopped(H, r, v, k) => reads[r] # v

BarsStop(f) ==
    \A k \in Steps(H, {"rung"}) : Bars(H, f, k) => pc <= k /\ exit # Pass

FaultInv(f) ==
    TakenIsDone(f) /\ Sourced(f) /\ Known(f) /\ BarsStop(f)

IInv ==
    /\ TypeOK /\ Lawful /\ Pending /\ Stays /\ Recorded /\ PastRungs(pc - 1)
    /\ \A f \in build.faults : FaultInv(f)

(***************************************************************************)
(* Lemmas on one state.                                                    *)
(***************************************************************************)
LEMMA BehindIsUndone ==
    ASSUME TypeOK, Lawful, NEW E, DOMAIN done \cap E = {}
    PROVE  DOMAIN done \cap Behind(H, E) = {}
  BY DEF Lawful, Deliverable, Behind, Effects, H

\* A build with f has not done what f keeps it from doing.
LEMMA UndoneIsUndone ==
    ASSUME TypeOK, Lawful, NEW f \in build.faults, NEW e \in DOMAIN done
    PROVE  e \notin Undone(H, f)
<1> DEFINE E == {d \in DOMAIN effects[H] : f \in effects[H][d].unless}
<1>1. DOMAIN done \cap E = {}
  BY DEF Lawful, Deliverable, Effects, H
<1> HIDE DEF E
<1>2. DOMAIN done \cap Behind(H, Behind(H, Behind(H, Behind(H, E)))) = {}
  BY <1>1, BehindIsUndone
<1> QED
  BY <1>2 DEF Undone, E

\* What set s is one of the sources of s that the text names.
LEMMA OwnIsSource ==
    ASSUME TypeOK, Lawful, NEW f \in build.faults, NEW s, NEW i,
           NEW e \in DOMAIN done, Own(f, e, s, i)
    PROVE  e \in Sources(H, f, s, i)
<1>1. e \in DOMAIN effects[H]
  BY DEF TypeOK, Effects, H
<1> QED
  BY <1>1, UndoneIsUndone DEF Own, Sources

\* At a rung, a reading that nothing can have set is FALSE.
LEMMA UnsetIsFalse ==
    ASSUME TypeOK, Lawful, Recorded, NEW f \in build.faults, Known(f),
           pc \in Steps(H, {"rung"}), NEW k \in Int, k <= pc, PastRungs(k),
           NEW r \in Readings(H), Unset(H, f, r, k)
    PROVE  r \in DOMAIN reads /\ reads[r] = FALSE
<1>1. PICK i \in Steps(H, {"wait", "poll"}) :
        i <= k /\ ReadAt(H, r, i) /\ Nothing(H, f, i, k)
  BY DEF Unset
<1>2. /\ i \in Readers /\ i \in Int /\ pc \in Int
      /\ i \notin Steps(H, {"look"}) /\ Reading(i) = r
      /\ i < pc
  <2>1. i \in Nat /\ pc \in Nat
    BY TableAssumption DEF Steps, WellFormed, TypeOK, H
  <2>2. i # pc
    BY DEF Steps
  <2>3. i \in ReadersOf(H, r)
    BY <1>1 DEF ReadAt
  <2> QED
    BY <1>1, <2>1, <2>2, <2>3 DEF Steps, Readers, ReadersOf, Reading
<1>3. KnownFrom(f, i)
  BY <1>1, <1>2 DEF Known
<1>4. ~reads[r]
  <2> SUFFICES ASSUME reads[r]
               PROVE  FALSE
    OBVIOUS
  <2>1. PICK e \in DOMAIN done : Own(f, e, programs[H][i].signal, i)
    BY <1>2, <1>3 DEF KnownFrom
  <2>2. e \in Sources(H, f, programs[H][i].signal, i)
    BY <2>1, OwnIsSource
  <2>3. Taken(H, f, e, programs[H][i].signal, i, k)
    BY <1>1, <2>1, <2>2 DEF Nothing, Own
  <2>4. PICK w \in Steps(H, {"wait"}) :
          /\ TakenAt(H, f, e, programs[H][i].signal, w, i)
          /\ Stopped(H, Reading(w), FALSE, k)
    BY <2>3 DEF Taken, Reading
  <2>5. w \in Readers /\ w < pc /\ Reading(w) \in Readings(H)
    <3>1. w \in Nat
      BY TableAssumption DEF Steps, WellFormed, TypeOK, H
    <3> QED
      BY <1>2, <2>4, <3>1 DEF TakenAt, Steps, Readers, Readings, Reading
  <2>6. reads[Reading(w)] # FALSE
    BY <2>4, <2>5 DEF PastRungs
  <2>7. Reading(w) \in DOMAIN reads
    BY <2>5 DEF Recorded
  <2>8. ~reads[Reading(w)]
    BY <2>1, <2>4 DEF Own
  <2> QED
    BY <2>6, <2>7, <2>8 DEF TypeOK
<1> QED
  BY <1>2, <1>4 DEF Recorded, TypeOK

\* At a rung, a reading that is bound to be TRUE is.
LEMMA SetIsTrue ==
    ASSUME TypeOK, Lawful, Recorded, NEW f \in build.faults, Known(f),
           pc \in Steps(H, {"rung"}), NEW k \in Int, k <= pc, PastRungs(k),
           NEW r \in Readings(H), Set(H, f, r, k)
    PROVE  reads[r] = TRUE
<1>1. \A i \in Readers : i \in Nat /\ pc \in Nat /\ i # pc
  BY TableAssumption DEF Steps, Readers, WellFormed, TypeOK, H
<1>2. \A i \in Readers : ReadAt(H, r, i) => Reading(i) = r
  BY DEF ReadAt, ReadersOf, Reading
<1>3. CASE \E i \in Steps(H, {"look"}) :
        i <= k /\ ReadAt(H, r, i) /\ f \in programs[H][i].faults
  <2>1. PICK i \in Steps(H, {"look"}) :
          i <= k /\ ReadAt(H, r, i) /\ f \in programs[H][i].faults
    BY <1>3
  <2>2. i \in Readers
    BY DEF Readers, Steps
  <2>3. Reading(i) = r /\ i < pc
    BY <1>1, <1>2, <2>1, <2>2
  <2>4. KnownFrom(f, i)
    BY <2>1, <2>2, <2>3 DEF Known
  <2> QED
    BY <2>1, <2>3, <2>4 DEF KnownFrom
<1>4. CASE \E i \in Steps(H, {"poll"}), w \in Steps(H, {"wait", "poll"}) :
        /\ i <= k /\ ReadAt(H, r, i)
        /\ Sticky(H, programs[H][i].signal)
        /\ Confirms(H, f, w, i)
        /\ ReadAt(H, programs[H][w].reading, w)
        /\ Stopped(H, programs[H][w].reading, FALSE, k)
  <2>1. PICK i \in Steps(H, {"poll"}), w \in Steps(H, {"wait", "poll"}) :
          /\ i <= k /\ ReadAt(H, r, i)
          /\ Sticky(H, programs[H][i].signal)
          /\ Confirms(H, f, w, i)
          /\ ReadAt(H, Reading(w), w)
          /\ Stopped(H, Reading(w), FALSE, k)
    BY <1>4 DEF Reading
  <2>2. i \in Readers /\ w \in Readers
    BY DEF Readers, Steps
  <2>3. Reading(i) = r /\ i < pc
    BY <1>1, <1>2, <2>1, <2>2
  <2>4. w < pc
    BY <1>1, <2>1, <2>2, <2>3 DEF Confirms
  <2>5. Reading(w) \in DOMAIN reads /\ Reading(i) \in DOMAIN reads
    BY <2>2, <2>3, <2>4 DEF Recorded
  <2>6. Reading(w) \in Readings(H)
    BY <2>2 DEF Readings, Readers, Reading
  <2>7. reads[Reading(w)]
    BY <2>1, <2>5, <2>6 DEF PastRungs, TypeOK
  <2>8. KnownFrom(f, i)
    BY <2>1, <2>2, <2>3 DEF Known
  <2>9. reads[Reading(i)]
    BY <2>1, <2>7, <2>8 DEF KnownFrom
  <2> QED
    BY <2>3, <2>5, <2>9 DEF TypeOK
<1> QED
  BY <1>3, <1>4 DEF Set

\* A build with f is not past a rung that bars f.
LEMMA BarsHold ==
    ASSUME TypeOK, Lawful, Recorded, NEW f \in build.faults, Known(f),
           pc \in Steps(H, {"rung"}), Bars(H, f, pc), PastRungs(pc)
    PROVE  FALSE
<1>1. pc \in Int /\ pc <= pc
  BY TableAssumption DEF Steps, WellFormed, TypeOK, H
<1>2. PICK r \in Readings(H) :
        \/ Stopped(H, r, FALSE, pc) /\ Unset(H, f, r, pc)
        \/ Stopped(H, r, TRUE, pc) /\ Set(H, f, r, pc)
  BY DEF Bars
<1>3. CASE Stopped(H, r, FALSE, pc) /\ Unset(H, f, r, pc)
  <2>1. reads[r] = FALSE
    BY <1>1, <1>3, UnsetIsFalse
  <2> QED
    BY <1>3, <2>1 DEF PastRungs
<1>4. CASE Stopped(H, r, TRUE, pc) /\ Set(H, f, r, pc)
  <2>1. reads[r] = TRUE
    BY <1>1, <1>4, SetIsTrue
  <2> QED
    BY <1>4, <2>1 DEF PastRungs
<1> QED
  BY <1>2, <1>3, <1>4

(***************************************************************************)
(* What a step leaves as it is.                                            *)
(***************************************************************************)

\* Main goes on to the next step or stays where it is, having read nothing.
LEMMA Frame ==
    ASSUME TypeOK, [Next]_vars
    PROVE  /\ build' = build /\ H' = H
           /\ \/ pc' = pc + 1 /\ exit' = exit /\ done' = done /\ exit = Running
              \/ pc' = pc /\ reads' = reads
           /\ DOMAIN done \subseteq DOMAIN done'
<1>1. build' = build
  BY DEF Next, Main, Arranged, Asking, Signalled, TimedOut, Polled, Slept, Cleared, Closed, Turned,
     Looked, Climbed, Returned, Pumps, Deliver, Over, vars
<1>2. \/ pc' = pc + 1 /\ exit' = exit /\ done' = done /\ exit = Running
      \/ pc' = pc /\ reads' = reads
  BY DEF Next, Main, Arranged, Asking, Signalled, TimedOut, Polled, Slept, Cleared, Closed, Turned,
     Looked, Climbed, Returned, Pumps, Deliver, Over, vars, mainVars, pumpVars, GoOn, Stop, At
<1>3. DOMAIN done \subseteq DOMAIN done'
  BY DEF Next, Main, Arranged, Asking, Signalled, TimedOut, Polled, Slept, Cleared, Closed, Turned,
     Looked, Climbed, Returned, Pumps, Deliver, Over, vars, mainVars, pumpVars, Note
<1> QED
  BY <1>1, <1>2, <1>3 DEF H

\* What one step alone reads is not read again.
LEMMA ReadIsKept ==
    ASSUME TypeOK, [Next]_vars, NEW i \in Readers, i # pc, ReadAt(H, Reading(i), i),
           Reading(i) \in DOMAIN reads
    PROVE  Reading(i) \in DOMAIN reads' /\ reads'[Reading(i)] = reads[Reading(i)]
<1>1. CASE reads' = reads
  BY <1>1
<1>2. CASE Signalled \/ TimedOut \/ Polled \/ Looked
  <2>1. pc \in Readers /\ Step = programs[H][pc]
    BY <1>2 DEF Signalled, TimedOut, Polled, Looked, At, Readers, Steps, H, TypeOK, Program, Step
  <2>2. Step.reading # Reading(i)
    BY <2>1 DEF ReadAt, ReadersOf, Readers
  <2>3. PICK v : Read(v)
    BY <1>2 DEF Signalled, TimedOut, Polled, Looked
  <2> QED
    BY <2>2, <2>3 DEF Read, Note
<1> QED
  BY <1>1, <1>2 DEF Next, Main, Arranged, Asking, Slept, Cleared, Closed, Turned, Climbed, Returned,
     Pumps, Deliver, Over, vars, mainVars

\* The numbers of the steps, and what main's step is when it is none of some.
LEMMA StepNumbers ==
    ASSUME TypeOK
    PROVE  /\ DOMAIN programs[H] \subseteq Nat \ {0}
           /\ pc \in DOMAIN programs[H]
           /\ Step = programs[H][pc]
  BY TableAssumption DEF WellFormed, TypeOK, H, Program, Step

\* A delivery sets one of its effect's signals.
LEMMA SignalIsSet ==
    ASSUME TypeOK, NEW e \in DOMAIN Effects
    PROVE  SignalIn(e, phase) \in Sets(H, e)
<1>1. Effects[e].signal \in Seq(STRING) /\ Effects[e].signal # <<>>
  BY TableAssumption DEF WellFormed, TypeOK, Effects
<1>2. /\ 1 \in DOMAIN Effects[e].signal
      /\ phase <= Len(Effects[e].signal) => phase \in DOMAIN Effects[e].signal
  BY <1>1 DEF TypeOK
<1> QED
  BY <1>2 DEF SignalIn, Sets, Effects, H, Range

(***************************************************************************)
(* The invariant, step by step.                                            *)
(***************************************************************************)
LEMMA LawfulStep ==
    ASSUME TypeOK, Lawful, [Next]_vars
    PROVE  Lawful'
<1>1. /\ build' = build /\ DOMAIN done \subseteq DOMAIN done'
      /\ \A e \in DOMAIN done' : Deliverable(e)
  <2>1. CASE Pumps
    BY <2>1, Frame DEF Lawful, Pumps, Deliver, Note
  <2>2. CASE Main \/ Over \/ UNCHANGED vars
    BY <2>2, Frame DEF Lawful, Main, Arranged, Asking, Signalled, TimedOut, Polled, Slept, Cleared,
       Closed, Turned, Looked, Climbed, Returned, Over, vars, pumpVars
  <2> QED
    BY <2>1, <2>2 DEF Next
<1> QED
  BY <1>1 DEF Lawful, Deliverable, Effects

LEMMA PendingStep ==
    ASSUME TypeOK, TypeOK', Pending, [Next]_vars
    PROVE  Pending'
<1>1. H' = H /\ pc \in Nat /\ pc \in DOMAIN programs[H] /\ Step = programs[H][pc]
      /\ \A j \in Steps(H, {"shut"}) : j \in Nat
  BY StepNumbers, Frame DEF Steps
<1>2. CASE pc' = pc /\ asked' = asked
  BY <1>1, <1>2, Frame DEF Pending
<1>3. CASE Asking
  <2>1. pc \in Steps(H, {"ask"}) /\ pc \notin Steps(H, {"shut"}) /\ pc' = pc + 1
    BY <1>1, <1>3 DEF Asking, At, GoOn, Steps
  <2>2. DOMAIN asked' = DOMAIN asked \cup Step.effects /\ done' = done
    BY <1>3 DEF Asking, Note
  <2>3. \A e \in Step.effects : pc \in Asks(H, e)
    BY <1>1, <2>1 DEF Asks
  <2>4. \A j \in Steps(H, {"shut"}) : j < pc \/ pc + 1 <= j
    BY <1>1, <2>1
  <2>5. ASSUME NEW e \in DOMAIN asked'
        PROVE  \E a \in Asks(H, e) : a < pc + 1
    <3>1. CASE e \in Step.effects
      BY <1>1, <2>3, <3>1
    <3>2. CASE e \in DOMAIN asked
      <4>1. PICK a \in Asks(H, e) : a < pc
        BY <3>2 DEF Pending
      <4>2. a \in Nat
        BY StepNumbers DEF Asks, Steps
      <4> QED
        BY <1>1, <4>1, <4>2
    <3> QED
      BY <2>2, <3>1, <3>2
  <2>6. ASSUME NEW e \in DOMAIN asked' \ DOMAIN done
        PROVE  \E a \in Asks(H, e) :
                  a < pc + 1 /\ \A j \in Steps(H, {"shut"}) : j < a \/ pc + 1 <= j
    <3>1. CASE e \in Step.effects
      BY <1>1, <2>3, <2>4, <3>1
    <3>2. CASE e \notin Step.effects
      <4>1. PICK a \in Asks(H, e) :
              a < pc /\ \A j \in Steps(H, {"shut"}) : j < a \/ pc <= j
        BY <2>2, <2>6, <3>2 DEF Pending
      <4>2. a \in Nat
        BY StepNumbers DEF Asks, Steps
      <4>3. ASSUME NEW j \in Steps(H, {"shut"})
            PROVE  j < a \/ pc + 1 <= j
        BY <1>1, <2>4, <4>1, <4>2
      <4> QED
        BY <1>1, <4>1, <4>2, <4>3
    <3> QED
      BY <3>1, <3>2
  <2> QED
    BY <1>1, <2>1, <2>2, <2>5, <2>6 DEF Pending
<1>4. CASE Closed
  BY <1>1, <1>4, StepNumbers DEF Closed, GoOn, Pending, Asks, Steps, TypeOK
<1>5. CASE pc' = pc + 1 /\ asked' = asked /\ done' = done /\ pc \notin Steps(H, {"shut"})
  <2>1. \A e : \A a \in Asks(H, e) : a \in Nat
    BY StepNumbers DEF Asks, Steps
  <2>2. \A j \in Steps(H, {"shut"}) : j < pc \/ pc + 1 <= j
    BY <1>1, <1>5
  <2>3. ASSUME NEW e \in DOMAIN asked
        PROVE  \E a \in Asks(H, e) : a < pc + 1
    BY <1>1, <2>1 DEF Pending
  <2>4. ASSUME NEW e \in DOMAIN asked \ DOMAIN done
        PROVE  \E a \in Asks(H, e) :
                  a < pc + 1 /\ \A j \in Steps(H, {"shut"}) : j < a \/ pc + 1 <= j
    BY <1>1, <2>1, <2>2 DEF Pending
  <2> QED
    BY <1>1, <1>5, <2>3, <2>4 DEF Pending
<1>6. Asking \/ Closed \/ (pc' = pc /\ asked' = asked)
        \/ (pc' = pc + 1 /\ asked' = asked /\ done' = done /\ pc \notin Steps(H, {"shut"}))
  BY <1>1 DEF Next, Main, Arranged, Signalled, TimedOut, Polled, Slept, Cleared, Turned,
     Looked, Climbed, Returned, Pumps, Deliver, Over, vars, mainVars, pumpVars, GoOn, Stop, At, Steps
<1> QED
  BY <1>2, <1>3, <1>4, <1>5, <1>6

LEMMA StaysStep ==
    ASSUME TypeOK, Stays, [Next]_vars
    PROVE  Stays'
<1>1. H' = H /\ pc \in DOMAIN programs[H] /\ Step = programs[H][pc]
  BY StepNumbers, Frame
<1>2. CASE done' = done /\ signals' = signals
  BY <1>1, <1>2 DEF Stays
<1>3. CASE Signalled
  <2>1. \A s : Sticky(H, s) => s # Step.signal
    BY <1>1, <1>3 DEF Signalled, At, Sticky, Steps
  <2> QED
    BY <1>1, <1>3, <2>1 DEF Signalled, Stays, pumpVars
<1>4. CASE Cleared
  <2>1. \A s : Sticky(H, s) => s \notin Step.signals
    BY <1>1, <1>4 DEF Cleared, At, Sticky, Steps, Clears
  <2> QED
    BY <1>1, <1>4, <2>1 DEF Cleared, Stays, pumpVars
<1>5. CASE Pumps
  <2>1. PICK e \in DOMAIN asked \ DOMAIN done : Deliver(e)
    BY <1>5 DEF Pumps
  <2>2. SignalIn(e, phase) \in Sets(H, e)
    BY <2>1, SignalIsSet DEF TypeOK
  <2>3. DOMAIN done' = DOMAIN done \cup {e} /\ signals' = signals \cup {SignalIn(e, phase)}
    BY <2>1 DEF Deliver, Note
  <2> QED
    BY <1>1, <2>2, <2>3 DEF Stays
<1> QED
  BY <1>2, <1>3, <1>4, <1>5 DEF Next, Main, Arranged, Asking, TimedOut, Polled, Slept, Closed, Turned,
     Looked, Climbed, Returned, Over, vars, pumpVars

LEMMA MainMoves ==
    ASSUME TypeOK, [Next]_vars, pc' = pc + 1
    PROVE  Main
<1>1. pc' # pc
  BY StepNumbers
<1> QED
  BY <1>1 DEF Next, Pumps, Deliver, Over, vars, mainVars

\* A step that reads goes on only by reading.
LEMMA ReaderReads ==
    ASSUME TypeOK, [Next]_vars, pc \in Readers, pc' = pc + 1
    PROVE  /\ Signalled \/ TimedOut \/ Polled \/ Looked
           /\ Step.reading = Reading(pc)
<1>1. pc \in Nat /\ Step = programs[H][pc]
  BY StepNumbers
<1>2. Step.op \in {"wait", "poll", "look"}
  BY <1>1 DEF Readers, Steps
<1>3. Main
  BY MainMoves
<1>4. ~At("arrange") /\ ~At("ask") /\ ~At("rest") /\ ~At("clear") /\ ~At("shut") /\ ~At("turn")
      /\ ~At("rung") /\ ~At("return")
  BY <1>2 DEF At
<1>5. Signalled \/ TimedOut \/ Polled \/ Looked
  BY <1>3, <1>4 DEF Main, Arranged, Asking, Slept, Cleared, Closed, Turned, Climbed, Returned
<1> QED
  BY <1>1, <1>5 DEF Reading

LEMMA RecordedStep ==
    ASSUME TypeOK, Recorded, [Next]_vars
    PROVE  Recorded'
<1>1. /\ H' = H /\ pc \in Nat /\ Step = programs[H][pc]
      /\ \A i \in Readers : i \in Nat
  BY StepNumbers, Frame DEF Readers, Steps
<1>2. DOMAIN reads \subseteq DOMAIN reads'
  BY DEF Next, Main, Arranged, Asking, Signalled, TimedOut, Polled, Slept, Cleared, Closed, Turned,
     Looked, Climbed, Returned, Pumps, Deliver, Over, vars, mainVars, Read, Note
<1>3. pc' = pc + 1 /\ pc \in Readers => Reading(pc) \in DOMAIN reads'
  BY ReaderReads DEF Signalled, TimedOut, Polled, Looked, Read, Note
<1>4. Readers' = Readers /\ \A i : Reading(i)' = Reading(i)
  BY <1>1 DEF Readers, Reading
<1> QED
  BY <1>1, <1>2, <1>3, <1>4, Frame DEF Recorded

\* What e did stays what may have set s.
LEMMA OwnIsKept ==
    ASSUME TypeOK, Recorded, [Next]_vars, NEW f, NEW e, NEW s, NEW i \in Nat, i <= pc,
           Own(f, e, s, i)
    PROVE  Own(f, e, s, i)'
<1>1. H' = H /\ DOMAIN done \subseteq DOMAIN done' /\ pc \in Nat
  BY StepNumbers, Frame
<1>2. ASSUME NEW w \in Steps(H, {"wait"}), TakenAt(H, f, e, s, w, i)
      PROVE  ~reads'[Reading(w)]
  <2>1. w \in Readers /\ w \in Nat /\ w < pc
    BY <1>1, <1>2, StepNumbers DEF TakenAt, Readers, Steps
  <2>2. ReadAt(H, Reading(w), w)
    BY <1>2 DEF TakenAt, Reading
  <2>3. reads'[Reading(w)] = reads[Reading(w)]
    BY <1>1, <2>1, <2>2, ReadIsKept DEF Recorded
  <2> QED
    BY <1>2, <2>3 DEF Own
<1> QED
  BY <1>1, <1>2 DEF Own, Reading

\* The event a wait finds set was set by the one effect that can have set it.
LEMMA TakenIsDoneStep ==
    ASSUME TypeOK, TypeOK', Lawful, Recorded, [Next]_vars,
           NEW f \in build.faults, TakenIsDone(f), Sourced(f)
    PROVE  TakenIsDone(f)'
<1>1. H' = H /\ DOMAIN done \subseteq DOMAIN done' /\ pc \in Nat /\ Step = programs[H][pc]
      /\ build' = build
  BY StepNumbers, Frame
<1>2. SUFFICES ASSUME NEW w \in Steps(H, {"wait"}), NEW e \in DOMAIN Effects,
                      TakenAt(H, f, e, programs[H][w].signal, w, pc'),
                      reads'[Reading(w)]
               PROVE  e \in DOMAIN done'
  BY <1>1 DEF TakenIsDone, Effects, Reading
<1>3. w \in Nat /\ w < pc' /\ ReadAt(H, Reading(w), w) /\ w \in Readers
  BY <1>2, StepNumbers DEF TakenAt, Steps, Readers, Reading
<1>4. CASE w < pc
  <2>1. reads'[Reading(w)] = reads[Reading(w)]
    BY <1>1, <1>3, <1>4, ReadIsKept DEF Recorded
  <2>2. TakenAt(H, f, e, programs[H][w].signal, w, pc)
    BY <1>2, <1>4 DEF TakenAt
  <2> QED
    BY <1>1, <1>2, <2>1, <2>2 DEF TakenIsDone
<1>5. CASE w = pc
  <2>1. pc' = pc + 1 /\ At("wait") /\ Step.reading = Reading(w)
    BY <1>1, <1>3, <1>5, Frame DEF At, Steps, Reading
  <2>2. Signalled
    <3>1. CASE TimedOut
      BY <1>2, <2>1, <3>1 DEF TimedOut, Read, Note
    <3> QED
      BY <1>3, <1>5, <2>1, <3>1, ReaderReads DEF Polled, Looked, At
  <2>3. PICK d \in DOMAIN done : Own(f, d, Step.signal, pc)
    BY <2>2 DEF Signalled, Sourced
  <2>4. d \in Sources(H, f, Step.signal, pc)
    BY <2>3, OwnIsSource
  <2>5. d = e
    BY <1>1, <1>2, <1>5, <2>4 DEF TakenAt
  <2> QED
    BY <1>1, <2>5
<1> QED
  BY <1>1, <1>3, <1>4, <1>5, Frame

\* What a delivery sets is its own, and what main does not reset stays so.
LEMMA SourcedStep ==
    ASSUME TypeOK, TypeOK', Lawful, Pending, Recorded, [Next]_vars,
           NEW f \in build.faults, TakenIsDone(f), Sourced(f)
    PROVE  Sourced(f)'
<1>1. H' = H /\ DOMAIN done \subseteq DOMAIN done' /\ pc \in Nat /\ Step = programs[H][pc]
      /\ build' = build /\ pc \in DOMAIN programs[H]
  BY StepNumbers, Frame
<1>2. SUFFICES ASSUME NEW s \in signals', NEW n \in Nat, n = pc'
               PROVE  \E e \in DOMAIN done' : Own(f, e, s, n)'
  <2>1. pc' \in Nat
    BY <1>1, Frame
  <2>2. \A s \in signals' : \E e \in DOMAIN done' : Own(f, e, s, pc)'
    BY <1>2, <2>1 DEF Own
  <2> QED
    BY <2>2 DEF Sourced
<1>3. PICK m \in Nat : m = pc
  BY <1>1
<1>4. ASSUME s \in signals, pc' = pc
      PROVE  \E e \in DOMAIN done' : Own(f, e, s, n)'
  <2>1. PICK e \in DOMAIN done : Own(f, e, s, pc)
    BY <1>4 DEF Sourced
  <2>2. Own(f, e, s, n)
    BY <1>2, <1>4, <2>1
  <2> QED
    BY <1>1, <1>2, <1>4, <2>1, <2>2, OwnIsKept
<1>5. ASSUME s \in signals, pc' = pc + 1
      PROVE  \E e \in DOMAIN done' : Own(f, e, s, n)'
  <2>1. PICK e \in DOMAIN done : Own(f, e, s, pc)
    BY <1>5 DEF Sourced
  <2>2. Own(f, e, s, m)'
    BY <1>3, <2>1, OwnIsKept
  <2>3. \E a \in Asks(H, e) : a < n
    <3>1. PICK a \in Asks(H, e) : a < pc
      BY <2>1 DEF Own
    <3> QED
      BY <1>1, <1>2, <1>5, <3>1, StepNumbers DEF Asks, Steps
  <2>4. ~Erased(H, e, s, n)
    <3> SUFFICES ASSUME NEW j \in Steps(H, {"shut"}), NEW c \in Clears(H, s),
                        j < c, c < n, \A a \in Asks(H, e) : a < n => a < j
                 PROVE  FALSE
      BY DEF Erased
    <3>1. c \in Nat /\ \A a \in Asks(H, e) : a \in Nat
      BY StepNumbers DEF Asks, Clears, Steps
    <3>2. c # pc
      <4> SUFFICES ASSUME c = pc
                   PROVE  FALSE
        OBVIOUS
      <4>1. Step.op = "clear" /\ s \in Step.signals
        BY <1>1 DEF Clears, Steps
      <4>2. Main
        BY <1>5, MainMoves
      <4>3. Cleared
        BY <4>1, <4>2 DEF Main, Arranged, Asking, Signalled, TimedOut, Polled, Slept, Closed, Turned,
           Looked, Climbed, Returned, At
      <4> QED
        BY <1>2, <4>1, <4>3 DEF Cleared
    <3>3. c < pc
      BY <1>1, <1>2, <1>5, <3>1, <3>2
    <3>4. \A a \in Asks(H, e) : a < pc => a < j
      BY <1>1, <1>2, <1>5, <3>1
    <3> QED
      BY <2>1, <3>3, <3>4 DEF Own, Erased
  <2>5. ASSUME NEW w \in Steps(H, {"wait"}), TakenAt(H, f, e, s, w, n)
        PROVE  ~reads'[Reading(w)]
    <3>1. w \in Nat /\ w < n /\ w \in Readers
      BY <2>5, StepNumbers DEF TakenAt, Steps, Readers
    <3>2. CASE w < pc
      BY <1>1, <1>3, <2>2, <2>5, <3>2 DEF Own, TakenAt, Reading
    <3>3. CASE w = pc
      <4>1. Step.op = "wait" /\ Step.signal = s
        BY <1>1, <2>5, <3>3 DEF TakenAt, Steps
      <4>2. (Signalled \/ TimedOut) /\ Step.reading = Reading(w)
        BY <1>5, <3>1, <3>3, <4>1, ReaderReads DEF Polled, Looked, At
      <4>3. ~Signalled
        BY <1>2, <4>1 DEF Signalled
      <4> QED
        BY <4>2, <4>3 DEF TimedOut, Read, Note
    <3> QED
      BY <1>1, <1>2, <1>5, <3>1, <3>2, <3>3
  <2> QED
    BY <1>1, <2>1, <2>2, <2>3, <2>4, <2>5 DEF Own, Reading
<1>6. ASSUME s \notin signals
      PROVE  \E e \in DOMAIN done' : Own(f, e, s, n)'
  <2>1. Pumps
    BY <1>2, <1>6 DEF Next, Main, Arranged, Asking, Signalled, TimedOut, Polled, Slept, Cleared,
       Closed, Turned, Looked, Climbed, Returned, Over, vars
  <2>2. PICK e \in DOMAIN asked \ DOMAIN done : Deliver(e)
    BY <2>1 DEF Pumps
  <2>3. /\ s = SignalIn(e, phase) /\ pc' = pc /\ reads' = reads
        /\ e \in DOMAIN done' /\ e \in DOMAIN Effects /\ s \in Sets(H, e)
    BY <1>2, <1>6, <2>2, SignalIsSet DEF Deliver, Note, mainVars, TypeOK
  <2>4. PICK a \in Asks(H, e) : a < pc /\ \A j \in Steps(H, {"shut"}) : j < a \/ pc <= j
    BY <2>2 DEF Pending
  <2>5. ~Erased(H, e, s, pc)
    <3> SUFFICES ASSUME NEW j \in Steps(H, {"shut"}), NEW c \in Clears(H, s),
                        j < c, c < pc, a < j
                 PROVE  FALSE
      BY <2>4 DEF Erased
    <3>1. c \in Nat /\ a \in Nat /\ j \in Nat
      BY StepNumbers DEF Asks, Clears, Steps
    <3> QED
      BY <1>1, <2>4, <3>1
  <2>6. ASSUME NEW w \in Steps(H, {"wait"}), TakenAt(H, f, e, s, w, pc)
        PROVE  ~reads[Reading(w)]
    BY <2>2, <2>3, <2>6 DEF TakenIsDone, TakenAt
  <2> QED
    BY <1>1, <1>2, <2>3, <2>4, <2>5, <2>6 DEF Own, Reading
<1> QED
  BY <1>4, <1>5, <1>6, Frame

\* What main once knows it goes on knowing, and it knows more by reading.
LEMMA KnownStep ==
    ASSUME TypeOK, TypeOK', Lawful, Stays, Recorded, [Next]_vars,
           NEW f \in build.faults, Sourced(f), Known(f)
    PROVE  Known(f)'
<1>1. H' = H /\ DOMAIN done \subseteq DOMAIN done' /\ pc \in Nat /\ Step = programs[H][pc]
      /\ build' = build
  BY StepNumbers, Frame
<1>2. SUFFICES ASSUME NEW i \in Readers, i < pc', ReadAt(H, Reading(i), i)
               PROVE  KnownFrom(f, i)'
  BY <1>1 DEF Known, Readers, Reading
<1>3. i \in Nat
  BY StepNumbers DEF Readers, Steps
<1>4. ASSUME NEW w \in Readers, w < pc, ReadAt(H, Reading(w), w)
      PROVE  reads'[Reading(w)] = reads[Reading(w)]
  BY <1>1, <1>4, ReadIsKept, StepNumbers DEF Recorded, Readers, Steps
<1>5. ASSUME NEW w \in Steps(H, {"wait", "poll"}), Confirms(H, f, w, i),
             ReadAt(H, Reading(w), w), i <= pc
      PROVE  w \in Readers /\ w < pc /\ reads'[Reading(w)] = reads[Reading(w)]
  <2>1. w \in Readers /\ w \in Nat /\ w < pc
    BY <1>1, <1>3, <1>5, StepNumbers DEF Confirms, Readers, Steps
  <2> QED
    BY <1>4, <1>5, <2>1
<1>6. CASE i < pc
  <2>1. KnownFrom(f, i)
    BY <1>2, <1>6 DEF Known
  <2>2. reads'[Reading(i)] = reads[Reading(i)]
    BY <1>2, <1>4, <1>6
  <2>3. ASSUME NEW e \in DOMAIN done, Own(f, e, programs[H][i].signal, i)
        PROVE  Own(f, e, programs[H][i].signal, i)'
    <3>1. PICK s : s = programs[H][i].signal
      OBVIOUS
    <3>2. Own(f, e, s, i)'
      BY <1>1, <1>3, <1>6, <2>3, <3>1, OwnIsKept
    <3> QED
      BY <1>1, <3>1, <3>2
  <2> QED
    BY <1>1, <1>3, <1>5, <1>6, <2>1, <2>2, <2>3 DEF KnownFrom, Reading
<1>7. CASE i = pc
  <2>1. pc' = pc + 1
    BY <1>1, <1>2, <1>7, Frame
  <2>2. (Signalled \/ TimedOut \/ Polled \/ Looked) /\ Step.reading = Reading(i)
    BY <1>7, <2>1, ReaderReads
  <2>3. ASSUME i \in Steps(H, {"look"})
        PROVE  reads'[Reading(i)] = (programs[H][i].faults \cap build.faults # {})
    <3>1. Looked
      BY <1>1, <1>7, <2>2, <2>3 DEF Signalled, TimedOut, Polled, At, Steps
    <3> QED
      BY <1>1, <1>7, <2>2, <3>1 DEF Looked, Read, Note
  <2>4. ASSUME i \notin Steps(H, {"look"}), reads'[Reading(i)]
        PROVE  \E e \in DOMAIN done' : Own(f, e, programs[H][i].signal, i)'
    <3>1. Signalled \/ TimedOut \/ Polled
      BY <1>1, <1>7, <2>2, <2>4, StepNumbers DEF Looked, At, Steps
    <3>2. Step.signal \in signals
      BY <2>2, <2>4, <3>1 DEF Signalled, TimedOut, Polled, Read, Note
    <3>3. PICK e \in DOMAIN done : Own(f, e, Step.signal, pc)
      BY <3>2 DEF Sourced
    <3>4. PICK s : s = programs[H][i].signal
      OBVIOUS
    <3>5. Own(f, e, s, i)'
      BY <1>1, <1>3, <1>7, <3>3, <3>4, OwnIsKept
    <3> QED
      BY <1>1, <3>4, <3>5
  <2>5. ASSUME NEW w \in Steps(H, {"wait", "poll"}), i \in Steps(H, {"poll"}),
               Sticky(H, programs[H][i].signal), Confirms(H, f, w, i),
               ReadAt(H, Reading(w), w), reads'[Reading(w)]
        PROVE  reads'[Reading(i)]
    <3>1. w \in Readers /\ w < pc /\ reads[Reading(w)] /\ w \notin Steps(H, {"look"})
      BY <1>1, <1>5, <1>7, <2>5 DEF Steps
    <3>2. PICK e \in DOMAIN done : Own(f, e, programs[H][w].signal, w)
      BY <2>5, <3>1 DEF Known, KnownFrom
    <3>3. e \in Sources(H, f, programs[H][w].signal, w)
      BY <3>2, OwnIsSource
    <3>4. PICK c \in effects[H][e].after : Sets(H, c) = {programs[H][i].signal}
      BY <2>5, <3>3 DEF Confirms
    <3>5. c \in DOMAIN done
      BY <3>2, <3>4 DEF Lawful, Deliverable, Effects, H
    <3>6. Step.signal \in signals
      BY <1>1, <1>7, <2>5, <3>4, <3>5 DEF Stays
    <3>7. Polled
      BY <1>1, <1>7, <2>2, <2>5 DEF Signalled, TimedOut, Looked, At, Steps
    <3> QED
      BY <2>2, <3>6, <3>7 DEF Polled, Read, Note
  <2> QED
    BY <1>1, <2>3, <2>4, <2>5 DEF KnownFrom, Reading
<1> QED
  BY <1>1, <1>2, <1>3, <1>6, <1>7, Frame

\* Past a rung main is past what it demands.
LEMMA PastRungsStep ==
    ASSUME TypeOK, TypeOK', Recorded, PastRungs(pc - 1), [Next]_vars
    PROVE  PastRungs(pc - 1)'
<1>1. H' = H /\ pc \in Nat /\ Step = programs[H][pc]
  BY StepNumbers, Frame
<1>2. CASE pc' = pc /\ reads' = reads
  BY <1>1, <1>2 DEF PastRungs
<1>3. CASE pc' = pc + 1
  <2>1. SUFFICES ASSUME NEW r \in Readings(H), NEW v \in BOOLEAN, NEW j \in Steps(H, {"rung"}),
                        j <= pc, Only(r, v) \in programs[H][j].patterns,
                        NEW i \in Steps(H, {"wait", "poll", "look"}), i < j, ReadAt(H, r, i)
                 PROVE  reads'[r] # v
    BY <1>1, <1>3 DEF PastRungs, Stopped
  <2>2. i \in Readers /\ i \in Nat /\ j \in Nat /\ Reading(i) = r
    BY <2>1, StepNumbers DEF ReadAt, ReadersOf, Readers, Steps, Reading
  <2>3. r \in DOMAIN reads /\ reads'[r] = reads[r]
    BY <1>1, <2>1, <2>2, ReadIsKept DEF Recorded
  <2>4. CASE j < pc
    BY <1>1, <2>1, <2>2, <2>3, <2>4 DEF PastRungs, Stopped
  <2>5. CASE j = pc
    <3>1. Step.op = "rung" /\ Only(r, v) \in Step.patterns
      BY <1>1, <2>1, <2>5 DEF Steps
    <3>2. Main
      BY <1>3, MainMoves
    <3>3. Climbed
      BY <3>1, <3>2 DEF Main, Arranged, Asking, Signalled, TimedOut, Polled, Slept, Cleared, Closed,
         Turned, Looked, Returned, At
    <3>4. ~RungFits
      BY <1>1, <1>3, <3>3 DEF Climbed, Stop
    <3>5. ~Fits(Only(r, v))
      BY <3>1, <3>4 DEF RungFits
    <3> QED
      BY <2>3, <3>5 DEF Fits, Only
  <2> QED
    BY <1>1, <2>1, <2>2, <2>4, <2>5
<1> QED
  BY <1>2, <1>3, Frame

\* A build never gets past a rung that bars one of its faults, nor does main
\* pass it before.
LEMMA BarsStopStep ==
    ASSUME TypeOK, TypeOK', Lawful, Recorded, Recorded', PastRungs(pc - 1), PastRungs(pc - 1)',
           [Next]_vars, NEW f \in build.faults, Known(f), BarsStop(f)
    PROVE  BarsStop(f)'
<1>1. H' = H /\ pc \in Nat /\ pc \in DOMAIN programs[H] /\ Step = programs[H][pc]
      /\ DOMAIN programs[H] \subseteq Nat \ {0}
  BY StepNumbers, Frame
<1>2. SUFFICES ASSUME NEW k \in Steps(H, {"rung"}), Bars(H, f, k)
               PROVE  pc' <= k /\ exit' # Pass
  BY <1>1 DEF BarsStop
<1>3. pc <= k /\ exit # Pass /\ k \in Nat
  BY <1>1, <1>2 DEF BarsStop, Steps
<1>4. CASE pc' = pc + 1 /\ exit' = exit
  <2>1. pc # k
    <3> SUFFICES ASSUME pc = k
                 PROVE  FALSE
      OBVIOUS
    <3>1. Step.op = "rung"
      BY <1>1 DEF Steps
    <3>2. Main
      BY <1>4, MainMoves
    <3>3. Climbed
      BY <3>1, <3>2 DEF Main, Arranged, Asking, Signalled, TimedOut, Polled, Slept, Cleared, Closed,
         Turned, Looked, Returned, At
    <3>4. PastRungs(pc)
      BY <1>1, <1>4, <3>3 DEF Climbed, PastRungs
    <3> QED
      BY <1>2, <3>4, BarsHold
  <2> QED
    BY <1>1, <1>3, <1>4, <2>1
<1>5. CASE pc' = pc /\ exit' = exit
  BY <1>3, <1>5
<1>6. CASE exit' # exit
  <2>1. pc' = pc /\ (Arranged \/ Climbed \/ Returned) /\ exit' = Step.code
        /\ (Climbed => RungFits)
    BY <1>6 DEF Next, Main, Arranged, Asking, Signalled, TimedOut, Polled, Slept, Cleared, Closed,
       Turned, Looked, Climbed, Returned, Pumps, Deliver, Over, vars, mainVars, GoOn, Stop
  <2>2. NoPassAt(H, f, pc)
    BY <1>1, <1>2, <1>3 DEF Bars
  <2>3. CASE Arranged \/ Returned
    BY <1>1, <1>3, <2>1, <2>2, <2>3 DEF NoPassAt, Steps, Arranged, Returned, At
  <2>4. CASE Climbed
    <3> SUFFICES ASSUME Step.code = Pass
                 PROVE  FALSE
      BY <1>3, <2>1
    <3>1. pc \in Steps(H, {"rung"})
      BY <1>1, <2>4 DEF Climbed, At, Steps
    <3>2. PICK p \in Step.patterns : Fits(p)
      BY <2>1, <2>4 DEF RungFits
    <3>3. PICK r \in Readings(H) : p = Only(r, TRUE) /\ Unset(H, f, r, pc - 1)
      BY <1>1, <2>2, <3>1, <3>2 DEF NoPassAt
    <3>4. reads[r] = FALSE
      <4>1. pc - 1 \in Int /\ pc - 1 <= pc
        BY <1>1
      <4> QED
        BY <3>1, <3>3, <4>1, UnsetIsFalse
    <3>5. reads[r] = TRUE
      BY <3>2, <3>3 DEF Fits, Only
    <3> QED
      BY <3>4, <3>5
  <2> QED
    BY <1>3, <2>1, <2>3, <2>4
<1> QED
  BY <1>4, <1>5, <1>6, Frame

LEMMA InitInv == Init => IInv
<1> SUFFICES ASSUME Init
             PROVE  IInv
  OBVIOUS
<1>1. TypeOK
  BY TypeInit
<1>2. DOMAIN programs[H] \subseteq Nat \ {0} /\ pc = 1
  BY <1>1, StepNumbers DEF Init
<1>3. DOMAIN done = {} /\ DOMAIN asked = {} /\ signals = {} /\ exit # Pass
  BY DEF Init, Running, Pass
<1>4. \A i \in Steps(H, {"wait", "poll", "look", "rung"}) : ~(i < pc) /\ ~(i <= pc - 1) /\ pc <= i
  BY <1>2 DEF Steps
<1>5. Lawful /\ Pending /\ Stays
  BY <1>3 DEF Lawful, Pending, Stays
<1>6. Recorded /\ PastRungs(pc - 1)
  BY <1>4 DEF Recorded, PastRungs, Stopped, Readers, Steps
<1>7. ASSUME NEW f
      PROVE  FaultInv(f)
  BY <1>3, <1>4 DEF FaultInv, TakenIsDone, Sourced, Known, BarsStop, TakenAt, Readers, Steps
<1> QED
  BY <1>1, <1>5, <1>6, <1>7 DEF IInv

LEMMA StepInv == IInv /\ [Next]_vars => IInv'
<1> SUFFICES ASSUME IInv, [Next]_vars
             PROVE  IInv'
  OBVIOUS
<1>1. TypeOK /\ Lawful /\ Pending /\ Stays /\ Recorded /\ PastRungs(pc - 1)
  BY DEF IInv
<1>2. TypeOK'
  BY <1>1, TypeNext
<1>3. Lawful' /\ Pending' /\ Stays' /\ Recorded'
  BY <1>1, <1>2, LawfulStep, PendingStep, StaysStep, RecordedStep
<1>4. PastRungs(pc - 1)'
  BY <1>1, <1>2, PastRungsStep
<1>5. ASSUME NEW f \in build.faults
      PROVE  FaultInv(f)'
  <2>1. FaultInv(f)
    BY DEF IInv
  <2>2. TakenIsDone(f) /\ Sourced(f) /\ Known(f) /\ BarsStop(f)
    BY <2>1 DEF FaultInv
  <2>3. TakenIsDone(f)'
    BY <1>1, <1>2, <2>2, TakenIsDoneStep
  <2>4. Sourced(f)'
    BY <1>1, <1>2, <2>2, SourcedStep
  <2>5. Known(f)'
    BY <1>1, <1>2, <2>2, KnownStep
  <2>6. BarsStop(f)'
    BY <1>1, <1>2, <1>3, <1>4, <2>2, BarsStopStep
  <2> QED
    BY <2>3, <2>4, <2>5, <2>6 DEF FaultInv
<1>6. build' = build
  BY <1>1, Frame
<1> QED
  BY <1>2, <1>3, <1>4, <1>5, <1>6 DEF IInv

\* The invariant holds throughout, whatever the machine does.
THEOREM Invariance == Spec => []IInv
<1> QED
  BY InitInv, StepInv, PTL DEF Spec

\* Every harness implements a gate: it returns once, and it never passes a
\* build with a fault its text bars, however many waits are too short and
\* whatever else is wrong with the build.
THEOREM Refinement == Spec => PassIsEvidence
<1>1. Init => Gate!GateInit
  <2> SUFFICES ASSUME Init
               PROVE  Gate!GateInit
    OBVIOUS
  <2>1. exit \notin Fails
    BY DEF Init, Running, Fails
  <2> QED
    BY <2>1 DEF Init, Gate!GateInit, Gate!Running, Running, Disproved
<1>2. IInv /\ IInv' /\ [Next]_vars => [Gate!GateNext]_(Gate!gateVars)
  <2> SUFFICES ASSUME IInv, IInv', [Next]_vars
               PROVE  [Gate!GateNext]_(Gate!gateVars)
    OBVIOUS
  <2>1. build' = build /\ Disproved' = Disproved
    BY Frame DEF IInv, Disproved
  <2>2. CASE exit' = exit
    BY <2>1, <2>2 DEF Gate!gateVars
  <2>3. CASE exit' # exit
    <3>1. exit = Running /\ exit' \in Nat
      BY <2>3 DEF IInv, TypeOK, Next, Main, Arranged, Asking, Signalled, TimedOut, Polled, Slept,
         Cleared, Closed, Turned, Looked, Climbed, Returned, Pumps, Deliver, Over, vars, mainVars,
         GoOn, At
    <3> DEFINE code == IF exit' \in Fails THEN 1 ELSE exit'
    <3>2. code \in Gate!ExitCodes
      BY <3>1 DEF Fails, Gate!ExitCodes, Gate!Pass, Gate!Fail, Gate!Setup, Gate!Inconclusive
    <3>3. exit' = Pass => ~Disproved
      <4> SUFFICES ASSUME Disproved
                   PROVE  exit' # Pass
        OBVIOUS
      <4>1. PICK f \in build.faults : f \in Table[H].proves
        BY DEF Disproved, H
      <4>2. H \in Harnesses /\ H' = H
        BY Frame DEF IInv, TypeOK, H
      <4>3. PICK k \in Steps(H, {"rung"}) : Bars(H, f, k)
        BY <4>1, <4>2, EvidenceAssumption DEF Barred
      <4>4. BarsStop(f)'
        BY <2>1, <4>1 DEF IInv, FaultInv
      <4> QED
        BY <4>2, <4>3, <4>4 DEF BarsStop
    <3>4. code = Gate!Pass => Disproved \in {FALSE}
      <4>1. code = Gate!Pass => exit' = Pass
        BY <3>1 DEF Fails, Gate!Pass, Pass
      <4>2. ~Disproved => Disproved = FALSE
        BY Disproved \in BOOLEAN DEF Disproved
      <4> QED
        BY <3>3, <4>1, <4>2
    <3>5. exit \notin Fails /\ exit = Gate!Running
      BY <3>1 DEF Running, Fails, Gate!Running
    <3>6. Gate!Return(code)
      BY <2>1, <3>4, <3>5 DEF Gate!Return
    <3> QED
      BY <3>2, <3>6 DEF Gate!GateNext
  <2> QED
    BY <2>2, <2>3
<1> QED
  BY <1>1, <1>2, Invariance, PTL DEF Spec, PassIsEvidence, Gate!GateSpec

(***************************************************************************)
(* What a sighting is of                                                   *)
(*                                                                         *)
(* Phases are set by turns alone, so an effect main asked for knows the    *)
(* phase it is charged to (Phased).  A signal that is set was set by an    *)
(* effect that main asked for and has not closed and cleared away since    *)
(* (Sent), and so was what a reading that is TRUE has read (Told).  None   *)
(* of it is about a fault, so it holds of a sound build as well.           *)
(***************************************************************************)

\* Main asked for e in the phase it was in.
Phased ==
    /\ phase \in PhasesAt(H, pc)
    /\ \A e \in DOMAIN asked : \E a \in Asks(H, e) : a < pc /\ asked[e] \in PhasesAt(H, a)
    /\ \A e \in DOMAIN done : done[e] \in Nat \ {0}

\* At step i, e can be what has set s.
Came(e, s, i) ==
    /\ s = SignalIn(e, done[e])
    /\ \E a \in Asks(H, e) : a < i
    /\ ~Erased(H, e, s, i)

Sent == \A s \in signals : \E e \in DOMAIN done : Came(e, s, pc)

\* Step j has read what is so.
Tells(j) ==
    IF j \in Steps(H, {"look"}) THEN programs[H][j].faults \cap build.faults # {}
    ELSE \E e \in DOMAIN done : Came(e, programs[H][j].signal, j)

Told == \A r \in DOMAIN reads : reads[r] => \E j \in ReadersOf(H, r) : j < pc /\ Tells(j)

\* Main has returned what the step it stopped at returns.
Coded == exit # Running => Step.op \in {"arrange", "rung", "return"} /\ exit = Step.code

Sights == Phased /\ Sent /\ Told /\ Coded

LEMMA SightsInit == Init => Sights
<1> SUFFICES ASSUME Init
             PROVE  Sights
  OBVIOUS
<1>1. pc = 1 /\ phase = 1 /\ exit = Running /\ signals = {}
      /\ DOMAIN asked = {} /\ DOMAIN done = {} /\ DOMAIN reads = {}
  BY DEF Init
<1>2. \A j \in Steps(H, {"turn"}) : ~(j < 1)
  BY <1>1, TypeInit, StepNumbers DEF Steps
<1>3. phase \in PhasesAt(H, pc)
  BY <1>1, <1>2 DEF PhasesAt
<1> QED
  BY <1>1, <1>3 DEF Sights, Phased, Sent, Told, Coded

\* A turn decides the phase of the steps after it, any other step leaves it.
LEMMA PhaseMoves ==
    ASSUME TypeOK, phase \in PhasesAt(H, pc)
    PROVE  IF pc \in Steps(H, {"turn"}) THEN Step.phase \in PhasesAt(H, pc + 1)
                                        ELSE phase \in PhasesAt(H, pc + 1)
<1>1. /\ pc \in Nat /\ Step = programs[H][pc]
      /\ \A j \in Steps(H, {"turn"}) : j \in Nat
  BY StepNumbers DEF Steps
<1> DEFINE before == {j \in Steps(H, {"turn"}) : j < pc}
           after  == {j \in Steps(H, {"turn"}) : j < pc + 1}
<1>2. CASE pc \in Steps(H, {"turn"})
  <2>1. pc \in after /\ \A u \in after : u <= pc
    BY <1>1, <1>2
  <2> QED
    BY <1>1, <1>2, <2>1 DEF PhasesAt
<1>3. CASE pc \notin Steps(H, {"turn"})
  <2>1. after = before
    BY <1>1, <1>3
  <2> QED
    BY <1>3, <2>1 DEF PhasesAt
<1> QED
  BY <1>2, <1>3

LEMMA PhasedStep == TypeOK /\ TypeOK' /\ Phased /\ [Next]_vars => Phased'
<1> SUFFICES ASSUME TypeOK, TypeOK', Phased, [Next]_vars
             PROVE  Phased'
  OBVIOUS
<1>1. /\ H' = H /\ pc \in Nat /\ pc \in DOMAIN programs[H] /\ Step = programs[H][pc]
      /\ \A e : \A a \in Asks(H, e) : a \in Nat
  BY StepNumbers, Frame DEF Asks, Steps
<1>2. ASSUME pc' = pc + 1
      PROVE  phase' \in PhasesAt(H, pc + 1)
  <2>1. Main
    BY <1>2, MainMoves
  <2>2. CASE pc \in Steps(H, {"turn"})
    <3>1. Step.op = "turn"
      BY <1>1, <2>2 DEF Steps
    <3>2. Turned
      BY <2>1, <3>1 DEF Main, Arranged, Asking, Signalled, TimedOut, Polled, Slept, Cleared, Closed,
         Looked, Climbed, Returned, At
    <3> QED
      BY <2>2, <3>2, PhaseMoves DEF Turned, Phased
  <2>3. CASE pc \notin Steps(H, {"turn"})
    <3>1. phase' = phase
      BY <1>1, <2>1, <2>3 DEF Main, Arranged, Asking, Signalled, TimedOut, Polled, Slept, Cleared,
         Closed, Turned, Looked, Climbed, Returned, At, Steps
    <3> QED
      BY <2>3, <3>1, PhaseMoves DEF Phased
  <2> QED
    BY <2>2, <2>3
<1>3. ASSUME pc' = pc
      PROVE  phase' = phase
  <2>1. ~Turned
    BY <1>1, <1>3 DEF Turned, GoOn
  <2> QED
    BY <2>1 DEF Next, Main, Arranged, Asking, Signalled, TimedOut, Polled, Slept, Cleared,
       Closed, Looked, Climbed, Returned, Pumps, Deliver, Over, vars, mainVars
<1>4. phase' \in PhasesAt(H, pc')
  BY <1>2, <1>3, Frame DEF Phased
<1>5. ASSUME NEW e \in DOMAIN asked'
      PROVE  \E a \in Asks(H, e) : a < pc' /\ asked'[e] \in PhasesAt(H, a)
  <2>1. CASE e \in DOMAIN asked /\ asked'[e] = asked[e]
    BY <1>1, <2>1, Frame DEF Phased
  <2>2. CASE Asking /\ e \in Step.effects
    <3>1. pc \in Asks(H, e) /\ pc' = pc + 1
      BY <1>1, <2>2 DEF Asking, At, GoOn, Asks, Steps
    <3>2. asked'[e] = phase
      BY <2>2 DEF Asking, Note
    <3> QED
      BY <1>1, <3>1, <3>2 DEF Phased
  <2>3. Asking => (e \in Step.effects \/ (e \in DOMAIN asked /\ asked'[e] = asked[e]))
    BY DEF Asking, Note
  <2>4. ~Asking => e \in DOMAIN asked /\ asked'[e] = asked[e]
    BY DEF TypeOK, Next, Main, Arranged, Signalled, TimedOut, Polled, Slept, Cleared, Closed,
       Turned, Looked, Climbed, Returned, Pumps, Deliver, Over, vars, pumpVars
  <2> QED
    BY <2>1, <2>2, <2>3, <2>4
<1>6. ASSUME NEW e \in DOMAIN done'
      PROVE  done'[e] \in Nat \ {0}
  BY DEF Phased, TypeOK, Next, Main, Arranged, Asking, Signalled, TimedOut, Polled, Slept, Cleared,
     Closed, Turned, Looked, Climbed, Returned, Pumps, Deliver, Note, Over, vars, pumpVars
<1> QED
  BY <1>1, <1>4, <1>5, <1>6 DEF Phased

\* What was delivered stays delivered, in the phase it was delivered in.
LEMMA DoneIsKept ==
    ASSUME TypeOK, [Next]_vars, NEW e \in DOMAIN done
    PROVE  e \in DOMAIN done' /\ done'[e] = done[e]
BY DEF Next, Main, Arranged, Asking, Signalled, TimedOut, Polled, Slept, Cleared,
   Closed, Turned, Looked, Climbed, Returned, Pumps, Deliver, Note, Over, vars, pumpVars

\* What can have set s at a step that is behind main still can.
LEMMA CameIsKept ==
    ASSUME TypeOK, [Next]_vars, NEW e \in DOMAIN done, NEW s, NEW i \in Nat, Came(e, s, i)
    PROVE  e \in DOMAIN done' /\ Came(e, s, i)'
<1>1. e \in DOMAIN done' /\ done'[e] = done[e] /\ build' = build /\ H' = H
  BY DoneIsKept, Frame
<1> QED
  BY <1>1 DEF Came, SignalIn, Effects

\* What has set s still can have, as long as s is set.
LEMMA CameOn ==
    ASSUME TypeOK, [Next]_vars, NEW e \in DOMAIN done, NEW s \in signals, s \in signals',
           Came(e, s, pc), NEW n \in Nat, n = pc'
    PROVE  e \in DOMAIN done' /\ Came(e, s, n)'
<1>1. /\ H' = H /\ pc \in Nat /\ pc \in DOMAIN programs[H] /\ Step = programs[H][pc]
      /\ build' = build
  BY StepNumbers, Frame
<1>2. \E a \in Asks(H, e) : a < n
  <2>1. PICK a \in Asks(H, e) : a < pc
    BY DEF Came
  <2> QED
    BY <1>1, <2>1, StepNumbers, Frame DEF Asks, Steps
<1>3. ~Erased(H, e, s, n)
  <2> SUFFICES ASSUME NEW j \in Steps(H, {"shut"}), NEW c \in Clears(H, s),
                      j < c, c < n, \A a \in Asks(H, e) : a < n => a < j
               PROVE  FALSE
    BY DEF Erased
  <2>1. c \in Nat /\ \A a \in Asks(H, e) : a \in Nat
    BY StepNumbers DEF Asks, Clears, Steps
  <2>2. ASSUME c = pc, n = pc + 1
        PROVE  FALSE
    <3>1. Step.op = "clear" /\ s \in Step.signals
      BY <1>1, <2>2 DEF Clears, Steps
    <3>2. Main
      BY <2>2, MainMoves
    <3>3. Cleared
      BY <3>1, <3>2 DEF Main, Arranged, Asking, Signalled, TimedOut, Polled, Slept, Closed, Turned,
         Looked, Climbed, Returned, At
    <3> QED
      BY <3>1, <3>3 DEF Cleared
  <2>3. c < pc
    BY <1>1, <2>1, <2>2, Frame
  <2>4. \A a \in Asks(H, e) : a < pc => a < j
    BY <1>1, <2>1, Frame
  <2> QED
    BY <2>3, <2>4 DEF Came, Erased
<1>4. Came(e, s, n)
  BY <1>2, <1>3 DEF Came
<1> QED
  BY <1>4, CameIsKept

\* What is delivered can have set what it sets.
LEMMA CameNew ==
    ASSUME TypeOK, Pending, NEW e \in DOMAIN asked \ DOMAIN done, Deliver(e),
           NEW s, s = SignalIn(e, phase), NEW n \in Nat, n = pc'
    PROVE  e \in DOMAIN done' /\ done'[e] = phase /\ Came(e, s, n)'
<1>1. /\ pc \in Nat /\ build' = build /\ H' = H /\ pc' = pc
      /\ e \in DOMAIN done' /\ done'[e] = phase
  BY StepNumbers DEF Deliver, Note, mainVars, H
<1>2. PICK a \in Asks(H, e) : a < pc /\ \A j \in Steps(H, {"shut"}) : j < a \/ pc <= j
  BY DEF Pending
<1>3. ~Erased(H, e, s, n)
  <2> SUFFICES ASSUME NEW j \in Steps(H, {"shut"}), NEW c \in Clears(H, s),
                      j < c, c < pc, a < j
               PROVE  FALSE
    BY <1>1, <1>2 DEF Erased
  <2>1. c \in Nat /\ a \in Nat /\ j \in Nat
    BY StepNumbers DEF Asks, Clears, Steps
  <2> QED
    BY <1>1, <1>2, <2>1
<1>4. s = SignalIn(e, done[e])'
  BY <1>1 DEF SignalIn, Effects
<1>5. \E d \in Asks(H, e) : d < n
  BY <1>1, <1>2
<1> QED
  BY <1>1, <1>3, <1>4, <1>5 DEF Came

LEMMA SentStep == TypeOK /\ TypeOK' /\ Pending /\ Sent /\ [Next]_vars => Sent'
<1> SUFFICES ASSUME TypeOK, TypeOK', Pending, Sent, [Next]_vars
             PROVE  Sent'
  OBVIOUS
<1>1. SUFFICES ASSUME NEW s \in signals', NEW n \in Nat, n = pc'
               PROVE  \E e \in DOMAIN done' : Came(e, s, n)'
  <2>1. pc' \in Nat
    BY StepNumbers, Frame
  <2>2. \A s \in signals' : \E e \in DOMAIN done' : Came(e, s, pc)'
    BY <1>1, <2>1 DEF Came
  <2> QED
    BY <2>2 DEF Sent
<1>2. CASE s \in signals
  BY <1>1, <1>2, CameOn DEF Sent
<1>3. CASE s \notin signals
  <2>1. Pumps
    BY <1>1, <1>3 DEF Next, Main, Arranged, Asking, Signalled, TimedOut, Polled, Slept, Cleared,
       Closed, Turned, Looked, Climbed, Returned, Over, vars
  <2>2. PICK e \in DOMAIN asked \ DOMAIN done : Deliver(e)
    BY <2>1 DEF Pumps
  <2>3. s = SignalIn(e, phase)
    BY <1>1, <1>3, <2>2 DEF Deliver
  <2> QED
    BY <1>1, <2>2, <2>3, CameNew
<1> QED
  BY <1>2, <1>3

LEMMA ToldStep == TypeOK /\ TypeOK' /\ Sent /\ Told /\ [Next]_vars => Told'
<1> SUFFICES ASSUME TypeOK, TypeOK', Sent, Told, [Next]_vars,
                    NEW r \in DOMAIN reads', reads'[r]
             PROVE  \E j \in ReadersOf(H, r) : j < pc' /\ Tells(j)'
  BY Frame DEF Told
<1>1. /\ H' = H /\ build' = build /\ pc \in Nat /\ pc \in DOMAIN programs[H]
      /\ Step = programs[H][pc]
      /\ \A j \in ReadersOf(H, r) : j \in Nat
  BY StepNumbers, Frame DEF ReadersOf, Steps
<1>2. ASSUME NEW j \in Nat, Tells(j)
      PROVE  Tells(j)'
  <2>1. CASE j \in Steps(H, {"look"})
    BY <1>1, <1>2, <2>1 DEF Tells
  <2>2. CASE j \notin Steps(H, {"look"})
    <3>1. PICK e \in DOMAIN done : Came(e, programs[H][j].signal, j)
      BY <1>2, <2>2 DEF Tells
    <3>2. PICK s : s = programs[H][j].signal
      OBVIOUS
    <3>3. e \in DOMAIN done' /\ Came(e, s, j)'
      BY <3>1, <3>2, CameIsKept
    <3> QED
      BY <1>1, <2>2, <3>2, <3>3 DEF Tells
  <2> QED
    BY <2>1, <2>2
<1>3. CASE r \in DOMAIN reads /\ reads'[r] = reads[r]
  <2>1. PICK j \in ReadersOf(H, r) : j < pc /\ Tells(j)
    BY <1>3 DEF Told
  <2> QED
    BY <1>1, <1>2, <2>1, Frame
<1>4. CASE ~(r \in DOMAIN reads /\ reads'[r] = reads[r])
  <2>1. (Signalled \/ TimedOut \/ Polled \/ Looked) /\ r = Step.reading
    BY <1>4 DEF Next, Main, Arranged, Asking, Signalled, TimedOut, Polled, Slept, Cleared, Closed,
       Turned, Looked, Climbed, Returned, Pumps, Deliver, Over, vars, mainVars, Read, Note
  <2>2. pc \in ReadersOf(H, r) /\ pc' = pc + 1 /\ pc < pc'
    <3>1. Step.op \in {"wait", "poll", "look"} /\ pc' = pc + 1
      BY <2>1 DEF Signalled, TimedOut, Polled, Looked, At, GoOn
    <3>2. pc \in ReadersOf(H, r)
      BY <1>1, <2>1, <3>1 DEF ReadersOf, Steps
    <3> QED
      BY <1>1, <3>1, <3>2
  <2>3. Tells(pc)
    <3>1. CASE Looked
      <4>1. pc \in Steps(H, {"look"})
        BY <1>1, <3>1 DEF Looked, At, Steps
      <4>2. Step.faults \cap build.faults # {}
        BY <2>1, <3>1 DEF Looked, Read, Note
      <4> QED
        BY <1>1, <4>1, <4>2 DEF Tells
    <3>2. CASE Signalled \/ TimedOut \/ Polled
      <4>1. pc \notin Steps(H, {"look"})
        BY <1>1, <3>2 DEF Signalled, TimedOut, Polled, At, Steps
      <4>2. Step.signal \in signals
        BY <2>1, <3>2 DEF Signalled, TimedOut, Polled, Read, Note
      <4> QED
        BY <1>1, <4>1, <4>2 DEF Tells, Sent
    <3> QED
      BY <2>1, <3>1, <3>2
  <2>4. PICK j \in Nat : j = pc
    BY <1>1
  <2> QED
    BY <1>2, <2>2, <2>3, <2>4
<1> QED
  BY <1>3, <1>4

LEMMA CodedStep == TypeOK /\ Coded /\ [Next]_vars => Coded'
<1> SUFFICES ASSUME TypeOK, Coded, [Next]_vars, exit' # Running
             PROVE  Step'.op \in {"arrange", "rung", "return"} /\ exit' = Step'.code
  BY DEF Coded
<1>1. build' = build
  BY Frame
<1>2. pc' = pc
  BY DEF Next, Main, Arranged, Asking, Signalled, TimedOut, Polled, Slept, Cleared, Closed,
     Turned, Looked, Climbed, Returned, Pumps, Deliver, Over, vars, mainVars, GoOn, Stop, At
<1>3. Step' = Step
  BY <1>1, <1>2 DEF Step, Program
<1> QED
  BY <1>3 DEF Coded, Next, Main, Arranged, Asking, Signalled, TimedOut, Polled, Slept, Cleared,
     Closed, Turned, Looked, Climbed, Returned, Pumps, Deliver, Over, vars, mainVars, GoOn, Stop, At

LEMMA Seeing == Spec => [](IInv /\ Sights)
<1>1. IInv /\ Sights /\ [Next]_vars => IInv' /\ Sights'
  <2> SUFFICES ASSUME IInv, Sights, [Next]_vars
               PROVE  IInv' /\ Sights'
    OBVIOUS
  <2>1. IInv'
    BY StepInv
  <2>2. TypeOK /\ TypeOK' /\ Pending
    BY <2>1 DEF IInv
  <2> QED
    BY <2>1, <2>2, PhasedStep, SentStep, ToldStep, CodedStep DEF Sights
<1> QED
  BY InitInv, SightsInit, <1>1, PTL DEF Spec

\* The signal of an effect, by its harness's name.
LEMMA SignalIsOfTable ==
    ASSUME NEW e, NEW n
    PROVE  SignalIn(e, n) = SignalOf(H, e, n)
BY DEF SignalIn, SignalOf, Effects, H

\* What main asked for, in the phases it asked in.
LEMMA OwnIsAsked ==
    ASSUME TypeOK, Phased, NEW e \in DOMAIN asked
    PROVE  SignalIn(e, asked[e]) \in OwnSignals(H, e)
<1>1. PICK a \in Asks(H, e) : asked[e] \in PhasesAt(H, a)
  BY DEF Phased
<1> QED
  BY <1>1, SignalIsOfTable DEF OwnSignals

\* Past a rung that stops main if r is v, with w its one reader: r is the
\* other.
LEMMA PastIsRead ==
    ASSUME TypeOK, Recorded, PastRungs(pc - 1), NEW r \in Readings(H), NEW v \in BOOLEAN,
           Stopped(H, r, v, pc - 1)
    PROVE  r \in DOMAIN reads /\ reads[r] = ~v
<1>1. /\ pc \in Nat
      /\ \A i \in Steps(H, {"wait", "poll", "look", "rung"}) : i \in Nat
  BY StepNumbers DEF Steps
<1>2. PICK j \in Steps(H, {"rung"}), i \in Steps(H, {"wait", "poll", "look"}) :
        j <= pc - 1 /\ i < j /\ ReadAt(H, r, i)
  BY DEF Stopped
<1>3. i \in Readers /\ Reading(i) = r
  BY <1>2 DEF Readers, ReadAt, ReadersOf, Reading
<1>4. i < pc
  <2>1. i \in Nat /\ j \in Nat
    BY <1>1 DEF Steps
  <2> QED
    BY <1>1, <1>2, <2>1
<1>5. r \in DOMAIN reads
  BY <1>3, <1>4 DEF Recorded
<1>6. reads[r] # v
  BY DEF PastRungs
<1> QED
  BY <1>5, <1>6 DEF TypeOK

\* A signal of an effect is one of those it sets, whatever the phase.
LEMMA SignalIsSetIn ==
    ASSUME TypeOK, NEW e \in DOMAIN Effects, NEW n \in Nat \ {0}
    PROVE  SignalIn(e, n) \in Sets(H, e)
<1>1. Effects[e].signal \in Seq(STRING) /\ Effects[e].signal # <<>>
  BY TableAssumption DEF WellFormed, TypeOK, Effects
<1>2. /\ 1 \in DOMAIN Effects[e].signal
      /\ n <= Len(Effects[e].signal) => n \in DOMAIN Effects[e].signal
  BY <1>1
<1> QED
  BY <1>2 DEF SignalIn, Sets, Effects, H, Range

\* What is behind a reading that is TRUE and has one reader.
LEMMA ReadIsTold ==
    ASSUME TypeOK, Sights, NEW w \in Steps(H, {"wait", "poll"}), ReadAt(H, Reading(w), w),
           Reading(w) \in DOMAIN reads, reads[Reading(w)]
    PROVE  \E e \in DOMAIN done : Came(e, programs[H][w].signal, w)
<1>1. Tells(w)
  BY DEF Sights, Told, ReadAt
<1>2. w \notin Steps(H, {"look"})
  BY DEF Steps
<1> QED
  BY <1>1, <1>2 DEF Tells

\* Main passes only if a reading it passes on, or one it had to get past, is
\* that of an effect main asked for, in the phase it asked in: for every table
\* whose texts say so (OwnAssumption).
THEOREM Ownership == Spec => []EvidenceIsOwn
<1>1. IInv /\ Sights => EvidenceIsOwn
  <2> SUFFICES ASSUME IInv, Sights, exit = Pass, NEW i \in DOMAIN Program,
                      Program[i].op \in {"wait", "poll"},
                      Fits(Only(Program[i].reading, TRUE))
               PROVE  \E e \in DOMAIN done : SignalIn(e, asked[e]) = Program[i].signal
    BY DEF EvidenceIsOwn
  <2>1. TypeOK /\ Lawful /\ Recorded /\ PastRungs(pc - 1)
    BY DEF IInv
  <2>2. H \in Harnesses /\ Program = programs[H]
    BY <2>1 DEF TypeOK, H, Program
  <2>3. i \in Steps(H, {"wait", "poll"}) /\ Reading(i) \in DOMAIN reads /\ reads[Reading(i)]
    BY <2>2 DEF Steps, Reading, Fits, Only
  <2>4. pc \in Passes(H)
    BY <2>1, StepNumbers DEF Sights, Coded, Passes, Steps, Pass, Running
  <2>5. OwnEvidence(H, i, pc)
    BY <2>2, <2>3, <2>4, OwnAssumption
  <2>6. \A w \in Steps(H, {"wait", "poll"}) : Reading(w) \in Readings(H)
    BY DEF Readings, Reading, Steps
  <2>7. ~Stopped(H, Reading(i), TRUE, pc - 1)
    BY <2>1, <2>3, <2>6 DEF PastRungs, TypeOK
  <2>8. PICK w \in Steps(H, {"wait", "poll"}) :
          /\ ReadAt(H, Reading(w), w)
          /\ w = i \/ Stopped(H, Reading(w), FALSE, pc - 1)
          /\ OwnBy(H, w, programs[H][i].signal)
    BY <2>5, <2>7 DEF OwnEvidence, Reading
  <2>9. Reading(w) \in DOMAIN reads /\ reads[Reading(w)]
    BY <2>1, <2>3, <2>6, <2>8, PastIsRead
  <2>10. PICK e \in DOMAIN done : Came(e, programs[H][w].signal, w)
    BY <2>1, <2>8, <2>9, ReadIsTold
  <2>11. e \in DOMAIN effects[H] /\ e \in DOMAIN Effects /\ done[e] \in Nat \ {0}
    BY <2>1 DEF TypeOK, Effects, H, Sights, Phased
  <2>12. programs[H][w].signal \in Sets(H, e)
    BY <2>1, <2>10, <2>11, SignalIsSetIn DEF Came
  <2>13. PICK c \in {e} \cup effects[H][e].after : OwnSignals(H, c) \subseteq {programs[H][i].signal}
    BY <2>8, <2>10, <2>11, <2>12 DEF OwnBy, Came
  <2>14. c \in DOMAIN done /\ c \in DOMAIN asked
    BY <2>1, <2>13 DEF Lawful, Deliverable, Effects, H, TypeOK
  <2>15. SignalIn(c, asked[c]) \in OwnSignals(H, c)
    BY <2>1, <2>14, OwnIsAsked DEF Sights
  <2> QED
    BY <2>2, <2>13, <2>14, <2>15
<1> QED
  BY <1>1, Seeing, PTL

\* What convicts a build that is told to main is a fault the build has.
LEMMA ToldConvicts ==
    ASSUME TypeOK, Lawful, Phased, ~Astray, NEW j \in Steps(H, {"wait", "poll", "look"}),
           Tells(j), NEW faulty, Convicts(H, j, faulty)
    PROVE  faulty \cap build.faults # {}
<1>1. CASE j \in Steps(H, {"look"})
  BY <1>1 DEF Tells, Convicts
<1>2. CASE j \notin Steps(H, {"look"})
  <2>1. PICK e \in DOMAIN done : Came(e, programs[H][j].signal, j)
    BY <1>2 DEF Tells
  <2>2. e \in DOMAIN asked /\ e \in DOMAIN effects[H] /\ done[e] = asked[e]
    BY DEF TypeOK, Effects, H, Astray
  <2>3. programs[H][j].signal \in OwnSignals(H, e)
    BY <2>1, <2>2, OwnIsAsked DEF Came
  <2>4. j \in Steps(H, {"wait", "poll"})
    BY <1>2 DEF Steps
  <2>5. PICK c \in {e} \cup effects[H][e].after : effects[H][c].given \cap faulty # {}
    BY <2>1, <2>2, <2>3, <2>4 DEF Convicts, Came
  <2>6. Deliverable(c)
    BY <2>5 DEF Lawful, Deliverable, Effects, H
  <2> QED
    BY <2>5, <2>6 DEF Deliverable, Effects, H
<1> QED
  BY <1>1, <1>2

\* A build that is accused on a reading that is TRUE, with every effect
\* delivered in its phase, has one of the faults it is accused of, on a
\* machine however slow: for every table whose texts say so
\* (SightAssumption).
THEOREM Sight == Spec => []SightIsProof
<1>1. IInv /\ Sights => SightIsProof
  <2> SUFFICES ASSUME IInv, Sights, Accuses, ~Astray,
                      NEW p \in Step.patterns, Fits(p), \E r \in DOMAIN p : p[r]
               PROVE  Guilty
    BY DEF SightIsProof
  <2>1. TypeOK /\ Lawful /\ Phased
    BY DEF IInv, Sights
  <2>2. H \in Harnesses /\ Step = programs[H][pc] /\ pc \in Steps(H, {"rung"})
    BY <2>1, StepNumbers DEF TypeOK, H, Accuses, Steps
  <2>3. Sighted(H, pc, p)
    BY <2>2, SightAssumption DEF Accuses
  <2>4. PICK r \in DOMAIN p :
          p[r] /\ \A j \in ReadersOf(H, r) : j < pc => Convicts(H, j, Step.accused)
    BY <2>2, <2>3 DEF Sighted
  <2>5. r \in DOMAIN reads /\ reads[r]
    BY <2>4 DEF Fits
  <2>6. PICK j \in ReadersOf(H, r) : j < pc /\ Tells(j)
    BY <2>5 DEF Sights, Told
  <2>7. Convicts(H, j, Step.accused)
    BY <2>4, <2>6
  <2>8. j \in Steps(H, {"wait", "poll", "look"})
    BY DEF ReadersOf
  <2> QED
    BY <2>1, <2>6, <2>7, <2>8, ToldConvicts DEF Guilty
<1> QED
  BY <1>1, Seeing, PTL

(***************************************************************************)
(* What is so on a timely machine                                          *)
(*                                                                         *)
(* An effect that is settled at a step is delivered when main is past it   *)
(* (Punctual): main stops waiting when the pumps have nothing left, and    *)
(* what it has asked for they then have done (Posted).  So each effect     *)
(* sets what it is sure to set (Voiced), a signal is of an effect whose    *)
(* signal no wait has taken (Fresh), and what nothing resets stays         *)
(* (Lasting).  Main reads what it is sure to read (Foreseen), and is past  *)
(* no rung that is sure to stop it (Climbing).                             *)
(***************************************************************************)
Certain == Settled(H, build.faults)

Posted == \A e \in DOMAIN Effects : Open(H, e, pc) => e \in DOMAIN asked

Punctual == \A z \in Certain : z[2] < pc => z[1] \in DOMAIN done

Voiced == \A e \in DOMAIN done : SignalIn(e, done[e]) \in Emits(H, Certain, e)

Fresh == \A s \in signals : \E e \in DOMAIN done :
            Came(e, s, pc) /\ ~Spent(H, Certain, e, s, pc)

\* Nothing up to step i has reset what e has set.
Unreset(e, s, i) ==
    \A c \in Clears(H, s) \cup Waits(H, s) : i <= c \/ \A a \in Asks(H, e) : c < a

Lasting ==
    \A e \in DOMAIN done : \A s \in Emits(H, Certain, e) :
        Emits(H, Certain, e) = {s} /\ Unreset(e, s, pc) => s \in signals

Foreseen ==
    \A x \in Sure(H, build.faults, Certain) :
        x[1] < pc /\ ReadAt(H, Reading(x[1]), x[1]) => reads[Reading(x[1])] = x[2]

Climbing ==
    \A j \in Steps(H, {"rung"}) :
        j < pc => ~Halts(H, Sure(H, build.faults, Certain), j)

\* Main stops at a rung that fits.
Fitted == exit # Running /\ Step.op = "rung" => RungFits

Few == build.faults \in UpTo(MaxTrouble, probed[H])

Timing ==
    /\ Few /\ Posted /\ Fitted
    /\ Timely => Punctual /\ Voiced /\ Fresh /\ Lasting /\ Foreseen /\ Climbing

(***************************************************************************)
(* Lemmas on one state.                                                    *)
(***************************************************************************)

\* What the table says of this build.
LEMMA BuildIsJudged ==
    ASSUME TypeOK, Few
    PROVE  Judges(H, build.faults)
  BY VerdictAssumption DEF TypeOK, Few, H

\* What is settled is awaited at a rest or a wait.
LEMMA CertainIsAwaited ==
    ASSUME TypeOK, Few, NEW z \in Certain
    PROVE  /\ z[2] \in Steps(H, {"rest", "wait"})
           /\ z[1] \in Awaited(H, build.faults, Certain, z[2])
<1>1. Certain \subseteq Settle(H, build.faults, Certain)
  BY BuildIsJudged DEF Judges, Certain
<1>2. PICK q \in Steps(H, {"rest", "wait"}) :
        z \in Awaited(H, build.faults, Certain, q) \X {q}
  BY <1>1 DEF Settle
<1> QED
  BY <1>2

\* The build does nothing that it never does.
LEMMA BarrenIsUndone ==
    ASSUME TypeOK, Lawful, NEW e \in DOMAIN done
    PROVE  e \notin Barren(H, build.faults)
<1> DEFINE idle == DOMAIN effects[H] \ Able(H, build.faults)
<1>1. DOMAIN done \cap idle = {}
  BY DEF Lawful, Deliverable, Able, Effects, H
<1> HIDE DEF idle
<1>2. DOMAIN done \cap Behind(H, Behind(H, Behind(H, Behind(H, idle)))) = {}
  BY <1>1, BehindIsUndone
<1> QED
  BY <1>2 DEF Barren, idle

\* What comes before an effect that is done is done.
LEMMA BeforeIsDone ==
    ASSUME TypeOK, Lawful, NEW e \in DOMAIN done
    PROVE  Before(H, e) \subseteq DOMAIN done
<1>1. ASSUME NEW E, E \subseteq DOMAIN done
      PROVE  Ahead(H, E) \subseteq DOMAIN done
  BY <1>1 DEF Ahead, Lawful, Deliverable, Effects, H
<1>2. {e} \subseteq DOMAIN done
  OBVIOUS
<1>3. Ahead(H, {e}) \subseteq DOMAIN done
  BY <1>1, <1>2
<1> QED
  BY <1>1, <1>3 DEF Before

\* A signal that is set is of an effect that can have set it.
LEMMA SetterIsDone ==
    ASSUME TypeOK, Lawful, Voiced, Fresh, NEW s \in signals
    PROVE  \E e \in DOMAIN done : e \in Setters(H, build.faults, Certain, s, pc)
<1>1. PICK e \in DOMAIN done : Came(e, s, pc) /\ ~Spent(H, Certain, e, s, pc)
  BY DEF Fresh
<1>2. s \in Emits(H, Certain, e)
  BY <1>1 DEF Came, Voiced
<1>3. e \in DOMAIN effects[H] \ Barren(H, build.faults)
  BY BarrenIsUndone DEF TypeOK, Effects, H
<1> QED
  BY <1>1, <1>2, <1>3 DEF Setters, Came

\* When the pumps have nothing left to do, they have done what is ripe.
LEMMA RipeIsDone ==
    ASSUME TypeOK, Posted, Quiet, NEW E, E \subseteq DOMAIN done,
           NEW D, D \subseteq {e \in Able(H, build.faults) : Open(H, e, pc)}
    PROVE  Ripe(H, D, E) \subseteq DOMAIN done
<1> SUFFICES ASSUME NEW e \in D, effects[H][e].after \subseteq E, e \notin DOMAIN done
             PROVE  FALSE
  BY DEF Ripe
<1>1. e \in DOMAIN asked
  BY DEF Posted, Able, Effects, H
<1>2. Deliverable(e)
  BY DEF Deliverable, Able, Effects, H
<1> QED
  BY <1>1, <1>2 DEF Quiet

LEMMA ReadyIsDone ==
    ASSUME TypeOK, Posted, Punctual, Quiet
    PROVE  Ready(H, build.faults, Certain, pc) \subseteq DOMAIN done
<1> DEFINE D == {e \in Able(H, build.faults) : Open(H, e, pc)}
           E == {z[1] : z \in {y \in Certain : y[2] < pc}}
<1>1. E \subseteq DOMAIN done
  BY DEF Punctual
<1>2. D \subseteq {e \in Able(H, build.faults) : Open(H, e, pc)}
  OBVIOUS
<1> HIDE DEF D, E
<1>3. Ripe(H, D, Ripe(H, D, Ripe(H, D, Ripe(H, D, E)))) \subseteq DOMAIN done
  BY <1>1, <1>2, RipeIsDone
<1> QED
  BY <1>3 DEF Ready, D, E

(***************************************************************************)
(* What a step keeps.                                                      *)
(***************************************************************************)

\* Only the closing of hubs makes main's requests forgotten.
LEMMA AskedIsKept ==
    ASSUME [Next]_vars, ~Closed
    PROVE  DOMAIN asked \subseteq DOMAIN asked'
BY DEF Next, Main, Arranged, Asking, Signalled, TimedOut, Polled, Slept, Cleared, Turned, Looked,
   Climbed, Returned, Pumps, Deliver, Over, vars, pumpVars, Note

\* What main has asked for, of hubs it has not closed since, it has asked for.
LEMMA PostedStep == TypeOK /\ Posted /\ [Next]_vars => Posted'
<1> SUFFICES ASSUME TypeOK, Posted, [Next]_vars
             PROVE  Posted'
  OBVIOUS
<1> SUFFICES ASSUME NEW e \in DOMAIN Effects, NEW n \in Nat, n = pc', Open(H, e, n)
             PROVE  e \in DOMAIN asked'
  <2>1. pc' \in Nat /\ build' = build /\ H' = H
    BY StepNumbers, Frame
  <2> QED
    BY <2>1 DEF Posted, Effects
<1>1. /\ H' = H /\ pc \in Nat /\ pc \in DOMAIN programs[H] /\ Step = programs[H][pc]
      /\ \A j \in Steps(H, {"shut", "ask"}) : j \in Nat
  BY StepNumbers, Frame DEF Steps
<1>2. PICK a \in Asks(H, e) : a < n /\ \A j \in Steps(H, {"shut"}) : j < a \/ n <= j
  BY DEF Open
<1>3. a \in Nat /\ a \in Steps(H, {"ask"}) /\ e \in programs[H][a].effects
  BY <1>1 DEF Asks, Steps
<1>4. \A j \in Steps(H, {"shut"}) : j \in Nat
  BY <1>1 DEF Steps
<1>5. CASE n = pc
  <2>1. e \in DOMAIN asked
    BY <1>2, <1>5 DEF Posted, Open
  <2>2. ~Closed
    BY <1>1, <1>5 DEF Closed, GoOn
  <2> QED
    BY <2>1, <2>2, AskedIsKept
<1>6. CASE n = pc + 1 /\ a = pc
  <2>1. Asking
    BY <1>1, <1>3, <1>6, MainMoves DEF Main, Arranged, Signalled, TimedOut, Polled, Slept, Cleared,
       Closed, Turned, Looked, Climbed, Returned, At, Steps
  <2> QED
    BY <1>1, <1>3, <1>6, <2>1 DEF Asking, Note
<1>7. CASE n = pc + 1 /\ a # pc
  <2>1. a < pc /\ \A j \in Steps(H, {"shut"}) : j < a \/ pc <= j
    BY <1>1, <1>2, <1>3, <1>4, <1>7
  <2>2. e \in DOMAIN asked
    BY <2>1 DEF Posted, Open
  <2>3. ~Closed
    <3>1. Closed => pc \in Steps(H, {"shut"})
      BY <1>1 DEF Closed, At, Steps
    <3> QED
      BY <1>1, <1>2, <1>3, <1>7, <2>1, <3>1
  <2> QED
    BY <2>2, <2>3, AskedIsKept
<1> QED
  BY <1>1, <1>5, <1>6, <1>7, Frame

\* A step that ends on a timely machine, other than at a signal, finds the pumps
\* quiet.
LEMMA TimelyIsQuiet ==
    ASSUME Timely, MayTimeOut
    PROVE  Quiet
BY DEF Timely, MayTimeOut

\* An effect that is settled at main's step is delivered when main goes on.
LEMMA AwaitedIsDone ==
    ASSUME TypeOK, Lawful, Few, Posted, Timely, Punctual, Voiced, Fresh, [Next]_vars,
           pc' = pc + 1, NEW z \in Certain, z[2] = pc
    PROVE  z[1] \in DOMAIN done
<1>1. /\ pc \in Steps(H, {"rest", "wait"})
      /\ z[1] \in Awaited(H, build.faults, Certain, pc)
  BY CertainIsAwaited
<1>2. Step = programs[H][pc] /\ Step.op \in {"rest", "wait"}
  BY <1>1, StepNumbers DEF Steps
<1>3. Signalled \/ TimedOut \/ Slept
  BY <1>2, MainMoves DEF Main, Arranged, Asking, Polled, Cleared, Closed, Turned, Looked, Climbed,
     Returned, At
<1>4. CASE TimedOut \/ Slept
  <2>1. Quiet
    BY <1>4, TimelyIsQuiet DEF TimedOut, Slept
  <2> QED
    BY <1>1, <2>1, ReadyIsDone DEF Awaited
<1>5. CASE Signalled
  <2>1. Step.op # "rest" /\ Step.signal \in signals
    BY <1>5 DEF Signalled, At
  <2>2. PICK e \in DOMAIN done : e \in Setters(H, build.faults, Certain, Step.signal, pc)
    BY <2>1, SetterIsDone
  <2>3. z[1] \in Before(H, e)
    BY <1>1, <1>2, <2>1, <2>2 DEF Awaited
  <2> QED
    BY <2>3, BeforeIsDone
<1> QED
  BY <1>3, <1>4, <1>5

LEMMA PunctualStep ==
    TypeOK /\ Lawful /\ Few /\ Posted /\ Timely /\ Punctual /\ Voiced /\ Fresh /\ [Next]_vars
    => Punctual'
<1> SUFFICES ASSUME TypeOK, Lawful, Few, Posted, Timely, Punctual, Voiced, Fresh, [Next]_vars
             PROVE  Punctual'
  OBVIOUS
<1> SUFFICES ASSUME NEW z \in Certain, z[2] < pc'
             PROVE  z[1] \in DOMAIN done'
  <2>1. Certain' = Certain
    BY Frame DEF Certain
  <2> QED
    BY <2>1 DEF Punctual
<1>1. pc \in Nat /\ z[2] \in Nat
  BY StepNumbers, CertainIsAwaited DEF Steps
<1>2. CASE z[2] < pc
  BY <1>2, Frame DEF Punctual
<1>3. CASE pc' = pc + 1 /\ z[2] = pc
  BY <1>3, AwaitedIsDone, Frame
<1> QED
  BY <1>1, <1>2, <1>3, Frame

\* No turn comes between the request for e and its delivery: e sets the signal of
\* a phase in which main asks for it.
LEMMA PromptIsOwn ==
    ASSUME TypeOK, Few, Phased, Pending, Punctual, NEW e \in DOMAIN asked \ DOMAIN done,
           Prompt(H, Certain, e)
    PROVE  SignalIn(e, phase) \in OwnSignals(H, e)
<1>1. pc \in Nat /\ \A j \in Steps(H, {"turn"}) : j \in Nat
  BY StepNumbers DEF Steps
<1>2. PICK a \in Asks(H, e) : a < pc
  BY DEF Pending
<1>3. a \in Nat
  BY StepNumbers DEF Asks, Steps
<1>4. ASSUME NEW t \in Steps(H, {"turn"}), t < pc
      PROVE  t < a
  <2> SUFFICES ASSUME ~(t < a)
               PROVE  FALSE
    OBVIOUS
  <2>1. PICK z \in Certain : z[1] = e /\ z[2] < t
    BY DEF Prompt
  <2>2. z[2] < pc
    <3>1. z[2] \in Nat
      BY StepNumbers, CertainIsAwaited DEF Steps
    <3> QED
      BY <1>1, <1>4, <2>1, <3>1
  <2> QED
    BY <2>1, <2>2 DEF Punctual
<1>5. {j \in Steps(H, {"turn"}) : j < pc} = {j \in Steps(H, {"turn"}) : j < a}
  BY <1>1, <1>2, <1>3, <1>4
<1>6. PhasesAt(H, pc) = PhasesAt(H, a)
  BY <1>5 DEF PhasesAt
<1>7. phase \in PhasesAt(H, a)
  BY <1>6 DEF Phased
<1> QED
  BY <1>7, SignalIsOfTable DEF OwnSignals

\* A delivery sets what its effect is sure to set.
LEMMA DeliveredIsVoiced ==
    ASSUME TypeOK, Few, Phased, Pending, Punctual, NEW e \in DOMAIN asked \ DOMAIN done
    PROVE  SignalIn(e, phase) \in Emits(H, Certain, e)
<1>1. CASE Prompt(H, Certain, e)
  BY <1>1, PromptIsOwn DEF Emits
<1>2. CASE ~Prompt(H, Certain, e)
  BY <1>2, SignalIsSet DEF Emits, TypeOK
<1> QED
  BY <1>1, <1>2

\* What is certain of the run does not change.
LEMMA CertainIsFixed ==
    ASSUME TypeOK, [Next]_vars
    PROVE  Certain' = Certain
<1>1. H' = H /\ build' = build
  BY Frame
<1> QED
  BY <1>1 DEF Certain

\* What a step delivers.
LEMMA NewIsDelivered ==
    ASSUME TypeOK, [Next]_vars, NEW e \in DOMAIN done' \ DOMAIN done
    PROVE  /\ e \in DOMAIN asked \ DOMAIN done /\ Deliver(e)
           /\ done'[e] = phase /\ pc' = pc /\ exit = Running
<1>1. Pumps
  BY Frame DEF Next, Main, Arranged, Asking, Signalled, TimedOut, Polled, Slept, Cleared, Closed,
     Turned, Looked, Climbed, Returned, Over, vars, pumpVars
<1> QED
  BY <1>1 DEF Pumps, Deliver, Note, mainVars

LEMMA VoicedStep ==
    TypeOK /\ Few /\ Phased /\ Pending /\ Punctual /\ Voiced /\ [Next]_vars => Voiced'
<1> SUFFICES ASSUME TypeOK, Few, Phased, Pending, Punctual, Voiced, [Next]_vars
             PROVE  Voiced'
  OBVIOUS
<1>1. H' = H /\ build' = build /\ Certain' = Certain
  BY Frame, CertainIsFixed
<1>2. ASSUME NEW e \in DOMAIN done'
      PROVE  SignalIn(e, done'[e]) \in Emits(H, Certain, e)
  <2>1. CASE e \in DOMAIN done
    BY <2>1, DoneIsKept DEF Voiced
  <2>2. CASE e \notin DOMAIN done
    BY <2>2, NewIsDelivered, DeliveredIsVoiced
  <2> QED
    BY <2>1, <2>2
<1> QED
  BY <1>1, <1>2 DEF Voiced, SignalIn, Effects

\* A signal that was not set is of a delivery.
LEMMA NewIsSet ==
    ASSUME [Next]_vars, NEW s \in signals' \ signals
    PROVE  \E e \in DOMAIN asked \ DOMAIN done : Deliver(e) /\ s = SignalIn(e, phase)
<1>1. Pumps
  BY DEF Next, Main, Arranged, Asking, Signalled, TimedOut, Polled, Slept, Cleared, Closed, Turned,
     Looked, Climbed, Returned, Over, vars
<1> QED
  BY <1>1 DEF Pumps, Deliver

\* A signal that stays set is not taken.
LEMMA SpentNot ==
    ASSUME TypeOK, [Next]_vars, NEW e, NEW s \in signals, s \in signals',
           ~Spent(H, Certain, e, s, pc)
    PROVE  ~Spent(H, Certain, e, s, pc')
<1> SUFFICES ASSUME NEW w \in Waits(H, s), NEW z \in Certain, w < pc', z[1] = e, z[2] <= w
             PROVE  FALSE
  BY DEF Spent
<1>1. /\ pc \in Nat /\ w \in Nat /\ Step = programs[H][pc]
      /\ w \in Steps(H, {"wait"}) /\ programs[H][w].signal = s
  BY StepNumbers DEF Waits, Steps
<1>2. w = pc /\ pc' = pc + 1
  BY <1>1, Frame DEF Spent
<1>3. Step.op = "wait" /\ Step.signal = s
  BY <1>1, <1>2 DEF Steps
<1>4. Signalled \/ TimedOut
  BY <1>2, <1>3, MainMoves DEF Main, Arranged, Asking, Polled, Slept, Cleared, Closed, Turned, Looked,
     Climbed, Returned, At
<1> QED
  BY <1>3, <1>4 DEF Signalled, TimedOut

LEMMA FreshStep ==
    TypeOK /\ TypeOK' /\ Few /\ Pending /\ Punctual /\ Fresh /\ [Next]_vars => Fresh'
<1> SUFFICES ASSUME TypeOK, TypeOK', Few, Pending, Punctual, Fresh, [Next]_vars
             PROVE  Fresh'
  OBVIOUS
<1>1. H' = H /\ Certain' = Certain /\ pc \in Nat /\ pc' \in Nat
  BY StepNumbers, Frame, CertainIsFixed
<1>2. SUFFICES ASSUME NEW s \in signals', NEW n \in Nat, n = pc'
               PROVE  \E e \in DOMAIN done' : Came(e, s, n)' /\ ~Spent(H, Certain, e, s, n)
  <2>1. \A s \in signals' : \E e \in DOMAIN done' :
          Came(e, s, pc)' /\ ~Spent(H, Certain, e, s, pc')
    BY <1>1, <1>2 DEF Came
  <2> QED
    BY <1>1, <2>1 DEF Fresh
<1>3. CASE s \in signals
  <2>1. PICK e \in DOMAIN done : Came(e, s, pc) /\ ~Spent(H, Certain, e, s, pc)
    BY <1>3 DEF Fresh
  <2>2. e \in DOMAIN done' /\ Came(e, s, n)'
    BY <1>2, <1>3, <2>1, CameOn
  <2>3. ~Spent(H, Certain, e, s, n)
    BY <1>2, <1>3, <2>1, SpentNot
  <2> QED
    BY <2>2, <2>3
<1>4. CASE s \notin signals
  <2>1. PICK e \in DOMAIN asked \ DOMAIN done : Deliver(e) /\ s = SignalIn(e, phase)
    BY <1>4, NewIsSet
  <2>2. e \in DOMAIN done' /\ Came(e, s, n)'
    BY <1>2, <2>1, CameNew
  <2>3. n = pc
    BY <1>2, <2>1 DEF Deliver, mainVars
  <2>4. ~Spent(H, Certain, e, s, n)
    <3> SUFFICES ASSUME NEW w \in Waits(H, s), NEW z \in Certain, w < n, z[1] = e, z[2] <= w
                 PROVE  FALSE
      BY DEF Spent
    <3>1. w \in Nat /\ z[2] \in Nat
      BY StepNumbers, CertainIsAwaited DEF Waits, Steps
    <3>2. z[2] < pc
      BY <1>1, <2>3, <3>1
    <3> QED
      BY <3>2 DEF Punctual
  <2> QED
    BY <2>2, <2>4
<1> QED
  BY <1>3, <1>4

\* What main resets is reset at a step the text names.
LEMMA ResetIsNamed ==
    ASSUME TypeOK, [Next]_vars, NEW s \in signals \ signals'
    PROVE  pc \in Clears(H, s) \cup Waits(H, s) /\ pc' = pc + 1
<1>1. pc \in DOMAIN programs[H] /\ Step = programs[H][pc]
  BY StepNumbers
<1>2. Signalled \/ Cleared
  BY DEF Next, Main, Arranged, Asking, TimedOut, Polled, Slept, Closed, Turned, Looked, Climbed,
     Returned, Pumps, Deliver, Over, vars
<1>3. CASE Signalled
  BY <1>1, <1>3 DEF Signalled, At, GoOn, Waits, Steps
<1>4. CASE Cleared
  BY <1>1, <1>4 DEF Cleared, At, GoOn, Clears, Steps
<1> QED
  BY <1>2, <1>3, <1>4

LEMMA LastingStep ==
    TypeOK /\ TypeOK' /\ Few /\ Phased /\ Pending /\ Punctual /\ Lasting /\ [Next]_vars => Lasting'
<1> SUFFICES ASSUME TypeOK, TypeOK', Few, Phased, Pending, Punctual, Lasting, [Next]_vars
             PROVE  Lasting'
  OBVIOUS
<1>1. H' = H /\ Certain' = Certain /\ pc \in Nat
  BY StepNumbers, Frame, CertainIsFixed
<1>2. SUFFICES ASSUME NEW e \in DOMAIN done', NEW s \in Emits(H, Certain, e),
                      Emits(H, Certain, e) = {s}, Unreset(e, s, pc')
               PROVE  s \in signals'
  BY <1>1 DEF Lasting, Unreset
<1>3. CASE e \notin DOMAIN done
  <2>1. e \in DOMAIN asked \ DOMAIN done /\ Deliver(e)
    BY <1>3, NewIsDelivered
  <2>2. SignalIn(e, phase) = s
    BY <1>2, <2>1, DeliveredIsVoiced
  <2> QED
    BY <2>1, <2>2 DEF Deliver
<1>4. CASE e \in DOMAIN done
  <2>1. PICK a \in Asks(H, e) : a < pc
    BY <1>4 DEF Pending, TypeOK
  <2>2. /\ a \in Nat
        /\ \A c \in Clears(H, s) \cup Waits(H, s) : c \in Nat
    BY StepNumbers DEF Asks, Clears, Waits, Steps
  <2>3. Unreset(e, s, pc)
    BY <1>1, <1>2, <2>2, Frame DEF Unreset
  <2>4. s \in signals
    BY <1>2, <1>4, <2>3 DEF Lasting
  <2>5. ASSUME pc \in Clears(H, s) \cup Waits(H, s), pc' = pc + 1
        PROVE  FALSE
    BY <1>1, <1>2, <2>1, <2>2, <2>5 DEF Unreset
  <2> QED
    BY <2>4, <2>5, ResetIsNamed
<1> QED
  BY <1>3, <1>4

\* What e is sure to have set, and nothing has reset, step i finds set.
LEMMA FoundIsSet ==
    ASSUME Lasting, NEW e \in DOMAIN done, Finds(H, Certain, e, pc)
    PROVE  programs[H][pc].signal \in signals
BY DEF Lasting, Finds, Unreset

\* Main reads what it is sure to read.
LEMMA SureIsRead ==
    ASSUME TypeOK, Lawful, Few, Posted, Timely, Punctual, Voiced, Fresh, Lasting, [Next]_vars,
           pc' = pc + 1, NEW x \in Sure(H, build.faults, Certain), x[1] = pc
    PROVE  reads'[Reading(pc)] = x[2]
<1>1. /\ pc \in DOMAIN programs[H] /\ Step = programs[H][pc]
      /\ pc \in Readers
      /\ \/ x[2] = TRUE /\ SureTrue(H, build.faults, Certain, pc)
         \/ x[2] = FALSE /\ SureFalse(H, build.faults, Certain, pc)
  BY StepNumbers DEF Sure, Readers
<1>2. /\ Signalled \/ TimedOut \/ Polled \/ Looked
      /\ Step.reading = Reading(pc)
  BY <1>1, ReaderReads
<1>3. CASE Looked
  <2>1. reads'[Reading(pc)] = (Step.faults \cap build.faults # {}) /\ Step.op = "look"
    BY <1>2, <1>3 DEF Looked, At, Read, Note
  <2> QED
    BY <1>1, <2>1 DEF SureTrue, SureFalse
<1>4. CASE Signalled \/ TimedOut \/ Polled
  <2>1. /\ Step.op \in {"wait", "poll"}
        /\ Step.signal \in signals => reads'[Reading(pc)] = TRUE
        /\ Step.signal \notin signals => reads'[Reading(pc)] = FALSE
    <3>1. CASE Signalled
      BY <1>2, <3>1 DEF Signalled, At, Read, Note
    <3>2. CASE TimedOut
      BY <1>2, <3>2 DEF TimedOut, At, Read, Note
    <3>3. CASE Polled
      <4>1. reads'[Reading(pc)] = (Step.signal \in signals)
        BY <1>2, <3>3 DEF Polled, Read, Note
      <4>2. Step.op = "poll"
        BY <3>3 DEF Polled, At
      <4>3. /\ Step.signal \in signals => (Step.signal \in signals) = TRUE
            /\ Step.signal \notin signals => (Step.signal \in signals) = FALSE
        OBVIOUS
      <4> QED
        BY <4>1, <4>2, <4>3, Zenon
    <3> QED
      BY <1>4, <3>1, <3>2, <3>3
  <2>2. ASSUME SureFalse(H, build.faults, Certain, pc)
        PROVE  Step.signal \notin signals
    <3>1. Setters(H, build.faults, Certain, Step.signal, pc) = {}
      BY <1>1, <2>1, <2>2 DEF SureFalse
    <3> QED
      BY <3>1, SetterIsDone
  <2>3. ASSUME SureTrue(H, build.faults, Certain, pc)
        PROVE  Step.signal \in signals
    <3>1. CASE Step.op = "poll"
      <4>1. PICK z \in Certain : z[2] < pc /\ Finds(H, Certain, z[1], pc)
        BY <1>1, <2>3, <3>1 DEF SureTrue
      <4>2. z[1] \in DOMAIN done
        BY <4>1 DEF Punctual
      <4> QED
        BY <1>1, <4>1, <4>2, FoundIsSet
    <3>2. CASE Step.op = "wait"
      <4>1. PICK e \in Ready(H, build.faults, Certain, pc) : Finds(H, Certain, e, pc)
        BY <1>1, <2>3, <3>2 DEF SureTrue
      <4>2. CASE Signalled
        BY <4>2 DEF Signalled
      <4>3. CASE TimedOut
        <5>1. Quiet
          BY <4>3, TimelyIsQuiet DEF TimedOut
        <5>2. e \in DOMAIN done
          BY <4>1, <5>1, ReadyIsDone
        <5> QED
          BY <1>1, <4>1, <5>2, FoundIsSet
      <4> QED
        BY <1>4, <3>2, <4>2, <4>3 DEF Polled, At
    <3> QED
      BY <2>1, <3>1, <3>2
  <2> QED
    BY <1>1, <2>1, <2>2, <2>3
<1> QED
  BY <1>2, <1>3, <1>4

LEMMA ForeseenStep ==
    TypeOK /\ Lawful /\ Recorded /\ Few /\ Posted /\ Timely /\ Punctual /\ Voiced /\ Fresh
    /\ Lasting /\ Foreseen /\ [Next]_vars => Foreseen'
<1> SUFFICES ASSUME TypeOK, Lawful, Recorded, Few, Posted, Timely, Punctual, Voiced, Fresh,
                    Lasting, Foreseen, [Next]_vars
             PROVE  Foreseen'
  OBVIOUS
<1>1. H' = H /\ build' = build /\ Certain' = Certain /\ pc \in Nat
  BY StepNumbers, Frame, CertainIsFixed
<1>2. SUFFICES ASSUME NEW x \in Sure(H, build.faults, Certain), x[1] < pc',
                      ReadAt(H, Reading(x[1]), x[1])
               PROVE  reads'[Reading(x[1])] = x[2]
  BY <1>1 DEF Foreseen, Reading
<1>3. x[1] \in Readers /\ x[1] \in Nat
  BY StepNumbers DEF Sure, Readers, Steps
<1>4. CASE x[1] < pc
  <2>1. reads'[Reading(x[1])] = reads[Reading(x[1])]
    BY <1>1, <1>2, <1>3, <1>4, ReadIsKept DEF Recorded
  <2> QED
    BY <1>2, <1>4, <2>1 DEF Foreseen
<1>5. CASE x[1] = pc /\ pc' = pc + 1
  BY <1>5, SureIsRead
<1> QED
  BY <1>1, <1>2, <1>3, <1>4, <1>5, Frame

\* What main knows is what it has read.
LEMMA KnownIsRead ==
    ASSUME TypeOK, Recorded, Foreseen, NEW r, NEW v,
           Knows(H, Sure(H, build.faults, Certain), r, v, pc)
    PROVE  r \in DOMAIN reads /\ reads[r] = v
<1>1. PICK x \in Sure(H, build.faults, Certain) :
        x[1] < pc /\ x[2] = v /\ Reading(x[1]) = r /\ ReadAt(H, r, x[1])
  BY DEF Knows, Reading
<1>2. x[1] \in Readers
  BY DEF Sure, Readers
<1> QED
  BY <1>1, <1>2 DEF Recorded, Foreseen

LEMMA ClimbingStep ==
    TypeOK /\ Recorded /\ Foreseen /\ Climbing /\ [Next]_vars => Climbing'
<1> SUFFICES ASSUME TypeOK, Recorded, Foreseen, Climbing, [Next]_vars
             PROVE  Climbing'
  OBVIOUS
<1> DEFINE K == Sure(H, build.faults, Certain)
<1>1. H' = H /\ build' = build /\ Certain' = Certain
      /\ pc \in Nat /\ Step = programs[H][pc]
  BY StepNumbers, Frame, CertainIsFixed
<1>2. SUFFICES ASSUME NEW j \in Steps(H, {"rung"}), j < pc', Halts(H, K, j)
               PROVE  FALSE
  BY <1>1 DEF Climbing
<1>3. j \in Nat
  BY StepNumbers DEF Steps
<1>4. CASE j < pc
  BY <1>2, <1>4 DEF Climbing
<1>5. CASE j = pc /\ pc' = pc + 1
  <2>1. Step.op = "rung"
    BY <1>1, <1>5 DEF Steps
  <2>2. Climbed
    BY <1>5, <2>1, MainMoves DEF Main, Arranged, Asking, Signalled, TimedOut, Polled, Slept, Cleared,
       Closed, Turned, Looked, Returned, At
  <2>3. ~RungFits
    BY <1>1, <1>5, <2>2 DEF Climbed, Stop
  <2>4. PICK p \in Step.patterns : \A r \in DOMAIN p : Knows(H, K, r, p[r], pc)
    BY <1>1, <1>2, <1>5 DEF Halts
  <2>5. Fits(p)
    BY <2>4, KnownIsRead DEF Fits
  <2> QED
    BY <2>3, <2>5 DEF RungFits
<1> QED
  BY <1>1, <1>2, <1>3, <1>4, <1>5, Frame

LEMMA FittedStep == TypeOK /\ Fitted /\ [Next]_vars => Fitted'
<1> SUFFICES ASSUME TypeOK, Fitted, [Next]_vars, exit' # Running, Step'.op = "rung"
             PROVE  RungFits'
  BY DEF Fitted
<1>1. build' = build
  BY Frame
<1>2. pc' = pc /\ reads' = reads
  BY DEF Next, Main, Arranged, Asking, Signalled, TimedOut, Polled, Slept, Cleared, Closed,
     Turned, Looked, Climbed, Returned, Pumps, Deliver, Over, vars, mainVars, GoOn, Stop, At
<1>3. Step' = Step
  BY <1>1, <1>2 DEF Step, Program
<1>4. RungFits
  BY <1>3 DEF Fitted, Next, Main, Arranged, Asking, Signalled, TimedOut, Polled, Slept, Cleared,
     Closed, Turned, Looked, Climbed, Returned, Pumps, Deliver, Over, vars, mainVars, GoOn, Stop, At
<1> QED
  BY <1>2, <1>3, <1>4 DEF RungFits, Fits

LEMMA TimingInit == Init => Timing
<1> SUFFICES ASSUME Init
             PROVE  Timing
  OBVIOUS
<1>1. pc = 1 /\ exit = Running /\ signals = {} /\ DOMAIN done = {}
  BY DEF Init
<1>2. TypeOK
  BY TypeInit
<1>3. Few
  BY DEF Init, Builds, Few, H
<1>4. \A i \in DOMAIN programs[H] : ~(i < pc)
  BY <1>1, <1>2, StepNumbers
<1>5. Posted
  BY <1>4 DEF Posted, Open, Asks, Steps
<1>6. Punctual
  BY <1>2, <1>3, <1>4, CertainIsAwaited DEF Punctual, Steps
<1>7. Foreseen
  BY <1>4 DEF Foreseen, Sure, Steps
<1>8. Climbing
  BY <1>4 DEF Climbing, Steps
<1> QED
  BY <1>1, <1>3, <1>5, <1>6, <1>7, <1>8 DEF Timing, Fitted, Voiced, Fresh, Lasting

LEMMA Foreseeing == Spec => [](IInv /\ Sights /\ Timing)
<1>1. IInv /\ Sights /\ IInv' /\ Timing /\ [Next]_vars => Timing'
  <2> SUFFICES ASSUME IInv, Sights, IInv', Timing, [Next]_vars
               PROVE  Timing'
    OBVIOUS
  <2>1. TypeOK /\ TypeOK' /\ Lawful /\ Pending /\ Recorded /\ Phased
    BY DEF IInv, Sights
  <2>2. Few' /\ Timely' = Timely
    BY <2>1, Frame DEF Timing, Few, Timely
  <2>3. Posted' /\ Fitted'
    BY <2>1, PostedStep, FittedStep DEF Timing
  <2>4. ASSUME Timely
        PROVE  Punctual' /\ Voiced' /\ Fresh' /\ Lasting' /\ Foreseen' /\ Climbing'
    BY <2>1, <2>4, PunctualStep, VoicedStep, FreshStep, LastingStep, ForeseenStep, ClimbingStep
       DEF Timing
  <2> QED
    BY <2>2, <2>3, <2>4 DEF Timing
<1> QED
  BY TimingInit, Seeing, <1>1, PTL DEF Spec

\* On a timely machine main does not stop where it would be wrong.
LEMMA NeverWrong ==
    ASSUME TypeOK, Recorded, Timing, Timely, exit # Running
    PROVE  ~Wrong(H, build.faults, pc)
<1> SUFFICES ASSUME Wrong(H, build.faults, pc)
             PROVE  FALSE
  OBVIOUS
<1> DEFINE K == Sure(H, build.faults, Certain)
<1>1. pc \in DOMAIN programs[H] /\ Step = programs[H][pc]
  BY StepNumbers
<1>2. Foreseen /\ Climbing /\ Fitted
  BY DEF Timing
<1>3. \/ Step.op = "rung" /\ LetsPass(H, K, pc)
      \/ \E j \in Steps(H, {"rung"}) : Halts(H, K, j) /\ j < pc
  BY <1>1, BuildIsJudged DEF Judges, Certain, Timing
<1>4. CASE Step.op = "rung" /\ LetsPass(H, K, pc)
  <2>1. PICK p \in Step.patterns : Fits(p)
    BY <1>2, <1>4 DEF Fitted, RungFits
  <2>2. PICK r \in DOMAIN p : Knows(H, K, r, ~p[r], pc)
    BY <1>1, <1>4 DEF LetsPass
  <2>3. r \in DOMAIN reads /\ reads[r] = ~p[r]
    BY <1>2, <2>2, KnownIsRead
  <2>4. reads[r] = p[r] /\ reads[r] \in BOOLEAN
    BY <2>1, <2>3 DEF Fits, TypeOK
  <2> QED
    BY <2>3, <2>4
<1>5. CASE \E j \in Steps(H, {"rung"}) : Halts(H, K, j) /\ j < pc
  BY <1>2, <1>5 DEF Climbing
<1> QED
  BY <1>3, <1>4, <1>5

\* On a timely machine a harness passes the sound builds and no other, unless a
\* setup fails, and accuses a build of a fault it has: for every table whose
\* texts say so of the builds with up to MaxTrouble faults
\* (VerdictAssumption).
THEOREM Separation == Spec => []Discriminates
<1>1. IInv /\ Sights /\ Timing => Discriminates
  <2> SUFFICES ASSUME IInv, Sights, Timing, Timely, exit # Running
               PROVE  /\ exit = Pass => Sound
                      /\ Sound => exit = Pass \/ Step.op = "arrange"
                      /\ Accuses => Guilty
    BY DEF Discriminates
  <2>1. TypeOK /\ Recorded
    BY DEF IInv
  <2>2. ~Wrong(H, build.faults, pc) /\ Step = programs[H][pc]
    BY <2>1, NeverWrong, StepNumbers
  <2>3. Step.op \in {"arrange", "rung", "return"} /\ exit = Step.code
    BY DEF Sights, Coded
  <2> QED
    BY <2>2, <2>3 DEF Wrong, Sound, H, Accuses, Guilty
<1> QED
  BY <1>1, Foreseeing, PTL
=============================================================================
