------------------------- MODULE BackpressureProofs -------------------------
(***************************************************************************)
(* What the verdicts of p2p_backpressure are evidence of, for every batch, *)
(* marks and number of parked messages, and however short the waits.       *)
(*                                                                         *)
(* A message is in one place at a time (Books), so a control batch that    *)
(* arrived has left nothing behind, and a batch of which a hold lost some  *)
(* never arrives; what main saw is what the build does (Seen); and the     *)
(* pressure is on from the last post to the release (Stage), which is why  *)
(* a count that moves in that window was moved by a read.                  *)
(***************************************************************************)
EXTENDS Backpressure, TLAPS

\* How many messages main has posted at most.
Posted ==
    IF pc = "setup" THEN 0 ELSE IF pc = "control" THEN i ELSE IF pc = "flood" THEN Batch + i
    ELSE IF pc \in {"awaitControl", "createPark", "awaitPark", "press", "settle"} THEN Batch
    ELSE 2 * Batch

\* What left a place arrived at the next, but for what a hold has lost.
Books == out + wire + queue + recv + (IF build["keeps"] THEN 0 ELSE holds) <= Posted

\* Where main is says how far the pressure and the park thread can be.
Stage ==
    /\ pc \in {"setup", "control", "awaitControl", "createPark"} => park = "none" /\ ~saw["parked"]
    /\ pc \in {"setup", "control", "awaitControl", "createPark", "awaitPark"} => parked = 0
    /\ pc = "press" => parked = i
    /\ pc \in {"press", "settle", "flood", "look", "lookCounts"} => park = "up" /\ saw["parked"]
    /\ pc \in {"settle", "flood", "look", "lookCounts"} => parked = Parks
    /\ drain => pc \in {"join", "awaitAll", "verdict", "done"}
    /\ park \in {"closing", "closed"} => drain
    /\ pc \notin {"control", "flood", "press"} => i = 0
    /\ pc = "setup" => holds = 0 /\ ~saw["control"] /\ ~saw["pressed"]

\* What main saw, the build has done.
Seen ==
    /\ holds > 0 => build["holds"] /\ build["marks"]
    /\ saw["control"] => recv >= Batch
    /\ saw["pressed"] => build["marks"]
    /\ saw["counted"] => holds > 0 /\ build["hub"] /\ build["process"]
    /\ saw["resumed"] => recv >= 2 * Batch
    /\ exit # Gate!Running <=> pc = "done"
    /\ pc = "done" => exit \in {Gate!Setup, ExitCode}

\* From the control batch to the look, the count is where it was.
Window ==
    saw["control"] =>
        /\ pc \in {"press", "settle", "flood", "look"} => base["recv"] = Batch
        /\ /\ pc \in {"flood", "look"} /\ saw["pressed"] /\ build["holds"] /\ build["first"]
           => recv = Batch /\ queue = 0
        /\ /\ pc \in {"lookCounts", "release", "join", "awaitAll", "verdict", "done"}
           /\ saw["parked"] /\ saw["pressed"] /\ build["holds"] /\ build["first"]
           => saw["quiet"]

\* The one hold and the one resume of a build with two marks.
Once ==
    build["lowMark"] =>
        \/ holds = 0 /\ ~held
        \/ holds = 1 /\ held /\ (drain \/ parked + 2 * Batch >= High)
        \/ holds = 1 /\ ~held /\ drain /\ parked <= Low

IInv == TypeOK /\ Books /\ Stage /\ Seen /\ Window /\ Once

LEMMA AllInit == Init => IInv
<1> SUFFICES ASSUME Init
             PROVE  IInv
  OBVIOUS
<1> USE MarksAssumption DEF Init
<1>1. TypeOK
  <2>1. saw \in [Sights -> BOOLEAN] /\ held \in BOOLEAN /\ drain \in BOOLEAN
    BY Zenon
  <2> QED
    BY <2>1 DEF TypeOK, Bases
<1>2. Stage /\ Window
  BY DEF Stage, Window, Sights
<1>3. Books /\ Once
  BY DEF Books, Posted, Once
<1>4. Seen
  BY DEF Seen, Sights
<1> QED
  BY <1>1, <1>2, <1>3, <1>4 DEF IInv

\* Main's sightings are truth values.
LEMMA SawStep == TypeOK /\ [Next]_vars => saw' \in [Sights -> BOOLEAN]
<1> SUFFICES ASSUME TypeOK, [Next]_vars
             PROVE  saw' \in [Sights -> BOOLEAN]
  OBVIOUS
<1>1. \A s, v : saw' = [saw EXCEPT ![s] = v] /\ v \in BOOLEAN => saw' \in [Sights -> BOOLEAN]
  BY DEF TypeOK
<1>2. CASE UNCHANGED saw
  BY <1>2 DEF TypeOK
<1>3. CASE AwaitControl \/ AwaitAll
  <2>1. (recv >= Batch) \in BOOLEAN /\ (recv >= 2 * Batch) \in BOOLEAN
    BY MarksAssumption DEF TypeOK
  <2> QED
    BY <1>1, <1>3, <2>1, Zenon DEF AwaitControl, AwaitAll, WaitForRecv
<1>4. CASE AwaitPark
  BY <1>1, <1>4, Zenon DEF AwaitPark
<1>5. CASE Settle
  BY <1>1, <1>5, Zenon DEF Settle, Pressed
<1>6. CASE Look \/ LookCounts
  BY <1>1, <1>6, Zenon DEF Look, LookCounts
<1> QED
  BY <1>2, <1>3, <1>4, <1>5, <1>6, Zenon DEF Next, Main, SetUp, Return, PostBatch, CreatePark, Press,
     Release, Join, Verdict, Network, Send, Hold, Parse, Resume, Handle, Park, CreatePump,
     SeeDrain, ClosePump, Done, vars, mainVars

LEMMA TypeStep == TypeOK /\ Stage /\ [Next]_vars => TypeOK'
<1> SUFFICES ASSUME TypeOK, Stage, [Next]_vars
             PROVE  TypeOK'
  OBVIOUS
<1> USE MarksAssumption
<1>0. saw' \in [Sights -> BOOLEAN]
  BY SawStep DEF TypeOK
<1>1. CASE SetUp
  BY <1>1 DEF SetUp, Return, netVars, parkVars, TypeOK, Stage, Gate!ExitCodes, Gate!Setup
<1>2. CASE PostBatch
  BY <1>2 DEF PostBatch, parkVars, TypeOK, Bases, Count
<1>3. CASE AwaitControl \/ AwaitAll
  BY <1>0, <1>3 DEF AwaitControl, AwaitAll, WaitForRecv, netVars, parkVars, TypeOK, Stage
<1>4. CASE CreatePark \/ AwaitPark
  BY <1>0, <1>4 DEF CreatePark, AwaitPark, netVars, parkVars, TypeOK, Stage, Bases, Count
<1>5. CASE Press
  BY <1>5 DEF Press, netVars, TypeOK, Stage
<1>6. CASE Settle \/ Look \/ LookCounts
  BY <1>0, <1>6 DEF Settle, Look, LookCounts, netVars, parkVars, TypeOK, Stage
<1>7. CASE Release \/ Join
  BY <1>7 DEF Release, Join, netVars, parkVars, TypeOK, Stage
<1>8. CASE Verdict
  BY <1>8 DEF Verdict, Return, ExitCode, netVars, parkVars, TypeOK, Stage, Gate!ExitCodes,
     Gate!Pass, Gate!Fail, Gate!Inconclusive
<1>9. CASE Network
  <2>1. CASE Hold
    BY <1>0, <2>1 DEF Hold, CanComplete, mainVars, parkVars, TypeOK
  <2>2. CASE Send \/ Parse \/ Handle
    BY <1>0, <2>2 DEF Send, Parse, Handle, CanComplete, mainVars, parkVars, TypeOK
  <2>3. CASE Resume
    BY <1>0, <2>3 DEF Resume, mainVars, parkVars, TypeOK
  <2> QED
    BY <1>9, <2>1, <2>2, <2>3 DEF Network
<1>10. CASE Park \/ Done \/ UNCHANGED vars
  BY <1>10 DEF Park, CreatePump, SeeDrain, ClosePump, Done, mainVars, netVars, parkVars, vars, TypeOK
<1> QED
  BY <1>1, <1>2, <1>3, <1>4, <1>5, <1>6, <1>7, <1>8, <1>9, <1>10 DEF Next, Main

LEMMA StageStep == TypeOK /\ Books /\ Stage /\ [Next]_vars => Stage'
<1> SUFFICES ASSUME TypeOK, Books, Stage, [Next]_vars
             PROVE  Stage'
  OBVIOUS
<1> USE MarksAssumption DEF Stage, TypeOK
<1>1. CASE SetUp
  BY <1>1 DEF SetUp, Return, netVars, parkVars
<1>2. CASE PostBatch
  BY <1>2 DEF PostBatch, parkVars
<1>3. CASE AwaitControl \/ AwaitAll
  BY <1>3 DEF AwaitControl, AwaitAll, WaitForRecv, netVars, parkVars, Sights
<1>4. CASE CreatePark
  BY <1>4 DEF CreatePark, netVars
<1>5. CASE AwaitPark
  BY <1>5 DEF AwaitPark, netVars, parkVars, Sights
<1>6. CASE Press
  BY <1>6 DEF Press, netVars
<1>7. CASE Settle \/ Look \/ LookCounts
  BY <1>7 DEF Settle, Look, LookCounts, netVars, parkVars, Sights
<1>8. CASE Release \/ Join
  BY <1>8 DEF Release, Join, netVars, parkVars
<1>9. CASE Verdict
  BY <1>9 DEF Verdict, Return, netVars, parkVars
<1>10. CASE Network
  <2>1. UNCHANGED <<mainVars, parkVars, drain>>
    BY <1>10 DEF Network, Send, Hold, Parse, Resume, Handle
  <2>2. pc = "setup" => holds' = holds
    <3>1. pc = "setup" => wire = 0
      BY DEF Books, Posted
    <3> QED
      BY <1>10, <3>1 DEF Network, Send, Hold, Parse, Resume, Handle, CanComplete
  <2> QED
    BY <2>1, <2>2 DEF mainVars, parkVars
<1>11. CASE Park \/ Done \/ UNCHANGED vars
  BY <1>11 DEF Park, CreatePump, SeeDrain, ClosePump, Done, mainVars, netVars, parkVars, vars
<1> QED
  BY <1>1, <1>2, <1>3, <1>4, <1>5, <1>6, <1>7, <1>8, <1>9, <1>10, <1>11 DEF Next, Main

LEMMA BooksStep == TypeOK /\ Books /\ Stage /\ [Next]_vars => Books'
<1> SUFFICES ASSUME TypeOK, Books, Stage, [Next]_vars
             PROVE  Books'
  OBVIOUS
<1> USE MarksAssumption DEF Books, Posted
<1>1. CASE SetUp
  BY <1>1 DEF SetUp, Return, netVars, TypeOK, Stage
<1>2. CASE PostBatch
  BY <1>2 DEF PostBatch, TypeOK
<1>3. CASE AwaitControl \/ AwaitAll
  BY <1>3 DEF AwaitControl, AwaitAll, WaitForRecv, netVars, TypeOK
<1>4. CASE CreatePark \/ AwaitPark \/ Press \/ Settle \/ Look \/ LookCounts
  BY <1>4 DEF CreatePark, AwaitPark, Press, Settle, Look, LookCounts, netVars, TypeOK, Stage
<1>5. CASE Release \/ Join \/ Verdict
  BY <1>5 DEF Release, Join, Verdict, Return, netVars, TypeOK
<1>6. CASE Hold
  BY <1>6 DEF Hold, CanComplete, mainVars, TypeOK
<1>7. CASE Send \/ Parse \/ Resume \/ Handle
  BY <1>7 DEF Send, Parse, Resume, Handle, CanComplete, mainVars, TypeOK
<1>8. CASE Park \/ Done \/ UNCHANGED vars
  BY <1>8 DEF Park, CreatePump, SeeDrain, ClosePump, Done, mainVars, netVars, vars
<1> QED
  BY <1>1, <1>2, <1>3, <1>4, <1>5, <1>6, <1>7, <1>8 DEF Next, Main, Network

LEMMA SeenStep == TypeOK /\ Stage /\ Seen /\ [Next]_vars => Seen'
<1> SUFFICES ASSUME TypeOK, Stage, Seen, [Next]_vars
             PROVE  Seen'
  OBVIOUS
<1> USE MarksAssumption DEF Seen
<1>1. CASE SetUp
  BY <1>1 DEF SetUp, Return, netVars, TypeOK, Gate!Setup, Gate!Running
<1>2. CASE PostBatch \/ CreatePark \/ Press \/ Release \/ Join
  BY <1>2 DEF PostBatch, CreatePark, Press, Release, Join, netVars
<1>3. CASE AwaitControl \/ AwaitAll
  BY <1>3 DEF AwaitControl, AwaitAll, WaitForRecv, netVars, TypeOK, Sights
<1>4. CASE AwaitPark \/ Look
  BY <1>4 DEF AwaitPark, Look, netVars, TypeOK, Sights
<1>5. CASE Settle
  BY <1>5 DEF Settle, Pressed, netVars, TypeOK, Sights
<1>6. CASE LookCounts
  <2>1. saw'["counted"] => holds > 0 /\ build["hub"] /\ build["process"]
    BY <1>6 DEF LookCounts, Count, TypeOK, Sights, Bases
  <2> QED
    BY <1>6, <2>1 DEF LookCounts, netVars, TypeOK, Sights
<1>7. CASE Verdict
  BY <1>7 DEF Verdict, Return, ExitCode, netVars, Gate!Running, Gate!Pass, Gate!Fail, Gate!Inconclusive
<1>8. CASE Hold
  BY <1>8 DEF Hold, Pressed, mainVars, TypeOK, ExitCode
<1>9. CASE Send \/ Parse \/ Resume \/ Handle
  BY <1>9 DEF Send, Parse, Resume, Handle, mainVars, TypeOK, ExitCode
<1>10. CASE Park \/ Done \/ UNCHANGED vars
  BY <1>10 DEF Park, CreatePump, SeeDrain, ClosePump, Done, mainVars, netVars, vars, ExitCode
<1> QED
  BY <1>1, <1>2, <1>3, <1>4, <1>5, <1>6, <1>7, <1>8, <1>9, <1>10 DEF Next, Main, Network

LEMMA WindowStep == TypeOK /\ Books /\ Stage /\ Seen /\ Window /\ [Next]_vars => Window'
<1> SUFFICES ASSUME TypeOK, Books, Stage, Seen, Window, [Next]_vars
             PROVE  Window'
  OBVIOUS
<1> USE MarksAssumption DEF Window
<1>1. saw["control"] /\ pc \in {"awaitPark", "press", "settle"} => recv = Batch /\ queue = 0
  BY DEF Books, Posted, Seen, TypeOK
<1>2. CASE SetUp
  BY <1>2 DEF SetUp, Return, netVars, Stage
<1>3. CASE PostBatch
  BY <1>3 DEF PostBatch, TypeOK, Bases
<1>4. CASE AwaitControl \/ AwaitAll
  BY <1>4 DEF AwaitControl, AwaitAll, WaitForRecv, netVars, TypeOK, Stage, Sights
<1>5. CASE CreatePark \/ Press \/ Release \/ Join \/ Verdict
  BY <1>5 DEF CreatePark, Press, Release, Join, Verdict, Return, netVars
<1>6. CASE AwaitPark
  BY <1>1, <1>6 DEF AwaitPark, netVars, TypeOK, Sights, Bases
<1>7. CASE Settle
  BY <1>1, <1>7 DEF Settle, netVars, TypeOK, Sights
<1>8. CASE Look \/ LookCounts
  BY <1>8 DEF Look, LookCounts, netVars, TypeOK, Sights
<1>9. CASE Network
  <2>1. UNCHANGED <<pc, saw, base, build>>
    BY <1>9 DEF Network, Send, Hold, Parse, Resume, Handle, mainVars
  <2>2. ASSUME pc \in {"flood", "look"}, saw["control"], saw["pressed"], build["holds"], build["first"]
        PROVE  recv' = recv /\ queue' = queue
    <3>1. Pressed
      BY <2>2 DEF Pressed, Live, Seen, Stage, TypeOK
    <3> QED
      BY <1>9, <2>2, <3>1 DEF Network, Send, Hold, Parse, Resume, Handle
  <2> QED
    BY <2>1, <2>2
<1>10. CASE Park \/ Done \/ UNCHANGED vars
  BY <1>10 DEF Park, CreatePump, SeeDrain, ClosePump, Done, mainVars, netVars, vars
<1> QED
  BY <1>2, <1>3, <1>4, <1>5, <1>6, <1>7, <1>8, <1>9, <1>10 DEF Next, Main

LEMMA OnceStep == TypeOK /\ Books /\ Stage /\ Once /\ [Next]_vars => Once'
<1> SUFFICES ASSUME TypeOK, Books, Stage, Once, [Next]_vars, build["lowMark"]
             PROVE  Once'
  BY DEF Next, Main, SetUp, Return, PostBatch, AwaitControl, AwaitAll, WaitForRecv, CreatePark,
     AwaitPark, Press, Settle, Look, LookCounts, Release, Join, Verdict, Network, Send, Hold,
     Parse, Resume, Handle, Park, CreatePump, SeeDrain, ClosePump, Done, vars, Once
<1> USE MarksAssumption DEF Once
<1>1. out \in Nat /\ queue \in Nat /\ wire \in Nat /\ recv \in Nat /\ parked \in Nat /\ holds \in Nat
  BY DEF TypeOK
<1>2. out + queue <= 2 * Batch
  <2>1. out + wire + queue + recv <= 2 * Batch
    BY DEF Books, Posted, TypeOK
  <2> QED
    BY <1>1, <2>1
<1>3. CASE Press
  BY <1>1, <1>3 DEF Press, netVars, Stage
<1>4. CASE Hold
  <2>1. out + queue + parked >= High
    BY <1>4 DEF Hold, Pressed, Live
  <2>2. holds = 0
    BY <1>1, <1>2, <1>4, <2>1 DEF Hold, CanComplete
  <2> QED
    BY <1>1, <1>2, <1>4, <2>1, <2>2 DEF Hold, parkVars
<1>5. CASE Resume
  <2>1. out + queue + parked <= Low
    BY <1>5 DEF Resume, CanResume, Relieved, Live
  <2> QED
    BY <1>1, <1>5, <2>1 DEF Resume, CanResume, parkVars
<1>6. CASE ClosePump
  BY <1>1, <1>6 DEF ClosePump, Stage, netVars
<1>7. CASE Release
  BY <1>7 DEF Release, netVars, parkVars
<1> QED
  BY <1>3, <1>4, <1>5, <1>6, <1>7
     DEF Next, Main, SetUp, Return, PostBatch, AwaitControl, AwaitAll, WaitForRecv, CreatePark,
     AwaitPark, Settle, Look, LookCounts, Join, Verdict, Network, Send,
     Parse, Handle, Park, CreatePump, SeeDrain, Done, vars, netVars, parkVars

\* The bookkeeping invariant holds throughout.
THEOREM Invariance == Spec => []IInv
<1>1. IInv /\ [Next]_vars => IInv'
  BY TypeStep, BooksStep, StageStep, SeenStep, WindowStep, OnceStep DEF IInv
<1> QED
  BY AllInit, <1>1, PTL DEF Spec

\* Every variable keeps its type.
THEOREM Typing == Spec => []TypeOK
  BY Invariance, PTL DEF IInv

\* "THE READ WAS NEVER HELD" is said only of a build that read on.
THEOREM NeverHeld == Spec => []NeverHeldIsTrue
<1>1. IInv => NeverHeldIsTrue
  BY DEF IInv, Seen, Window, NeverHeldIsTrue, ExitCode, Gate!Running, Gate!Fail, Gate!Setup,
     Gate!Inconclusive, Gate!Pass
<1> QED
  BY <1>1, Invariance, PTL

\* Two marks hold a connection once per pressing.
THEOREM Hysteresis == Spec => []HeldOnce
<1>1. IInv => HeldOnce
  BY DEF IInv, Once, HeldOnce
<1> QED
  BY <1>1, Invariance, PTL

\* The harness implements a gate: only a build that applies the marks, holds,
\* keeps and counts passes.
THEOREM Refinement == Spec => PassIsEvidence
<1>1. Init => Gate!GateInit
  BY DEF Init, Gate!GateInit
<1>2. IInv /\ IInv' /\ [Next]_vars => [Gate!GateNext]_(Gate!gateVars)
  <2> SUFFICES ASSUME IInv, IInv', [Next]_vars
               PROVE  Gate!GateNext \/ UNCHANGED <<build, exit>>
    BY DEF Gate!gateVars
  <2>1. build' = build
    BY DEF Next, Main, SetUp, PostBatch, AwaitControl, AwaitAll, WaitForRecv, CreatePark,
       AwaitPark, Press, Settle, Look, LookCounts, Release, Join, Verdict, Network, Send, Hold,
       Parse, Resume, Handle, Park, CreatePump, SeeDrain, ClosePump, Done, vars
  <2>2. CASE SetUp \/ Verdict
    <3>1. exit = Gate!Running
      BY <2>2 DEF IInv, Seen, SetUp, Verdict
    <3>2. exit' = Gate!Pass => build \in GoodBuilds
      <4> SUFFICES ASSUME exit' = Gate!Pass
                   PROVE  build \in GoodBuilds
        OBVIOUS
      <4>1. saw'["pressed"] /\ saw'["counted"] /\ saw'["resumed"] /\ pc' = "done"
        BY DEF IInv, Seen, ExitCode, Gate!Pass, Gate!Running, Gate!Setup, Gate!Fail, Gate!Inconclusive
      <4>2. holds' > 0 /\ recv' >= 2 * Batch /\ \A f \in {"marks", "holds", "hub", "process"} : build[f]
        BY <2>1, <4>1 DEF IInv, Seen
      <4>3. build["keeps"]
        BY <2>1, <4>1, <4>2, MarksAssumption DEF IInv, Books, Posted, TypeOK
      <4> QED
        BY <4>2, <4>3 DEF IInv, TypeOK, GoodBuilds
    <3>3. exit' # exit => exit' \in Gate!ExitCodes
      BY <3>1 DEF IInv, TypeOK
    <3>4. exit' # exit => Gate!Return(exit')
      BY <2>1, <3>1, <3>2 DEF Gate!Return
    <3> QED
      BY <2>1, <3>3, <3>4 DEF Gate!GateNext
  <2>3. CASE ~SetUp /\ ~Verdict
    <3>1. exit' = exit
      BY <2>3 DEF Next, Main, PostBatch, AwaitControl, AwaitAll, WaitForRecv, CreatePark,
         AwaitPark, Press, Settle, Look, LookCounts, Release, Join, Network, Send, Hold,
         Parse, Resume, Handle, Park, CreatePump, SeeDrain, ClosePump, Done, vars, mainVars
    <3> QED
      BY <2>1, <3>1
  <2> QED
    BY <2>2, <2>3
<1> QED
  BY <1>1, <1>2, Invariance, PTL DEF Spec, PassIsEvidence, Gate!GateSpec
-----------------------------------------------------------------------------
(* The waits that are long enough                                          *)
(*                                                                         *)
(* A timely wait ends with nothing left to happen.  Of a build that keeps  *)
(* what it holds the books are then exact (Kept), so a second batch that   *)
(* did not arrive is on the wire and only a hold can have it there; and no *)
(* hold is older than the pressing (Unpressed), so the counts are of this  *)
(* one.  That makes each sighting complete as well as true (Looked).  The  *)
(* park thread is up or has failed by the join, and drained (Thread).      *)

\* Where the park thread is.
Thread ==
    /\ pc \in {"join", "awaitAll", "verdict"} => drain
    /\ pc \notin {"setup", "control", "awaitControl", "createPark", "done"} => park # "none"
    /\ park \notin {"up", "closing"} => parked = 0
    /\ Timely /\ pc \in {"awaitAll", "verdict"} => park \in {"closed", "failed"}

\* What is kept is counted exactly, unless the park failed and there was no
\* second batch.
Kept ==
    /\ build["keeps"] /\ pc # "done" /\ (pc \in {"release", "join", "verdict"} => saw["parked"])
       => out + wire + queue + recv = Posted
    /\ pc = "awaitAll" => saw["parked"]

\* No hold is older than the pressing, and what a hold leaves behind.
Unpressed ==
    /\ pc \in {"setup", "control", "awaitControl", "createPark", "awaitPark"} => holds = 0
    /\ base["hub"] = 0 /\ base["process"] = 0
    /\ held => holds > 0
    /\ holds > 0 /\ ~build["resumes"] => held
    /\ saw["control"] /\ build["keeps"] /\ ~build["first"]
       => recv + queue >= Batch /\ (holds > 0 => recv + queue > Batch)

\* Main looks in this order.
Looks ==
    /\ saw["quiet"] => pc \in {"lookCounts", "release", "join", "awaitAll", "verdict", "done"}
    /\ saw["counted"] => pc \in {"release", "join", "awaitAll", "verdict", "done"}
    /\ saw["resumed"] => pc \in {"verdict", "done"}

\* Main has every control it needs for a verdict.
Controls == saw["control"] /\ saw["parked"] /\ saw["pressed"]

\* What a timely look sees.
Looked ==
    Timely =>
        /\ pc = "lookCounts" => out = 0 /\ queue = 0 /\ ~CanComplete /\ ~CanResume
        /\ saw["control"] /\ saw["quiet"] =>
               /\ pc = "lookCounts" => recv = Batch
               /\ saw["counted"] => build["first"] \/ ~build["keeps"]
               /\ saw["counted"] /\ ~build["resumes"]
                  => held /\ recv + queue = Batch /\ ~saw["resumed"]
        /\ Controls /\ build \in FullBuilds =>
               /\ pc = "lookCounts" => holds > 0
               /\ pc \in {"release", "join", "awaitAll", "verdict", "done"} => saw["counted"]
               /\ pc \in {"verdict", "done"} => saw["resumed"]

Waited == Thread /\ Kept /\ Unpressed /\ Looks /\ Looked

LEMMA WaitedInit == Init => Waited
BY MarksAssumption DEF Init, Waited, Thread, Kept, Posted, Unpressed, Looks, Looked, Controls, Sights, Bases

\* The libraries linked with do not change.
LEMMA SameBuild == [Next]_vars => build' = build
BY DEF Next, Main, SetUp, PostBatch, AwaitControl, AwaitAll, WaitForRecv, CreatePark, AwaitPark,
   Press, Settle, Look, LookCounts, Release, Join, Verdict, Network, Send, Hold, Parse, Resume,
   Handle, Park, CreatePump, SeeDrain, ClosePump, Done, vars

LEMMA ThreadStep == TypeOK /\ Stage /\ Thread /\ [Next]_vars => Thread'
<1> SUFFICES ASSUME TypeOK, Stage, Thread, [Next]_vars
             PROVE  Thread'
  OBVIOUS
<1> USE DEF Thread, Timely
<1>1. CASE SetUp \/ Verdict
  BY <1>1 DEF SetUp, Verdict, Return, parkVars
<1>2. CASE PostBatch
  BY <1>2 DEF PostBatch, parkVars
<1>3. CASE AwaitControl \/ AwaitAll
  BY <1>3 DEF AwaitControl, AwaitAll, WaitForRecv, parkVars
<1>4. CASE CreatePark \/ AwaitPark \/ Press
  BY <1>4 DEF CreatePark, AwaitPark, Press, parkVars, Stage
<1>5. CASE Settle \/ Look \/ LookCounts \/ Release
  BY <1>5 DEF Settle, Look, LookCounts, Release, parkVars
<1>6. CASE Join
  BY <1>6 DEF Join, MayTimeOut, Timely, parkVars, TypeOK
<1>7. CASE Network
  BY <1>7 DEF Network, Send, Hold, Parse, Resume, Handle, mainVars, parkVars
<1>8. CASE Park
  BY <1>8 DEF Park, CreatePump, SeeDrain, ClosePump, mainVars, TypeOK
<1>9. CASE Done \/ UNCHANGED vars
  BY <1>9 DEF Done, vars, mainVars, parkVars
<1> QED
  BY <1>1, <1>2, <1>3, <1>4, <1>5, <1>6, <1>7, <1>8, <1>9 DEF Next, Main

LEMMA KeptStep == TypeOK /\ Stage /\ Kept /\ [Next]_vars => Kept'
<1> SUFFICES ASSUME TypeOK, Stage, Kept, [Next]_vars
             PROVE  Kept'
  OBVIOUS
<1> USE MarksAssumption DEF Kept, Posted
<1>1. CASE SetUp \/ Verdict
  BY <1>1 DEF SetUp, Verdict, Return, netVars, TypeOK, Stage
<1>2. CASE PostBatch
  BY <1>2 DEF PostBatch, TypeOK
<1>3. CASE AwaitControl \/ AwaitAll
  BY <1>3 DEF AwaitControl, AwaitAll, WaitForRecv, netVars, TypeOK, Sights
<1>4. CASE CreatePark \/ AwaitPark \/ Press
  BY <1>4 DEF CreatePark, AwaitPark, Press, netVars, TypeOK, Stage, Sights
<1>5. CASE Settle \/ Look \/ LookCounts
  BY <1>5 DEF Settle, Look, LookCounts, netVars, TypeOK, Stage, Sights
<1>6. CASE Release \/ Join
  BY <1>6 DEF Release, Join, netVars, TypeOK
<1>7. CASE Hold
  BY <1>7 DEF Hold, CanComplete, mainVars, TypeOK
<1>8. CASE Send \/ Parse \/ Resume \/ Handle
  BY <1>8 DEF Send, Parse, Resume, Handle, CanComplete, mainVars, TypeOK
<1>9. CASE Park \/ Done \/ UNCHANGED vars
  BY <1>9 DEF Park, CreatePump, SeeDrain, ClosePump, Done, mainVars, netVars, vars
<1> QED
  BY <1>1, <1>2, <1>3, <1>4, <1>5, <1>6, <1>7, <1>8, <1>9 DEF Next, Main, Network

LEMMA UnpressedStep == TypeOK /\ Books /\ Stage /\ Unpressed /\ [Next]_vars => Unpressed'
<1> SUFFICES ASSUME TypeOK, Books, Stage, Unpressed, [Next]_vars
             PROVE  Unpressed'
  OBVIOUS
<1> USE MarksAssumption DEF Unpressed
<1>0. build' = build
  BY SameBuild
<1>1. CASE SetUp \/ Verdict
  BY <1>1 DEF SetUp, Verdict, Return, netVars, TypeOK, Stage
<1>2. CASE PostBatch
  BY <1>2 DEF PostBatch, Count, TypeOK, Bases
<1>3. CASE AwaitControl \/ AwaitAll
  BY <1>3 DEF AwaitControl, AwaitAll, WaitForRecv, netVars, TypeOK, Sights
<1>4. CASE AwaitPark
  BY <1>4 DEF AwaitPark, Count, netVars, TypeOK, Sights, Bases
<1>5. CASE CreatePark \/ Press \/ Release \/ Join
  BY <1>5 DEF CreatePark, Press, Release, Join, netVars
<1>6. CASE Settle \/ Look \/ LookCounts
  BY <1>6 DEF Settle, Look, LookCounts, netVars, TypeOK, Sights
<1>7. CASE Hold
  <2>1. pc \notin {"setup", "control", "awaitControl", "createPark", "awaitPark"}
    <3> SUFFICES ASSUME pc \in {"setup", "control", "awaitControl", "createPark", "awaitPark"}
                 PROVE  FALSE
      OBVIOUS
    <3>1. parked = 0 /\ out + queue <= 2 * Batch
      BY DEF Stage, Books, Posted, TypeOK
    <3> QED
      BY <1>7, <3>1 DEF Hold, Pressed, Live, TypeOK
  <2> QED
    BY <1>7, <2>1 DEF Hold, CanComplete, mainVars, TypeOK
<1>8. CASE Send \/ Parse \/ Handle
  BY <1>8 DEF Send, Parse, Handle, CanComplete, mainVars, TypeOK
<1>9. CASE Resume
  BY <1>9 DEF Resume, CanResume, mainVars
<1>10. CASE Park \/ Done \/ UNCHANGED vars
  BY <1>10 DEF Park, CreatePump, SeeDrain, ClosePump, Done, mainVars, netVars, vars
<1> QED
  BY <1>1, <1>2, <1>3, <1>4, <1>5, <1>6, <1>7, <1>8, <1>9, <1>10 DEF Next, Main, Network

LEMMA LooksStep == TypeOK /\ Stage /\ Looks /\ [Next]_vars => Looks'
<1> SUFFICES ASSUME TypeOK, Stage, Looks, [Next]_vars
             PROVE  Looks'
  OBVIOUS
<1> USE DEF Looks
<1>1. CASE SetUp \/ Verdict \/ PostBatch \/ CreatePark \/ Press \/ Release \/ Join
  BY <1>1 DEF SetUp, Verdict, Return, PostBatch, CreatePark, Press, Release, Join
<1>2. CASE AwaitControl \/ AwaitAll
  BY <1>2 DEF AwaitControl, AwaitAll, WaitForRecv, TypeOK, Sights
<1>3. CASE AwaitPark \/ Settle \/ Look \/ LookCounts
  BY <1>3 DEF AwaitPark, Settle, Look, LookCounts, TypeOK, Sights
<1>4. CASE Network \/ Park \/ Done \/ UNCHANGED vars
  BY <1>4 DEF Network, Send, Hold, Parse, Resume, Handle, Park, CreatePump, SeeDrain, ClosePump,
     Done, mainVars, vars
<1> QED
  BY <1>1, <1>2, <1>3, <1>4 DEF Next, Main

\* At the end of the window of a timely build that is full, the second batch is
\* on the wire, and held there.
LEMMA HeldAtLook ==
    /\ IInv /\ Waited /\ Timely /\ pc = "look" /\ MayTimeOut /\ Controls /\ build \in FullBuilds
    => holds > 0
<1> SUFFICES ASSUME IInv, Waited, Timely, pc = "look", MayTimeOut, Controls, build \in FullBuilds
             PROVE  holds > 0
  OBVIOUS
<1>1. \A f \in Features \ {"lowMark"} : build[f]
  BY DEF FullBuilds
<1>2. recv = Batch /\ queue = 0 /\ out = 0 /\ ~CanComplete
  BY <1>1 DEF IInv, Window, Controls, MayTimeOut, Features
<1>3. out + wire + queue + recv = 2 * Batch
  BY <1>1 DEF Waited, Kept, Posted, Features
<1>4. wire > 0
  BY <1>2, <1>3, MarksAssumption DEF IInv, TypeOK
<1> QED
  BY <1>2, <1>4 DEF CanComplete, Waited, Unpressed

\* A timely wait for both batches of a full build ends with both.
LEMMA BothArrive ==
    /\ IInv /\ Waited /\ Timely /\ pc = "awaitAll" /\ build \in FullBuilds
    /\ recv < 2 * Batch => MayTimeOut
    => recv >= 2 * Batch
<1> SUFFICES ASSUME IInv, Waited, Timely, pc = "awaitAll", build \in FullBuilds,
                    recv < 2 * Batch, MayTimeOut
             PROVE  FALSE
  BY MarksAssumption DEF IInv, TypeOK
<1>1. \A f \in Features \ {"lowMark"} : build[f]
  BY DEF FullBuilds
<1>2. parked = 0 /\ out = 0 /\ queue = 0
  BY DEF Waited, Thread, MayTimeOut
<1>3. Relieved
  BY <1>2, MarksAssumption DEF Relieved, Pressed, Live
<1>4. ~held
  BY <1>1, <1>3 DEF MayTimeOut, CanResume, Features
<1>5. wire = 0
  BY <1>4 DEF MayTimeOut, CanComplete, IInv, TypeOK
<1>6. out + wire + queue + recv = 2 * Batch
  BY <1>1 DEF Waited, Kept, Posted, Features
<1> QED
  BY <1>2, <1>5, <1>6, MarksAssumption DEF IInv, TypeOK

LEMMA LookedStep == IInv /\ Waited /\ [Next]_vars => Looked'
<1> SUFFICES ASSUME IInv, Waited, [Next]_vars, Timely
             PROVE  Looked'
  BY SameBuild DEF Looked, Timely
<1> USE MarksAssumption DEF Looked
<1>0. build' = build /\ TypeOK
  BY SameBuild DEF IInv
<1>1. Looks /\ Looked /\ Stage /\ Window
  BY DEF Waited, IInv
<1>2. CASE SetUp \/ PostBatch
  BY <1>0, <1>1, <1>2 DEF SetUp, Return, PostBatch, Looks, Stage, Controls
<1>3. CASE AwaitControl
  BY <1>0, <1>1, <1>3 DEF AwaitControl, WaitForRecv, Looks, Sights, TypeOK, Controls
<1>4. CASE CreatePark \/ Press
  BY <1>0, <1>1, <1>4 DEF CreatePark, Press, Looks, Controls
<1>5. CASE AwaitPark \/ Settle
  BY <1>0, <1>1, <1>5 DEF AwaitPark, Settle, Looks, Sights, TypeOK, Controls
<1>6. CASE Look
  <2>1. Controls /\ build \in FullBuilds => holds > 0
    BY <1>6, HeldAtLook DEF Look
  <2>2. saw["control"] => base["recv"] = Batch
    BY <1>1, <1>6 DEF Look, Window
  <2>3. out = 0 /\ queue = 0 /\ ~CanComplete /\ ~CanResume
    BY <1>6 DEF Look, MayTimeOut
  <2>4. ~CanComplete' /\ ~CanResume' /\ UNCHANGED <<out, queue, recv, holds>>
    BY <1>0, <1>6, <2>3 DEF Look, netVars, parkVars, CanComplete, CanResume, Relieved, Pressed, Live
  <2>5. saw'["quiet"] = (recv = base["recv"]) /\ \A s \in Sights \ {"quiet"} : saw'[s] = saw[s]
    BY <1>0, <1>6 DEF Look, TypeOK, Sights
  <2> QED
    BY <1>0, <1>1, <1>6, <2>1, <2>2, <2>3, <2>4, <2>5 DEF Look, Looks, Sights, Controls
<1>7. CASE LookCounts
  <2>1. saw'["counted"] = (holds > 0 /\ build["hub"] /\ build["process"])
    <3>1. saw'["counted"] = (\A c \in {"hub", "process"} : Count(c) > base[c])
      BY <1>0, <1>7, Zenon DEF LookCounts, TypeOK, Sights
    <3>2. base["hub"] = 0 /\ base["process"] = 0
      BY DEF Waited, Unpressed
    <3>3. \A c \in {"hub", "process"} : Count(c) > base[c] <=> holds > 0 /\ build[c]
      BY <3>2, <1>0 DEF Count, TypeOK
    <3> QED
      BY <3>1, <3>3
  <2>2. \A s \in Sights \ {"counted"} : saw'[s] = saw[s]
    BY <1>0, <1>7 DEF LookCounts, TypeOK, Sights
  <2>3. UNCHANGED <<queue, recv, held, holds>> /\ pc = "lookCounts" /\ pc' = "release"
    BY <1>7 DEF LookCounts, netVars
  <2>4. build \in FullBuilds => build["hub"] /\ build["process"]
    BY DEF FullBuilds, Features
  <2>5. ~saw["resumed"] /\ queue = 0
    BY <1>1, <2>3 DEF Looks
  <2>6. ASSUME saw["control"], saw["quiet"], holds > 0
        PROVE  /\ build["first"] \/ ~build["keeps"]
               /\ ~build["resumes"] => held
               /\ recv + queue = Batch
    BY <1>0, <1>1, <2>3, <2>5, <2>6 DEF Waited, Unpressed, TypeOK
  <2> QED
    BY <1>0, <1>1, <2>1, <2>2, <2>3, <2>4, <2>5, <2>6 DEF Sights, Controls
<1>8. CASE Release \/ Verdict
  BY <1>0, <1>1, <1>8 DEF Release, Verdict, Return, netVars, Controls, Stage
<1>9. CASE Join
  BY <1>0, <1>1, <1>9 DEF Join, netVars, Controls
<1>10. CASE AwaitAll
  <2>1. saw'["resumed"] = (recv >= 2 * Batch) /\ \A s \in Sights \ {"resumed"} : saw'[s] = saw[s]
    BY <1>0, <1>10 DEF AwaitAll, WaitForRecv, TypeOK, Sights
  <2>2. build \in FullBuilds => recv >= 2 * Batch
    BY <1>10, BothArrive DEF AwaitAll, WaitForRecv
  <2>3. recv + queue = Batch => ~(recv >= 2 * Batch)
    BY <1>0 DEF TypeOK
  <2>4. UNCHANGED <<queue, recv, held>> /\ pc = "awaitAll" /\ pc' = "verdict"
    BY <1>10 DEF AwaitAll, WaitForRecv, netVars
  <2> QED
    BY <1>0, <1>1, <2>1, <2>2, <2>3, <2>4 DEF Sights, Controls
<1>11. CASE Network
  <2>1. UNCHANGED <<pc, saw>>
    BY <1>11 DEF Network, Send, Hold, Parse, Resume, Handle, mainVars
  <2>2. pc # "lookCounts"
    BY <1>1, <1>11 DEF Network, Send, Hold, Parse, Resume, Handle
  <2>3. held /\ ~build["resumes"] => held' /\ recv' + queue' = recv + queue
    <3>0. queue \in Nat /\ recv \in Nat
      BY <1>0 DEF TypeOK
    <3>1. CASE Send \/ Handle
      <4>1. held' = held
        BY <3>1 DEF Send, Handle
      <4>2. recv' + queue' = recv + queue
        BY <3>0, <3>1 DEF Send, Handle
      <4> QED
        BY <4>1, <4>2, Zenon
    <3>2. CASE Hold \/ Parse \/ Resume
      BY <3>2 DEF Hold, Parse, Resume, CanComplete, CanResume
    <3> QED
      BY <1>11, <3>1, <3>2 DEF Network
  <2> QED
    BY <1>0, <1>1, <2>1, <2>2, <2>3 DEF Controls
<1>12. CASE Park
  <2>1. UNCHANGED <<pc, saw, out, wire, queue, recv, held, holds>>
    BY <1>12 DEF Park, CreatePump, SeeDrain, ClosePump, mainVars, netVars
  <2>2. pc = "lookCounts" => parked' = parked
    BY <1>1, <1>12 DEF Park, CreatePump, SeeDrain, ClosePump, Stage
  <2> QED
    BY <1>0, <1>1, <2>1, <2>2 DEF Controls, CanComplete, CanResume, Relieved, Pressed, Live
<1>13. CASE Done \/ UNCHANGED vars
  BY <1>0, <1>1, <1>13
     DEF Done, vars, mainVars, netVars, parkVars, Controls, CanComplete, CanResume, Relieved, Pressed, Live
<1> QED
  BY <1>2, <1>3, <1>4, <1>5, <1>6, <1>7, <1>8, <1>9, <1>10, <1>11, <1>12, <1>13 DEF Next, Main

LEMMA Waits == Spec => [](IInv /\ Waited)
<1>1. IInv /\ Waited /\ [Next]_vars => IInv' /\ Waited'
  <2>1. IInv /\ [Next]_vars => IInv'
    BY TypeStep, BooksStep, StageStep, SeenStep, WindowStep, OnceStep DEF IInv
  <2>2. IInv /\ Waited /\ [Next]_vars => Waited'
    BY ThreadStep, KeptStep, UnpressedStep, LooksStep, LookedStep DEF IInv, Waited
  <2> QED
    BY <2>1, <2>2
<1> QED
  BY AllInit, WaitedInit, <1>1, PTL DEF Spec

\* When every wait is long enough the verdict separates the builds exactly.
THEOREM Separation == Spec => []Discriminates
<1>1. IInv /\ Waited => Discriminates
  <2> SUFFICES ASSUME IInv, Waited, Timely, exit \in {Gate!Pass, Gate!Fail}
               PROVE  exit = Gate!Pass <=> build \in FullBuilds
    BY DEF Discriminates
  <2>1. pc = "done" /\ exit = ExitCode /\ Controls
    BY DEF IInv, Seen, ExitCode, Controls, Gate!Pass, Gate!Fail, Gate!Running, Gate!Setup,
       Gate!Inconclusive
  <2>2. exit = Gate!Pass <=> saw["quiet"] /\ saw["counted"] /\ saw["resumed"]
    BY <2>1 DEF ExitCode, Controls, Gate!Pass, Gate!Fail, Gate!Inconclusive
  <2>3. ASSUME build \in FullBuilds
        PROVE  saw["quiet"] /\ saw["counted"] /\ saw["resumed"]
    <3>1. build["holds"] /\ build["first"]
      BY <2>3 DEF FullBuilds, Features
    <3> QED
      BY <2>1, <2>3, <3>1 DEF Waited, Looked, IInv, Window, Controls
  <2>4. ASSUME saw["quiet"], saw["counted"], saw["resumed"]
        PROVE  build \in FullBuilds
    <3>1. build["holds"] /\ build["marks"] /\ build["hub"] /\ build["process"]
      BY <2>4 DEF IInv, Seen
    <3>2. build["keeps"]
      BY <2>1, <2>4, MarksAssumption DEF IInv, Seen, Books, Posted, TypeOK
    <3>3. build["first"] /\ build["resumes"]
      BY <2>1, <2>4, <3>2 DEF Waited, Looked, Controls
    <3> QED
      BY <3>1, <3>2, <3>3 DEF FullBuilds, Features, IInv, TypeOK
  <2> QED
    BY <2>2, <2>3, <2>4
<1> QED
  BY <1>1, Waits, PTL

\* The parked pump is closed by its own thread before main tears the hub down.
THEOREM ThreadGone == Spec => []ParkedThreadGone
<1>1. Waited => ParkedThreadGone
  BY DEF Waited, Thread, ParkedThreadGone
<1> QED
  BY <1>1, Waits, PTL
=============================================================================
