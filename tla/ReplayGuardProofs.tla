-------------------------- MODULE ReplayGuardProofs --------------------------
(***************************************************************************)
(* A pass of p2p_replayguard is evidence for every set of builds and       *)
(* whether or not the Sleeps are long enough.                              *)
(*                                                                         *)
(* The argument is bookkeeping.  Phases 1 and 2 post two bodies each and a *)
(* pass reads two answers in each, so nothing of theirs is left to be      *)
(* counted later (Books); what the last tally says is then about the       *)
(* body of its own phase, answered with the switch as that phase set it    *)
(* (Off, On, Fresh).                                                       *)
(***************************************************************************)
EXTENDS ReplayGuard, TLAPS

InFlight == Len(link) + (IF bob = "idle" THEN 0 ELSE 1)
Counted  == tally["opened"] + tally["replay"] + tally["other"]
Posted   == IF pc = "post" THEN k - 1 ELSE IF pc = "sleep" THEN k ELSE Copies(phase)

\* What main is in the middle of: a phase's posts, sleeps and loads.
Measuring == pc \in {"post", "sleep", "load"}

\* Every answer counted or still to come is to a body of this phase.
Books ==
    Settled(phase) =>
        /\ \A i \in 1..Len(link) : link[i] = phase
        /\ pc \in {"setup", "defaults", "switch", "zero"} => InFlight = 0
        /\ pc = "done" /\ phase = 1 => InFlight = 0
        /\ pc = "zero" => /\ k >= 2 => tally["opened"] = 0
                          /\ k = 3 => tally["replay"] = 0
        /\ Measuring => InFlight + Counted <= Posted
        /\ pc = "load" /\ k = 2 =>
              n[phase]["opened"] + tally["replay"] + InFlight <= Copies(phase)
        /\ pc = "load" /\ k = 3 =>
              n[phase]["opened"] + n[phase]["replay"] + InFlight <= Copies(phase)

\* A counter is at a phase's copies only while that phase has as many.
Place ==
    /\ pc \in {"post", "sleep"} => k <= Copies(phase)
    /\ pc \in {"setup", "defaults", "switch"} => k = 1
    /\ pc = "load" /\ phase = 3 => k <= 2
    /\ pc \in {"setup", "defaults"} => phase = 1
    /\ pc \in {"relay", "verdict"} => phase = 3
    /\ phase = 1 /\ (Measuring \/ pc = "zero") => ~refuse
    /\ phase = 2 /\ pc # "switch" => refuse
    /\ phase = 3 => refuse
    /\ phase < 2 => n[2]["replay"] = 0
    /\ phase < 3 => n[3]["opened"] = 0

\* Without keys nothing opens.
Keys ==
    ~build["keys"] => bob # "opened" /\ tally["opened"] = 0 /\ n[1]["opened"] = 0

\* A build that consults the cache with the switch off opens one copy at most.
Off ==
    ~build["sealOff"] =>
        /\ phase = 1 => /\ tally["opened"] + (IF bob = "opened" THEN 1 ELSE 0) <= 1
                        /\ tally["opened"] > 0 \/ bob = "opened" => 1 \in cache
        /\ n[1]["opened"] <= 1

\* A build that ignores the switch refuses nothing in phase 2.
On ==
    ~build["sealOn"] /\ Settled(2) =>
        /\ phase = 2 /\ Measuring => tally["replay"] = 0 /\ bob # "replay"
        /\ n[2]["replay"] = 0

\* A build whose cache matches everything opens nothing after its first refusal.
Fresh ==
    /\ bob = "replay" \/ tally["replay"] > 0 \/ n[2]["replay"] > 0 => cache # {}
    /\ ~build["sealFresh"] /\ build["sealOn"] /\ Settled(3) /\ n[2]["replay"] > 0 =>
        /\ phase = 3 /\ Measuring => tally["opened"] = 0 /\ bob # "opened"
        /\ n[3]["opened"] = 0

\* What main has established besides: the defaults, and where `relay' is from.
Verdicts ==
    /\ pc \notin {"setup", "defaults", "done"} => build["defaults"]
    /\ pc = "verdict" => relay \in {VerifyRelays, NoRelay}
    /\ exit = Gate!Running <=> pc # "done"
    /\ exit = Gate!Pass => build \in GoodBuilds

IInv == TypeOK /\ Books /\ Place /\ Keys /\ Off /\ On /\ Fresh /\ Verdicts
-----------------------------------------------------------------------------

LEMMA BuildsOfFeatures == ASSUME TypeOK PROVE build \in [Features \union {"timely"} -> BOOLEAN]
  BY BuildsAssumption DEF TypeOK, AllBuilds

LEMMA RelayType ==
  VerifyRelays \in [ok : BOOLEAN, ctrl : BOOLEAN, refused : BOOLEAN, live : BOOLEAN] /\
  NoRelay \in [ok : BOOLEAN, ctrl : BOOLEAN, refused : BOOLEAN, live : BOOLEAN]
  BY DEF VerifyRelays, NoRelay

LEMMA TypeInit == Init => TypeOK
<1> SUFFICES ASSUME Init
             PROVE  TypeOK
  OBVIOUS
<1>1. build["defaults"] \in BOOLEAN
  BY BuildsAssumption DEF Init, AllBuilds, Features
<1>2. n \in [Phases -> [Tallies -> Nat]] /\ tally \in [Tallies -> Nat]
  BY DEF Init, NoTally
<1>3. relay \in [ok : BOOLEAN, ctrl : BOOLEAN, refused : BOOLEAN, live : BOOLEAN]
  BY RelayType DEF Init
<1>4. refuse \in BOOLEAN
  BY <1>1, Zenon DEF Init
<1> QED
  <2>1. build \in Builds /\ pc = "setup" /\ phase \in 1..3 /\ k \in 1..3
    BY DEF Init
  <2>2. exit \in Gate!ExitCodes \union {Gate!Running} /\ link \in Seq(Body)
    BY DEF Init
  <2>4. connected \in BOOLEAN
    BY Zenon DEF Init
  <2>3. bob \in {"idle"} \union Tallies /\ cache \in SUBSET Body
    BY DEF Init
  <2> QED
    BY <1>2, <1>3, <1>4, <2>1, <2>2, <2>3, <2>4, Zenon DEF TypeOK, Phases

\* One action at a time keeps every variable in its type.
LEMMA TypeStep == TypeOK /\ [Next]_vars => TypeOK'
<1> SUFFICES ASSUME TypeOK, [Next]_vars
             PROVE  TypeOK'
  OBVIOUS
<1> USE DEF TypeOK, Phases, Body, Tallies, mainVars, bobVars
<1>1. CASE SetUp
  BY <1>1 DEF SetUp, Return, Gate!Setup, Gate!ExitCodes
<1>2. CASE CheckDefaults
  BY <1>2 DEF CheckDefaults, Return, Gate!Fail, Gate!ExitCodes
<1>3. CASE SetSwitch
  <2>1. refuse' \in BOOLEAN
    BY <1>3, Zenon DEF SetSwitch
  <2> QED
    BY <1>3, <2>1 DEF SetSwitch
<1>4. CASE Zero
  BY <1>4 DEF Zero, Counters
<1>5. CASE Post
  <2>1. Append(link, phase) \in Seq(Phases)
    OBVIOUS
  <2> QED
    BY <1>5, <2>1 DEF Post
<1>6. CASE Sleep
  BY <1>6 DEF Sleep, Copies
<1>7. CASE Load
  <2>1. Counters[k] \in Tallies
    BY DEF Counters
  <2>2. n' \in [Phases -> [Tallies -> Nat]]
    BY <1>7, <2>1 DEF Load
  <2>3. k' \in 1..3 /\ phase' \in 1..3 /\ pc' \in {"load", "switch", "relay"}
    <3>1. CASE k < (IF phase = 3 THEN 2 ELSE 3)
      BY <1>7, <3>1 DEF Load
    <3>2. CASE ~(k < (IF phase = 3 THEN 2 ELSE 3))
      <4>1. CASE phase < 3
        BY <1>7, <3>2, <4>1 DEF Load
      <4>2. CASE ~(phase < 3)
        BY <1>7, <3>2, <4>2 DEF Load
      <4> QED
        BY <4>1, <4>2
    <3> QED
      BY <3>1, <3>2
  <2> QED
    BY <1>7, <2>2, <2>3 DEF Load
<1>8. CASE RelayHalf
  BY <1>8, RelayType DEF RelayHalf
<1>9. CASE Verdict
  BY <1>9 DEF Verdict, Return, ExitCode, Gate!ExitCodes, Gate!Pass, Gate!Fail,
       Gate!Setup, Gate!Inconclusive
<1>10. CASE Connect
  BY <1>10 DEF Connect
<1>11. CASE Open
  BY <1>11 DEF Open
<1>12. CASE Count
  BY <1>12 DEF Count
<1>13. CASE UNCHANGED vars
  BY <1>13 DEF vars
<1> QED
  BY <1>1, <1>2, <1>3, <1>4, <1>5, <1>6, <1>7, <1>8, <1>9, <1>10, <1>11, <1>12,
     <1>13 DEF Next, Main, Bob, Done

\* Every variable keeps its type.
THEOREM Typing == Spec => []TypeOK
<1>1. Init => TypeOK
  BY TypeInit
<1>2. TypeOK /\ [Next]_vars => TypeOK'
  BY TypeStep
<1> QED
  BY <1>1, <1>2, PTL DEF Spec

-----------------------------------------------------------------------------

LEMMA AllInit == Init => IInv
<1> SUFFICES ASSUME Init
             PROVE  IInv
  OBVIOUS
<1>1. TypeOK
  BY TypeInit
<1>2. link = <<>> /\ Len(link) = 0 /\ bob = "idle"
  BY DEF Init
<1>3. \A p \in 1..3 : \A c \in Tallies : n[p][c] = 0
  BY DEF Init, NoTally, Phases
<1>4. \A c \in Tallies : tally[c] = 0
  BY DEF Init, NoTally
<1>5. Books
  BY <1>2 DEF Books, Init, InFlight, Measuring
<1>6. Place
  BY <1>3 DEF Place, Init, Measuring, Tallies
<1>7. Keys /\ Off /\ On /\ Fresh
  BY <1>2, <1>3, <1>4 DEF Keys, Off, On, Fresh, Tallies, Init
<1>8. Verdicts
  BY DEF Verdicts, Init, Gate!Running, Gate!Pass
<1> QED
  BY <1>1, <1>5, <1>6, <1>7, <1>8 DEF IInv

\* What one load changes: one entry of this phase's row, and main's place.
LEMMA LoadEffect ==
  ASSUME TypeOK, Load
  PROVE  /\ \A p \in 1..3 : \A c \in Tallies :
               n'[p][c] = IF p = phase /\ c = Counters[k] THEN tally[c] ELSE n[p][c]
         /\ \/ pc' = "load" /\ k' = k + 1 /\ phase' = phase /\ k < 3 /\ (phase = 3 => k < 2)
            \/ pc' = "switch" /\ k' = 1 /\ phase' = phase + 1 /\ phase < 3 /\ k = 3
            \/ pc' = "relay" /\ k' = 1 /\ phase' = phase /\ phase = 3 /\ k >= 2
         /\ UNCHANGED <<build, relay, exit, connected, link, bobVars, refuse>>
<1>1. Counters[k] \in Tallies /\ k \in 1..3 /\ phase \in 1..3
  BY DEF TypeOK, Counters, Tallies, Phases
<1>2. n' = [n EXCEPT ![phase][Counters[k]] = tally[Counters[k]]]
  BY DEF Load
<1>3. \A p \in 1..3 : \A c \in Tallies :
         n'[p][c] = IF p = phase /\ c = Counters[k] THEN tally[c] ELSE n[p][c]
  BY <1>1, <1>2 DEF TypeOK, Phases
<1>4. CASE k < (IF phase = 3 THEN 2 ELSE 3)
  BY <1>1, <1>3, <1>4 DEF Load
<1>5. CASE ~(k < (IF phase = 3 THEN 2 ELSE 3)) /\ phase < 3
  BY <1>1, <1>3, <1>5 DEF Load
<1>6. CASE ~(k < (IF phase = 3 THEN 2 ELSE 3)) /\ ~(phase < 3)
  BY <1>1, <1>3, <1>6 DEF Load
<1> QED
  BY <1>4, <1>5, <1>6

\* What one of the three stores changes: one counter, and main's place.
LEMMA ZeroEffect ==
  ASSUME TypeOK, Zero
  PROVE  /\ pc = "zero"
         /\ tally'["opened"] = IF k = 1 THEN 0 ELSE tally["opened"]
         /\ tally'["replay"] = IF k = 2 THEN 0 ELSE tally["replay"]
         /\ tally'["other"] = IF k = 3 THEN 0 ELSE tally["other"]
         /\ \/ k < 3 /\ k' = k + 1 /\ pc' = "zero"
            \/ k = 3 /\ k' = 1 /\ pc' = "post"
         /\ UNCHANGED <<build, phase, n, link, bob, cache, refuse>>
  BY DEF TypeOK, Zero, Counters, Tallies

\* What the pump does with the body it takes: one answer for one body, and a
\* body the cache was consulted about and let through is held from then on.
LEMMA OpenEffect ==
  ASSUME TypeOK, Open
  PROVE  /\ bob = "idle" /\ Len(link) >= 1
         /\ Len(link') = Len(link) - 1 /\ Len(link') \in Nat
         /\ \A i \in 1..Len(link') : link'[i] = link[i + 1]
         /\ bob' \in Tallies
         /\ bob' = "opened" => build["keys"] /\ ~Refused(SealOn, build["sealFresh"], link[1], cache)
         /\ bob' = "replay" => Refused(SealOn, build["sealFresh"], link[1], cache)
         /\ bob' = "other" => ~build["keys"]
         /\ cache' = IF SealOn /\ bob' = "opened" THEN cache \union {link[1]} ELSE cache
         /\ UNCHANGED <<build, mainVars, connected, tally, refuse>>
<1>1. link \in Seq(Body) /\ link # <<>>
  BY DEF TypeOK, Open
<1>2. Head(link) = link[1] /\ Len(link) >= 1 /\ Len(Tail(link)) = Len(link) - 1 /\ Len(Tail(link)) \in Nat
  BY <1>1
<1>3. \A i \in 1..Len(Tail(link)) : Tail(link)[i] = link[i + 1]
  BY <1>1
<1>4. bob' = CASE ~build["keys"] -> "other"
                [] build["keys"] /\ Refused(SealOn, build["sealFresh"], Head(link), cache) -> "replay"
                [] OTHER -> "opened"
  BY DEF Open
<1>5. /\ bob' \in Tallies
      /\ bob' = "opened" => build["keys"] /\ ~Refused(SealOn, build["sealFresh"], Head(link), cache)
      /\ bob' = "replay" => Refused(SealOn, build["sealFresh"], Head(link), cache)
      /\ bob' = "other" => ~build["keys"]
  BY <1>4 DEF Tallies
<1> QED
  BY <1>2, <1>3, <1>5 DEF Open

\* The types of what the bookkeeping adds up.
LEMMA Numbers ==
  ASSUME TypeOK
  PROVE  /\ k \in 1..3 /\ phase \in 1..3 /\ Len(link) \in Nat
         /\ tally["opened"] \in Nat /\ tally["replay"] \in Nat /\ tally["other"] \in Nat
         /\ \A p \in 1..3 : n[p]["opened"] \in Nat /\ n[p]["replay"] \in Nat
         /\ InFlight \in Nat /\ Counted \in Nat
  BY DEF TypeOK, Tallies, Phases, InFlight, Counted

LEMMA PlaceStep == TypeOK /\ Place /\ [Next]_vars => Place'
<1> SUFFICES ASSUME TypeOK, Place, [Next]_vars
             PROVE  Place'
  OBVIOUS
<1> USE DEF TypeOK, Place, Measuring, Copies, Phases, mainVars, bobVars
<1>1. CASE SetUp
  BY <1>1 DEF SetUp, Return
<1>2. CASE CheckDefaults
  BY <1>2 DEF CheckDefaults, Return
<1>3. CASE SetSwitch
  BY <1>3 DEF SetSwitch
<1>4. CASE Zero
  BY <1>4 DEF Zero
<1>5. CASE Post
  BY <1>5 DEF Post
<1>6. CASE Sleep
  BY <1>6 DEF Sleep
<1>7. CASE Load
  <2>1. /\ phase' < 2 => n'[2]["replay"] = 0
        /\ phase' < 3 => n'[3]["opened"] = 0
    <3>1. \A p \in 1..3 : \A c \in Tallies : p # phase => n'[p][c] = n[p][c]
      BY <1>7, LoadEffect
    <3>2. phase' >= phase /\ phase \in 1..3 /\ phase' \in 1..3
      BY <1>7, LoadEffect
    <3> QED
      BY <3>1, <3>2 DEF Tallies
  <2>2. /\ pc = "load" /\ refuse' = refuse
        /\ \/ pc' = "load" /\ k' = k + 1 /\ phase' = phase /\ k < 3 /\ (phase = 3 => k < 2)
           \/ pc' = "switch" /\ k' = 1 /\ phase' = phase + 1 /\ phase < 3 /\ k = 3
           \/ pc' = "relay" /\ k' = 1 /\ phase' = phase /\ phase = 3 /\ k >= 2
    BY <1>7, LoadEffect DEF Load
  <2> QED
    BY <2>1, <2>2
<1>8. CASE RelayHalf
  BY <1>8 DEF RelayHalf
<1>9. CASE Verdict
  BY <1>9 DEF Verdict, Return
<1>10. CASE Connect
  BY <1>10 DEF Connect
<1>11. CASE Open
  BY <1>11, OpenEffect
<1>12. CASE Count
  BY <1>12 DEF Count
<1>13. CASE UNCHANGED vars
  BY <1>13 DEF vars
<1> QED
  BY <1>1, <1>2, <1>3, <1>4, <1>5, <1>6, <1>7, <1>8, <1>9, <1>10, <1>11, <1>12,
     <1>13 DEF Next, Main, Bob, Done

LEMMA KeysStep == TypeOK /\ Keys /\ [Next]_vars => Keys'
<1> SUFFICES ASSUME TypeOK, Keys, [Next]_vars
             PROVE  Keys'
  OBVIOUS
<1> USE DEF Keys, TypeOK, Phases, Body, Tallies, mainVars, bobVars
<1>1. CASE SetUp
  BY <1>1 DEF SetUp, Return
<1>2. CASE CheckDefaults
  BY <1>2 DEF CheckDefaults, Return
<1>3. CASE SetSwitch
  BY <1>3 DEF SetSwitch
<1>4. CASE Zero
  BY <1>4, ZeroEffect
<1>5. CASE Post
  BY <1>5 DEF Post
<1>6. CASE Sleep
  BY <1>6 DEF Sleep
<1>7. CASE Load
  BY <1>7, LoadEffect
<1>8. CASE RelayHalf
  BY <1>8 DEF RelayHalf
<1>9. CASE Verdict
  BY <1>9 DEF Verdict, Return
<1>10. CASE Connect
  BY <1>10 DEF Connect
<1>11. CASE Open
  BY <1>11, OpenEffect
<1>12. CASE Count
  BY <1>12 DEF Count
<1>13. CASE UNCHANGED vars
  BY <1>13 DEF vars
<1> QED
  BY <1>1, <1>2, <1>3, <1>4, <1>5, <1>6, <1>7, <1>8, <1>9, <1>10, <1>11, <1>12,
     <1>13 DEF Next, Main, Bob, Done

LEMMA BooksStep == TypeOK /\ Place /\ Books /\ [Next]_vars => Books'
<1> SUFFICES ASSUME TypeOK, Place, Books, [Next]_vars
             PROVE  Books'
  OBVIOUS
<1> USE DEF Settled
<1> DEFINE Rest == UNCHANGED <<build, phase, n, link, bob, tally>>
<1>0. /\ k \in 1..3 /\ phase \in 1..3 /\ Len(link) \in Nat
      /\ tally["opened"] \in Nat /\ tally["replay"] \in Nat /\ tally["other"] \in Nat
      /\ \A p \in 1..3 : n[p]["opened"] \in Nat /\ n[p]["replay"] \in Nat
  BY Numbers
<1>i. InFlight \in Nat
  BY Numbers
<1>l. Len(link) \in Nat
  BY Numbers
<1>1. ASSUME Rest, UNCHANGED <<k, pc>>
      PROVE  Books'
  BY <1>1 DEF Books, Measuring, Posted, InFlight, Counted, Copies
<1>2. CASE SetUp \/ CheckDefaults \/ SetSwitch
  <2>1. /\ Rest /\ pc \in {"setup", "defaults", "switch"}
        /\ pc' \in {"defaults", "switch", "zero", "done"} /\ (pc' = "zero" => k' = 1)
        /\ InFlight' = InFlight
    BY <1>2 DEF SetUp, CheckDefaults, SetSwitch, Return, mainVars, bobVars, InFlight
  <2> QED
    BY <2>1 DEF Books, Measuring, InFlight
<1>3. CASE Zero
  <2>1. Settled(phase) => InFlight = 0 /\ Len(link) = 0
    BY <1>0, <1>3, ZeroEffect DEF Books, InFlight
  <2>2. InFlight' = InFlight /\ link' = link /\ phase' = phase /\ n' = n
    BY <1>3, ZeroEffect DEF InFlight
  <2>3. CASE k < 3
    <3>1. pc' = "zero" /\ k' = k + 1 /\ pc = "zero" /\ k \in {1, 2}
      BY <1>0, <1>3, <2>3, ZeroEffect
    <3>2. k' >= 2 /\ Settled(phase) => tally'["opened"] = 0
      BY <1>0, <1>3, <3>1, ZeroEffect DEF Books
    <3>3. k' = 3 => tally'["replay"] = 0
      BY <1>3, <3>1, ZeroEffect
    <3> QED
      BY <1>0, <2>1, <2>2, <3>1, <3>2, <3>3 DEF Books, Measuring
  <2>4. CASE k = 3
    <3>1. pc' = "post" /\ k' = 1 /\ pc = "zero"
      BY <1>3, <2>4, ZeroEffect
    <3>2. Settled(phase) => tally'["opened"] = 0 /\ tally'["replay"] = 0 /\ tally'["other"] = 0
      BY <1>3, <2>4, <3>1, ZeroEffect DEF Books
    <3>3. Settled(phase) => InFlight' + Counted' <= Posted'
      BY <2>1, <2>2, <3>1, <3>2 DEF Counted, Posted
    <3> QED
      BY <2>1, <2>2, <3>1, <3>3 DEF Books, Measuring
  <2> QED
    BY <1>0, <2>3, <2>4
<1>4. CASE Post
  <2>1. /\ UNCHANGED <<phase, n, bob, tally, k>> /\ pc = "post" /\ pc' = "sleep"
        /\ link' = link \/ link' = Append(link, phase)
    BY <1>4 DEF Post, bobVars
  <2>2. /\ Len(link') \in Nat /\ Len(link') <= Len(link) + 1
        /\ \A i \in 1..Len(link') : link'[i] = phase \/ (i \in 1..Len(link) /\ link'[i] = link[i])
    <3>1. CASE link' = link
      BY <1>0, <3>1
    <3>2. CASE link' = Append(link, phase)
      <4>1. link \in Seq(Phases) /\ phase \in Phases
        BY DEF TypeOK, Body
      <4>2. Len(link') = Len(link) + 1
        BY <3>2, <4>1
      <4>3. \A i \in 1..Len(link') : link'[i] = (IF i <= Len(link) THEN link[i] ELSE phase)
        BY <3>2, <4>1, <4>2
      <4> QED
        BY <1>0, <4>2, <4>3
    <3> QED
      BY <2>1, <3>1, <3>2
  <2>3. Settled(phase) => InFlight + Counted <= Posted /\ \A i \in 1..Len(link) : link[i] = phase
    BY <2>1 DEF Books, Measuring
  <2>4. Settled(phase) => InFlight' + Counted' <= Posted' /\ \A i \in 1..Len(link') : link'[i] = phase
    <3>1. Settled(phase) => InFlight' + Counted' <= Posted'
      BY <1>0, <2>1, <2>2, <2>3, Numbers DEF InFlight, Counted, Posted
    <3>2. Settled(phase) => \A i \in 1..Len(link') : link'[i] = phase
      BY <2>2, <2>3
    <3> QED
      BY <3>1, <3>2
  <2> QED
    BY <2>1, <2>4 DEF Books, Measuring
<1>5. CASE Sleep
  <2>1. /\ Rest /\ pc = "sleep"
        /\ \/ k < Copies(phase) /\ k' = k + 1 /\ pc' = "post"
           \/ ~(k < Copies(phase)) /\ k' = 1 /\ pc' = "load"
    BY <1>5 DEF Sleep, bobVars
  <2>2. Copies(phase) \in Nat /\ k <= Copies(phase)
    BY <1>0, <2>1 DEF Place, Copies
  <2>3. Posted' = Posted
    BY <1>0, <2>1, <2>2 DEF Posted, Copies
  <2>4. InFlight' = InFlight /\ Counted' = Counted
    BY <2>1 DEF InFlight, Counted
  <2>5. Settled(phase)' <=> Settled(phase)
    BY <2>1
  <2> HIDE DEF Settled
  <2>6. Settled(phase) => InFlight' + Counted' <= Posted'
    BY <2>1, <2>3, <2>4 DEF Books, Measuring
  <2>7. k' = 1 \/ pc' = "post"
    BY <2>1
  <2> QED
    BY <2>1, <2>5, <2>6, <2>7 DEF Books, Measuring
<1>6. CASE Load
  <2>1. /\ UNCHANGED <<link, bob, tally>> /\ pc = "load"
        /\ InFlight' = InFlight /\ Counted' = Counted
    BY <1>6, LoadEffect DEF Load, bobVars, InFlight, Counted
  <2>2. Settled(phase) =>
          /\ tally["opened"] + tally["replay"] + InFlight <= Copies(phase)
          /\ k = 2 => n[phase]["opened"] + tally["replay"] + InFlight <= Copies(phase)
          /\ k = 3 => n[phase]["opened"] + n[phase]["replay"] + InFlight <= Copies(phase)
    <3> HIDE DEF Settled
    <3>1. Settled(phase) => InFlight + Counted <= Copies(phase)
      BY <2>1 DEF Books, Measuring, Posted
    <3>2. Copies(phase) \in Nat
      BY DEF Copies
    <3>3. InFlight + Counted <= Copies(phase) =>
            tally["opened"] + tally["replay"] + InFlight <= Copies(phase)
      <4> DEFINE a == tally["opened"]
                 b == tally["replay"]
                 c == tally["other"]
                 i == InFlight
                 m == Copies(phase)
      <4>1. a \in Nat /\ b \in Nat /\ c \in Nat /\ i \in Nat /\ m \in Nat
        BY <1>0, <1>i, <3>2
      <4>2. Counted = a + b + c
        BY DEF Counted
      <4> HIDE DEF a, b, c, i, m
      <4>3. i + (a + b + c) <= m => a + b + i <= m
        BY <4>1
      <4> USE DEF a, b, c, i, m
      <4> QED
        BY <4>2, <4>3
    <3> QED
      BY <2>1, <3>1, <3>3 DEF Books
  <2>3. CASE pc' = "load"
    <3>1. k' = k + 1 /\ phase' = phase /\ k \in {1, 2}
      BY <1>0, <1>6, <2>3, LoadEffect
    <3>2. \A p \in 1..3 : p # phase => n'[p]["opened"] = n[p]["opened"]
                                     /\ n'[p]["replay"] = n[p]["replay"]
      BY <1>6, LoadEffect DEF Tallies
    <3>3. n'[phase]["opened"] = (IF k = 1 THEN tally["opened"] ELSE n[phase]["opened"])
      BY <1>0, <1>6, <3>1, LoadEffect DEF Tallies, Counters
    <3>4. k = 2 => n'[phase]["replay"] = tally["replay"]
      BY <1>0, <1>6, LoadEffect DEF Tallies, Counters
    <3>5. Settled(phase)' <=> Settled(phase)
      BY <1>0, <3>1, <3>2
    <3> QED
      BY <1>0, <2>1, <2>2, <2>3, <3>1, <3>3, <3>4, <3>5 DEF Books, Measuring, Posted, Copies
  <2>4. CASE pc' = "switch"
    <3>1. k' = 1 /\ phase' = phase + 1 /\ phase \in {1, 2} /\ k = 3
      BY <1>0, <1>6, <2>4, LoadEffect
    <3>2. \A p \in 1..3 : n'[p]["opened"] = n[p]["opened"] /\ n'[p]["replay"] = n[p]["replay"]
      BY <1>6, <3>1, LoadEffect DEF Tallies, Counters
    <3>3. Settled(phase)' => Settled(phase) /\ InFlight = 0
      <4>1. \A p \in 1..3 : n[p]["opened"] \in Nat /\ n[p]["replay"] \in Nat
        BY <1>0
      <4>2. CASE phase = 1
        BY <1>i, <2>2, <3>1, <3>2, <4>1, <4>2 DEF Copies
      <4>3. CASE phase = 2
        BY <1>i, <2>2, <3>1, <3>2, <4>1, <4>3 DEF Copies
      <4> QED
        BY <3>1, <4>2, <4>3
    <3>4. InFlight = 0 => Len(link) = 0
      BY <1>0 DEF InFlight
    <3> QED
      BY <1>0, <2>1, <2>4, <3>3, <3>4 DEF Books, Measuring
  <2>5. CASE pc' = "relay"
    <3>1. phase' = phase /\ phase = 3
      BY <1>6, <2>5, LoadEffect
    <3>2. \A p \in 1..2 : n'[p]["opened"] = n[p]["opened"] /\ n'[p]["replay"] = n[p]["replay"]
      BY <1>6, <3>1, LoadEffect DEF Tallies
    <3> QED
      BY <2>1, <2>5, <3>1, <3>2 DEF Books, Measuring
  <2> QED
    BY <1>6, <2>3, <2>4, <2>5, LoadEffect
<1>7. CASE RelayHalf \/ Verdict
  <2>1. /\ Rest /\ pc' \in {"verdict", "done"} /\ phase = 3
    BY <1>7 DEF RelayHalf, Verdict, Return, bobVars, Place
  <2> QED
    BY <2>1 DEF Books, Measuring
<1>8. CASE Connect \/ UNCHANGED vars
  BY <1>1, <1>8 DEF Connect, vars, mainVars, bobVars
<1>9. CASE Open
  <2>1. /\ UNCHANGED <<phase, n, tally, pc, k>> /\ Len(link) >= 1 /\ bob = "idle" /\ bob' # "idle"
        /\ Len(link') = Len(link) - 1 /\ Len(link') \in Nat
        /\ \A i \in 1..Len(link') : link'[i] = link[i + 1]
    BY <1>9, OpenEffect DEF mainVars, Tallies
  <2>2. InFlight' = InFlight /\ Counted' = Counted
    BY <1>0, <2>1 DEF InFlight, Counted
  <2>3. (\A i \in 1..Len(link) : link[i] = phase) => (\A i \in 1..Len(link') : link'[i] = phase)
    BY <1>l, <2>1
  <2> QED
    BY <2>1, <2>2, <2>3 DEF Books, Measuring, Posted
<1>10. CASE Count
  <2>1. /\ UNCHANGED <<phase, n, link, pc, k>> /\ bob \in Tallies /\ bob' = "idle"
        /\ tally' = [tally EXCEPT ![bob] = @ + 1]
    BY <1>10 DEF Count, mainVars, TypeOK
  <2>2. /\ InFlight' = InFlight - 1 /\ Counted' = Counted + 1 /\ Counted \in Nat
        /\ tally'["replay"] <= tally["replay"] + 1
        /\ InFlight >= 1
    <3>1. /\ InFlight' = Len(link) /\ InFlight = Len(link) + 1
      BY <2>1 DEF InFlight, Tallies
    <3>2. \A c \in Tallies : tally'[c] = (IF c = bob THEN tally[c] + 1 ELSE tally[c])
      BY <2>1 DEF TypeOK
    <3>3. Counted' = Counted + 1 /\ Counted \in Nat
      <4>1. bob \in Tallies
        BY <2>1
      <4>2. /\ tally'["opened"] = IF bob = "opened" THEN tally["opened"] + 1 ELSE tally["opened"]
            /\ tally'["replay"] = IF bob = "replay" THEN tally["replay"] + 1 ELSE tally["replay"]
            /\ tally'["other"] = IF bob = "other" THEN tally["other"] + 1 ELSE tally["other"]
        BY <3>2 DEF Tallies
      <4> DEFINE a == tally["opened"]
                 b == tally["replay"]
                 c == tally["other"]
      <4>3. a \in Nat /\ b \in Nat /\ c \in Nat
        BY <1>0
      <4>4. \/ tally'["opened"] = a + 1 /\ tally'["replay"] = b /\ tally'["other"] = c
            \/ tally'["opened"] = a /\ tally'["replay"] = b + 1 /\ tally'["other"] = c
            \/ tally'["opened"] = a /\ tally'["replay"] = b /\ tally'["other"] = c + 1
        BY <4>1, <4>2 DEF Tallies
      <4> QED
        BY <4>3, <4>4 DEF Counted
    <3>4. tally'["replay"] <= tally["replay"] + 1
      BY <1>0, <3>2 DEF Tallies
    <3> QED
      BY <1>0, <3>1, <3>3, <3>4
  <2>3. tally'["replay"] \in Nat
    BY <2>1 DEF TypeOK, Tallies
  <2>4. Posted' = Posted
    BY <2>1 DEF Posted
  <2>5. Counted \in Nat
    BY Numbers
  <2> SUFFICES ASSUME Settled(phase)'
               PROVE  Books'
    BY DEF Books
  <2>6. Settled(phase)
    BY <2>1
  <2> HIDE DEF Settled
  <2>7. pc \notin {"setup", "defaults", "switch", "zero"} /\ ~(pc = "done" /\ phase = 1)
    BY <1>i, <2>2, <2>6 DEF Books
  <2>8. Measuring => InFlight' + Counted' <= Posted'
    <3>1. InFlight' + Counted' = InFlight + Counted
      BY <1>i, <2>2, <2>5
    <3> QED
      BY <2>4, <2>6, <3>1 DEF Books
  <2>9. /\ tally'["replay"] + InFlight' <= tally["replay"] + InFlight
        /\ InFlight' <= InFlight
    BY <1>0, <1>i, <2>2, <2>3
  <2> DEFINE o == n[phase]["opened"]
             r == n[phase]["replay"]
             t == tally["replay"]
             c == Copies(phase)
  <2>x. o \in Nat /\ r \in Nat /\ t \in Nat /\ c \in Nat
    BY <1>0 DEF Copies
  <2>y. InFlight' = InFlight - 1
    BY <2>2
  <2>10. ASSUME pc = "load", k = 2
         PROVE  o + tally'["replay"] + InFlight' <= c
    <3>1. o + t + InFlight <= c
      BY <2>6, <2>10 DEF Books
    <3> HIDE DEF o, c
    <3> QED
      BY <1>i, <2>x, <2>3, <2>9, <2>y, <3>1
  <2>11. ASSUME pc = "load", k = 3
         PROVE  o + r + InFlight' <= c
    <3>1. o + r + InFlight <= c
      BY <2>6, <2>11 DEF Books
    <3> HIDE DEF o, r, c
    <3> QED
      BY <1>i, <2>x, <2>y, <3>1
  <2> QED
    BY <2>1, <2>6, <2>7, <2>8, <2>10, <2>11 DEF Books, Measuring
<1> QED
  BY <1>2, <1>3, <1>4, <1>5, <1>6, <1>7, <1>8, <1>9, <1>10 DEF Next, Main, Bob, Done


\* Only four actions touch the tallies, what main read of them, or the cache.
LEMMA Quiet ==
  ASSUME [Next]_vars, ~Zero, ~Load, ~Open, ~Count
  PROVE  UNCHANGED <<build, phase, n, bob, tally, cache>> /\ (Measuring' => Measuring)
<1>1. CASE UNCHANGED vars
  BY <1>1 DEF vars, mainVars, bobVars, Measuring
<1>2. CASE SetUp \/ CheckDefaults \/ SetSwitch
  BY <1>2 DEF SetUp, CheckDefaults, SetSwitch, Return, bobVars, Measuring
<1>3. CASE Post \/ Sleep
  BY <1>3 DEF Post, Sleep, bobVars, Measuring
<1>4. CASE RelayHalf \/ Verdict
  BY <1>4 DEF RelayHalf, Verdict, Return, bobVars, Measuring
<1>5. CASE Connect
  BY <1>5 DEF Connect, mainVars, bobVars, Measuring
<1> QED
  BY <1>1, <1>2, <1>3, <1>4, <1>5 DEF Next, Main, Bob, Done

\* What one ++ changes.
LEMMA CountEffect ==
  ASSUME TypeOK, Count
  PROVE  /\ bob \in Tallies /\ bob' = "idle"
         /\ \A c \in Tallies : tally'[c] = IF c = bob THEN tally[c] + 1 ELSE tally[c]
         /\ UNCHANGED <<build, pc, phase, k, n, link, cache, refuse>>
  BY DEF TypeOK, Count, mainVars

\* Where main is when the pump takes a body it can still be charged for.
LEMMA OpenWhen ==
  ASSUME TypeOK, Place, Books, Open, Settled(phase)
  PROVE  /\ link[1] = phase
         /\ phase = 1 => ~refuse
         /\ phase # 1 => refuse
<1>1. Len(link) >= 1 /\ bob = "idle" /\ Len(link) \in Nat /\ phase \in 1..3
  BY OpenEffect, Numbers
<1>2. InFlight # 0
  BY <1>1 DEF InFlight
<1>3. link[1] = phase
  BY <1>1 DEF Books
<1>4. phase = 1 => Measuring
  BY <1>2 DEF Books, Place, TypeOK, Measuring
<1>5. pc # "switch"
  BY <1>2 DEF Books
<1> QED
  BY <1>1, <1>3, <1>4, <1>5 DEF Place

LEMMA OffStep == TypeOK /\ Place /\ Books /\ Off /\ [Next]_vars => Off'
<1> SUFFICES ASSUME TypeOK, Place, Books, Off, [Next]_vars
             PROVE  Off'
  OBVIOUS
<1>t. /\ k \in 1..3 /\ phase \in 1..3 /\ tally["opened"] \in Nat
      /\ \A p \in 1..3 : n[p]["opened"] \in Nat
  BY Numbers
<1>1. CASE ~Zero /\ ~Load /\ ~Open /\ ~Count
  BY <1>1, Quiet DEF Off
<1>2. CASE Zero
  BY <1>t, <1>2, ZeroEffect DEF Off
<1>3. CASE Load
  <2>1. /\ UNCHANGED <<build, tally, bob, cache>> /\ phase' \in 1..3 /\ phase' >= phase
        /\ n'[1]["opened"] = n[1]["opened"] \/ (phase = 1 /\ n'[1]["opened"] = tally["opened"])
    BY <1>t, <1>3, LoadEffect DEF bobVars, Tallies
  <2> QED
    BY <1>t, <2>1 DEF Off
<1>4. CASE Open
  <2>1. UNCHANGED <<build, phase, n, tally>> /\ bob = "idle" /\ cache \subseteq cache'
    BY <1>4, OpenEffect DEF mainVars
  <2>2. ASSUME phase = 1, ~build["sealOff"], bob' = "opened"
        PROVE  1 \notin cache /\ 1 \in cache'
    <3>1. Settled(phase)
      BY <2>2 DEF Settled
    <3>2. link[1] = 1 /\ ~refuse
      BY <1>4, <2>2, <3>1, OpenWhen
    <3>3. SealOn
      BY <2>2, <3>2 DEF SealOn
    <3> QED
      BY <1>4, <2>2, <3>2, <3>3, OpenEffect DEF Refused
  <2> QED
    BY <1>t, <2>1, <2>2 DEF Off
<1>5. CASE Count
  <2>1. /\ UNCHANGED <<build, phase, n, cache>> /\ bob' = "idle"
        /\ tally'["opened"] = IF bob = "opened" THEN tally["opened"] + 1 ELSE tally["opened"]
    BY <1>5, CountEffect DEF Tallies
  <2> QED
    BY <1>t, <2>1 DEF Off
<1> QED
  BY <1>1, <1>2, <1>3, <1>4, <1>5

LEMMA OnStep == TypeOK /\ Place /\ Books /\ On /\ [Next]_vars => On'
<1> SUFFICES ASSUME TypeOK, Place, Books, On, [Next]_vars
             PROVE  On'
  OBVIOUS
<1>t. /\ k \in 1..3 /\ phase \in 1..3 /\ tally["replay"] \in Nat
      /\ \A p \in 1..3 : n[p]["opened"] \in Nat /\ n[p]["replay"] \in Nat
  BY Numbers
<1>1. CASE ~Zero /\ ~Load /\ ~Open /\ ~Count
  BY <1>1, Quiet DEF On, Settled
<1>2. CASE Zero
  <2>1. UNCHANGED <<build, phase, n, bob>> /\ pc = "zero" /\ (Measuring' => k = 3)
    BY <1>2, ZeroEffect DEF Measuring
  <2>2. phase = 2 /\ Settled(2) /\ k = 3 => tally'["replay"] = 0 /\ bob = "idle"
    BY <1>2, <2>1, ZeroEffect DEF Books, InFlight, TypeOK
  <2> QED
    BY <2>1, <2>2 DEF On, Settled
<1>3. CASE Load
  <2>1. /\ UNCHANGED <<build, tally, bob>> /\ phase' \in 1..3
        /\ phase' = 2 /\ Measuring' => phase = 2 /\ Measuring
    BY <1>t, <1>3, LoadEffect DEF bobVars, Measuring, Load
  <2>2. /\ n'[1]["opened"] = n[1]["opened"] \/ phase = 1
        /\ n'[2]["replay"] = n[2]["replay"] \/ (phase = 2 /\ n'[2]["replay"] = tally["replay"])
    BY <1>t, <1>3, LoadEffect DEF Tallies
  <2>3. phase = 1 => n[2]["replay"] = 0
    BY DEF Place
  <2>4. Measuring
    BY <1>3 DEF Load, Measuring
  <2> QED
    BY <1>t, <2>1, <2>2, <2>3, <2>4 DEF On, Settled
<1>4. CASE Open
  <2>1. UNCHANGED <<build, phase, n, tally, pc>>
    BY <1>4, OpenEffect DEF mainVars
  <2>2. ASSUME phase = 2, ~build["sealOn"], Settled(2)
        PROVE  bob' # "replay"
    <3>1. refuse
      BY <1>4, <2>2, OpenWhen
    <3>2. ~SealOn
      BY <2>2, <3>1 DEF SealOn
    <3> QED
      BY <1>4, <3>2, OpenEffect DEF Refused
  <2> QED
    BY <2>1, <2>2 DEF On, Settled, Measuring
<1>5. CASE Count
  <2>1. /\ UNCHANGED <<build, pc, phase, n>> /\ bob' = "idle"
        /\ tally'["replay"] = IF bob = "replay" THEN tally["replay"] + 1 ELSE tally["replay"]
    BY <1>5, CountEffect DEF Tallies
  <2> QED
    BY <1>t, <2>1 DEF On, Settled, Measuring
<1> QED
  BY <1>1, <1>2, <1>3, <1>4, <1>5

LEMMA FreshStep == TypeOK /\ Place /\ Books /\ Fresh /\ [Next]_vars => Fresh'
<1> SUFFICES ASSUME TypeOK, Place, Books, Fresh, [Next]_vars
             PROVE  Fresh'
  OBVIOUS
<1>t. /\ k \in 1..3 /\ phase \in 1..3 /\ tally["replay"] \in Nat /\ tally["opened"] \in Nat
      /\ \A p \in 1..3 : n[p]["opened"] \in Nat /\ n[p]["replay"] \in Nat
  BY Numbers
<1>1. CASE ~Zero /\ ~Load /\ ~Open /\ ~Count
  BY <1>1, Quiet DEF Fresh, Settled
<1>2. CASE Zero
  <2>1. /\ UNCHANGED <<build, phase, n, bob, cache>> /\ pc = "zero" /\ (Measuring' => k = 3)
        /\ tally'["replay"] = 0 \/ tally'["replay"] = tally["replay"]
    BY <1>2, ZeroEffect DEF Measuring
  <2>2. phase = 3 /\ Settled(3) /\ k = 3 => tally'["opened"] = 0 /\ bob = "idle"
    BY <1>2, <2>1, ZeroEffect DEF Books, InFlight, TypeOK
  <2> QED
    BY <2>1, <2>2 DEF Fresh, Settled
<1>3. CASE Load
  <2>1. /\ UNCHANGED <<build, tally, bob, cache>> /\ phase' \in 1..3 /\ Measuring
        /\ phase' = 3 /\ Measuring' => phase = 3
    BY <1>t, <1>3, LoadEffect DEF bobVars, Measuring, Load
  <2>2. n'[2]["replay"] = n[2]["replay"] \/ n'[2]["replay"] = tally["replay"]
    BY <1>t, <1>3, LoadEffect DEF Tallies
  <2>3. CASE phase = 3
    <3>1. /\ n'[1]["opened"] = n[1]["opened"] /\ n'[2]["opened"] = n[2]["opened"]
          /\ n'[2]["replay"] = n[2]["replay"]
          /\ n'[3]["opened"] = n[3]["opened"] \/ n'[3]["opened"] = tally["opened"]
      BY <1>3, <2>3, LoadEffect DEF Tallies
    <3> QED
      BY <1>t, <2>1, <2>3, <3>1 DEF Fresh, Settled
  <2>4. CASE phase # 3
    <3>1. n'[3]["opened"] = 0
      BY <1>t, <1>3, <2>4, LoadEffect DEF Place, Tallies
    <3> QED
      BY <1>t, <2>1, <2>2, <2>4, <3>1 DEF Fresh
  <2> QED
    BY <2>3, <2>4
<1>4. CASE Open
  <2>1. UNCHANGED <<build, phase, n, tally, pc>> /\ cache \subseteq cache'
    BY <1>4, OpenEffect DEF mainVars
  <2>2. bob' = "replay" => cache # {}
    BY <1>4, OpenEffect DEF Refused
  <2>3. ASSUME phase = 3, ~build["sealFresh"], build["sealOn"], Settled(3), cache # {}
        PROVE  bob' # "opened"
    <3>1. refuse
      BY <1>4, <2>3, OpenWhen
    <3>2. SealOn
      BY <2>3, <3>1 DEF SealOn
    <3> QED
      BY <1>4, <2>3, <3>2, OpenEffect DEF Refused
  <2>4. cache # {} => cache' # {}
    BY <2>1
  <2> QED
    BY <1>t, <2>1, <2>2, <2>3, <2>4 DEF Fresh, Settled, Measuring
<1>5. CASE Count
  <2>1. /\ UNCHANGED <<build, pc, phase, n, cache>> /\ bob' = "idle"
        /\ tally'["replay"] = IF bob = "replay" THEN tally["replay"] + 1 ELSE tally["replay"]
        /\ tally'["opened"] = IF bob = "opened" THEN tally["opened"] + 1 ELSE tally["opened"]
    BY <1>5, CountEffect DEF Tallies
  <2> QED
    BY <1>t, <2>1 DEF Fresh, Settled, Measuring
<1> QED
  BY <1>1, <1>2, <1>3, <1>4, <1>5

-----------------------------------------------------------------------------

\* The relay half: its three findings are evidence of the three features.
LEMMA RelayEvidence ==
  ASSUME TypeOK, VerifyRelays.ctrl, VerifyRelays.refused, VerifyRelays.live
  PROVE  build["relayOff"] /\ build["relayOn"] /\ build["relayFresh"]
<1>1. ASSUME ~build["relayOff"] PROVE FALSE
  BY <1>1 DEF VerifyRelays, RelayOn, Refused
<1>2. ASSUME ~build["relayOn"] PROVE FALSE
  BY <1>2 DEF VerifyRelays, RelayOn, Refused
<1>3. ASSUME ~build["relayFresh"] PROVE FALSE
  BY <1>1, <1>2, <1>3 DEF VerifyRelays, RelayOn, Refused
<1> QED
  BY <1>1, <1>2, <1>3

\* The chain of verdicts reaches a pass on a good build only.
LEMMA PassNeedsAll ==
  ASSUME IInv, Verdict, exit' = Gate!Pass
  PROVE  build \in GoodBuilds
<1>1. exit' = ExitCode /\ pc = "verdict"
  BY DEF Verdict, Return
<1>2. /\ n[1]["opened"] = 2 /\ n[2]["opened"] = 1 /\ n[2]["replay"] = 1 /\ n[3]["opened"] = 1
      /\ relay.ok /\ relay.ctrl /\ relay.refused /\ relay.live
  BY <1>1 DEF ExitCode, Gate!Pass, Gate!Fail, Gate!Setup, Gate!Inconclusive
<1>3. Settled(2) /\ Settled(3)
  BY <1>2 DEF Settled
<1>4. build["defaults"] /\ build["keys"] /\ build["sealOff"]
  BY <1>1, <1>2 DEF IInv, Verdicts, Keys, Off
<1>5. build["sealOn"]
  BY <1>2, <1>3 DEF IInv, On
<1>6. build["sealFresh"]
  BY <1>2, <1>3, <1>5 DEF IInv, Fresh
<1>7. relay = VerifyRelays
  BY <1>1, <1>2 DEF IInv, Verdicts, NoRelay
<1>8. build["relayOff"] /\ build["relayOn"] /\ build["relayFresh"]
  BY <1>2, <1>7, RelayEvidence DEF IInv
<1>9. \A f \in Features : build[f]
  BY <1>4, <1>5, <1>6, <1>8 DEF Features
<1> QED
  BY <1>9 DEF GoodBuilds, IInv, TypeOK

LEMMA VerdictsStep == IInv /\ [Next]_vars => Verdicts'
<1> SUFFICES ASSUME IInv, [Next]_vars
             PROVE  Verdicts'
  OBVIOUS
<1> USE DEF Gate!Running, Gate!Pass, Gate!Fail, Gate!Setup, Gate!Inconclusive
<1>v. Verdicts /\ TypeOK
  BY DEF IInv
<1>1. CASE SetUp
  BY <1>v, <1>1 DEF SetUp, Return, Verdicts, GoodBuilds
<1>2. CASE CheckDefaults
  BY <1>v, <1>2 DEF CheckDefaults, Return, Verdicts, GoodBuilds
<1>3. CASE SetSwitch \/ Zero \/ Post \/ Sleep \/ Load
  <2>1. /\ pc \in {"switch", "zero", "post", "sleep", "load"}
        /\ pc' \in {"switch", "zero", "post", "sleep", "load", "relay"}
        /\ UNCHANGED <<build, exit>>
    BY <1>3 DEF SetSwitch, Zero, Post, Sleep, Load
  <2> QED
    BY <1>v, <2>1 DEF Verdicts, GoodBuilds
<1>4. CASE RelayHalf
  <2>1. VerifyRelays' = VerifyRelays
    BY <1>4 DEF RelayHalf, VerifyRelays, RelayOn, Refused
  <2> QED
    BY <1>v, <1>4, <2>1 DEF RelayHalf, Verdicts, GoodBuilds
<1>5. CASE Verdict
  <2>1. pc' = "done" /\ exit' = ExitCode /\ build' = build
    BY <1>5 DEF Verdict, Return
  <2>2. exit' # Gate!Running
    BY <2>1 DEF ExitCode
  <2>3. exit' = Gate!Pass => build \in GoodBuilds
    BY <1>5, PassNeedsAll
  <2> QED
    BY <2>1, <2>2, <2>3 DEF Verdicts, GoodBuilds
<1>6. CASE Connect \/ Open \/ Count \/ UNCHANGED vars
  <2>1. UNCHANGED <<build, pc, relay, exit>>
    BY <1>6 DEF Connect, Open, Count, vars, mainVars
  <2>2. VerifyRelays' = VerifyRelays
    BY <2>1 DEF VerifyRelays, RelayOn, Refused
  <2> QED
    BY <1>v, <2>1, <2>2 DEF Verdicts, GoodBuilds
<1> QED
  BY <1>1, <1>2, <1>3, <1>4, <1>5, <1>6 DEF Next, Main, Bob, Done

\* The bookkeeping invariant holds throughout.
THEOREM Invariance == Spec => []IInv
<1>1. Init => IInv
  BY AllInit
<1>2. IInv /\ [Next]_vars => IInv'
  BY TypeStep, PlaceStep, BooksStep, KeysStep, OffStep, OnStep, FreshStep, VerdictsStep DEF IInv
<1> QED
  BY <1>1, <1>2, PTL DEF Spec

\* What two full phases have answered leaves nothing of theirs in the connection.
THEOREM OwnEvidence == Spec => []EvidenceIsOwn
<1>1. IInv => EvidenceIsOwn
  BY DEF IInv, Books, EvidenceIsOwn
<1> QED
  BY <1>1, Invariance, PTL

\* The harness implements a gate: whatever is late, only a good build passes.
THEOREM Refinement == Spec => PassIsEvidence
<1>1. Init => Gate!GateInit
  BY DEF Init, Gate!GateInit
<1>2. IInv /\ IInv' /\ [Next]_vars => [Gate!GateNext]_(Gate!gateVars)
  <2> SUFFICES ASSUME IInv, IInv', [Next]_vars
               PROVE  Gate!GateNext \/ UNCHANGED <<build, exit>>
    BY DEF Gate!gateVars
  <2>1. ASSUME exit # Gate!Running
        PROVE  UNCHANGED <<build, exit>>
    <3>1. pc = "done"
      BY <2>1 DEF IInv, Verdicts
    <3> QED
      BY <3>1 DEF Next, Main, Bob, Done, SetUp, CheckDefaults, SetSwitch, Zero, Post, Sleep,
           Load, RelayHalf, Verdict, Connect, Open, Count, vars, mainVars
  <2>2. build' = build
    BY DEF Next, Main, Bob, Done, SetUp, CheckDefaults, SetSwitch, Zero, Post, Sleep,
         Load, RelayHalf, Verdict, Connect, Open, Count, vars
  <2>3. ASSUME exit = Gate!Running, exit' # exit
        PROVE  Gate!GateNext
    <3>1. exit' \in Gate!ExitCodes
      BY <2>3 DEF IInv, TypeOK
    <3>2. exit' = Gate!Pass => build \in GoodBuilds
      BY <2>2 DEF IInv, Verdicts, GoodBuilds
    <3>3. Gate!Return(exit')
      BY <2>2, <2>3, <3>2 DEF Gate!Return
    <3> QED
      BY <3>1, <3>3 DEF Gate!GateNext
  <2> QED
    BY <2>1, <2>2, <2>3
<1> QED
  BY <1>1, <1>2, Invariance, PTL DEF Spec, PassIsEvidence, Gate!GateSpec
-----------------------------------------------------------------------------
(* The Sleeps that are long enough                                         *)
(*                                                                         *)
(* A timely Sleep ends with the body it follows answered, so there is one  *)
(* body under way at a time (Alone).  A good build then answers by the     *)
(* book (Answers), and what main reads of that is what the chain of        *)
(* verdicts asks for (Rows).                                               *)

\* A good build and a machine on which every Sleep is long enough.
Ideal == Timely /\ build \in GoodBuilds

\* The bodies of this phase that have an answer, counted or about to be.
Answered ==
    IF pc = "post" THEN k - 1 ELSE IF pc = "sleep" THEN k - Len(link)
    ELSE IF pc = "load" THEN Copies(phase) ELSE 0

\* How many of a phase's first d bodies a good build opens, and what its cache
\* holds by then: nothing of the phase without the switch, both fresh bodies
\* after it.
Opens(p, d) == IF p = 2 /\ d = 2 THEN 1 ELSE d
HeldBy(p, d) == {b \in Body : (b = 2 /\ p = 2 /\ d > 0) \/ (b = 2 /\ p = 3) \/ (b = 3 /\ p = 3 /\ d > 0)}

\* One body is under way at a time, and only while main sleeps.
Alone ==
    /\ Len(link) <= 1
    /\ pc \notin {"sleep", "done"} => Len(link) = 0 /\ bob = "idle"
    /\ pc = "sleep" => (Len(link) = 1 => bob = "idle" /\ link[1] = phase)
    /\ pc \notin {"setup", "done"} => connected

\* The answers of a good build, and what they leave in its cache.
Answers ==
    /\ pc \notin {"relay", "verdict", "done"} => cache = HeldBy(phase, Answered)
    /\ Measuring =>
        /\ tally["opened"] + (IF bob = "opened" THEN 1 ELSE 0) = Opens(phase, Answered)
        /\ tally["replay"] + (IF bob = "replay" THEN 1 ELSE 0) = Answered - Opens(phase, Answered)
        /\ tally["other"] = 0 /\ bob # "other"
    /\ pc = "zero" => /\ k >= 2 => tally["opened"] = 0
                      /\ k = 3 => tally["replay"] = 0

\* What main has read of a good build by the time it is at a phase.
Rows ==
    /\ pc = "load" /\ k >= 2 => n[phase]["opened"] = Opens(phase, Copies(phase))
    /\ pc = "load" /\ k = 3 => n[phase]["replay"] = Copies(phase) - Opens(phase, Copies(phase))
    /\ phase > 1 => n[1]["opened"] = 2 /\ n[1]["replay"] = 0 /\ n[1]["other"] = 0
    /\ phase > 2 => n[2]["opened"] = 1 /\ n[2]["replay"] = 1 /\ n[2]["other"] = 0
    /\ pc \in {"relay", "verdict"} => n[3]["opened"] = 1
    /\ exit \in {Gate!Running, Gate!Setup, Gate!Pass}

ByTheBook == (Timely => Alone) /\ (Ideal => Answers /\ Rows)

\* Main's own steps leave the build alone, and so do the others.
LEMMA SameBuild == [Next]_vars => build' = build
  BY DEF Next, Main, Bob, Done, SetUp, CheckDefaults, SetSwitch, Zero, Post, Sleep,
       Load, RelayHalf, Verdict, Connect, Open, Count, vars

LEMMA ByTheBookInit == Init => ByTheBook
<1> SUFFICES ASSUME Init
             PROVE  ByTheBook
  OBVIOUS
<1>1. link = <<>> /\ Len(link) = 0 /\ bob = "idle" /\ pc = "setup" /\ phase = 1 /\ cache = {}
  BY DEF Init
<1>2. exit = Gate!Running
  BY DEF Init
<1> QED
  BY <1>1, <1>2 DEF ByTheBook, Alone, Answers, Rows, Answered, HeldBy, Body, Phases, Measuring

LEMMA AloneStep == TypeOK /\ Timely /\ Alone /\ [Next]_vars => Alone'
<1> SUFFICES ASSUME TypeOK, Timely, Alone, [Next]_vars
             PROVE  Alone'
  OBVIOUS
<1> USE DEF Alone
<1>0. link \in Seq(Body) /\ Len(link) \in Nat /\ (Len(link) = 0 <=> link = <<>>)
  BY DEF TypeOK
<1>1. CASE SetUp \/ Sleep
  BY <1>0, <1>1 DEF SetUp, Sleep, Return, Slept, bobVars
<1>2. CASE CheckDefaults \/ Verdict
  BY <1>2 DEF CheckDefaults, Verdict, Return, bobVars
<1>3. CASE SetSwitch \/ Zero \/ RelayHalf
  BY <1>3 DEF SetSwitch, Zero, RelayHalf, bobVars
<1>4. CASE Post
  <2>1. pc = "post" /\ pc' = "sleep" /\ UNCHANGED <<phase, connected, bob>>
    BY <1>4 DEF Post, bobVars
  <2>2. connected /\ bob = "idle" /\ Len(link) = 0
    BY <2>1
  <2>3. link' = Append(link, phase)
    BY <1>4, <2>2 DEF Post
  <2>4. Len(link') = 1 /\ link'[1] = phase
    BY <1>0, <2>2, <2>3
  <2> QED
    BY <2>1, <2>2, <2>4
<1>5. CASE Load
  BY <1>5, LoadEffect DEF Load, bobVars
<1>6. CASE Connect
  BY <1>6 DEF Connect, mainVars, bobVars
<1>7. CASE Open
  <2>1. /\ Len(link) >= 1 /\ Len(link') = Len(link) - 1 /\ Len(link') \in Nat
        /\ UNCHANGED <<pc, phase, connected>>
    BY <1>7, OpenEffect DEF mainVars
  <2>2. Len(link') = 0 /\ pc \in {"sleep", "done"}
    BY <1>0, <2>1
  <2> QED
    BY <2>1, <2>2
<1>8. CASE Count
  BY <1>8 DEF Count, mainVars
<1>9. CASE Done \/ UNCHANGED vars
  BY <1>9 DEF Done, vars, mainVars, bobVars
<1> QED
  BY <1>1, <1>2, <1>3, <1>4, <1>5, <1>6, <1>7, <1>8, <1>9 DEF Next, Main, Bob

\* What a good build does with the k-th body of a phase.
LEMMA IdealOpen ==
  ASSUME TypeOK, Place, Alone, Ideal, Answers, Open, pc = "sleep"
  PROVE  /\ bob = "idle" /\ Answered = k - 1 /\ Answered' = k
         /\ bob' = IF phase = 2 /\ k = 2 THEN "replay" ELSE "opened"
         /\ cache' = HeldBy(phase, k)
         /\ k \in 1..2 /\ (phase = 3 => k = 1)
         /\ UNCHANGED <<build, mainVars, connected, tally, refuse>>
<1>1. /\ Len(link) = 1 /\ Len(link') = 0 /\ bob = "idle" /\ link[1] = phase
      /\ UNCHANGED <<build, mainVars, connected, tally, refuse>>
  BY OpenEffect, Numbers DEF Alone
<1>2. phase \in 1..3 /\ k \in 1..3 /\ k <= Copies(phase)
  BY Numbers DEF Place
<1>3. k \in 1..2 /\ (phase = 3 => k = 1)
  BY <1>2 DEF Copies
<1>4. Answered = k - 1 /\ Answered' = k
  BY <1>1, <1>3 DEF Answered, mainVars
<1>5. \A f \in Features : build[f]
  BY DEF Ideal, GoodBuilds
<1>6. SealOn <=> phase # 1
  BY <1>2, <1>5 DEF SealOn, Place, Measuring, Features
<1>7. cache = HeldBy(phase, k - 1)
  BY <1>4 DEF Answers
<1>8. Refused(SealOn, build["sealFresh"], phase, cache) <=> phase = 2 /\ k = 2
  BY <1>2, <1>3, <1>5, <1>6, <1>7 DEF Refused, HeldBy, Body, Phases, Features
<1>9. bob' = IF phase = 2 /\ k = 2 THEN "replay" ELSE "opened"
  BY <1>1, <1>5, <1>8, OpenEffect DEF Tallies, Features
<1>10. cache' = HeldBy(phase, k)
  <2>1. cache' = IF phase # 1 /\ ~(phase = 2 /\ k = 2) THEN cache \union {phase} ELSE cache
    BY <1>1, <1>6, <1>9, OpenEffect
  <2> QED
    BY <1>2, <1>3, <1>7, <2>1 DEF HeldBy, Body, Phases
<1> QED
  BY <1>1, <1>3, <1>4, <1>9, <1>10

LEMMA AnswersStep == TypeOK /\ Place /\ Alone /\ Ideal /\ Answers /\ [Next]_vars => Answers'
<1> SUFFICES ASSUME TypeOK, Place, Alone, Ideal, Answers, [Next]_vars
             PROVE  Answers'
  OBVIOUS
<1>t. /\ k \in 1..3 /\ phase \in 1..3 /\ Len(link) \in Nat
      /\ tally["opened"] \in Nat /\ tally["replay"] \in Nat
  BY Numbers
<1>1. CASE SetUp \/ CheckDefaults \/ SetSwitch
  BY <1>1 DEF SetUp, CheckDefaults, SetSwitch, Return, bobVars, Answers, Answered, Measuring
<1>2. CASE Zero
  <2>1. pc' = "post" => tally'["opened"] = 0 /\ tally'["replay"] = 0 /\ tally'["other"] = 0 /\ k' = 1
    BY <1>t, <1>2, ZeroEffect DEF Answers
  <2>2. bob = "idle"
    BY <1>2 DEF Zero, Alone
  <2>3. pc' = "zero" => (k' >= 2 => tally'["opened"] = 0) /\ (k' = 3 => tally'["replay"] = 0)
    BY <1>t, <1>2, ZeroEffect DEF Answers
  <2>4. pc = "zero" /\ pc' \in {"zero", "post"} /\ UNCHANGED <<phase, bob, cache>>
    BY <1>t, <1>2, ZeroEffect
  <2>5. Answered = 0 /\ (pc' = "zero" => Answered' = 0) /\ (pc' = "post" => Answered' = 0)
    BY <2>1, <2>4 DEF Answered
  <2>6. Opens(phase, 0) = 0
    BY DEF Opens
  <2> QED
    BY <2>1, <2>2, <2>3, <2>4, <2>5, <2>6 DEF Answers, Measuring
<1>3. CASE Post
  <2>1. Len(link) = 0 /\ connected /\ pc = "post" /\ pc' = "sleep"
    BY <1>3 DEF Post, Alone
  <2>2. Len(link') = 1 /\ UNCHANGED <<phase, k, bob, tally, cache>>
    BY <1>3, <2>1 DEF Post, TypeOK, bobVars
  <2>3. Answered' = Answered
    BY <2>1, <2>2 DEF Answered
  <2> QED
    BY <2>1, <2>2, <2>3 DEF Answers, Measuring
<1>4. CASE Sleep
  <2>1. Len(link) = 0 /\ pc = "sleep" /\ UNCHANGED <<phase, bob, tally, cache>>
    BY <1>4 DEF Sleep, Slept, Ideal, bobVars
  <2>2. \/ pc' = "post" /\ k' = k + 1
        \/ pc' = "load" /\ k = Copies(phase)
    BY <1>t, <1>4 DEF Sleep, Place, Copies
  <2>3. Answered' = Answered
    BY <1>t, <2>1, <2>2 DEF Answered, Copies
  <2> QED
    BY <2>1, <2>2, <2>3 DEF Answers, Measuring
<1>5. CASE Load
  <2>1. /\ pc = "load" /\ UNCHANGED <<bob, tally, cache>>
        /\ \/ pc' = "load" /\ phase' = phase
           \/ pc' = "switch" /\ phase' = phase + 1 /\ phase < 3
           \/ pc' = "relay"
    BY <1>5, LoadEffect DEF Load, bobVars
  <2>2. CASE pc' = "load" /\ phase' = phase
    BY <2>1, <2>2 DEF Answers, Answered, Measuring
  <2>3. CASE pc' = "switch" /\ phase' = phase + 1 /\ phase < 3
    <3>1. HeldBy(phase, Copies(phase)) = HeldBy(phase + 1, 0)
      BY <1>t, <2>3 DEF HeldBy, Copies, Body, Phases
    <3> QED
      BY <2>1, <2>3, <3>1 DEF Answers, Answered, Measuring
  <2>4. CASE pc' = "relay"
    BY <2>4 DEF Answers, Measuring
  <2> QED
    BY <2>1, <2>2, <2>3, <2>4
<1>6. CASE RelayHalf \/ Verdict
  BY <1>6 DEF RelayHalf, Verdict, Return, Answers, Measuring
<1>7. CASE Connect \/ Done \/ UNCHANGED vars
  BY <1>7 DEF Connect, Done, vars, mainVars, bobVars, Answers, Answered, Measuring
<1>8. CASE Open
  <2>1. pc \in {"sleep", "done"} /\ pc' = pc
    BY <1>t, <1>8, OpenEffect DEF Alone, mainVars
  <2>2. CASE pc = "sleep"
    <3>1. UNCHANGED <<phase, tally>>
      BY <1>8, <2>2, IdealOpen DEF mainVars
    <3>2. Opens(phase, k) = Opens(phase, k - 1) + (IF phase = 2 /\ k = 2 THEN 0 ELSE 1)
      BY <1>t, <1>8, <2>2, IdealOpen DEF Opens
    <3>3. /\ tally["opened"] = Opens(phase, k - 1)
          /\ tally["replay"] = k - 1 - Opens(phase, k - 1)
          /\ tally["other"] = 0
      <4>1. bob = "idle" /\ Answered = k - 1
        BY <1>8, <2>2, IdealOpen
      <4> QED
        BY <1>t, <2>2, <4>1 DEF Answers, Measuring
    <3> QED
      BY <1>t, <1>8, <2>1, <2>2, <3>1, <3>2, <3>3, IdealOpen DEF Answers, Measuring, Opens
  <2>3. CASE pc = "done"
    BY <2>1, <2>3 DEF Answers, Measuring
  <2> QED
    BY <2>1, <2>2, <2>3
<1>9. CASE Count
  <2>1. /\ UNCHANGED <<pc, phase, k, link, cache>> /\ bob' = "idle"
        /\ \A c \in Tallies : tally'[c] = IF c = bob THEN tally[c] + 1 ELSE tally[c]
    BY <1>9, CountEffect
  <2>2. pc # "zero"
    BY <1>9 DEF Count, Alone
  <2>3. Answered' = Answered
    BY <2>1 DEF Answered
  <2> QED
    BY <1>t, <2>1, <2>2, <2>3 DEF Answers, Measuring, Tallies
<1> QED
  BY <1>1, <1>2, <1>3, <1>4, <1>5, <1>6, <1>7, <1>8, <1>9 DEF Next, Main, Bob

\* The relay half of a good build finds what it looks for.
LEMMA RelayFinds ==
  ASSUME TypeOK, build \in GoodBuilds
  PROVE  VerifyRelays.ok /\ VerifyRelays.ctrl /\ VerifyRelays.refused /\ VerifyRelays.live
<1>1. build["relayOff"] /\ build["relayOn"] /\ build["relayFresh"]
  BY DEF GoodBuilds, Features
<1>2. RelayOn(TRUE) /\ ~RelayOn(FALSE)
  BY <1>1 DEF RelayOn
<1>3. \A b, h : ~Refused(RelayOn(FALSE), build["relayFresh"], b, h)
  BY <1>2 DEF Refused
<1>4. \A b, h : Refused(RelayOn(TRUE), build["relayFresh"], b, h) <=> b \in h
  BY <1>1, <1>2 DEF Refused
<1>5. VerifyRelays.ok /\ VerifyRelays.ctrl
  BY <1>3 DEF VerifyRelays
<1>6. VerifyRelays.refused
  BY <1>2, <1>3, <1>4 DEF VerifyRelays
<1>7. VerifyRelays.live
  <2> DEFINE H(s, h)  == IF RelayOn(s) /\ ~Refused(RelayOn(s), build["relayFresh"], 1, h)
                         THEN h \union {1} ELSE h
             c4       == H(TRUE, H(TRUE, H(FALSE, H(FALSE, {}))))
  <2>1. \A s, h : 2 \notin h => 2 \notin H(s, h)
    OBVIOUS
  <2>2. 2 \notin c4
    <3> HIDE DEF H
    <3> QED
      BY <2>1
  <2>3. VerifyRelays.live = ~Refused(RelayOn(TRUE), build["relayFresh"], 2, c4)
    BY Zenon DEF VerifyRelays
  <2> HIDE DEF c4
  <2> QED
    BY <1>4, <2>2, <2>3
<1> QED
  BY <1>5, <1>6, <1>7

LEMMA RowsStep ==
  TypeOK /\ Place /\ Verdicts /\ Alone /\ Ideal /\ Answers /\ Rows /\ [Next]_vars => Rows'
<1> SUFFICES ASSUME TypeOK, Place, Verdicts, Alone, Ideal, Answers, Rows, [Next]_vars
             PROVE  Rows'
  OBVIOUS
<1> USE DEF Rows
<1>t. k \in 1..3 /\ phase \in 1..3
  BY Numbers
<1>1. CASE SetUp
  BY <1>1 DEF SetUp, Return
<1>2. CASE CheckDefaults
  <2>1. build["defaults"]
    BY DEF Ideal, GoodBuilds, Features
  <2> QED
    BY <1>2, <2>1 DEF CheckDefaults
<1>3. CASE SetSwitch \/ Zero \/ Post
  BY <1>3 DEF SetSwitch, Zero, Post
<1>4. CASE Sleep
  BY <1>4 DEF Sleep
<1>5. CASE Load
  <2>1. /\ pc = "load" /\ bob = "idle" /\ exit' = exit
        /\ tally["opened"] = Opens(phase, Copies(phase))
        /\ tally["replay"] = Copies(phase) - Opens(phase, Copies(phase))
        /\ tally["other"] = 0
    BY <1>5, Numbers DEF Load, Alone, Answers, Answered, Measuring
  <2>2. \A p \in 1..3 : \A c \in Tallies :
          n'[p][c] = IF p = phase /\ c = Counters[k] THEN tally[c] ELSE n[p][c]
    BY <1>5, LoadEffect
  <2>3. \/ pc' = "load" /\ k' = k + 1 /\ phase' = phase /\ k < 3
        \/ pc' = "switch" /\ phase' = phase + 1 /\ phase < 3 /\ k = 3
        \/ pc' = "relay" /\ phase' = phase /\ phase = 3 /\ k = 2
    BY <1>t, <1>5, <2>1, LoadEffect DEF Place
  <2>4. /\ n'[phase]["opened"] = IF k = 1 THEN tally["opened"] ELSE n[phase]["opened"]
        /\ n'[phase]["replay"] = IF k = 2 THEN tally["replay"] ELSE n[phase]["replay"]
        /\ n'[phase]["other"] = IF k = 3 THEN tally["other"] ELSE n[phase]["other"]
        /\ \A p \in (1..3) \ {phase} : \A c \in Tallies : n'[p][c] = n[p][c]
    BY <1>t, <2>2 DEF Counters, Tallies
  <2>5. CASE pc' = "load"
    BY <1>t, <2>1, <2>3, <2>4, <2>5 DEF Tallies
  <2>6. CASE pc' = "switch"
    <3>1. /\ n'[phase]["opened"] = Opens(phase, Copies(phase)) /\ n'[phase]["other"] = 0
          /\ n'[phase]["replay"] = Copies(phase) - Opens(phase, Copies(phase))
      BY <2>1, <2>3, <2>4, <2>6
    <3> QED
      BY <1>t, <2>1, <2>3, <2>4, <2>6, <3>1 DEF Tallies, Opens, Copies
  <2>7. CASE pc' = "relay"
    BY <1>t, <2>1, <2>3, <2>4, <2>7 DEF Tallies, Opens, Copies
  <2> QED
    BY <2>3, <2>5, <2>6, <2>7
<1>6. CASE RelayHalf
  BY <1>6 DEF RelayHalf
<1>7. CASE Verdict
  <2>1. exit' = ExitCode /\ pc' = "done" /\ UNCHANGED <<phase, n>> /\ pc = "verdict" /\ phase = 3
    BY <1>7 DEF Verdict, Return, Place
  <2>2. relay.ok => relay.ctrl /\ relay.refused /\ relay.live
    BY <2>1, RelayFinds DEF Verdicts, NoRelay, Ideal
  <2>3. ExitCode \in {Gate!Setup, Gate!Pass}
    BY <2>1, <2>2 DEF ExitCode
  <2> QED
    BY <2>1, <2>3
<1>8. CASE Connect \/ Bob \/ Done \/ UNCHANGED vars
  BY <1>8 DEF Connect, Bob, Open, Count, Done, vars, mainVars
<1> QED
  BY <1>1, <1>2, <1>3, <1>4, <1>5, <1>6, <1>7, <1>8 DEF Next, Main

\* When every Sleep is long enough the verdict separates the builds exactly.
THEOREM Separation == Spec => []Discriminates
<1>1. Init => IInv /\ ByTheBook
  BY AllInit, ByTheBookInit
<1>2. IInv /\ ByTheBook /\ [Next]_vars => IInv' /\ ByTheBook'
  <2>1. IInv /\ [Next]_vars => IInv'
    BY TypeStep, PlaceStep, BooksStep, KeysStep, OffStep, OnStep, FreshStep, VerdictsStep DEF IInv
  <2>2. [Next]_vars => (Timely' <=> Timely) /\ (Ideal' <=> Ideal)
    BY SameBuild DEF Timely, Ideal, GoodBuilds
  <2> QED
    BY <2>1, <2>2, AloneStep, AnswersStep, RowsStep DEF IInv, ByTheBook, Ideal
<1>3. IInv /\ ByTheBook => Discriminates
  BY DEF IInv, Verdicts, ByTheBook, Ideal, Rows, Discriminates
<1> QED
  BY <1>1, <1>2, <1>3, PTL DEF Spec
=============================================================================
