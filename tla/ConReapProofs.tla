---------------------------- MODULE ConReapProofs ----------------------------
(***************************************************************************)
(* What a pass of p2p_conreap is evidence of, for every set of builds and  *)
(* however short the waits.                                                *)
(*                                                                         *)
(* A count that starts at 0 counts connections only; it reaches 3 only in  *)
(* a build that accepts; and it can fall back to 0 only where something    *)
(* is dropped, which with the mark is the connection of a peer that went.  *)
(***************************************************************************)
EXTENDS ConReap, TLAPS

\* A socket is dialled once and closed after that.
Sockets ==
    /\ pc \in {"setup", "rest"} => k = 1 /\ \A c \in Con : peer[c] = "none"
    /\ pc = "dial" => \A c \in Con : c >= k => peer[c] = "none"
    /\ pc \in {"pollHeld", "close", "pollReaped", "dialFourth"} => peer[4] = "none"

\* What the service has done with each connection.
Sides ==
    /\ ~build["accepts"] => \A c \in Con : svc[c] = "none"
    /\ build["spares"] => \A c \in Con : svc[c] = "dropped" => peer[c] = "closed"
    /\ build["spares"] /\ ~build["reaps"] => \A c \in Con : svc[c] # "dropped"

\* What main has read of it.
Counts ==
    /\ read["rest"] = 0 => build["counts"]
    /\ ~build["accepts"] => read["held"] <= 1
    /\ pc \in {"setup", "rest", "dial", "pollHeld", "close", "pollReaped"} => read["reaped"] = -1
    /\ build["spares"] /\ ~build["reaps"] =>
          /\ read["held"] <= Accepted
          /\ read["reaped"] # -1 => read["held"] <= read["reaped"]

Verdicts ==
    /\ exit # Gate!Running <=> pc = "done"
    /\ pc = "done" => exit \in {Gate!Setup, ExitCode}

IInv == TypeOK /\ Sockets /\ Sides /\ Counts /\ Verdicts

\* The count of five things at most.
LEMMA AcceptedRange ==
    ASSUME TypeOK
    PROVE  /\ Accepted \in 0..5
           /\ Accepted = 0 => build["counts"]
           /\ (\A c \in Con : svc[c] = "none") => Accepted <= 1
<1>1. \A c \in Con : Held(c) \in 0..1 /\ (svc[c] = "none" => Held(c) = 0)
  BY DEF Held
<1> QED
  BY <1>1 DEF Accepted, Con

LEMMA AllInit == Init => IInv
<1> SUFFICES ASSUME Init
             PROVE  IInv
  OBVIOUS
<1> USE DEF Init, Readings
<1>1. TypeOK
  BY DEF TypeOK
<1>2. Sockets /\ Sides /\ Verdicts
  BY DEF Sockets, Sides, Verdicts, Con
<1>3. Counts
  BY <1>1, AcceptedRange DEF Counts
<1> QED
  BY <1>1, <1>2, <1>3 DEF IInv

\* What a reading does.
LEMMA Reading ==
    ASSUME TypeOK, NEW r \in Readings, NEW next, Look(r, next)
    PROVE  /\ read' = [read EXCEPT ![r] = Accepted] /\ read' \in [Readings -> -1..5]
           /\ pc' = next
           /\ UNCHANGED <<build, k, exit, peer, svc>>
  BY AcceptedRange DEF Look, TypeOK

LEMMA SameBuild == [Next]_vars => build' = build
  BY DEF Next, Main, SetUp, LookAtRest, DialThree, PollHeld, CloseThree, PollReaped, DialFourth,
     PollLive, LookStill, CloseFourth, Verdict, PollAccepted, Look, Service, Accept, Arm, Reap,
     Done, vars

LEMMA TypeStep == TypeOK /\ [Next]_vars => TypeOK'
<1> SUFFICES ASSUME TypeOK, [Next]_vars
             PROVE  TypeOK'
  OBVIOUS
<1>1. CASE SetUp
  BY <1>1 DEF SetUp, Return, TypeOK, Gate!ExitCodes
<1>2. CASE LookAtRest \/ LookStill
  BY <1>2, Reading DEF LookAtRest, LookStill, TypeOK, Readings
<1>3. CASE PollHeld \/ PollReaped \/ PollLive
  BY <1>3, Reading DEF PollHeld, PollReaped, PollLive, PollAccepted, TypeOK, Readings
<1>4. CASE DialThree \/ DialFourth
  BY <1>4 DEF DialThree, DialFourth, Connect, TypeOK, Con
<1>5. CASE CloseThree \/ CloseFourth
  BY <1>5 DEF CloseThree, CloseFourth, Close, TypeOK, Con
<1>6. CASE Verdict
  BY <1>6 DEF Verdict, Return, ExitCode, TypeOK, Gate!ExitCodes, Result
<1>7. CASE Service
  BY <1>7 DEF Service, Accept, Arm, Reap, mainVars, TypeOK
<1>8. CASE Done \/ UNCHANGED vars
  BY <1>8 DEF Done, vars, mainVars, TypeOK
<1> QED
  BY <1>1, <1>2, <1>3, <1>4, <1>5, <1>6, <1>7, <1>8 DEF Next, Main

LEMMA SocketsStep == TypeOK /\ Sockets /\ [Next]_vars => Sockets'
<1> SUFFICES ASSUME TypeOK, Sockets, [Next]_vars
             PROVE  Sockets'
  OBVIOUS
<1> USE DEF Sockets, TypeOK, Con
<1>1. CASE SetUp \/ Verdict
  BY <1>1 DEF SetUp, Verdict, Return
<1>2. CASE LookAtRest \/ LookStill \/ PollHeld \/ PollReaped \/ PollLive
  BY <1>2 DEF LookAtRest, LookStill, PollHeld, PollReaped, PollLive, PollAccepted, Look
<1>3. CASE DialThree \/ DialFourth
  BY <1>3 DEF DialThree, DialFourth, Connect
<1>4. CASE CloseThree \/ CloseFourth
  BY <1>4 DEF CloseThree, CloseFourth, Close
<1>5. CASE Service \/ Done \/ UNCHANGED vars
  BY <1>5 DEF Service, Accept, Arm, Reap, Done, vars, mainVars
<1> QED
  BY <1>1, <1>2, <1>3, <1>4, <1>5 DEF Next, Main

LEMMA SidesStep == TypeOK /\ Sockets /\ Sides /\ [Next]_vars => Sides'
<1> SUFFICES ASSUME TypeOK, Sockets, Sides, [Next]_vars
             PROVE  Sides'
  OBVIOUS
<1> USE DEF Sides, TypeOK, Con
<1>1. CASE SetUp \/ Verdict
  BY <1>1 DEF SetUp, Verdict, Return
<1>2. CASE LookAtRest \/ LookStill \/ PollHeld \/ PollReaped \/ PollLive
  BY <1>2 DEF LookAtRest, LookStill, PollHeld, PollReaped, PollLive, PollAccepted, Look
<1>3. CASE DialThree \/ DialFourth
  BY <1>3 DEF DialThree, DialFourth, Connect, Sockets
<1>4. CASE CloseThree \/ CloseFourth
  BY <1>4 DEF CloseThree, CloseFourth, Close
<1>5. CASE Service
  BY <1>5 DEF Service, Accept, Arm, Reap, CanAccept, CanArm, CanReap
<1>6. CASE Done \/ UNCHANGED vars
  BY <1>6 DEF Done, vars, mainVars
<1> QED
  BY <1>1, <1>2, <1>3, <1>4, <1>5, <1>6 DEF Next, Main

LEMMA CountsStep == TypeOK /\ Sides /\ Sides' /\ Counts /\ [Next]_vars => Counts'
<1> SUFFICES ASSUME TypeOK, Sides, Sides', Counts, [Next]_vars
             PROVE  Counts'
  OBVIOUS
<1>1. Accepted \in 0..5 /\ (Accepted = 0 => build["counts"])
      /\ (~build["accepts"] => Accepted <= 1)
  BY AcceptedRange DEF Sides
<1>2. build' = build
  BY SameBuild
<1>3. UNCHANGED svc => Accepted' = Accepted
  BY <1>2 DEF Accepted, Held
<1>5. CASE SetUp
  BY <1>2, <1>3, <1>5 DEF SetUp, Return, Counts
<1>6. CASE LookAtRest \/ LookStill \/ PollHeld \/ PollReaped \/ PollLive
  <2>1. CASE UNCHANGED read
    BY <1>2, <1>3, <1>6, <2>1 DEF LookAtRest, LookStill, PollHeld, PollReaped, PollLive,
       PollAccepted, Look, Counts
  <2>2. CASE LookAtRest \/ LookStill \/ PollLive
    BY <1>1, <1>2, <1>3, <2>1, <2>2 DEF LookAtRest, LookStill, PollLive, PollAccepted, Look,
       Counts, TypeOK, Readings
  <2>3. CASE PollHeld
    BY <1>1, <1>2, <1>3, <2>1, <2>3 DEF PollHeld, PollAccepted, Look, Counts, TypeOK, Readings
  <2>4. CASE PollReaped
    BY <1>1, <1>2, <1>3, <2>1, <2>4 DEF PollReaped, PollAccepted, Look, Counts, TypeOK, Readings
  <2> QED
    BY <1>6, <2>2, <2>3, <2>4
<1>7. CASE Service
  <2>1. UNCHANGED mainVars
    BY <1>7 DEF Service, Accept, Arm, Reap
  <2>2. ASSUME build["spares"], ~build["reaps"]
        PROVE  Accepted <= Accepted'
    <3>1. \A c \in Con : Held(c) \in 0..1 /\ Held(c)' \in 0..1
      BY DEF Held
    <3>2. \A c \in Con : Held(c) = 1 => Held(c)' = 1
      BY <1>7, <2>2 DEF Service, Accept, Arm, Reap, CanAccept, CanArm, CanReap, Held, TypeOK
    <3> QED
      BY <1>2, <3>1, <3>2 DEF Accepted, Con
  <2>3. Accepted' \in 0..5 /\ read' = read /\ read["held"] \in -1..5
    <3>1. \A c \in Con : Held(c)' \in 0..1
      BY DEF Held
    <3> QED
      BY <1>2, <2>1, <3>1 DEF mainVars, TypeOK, Readings, Accepted, Con
  <2> QED
    BY <1>1, <1>2, <2>1, <2>2, <2>3 DEF Counts, mainVars
<1>8. CASE DialThree \/ CloseThree \/ DialFourth \/ CloseFourth \/ Verdict \/ Done \/ UNCHANGED vars
  BY <1>2, <1>3, <1>8 DEF DialThree, CloseThree, DialFourth, CloseFourth, Verdict, Return, Done,
     vars, mainVars, Counts
<1> QED
  BY <1>5, <1>6, <1>7, <1>8 DEF Next, Main

LEMMA VerdictsStep == TypeOK /\ Verdicts /\ [Next]_vars => Verdicts'
<1> SUFFICES ASSUME TypeOK, Verdicts, [Next]_vars
             PROVE  Verdicts'
  OBVIOUS
<1> USE DEF Verdicts, ExitCode, Result, bDialled, bDialled4, Gate!Running, Gate!Setup, Gate!Pass,
     Gate!Fail
<1>1. CASE SetUp \/ Verdict
  BY <1>1 DEF SetUp, Verdict, Return
<1>2. CASE LookAtRest \/ LookStill \/ PollHeld \/ PollReaped \/ PollLive
  BY <1>2 DEF LookAtRest, LookStill, PollHeld, PollReaped, PollLive, PollAccepted, Look
<1>3. CASE DialThree \/ DialFourth \/ CloseThree \/ CloseFourth
  BY <1>3 DEF DialThree, DialFourth, CloseThree, CloseFourth
<1>4. CASE Service \/ Done \/ UNCHANGED vars
  BY <1>4 DEF Service, Accept, Arm, Reap, Done, vars, mainVars
<1> QED
  BY <1>1, <1>2, <1>3, <1>4 DEF Next, Main

\* The invariant holds throughout.
THEOREM Invariance == Spec => []IInv
<1>1. IInv /\ [Next]_vars => IInv'
  BY TypeStep, SocketsStep, SidesStep, CountsStep, VerdictsStep DEF IInv
<1> QED
  BY AllInit, <1>1, PTL DEF Spec

\* Every variable keeps its type.
THEOREM Typing == Spec => []TypeOK
  BY Invariance, PTL DEF IInv

\* The harness implements a gate.
THEOREM Refinement == Spec => PassIsEvidence
<1>1. Init => Gate!GateInit
  BY DEF Init, Gate!GateInit
<1>2. IInv /\ IInv' /\ [Next]_vars => [Gate!GateNext]_(Gate!gateVars)
  <2> SUFFICES ASSUME IInv, IInv', [Next]_vars
               PROVE  Gate!GateNext \/ UNCHANGED <<build, exit>>
    BY DEF Gate!gateVars
  <2>1. build' = build
    BY SameBuild
  <2>2. CASE exit' = exit
    BY <2>1, <2>2
  <2>3. CASE exit' # exit
    <3>1. exit = Gate!Running
      BY <2>3 DEF Next, Main, SetUp, LookAtRest, DialThree, PollHeld, CloseThree, PollReaped,
         DialFourth, PollLive, LookStill, CloseFourth, Verdict, Return, PollAccepted, Look,
         Service, Accept, Arm, Reap, Done, vars, mainVars, IInv, Verdicts
    <3>2. exit' = Gate!Pass => build \in GoodBuilds
      <4> SUFFICES ASSUME exit' = Gate!Pass
                   PROVE  build \in GoodBuilds
        OBVIOUS
      <4>1. read'["rest"] = 0 /\ read'["held"] = 3 /\ read'["reaped"] = 0
        BY DEF IInv, Verdicts, ExitCode, Result, Gate!Running, Gate!Setup, Gate!Pass, Gate!Fail
      <4>2. build["counts"] /\ build["accepts"] /\ (build["reaps"] \/ ~build["spares"])
        BY <2>1, <4>1 DEF IInv, Counts
      <4> QED
        BY <4>2 DEF IInv, TypeOK, GoodBuilds
    <3>3. exit' \in Gate!ExitCodes
      BY <2>3, <3>1 DEF IInv, TypeOK
    <3>4. Gate!Return(exit')
      BY <2>1, <3>1, <3>2 DEF Gate!Return
    <3> QED
      BY <3>3, <3>4 DEF Gate!GateNext
  <2> QED
    BY <2>2, <2>3
<1> QED
  BY <1>1, <1>2, Invariance, PTL DEF Spec, PassIsEvidence, Gate!GateSpec
-----------------------------------------------------------------------------
(***************************************************************************)
(* What the verdict is worth on a machine whose waits are long enough.     *)
(* A build without the mark reads from no connection, so that the second   *)
(* look at the live one finds none.  Of a sound build main counts three    *)
(* only when it has all three, and none only when all of them were         *)
(* dropped, since a connection once accepted is held until then.           *)
(***************************************************************************)

\* Main is past PollHeld, PollReaped, PollLive and LookStill.
PastStill  == pc \in {"closeFourth", "verdict", "done"}
PastLive   == PastStill \/ pc = "still"
PastReaped == PastLive \/ pc \in {"dialFourth", "pollLive"}
PastHeld   == PastReaped \/ pc \in {"close", "pollReaped"}

\* What main has closed, and what it has not.
Peers ==
    /\ pc \in {"setup", "rest", "dial", "pollHeld"} => \A c \in 1..3 : peer[c] # "closed"
    /\ pc = "pollHeld" => k = 1
    /\ pc = "close" => \A c \in 1..3 : c < k => peer[c] # "open"
    /\ (PastReaped \/ pc = "pollReaped") /\ bDialled => \A c \in 1..3 : peer[c] = "closed"
    /\ ~PastStill => peer[4] # "closed"
    /\ \A c \in Con : peer[c] = "none" => svc[c] = "none"

\* Without the mark nothing is ever read from.
Unread ==
    ~build["spares"] =>
        /\ \A c \in Con : svc[c] # "reading"
        /\ Timely /\ build["counts"] => read["still"] # 1

\* What main has read of a sound build, and what its service has done by then.
Read ==
    Timely /\ build \in FullBuilds /\ bDialled =>
        /\ PastHeld => read["held"] = 3 /\ \A c \in 1..3 : svc[c] # "none"
        /\ PastReaped => read["reaped"] = 0 /\ \A c \in 1..3 : svc[c] = "dropped"
        /\ PastLive /\ bDialled4 => read["live"] = 1 /\ svc[4] # "none"
        /\ PastStill /\ bDialled4 => read["still"] = 1

\* What main has not read yet.
Unlooked ==
    /\ pc \in {"setup", "rest", "dial", "pollHeld"} => read["held"] = -1
    /\ ~PastLive => read["live"] = -1
    /\ ~PastStill => read["still"] = -1
    /\ PastReaped => read["held"] = -1 \/ read["reaped"] # -1

\* With long enough waits three that are held are counted, and a count that does
\* not fall is that of a build that reaps no closed connection.
Accused ==
    Timely /\ bDialled =>
        /\ build["accepts"] /\ build["spares"] => read["held"] # 0
        /\ build["counts"] /\ read["reaped"] \notin {-1, 0} => ~build["reaps"] /\ build["spares"]

\* On any machine: three that were held and then were not are dropped, so that
\* one counted after them is the live peer's.
Convicted ==
    read["rest"] = 0 /\ read["held"] = 3 =>
        /\ \A c \in 1..3 : svc[c] # "none"
        /\ read["reaped"] = 0 =>
            /\ \A c \in 1..3 : svc[c] = "dropped"
            /\ read["live"] = 1 => svc[4] # "none"
            /\ read["live"] = 1 /\ read["still"] = 0 => ~build["spares"]

Measured == Peers /\ Unread /\ Read /\ Unlooked /\ Accused /\ Convicted

LEMMA MeasuredInit == Init => Measured
  BY DEF Init, Measured, Peers, Unread, Read, Unlooked, Accused, Convicted, PastHeld, PastReaped,
     PastLive, PastStill, Con, Readings

LEMMA PeersStep == TypeOK /\ Sockets /\ Peers /\ [Next]_vars => Peers'
<1> SUFFICES ASSUME TypeOK, Sockets, Peers, [Next]_vars
             PROVE  Peers'
  OBVIOUS
<1> USE DEF Peers, TypeOK, Con, bDialled, PastReaped, PastLive, PastStill
<1>1. CASE SetUp
  BY <1>1 DEF SetUp, Return, Sockets
<1>2. CASE LookAtRest \/ LookStill \/ PollHeld \/ PollReaped \/ PollLive
  BY <1>2 DEF LookAtRest, LookStill, PollHeld, PollReaped, PollLive, PollAccepted, Look
<1>3. CASE DialThree
  BY <1>3 DEF DialThree, Connect, Sockets
<1>4. CASE DialFourth
  BY <1>4 DEF DialFourth, Connect, Sockets
<1>5. CASE CloseThree
  <2>1. /\ UNCHANGED svc /\ pc = "close" /\ pc' \in {"close", "pollReaped"}
        /\ pc' = "pollReaped" <=> k = 3
        /\ k # 3 => k' = k + 1
        /\ peer'[k] = IF peer[k] = "open" THEN "closed" ELSE peer[k]
        /\ \A c \in Con : c # k => peer'[c] = peer[c]
    BY <1>5 DEF CloseThree, Close
  <2> QED
    BY <2>1
<1>6. CASE CloseFourth
  <2>1. /\ UNCHANGED svc /\ pc = "closeFourth" /\ pc' = "verdict"
        /\ peer'[4] = IF peer[4] = "open" THEN "closed" ELSE peer[4]
        /\ \A c \in 1..3 : peer'[c] = peer[c]
    BY <1>6 DEF CloseFourth, Close
  <2> QED
    BY <2>1
<1>7. CASE Verdict
  BY <1>7 DEF Verdict, Return
<1>8. CASE Service
  <2>1. \A c \in Con : svc'[c] # svc[c] => peer[c] # "none"
    BY <1>8 DEF Service, Accept, Arm, Reap, CanAccept, CanArm, CanReap
  <2>2. UNCHANGED <<mainVars, peer>>
    BY <1>8 DEF Service, Accept, Arm, Reap
  <2> QED
    BY <2>1, <2>2 DEF mainVars
<1>9. CASE Done \/ UNCHANGED vars
  BY <1>9 DEF Done, vars, mainVars
<1> QED
  BY <1>1, <1>2, <1>3, <1>4, <1>5, <1>6, <1>7, <1>8, <1>9 DEF Next, Main

LEMMA UnreadStep == TypeOK /\ Peers /\ Unread /\ [Next]_vars => Unread'
<1> SUFFICES ASSUME TypeOK, Peers, Unread, [Next]_vars, ~build["spares"]
             PROVE  /\ \A c \in Con : svc'[c] # "reading"
                    /\ Timely /\ build["counts"] => read'["still"] # 1
  BY SameBuild DEF Unread, Timely
<1>1. CASE Service
  BY <1>1 DEF Service, Accept, Arm, Reap, mainVars, Unread, TypeOK, Con
<1>2. CASE LookStill
  <2>1. UNCHANGED svc /\ read'["still"] = Accepted
    BY <1>2 DEF LookStill, Look, TypeOK, Readings
  <2>2. Timely /\ build["counts"] => Accepted = 0
    BY <1>2 DEF LookStill, MayTimeOut, CanArm, Unread, Accepted, Held, Con
  <2> QED
    BY <2>1, <2>2 DEF Unread
<1>3. CASE ~Service /\ ~LookStill
  BY <1>3 DEF Next, Main, SetUp, LookAtRest, DialThree, PollHeld, CloseThree, PollReaped,
     DialFourth, PollLive, CloseFourth, Verdict, Return, PollAccepted, Look, Done, vars,
     mainVars, Unread, TypeOK, Readings
<1> QED
  BY <1>1, <1>2, <1>3

LEMMA FullHasAll ==
    ASSUME build \in FullBuilds
    PROVE  build["accepts"] /\ build["counts"] /\ build["reaps"] /\ build["spares"]
  BY DEF FullBuilds, Features

\* With long enough waits an unsuccessful poll of a sound build is one of
\* connections that are all read from, or dropped.
LEMMA Rested ==
    ASSUME TypeOK, Sides, build \in FullBuilds, Timely, MayTimeOut, NEW c \in Con
    PROVE  /\ peer[c] = "open"   => svc[c] = "reading"
           /\ peer[c] = "closed" => svc[c] = "dropped"
<1>1. ~CanAccept(c) /\ ~CanArm(c) /\ ~CanReap(c)
  BY DEF MayTimeOut
<1> QED
  BY <1>1, FullHasAll DEF CanAccept, CanArm, CanReap, TypeOK, Sides, Held

LEMMA ReadStep ==
    TypeOK /\ Sockets /\ Sides /\ Peers /\ Read /\ [Next]_vars => Read'
<1> SUFFICES ASSUME TypeOK, Sockets, Sides, Peers, Read, [Next]_vars,
                    Timely, build \in FullBuilds, bDialled'
             PROVE  /\ PastHeld' => read'["held"] = 3 /\ \A c \in 1..3 : svc'[c] # "none"
                    /\ PastReaped' => read'["reaped"] = 0 /\ \A c \in 1..3 : svc'[c] = "dropped"
                    /\ PastLive' /\ bDialled4' => read'["live"] = 1 /\ svc'[4] # "none"
                    /\ PastStill' /\ bDialled4' => read'["still"] = 1
  <2>1. [Next]_vars => build' = build
    BY SameBuild
  <2> QED
    BY <2>1 DEF Read, Timely, FullBuilds
<1>0. /\ \A c \in Con : Held(c) = IF svc[c] \in {"armed", "reading"} THEN 1 ELSE 0
      /\ Accepted = Held(1) + Held(2) + Held(3) + Held(4)
  BY FullHasAll DEF Held, Accepted
<1> USE DEF PastHeld, PastReaped, PastLive, PastStill, Con
<1>1. CASE SetUp
  BY <1>1 DEF SetUp, Return, Sockets, bDialled
<1>2. CASE LookAtRest
  BY <1>2 DEF LookAtRest, Look
<1>3. CASE DialThree
  BY <1>3 DEF DialThree
<1>4. CASE PollHeld
  <2>1. /\ Accepted = 3 \/ MayTimeOut
        /\ read' = [read EXCEPT !["held"] = Accepted] /\ pc' = "close" /\ UNCHANGED <<peer, svc>>
        /\ pc = "pollHeld"
    BY <1>4 DEF PollHeld, PollAccepted, Look, bDialled
  <2>2. /\ \A c \in 1..3 : peer[c] = "open"
        /\ svc[4] = "none"
    BY <2>1 DEF bDialled, Peers, Sockets, TypeOK
  <2>3. \A c \in 1..3 : svc[c] \in {"armed", "reading"}
    <3>1. CASE Accepted = 3
      BY <1>0, <2>2, <3>1
    <3>2. CASE MayTimeOut
      BY <2>2, <3>2, Rested
    <3> QED
      BY <2>1, <3>1, <3>2
  <2>4. Accepted = 3
    BY <1>0, <2>2, <2>3
  <2> QED
    BY <2>1, <2>3, <2>4 DEF TypeOK, Readings
<1>5. CASE CloseThree
  <2>1. UNCHANGED <<read, svc>> /\ pc = "close" /\ pc' \in {"close", "pollReaped"}
    BY <1>5 DEF CloseThree
  <2>2. bDialled
    BY <1>5 DEF CloseThree, Close, bDialled, TypeOK
  <2> QED
    BY <2>1, <2>2 DEF Read
<1>6. CASE PollReaped
  <2>1. /\ Accepted = 0 \/ MayTimeOut
        /\ read' = [read EXCEPT !["reaped"] = Accepted] /\ pc' = "dialFourth"
        /\ UNCHANGED <<peer, svc>> /\ pc = "pollReaped"
    BY <1>6 DEF PollReaped, PollAccepted, Look
  <2>2. bDialled
    BY <2>1 DEF bDialled
  <2>3. /\ \A c \in 1..3 : peer[c] = "closed" /\ svc[c] # "none"
        /\ svc[4] = "none" /\ read["held"] = 3
    BY <2>1, <2>2 DEF Peers, Read, Sockets
  <2>4. \A c \in 1..3 : svc[c] = "dropped"
    <3>1. CASE Accepted = 0
      BY <1>0, <2>3, <3>1 DEF TypeOK
    <3>2. CASE MayTimeOut
      BY <2>3, <3>2, Rested
    <3> QED
      BY <2>1, <3>1, <3>2
  <2>5. Accepted = 0
    BY <1>0, <2>3, <2>4
  <2> QED
    BY <2>1, <2>3, <2>4, <2>5 DEF TypeOK, Readings
<1>7. CASE DialFourth
  <2>1. UNCHANGED <<read, svc>> /\ pc = "dialFourth" /\ pc' = "pollLive"
    BY <1>7 DEF DialFourth
  <2>2. bDialled
    BY <1>7 DEF DialFourth, Connect, bDialled, TypeOK
  <2> QED
    BY <2>1, <2>2 DEF Read
<1>8. CASE PollLive
  <2>1. UNCHANGED <<peer, svc>> /\ pc = "pollLive" /\ pc' = "still"
    BY <1>8 DEF PollLive, PollAccepted, Look
  <2>2. bDialled
    BY <2>1 DEF bDialled
  <2>3. read["held"] = 3 /\ read["reaped"] = 0 /\ \A c \in 1..3 : svc[c] = "dropped"
    BY <2>1, <2>2 DEF Read
  <2>4. CASE ~bDialled4
    <3>1. UNCHANGED read
      BY <1>8, <2>4 DEF PollLive, PollAccepted
    <3> QED
      BY <2>1, <2>3, <2>4, <3>1 DEF bDialled4
  <2>5. CASE bDialled4
    <3>1. (Accepted = 1 \/ MayTimeOut) /\ read' = [read EXCEPT !["live"] = Accepted]
      BY <1>8, <2>5 DEF PollLive, PollAccepted, Look
    <3>2. peer[4] = "open"
      BY <2>1, <2>5 DEF bDialled4, Peers, TypeOK
    <3>3. svc[4] \in {"armed", "reading"}
      BY <1>0, <2>3, <3>1, <3>2, Rested
    <3>4. Accepted = 1
      BY <1>0, <2>3, <3>3
    <3> QED
      BY <2>1, <2>3, <3>1, <3>3, <3>4 DEF TypeOK, Readings
  <2> QED
    BY <2>4, <2>5
<1>9. CASE LookStill
  <2>1. /\ UNCHANGED <<peer, svc>> /\ pc = "still" /\ pc' = "closeFourth" /\ MayTimeOut
        /\ read' = [read EXCEPT !["still"] = Accepted]
    BY <1>9 DEF LookStill, Look
  <2>2. bDialled
    BY <2>1 DEF bDialled
  <2>3. read["held"] = 3 /\ read["reaped"] = 0 /\ \A c \in 1..3 : svc[c] = "dropped"
    BY <2>1, <2>2 DEF Read
  <2>4. bDialled4 => read["live"] = 1 /\ Accepted = 1 /\ svc[4] # "none"
    <3> SUFFICES ASSUME bDialled4
                 PROVE  read["live"] = 1 /\ Accepted = 1 /\ svc[4] # "none"
      OBVIOUS
    <3>1. peer[4] = "open"
      BY <2>1 DEF bDialled4, Peers, TypeOK
    <3>2. svc[4] = "reading"
      BY <2>1, <3>1, Rested
    <3> QED
      BY <1>0, <2>1, <2>2, <2>3, <3>2 DEF Read
  <2> QED
    BY <2>1, <2>3, <2>4 DEF TypeOK, Readings, bDialled4
<1>10. CASE CloseFourth
  <2>1. UNCHANGED <<read, svc>> /\ pc = "closeFourth" /\ pc' = "verdict"
    BY <1>10 DEF CloseFourth
  <2>2. bDialled /\ (bDialled4' => bDialled4)
    BY <1>10 DEF CloseFourth, Close, bDialled, bDialled4, TypeOK
  <2> QED
    BY <2>1, <2>2 DEF Read
<1>11. CASE Verdict
  BY <1>11 DEF Verdict, Return, Read, bDialled, bDialled4
<1>12. CASE Service
  <2>1. UNCHANGED <<mainVars, peer>>
    BY <1>12 DEF Service, Accept, Arm, Reap
  <2>2. \A c \in Con : /\ svc[c] # "none" => svc'[c] # "none"
                       /\ svc[c] = "dropped" => svc'[c] = "dropped"
    BY <1>12 DEF Service, Accept, Arm, Reap, CanAccept, CanArm, CanReap, TypeOK
  <2> QED
    BY <2>1, <2>2 DEF Read, mainVars, bDialled, bDialled4
<1>13. CASE Done \/ UNCHANGED vars
  BY <1>13 DEF Done, vars, mainVars, Read, bDialled, bDialled4
<1> QED
  BY <1>1, <1>2, <1>3, <1>4, <1>5, <1>6, <1>7, <1>8, <1>9, <1>10, <1>11, <1>12, <1>13 DEF Next, Main

LEMMA UnlookedStep == IInv /\ Unlooked /\ [Next]_vars => Unlooked'
<1> SUFFICES ASSUME TypeOK, Unlooked, [Next]_vars
             PROVE  Unlooked'
  BY DEF IInv
<1>0. Accepted \in 0..5
  BY AcceptedRange
<1> USE DEF Unlooked, PastReaped, PastLive, PastStill, TypeOK, Readings
<1>1. CASE SetUp \/ Verdict
  BY <1>1 DEF SetUp, Verdict, Return
<1>2. CASE LookAtRest \/ LookStill
  BY <1>2 DEF LookAtRest, LookStill, Look
<1>3. CASE PollHeld
  BY <1>3 DEF PollHeld, PollAccepted, Look
<1>4. CASE PollReaped
  BY <1>0, <1>4 DEF PollReaped, PollAccepted, Look
<1>5. CASE PollLive
  BY <1>5 DEF PollLive, PollAccepted, Look
<1>6. CASE DialThree \/ DialFourth \/ CloseThree \/ CloseFourth
  BY <1>6 DEF DialThree, DialFourth, CloseThree, CloseFourth
<1>7. CASE Service \/ Done \/ UNCHANGED vars
  BY <1>7 DEF Service, Accept, Arm, Reap, Done, vars, mainVars
<1> QED
  BY <1>1, <1>2, <1>3, <1>4, <1>5, <1>6, <1>7 DEF Next, Main

LEMMA AccusedStep ==
    IInv /\ Peers /\ Unread /\ Unlooked /\ Accused /\ [Next]_vars => Accused'
<1> SUFFICES ASSUME IInv, Peers, Unread, Unlooked, Accused, [Next]_vars, Timely, bDialled'
             PROVE  /\ build["accepts"] /\ build["spares"] => read'["held"] # 0
                    /\ build["counts"] /\ read'["reaped"] \notin {-1, 0} =>
                          ~build["reaps"] /\ build["spares"]
  BY SameBuild DEF Accused, Timely
<1>0. /\ \A c \in Con : Held(c) = IF svc[c] \in {"armed", "reading"} THEN 1 ELSE 0
      /\ build["counts"] => Accepted = Held(1) + Held(2) + Held(3) + Held(4)
      /\ Accepted \in 0..5 /\ (Accepted = 0 => build["counts"])
  BY AcceptedRange DEF Held, Accepted, IInv
<1> USE DEF Con, Readings
<1>1. CASE PollHeld
  <2>1. /\ Accepted = 3 \/ MayTimeOut
        /\ read' = [read EXCEPT !["held"] = Accepted] /\ pc = "pollHeld" /\ bDialled
    BY <1>1 DEF PollHeld, PollAccepted, Look, bDialled
  <2>2. ASSUME build["accepts"], build["spares"]
        PROVE  Accepted # 0
    <3>1. peer[1] = "open"
      BY <2>1 DEF bDialled, Peers, IInv, TypeOK
    <3>2. MayTimeOut => svc[1] = "reading"
      BY <2>2, <3>1 DEF MayTimeOut, CanAccept, CanArm, IInv, TypeOK, Sides
    <3> QED
      BY <1>0, <2>1, <3>2
  <2>3. read["reaped"] = -1
    BY <2>1 DEF IInv, Counts
  <2> QED
    BY <2>1, <2>2, <2>3 DEF IInv, TypeOK
<1>2. CASE PollReaped
  <2>1. /\ Accepted = 0 \/ MayTimeOut
        /\ read' = [read EXCEPT !["reaped"] = Accepted] /\ pc = "pollReaped" /\ bDialled
    BY <1>2 DEF PollReaped, PollAccepted, Look, bDialled
  <2>2. /\ \A c \in 1..3 : peer[c] = "closed"
        /\ svc[4] = "none"
    BY <2>1 DEF Peers, IInv, Sockets
  <2>3. ASSUME build["counts"], Accepted # 0
        PROVE  ~build["reaps"] /\ build["spares"]
    <3>1. PICK c \in 1..3 : svc[c] \in {"armed", "reading"}
      BY <1>0, <2>2, <2>3
    <3>2. ~CanArm(c) /\ ~CanReap(c)
      BY <2>1, <2>3 DEF MayTimeOut
    <3>3. svc[c] = "reading" /\ ~build["reaps"]
      BY <2>2, <3>1, <3>2 DEF CanArm, CanReap, IInv, TypeOK, AllBuilds
    <3> QED
      BY <3>3 DEF Unread
  <2> QED
    BY <2>1, <2>3 DEF Accused, IInv, TypeOK
<1>3. CASE DialThree
  BY <1>3 DEF DialThree, Unlooked, IInv, Counts
<1>4. CASE ~PollHeld /\ ~PollReaped /\ ~DialThree
  <2>1. read'["held"] = read["held"] /\ read'["reaped"] = read["reaped"]
    BY <1>4 DEF Next, Main, SetUp, LookAtRest, DialFourth, CloseThree, PollLive, LookStill,
       CloseFourth, Verdict, Return, PollAccepted, Look, Service, Accept, Arm, Reap, Done, vars,
       mainVars, IInv, TypeOK
  <2>2. bDialled
    BY <1>4 DEF Next, Main, SetUp, LookAtRest, DialFourth, CloseThree, PollLive, LookStill,
       CloseFourth, Verdict, Return, PollAccepted, Look, Service, Accept, Arm, Reap, Done, vars,
       mainVars, IInv, TypeOK, Connect, Close, bDialled
  <2> QED
    BY <2>1, <2>2 DEF Accused
<1> QED
  BY <1>1, <1>2, <1>3, <1>4

LEMMA ConvictedStep ==
    IInv /\ Peers /\ Unlooked /\ Convicted /\ [Next]_vars => Convicted'
<1> SUFFICES ASSUME IInv, Peers, Unlooked, Convicted, [Next]_vars
             PROVE  Convicted'
  OBVIOUS
<1>0. /\ \A c \in Con : Held(c) = IF svc[c] \in {"armed", "reading"} THEN 1 ELSE 0
      /\ read["rest"] = 0 => Accepted = Held(1) + Held(2) + Held(3) + Held(4)
      /\ TypeOK /\ build' = build
  BY SameBuild DEF Held, Accepted, IInv, Counts
<1> USE DEF Convicted, Con, Readings, TypeOK
<1>1. CASE LookAtRest
  BY <1>0, <1>1 DEF LookAtRest, Look, Unlooked
<1>2. CASE PollHeld
  <2>1. read["reaped"] = -1 /\ read["held"] = -1 /\ svc[4] = "none"
    BY <1>2 DEF PollHeld, IInv, Counts, Unlooked, Peers, Sockets
  <2> QED
    BY <1>0, <1>2, <2>1 DEF PollHeld, PollAccepted, Look
<1>3. CASE PollReaped
  <2>1. read["live"] = -1 /\ svc[4] = "none"
    BY <1>3 DEF PollReaped, IInv, Unlooked, PastLive, PastStill, Peers, Sockets
  <2> QED
    BY <1>0, <1>3, <2>1 DEF PollReaped, PollAccepted, Look
<1>4. CASE PollLive
  <2>1. read["still"] = -1
    BY <1>4 DEF PollLive, Unlooked, PastStill
  <2> QED
    BY <1>0, <1>4, <2>1 DEF PollLive, PollAccepted, Look
<1>5. CASE LookStill
  <2>1. peer[4] # "closed"
    BY <1>5 DEF LookStill, Peers, PastStill
  <2>2. build["spares"] => svc[4] # "dropped"
    BY <2>1 DEF IInv, Sides
  <2> QED
    BY <1>0, <1>5, <2>2 DEF LookStill, Look
<1>6. CASE Service
  <2>1. \A c \in Con : /\ svc[c] # "none" => svc'[c] # "none"
                       /\ svc[c] = "dropped" => svc'[c] = "dropped"
    BY <1>0, <1>6 DEF Service, Accept, Arm, Reap, CanAccept, CanArm, CanReap
  <2>2. UNCHANGED read
    BY <1>6 DEF Service, Accept, Arm, Reap, mainVars
  <2> QED
    BY <1>0, <2>1, <2>2
<1>7. CASE SetUp \/ DialThree \/ CloseThree \/ DialFourth \/ CloseFourth \/ Verdict \/ Done
           \/ UNCHANGED vars
  BY <1>0, <1>7 DEF SetUp, DialThree, CloseThree, DialFourth, CloseFourth, Verdict, Return, Done,
     vars, mainVars
<1> QED
  BY <1>1, <1>2, <1>3, <1>4, <1>5, <1>6, <1>7 DEF Next, Main

\* All of what has been measured is so at any time.
LEMMA MeasuredAlways == Spec => []Measured
<1>1. IInv /\ Measured /\ [Next]_vars => Measured'
  BY PeersStep, UnreadStep, ReadStep, UnlookedStep, AccusedStep, ConvictedStep DEF IInv, Measured
<1> QED
  BY <1>1, MeasuredInit, Invariance, PTL DEF Spec

\* On a machine that is quick enough the harness passes sound builds only, and
\* fails none of them.
THEOREM Separation == Spec => []Discriminates
<1>1. IInv /\ Measured => Discriminates
  <2> SUFFICES ASSUME IInv, Measured, Timely, exit \in {Gate!Pass, Gate!Fail}
               PROVE  exit = Gate!Pass <=> build \in FullBuilds
    BY DEF Discriminates
  <2> USE DEF Gate!Pass, Gate!Fail, Gate!Setup, Gate!Running
  <2>1. pc = "done" /\ exit = ExitCode /\ bDialled /\ bDialled4
    BY DEF IInv, Verdicts, ExitCode, Result
  <2>2. ASSUME exit = Gate!Pass
        PROVE  build \in FullBuilds
    <3>1. read["rest"] = 0 /\ read["held"] = 3 /\ read["reaped"] = 0 /\ read["still"] = 1
      BY <2>1, <2>2 DEF ExitCode, Result
    <3>2. build["counts"] /\ build["accepts"] /\ (build["reaps"] \/ ~build["spares"])
      BY <3>1 DEF IInv, Counts
    <3>3. build["spares"]
      BY <3>1, <3>2 DEF Measured, Unread
    <3> QED
      BY <3>2, <3>3 DEF FullBuilds, Features, IInv, TypeOK
  <2>3. ASSUME build \in FullBuilds
        PROVE  exit = Gate!Pass
    <3>1. read["held"] = 3 /\ read["reaped"] = 0 /\ read["live"] = 1 /\ read["still"] = 1
      BY <2>1, <2>3 DEF Measured, Read, PastHeld, PastReaped, PastLive, PastStill
    <3> QED
      BY <2>1, <3>1 DEF ExitCode, Result
  <2> QED
    BY <2>2, <2>3
<1> QED
  BY <1>1, MeasuredAlways, Invariance, PTL

\* What a RESULT accuses a build of is what is wrong with it.
THEOREM FaultsNamed == Spec => []FaultNamed
<1>1. IInv /\ Measured => FaultNamed
  <2> SUFFICES ASSUME IInv, Measured, pc = "done"
               PROVE  FaultNamed
    BY DEF FaultNamed
  <2>1. ASSUME Result \in {"never reaped", "live peer reaped"}
        PROVE  /\ bDialled /\ bDialled4 /\ read["rest"] = 0 /\ read["held"] = 3
               /\ build["counts"] /\ build["accepts"]
    BY <2>1 DEF Result, IInv, Counts, TypeOK, AllBuilds
  <2>2. ASSUME Timely, Result = "dropped at accept"
        PROVE  ~build["spares"] \/ ~build["accepts"]
    BY <2>2 DEF Result, Measured, Accused
  <2>3. ASSUME Timely, Result = "never reaped"
        PROVE  ~build["reaps"] /\ build["spares"]
    <3>1. read["reaped"] \notin {-1, 0}
      BY <2>1, <2>3 DEF Result, Measured, Unlooked, PastReaped, PastLive, PastStill
    <3> QED
      BY <2>1, <2>3, <3>1 DEF Measured, Accused
  <2>4. ASSUME Timely, Result = "live peer reaped"
        PROVE  ~build["spares"]
    <3> SUFFICES ASSUME build["spares"]
                 PROVE  FALSE
      OBVIOUS
    <3>1. read["reaped"] = 0 /\ ~(read["live"] = 1 /\ read["still"] = 1)
      BY <2>1, <2>4 DEF Result
    <3>2. build["reaps"]
      <4>1. read["held"] = 3
        BY <2>1, <2>4
      <4> QED
        BY <3>1, <4>1 DEF IInv, Counts
    <3>3. build \in FullBuilds
      BY <2>1, <2>4, <3>2 DEF FullBuilds, Features, IInv, TypeOK
    <3> QED
      BY <2>1, <2>4, <3>1, <3>3 DEF Measured, Read, PastLive, PastStill
  <2>5. ASSUME Result = "live peer reaped", read["live"] = 1, read["still"] = 0
        PROVE  ~build["spares"]
    <3>1. read["reaped"] = 0
      BY <2>1, <2>5 DEF Result
    <3> QED
      BY <2>1, <2>5, <3>1 DEF Measured, Convicted
  <2> QED
    BY <2>2, <2>3, <2>4, <2>5 DEF FaultNamed
<1> QED
  BY <1>1, MeasuredAlways, Invariance, PTL

=============================================================================
