------------------------------- MODULE ConReap -------------------------------
(***************************************************************************)
(* p2p_conreap: is the connection of a peer that connects, says nothing    *)
(* and leaves dropped, and that of a peer still there not?                 *)
(*                                                                         *)
(* Three raw peers connect, are counted, close and must be reaped; a       *)
(* fourth connects, stays and must not be.  On the other side a service    *)
(* accepts and posts a receive to itself, the arming post, whose           *)
(* completion carries no bytes; the completion that says that the peer has *)
(* gone carries none either.  A mark on the submission tells them apart.   *)
(***************************************************************************)
EXTENDS Integers

CONSTANT Builds     \* the builds of the libraries to run against

Features  == {"accepts",   \* the service takes what the kernel has connected
              "counts",    \* GetAcceptedCount counts connections only
              "reaps",     \* no bytes after a submitted receive: the peer went
              "spares"}    \* no bytes before one: the arming post
\* A build and, as "timely", a machine on which every wait outlasts what it is
\* for.
AllBuilds == [Features \union {"timely"} -> BOOLEAN]

ASSUME BuildsAssumption == Builds \subseteq AllBuilds

VARIABLES build,    \* the build linked with
          pc,       \* main: what it does next
          k,        \* main: which of the three sockets it is at
          read,     \* main: xRest, xHeld, xReaped, xLive, xLiveStill
          exit,     \* main: the process exit code
          peer,     \* each raw socket
          svc       \* the service's side of it

mainVars == <<pc, k, read, exit>>
vars     == <<build, mainVars, peer, svc>>

Con      == 1..4
Readings == {"rest", "held", "reaped", "live", "still"}

\* What a pass is evidence of even when a wait is too short.
GoodBuilds ==
    {b \in Builds : b["accepts"] /\ b["counts"] /\ (b["reaps"] \/ ~b["spares"])}
FullBuilds == {b \in Builds : \A f \in Features : b[f]}

Gate == INSTANCE GateVerdict WITH Good <- GoodBuilds

Held(c)  == IF svc[c] \in {"armed", "reading"} THEN 1 ELSE 0
\* Mutant: connections ever accepted.
EverAccepted ==
    LET Ever(c) == IF svc[c] = "none" THEN 0 ELSE 1
    IN  Ever(1) + Ever(2) + Ever(3) + Ever(4) + (IF build["counts"] THEN 0 ELSE 1)
Accepted == Held(1) + Held(2) + Held(3) + Held(4) + (IF build["counts"] THEN 0 ELSE 1)

Init ==
    /\ build \in Builds
    /\ pc = "setup" /\ k = 1 /\ exit = Gate!Running
    /\ read = [r \in Readings |-> -1]
    /\ peer = [c \in Con |-> "none"] /\ svc = [c \in Con |-> "none"]

-----------------------------------------------------------------------------
(* Main *)

CanAccept(c) == build["accepts"] /\ peer[c] # "none" /\ svc[c] = "none"
CanArm(c)    == svc[c] = "armed"
CanReap(c)   == svc[c] = "reading" /\ peer[c] = "closed" /\ build["reaps"]
Timely       == build["timely"]
MayTimeOut   == Timely => \A c \in Con : ~CanAccept(c) /\ ~CanArm(c) /\ ~CanReap(c)

\* The sockets that connected, once they were dialled.
bDialled  == \A c \in 1..3 : peer[c] # "none"
bDialled4 == peer[4] # "none"

Return(code) == pc' = "done" /\ exit' = code /\ UNCHANGED <<k, read>>

\* Startup, the hub and the service, with no cap and no deadline.
SetUp ==
    /\ pc = "setup"
    /\ \/ pc' = "rest" /\ UNCHANGED <<k, read, exit>>
       \/ Return(Gate!Setup)
    /\ UNCHANGED <<build, peer, svc>>

\* GetAcceptedCount, read once.
Look(r, next) ==
    /\ read' = [read EXCEPT ![r] = Accepted] /\ pc' = next
    /\ UNCHANGED <<build, k, exit, peer, svc>>

\* PollAccepted: the target as soon as it is read, or the last reading.  It is
\* not called for a peer that did not connect.
PollAccepted(r, target, next) ==
    IF (r = "held" /\ ~bDialled) \/ (r = "live" /\ ~bDialled4)
    THEN pc' = next /\ UNCHANGED <<build, k, read, exit, peer, svc>>
    ELSE (Accepted = target \/ MayTimeOut) /\ Look(r, next)

LookAtRest == pc = "rest" /\ Look("rest", "dial")

\* connect() succeeds when the kernel says so, or fails.
Connect(c) ==
    \/ peer' = [peer EXCEPT ![c] = "open"]
    \/ UNCHANGED peer

DialThree ==
    /\ pc = "dial" /\ Connect(k)
    /\ k' = IF k = 3 THEN 1 ELSE k + 1
    /\ pc' = IF k = 3 THEN "pollHeld" ELSE pc
    /\ UNCHANGED <<build, read, exit, svc>>

PollHeld == pc = "pollHeld" /\ PollAccepted("held", 3, "close")

\* RawClose: an orderly close of what was connected.
Close(c) == peer' = [peer EXCEPT ![c] = IF @ = "open" THEN "closed" ELSE @]

CloseThree ==
    /\ pc = "close" /\ Close(k)
    /\ k' = IF k = 3 THEN 1 ELSE k + 1
    /\ pc' = IF k = 3 THEN "pollReaped" ELSE pc
    /\ UNCHANGED <<build, read, exit, svc>>

PollReaped == pc = "pollReaped" /\ PollAccepted("reaped", 0, "dialFourth")

DialFourth ==
    /\ pc = "dialFourth" /\ Connect(4)
    /\ pc' = "pollLive"
    /\ UNCHANGED <<build, k, read, exit, svc>>

PollLive == pc = "pollLive" /\ PollAccepted("live", 1, "still")

\* Mutant: the second reading is taken at once.
LookNow == pc = "still" /\ Look("still", "closeFourth")

\* Sleep(1500), and the second reading.
LookStill == pc = "still" /\ MayTimeOut /\ Look("still", "closeFourth")

CloseFourth ==
    /\ pc = "closeFourth" /\ Close(4)
    /\ pc' = "verdict"
    /\ UNCHANGED <<build, k, read, exit, svc>>

\* Mutant: what the service counts at rest is taken off every reading.
ResultOverRest ==
    LET Over(r) == read[r] - read["rest"]
    IN  IF ~bDialled \/ ~bDialled4 THEN "not dialled"
        ELSE IF Over("held") = 0 THEN "dropped at accept"
        ELSE IF Over("held") # 3 THEN "not held"
        ELSE IF Over("reaped") # 0 THEN "never reaped"
        ELSE IF Over("live") # 1 \/ Over("still") # 1 THEN "live peer reaped"
        ELSE "pass"

\* Mutant: the live peer is judged before the ones that closed.
ResultLiveFirst ==
    IF ~bDialled \/ ~bDialled4 THEN "not dialled"
    ELSE IF read["held"] = 0 THEN "dropped at accept"
    ELSE IF read["rest"] # 0 \/ read["held"] # 3 THEN "not held"
    ELSE IF read["live"] # 1 \/ read["still"] # 1 THEN "live peer reaped"
    ELSE IF read["reaped"] # 0 THEN "never reaped"
    ELSE "pass"

\* The chain of verdicts: what the RESULT line says.
Result ==
    IF ~bDialled \/ ~bDialled4 THEN "not dialled"
    ELSE IF read["held"] = 0 THEN "dropped at accept"
    ELSE IF read["rest"] # 0 \/ read["held"] # 3 THEN "not held"
    ELSE IF read["reaped"] # 0 THEN "never reaped"
    ELSE IF read["live"] # 1 \/ read["still"] # 1 THEN "live peer reaped"
    ELSE "pass"

\* nExit, as each of them sets it.
ExitCode ==
    CASE Result \in {"not dialled", "not held"} -> Gate!Setup
      [] Result = "pass"                        -> Gate!Pass
      [] OTHER                                  -> Gate!Fail

Verdict ==
    /\ pc = "verdict"
    /\ Return(ExitCode)
    /\ UNCHANGED <<build, peer, svc>>

Main == \/ SetUp \/ LookAtRest \/ DialThree \/ PollHeld \/ CloseThree \/ PollReaped
        \/ DialFourth \/ PollLive \/ LookStill \/ CloseFourth \/ Verdict

-----------------------------------------------------------------------------
(* The service *)

\* A connection is accepted and the arming post is queued.
Accept(c) ==
    /\ CanAccept(c)
    /\ svc' = [svc EXCEPT ![c] = "armed"]
    /\ UNCHANGED <<build, mainVars, peer>>

\* Mutant: a peer that has already gone is not read from.
ArmIfOpen(c) ==
    /\ CanArm(c) /\ peer[c] = "open"
    /\ svc' = [svc EXCEPT ![c] = "reading"]
    /\ UNCHANGED <<build, mainVars, peer>>

\* The arming post completes with no bytes and no mark: a receive is submitted
\* and marked, or the connection is taken to be closed.
Arm(c) ==
    /\ CanArm(c)
    /\ svc' = [svc EXCEPT ![c] = IF build["spares"] THEN "reading" ELSE "dropped"]
    /\ UNCHANGED <<build, mainVars, peer>>

\* The peer's close completes the marked receive with no bytes.
Reap(c) ==
    /\ CanReap(c)
    /\ svc' = [svc EXCEPT ![c] = "dropped"]
    /\ UNCHANGED <<build, mainVars, peer>>

Service == \E c \in Con : Accept(c) \/ Arm(c) \/ Reap(c)

Done == pc = "done" /\ UNCHANGED vars

Next == Main \/ Service \/ Done

Spec == Init /\ [][Next]_vars

\* Main runs, and the service works through its connections.
FairSpec == Spec /\ WF_vars(Main) /\ WF_vars(Service)

-----------------------------------------------------------------------------
(* Properties *)

TypeOK ==
    /\ build \in Builds
    /\ pc \in {"setup", "rest", "dial", "pollHeld", "close", "pollReaped", "dialFourth",
               "pollLive", "still", "closeFourth", "verdict", "done"}
    /\ k \in 1..3
    /\ read \in [Readings -> -1..5]
    /\ exit \in Gate!ExitCodes \union {Gate!Running}
    /\ peer \in [Con -> {"none", "open", "closed"}]
    /\ svc \in [Con -> {"none", "armed", "reading", "dropped"}]

\* However short the waits, 0 is returned only by a build that accepts, counts,
\* and lets the count fall when nothing but a close can make it.
PassIsEvidence == Gate!GateSpec

\* Hazard (p2p_conreap.cpp:219): the count of a build that drops every connection
\* at its arming post may read 3, then 0, then 1 in passing, and of one that reaps
\* none it reads 4 for the live peer.  Where the waits are long enough each RESULT
\* names the fault its build has all the same: the one that blames the closes is
\* said of a build that reaps none, and the ones that blame the arming post of a
\* build that takes it for a close, or (at accept) accepts nothing.  A live peer
\* that was counted and then was not is evidence on any machine.
FaultNamed ==
    pc = "done" =>
        /\ Timely /\ Result = "dropped at accept" => ~build["spares"] \/ ~build["accepts"]
        /\ Timely /\ Result = "never reaped"      => ~build["reaps"] /\ build["spares"]
        /\ Timely /\ Result = "live peer reaped"  => ~build["spares"]
        /\ Result = "live peer reaped" /\ read["live"] = 1 /\ read["still"] = 0 => ~build["spares"]

\* A connection whose peer has gone is always dropped, a peer that left before the
\* arming post completed included, while the hub runs (its shutdown, after the
\* verdict, is left out).
EveryCloseReaped ==
    build \in FullBuilds => \A c \in Con : peer[c] = "closed" ~> svc[c] = "dropped"

\* When every wait is long enough the verdict separates the builds exactly, a
\* count of 3 or 1 that only flickers past notwithstanding.
Discriminates ==
    Timely /\ exit \in {Gate!Pass, Gate!Fail}
    => (exit = Gate!Pass <=> build \in FullBuilds)

=============================================================================
