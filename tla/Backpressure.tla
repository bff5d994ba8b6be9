---------------------------- MODULE Backpressure ----------------------------
(***************************************************************************)
(* p2p_backpressure: is the message budget a slope or a cliff?             *)
(*                                                                         *)
(* Main posts a batch into a clear budget, presses the budget by parking   *)
(* messages on a pump nobody pumps, posts a second batch, looks for four   *)
(* seconds at a counter that must not move, releases the pressure and      *)
(* waits for both batches.  Around it run the source hub, which sends what *)
(* is posted; the sink's connection, which parses, holds and resumes; the  *)
(* sink's pump, which counts what was parsed; and the park thread, the     *)
(* only one that may close the parked pump.                                *)
(*                                                                         *)
(* The libraries are modelled by how the harness uses them: `build' says   *)
(* which of the behaviours the harness is about this build has.            *)
(***************************************************************************)
EXTENDS Integers

CONSTANTS Builds,     \* the builds of the libraries to run against
          Batch,      \* kBatch: messages per phase
          High, Low,  \* kMarkHigh, kMarkLow: the marks on live messages
          Parks       \* kParkPosts: messages parked

Features  == {"marks",          \* SetP2PmsgBudgetMarks takes effect
              "holds",          \* a pressed connection stops reading
              "first",          \* it decides before it takes a message
              "keeps",          \* what was not read is still there
              "hub", "process", \* a hold bumps Throttled, and the process count
              "resumes",        \* a held connection polls and reads again
              "lowMark"}        \* from the low mark, not from the high one
\* A build and, as "timely", a machine on which every wait outlasts what it is
\* for.
AllBuilds == [Features \union {"timely"} -> BOOLEAN]

ASSUME BuildsAssumption == Builds \subseteq AllBuilds
\* Both batches are small beside the gap between the marks, and what is parked
\* reaches the high mark on its own.
ASSUME MarksAssumption ==
    /\ {Batch, High, Low, Parks} \subseteq Nat
    /\ 0 < Batch /\ Low + 2 * Batch < High /\ High <= Parks

VARIABLES build,    \* the build linked with
          pc,       \* main: what it does next
          i,        \* main: how many messages of a loop it has posted
          saw,      \* main: bControl, bParked, bPressed, bHeldQuiet, ...
          base,     \* main: nRecvAtPress, nHeld0, dwHeldProc0
          exit,     \* main: the process exit code
          out,      \* messages posted and not sent yet: live
          wire,     \* messages sent and not parsed: bytes, not live
          queue,    \* messages parsed and not handled: live
          recv,     \* g_nRecv
          held,     \* the sink's connection has stopped reading
          holds,    \* how often it has
          park,     \* the park thread
          parked,   \* messages parked on its pump: live
          drain     \* s_oPark.bDrain

mainVars == <<pc, i, saw, base, exit>>
netVars  == <<out, wire, queue, recv, held, holds>>
parkVars == <<park, parked>>
vars     == <<build, mainVars, netVars, parkVars, drain>>

\* What a pass is evidence of even when a wait is too short.
GoodBuilds == {b \in Builds : \A f \in {"marks", "holds", "keeps", "hub", "process"} : b[f]}
\* What it is evidence of when every wait is long enough.
FullBuilds == {b \in Builds : \A f \in Features \ {"lowMark"} : b[f]}

Gate == INSTANCE GateVerdict WITH Good <- GoodBuilds

Sights  == {"control", "parked", "pressed", "quiet", "counted", "resumed"}
Bases   == {"recv", "hub", "process"}

Live     == out + queue + parked                  \* GetP2PmsgCount(~0)
Pressed  == build["marks"] /\ Live >= High        \* P2PmsgBudgetPressed
\* Mutant: one mark instead of two.
RelievedAtHigh == ~Pressed
Relieved == IF build["lowMark"] THEN Live <= Low ELSE ~Pressed
Count(c) == IF build[c] THEN holds ELSE 0   \* Throttled, GetP2PmsgHeldCount

Init ==
    /\ build \in Builds
    /\ pc = "setup" /\ i = 0 /\ exit = Gate!Running
    /\ saw = [s \in Sights |-> FALSE] /\ base = [b \in Bases |-> 0]
    /\ out = 0 /\ wire = 0 /\ queue = 0 /\ recv = 0 /\ held = FALSE /\ holds = 0
    /\ park = "none" /\ parked = 0 /\ drain = FALSE

-----------------------------------------------------------------------------
(* Main *)

Timely      == build["timely"]
CanComplete == wire > 0 /\ ~held
CanResume   == held /\ build["resumes"] /\ Relieved

\* A wait of main may run out: a timely one, when nothing it waits for can
\* happen any more.
MayTimeOut ==
    Timely => /\ out = 0 /\ queue = 0 /\ ~CanComplete /\ ~CanResume
              /\ park # "starting" /\ ~(park = "up" /\ drain) /\ park # "closing"

Return(code) == pc' = "done" /\ exit' = code /\ UNCHANGED <<i, saw, base>>

\* Startup, both hubs, the listener and the dial, up to the awaited login.
SetUp ==
    /\ pc = "setup"
    /\ \/ pc' = "control" /\ UNCHANGED <<i, saw, base, exit>>
       \/ Return(Gate!Setup)
    /\ UNCHANGED <<build, netVars, parkVars, drain>>

\* nHeld0, and then the batch of phase 1 or 2, message by message.
PostBatch ==
    /\ pc \in {"control", "flood"}
    /\ i' = IF i + 1 = Batch THEN 0 ELSE i + 1
    /\ pc' = IF i' # 0 THEN pc ELSE IF pc = "control" THEN "awaitControl" ELSE "look"
    /\ base' = IF pc = "control" /\ i = 0 THEN [base EXCEPT !["hub"] = Count("hub")] ELSE base
    /\ out' = out + 1
    /\ UNCHANGED <<build, saw, exit, wire, queue, recv, held, holds, parkVars, drain>>

\* WaitForRecv: TRUE as soon as the count is reached, FALSE when time is up.
WaitForRecv(sight, want, next) ==
    /\ recv < want => MayTimeOut
    /\ saw' = [saw EXCEPT ![sight] = recv >= want]
    /\ pc' = next
    /\ UNCHANGED <<build, i, base, exit, netVars, parkVars, drain>>

AwaitControl == pc = "awaitControl" /\ WaitForRecv("control", Batch, "createPark")
\* Mutant: one batch is taken for both.
AwaitOne     == pc = "awaitAll" /\ WaitForRecv("resumed", Batch, "verdict")
AwaitAll     == pc = "awaitAll" /\ WaitForRecv("resumed", 2 * Batch, "verdict")

CreatePark ==
    /\ pc = "createPark" /\ pc' = "awaitPark"
    /\ park' = "starting"
    /\ UNCHANGED <<build, i, saw, base, exit, netVars, parked, drain>>

\* Up to 100 looks at nPumpID, and then the readings to compare with: a
\* thread that is not up by then is drained as if it had failed.
AwaitPark ==
    /\ pc = "awaitPark"
    /\ park \in {"up", "failed"} \/ MayTimeOut
    /\ saw' = [saw EXCEPT !["parked"] = park = "up"]
    /\ base' = [base EXCEPT !["recv"] = recv, !["process"] = Count("process")]
    /\ pc' = IF park = "up" THEN "press" ELSE "release"
    /\ UNCHANGED <<build, i, exit, netVars, parkVars, drain>>

\* 600 posts to a pump nobody pumps.
Press ==
    /\ pc = "press"
    /\ parked' = parked + 1
    /\ i' = IF i + 1 = Parks THEN 0 ELSE i + 1
    /\ pc' = IF i' # 0 THEN pc ELSE "settle"
    /\ UNCHANGED <<build, saw, base, exit, netVars, park, drain>>

\* Sleep(300), and is the budget pressed?
Settle ==
    /\ pc = "settle" /\ pc' = "flood" /\ MayTimeOut
    /\ saw' = [saw EXCEPT !["pressed"] = Pressed]
    /\ UNCHANGED <<build, i, base, exit, netVars, parkVars, drain>>

\* Sleep(4000), and has the count moved since the budget was pressed?
Look ==
    /\ pc = "look" /\ pc' = "lookCounts" /\ MayTimeOut
    /\ saw' = [saw EXCEPT !["quiet"] = recv = base["recv"]]
    /\ UNCHANGED <<build, i, base, exit, netVars, parkVars, drain>>

\* Mutant: either count will do.
LookEitherCount ==
    /\ pc = "lookCounts" /\ pc' = "release"
    /\ saw' = [saw EXCEPT !["counted"] = \E c \in {"hub", "process"} : Count(c) > base[c]]
    /\ UNCHANGED <<build, i, base, exit, netVars, parkVars, drain>>

\* nHeldHub and dwHeldProc, read after that.
LookCounts ==
    /\ pc = "lookCounts" /\ pc' = "release"
    /\ saw' = [saw EXCEPT !["counted"] = \A c \in {"hub", "process"} : Count(c) > base[c]]
    /\ UNCHANGED <<build, i, base, exit, netVars, parkVars, drain>>

\* bDrain = 1, whether the pump came up or not.
Release ==
    /\ pc = "release" /\ pc' = "join"
    /\ drain' = TRUE
    /\ UNCHANGED <<build, i, saw, base, exit, netVars, parkVars>>

\* Mutant: the park thread is not waited for.
JoinNot ==
    /\ pc = "join"
    /\ pc' = IF saw["parked"] THEN "awaitAll" ELSE "verdict"
    /\ UNCHANGED <<build, i, saw, base, exit, netVars, parkVars, drain>>

\* WaitForSingleObject(hPark, 10000), with or without the thread's end.
Join ==
    /\ pc = "join"
    /\ park \in {"closed", "failed"} \/ MayTimeOut
    /\ pc' = IF saw["parked"] THEN "awaitAll" ELSE "verdict"
    /\ UNCHANGED <<build, i, saw, base, exit, netVars, parkVars, drain>>

\* Mutant: the control is not looked at.
ExitCodeNoControl ==
    IF ~saw["parked"] \/ ~saw["pressed"] THEN Gate!Inconclusive
    ELSE IF ~saw["quiet"] \/ ~saw["counted"] \/ ~saw["resumed"] THEN Gate!Fail
    ELSE Gate!Pass

\* The chain of verdicts: the controls first.
ExitCode ==
    IF ~saw["control"] \/ ~saw["parked"] \/ ~saw["pressed"] THEN Gate!Inconclusive
    ELSE IF ~saw["quiet"] \/ ~saw["counted"] \/ ~saw["resumed"] THEN Gate!Fail
    ELSE Gate!Pass

Verdict ==
    /\ pc = "verdict"
    /\ Return(ExitCode)
    /\ UNCHANGED <<build, netVars, parkVars, drain>>

Main == \/ SetUp \/ PostBatch \/ AwaitControl \/ CreatePark \/ AwaitPark \/ Press
        \/ Settle \/ Look \/ LookCounts \/ Release \/ Join \/ AwaitAll \/ Verdict

-----------------------------------------------------------------------------
(* The source hub, the sink's connection and the sink's pump *)

Send ==
    /\ out > 0
    /\ out' = out - 1 /\ wire' = wire + 1
    /\ UNCHANGED <<build, mainVars, queue, recv, held, holds, parkVars, drain>>

\* A read completes, and the receive loop parses a message or holds.  A build
\* that decides at the bottom of the loop takes the message first; one that
\* does not keep what it holds loses it.
Hold ==
    /\ CanComplete /\ build["holds"] /\ Pressed
    /\ held' = TRUE /\ holds' = holds + 1
    /\ \/ build["first"] /\ build["keeps"] /\ UNCHANGED <<wire, queue>>
       \/ ~build["keeps"] /\ wire' = wire - 1 /\ UNCHANGED queue
       \/ ~build["first"] /\ build["keeps"] /\ wire' = wire - 1 /\ queue' = queue + 1
    /\ UNCHANGED <<build, mainVars, out, recv, parkVars, drain>>

Parse ==
    /\ CanComplete /\ ~(build["holds"] /\ Pressed)
    /\ wire' = wire - 1 /\ queue' = queue + 1
    /\ UNCHANGED <<build, mainVars, out, recv, held, holds, parkVars, drain>>

\* On_PITimer finds the budget relieved and rearms the read.
Resume ==
    /\ CanResume
    /\ held' = FALSE
    /\ UNCHANGED <<build, mainVars, out, wire, queue, recv, holds, parkVars, drain>>

\* On_P2PeerBCast of the sink: ++g_nRecv.
Handle ==
    /\ queue > 0
    /\ queue' = queue - 1 /\ recv' = recv + 1
    /\ UNCHANGED <<build, mainVars, out, wire, held, holds, parkVars, drain>>

Network == Send \/ Hold \/ Parse \/ Resume \/ Handle

-----------------------------------------------------------------------------
(* The park thread *)

CreatePump ==
    /\ park = "starting" /\ park' \in {"up", "failed"}
    /\ UNCHANGED <<build, mainVars, netVars, parked, drain>>

SeeDrain ==
    /\ park = "up" /\ drain /\ park' = "closing"
    /\ UNCHANGED <<build, mainVars, netVars, parked, drain>>

\* CloseP2PmsgPump frees what is parked, a message at a time.
ClosePump ==
    /\ park = "closing"
    /\ IF parked > 0 THEN parked' = parked - 1 /\ UNCHANGED park
                     ELSE park' = "closed" /\ UNCHANGED parked
    /\ UNCHANGED <<build, mainVars, netVars, drain>>

Park == CreatePump \/ SeeDrain \/ ClosePump

Done == pc = "done" /\ UNCHANGED vars

Next == Main \/ Network \/ Park \/ Done

Spec == Init /\ [][Next]_vars

-----------------------------------------------------------------------------
(* Properties *)

TypeOK ==
    /\ build \in Builds
    /\ pc \in {"setup", "control", "awaitControl", "createPark", "awaitPark", "press",
               "settle", "flood", "look", "lookCounts", "release", "join", "awaitAll",
               "verdict", "done"}
    /\ i \in Nat /\ i < IF pc \in {"control", "flood"} THEN Batch ELSE Parks
    /\ saw \in [Sights -> BOOLEAN] /\ base \in [Bases -> Nat]
    /\ exit \in Gate!ExitCodes \union {Gate!Running}
    /\ out \in Nat /\ wire \in Nat /\ queue \in Nat /\ recv \in Nat
    /\ held \in BOOLEAN /\ holds \in Nat
    /\ park \in {"none", "starting", "up", "failed", "closing", "closed"}
    /\ parked \in Nat /\ parked <= Parks /\ drain \in BOOLEAN

\* However short the waits, the harness implements a gate: 0 is returned only
\* by a build that applies the marks, holds, keeps and counts.
PassIsEvidence == Gate!GateSpec

\* However short the waits, "THE READ WAS NEVER HELD" is said only of a build
\* that read on: what the control batch had still to deliver, it delivered
\* before the count the window is compared with was taken.
NeverHeldIsTrue ==
    /\ exit = Gate!Fail /\ ~saw["quiet"]
    => ~build["holds"] \/ ~build["first"]

\* Between two marks the connection is held once per pressing: it does not
\* resume into a budget that holds it again.
HeldOnce == build["lowMark"] => holds <= 1

\* When every wait is long enough the verdict separates the builds exactly.
Discriminates ==
    Timely /\ exit \in {Gate!Pass, Gate!Fail} => (exit = Gate!Pass <=> build \in FullBuilds)

\* The parked pump is closed by its own thread before main tears the hub down.
ParkedThreadGone == Timely /\ pc = "verdict" => park \in {"closed", "failed"}
=============================================================================
