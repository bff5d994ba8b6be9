---------------------------- MODULE LaddersBound ----------------------------
(***************************************************************************)
(* The resource-bound family: how many peers a listener serves, for how    *)
(* long it lets one stay silent, and the errors that used to cost a hub    *)
(* its pump.                                                               *)
(*                                                                         *)
(* A raw socket tells the harness only that it was closed, not by what.    *)
(* So the harnesses that use one prove nothing on a slow machine: a        *)
(* listener that closes everything looks like one that keeps its bound.    *)
(***************************************************************************)
EXTENDS HarnessSteps

\* WasClosedByPeer and WasDroppedByServer: polls until the peer has closed.
WasClosedByPeer(reading, signal) == Wait(reading, signal)

\* The listener closes this one, by its bound or with everything else.
ClosedAtBound(s, unless) ==
    (s :> Works(s, {}, unless)) @@ (s \o "All" :> Breach(s, {}, {"refusesAll"}, {}))

\* The listener closes one it should have kept.
ClosedWithAll(S) == [s \in S |-> Breach(s, {}, {"refusesAll"}, {})]

(***************************************************************************)
(* p2p_acceptcap: one listener, asked for a cap on all its peers, a login  *)
(* deadline, or a cap on the peers of one address.                         *)
(***************************************************************************)
AcceptCapHub == ClosedAtBound("third", {"unbound"}) @@ ClosedWithAll({"first", "second"})

\* main with --cap-only
AcceptCapMain ==
    << Arrange(2), Ask({"third", "thirdAll", "first", "second"}),
       WasClosedByPeer("b3Closed", "third"),
       WasClosedByPeer("b1Gone", "first"), WasClosedByPeer("b2Gone", "second"),
       Rung(Seen({"b1Gone", "b2Gone"}), 3, {}),
       Rung(Missing({"b3Closed"}), 1, {"unbound"}),
       Return(0) >>

LoginDeadlineHub ==
    ClosedAtBound("silent", {"noDeadline"}) @@ ClosedWithAll({"control"})

\* main with --deadline-only.  The deadline is off again for the control.
LoginDeadlineMain ==
    << Arrange(2), Ask({"silent", "silentAll"}), WasClosedByPeer("bDropped", "silent"),
       Ask({"control"}), WasClosedByPeer("bCtrlGone", "control"),
       Rung(Missing({"bDropped"}), 1, {"noDeadline"}),
       Rung(Seen({"bCtrlGone"}), 3, {}),
       Return(0) >>

SourceBoundHub ==
    ClosedAtBound("a3", {"unbound"})
    @@ ClosedWithAll({"a1", "a2", "d1"})
    @@ ClosedAtBound("d2", {"noDeadline"})
    @@ ClosedAtBound("d5", {"unbound", "overshoots"})
    @@ [b1 |-> Breach("b1", {}, {"bindsService"}, {}),
        b1All |-> Breach("b1", {}, {"refusesAll"}, {}),
        d3 |-> Works("d3", {"d2"}, {"neverGivesBack", "refusesAll"})]

\* Two of one address and a third, and one of another.
SourceBoundShare ==
    << Arrange(2), Ask({"a3", "a3All", "b1", "b1All", "a1", "a2"}),
       WasClosedByPeer("b3Closed", "a3"), WasClosedByPeer("bOtherGone", "b1"),
       WasClosedByPeer("b1Gone", "a1"), WasClosedByPeer("b2Gone", "a2") >>

\* A third address takes its share, loses it to the deadline and comes back.
SourceBoundReturn ==
    << Ask({"d1"}), WasClosedByPeer("bRefused", "d1"),
       Ask({"d2", "d2All"}), WasClosedByPeer("bTimedOut", "d2"),
       Ask({"d3"}), Rest, Poll("bReadmitted", "d3"),
       Ask({"d5", "d5All"}), WasClosedByPeer("bStillBound", "d5") >>

SourceBoundLadder ==
    << Rung(Seen({"b1Gone", "b2Gone"}), 3, {}),
       Rung(Missing({"b3Closed"}), 1, {"unbound"}),
       Rung(Seen({"bOtherGone"}), 1, {"bindsService", "refusesAll"}),
       Rung(Seen({"bRefused"}) \cup Missing({"bTimedOut"}), 3, {}),
       Rung(Missing({"bReadmitted"}), 1, {"neverGivesBack"}),
       Rung(Missing({"bStillBound"}), 1, {"overshoots"}),
       Return(0) >>

(***************************************************************************)
(* p2p_pipecap: the cap over named pipes, and the control without one.     *)
(***************************************************************************)
PipeCapHub ==
    ClosedAtBound("h2", {"unbound"}) @@ ClosedWithAll({"h1"})
    @@ [h2Never |-> Breach("h2", {}, {"boundAlways"}, {}),
        h3 |-> Works("h3", {}, {"leaksSlot", "refusesAll"})]

PipeCapOpen(second) ==
    << Arrange(2), Ask(second \cup {"h1"}),
       WasClosedByPeer("b2Dropped", "h2"), WasClosedByPeer("b1Gone", "h1"),
       Rung(Seen({"b1Gone"}), 3, {}) >>

\* The first client leaves and a third must get in.
PipeCapMain ==
    PipeCapOpen({"h2", "h2All"})
    \o << Rung(Missing({"b2Dropped"}), 1, {"unbound"}),
          Ask({"h3"}), Rest, Poll("b3Up", "h3"),
          Rung(Missing({"b3Up"}), 1, {"leaksSlot"}),
          Return(0) >>

\* main with --uncapped
PipeCapControl ==
    PipeCapOpen({"h2Never", "h2All"})
    \o << Rung(Seen({"b2Dropped"}), 1, {"boundAlways", "refusesAll"}), Return(0) >>

(***************************************************************************)
(* p2p_dmxcap: the cap between hubs of one process.  A client is served    *)
(* when its login is acknowledged, which no refusal looks like.            *)
(***************************************************************************)
WaitServed(reading, client) == Wait(reading, client)

DmxCapHub ==
    [A |-> Works("A", {}, {"deaf"}),
     B |-> Breach("B", {"A"}, {"unbound"}, {}),
     C |-> Works("C", {"A"}, {"staysShut"})]

DmxCapMain ==
    << Arrange(2), Ask({"A"}), WaitServed("bAServed", "A"),
       Rung(Missing({"bAServed"}), 2, {}),
       Arrange(2), Ask({"B"}), WaitServed("bBServed", "B"),
       Rung(Seen({"bBServed"}), 1, {"unbound"}),
       Arrange(2), Ask({"C"}), WaitServed("bCServed", "C"),
       Rung(Missing({"bCServed"}), 1, {"staysShut"}),
       Return(0) >>

DmxCapOpenHub ==
    [A |-> Works("A", {}, {"deaf"}), B |-> Works("B", {"A"}, {"boundAlways"})]

\* main with --uncapped
DmxCapControl ==
    << Arrange(2), Ask({"A"}), WaitServed("bAServed", "A"),
       Rung(Missing({"bAServed"}), 2, {}),
       Arrange(2), Ask({"B"}), WaitServed("bBServed", "B"),
       Rung(Missing({"bBServed"}), 1, {"boundAlways"}),
       Return(0) >>

DmxCapSlotHub ==
    [counted |-> Works("counted", {}, {"deaf", "uncounted"}),
     A       |-> Works("A", {"counted"}, {}),
     free    |-> Breach("A", {}, {"uncounted"}, {"deaf"}),
     zero    |-> Works("zero", {}, {"leaksSlot"}),
     B       |-> Works("B", {"zero"}, {"staysShut"})]

\* RunSlotReturn: the client's hub is destroyed and its slot must come back.
RunSlotReturn ==
    << Arrange(2), Ask({"counted", "A", "free"}), WaitServed("bAServed", "A"),
       Poll("lCount", "counted"), Rung(Missing({"bAServed", "lCount"}), 2, {}),
       Shut, Ask({"zero"}), Wait("zero", "zero"),
       Rung(Missing({"zero"}), 1, {"leaksSlot"}),
       Arrange(2), Ask({"B"}), WaitServed("bBServed", "B"),
       Rung(Missing({"bBServed"}), 1, {"staysShut"}),
       Return(0) >>

(***************************************************************************)
(* p2p_bigreport.  A message that cannot be routed is answered by a report *)
(* that embeds it, also when the message is big.                           *)
(***************************************************************************)
ReportHub ==
    [login |-> Works("loggedIn", {}, {"deaf"}),
     small |-> Works("report", {"login"}, {"mute"}),
     big   |-> Works("report", {"small"}, {"cannotBuild", "drops"}),
     again |-> Works("report", {"small"}, {"downsHub", "drops"})]

\* A closed connection ends the second wait too; no report follows it.
BigReportMain ==
    << Arrange(2), Ask({"login"}), Wait("loggedIn", "loggedIn"),
       Rung(Missing({"loggedIn"}), 2, {}),
       Ask({"small"}), Wait("small", "report"), Inconclusive({"small"}),
       Ask({"big"}), Wait("big", "report"),
       Clear({"report"}), Ask({"again"}), Wait("alive", "report"),
       Rung(Missing({"big", "alive"}), 1, {"cannotBuild", "drops", "downsHub"}),
       Return(0) >>

(***************************************************************************)
(* p2p_acceptunnamed.  The child a listener spawns takes its address from  *)
(* the peer's login, where the listener was told to leave it unnamed.      *)
(***************************************************************************)
UnaHub ==
    [named   |-> Works("child1", {}, {"listsNothing"}),
     unnamed |-> Works("child2", {}, {"listsNothing", "dropsUnnamed"})]

\* RunPhase polls the hub's connections until a child is among them.
AcceptUnnamedMain ==
    << Arrange(2), Ask({"named"}), Wait("child1", "child1"), Shut,
       Look("wrong1", {"misnames"}),
       Rung(Missing({"child1"}) \cup Seen({"wrong1"}), 3, {}),
       Arrange(2), Ask({"unnamed"}), Wait("child2", "child2"), Shut,
       Look("named2", {"ignoresState"}), Look("bit2", {"inheritsState"}),
       Look("moved", {"unnamesListener"}),
       Rung(Missing({"child2"}) \cup Seen({"named2", "bit2", "moved"}), 1,
            {"dropsUnnamed", "ignoresState", "inheritsState", "unnamesListener"}),
       Return(0) >>

(***************************************************************************)
(* p2p_hubdtorreport.  A hub deleted while its pump runs closes itself.    *)
(***************************************************************************)
HubDtorReportHub == [stop |-> Works("stopped", {}, {"keepsPump"})]

HubDtorReportMain ==
    << Arrange(2), Look("control", {"alwaysAsserts"}), Rung(Seen({"control"}), 3, {}),
       Arrange(2), Look("left", {"pumpLeaves"}),
       Ask({"stop"}), Wait("bStopped", "stopped"), Look("asserts", {"dtorAsserts"}),
       Rung(Seen({"left", "asserts"}) \cup Missing({"bStopped"}), 1,
            {"pumpLeaves", "dtorAsserts", "keepsPump"}),
       Return(0) >>

(***************************************************************************)
(* The family.                                                             *)
(***************************************************************************)
BoundHarness(failing, proven, hub, main) ==
    [faults |-> failing, quirks |-> {}, proves |-> proven, effects |-> hub, program |-> main]

BoundHarnesses ==
    [acceptcap |-> BoundHarness({"unbound", "refusesAll"}, {}, AcceptCapHub, AcceptCapMain),
     logindeadline |-> BoundHarness({"noDeadline", "refusesAll"}, {},
                                    LoginDeadlineHub, LoginDeadlineMain),
     srcbound |-> BoundHarness({"unbound", "bindsService", "refusesAll", "noDeadline",
                                "neverGivesBack", "overshoots"}, {},
                    SourceBoundHub, SourceBoundShare \o SourceBoundReturn \o SourceBoundLadder),
     pipecap |-> BoundHarness({"unbound", "leaksSlot", "refusesAll"}, {},
                              PipeCapHub, PipeCapMain),
     pipecap_control |-> BoundHarness({"boundAlways", "refusesAll"}, {},
                                      PipeCapHub, PipeCapControl),
     dmxcap |-> BoundHarness({"deaf", "unbound", "staysShut"}, {"deaf", "staysShut"},
                             DmxCapHub, DmxCapMain),
     dmxcap_control |-> BoundHarness({"deaf", "boundAlways"}, {"deaf", "boundAlways"},
                                     DmxCapOpenHub, DmxCapControl),
     dmxcap_slot |->
        LET failing == {"deaf", "uncounted", "leaksSlot", "staysShut"}
        IN BoundHarness(failing, failing, DmxCapSlotHub, RunSlotReturn),
     bigreport |->
        LET failing == {"deaf", "mute", "cannotBuild", "drops", "downsHub"}
        IN BoundHarness(failing, failing \ {"downsHub"}, ReportHub, BigReportMain),
     acceptunnamed |->
        LET failing == {"listsNothing", "misnames", "dropsUnnamed", "ignoresState",
                        "inheritsState", "unnamesListener"}
        IN BoundHarness(failing, failing, UnaHub, AcceptUnnamedMain),
     hubdtorreport |->
        LET failing == {"alwaysAsserts", "pumpLeaves", "dtorAsserts", "keepsPump"}
        IN BoundHarness(failing, failing, HubDtorReportHub, HubDtorReportMain)]
=============================================================================
