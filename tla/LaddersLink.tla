---------------------------- MODULE LaddersLink -----------------------------
(***************************************************************************)
(* The link family: what a connection is trusted with by what it runs on,  *)
(* who may connect, and what the hub makes of what arrives before a login. *)
(***************************************************************************)
EXTENDS HarnessSteps

(***************************************************************************)
(* p2p_linktrust.  Ten phases, each with hubs of its own: the policy a     *)
(* server keeps for a class of link decides if a login is negotiated.      *)
(* Main reads what the server observed after the phase's hubs are closed.  *)
(***************************************************************************)
LinkTrustDmx ==
    [login1 |-> Works("login", {}, {"deaf"}),
     body1  |-> Works("payload", {"login1"}, {}),
     login2 |-> Works("login", {}, {"deaf", "refusesOpen"}),
     body2  |-> Works("payload", {"login2"}, {}),
     login3 |-> Breach("login", {}, {"splitTalks"}, {"deaf"}),
     body3  |-> Works("payload", {"login3"}, {})]

LinkTrustWsa ==
    [login4  |-> Works("login", {}, {"deafWsa"}),
     body4   |-> Works("payload", {"login4"}, {}),
     accept5 |-> Works("accept", {}, {"deafWsa"}),
     login5  |-> Works("login", {"accept5"}, {"refusesOpenWsa"}),
     body5   |-> Works("payload", {"login5"}, {}),
     accept6 |-> Works("accept", {}, {"deafWsa"}),
     login6  |-> Breach("login", {"accept6"}, {"opensDemoted"}, {}),
     body6   |-> Works("payload", {"login6"}, {})]

LinkTrustPipe ==
    [accept9  |-> Works("accept", {}, {"deafPipe"}),
     login9   |-> Works("login", {"accept9"}, {"refusesOpenPipe"}),
     body9    |-> Works("payload", {"login9"}, {}),
     accept10 |-> Works("accept", {}, {"deafPipe"}),
     login10  |-> Works("login", {"accept10"}, {"refusesLegacy"}),
     body10   |-> Works("payload", {"login10"}, {})]

\* RunDmxPhase, RunWsaPhase and RunPipePhase.  A listener that is late is a
\* failed setup.
LinkTrustPhase(given, n) ==
    << Clear({"accept", "login", "payload"}),
       Arrange(2), Ask(given),
       Wait("b" \o n, "payload"), Shut,
       Poll("in" \o n, "login"), Poll("acc" \o n, "accept") >>

\* PhaseZero
LinkTrustDeclared ==
    << Look("declared", {"declaresWrong"}),
       Rung(Seen({"declared"}), 1, {"declaresWrong"}),
       Arrange(2) >>

LinkTrustInProcess ==
    LinkTrustPhase({"login1", "body1"}, "1")
    \o << Look("half", {"halfHandshake"}),
          Rung(Missing({"b1", "in1"}) \cup Seen({"half"}), 3, {}),
          Look("cypher", {"cyphersDmx"}), Rung(Seen({"cypher"}), 1, {"cyphersDmx"}) >>
    \o LinkTrustPhase({"login2", "body2"}, "2")
    \o << Rung(Missing({"b2", "in2"}), 1, {"refusesOpen"}),
          Look("keyed2", {"keysOpen"}), Rung(Seen({"keyed2"}), 1, {"keysOpen"}) >>
    \o LinkTrustPhase({"login3", "body3"}, "3")
    \o << Rung(Seen({"in3", "b3"}), 1, {"splitTalks"}) >>

LinkTrustLocal ==
    LinkTrustPhase({"login4", "body4"}, "4")
    \o << Inconclusive({"b4", "in4"}),
          Look("open4", {"widePolicy"}), Rung(Seen({"open4"}), 1, {"widePolicy"}),
          Look("class4", {"wrongClass"}), Rung(Seen({"class4"}), 1, {"wrongClass"}) >>
    \o LinkTrustPhase({"accept5", "login5", "body5"}, "5")
    \o << Look("keyed5", {"keysOpenWsa"}),
          Rung(Missing({"b5", "in5"}) \cup Seen({"keyed5"}), 1,
               {"refusesOpenWsa", "keysOpenWsa"}),
          Look("class5", {"wrongChild"}),
          Rung(Missing({"acc5"}) \cup Seen({"class5"}), 1, {"wrongChild"}) >>
    \o LinkTrustPhase({"accept6", "login6", "body6"}, "6")
    \o << Inconclusive({"acc6"}),
          Look("class6", {"losesCeiling"}), Rung(Seen({"class6"}), 1, {"losesCeiling"}),
          Rung(Seen({"in6", "b6"}), 1, {"opensDemoted"}) >>

\* PhaseSeven
LinkTrustFence ==
    << Arrange(2), Look("fence", {"noFence"}), Arrange(2),
       Rung(Seen({"fence"}), 1, {"noFence"}) >>

\* PhaseEight
LinkTrustArms ==
    << Look("arms", {"armsWrong"}), Rung(Seen({"arms"}), 1, {"armsWrong"}) >>

LinkTrustPipes ==
    LinkTrustPhase({"accept9", "login9", "body9"}, "9")
    \o << Look("class9", {"wrongPipe"}),
          Rung(Missing({"acc9"}) \cup Seen({"class9"}), 1, {"deafPipe", "wrongPipe"}),
          Rung(Missing({"b9", "in9"}), 1, {"refusesOpenPipe"}),
          Look("keyed9", {"keysOpenPipe"}), Rung(Seen({"keyed9"}), 1, {"keysOpenPipe"}) >>
    \o LinkTrustPhase({"accept10", "login10", "body10"}, "10")
    \o << Look("class10", {"trustsLegacy"}),
          Rung(Missing({"acc10"}) \cup Seen({"class10"}), 1, {"trustsLegacy"}),
          Inconclusive({"b10", "in10"}),
          Look("open10", {"opensLegacy"}), Rung(Seen({"open10"}), 1, {"opensLegacy"}),
          Return(0) >>

(***************************************************************************)
(* p2p_listenscope and p2p_acceptfilter, one program with two switches.    *)
(* Raw sockets connect from this host's own addresses.                     *)
(***************************************************************************)
ListenScopeHub ==
    [any     |-> Works("any", {}, {"deaf"}),
     offHost |-> Breach("offHost", {}, {"bindsAny"}, {}),
     own     |-> Works("own", {}, {"bindsNothing"})]

\* ProbeUnderScope starts a server, sleeps, connects and closes it again.
ProbeUnderScope(effect, connected) ==
    << Arrange(2), Ask({effect}), Rest, Poll(connected, effect), Shut >>

ScopeOnly ==
    << Arrange(2) >>
    \o ProbeUnderScope("any", "control")
    \o << Inconclusive({"control"}) >>
    \o ProbeUnderScope("offHost", "offHost")
    \o ProbeUnderScope("own", "loopback")
    \o << Rung(Seen({"offHost"}), 1, {"bindsAny"}),
          Rung(Missing({"loopback"}), 1, {"bindsNothing"}),
          Return(0) >>

AcceptFilterHub ==
    [refused |-> Works("refusedClosed", {}, {"admitsAll"}),
     allowed |-> Breach("allowedClosed", {}, {"refusesAll"}, {})]

\* WasClosedByPeer is a wait for the peer to close.
FilterOnly ==
    << Arrange(2),
       Look("malformed", {"lenientParser"}),
       Look("unconfigured", {"refusesUnconfigured"}),
       Arrange(2),
       Look("decision", {"decidesWrong"}), Look("zero", {"admitsUnnameable"}),
       Ask({"refused", "allowed"}), Arrange(2),
       Wait("refusedClosed", "refusedClosed"),
       Wait("allowedClosed", "allowedClosed"),
       Rung(Seen({"allowedClosed"}), 3, {}),
       Rung(Missing({"refusedClosed"}), 1, {"admitsAll"}),
       Rung(Seen({"decision"}), 1, {"decidesWrong"}),
       Rung(Seen({"zero"}), 1, {"admitsUnnameable"}),
       Rung(Seen({"unconfigured"}), 1, {"refusesUnconfigured"}),
       Rung(Seen({"malformed"}), 1, {"lenientParser"}),
       Return(0) >>

(***************************************************************************)
(* p2p_ipv6, p2p_ipv6dual and p2p_ipv6filter, one program with three.  A   *)
(* probe is served when it connects and is not closed soon after.          *)
(***************************************************************************)
Ipv6Hub ==
    [control |-> Works("open4", {}, {"deaf"}),
     closes4 |-> Breach("closed4", {"control"}, {"closesV4"}, {}),
     six     |-> Works("open6", {}, {"noV6"}),
     closes6 |-> Breach("closed6", {"six"}, {"closesV6"}, {}),
     four    |-> Breach("open4", {}, {"admitsV4"}, {})]

Ipv6DualHub ==
    [six     |-> Works("open6", {}, {"noV6"}),
     closes6 |-> Breach("closed6", {"six"}, {"closesV6"}, {}),
     four    |-> Works("open4", {}, {"onlyV6"}),
     closes4 |-> Breach("closed4", {"four"}, {"closesV4"}, {})]

Ipv6FilterHub ==
    [closes6 |-> Works("closed6", {}, {"admitsV6"}),
     closes4 |-> Breach("closed4", {}, {"refusesV4"}, {})]

\* ProbeService.  Main waits for a close only where it has connected.
ProbeService(given, probes) ==
    << Arrange(2), Ask(given), Rest >> \o probes \o << Shut >>

V6Only ==
    << Arrange(2) >>
    \o ProbeService({"control", "closes4"},
                    << Poll("v4Open", "open4"), Wait("v4Closed", "closed4") >>)
    \o << Rung(Missing({"v4Open"}) \cup Seen({"v4Closed"}), 3, {}), Clear({"open4"}) >>
    \o ProbeService({"six", "closes6", "four"},
                    << Poll("v6Open", "open6"), Wait("v6Closed", "closed6"),
                       Poll("v4Admitted", "open4") >>)
    \o << Rung(Missing({"v6Open"}) \cup Seen({"v6Closed"}), 1, {"noV6", "closesV6"}),
          Rung(Seen({"v4Admitted"}), 1, {"admitsV4"}),
          Return(0) >>

Dual ==
    << Arrange(2) >>
    \o ProbeService({"six", "closes6", "four", "closes4"},
                    << Poll("v6Open", "open6"), Wait("v6Closed", "closed6"),
                       Poll("v4Open", "open4"), Wait("v4Closed", "closed4") >>)
    \o << Rung(Missing({"v6Open"}) \cup Seen({"v6Closed"}), 1, {"noV6", "closesV6"}),
          Rung(Missing({"v4Open"}) \cup Seen({"v4Closed"}), 1, {"onlyV6", "closesV4"}),
          Return(0) >>

V6Filter ==
    << Arrange(2),
       Look("parser", {"lenientParser"}), Look("decision", {"decidesWrong"}),
       Look("mapped", {"ignoresMapped"}),
       Ask({"closes6", "closes4"}), Arrange(2),
       Wait("v6Closed", "closed6"), Wait("v4Closed", "closed4"),
       Rung(Seen({"parser"}), 1, {"lenientParser"}),
       Rung(Seen({"decision"}), 1, {"decidesWrong"}),
       Rung(Seen({"mapped"}), 1, {"ignoresMapped"}),
       Rung(Seen({"v4Closed"}), 3, {}),
       Rung(Missing({"v6Closed"}), 1, {"admitsV6"}),
       Return(0) >>

(***************************************************************************)
(* p2p_framegate.  Every byte of an image is spoilt in turn, without hubs. *)
(* A failed check is counted and the run goes on.                          *)
(***************************************************************************)
FrameGateFaults ==
    {"refusesGood", "adoptsNothing", "adoptsAnything", "escapes", "leaks", "edits"}

FrameGateMain ==
    << Arrange(2),
       Look("good", {"refusesGood"}), Look("adopted", {"adoptsNothing"}),
       Look("vacuous", {"adoptsAnything"}), Look("escaped", {"escapes"}),
       Look("leaked", {"leaks"}), Look("edited", {"edits"}),
       Rung(Seen({"good", "adopted", "vacuous", "escaped", "leaked", "edited"}), 1,
            FrameGateFaults),
       Return(0) >>

(***************************************************************************)
(* p2p_ucastgate.  An upcast climbs a tree of three, not past a connection *)
(* that has not opted in and never down.  Its exit codes are its own: 1 is *)
(* a failed setup and 2 a failure.                                         *)
(***************************************************************************)
UCastGateHub ==
    [midUp    |-> Works("midUp", {}, {"deaf"}),
     leafUp   |-> Works("leafUp", {"midUp"}, {}),
     leafOk   |-> Works("leafOk", {"leafUp"}, {}),
     midOk    |-> Works("midOk", {"midUp"}, {}),
     control1 |-> Works("midControl", {"leafUp"}, {"noUpcast"}),
     control2 |-> Works("topControl", {"control1"}, {"stopsAtParent"}),
     gated1   |-> Works("midGated", {"leafUp"}, {"noUpcast"}),
     gated2   |-> Breach("topGated", {"gated1"}, {"ignoresOptIn"}, {"stopsAtParent"}),
     down1    |-> Works("topDown", {"midUp"}, {"noUpcast", "stopsAtParent"}),
     down2    |-> Breach("leafDown", {"leafUp"}, {"floods"}, {"noUpcast"})]

\* WaitForUCastReady asks for the bit until it is set or the time is up.
UCastGateUp ==
    << Arrange(1), Ask({"midUp", "leafUp", "leafOk", "midOk"}),
       Wait("mid", "midUp"), Inconclusive({"mid"}),
       Wait("leaf", "leafUp"), Inconclusive({"leaf"}),
       Wait("leafOk", "leafOk"), Inconclusive({"leafOk"}),
       Wait("midOk", "midOk"), Inconclusive({"midOk"}) >>

UCastGateMain ==
    << Ask({"control1", "control2"}),
       Wait("bMid", "midControl"), Wait("bTop", "topControl"),
       Rung(Missing({"bMid", "bTop"}), 2, {"noUpcast", "stopsAtParent"}),
       Look("scope", {"renamesOrigin"}), Rung(Seen({"scope"}), 2, {"renamesOrigin"}),
       Arrange(1), Ask({"gated1", "gated2"}),
       Wait("gated", "midGated"), Rung(Missing({"gated"}), 2, {"noUpcast"}),
       Rest, Poll("topSaw", "topGated"), Rung(Seen({"topSaw"}), 2, {"ignoresOptIn"}),
       Ask({"down1", "down2"}),
       Wait("down", "topDown"), Rung(Missing({"down"}), 2, {"noUpcast"}),
       Rest, Poll("leafSaw", "leafDown"), Rung(Seen({"leafSaw"}), 2, {"floods"}),
       Return(0) >>

(***************************************************************************)
(* p2p_expreg.  A client of the Explorer registers under the address it    *)
(* was given, then under one below it.  That its registrations are reaped  *)
(* when it goes is judged only where the second one was taken.             *)
(***************************************************************************)
ExpRegHub ==
    [xcid   |-> Works("xcid", {}, {"deaf"}),
     legit  |-> Works("registered", {"xcid"}, {"refusesAll"}),
     status |-> Works("hubStatus", {"legit"}, {"neverTells"}),
     ghost  |-> Breach("ghost", {"xcid"}, {"trustsSource"}, {"refusesAll"}),
     closed |-> Works("closed", {"xcid"}, {})]

ExpRegControl ==
    << Arrange(2), Ask({"xcid"}),
       Wait("xcid", "xcid"), Inconclusive({"xcid"}),
       Ask({"legit", "status"}),
       Wait("legit", "registered"), Inconclusive({"legit"}),
       Wait("status", "hubStatus"), Inconclusive({"status"}) >>

ExpRegArms ==
    << Ask({"ghost"}), Wait("armA", "ghost"),
       Ask({"closed"}), Wait("closed", "closed"),
       Look("kept", {"reapsNothing"}),
       Rung(Seen({"armA"}), 1, {"trustsSource"}),
       Rung(Missing({"closed"}) \cup Seen({"kept"}), 3, {}),
       Return(0) >>

(***************************************************************************)
(* The family.                                                             *)
(***************************************************************************)
LinkHarnesses ==
    [linktrust |->
        LET seen   == {"splitTalks", "opensDemoted"}
            others == {"declaresWrong", "deaf", "halfHandshake", "cyphersDmx",
                       "refusesOpen", "keysOpen", "deafWsa", "widePolicy",
                       "wrongClass", "refusesOpenWsa", "keysOpenWsa", "wrongChild",
                       "losesCeiling", "noFence", "armsWrong", "deafPipe",
                       "wrongPipe", "refusesOpenPipe", "keysOpenPipe",
                       "trustsLegacy", "refusesLegacy", "opensLegacy"}
        IN [faults |-> seen \cup others, quirks |-> {}, proves |-> others,
            effects |-> LinkTrustDmx @@ LinkTrustWsa @@ LinkTrustPipe,
            program |-> LinkTrustDeclared \o LinkTrustInProcess \o LinkTrustLocal
                        \o LinkTrustFence \o LinkTrustArms \o LinkTrustPipes],
     listenscope |-> [faults |-> {"deaf", "bindsAny", "bindsNothing"}, quirks |-> {},
        proves |-> {"deaf", "bindsNothing"},
        effects |-> ListenScopeHub, program |-> ScopeOnly],
     acceptfilter |->
        LET answers == {"lenientParser", "refusesUnconfigured", "decidesWrong",
                        "admitsUnnameable"}
        IN [faults |-> answers \cup {"admitsAll", "refusesAll"}, quirks |-> {},
            proves |-> answers \cup {"admitsAll"},
            effects |-> AcceptFilterHub, program |-> FilterOnly],
     ipv6 |-> [faults |-> {"deaf", "closesV4", "noV6", "closesV6", "admitsV4"},
        quirks |-> {},
        proves |-> {"deaf", "noV6"},
        effects |-> Ipv6Hub, program |-> V6Only],
     ipv6dual |-> [faults |-> {"noV6", "closesV6", "onlyV6", "closesV4"},
        quirks |-> {}, proves |-> {"noV6", "onlyV6"},
        effects |-> Ipv6DualHub, program |-> Dual],
     ipv6filter |-> [faults |-> {"lenientParser", "decidesWrong", "ignoresMapped",
                                 "admitsV6", "refusesV4"},
        quirks |-> {},
        proves |-> {"lenientParser", "decidesWrong", "ignoresMapped", "admitsV6"},
        effects |-> Ipv6FilterHub, program |-> V6Filter],
     framegate |-> [faults |-> FrameGateFaults, quirks |-> {}, proves |-> FrameGateFaults,
        effects |-> <<>>, program |-> FrameGateMain],
     ucastgate |-> [faults |-> {"deaf", "noUpcast", "stopsAtParent", "renamesOrigin",
                                "ignoresOptIn", "floods"},
        quirks |-> {}, proves |-> {"deaf", "noUpcast", "stopsAtParent", "renamesOrigin"},
        effects |-> UCastGateHub, program |-> UCastGateUp \o UCastGateMain],
     expreg |-> [faults |-> {"deaf", "refusesAll", "neverTells", "trustsSource",
                             "reapsNothing"},
        quirks |-> {}, proves |-> {"deaf", "refusesAll", "neverTells", "reapsNothing"},
        effects |-> ExpRegHub, program |-> ExpRegControl \o ExpRegArms]]
=============================================================================
