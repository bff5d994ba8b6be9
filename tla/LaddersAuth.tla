---------------------------- MODULE LaddersAuth -----------------------------
(***************************************************************************)
(* The authentication family: who may log in, as whom, and what a hub says *)
(* about it.  Every harness but authgate, armgate and authposture starts   *)
(* with a control, an honest peer that must get through.                   *)
(***************************************************************************)
EXTENDS HarnessSteps

(***************************************************************************)
(* p2p_authgate.  A raw socket writes one frame without logging in.        *)
(***************************************************************************)
AuthGateHub == [frame |-> Breach("handlerFired", {}, {"openDispatch"}, {})]

\* RawConnectAndSend sleeps three seconds with the socket open.
AuthGateMain ==
    << Arrange(2), Ask({"frame"}), Rest,
       Wait("fired", "handlerFired"),
       Rung(Seen({"fired"}), 1, {"openDispatch"}),
       Return(0) >>

(***************************************************************************)
(* p2p_authspoof.  A client logs in, then writes another source address.   *)
(***************************************************************************)
AuthSpoofHub ==
    [honest  |-> Works("honest", {}, {"deaf"}),
     spoofed |-> Breach("spoof", {}, {"unboundSource"}, {"deaf"})]

AuthSpoofMain ==
    << Arrange(2), Ask({"honest"}),
       Wait("honest", "honest"), Inconclusive({"honest"}),
       Ask({"spoofed"}),
       Wait("spoofed", "spoof"),
       Rung(Seen({"spoofed"}), 1, {"unboundSource"}),
       Return(0) >>

(***************************************************************************)
(* p2p_authpsk.  An impostor signs with a key the allow-list does not name.*)
(***************************************************************************)
AuthPskHub ==
    [honest   |-> Works("honest", {}, {"deaf"}),
     impostor |-> Breach("impostor", {}, {"anyKey"}, {"deaf"})]

AuthPskMain ==
    << Arrange(2), Ask({"honest"}),
       Wait("honest", "honest"), Inconclusive({"honest"}),
       Arrange(2), Ask({"impostor"}),
       Wait("impostor", "impostor"),
       Rung(Seen({"impostor"}), 1, {"anyKey"}),
       Return(0) >>

(***************************************************************************)
(* p2p_authrelay.  The machine in the middle writes a frame of its own on  *)
(* the server's socket, once the honest body has come through it.          *)
(***************************************************************************)
AuthRelayHub ==
    [honest   |-> Works("honest", {}, {"deaf"}),
     injected |-> Breach("injected", {}, {"borrowedIdentity"}, {"deaf"})]

\* The relay's own failures leave the control silent.
AuthRelayControl ==
    << Arrange(2), Ask({"honest"}),
       Wait("honest", "honest"), Inconclusive({"honest"}) >>

AuthRelayProbe ==
    << Arrange(2), Ask({"injected"}),
       Wait("injected", "injected"),
       Rung(Seen({"injected"}), 1, {"borrowedIdentity"}),
       Return(0) >>

(***************************************************************************)
(* p2p_authchannel.  The same client in three phases; in the second it     *)
(* signs its login but agrees no key.  On_ConLogin charges a login to the  *)
(* phase main is in, and the body goes out once the login is acknowledged. *)
(***************************************************************************)
AuthChannelLogin == <<"login1", "login2", "login3">>

AuthChannelHub ==
    [login1 |-> Effect(AuthChannelLogin, {}, {"deaf"}, {}),
     login2 |-> Effect(AuthChannelLogin, {}, {"deaf"}, {"nullBinding"}),
     login3 |-> Effect(AuthChannelLogin, {}, {"deaf", "dies"}, {}),
     body1  |-> Works("phase1", {"login1"}, {}),
     body2  |-> Breach("phase2", {"login2"}, {"lenientAck"}, {}),
     body3  |-> Works("phase3", {"login3"}, {})]

\* RunPhase: main waits for the body and then looks at the login.
AuthChannelPhase(n, login, body, arrived, accepted) ==
    << Turn(n), Arrange(2), Ask({login, body}),
       Wait(arrived, AuthChannelHub[body].signal[1]),
       Poll(accepted, AuthChannelLogin[n]) >>

AuthChannelMain ==
    << Arrange(2) >>
    \o AuthChannelPhase(1, "login1", "body1", "b1", "in1")
    \o << Inconclusive({"b1", "in1"}) >>
    \o AuthChannelPhase(2, "login2", "body2", "b2", "in2")
    \o AuthChannelPhase(3, "login3", "body3", "b3", "in3")
    \o << Rung(Seen({"in2", "b2"}), 1, {"nullBinding"}),
          Rung(Missing({"b3", "in3"}), 1, {"dies"}),
          Return(0) >>

(***************************************************************************)
(* p2p_authancestor.  Four hubs: a parent relays to a leaf what another    *)
(* branch said, honestly, then under the opt-out, then forged.             *)
(***************************************************************************)
AuthAncestorHub ==
    [midUp   |-> Works("midUp", {}, {"deaf"}),
     leafUp  |-> Works("leafUp", {"midUp"}, {}),
     control |-> Works("control", {"leafUp"}, {"noDelivery"}),
     otherUp |-> Works("otherUp", {"midUp"}, {}),
     relay   |-> Works("relay", {"otherUp"}, {"refusesHonest"}),
     exempt  |-> Works("exempt", {"leafUp"}, {"noOptOut"}),
     forged  |-> Breach("forged", {"leafUp"}, {"believesParent"}, {})]

AuthAncestorTree ==
    << Arrange(2), Ask({"midUp"}),
       Wait("mid", "midUp"), Rung(Missing({"mid"}), 2, {}),
       Arrange(2), Ask({"leafUp"}),
       Wait("leaf", "leafUp"), Rung(Missing({"leaf"}), 2, {}),
       Ask({"control"}),
       Wait("control", "control"), Inconclusive({"control"}) >>

AuthAncestorRelays ==
    << Arrange(2),
       Look("notDefault", {"offByDefault"}), Rung(Seen({"notDefault"}), 2, {}),
       Arrange(2), Ask({"otherUp"}),
       Wait("other", "otherUp"), Rung(Missing({"other"}), 2, {}),
       Ask({"relay"}),
       Wait("relay", "relay"), Rung(Missing({"relay"}), 5, {"refusesHonest"}),
       Look("stuck", {"switchStuck"}), Rung(Seen({"stuck"}), 2, {}),
       Ask({"exempt"}),
       Wait("exempt", "exempt"), Rung(Missing({"exempt"}), 4, {"noOptOut"}),
       Ask({"forged"}),
       Wait("forged", "forged"), Rung(Seen({"forged"}), 1, {"believesParent"}),
       Return(0) >>

(***************************************************************************)
(* p2p_armgate.  Hubs are asked to arm, without sockets.  A failed check   *)
(* is counted and the run goes on; setting up a later phase may still fail *)
(* and return 2 over the failures counted.                                 *)
(***************************************************************************)
ArmGateProvision ==
    << Arrange(2), Look("bare", {"armsBare"}),
       Arrange(2), Look("idOnly", {"armsWithoutList"}),
       Arrange(2), Look("empty", {"armsEmptyList"}),
       Arrange(2), Look("good", {"refusesGood"}) >>

ArmGateMigration ==
    << Arrange(2), Look("deleted", {"armsDeletedList"}),
       Look("optOut", {"noOptOut"}),
       Look("firstRun", {"rotatesIdentity"}) >>

ArmGateRevocation ==
    << Arrange(2), Look("noRevoc", {"armsWithoutRevocation"}),
       Arrange(2), Look("revocOptOut", {"wideOptOut"}),
       Arrange(2), Look("revocDeleted", {"armsDeletedRevocation"}),
       Rung(Seen({"bare", "idOnly", "empty", "good", "deleted", "optOut",
                  "firstRun", "noRevoc", "revocOptOut", "revocDeleted"}), 1,
            {"armsBare", "armsWithoutList", "armsEmptyList", "refusesGood",
             "armsDeletedList", "noOptOut", "rotatesIdentity",
             "armsWithoutRevocation", "wideOptOut", "armsDeletedRevocation"}),
       Return(0) >>

(***************************************************************************)
(* p2p_authposture.  Snapshots of three hubs and two connections.  The     *)
(* hubs are read without anything else running; a wrong snapshot is kept   *)
(* in nExit and the run goes on to the authenticated connection.           *)
(***************************************************************************)
AuthPostureHub ==
    [login     |-> Works("loggedIn", {}, {"deaf"}),
     openLogin |-> Works("openLogin", {}, {"deafOpen"})]

AuthPostureHubs ==
    << Arrange(2), Look("off", {"hubOff"}),
       Arrange(2), Look("key", {"hubKeyed"}),
       Arrange(2), Look("on", {"hubOn"}) >>

\* A connection that cannot be found any more when it is looked for is
\* inconclusive.
AuthPostureAuthenticated ==
    << Arrange(2), Ask({"login"}),
       Wait("login", "loggedIn"),
       Rung(Seen({"off", "key", "on"}), 1, {"hubOff", "hubKeyed", "hubOn"}),
       Inconclusive({"login"}),
       Arrange(3), Look("proof", {"conAuthenticated"}),
       Rung(Seen({"proof"}), 1, {"conAuthenticated"}) >>

\* The open pair is run only when nothing has failed so far.
AuthPostureOpen ==
    << Arrange(2), Ask({"openLogin"}),
       Wait("open", "openLogin"), Inconclusive({"open"}),
       Arrange(3), Look("bare", {"conOpen"}),
       Rung(Seen({"bare"}), 1, {"conOpen"}),
       Return(0) >>

(***************************************************************************)
(* p2p_confchannel.  Six phases against two servers that share g_nPhase,   *)
(* so that a login at the open server counts too; the refusals are read    *)
(* out of the library's diagnostics.                                       *)
(***************************************************************************)
ConfChannelLogin == <<"login1", "none", "login3", "none", "login5", "login6">>

ConfChannelAuthServer ==
    [login1 |-> Effect(ConfChannelLogin, {}, {"deaf"}, {}),
     body1  |-> Works("pay1", {"login1"}, {}),
     refused3 |-> Works("gateRefusal", {}, {"deaf", "keysMute", "muteRefusal"}),
     login3 |-> Effect(ConfChannelLogin, {}, {"deaf"}, {"keysMute"}),
     body3  |-> Works("pay3", {"login3"}, {}),
     refused5 |-> Works("sendRefusal", {}, {"deaf", "sendsRaw", "silentSend"}),
     login5 |-> Effect(ConfChannelLogin, {}, {"deaf"}, {"sendsRaw"}),
     body5  |-> Works("pay5", {"login5"}, {}),
     login6 |-> Effect(ConfChannelLogin, {}, {"deaf", "dies"}, {}),
     body6  |-> Works("pay6", {"login6"}, {})]

ConfChannelOpenServer ==
    [login2 |-> Effect(ConfChannelLogin, {}, {"deaf", "muteIo"}, {}),
     body2  |-> Works("pay2", {"login2"}, {}),
     login4 |-> Effect(ConfChannelLogin, {}, {"deaf", "rawIo"}, {}),
     body4  |-> Works("pay4", {"login4"}, {})]

\* RunPhase; a phase at the open server has no login event to look at.
ConfChannelPhase(n, login, body, arrived, pay) ==
    << Turn(n), Arrange(2), Ask({login, body}), Wait(arrived, pay) >>

ConfChannelPhases ==
    << Arrange(2),
       Look("declared", {"declaresWrong"}), Rung(Seen({"declared"}), 1, {"declaresWrong"}),
       Arrange(2) >>
    \o ConfChannelPhase(1, "login1", "body1", "b1", "pay1")
    \o << Poll("in1", "login1"), Inconclusive({"b1", "in1"}) >>
    \o ConfChannelPhase(2, "login2", "body2", "b2", "pay2")
    \o << Clear({"gateRefusal"}), Ask({"refused3"}) >>
    \o ConfChannelPhase(3, "login3", "body3", "b3", "pay3")
    \o << Poll("in3", "login3"), Poll("keyXRefused", "gateRefusal") >>
    \o ConfChannelPhase(4, "login4", "body4", "b4", "pay4")
    \o << Clear({"sendRefusal"}), Ask({"refused5"}) >>
    \o ConfChannelPhase(5, "login5", "body5", "b5", "pay5")
    \o << Poll("in5", "login5"), Poll("sendRefused", "sendRefusal") >>
    \o ConfChannelPhase(6, "login6", "body6", "b6", "pay6")
    \o << Poll("in6", "login6") >>

ConfChannelLadder ==
    << Rung(Seen({"in3", "b3"}), 1, {"keysMute"}),
       Rung(Seen({"in5", "b5"}), 1, {"sendsRaw"}),
       Inconclusive({"b2", "b4"}),
       Rung(Missing({"sendRefused"}), 1, {"silentSend"}),
       Inconclusive({"keyXRefused"}),
       Rung(Missing({"b6", "in6"}), 1, {"dies"}),
       Return(0) >>

(***************************************************************************)
(* p2p_revokedist.  An authority's list reaches the server over the API,   *)
(* then an empty one, then a stranger's.                                   *)
(***************************************************************************)
RevokeDistHub ==
    [doomed1 |-> Works("doomed1", {}, {"deaf"}),
     doomed3 |-> Breach("doomed3", {}, {"ignoresList"}, {"deaf"}),
     spared4 |-> Works("spared4", {}, {"deaf", "revokesAll"}),
     doomed5 |-> Breach("doomed5", {}, {"ignoresList"}, {"deaf"}),
     undone5 |-> Breach("doomed5", {}, {"substitutes"}, {"deaf"}),
     spared6 |-> Works("spared6", {}, {"deaf", "revokesAll", "dropsSpared"})]

\* RunPeer
RevokeDistPeer(effects, reading, signal) ==
    << Arrange(2), Ask(effects), Wait(reading, signal) >>

RevokeDistIssue ==
    << Arrange(2) >>
    \o RevokeDistPeer({"doomed1"}, "b1", "doomed1")
    \o << Inconclusive({"b1"}),
          Arrange(2), Look("lost", {"losesList"}), Rung(Seen({"lost"}), 1, {"losesList"}) >>

RevokeDistPhases ==
    RevokeDistPeer({"doomed3"}, "b3", "doomed3")
    \o RevokeDistPeer({"spared4"}, "b4", "spared4")
    \o << Arrange(2), Look("noEmpty", {"refusesEmpty"}) >>
    \o RevokeDistPeer({"doomed5", "undone5"}, "b5", "doomed5")
    \o << Arrange(2), Look("rogue", {"anyIssuer"}) >>
    \o RevokeDistPeer({"spared6"}, "b6", "spared6")

RevokeDistLadder ==
    << Rung(Seen({"b3"}), 1, {"ignoresList"}),
       Inconclusive({"b4"}),
       Rung(Seen({"noEmpty"}), 3, {}),
       Rung(Seen({"b5"}), 1, {"ignoresList", "substitutes"}),
       Rung(Seen({"rogue"}), 1, {"anyIssuer"}),
       Rung(Missing({"b6"}), 1, {"revokesAll", "dropsSpared"}),
       Return(0) >>

(***************************************************************************)
(* The family.                                                             *)
(***************************************************************************)
AuthHarnesses ==
    [authgate |-> [faults |-> {"openDispatch"}, quirks |-> {}, proves |-> {},
        effects |-> AuthGateHub, program |-> AuthGateMain],
     authspoof |-> [faults |-> {"deaf", "unboundSource"}, quirks |-> {},
        proves |-> {"deaf"},
        effects |-> AuthSpoofHub, program |-> AuthSpoofMain],
     authpsk |-> [faults |-> {"deaf", "anyKey"}, quirks |-> {}, proves |-> {"deaf"},
        effects |-> AuthPskHub, program |-> AuthPskMain],
     authrelay |-> [faults |-> {"deaf", "borrowedIdentity"}, quirks |-> {},
        proves |-> {"deaf"},
        effects |-> AuthRelayHub, program |-> AuthRelayControl \o AuthRelayProbe],
     authchannel |-> [faults |-> {"deaf", "nullBinding", "dies"},
        quirks |-> {"lenientAck"}, proves |-> {"deaf", "dies"},
        effects |-> AuthChannelHub, program |-> AuthChannelMain],
     authancestor |-> [faults |-> {"deaf", "noDelivery", "offByDefault",
                                   "refusesHonest", "switchStuck", "noOptOut",
                                   "believesParent"},
        quirks |-> {},
        proves |-> {"deaf", "noDelivery", "offByDefault", "refusesHonest",
                    "switchStuck", "noOptOut"},
        effects |-> AuthAncestorHub,
        program |-> AuthAncestorTree \o AuthAncestorRelays],
     armgate |->
        LET faults == {"armsBare", "armsWithoutList", "armsEmptyList", "refusesGood",
                       "armsDeletedList", "noOptOut", "rotatesIdentity",
                       "armsWithoutRevocation", "wideOptOut", "armsDeletedRevocation"}
        IN [faults |-> faults, quirks |-> {}, proves |-> faults, effects |-> <<>>,
            program |-> ArmGateProvision \o ArmGateMigration \o ArmGateRevocation],
     authposture |->
        LET faults == {"deaf", "deafOpen", "hubOff", "hubKeyed", "hubOn",
                       "conAuthenticated", "conOpen"}
        IN [faults |-> faults, quirks |-> {}, proves |-> faults,
            effects |-> AuthPostureHub,
            program |-> AuthPostureHubs \o AuthPostureAuthenticated \o AuthPostureOpen],
     confchannel |-> [faults |-> {"deaf", "declaresWrong", "muteIo", "rawIo", "keysMute",
                                  "muteRefusal", "sendsRaw", "silentSend", "dies"},
        quirks |-> {},
        proves |-> {"deaf", "declaresWrong", "muteIo", "rawIo", "keysMute",
                    "muteRefusal", "sendsRaw", "silentSend", "dies"},
        effects |-> ConfChannelAuthServer @@ ConfChannelOpenServer,
        program |-> ConfChannelPhases \o ConfChannelLadder],
     revokedist |-> [faults |-> {"deaf", "losesList", "ignoresList", "revokesAll",
                                 "refusesEmpty", "substitutes", "anyIssuer",
                                 "dropsSpared"},
        quirks |-> {},
        proves |-> {"deaf", "losesList", "revokesAll", "refusesEmpty", "anyIssuer",
                    "dropsSpared"},
        effects |-> RevokeDistHub,
        program |-> RevokeDistIssue \o RevokeDistPhases \o RevokeDistLadder]]
=============================================================================
