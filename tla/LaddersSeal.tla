---------------------------- MODULE LaddersSeal -----------------------------
(***************************************************************************)
(* The sealing family: who can read a body on its way, and who can write   *)
(* in whose name.  In these harnesses a wait whose outcome main drops, and *)
(* the sleep that follows it, is a Rest.                                   *)
(***************************************************************************)
EXTENDS HarnessSteps

(***************************************************************************)
(* p2p_sealdefault.  The seal itself, and what a hub defaults to.  A failed*)
(* check is counted and the run goes on.                                   *)
(***************************************************************************)
SealDefaultFaults ==
    {"badRoundTrip", "badTwoReaders", "opensToStranger", "acceptsEditedSlot",
     "offByDefault", "sealsToNobody", "wideOptOut"}

SealDefaultMain ==
    << Arrange(2),
       Look("roundTrip", {"badRoundTrip"}),
       Look("twoReaders", {"badTwoReaders"}),
       Look("stranger", {"opensToStranger"}),
       Look("edited", {"acceptsEditedSlot"}),
       Look("default", {"offByDefault"}),
       Arrange(2), Look("refuse", {"sealsToNobody"}),
       Look("optOut", {"wideOptOut"}),
       Rung(Seen({"roundTrip", "twoReaders", "stranger", "edited", "default",
                  "refuse", "optOut"}), 1, SealDefaultFaults),
       Return(0) >>

(***************************************************************************)
(* p2p_sealhop.  A body goes from Alice to Carol through a hub that looks  *)
(* at everything it forwards; first in the clear, as the control.          *)
(***************************************************************************)
SealHopHub ==
    [seen     |-> Works("midSawMarker", {}, {"deaf", "blindMiddle"}),
     plain    |-> Works("carolPlain", {"seen"}, {}),
     unseen   |-> Breach("carolPlain", {}, {"blindMiddle"}, {"deaf"}),
     leak     |-> Breach("midSawSecret", {}, {"readableHop"}, {}),
     opened   |-> Works("carolSealed", {}, {"readableHop", "cannotOpen"}),
     openedLeak |-> Breach("carolSealed", {"leak"}, {"readableHop"}, {"cannotOpen"})]

\* On_P2PeerBCast compares what Carol opened before it sets her event.
SealHopClear ==
    << Arrange(2), Ask({"seen", "plain", "unseen"}),
       Wait("plain", "carolPlain"), Inconclusive({"plain"}),
       Poll("marker", "midSawMarker"), Inconclusive({"marker"}) >>

SealHopSealed ==
    << Arrange(2), Ask({"leak", "opened", "openedLeak"}),
       Wait("arrived", "carolSealed"),
       Poll("secret", "midSawSecret"), Rung(Seen({"secret"}), 1, {"readableHop"}),
       Rung(Missing({"arrived"}), 1, {"cannotOpen"}),
       Look("wrong", {"wrongBody"}), Rung(Seen({"wrong"}), 1, {"wrongBody"}),
       Return(0) >>

(***************************************************************************)
(* p2p_sealwire.  The middle looks at the whole frame, for a body of one   *)
(* packet and for a large one.  What it saw is settled once Carol has the  *)
(* body.  A failure is kept in nExit and the run goes on.                  *)
(***************************************************************************)
SealWireHub ==
    [small |-> Works("carolGot", {}, {"deaf"}),
     large |-> Works("carolGot", {}, {"losesLarge"})]

\* SendOne
SealWireSend(effect, got) ==
    << Clear({"carolGot"}), Ask({effect}), Wait(got, "carolGot") >>

\* An unsealed body is inconclusive, not a failure: the control comes first.
SealWireMain ==
    << Arrange(2) >>
    \o SealWireSend("small", "got1")
    \o << Look("spoilt", {"inexact", "unsealed", "hiddenAddress"}),
          Rung(Missing({"got1"}) \cup Seen({"spoilt"}), 3, {}),
          Look("plain1", {"leaks"}),
          Look("fat", {"copies"}) >>
    \o SealWireSend("large", "got2")
    \o << Look("spoilt2", {"inexactLarge"}),
          Look("plain2", {"leaksLarge"}),
          Rung(Seen({"plain1", "fat", "spoilt2", "plain2"}) \cup Missing({"got2"}), 1,
               {"leaks", "copies", "losesLarge", "inexactLarge", "leaksLarge"}),
          Return(0) >>

(***************************************************************************)
(* p2p_e2ewaive.  Whether a hub may waive sealing to a hub of its own      *)
(* process, and that it does not unless it is told to.  RunChain starts    *)
(* from a count of zero and destroys its hubs before it returns.           *)
(***************************************************************************)
E2eWaiveHub ==
    [carol1 |-> Works("ready", {}, {"deaf"}),
     alice1 |-> Works("ready", {"carol1"}, {}),
     body1  |-> Breach("recv", {"alice1"}, {"downgrades"}, {}),
     carol2 |-> Works("ready", {}, {"deaf"}),
     alice2 |-> Works("ready", {"carol2"}, {}),
     body2  |-> Works("recv", {"alice2"}, {"noWaiver"})]

E2eWaiveChain(carol, alice, body, n) ==
    << Clear({"ready", "recv"}), Arrange(2),
       Ask({carol}), Wait("carol" \o n, "ready"), Rung(Missing({"carol" \o n}), 2, {}),
       Arrange(2),
       Ask({alice}), Wait("alice" \o n, "ready"), Rung(Missing({"alice" \o n}), 2, {}),
       Look("stranger" \o n, {"wrongPredicate"}),
       Ask({body}), Rest, Poll("recv" \o n, "recv"), Shut >>

E2eWaiveMain ==
    << Arrange(2),
       Arrange(2), Look("predicate", {"wrongPredicate"}),
       Look("default", {"waivesByDefault"}),
       Look("flat", {"wrongFlatC"}),
       Look("setter", {"stuckSetter"}),
       Arrange(2) >>
    \o E2eWaiveChain("carol1", "alice1", "body1", "1")
    \o E2eWaiveChain("carol2", "alice2", "body2", "2")
    \o << Rung(Seen({"predicate", "default", "flat", "setter", "stranger1", "stranger2",
                     "recv1"}) \cup Missing({"recv2"}), 1,
               {"wrongPredicate", "waivesByDefault", "wrongFlatC", "stuckSetter",
                "downgrades", "noWaiver"}),
          Return(0) >>

(***************************************************************************)
(* p2p_gcmdirection.  One key per direction and a budget of seals, on the  *)
(* cypher alone and then on a link.                                        *)
(***************************************************************************)
GcmDirectionHub ==
    [up   |-> Works("serverGot", {}, {"deaf"}),
     down |-> Works("clientGot", {"up"}, {"oneWay"})]

\* CypherPhases
GcmDirectionCypher ==
    << Look("peer", {"cannotOpen"}), Look("self", {"opensOwn"}),
       Look("backwards", {"opensBackwards"}), Look("budget", {"noCeiling"}),
       Look("reset", {"keepsCount"}), Look("loop", {"noLoopback"}) >>

GcmDirectionFaults ==
    {"cannotOpen", "opensOwn", "opensBackwards", "noCeiling", "keepsCount",
     "noLoopback", "deaf", "oneWay"}

\* A failed setup returns 2 over the checks that failed before it.
GcmDirectionMain ==
    << Arrange(2), Ask({"up", "down"}),
       Wait("up", "serverGot"), Wait("down", "clientGot"),
       Rung(Seen({"peer", "self", "backwards", "budget", "reset", "loop"})
            \cup Missing({"up", "down"}), 1, GcmDirectionFaults),
       Return(0) >>

(***************************************************************************)
(* p2p_reportsign.  A report that a message was not deliverable is taken   *)
(* from the hub that signed it, and not from the one that forwards it.     *)
(* NoteReport charges a report to the phase main is in.                    *)
(***************************************************************************)
ReportSignReport == <<"report", "forged">>

ReportSignHub ==
    [midUp   |-> Works("midUp", {}, {"deaf"}),
     leafUp  |-> Works("leafUp", {"midUp"}, {}),
     control |-> Works("control", {"leafUp"}, {"noDelivery"}),
     honest  |-> Effect(ReportSignReport, {"leafUp"}, {"refusesReports"}, {}),
     forged  |-> Effect(ReportSignReport, {"leafUp"}, {}, {"believesForwarder"})]

ReportSignTree ==
    << Arrange(2), Ask({"midUp"}),
       Wait("mid", "midUp"), Rung(Missing({"mid"}), 2, {}),
       Arrange(2), Ask({"leafUp"}),
       Wait("leaf", "leafUp"), Rung(Missing({"leaf"}), 2, {}),
       Look("notDefault", {"offByDefault"}), Rung(Seen({"notDefault"}), 2, {}) >>

ReportSignReports ==
    << Ask({"control"}),
       Wait("control", "control"), Inconclusive({"control"}),
       Ask({"honest"}),
       Wait("report", "report"), Rung(Missing({"report"}), 4, {"refusesReports"}),
       Look("source", {"wrongSource"}), Rung(Seen({"source"}), 5, {"wrongSource"}),
       Turn(2), Arrange(2), Ask({"forged"}),
       Wait("forged", "forged"), Rung(Seen({"forged"}), 1, {"believesForwarder"}),
       Return(0) >>

(***************************************************************************)
(* p2p_sealbcast.  A tree of three: what the carrier in the middle carries,*)
(* what it can read, what arrives below it, and whether a refusal costs    *)
(* the connection.  The flags are read phases after they are set.  A leaf  *)
(* that is reached late by phase 3's broadcast is taken for one that the   *)
(* attested broadcast of phase 4 has reached: a pass does not prove that.  *)
(***************************************************************************)
SealBcastHub ==
    [midUp   |-> Works("midUp", {}, {"deaf"}),
     leafUp  |-> Works("leafUp", {"midUp"}, {}),
     midUni1 |-> Works("midUni", {"leafUp"}, {"noDelivery"}),
     plain1  |-> Breach("uniPlain", {"midUni1"}, {"plainUni"}, {}),
     uni1    |-> Works("leafUni", {"midUni1"}, {}),
     short2  |-> Works("leafShort", {"leafUp"}, {"losesShort"}),
     plain2  |-> Breach("shortPlain", {"leafUp"}, {"plainShort"}, {}),
     bcast3  |-> Breach("midBcast", {"leafUp"}, {"leaksBcast"}, {}),
     below3  |-> Breach("leafBcast", {"bcast3"}, {"leaksBcast"}, {}),
     close3  |-> Breach("closed", {"leafUp"}, {"dropsOnRefusal"}, {}),
     bcast4  |-> Works("leafBcast", {"leafUp"}, {"refusesAttested"}),
     close4  |-> Breach("closed", {"leafUp"}, {"refusesAttested"}, {}),
     bcast5  |-> Works("openBcast", {"leafUp"}, {"noExemption"}),
     midUni5 |-> Works("midUni", {"leafUp"}, {}),
     plain5  |-> Breach("uniPlain", {"midUni5"}, {"wideExemption"}, {}),
     uni5    |-> Works("leafUni", {"midUni5"}, {}),
     up6a    |-> Breach("midUcast", {"leafUp"}, {"leaksUcast"}, {}),
     top6a   |-> Breach("topUcast", {"up6a"}, {"leaksUcast"}, {}),
     close6  |-> Breach("closed", {"leafUp"}, {"dropsOnRefusal"}, {}),
     up6b    |-> Works("openUcast", {"leafUp"}, {"noUpExemption"})]

SealBcastTree ==
    << Arrange(2), Ask({"midUp"}),
       Wait("mid", "midUp"), Rung(Missing({"mid"}), 2, {}),
       Arrange(2), Ask({"leafUp"}),
       Wait("leaf", "leafUp"), Rung(Missing({"leaf"}), 2, {}),
       Ask({"midUni1", "plain1", "uni1"}),
       Wait("uni", "leafUni"), Poll("carried", "midUni"),
       Inconclusive({"uni", "carried"}) >>

\* One body, then what the carrier did with one broadcast, sealed and opted out.
SealBcastCarried ==
    << Ask({"short2", "plain2"}), Rest,
       Clear({"closed"}), Ask({"bcast3", "below3", "close3"}), Rest,
       Poll("carried3", "midBcast"), Poll("closed3", "closed"),
       Clear({"closed"}), Ask({"bcast4", "close4"}), Rest,
       Poll("arrived4", "leafBcast"), Poll("closed4", "closed"),
       Poll("plain1", "uniPlain") >>

\* The narrow opt-outs: broadcasts only, then upcasts only.
SealBcastExempt ==
    << Clear({"midUni", "uniPlain", "leafUni", "leafBcast", "midBcast", "closed"}),
       Ask({"bcast5"}), Rest,
       Ask({"midUni5", "plain5", "uni5"}), Rest,
       Poll("closed5", "closed"), Poll("open5", "openBcast"),
       Poll("carried5", "midUni"), Poll("plain5", "uniPlain"), Poll("uni5", "leafUni"),
       Clear({"closed"}), Ask({"up6a", "top6a", "close6"}), Rest,
       Poll("carried6", "midUcast"), Poll("top6", "topUcast"),
       Clear({"midUcast", "topUcast"}),
       Ask({"up6b"}), Rest,
       Poll("open6", "openUcast"), Poll("closed6", "closed") >>

SealBcastFaults ==
    {"plainUni", "wrongBody", "losesShort", "plainShort", "leaksBcast",
     "dropsOnRefusal", "refusesAttested", "noExemption", "wideExemption",
     "leaksUcast", "noUpExemption"}

SealBcastLadder ==
    << Look("wrong1", {"wrongBody"}),
       Poll("short", "leafShort"), Poll("plain2", "shortPlain"),
       Rung(Seen({"plain1", "wrong1", "plain2", "carried3", "closed3", "closed4",
                  "plain5", "closed5", "carried6", "top6", "closed6"})
            \cup Missing({"short", "arrived4", "open5", "carried5", "uni5", "open6"}), 1,
            SealBcastFaults),
       Return(0) >>

(***************************************************************************)
(* The family.                                                             *)
(***************************************************************************)
SealHarnesses ==
    [sealdefault |-> [faults |-> SealDefaultFaults, quirks |-> {},
        proves |-> SealDefaultFaults,
        effects |-> <<>>, program |-> SealDefaultMain],
     sealhop |-> [faults |-> {"deaf", "blindMiddle", "readableHop", "cannotOpen",
                              "wrongBody"},
        quirks |-> {},
        proves |-> {"deaf", "blindMiddle", "readableHop", "cannotOpen", "wrongBody"},
        effects |-> SealHopHub, program |-> SealHopClear \o SealHopSealed],
     sealwire |->
        LET faults == {"deaf", "inexact", "unsealed", "hiddenAddress", "leaks",
                       "copies", "losesLarge", "inexactLarge", "leaksLarge"}
        IN [faults |-> faults, quirks |-> {}, proves |-> faults,
            effects |-> SealWireHub, program |-> SealWireMain],
     e2ewaive |-> [faults |-> {"deaf", "wrongPredicate", "waivesByDefault",
                               "wrongFlatC", "stuckSetter", "downgrades", "noWaiver"},
        quirks |-> {},
        proves |-> {"deaf", "wrongPredicate", "waivesByDefault", "wrongFlatC",
                    "stuckSetter", "noWaiver"},
        effects |-> E2eWaiveHub, program |-> E2eWaiveMain],
     gcmdirection |-> [faults |-> GcmDirectionFaults, quirks |-> {},
        proves |-> GcmDirectionFaults,
        effects |-> GcmDirectionHub,
        program |-> GcmDirectionCypher \o GcmDirectionMain],
     reportsign |-> [faults |-> {"deaf", "noDelivery", "offByDefault",
                                 "refusesReports", "wrongSource", "believesForwarder"},
        quirks |-> {},
        proves |-> {"deaf", "noDelivery", "offByDefault", "refusesReports",
                    "wrongSource"},
        effects |-> ReportSignHub,
        program |-> ReportSignTree \o ReportSignReports],
     sealbcast |-> [faults |-> SealBcastFaults \cup {"deaf", "noDelivery"},
        quirks |-> {},
        proves |-> {"deaf", "noDelivery", "wrongBody", "losesShort",
                    "noExemption", "noUpExemption"},
        effects |-> SealBcastHub,
        program |-> SealBcastTree \o SealBcastCarried \o SealBcastExempt
                    \o SealBcastLadder]]
=============================================================================
