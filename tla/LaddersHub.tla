----------------------------- MODULE LaddersHub -----------------------------
(***************************************************************************)
(* The hub family: what a hub tells of itself and of its peers as they     *)
(* come and go, and what it reads and writes outside of a connection.      *)
(***************************************************************************)
EXTENDS HarnessSteps

(***************************************************************************)
(* p2p_dmxdead and its control, one program with a switch.  A client must  *)
(* learn that its peer is gone, by itself or when it sends.                *)
(***************************************************************************)
DmxDeadHub ==
    [served |-> Works("served", {}, {"deaf"}),
     told   |-> Works("closed", {"served"}, {"tellsOnSend", "silent", "keepsPeer"}),
     failed |-> Works("closed", {"served"}, {"silent", "keepsPeer"})]

\* An unprompted close ends the run, and so does a peer still attached.  Main
\* may post on a connection whose close arrives after the first wait.
DmxDeadMain ==
    << Arrange(2), Ask({"served"}), Wait("served", "served"),
       Rung(Missing({"served"}), 2, {}),
       Ask({"told"}), Wait("unprompted", "closed"),
       Rung(Seen({"unprompted"}), 0, {}),
       Look("attached", {"keepsPeer"}), Rung(Seen({"attached"}), 2, {}),
       Ask({"failed"}), Wait("closed", "closed"),
       Rung(Missing({"closed"}), 1, {"silent"}),
       Return(0) >>

DmxDeadControlHub ==
    [served |-> Works("served", {}, {"deaf"}),
     got    |-> Works("got", {"served"}, {"losesMessage", "closesOnSend"}),
     closed |-> Breach("closed", {"served"}, {"closesOnSend"}, {})]

\* The close is read once, when the message has arrived or is given up: a send
\* that closes the connection later than that is not looked for.
DmxDeadControl ==
    << Arrange(2), Ask({"served"}), Wait("served", "served"),
       Rung(Missing({"served"}), 2, {}),
       Ask({"got", "closed"}), Wait("got", "got"), Poll("shut", "closed"),
       Rung(Missing({"got"}) \cup Seen({"shut"}), 1,
            {"losesMessage", "closesOnSend"}),
       Return(0) >>

(***************************************************************************)
(* p2p_restartkeyx.  A server is replaced by another under a client that   *)
(* restarts its connection by itself.  The servers sign the same address,  *)
(* and g_nServer says which of them a login and a body count for.          *)
(***************************************************************************)
RestartKeyXHub ==
    [login1 |-> Effect(<<"login1", "none", "login2">>, {}, {"deaf"}, {}),
     round1 |-> Effect(<<"round1", "none", "none">>, {"login1"}, {}, {}),
     login2 |-> Effect(<<"login1", "none", "login2">>, {"round1"}, {"keepsKeyX"}, {}),
     round2 |-> Effect(<<"none", "none", "round2">>, {"login2"}, {}, {})]

\* StopServer closes the first server before the second one is started; the
\* client never restarts a connection that is still up.
RestartKeyXMain ==
    << Arrange(2), Ask({"login1", "round1"}),
       Wait("round1", "round1"), Poll("login1", "login1"),
       Inconclusive({"round1", "login1"}),
       Turn(2), Shut, Turn(3), Arrange(2),
       Ask({"login2", "round2"}),
       Wait("round2", "round2"), Poll("login2", "login2"),
       Rung(Missing({"round2", "login2"}), 1, {"keepsKeyX"}),
       Return(0) >>

(***************************************************************************)
(* p2p_hubsnap.  The snapshot a monitor polls: at rest, with three sockets *)
(* connected, with four messages parked on a pump, and after.  Everything  *)
(* is read before the ladder is walked.                                    *)
(***************************************************************************)
HubSnapHub ==
    [dialled  |-> Works("dialled", {}, {"deaf"}),
     accepted |-> Works("accepted", {"dialled"}, {"miscountsAccepted"}),
     queOther |-> Breach("queOther", {"dialled"}, {"mixesCounts"}, {}),
     parked   |-> Works("parked", {}, {"noPump"}),
     queRose  |-> Works("queRose", {"parked"}, {"hidesQueue"}),
     queFell  |-> Works("queFell", {"queRose"}, {"keepsQueue"})]

HubSnapReads ==
    << Arrange(2),
       Look("absent", {"noSnapshot"}), Look("restless", {"countsAtRest"}),
       Look("noMax", {"noPumpsMax"}),
       Ask({"dialled", "accepted", "queOther"}), Rest,
       Poll("dialled", "dialled"), Poll("accepted", "accepted"),
       Poll("queOther", "queOther"),
       Ask({"parked"}), Wait("parked", "parked"),
       Ask({"queRose"}), Rest, Poll("queRose", "queRose"),
       Ask({"queFell"}), Rest, Poll("queFell", "queFell") >>

HubSnapLadder ==
    << Rung(Seen({"absent"}), 1, {"noSnapshot"}),
       Rung(Seen({"restless"}), 1, {"countsAtRest"}),
       Rung(Seen({"noMax"}), 1, {"noPumpsMax"}),
       Inconclusive({"dialled"}),
       Rung(Missing({"accepted"}), 1, {"miscountsAccepted"}),
       Rung(Seen({"queOther"}), 1, {"mixesCounts"}),
       Inconclusive({"parked"}),
       Rung(Missing({"queRose"}), 1, {"hidesQueue"}),
       Rung(Missing({"queFell"}), 1, {"keepsQueue"}),
       Return(0) >>

(***************************************************************************)
(* p2p_vnetmount.  Two networks and a hub of one mounted in the other: a   *)
(* ping goes down through the mount, the pong comes back, and a message    *)
(* for nobody costs no connection.                                         *)
(***************************************************************************)
VNetMountHub ==
    [hello  |-> Works("hello", {}, {"deaf"}),
     ping   |-> Works("ping", {"hello"}, {"dropsMounted"}),
     pong   |-> Works("pong", {"ping"}, {"losesReturn"}),
     closed |-> Breach("closed", {"hello"}, {"closesOnLost"}, {}),
     again  |-> Works("again", {"pong"}, {"closesOnLost"})]

VNetMountMain ==
    << Arrange(2), Ask({"hello"}), Wait("b1", "hello"), Inconclusive({"b1"}),
       Ask({"ping", "pong"}), Wait("b2", "ping"), Wait("b3", "pong"),
       Ask({"closed"}), Rest,
       Ask({"again"}), Wait("b5", "again"), Poll("nCloses", "closed"),
       Rung(Missing({"b2", "b3", "b5"}) \cup Seen({"nCloses"}), 1,
            {"dropsMounted", "losesReturn", "closesOnLost"}),
       Return(0) >>

(***************************************************************************)
(* p2p_resolve.  A client dials a literal, a name, and a name that no      *)
(* resolver may know, each with hubs of its own.                           *)
(***************************************************************************)
ResolveHub ==
    [literal |-> Works("accepted", {}, {"deaf"}),
     name    |-> Works("accepted", {}, {"noResolver"}),
     bogus   |-> Breach("accepted", {}, {"resolvesAll"}, {})]

\* PollAccepted asks for the count until it is one or the time is up.
DialAndCount(dial, counted) ==
    << Clear({"accepted"}), Arrange(2), Ask({dial}), Wait(counted, "accepted"), Shut >>

ResolveMain ==
    DialAndCount("literal", "xLiteral")
    \o << Inconclusive({"xLiteral"}) >>
    \o DialAndCount("name", "xName")
    \o DialAndCount("bogus", "xBogus")
    \o << Rung(Missing({"xName"}), 1, {"noResolver"}),
          Rung(Seen({"xBogus"}), 3, {}),
          Return(0) >>

(***************************************************************************)
(* p2p_servicedialog and p2p_imagegen ask and are answered, without hubs.  *)
(* A failed check is counted and the run goes on.                          *)
(***************************************************************************)
ServiceDialogFaults == {"wrongPolicy", "dialogInTest", "lostText", "misreadsConfig"}

\* One look per test function.
ServiceDialogMain ==
    << Look("policy", {"wrongPolicy"}), Look("live", {"dialogInTest"}),
       Look("sink", {"lostText"}), Look("config", {"misreadsConfig"}),
       Rung(Seen({"policy", "live", "sink", "config"}), 1, ServiceDialogFaults),
       Return(0) >>

ImageGenFaults ==
    {"stampsOld", "movedGeneration", "refusesNow", "acceptsOld", "acceptsUnknown",
     "acceptsSwapped", "refusesStored"}

ImageGenMain ==
    << Arrange(2),
       Look("native", {"stampsOld"}), Look("moved", {"movedGeneration"}),
       Look("now", {"refusesNow"}), Look("old", {"acceptsOld"}),
       Look("unknown", {"acceptsUnknown"}), Look("swapped", {"acceptsSwapped"}),
       Look("stored", {"refusesStored"}),
       Rung(Seen({"native", "moved", "now", "old", "unknown", "swapped", "stored"}), 1,
            ImageGenFaults),
       Return(0) >>

(***************************************************************************)
(* The family.                                                             *)
(***************************************************************************)
HubHarnesses ==
    [dmxdead |-> [faults |-> {"deaf", "silent", "keepsPeer"}, quirks |-> {"tellsOnSend"},
        proves |-> {"deaf", "silent"},
        effects |-> DmxDeadHub, program |-> DmxDeadMain],
     dmxdeadControl |-> [faults |-> {"deaf", "losesMessage", "closesOnSend"},
        quirks |-> {}, proves |-> {"deaf", "losesMessage", "closesOnSend"},
        effects |-> DmxDeadControlHub, program |-> DmxDeadControl],
     restartkeyx |-> [faults |-> {"deaf", "keepsKeyX"}, quirks |-> {},
        proves |-> {"deaf", "keepsKeyX"},
        effects |-> RestartKeyXHub, program |-> RestartKeyXMain],
     hubsnap |->
        LET late   == {"mixesCounts"}
            others == {"deaf", "noSnapshot", "countsAtRest", "noPumpsMax",
                       "miscountsAccepted", "noPump", "hidesQueue", "keepsQueue"}
        IN [faults |-> late \cup others, quirks |-> {}, proves |-> others,
            effects |-> HubSnapHub, program |-> HubSnapReads \o HubSnapLadder],
     vnetmount |-> [faults |-> {"deaf", "dropsMounted", "losesReturn", "closesOnLost"},
        quirks |-> {}, proves |-> {"deaf", "dropsMounted", "losesReturn", "closesOnLost"},
        effects |-> VNetMountHub, program |-> VNetMountMain],
     resolve |-> [faults |-> {"deaf", "noResolver", "resolvesAll"}, quirks |-> {},
        proves |-> {"deaf", "noResolver"},
        effects |-> ResolveHub, program |-> ResolveMain],
     servicedialog |-> [faults |-> ServiceDialogFaults, quirks |-> {},
        proves |-> ServiceDialogFaults,
        effects |-> <<>>, program |-> ServiceDialogMain],
     imagegen |-> [faults |-> ImageGenFaults, quirks |-> {}, proves |-> ImageGenFaults,
        effects |-> <<>>, program |-> ImageGenMain]]
=============================================================================
