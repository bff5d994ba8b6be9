---------------------------- MODULE LaddersMesh -----------------------------
(***************************************************************************)
(* The transport meshes: a server and a client per transport in one        *)
(* process, each client posting one message when its login is              *)
(* acknowledged.  They are the positive controls of the gates.             *)
(*                                                                         *)
(* The server counts messages and not transports: a build that delivered   *)
(* one message twice would be taken for one that serves both.  No build    *)
(* here does that, and the README says so.                                 *)
(***************************************************************************)
EXTENDS HarnessSteps

Deaf(transport) == "deaf" \o transport

(***************************************************************************)
(* On_ConLoginAck posts, On_P2PeerBCast counts, and the message that makes *)
(* the count kExpected, whichever arrives last, sets g_hDoneEvent.         *)
(***************************************************************************)
MeshHub(transports) ==
    [t \in transports |-> Works("arrived" \o t, {}, {Deaf(t)})]
    @@ ("done" :> Works("g_hDoneEvent", transports, {}))

\* main.  A failed setup is fatal: exit code 1.
MeshMain(transports) ==
    << Arrange(1), Ask(transports \cup {"done"}),
       Wait("done", "g_hDoneEvent"), Inconclusive({"done"}),
       Return(0) >>

Mesh(transports) ==
    LET deaf == {Deaf(t) : t \in transports}
    IN [faults |-> deaf, quirks |-> {}, proves |-> deaf,
        effects |-> MeshHub(transports), program |-> MeshMain(transports)]

WsaMesh    == Mesh({"Wsa"})
PipeMesh   == Mesh({"Pipe"})
DmxMesh    == Mesh({"Dmx"})
Com232Mesh == Mesh({"232"})
MixCon     == Mesh({"Wsa", "Pipe"})
MixCon3    == Mesh({"Wsa", "Pipe", "Dmx"})

MeshHarnesses ==
    [wsa_mesh |-> WsaMesh, pipe_mesh |-> PipeMesh, dmx_mesh |-> DmxMesh,
     com232_mesh |-> Com232Mesh, mix_con |-> MixCon, mix_con3 |-> MixCon3]
=============================================================================
