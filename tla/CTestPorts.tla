----------------------------- MODULE CTestPorts -----------------------------
(***************************************************************************)
(* CMakeLists.txt registers the harnesses with CTest, which runs several   *)
(* at a time; a RESOURCE_LOCK keeps two apart.  What a test locks is in    *)
(* CMakeLists.txt; which ports it binds is in its source.                  *)
(*                                                                         *)
(* The tests are those that bind a port other than the one they are given, *)
(* and those another test's ports may reach.                               *)
(***************************************************************************)
EXTENDS Integers, FiniteSets, TLC

CONSTANT Jobs    \* tests CTest runs at a time, ctest -j

VARIABLES waiting, running

vars == <<waiting, running>>

\* A test that is given a port, or none (0), and what it binds and locks.
Test(port, binds, locks) == [port |-> port, binds |-> binds, locks |-> locks]

\* mscs_mesh_test sets no property; the ports are constants of the sources.
MeshTests ==
    "wsa_mesh" :> Test(0, {7801}, {}) @@ "mix_con" :> Test(0, {7811}, {}) @@
    "mix_con3" :> Test(0, {7821}, {})

AlexTest == "alex_test" :> Test(7811, {7811}, {7811})

\* The interior hub is a client of its parent and a service to its child.
AuthAncestor == "p2p_authancestor" :> Test(7820, {7820, 7821}, {7820, 7821})
SealBcast    == "p2p_sealbcast" :> Test(7846, {7846, 7847}, {7846})
UcastGate    == "p2p_ucastgate" :> Test(7860, {7860, 7861}, {7860})

\* The relay listens on the port it is given, the server on the next.
AuthRelay == "p2p_authrelay" :> Test(7816, {7816, 7817}, {7816})

ListenScope == "p2p_listenscope" :> Test(7847, {7847}, {7847})
SealWire    == "p2p_sealwire" :> Test(7817, {7817}, {7817})

Tests ==
    MeshTests @@ AlexTest @@ AuthAncestor @@ SealBcast @@ UcastGate @@ AuthRelay @@
    ListenScope @@ SealWire

-----------------------------------------------------------------------------
Init == waiting = DOMAIN Tests /\ running = {}

\* CTest starts a test when there is a job for it and nobody holds its locks.
Start(t) ==
    /\ t \in waiting /\ Cardinality(running) < Jobs
    /\ \A other \in running : Tests[t].locks \cap Tests[other].locks = {}
    /\ waiting' = waiting \ {t} /\ running' = running \cup {t}

Finish(t) ==
    /\ t \in running
    /\ running' = running \ {t}
    /\ UNCHANGED waiting

Next == \E t \in DOMAIN Tests : Start(t) \/ Finish(t)

Spec == Init /\ [][Next]_vars /\ WF_vars(Next)

-----------------------------------------------------------------------------
GivenPort == {t \in running : Tests[t].port # 0}

\* README.md:97: the socket harnesses take a port and hold a lock of its name, so
\* CTest never runs two on the same port.  That is about every port they bind.
NeverOnOnePort ==
    \A t \in GivenPort : \A other \in GivenPort \ {t} :
        Tests[t].binds \cap Tests[other].binds = {}
=============================================================================
