------------------------------ MODULE KeyRotate ------------------------------
(***************************************************************************)
(* p2p_keyrotate: can a peer's key be replaced, and can one be withdrawn,  *)
(* on a running deployment?                                                *)
(*                                                                         *)
(* Four clients in a row claim one address: with the old key, with the new *)
(* one, with the old one after it was revoked on the running server, with  *)
(* the new one again.  Main waits for each client's message or for a       *)
(* timeout, closes the client and sleeps 300 ms so that the server drops   *)
(* its side: a hub refuses a second connection from an address it already  *)
(* holds.  The server works at its own pace all the while.                 *)
(***************************************************************************)
EXTENDS Integers

CONSTANT Builds     \* the builds of the libraries to run against

Features  == {"first",     \* the first key listed for a peer logs in
              "second",    \* so does the second
              "revokes",   \* a reloaded revocation list refuses what it names
              "spares"}    \* and refuses nothing else
\* A build and a machine: "timely", every wait for a message is long enough;
\* "prompt", so is Sleep(300) for the server to drop what was closed.
AllBuilds == [Features \union {"timely", "prompt"} -> BOOLEAN]

ASSUME BuildsAssumption == Builds \subseteq AllBuilds

VARIABLES build,     \* the build linked with
          pc,        \* main: what it does next
          phase,     \* main: the client it runs, 1 to 4
          arrived,   \* main: b1 to b4
          exit,      \* main: the process exit code
          open,      \* the clients whose hub is open
          conn,      \* the server's side of each client's connection
          body,      \* each client's message
          event,     \* g_hPhase1 to g_hPhase4
          reloaded   \* the running server has the revocation of the old key

mainVars   == <<pc, phase, arrived, exit>>
serverVars == <<conn, body, event>>
vars       == <<build, mainVars, open, serverVars, reloaded>>

Client == 1..4
OldKey == {1, 3}                    \* the clients that present the old key

\* What a pass is evidence of even when a wait is too short.
GoodBuilds == {b \in Builds : b["first"] /\ b["second"] /\ b["spares"]}
FullBuilds == {b \in Builds : \A f \in Features : b[f]}

Gate == INSTANCE GateVerdict WITH Good <- GoodBuilds

Init ==
    /\ build \in Builds
    /\ pc = "setup" /\ phase = 1 /\ exit = Gate!Running
    /\ arrived = [c \in Client |-> FALSE]
    /\ open = {} /\ reloaded = FALSE
    /\ conn = [c \in Client |-> "none"] /\ body = [c \in Client |-> "none"]
    /\ event = [c \in Client |-> FALSE]

-----------------------------------------------------------------------------
(* Main *)

Timely == build["timely"]
Prompt == build["prompt"]

Return(code) == pc' = "done" /\ exit' = code /\ UNCHANGED <<phase, arrived>>

\* Provisioning, the server hub and its listener.
SetUp ==
    /\ pc = "setup"
    /\ \/ pc' = "spawn" /\ UNCHANGED <<phase, arrived, exit>>
       \/ Return(Gate!Setup)
    /\ UNCHANGED <<build, open, serverVars, reloaded>>

\* RunPhase up to the dial.
Spawn ==
    /\ pc = "spawn"
    /\ \/ /\ pc' = "await" /\ UNCHANGED <<phase, arrived, exit>>
          /\ open' = open \union {phase} /\ conn' = [conn EXCEPT ![phase] = "dialled"]
       \/ Return(Gate!Setup) /\ UNCHANGED <<open, conn>>
    /\ UNCHANGED <<build, body, event, reloaded>>

\* Nothing more will come of this client's dial.
Quiet(c) == conn[c] = "refused" \/ (conn[c] = "held" /\ body[c] = "handled")

\* WaitForSingleObject on the phase's event, which resets itself.
Await ==
    /\ pc = "await" /\ pc' = "close"
    /\ event[phase] \/ (Timely => Quiet(phase))
    /\ arrived' = [arrived EXCEPT ![phase] = event[phase]]
    /\ event' = [event EXCEPT ![phase] = FALSE]
    /\ UNCHANGED <<build, phase, exit, open, conn, body, reloaded>>

\* CloseHub, whether the message arrived or not.
Close ==
    /\ pc = "close" /\ pc' = "sleep"
    /\ open' = open \ {phase}
    /\ UNCHANGED <<build, phase, arrived, exit, serverVars, reloaded>>

\* Sleep(300), "let the server drop its side", and on to the next phase or to
\* the verdict: phases 1 and 2 must deliver for there to be a next one.
Sleep ==
    /\ pc = "sleep"
    /\ Prompt => conn[phase] = "gone"
    /\ \/ phase = 1 /\ arrived[1] /\ phase' = 2 /\ pc' = "spawn"
       \/ phase = 2 /\ arrived[2] /\ phase' = 3 /\ pc' = "revoke"
       \/ phase = 3 /\ phase' = 4 /\ pc' = "spawn"
       \/ (phase = 4 \/ (phase < 3 /\ ~arrived[phase])) /\ phase' = phase /\ pc' = "verdict"
    /\ UNCHANGED <<build, arrived, exit, open, serverVars, reloaded>>

\* AppendRevocationList and then ReloadRevocationList on the running hub.
Revoke ==
    /\ pc = "revoke"
    /\ \/ /\ pc' = "spawn" /\ UNCHANGED <<phase, arrived, exit>>
          /\ reloaded' = TRUE
       \/ Return(Gate!Setup) /\ UNCHANGED reloaded
    /\ UNCHANGED <<build, open, serverVars>>

\* Mutant: a silent server is taken for one that revokes.
ExitCodeNoLiveness ==
    IF ~arrived[1] THEN Gate!Inconclusive
    ELSE IF ~arrived[2] \/ arrived[3] THEN Gate!Fail
    ELSE Gate!Pass

\* Mutant: the two keys are confused.
ExitCodeSwapped ==
    IF ~arrived[1] THEN Gate!Inconclusive
    ELSE IF ~arrived[2] \/ ~arrived[3] THEN Gate!Fail
    ELSE IF ~arrived[4] THEN Gate!Inconclusive
    ELSE Gate!Pass

ExitCode ==
    IF ~arrived[1] THEN Gate!Inconclusive
    ELSE IF ~arrived[2] \/ arrived[3] THEN Gate!Fail
    ELSE IF ~arrived[4] THEN Gate!Inconclusive
    ELSE Gate!Pass

Verdict ==
    /\ pc = "verdict"
    /\ Return(ExitCode)
    /\ UNCHANGED <<build, open, serverVars, reloaded>>

Main == SetUp \/ Spawn \/ Await \/ Close \/ Sleep \/ Revoke \/ Verdict

-----------------------------------------------------------------------------
(* The server hub and the clients *)

Honours(c) ==
    IF c \in OldKey THEN build["first"] /\ ~(reloaded /\ build["revokes"])
                    ELSE build["second"] /\ (reloaded => build["spares"])

\* The signed login of a client, accepted if its key is and the server holds
\* no connection from the address.
Login(c) ==
    /\ conn[c] = "dialled"
    /\ conn' = [conn EXCEPT ![c] =
                   IF Honours(c) /\ \A d \in Client : conn[d] # "held" THEN "held" ELSE "refused"]
    /\ UNCHANGED <<build, mainVars, open, body, event, reloaded>>

\* On_ConLoginAck of a client that is still open posts its message.
LoginAck(c) ==
    /\ conn[c] = "held" /\ body[c] = "none" /\ c \in open
    /\ body' = [body EXCEPT ![c] = "sent"]
    /\ UNCHANGED <<build, mainVars, open, conn, event, reloaded>>

\* Mutant: the body does not tell the phases apart.
HandleAny(c) ==
    /\ conn[c] = "held" /\ body[c] = "sent"
    /\ body' = [body EXCEPT ![c] = "handled"]
    /\ event' = [d \in Client |-> event[d] \/ (d \in OldKey <=> c \in OldKey)]
    /\ UNCHANGED <<build, mainVars, open, conn, reloaded>>

\* On_P2PeerBCast of the server sets the event the body names.
Handle(c) ==
    /\ conn[c] = "held" /\ body[c] = "sent"
    /\ body' = [body EXCEPT ![c] = "handled"]
    /\ event' = [event EXCEPT ![c] = TRUE]
    /\ UNCHANGED <<build, mainVars, open, conn, reloaded>>

\* The server notices that a client has gone, with or without its message.
Drop(c) ==
    /\ conn[c] # "none" /\ conn[c] # "gone" /\ c \notin open
    /\ conn' = [conn EXCEPT ![c] = "gone"]
    /\ UNCHANGED <<build, mainVars, open, body, event, reloaded>>

Server == \E c \in Client : Login(c) \/ LoginAck(c) \/ Handle(c) \/ Drop(c)

Done == pc = "done" /\ UNCHANGED vars

Next == Main \/ Server \/ Done

Spec == Init /\ [][Next]_vars

-----------------------------------------------------------------------------
(* Properties *)

TypeOK ==
    /\ build \in Builds
    /\ pc \in {"setup", "spawn", "await", "close", "sleep", "revoke", "verdict", "done"}
    /\ phase \in Client
    /\ arrived \in [Client -> BOOLEAN]
    /\ exit \in Gate!ExitCodes \union {Gate!Running}
    /\ open \in SUBSET {phase}
    /\ conn \in [Client -> {"none", "dialled", "held", "refused", "gone"}]
    /\ body \in [Client -> {"none", "sent", "handled"}]
    /\ event \in [Client -> BOOLEAN]
    /\ reloaded \in BOOLEAN

\* However short the waits, 0 is returned only by a build that honours both
\* listed keys and goes on honouring the one it did not revoke.
PassIsEvidence == Gate!GateSpec

\* However short the waits, "A REVOKED KEY STILL LOGS IN" is said only of a
\* build whose reload refuses nothing: the phase 1 client, which held the same
\* key at the same address, is not mistaken for the phase 3 one.
RevokedKeyLogsIn == exit = Gate!Fail /\ arrived[3] => ~build["revokes"]

\* When every wait is long enough the verdict separates the builds exactly.
Discriminates ==
    Timely /\ Prompt /\ exit \notin {Gate!Running, Gate!Setup}
    => (exit = Gate!Pass <=> build \in FullBuilds)
=============================================================================
