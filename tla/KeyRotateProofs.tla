--------------------------- MODULE KeyRotateProofs ---------------------------
(***************************************************************************)
(* What the verdicts of p2p_keyrotate are evidence of, for every set of    *)
(* builds and however short the waits.                                     *)
(*                                                                         *)
(* A message that was handled came over a connection that was accepted,    *)
(* with the key and the revocation list of its own phase (Accepted): the   *)
(* clients of phases 3 and 4 do not exist before the reload (Reloaded).    *)
(***************************************************************************)
EXTENDS KeyRotate, TLAPS

\* What accepting a client says of the build.
Proves(c) ==
    /\ c \in OldKey => build["first"]
    /\ c \notin OldKey => build["second"]
    /\ c = 3 => ~build["revokes"]
    /\ c = 4 => build["spares"]

Accepted == \A c \in Client : conn[c] = "held" \/ event[c] \/ arrived[c] => Proves(c)

Reloaded ==
    /\ phase >= 3 => reloaded \/ pc \in {"revoke", "done"}
    /\ \A c \in Client : c > phase \/ (c = phase /\ pc \in {"setup", "spawn", "revoke"})
                         => conn[c] = "none"
    /\ \A c \in Client : c >= 3 /\ conn[c] # "none" => reloaded
    /\ pc \in {"setup", "spawn", "revoke"} => open = {}
    /\ pc = "sleep" \/ pc = "verdict" => open = {}

Verdicts ==
    /\ exit # Gate!Running <=> pc = "done"
    /\ pc = "done" => exit \in {Gate!Setup, ExitCode}

IInv == TypeOK /\ Accepted /\ Reloaded /\ Verdicts

LEMMA AllInit == Init => IInv
<1> SUFFICES ASSUME Init
             PROVE  IInv
  OBVIOUS
<1> USE DEF Init, Client
<1>1. TypeOK
  <2>1. arrived \in [Client -> BOOLEAN] /\ event \in [Client -> BOOLEAN] /\ reloaded \in BOOLEAN
    BY Zenon
  <2> QED
    BY <2>1 DEF TypeOK
<1>2. Accepted /\ Reloaded
  BY DEF Accepted, Reloaded
<1>3. Verdicts
  BY DEF Verdicts
<1> QED
  BY <1>1, <1>2, <1>3 DEF IInv

LEMMA TypeStep == TypeOK /\ Reloaded /\ [Next]_vars => TypeOK'
<1> SUFFICES ASSUME TypeOK, Reloaded, [Next]_vars
             PROVE  TypeOK'
  OBVIOUS
<1> USE DEF TypeOK, Client
<1>1. CASE SetUp
  BY <1>1 DEF SetUp, Return, serverVars, Gate!ExitCodes
<1>2. CASE Spawn
  BY <1>2 DEF Spawn, Return, Reloaded, Gate!ExitCodes
<1>3. CASE Await
  <2>1. arrived' \in [Client -> BOOLEAN] /\ event' \in [Client -> BOOLEAN]
    BY <1>3, Zenon DEF Await
  <2> QED
    BY <1>3, <2>1 DEF Await
<1>4. CASE Close
  BY <1>4 DEF Close, serverVars
<1>5. CASE Sleep
  BY <1>5 DEF Sleep, serverVars, Reloaded
<1>6. CASE Revoke
  BY <1>6 DEF Revoke, Return, serverVars, Gate!ExitCodes
<1>7. CASE Verdict
  BY <1>7 DEF Verdict, Return, serverVars, ExitCode, Gate!ExitCodes
<1>8. CASE Server
  BY <1>8 DEF Server, Login, LoginAck, Handle, Drop, mainVars
<1>9. CASE Done \/ UNCHANGED vars
  BY <1>9 DEF Done, vars, mainVars, serverVars
<1> QED
  BY <1>1, <1>2, <1>3, <1>4, <1>5, <1>6, <1>7, <1>8, <1>9 DEF Next, Main

LEMMA ReloadedStep == TypeOK /\ Reloaded /\ [Next]_vars => Reloaded'
<1> SUFFICES ASSUME TypeOK, Reloaded, [Next]_vars
             PROVE  Reloaded'
  OBVIOUS
<1> USE DEF TypeOK, Reloaded, Client
<1>1. CASE SetUp \/ Revoke
  BY <1>1 DEF SetUp, Revoke, Return, serverVars
<1>6. CASE Spawn
  <2>1. CASE pc' = "await"
    <3>1. \A c \in Client : c # phase => conn'[c] = conn[c]
      BY <1>6, <2>1 DEF Spawn, Return
    <3> QED
      BY <1>6, <2>1, <3>1 DEF Spawn, Return
  <2>2. CASE pc' # "await"
    BY <1>6, <2>2 DEF Spawn, Return
  <2> QED
    BY <2>1, <2>2
<1>2. CASE Await \/ Close \/ Verdict
  BY <1>2 DEF Await, Close, Verdict, Return, serverVars
<1>3. CASE Sleep
  BY <1>3 DEF Sleep, serverVars
<1>4. CASE Server
  <2>1. UNCHANGED <<mainVars, open, reloaded>>
    BY <1>4 DEF Server, Login, LoginAck, Handle, Drop
  <2>2. \A c \in Client : conn[c] = "none" => conn'[c] = "none"
    BY <1>4 DEF Server, Login, LoginAck, Handle, Drop
  <2> QED
    BY <2>1, <2>2 DEF mainVars
<1>5. CASE Done \/ UNCHANGED vars
  BY <1>5 DEF Done, vars, mainVars, serverVars
<1> QED
  BY <1>1, <1>2, <1>3, <1>4, <1>5, <1>6 DEF Next, Main

LEMMA AcceptedStep == TypeOK /\ Reloaded /\ Accepted /\ [Next]_vars => Accepted'
<1> SUFFICES ASSUME TypeOK, Reloaded, Accepted, [Next]_vars
             PROVE  Accepted'
  OBVIOUS
<1> USE DEF TypeOK, Client
<1>1. build' = build
  BY DEF Next, Main, SetUp, Spawn, Await, Close, Sleep, Revoke, Verdict, Server, Login, LoginAck,
     Handle, Drop, Done, vars
<1>2. \A c : Proves(c)' = Proves(c)
  BY <1>1 DEF Proves
<1> SUFFICES ASSUME NEW c \in Client, conn'[c] = "held" \/ event'[c] \/ arrived'[c]
             PROVE  Proves(c)
  BY <1>2 DEF Accepted
<1>3. CASE conn[c] = "held" \/ event[c] \/ arrived[c]
  BY <1>3 DEF Accepted
<1>4. CASE ~(conn[c] = "held" \/ event[c] \/ arrived[c])
  <2>1. PICK d \in Client : Login(d)
    BY <1>4 DEF Next, Main, SetUp, Return, Spawn, Await, Close, Sleep, Revoke, Verdict, Server, LoginAck,
       Handle, Drop, Done, vars, mainVars, serverVars
  <2>2. d = c /\ Honours(c) /\ (c >= 3 => reloaded)
    BY <1>4, <2>1 DEF Login, mainVars, Reloaded
  <2> QED
    BY <2>2 DEF Honours, Proves, OldKey
<1> QED
  BY <1>3, <1>4

LEMMA VerdictsStep == TypeOK /\ Verdicts /\ [Next]_vars => Verdicts'
<1> SUFFICES ASSUME TypeOK, Verdicts, [Next]_vars
             PROVE  Verdicts'
  OBVIOUS
<1> USE DEF Verdicts, ExitCode, Gate!Running, Gate!Setup, Gate!Pass, Gate!Fail, Gate!Inconclusive
<1>1. CASE SetUp \/ Spawn \/ Revoke \/ Verdict
  BY <1>1 DEF SetUp, Spawn, Revoke, Verdict, Return
<1>2. CASE Await \/ Close \/ Sleep
  BY <1>2 DEF Await, Close, Sleep
<1>3. CASE Server \/ Done \/ UNCHANGED vars
  BY <1>3 DEF Server, Login, LoginAck, Handle, Drop, Done, vars, mainVars
<1> QED
  BY <1>1, <1>2, <1>3 DEF Next, Main

\* The invariant holds throughout.
THEOREM Invariance == Spec => []IInv
<1>1. IInv /\ [Next]_vars => IInv'
  BY TypeStep, ReloadedStep, AcceptedStep, VerdictsStep DEF IInv
<1> QED
  BY AllInit, <1>1, PTL DEF Spec

\* Every variable keeps its type, and one client is open at a time.
THEOREM Typing == Spec => []TypeOK
  BY Invariance, PTL DEF IInv

\* "A REVOKED KEY STILL LOGS IN" is said only of a build that does not revoke.
THEOREM StillLogsIn == Spec => []RevokedKeyLogsIn
<1>1. IInv => RevokedKeyLogsIn
  BY DEF IInv, Accepted, Proves, Client, RevokedKeyLogsIn
<1> QED
  BY <1>1, Invariance, PTL

\* The harness implements a gate: only a build that honours both listed keys,
\* and goes on honouring the one it did not revoke, passes.
THEOREM Refinement == Spec => PassIsEvidence
<1>1. Init => Gate!GateInit
  BY DEF Init, Gate!GateInit
<1>2. IInv /\ IInv' /\ [Next]_vars => [Gate!GateNext]_(Gate!gateVars)
  <2> SUFFICES ASSUME IInv, IInv', [Next]_vars
               PROVE  Gate!GateNext \/ UNCHANGED <<build, exit>>
    BY DEF Gate!gateVars
  <2>1. build' = build
    BY DEF Next, Main, SetUp, Spawn, Await, Close, Sleep, Revoke, Verdict, Server, Login, LoginAck,
       Handle, Drop, Done, vars
  <2>2. CASE exit' = exit
    BY <2>1, <2>2
  <2>3. CASE exit' # exit
    <3>1. exit = Gate!Running
      BY <2>3 DEF Next, Main, SetUp, Spawn, Await, Close, Sleep, Revoke, Verdict, Return, Server,
         Login, LoginAck, Handle, Drop, Done, vars, mainVars, IInv, Verdicts
    <3>2. exit' = Gate!Pass => build \in GoodBuilds
      <4> SUFFICES ASSUME exit' = Gate!Pass
                   PROVE  build \in GoodBuilds
        OBVIOUS
      <4>1. arrived'[1] /\ arrived'[2] /\ arrived'[4]
        BY DEF IInv, Verdicts, ExitCode, Gate!Running, Gate!Setup, Gate!Pass, Gate!Fail,
           Gate!Inconclusive
      <4>2. build["first"] /\ build["second"] /\ build["spares"]
        BY <2>1, <4>1 DEF IInv, Accepted, Proves, OldKey, Client
      <4> QED
        BY <4>2 DEF IInv, TypeOK, GoodBuilds
    <3>3. exit' \in Gate!ExitCodes
      BY <2>3, <3>1 DEF IInv, TypeOK
    <3>4. Gate!Return(exit')
      BY <2>1, <3>1, <3>2 DEF Gate!Return
    <3> QED
      BY <3>3, <3>4 DEF Gate!GateNext
  <2> QED
    BY <2>2, <2>3
<1> QED
  BY <1>1, <1>2, Invariance, PTL DEF Spec, PassIsEvidence, Gate!GateSpec
-----------------------------------------------------------------------------
(***************************************************************************)
(* What the verdict is worth on a machine whose waits and sleeps are long  *)
(* enough.  The server then holds no connection but the one of the phase,  *)
(* so that only the key decides on a login, and main waits until it has    *)
(* been decided on and what it lets in has arrived.                        *)
(***************************************************************************)

\* The phase of client c is over for main.
Judged(c) ==
    \/ c < phase
    \/ c = phase /\ (pc \in {"close", "sleep", "verdict"} \/ (pc = "done" /\ exit # Gate!Setup))

OneHeld ==
    /\ \A c \in Client : c < phase => conn[c] = "gone"
    /\ \A c \in Client : conn[c] = "none" => body[c] = "none"
    /\ reloaded \/ pc = "revoke" => phase >= 3

\* The client main waits for.
Awaited ==
    pc = "await" =>
        /\ open = {phase} /\ conn[phase] \in {"dialled", "held", "refused"}
        /\ conn[phase] = "refused" => ~Proves(phase)
        /\ body[phase] = "handled" => event[phase]

\* Who was not heard is a client the build should turn away.
Missing == \A c \in Client : Judged(c) => arrived[c] \/ ~Proves(c)

\* The two first phases end the run if they are not heard.
Ladder ==
    /\ \A c \in 1..2 : c < phase => arrived[c]
    /\ pc = "verdict" \/ (pc = "done" /\ exit # Gate!Setup) =>
          phase = 4 \/ (phase < 3 /\ ~arrived[phase])

Settled == Timely /\ Prompt => OneHeld /\ Awaited /\ Missing /\ Ladder

LEMMA SettledInit == Init => Settled
  BY DEF Init, Settled, OneHeld, Awaited, Missing, Ladder, Judged, Client

LEMMA SettledStep == IInv /\ Settled /\ [Next]_vars => Settled'
<1> SUFFICES ASSUME TypeOK, Accepted, Reloaded, Verdicts, [Next]_vars, Timely, Prompt,
                    OneHeld, Awaited, Missing, Ladder
             PROVE  OneHeld' /\ Awaited' /\ Missing' /\ Ladder'
  <2>1. [Next]_vars => build' = build
    BY DEF Next, Main, SetUp, Spawn, Await, Close, Sleep, Revoke, Verdict, Server, Login,
       LoginAck, Handle, Drop, Done, vars
  <2> QED
    BY <2>1 DEF IInv, Settled, Timely, Prompt
<1>0. UNCHANGED build /\ \A c : Proves(c)' = Proves(c)
  BY DEF Next, Main, SetUp, Spawn, Await, Close, Sleep, Revoke, Verdict, Server, Login, LoginAck,
     Handle, Drop, Done, vars, Proves
<1> USE DEF TypeOK, Client, OneHeld, Awaited, Missing, Ladder, Judged
<1>1. CASE SetUp \/ Revoke
  <2>1. /\ UNCHANGED <<phase, arrived, open, conn, body, event>>
        /\ pc' = "spawn" \/ (pc' = "done" /\ exit' = Gate!Setup)
    BY <1>1 DEF SetUp, Revoke, Return, serverVars
  <2>2. reloaded' \/ pc' = "revoke" => phase' >= 3
    BY <1>1, <2>1 DEF SetUp, Revoke, Reloaded
  <2>3. \A c \in Client : Judged(c)' => Judged(c)
    BY <2>1
  <2> QED
    BY <1>0, <2>1, <2>2, <2>3
<1>2. CASE Spawn
  <2>1. CASE pc' = "await"
    <3>1. /\ UNCHANGED <<phase, arrived, exit, body, event, reloaded>>
          /\ pc = "spawn" /\ open' = {phase} /\ conn'[phase] = "dialled"
          /\ \A c \in Client : c # phase => conn'[c] = conn[c]
      BY <1>2, <2>1 DEF Spawn, Return, Reloaded
    <3>2. body'[phase] = "none"
      BY <3>1 DEF Reloaded
    <3> QED
      BY <1>0, <2>1, <3>1, <3>2
  <2>2. CASE pc' # "await"
    BY <1>0, <1>2, <2>2 DEF Spawn, Return, Gate!Setup
  <2> QED
    BY <2>1, <2>2
<1>3. CASE Await
  <2>1. /\ UNCHANGED <<phase, exit, open, conn, body, reloaded>> /\ pc = "await" /\ pc' = "close"
        /\ arrived'[phase] = event[phase]
        /\ \A c \in Client : c # phase => arrived'[c] = arrived[c]
    BY <1>3 DEF Await
  <2>2. event[phase] \/ ~Proves(phase)
    BY <1>3 DEF Await, Quiet
  <2> QED
    BY <1>0, <2>1, <2>2
<1>4. CASE Close
  BY <1>0, <1>4 DEF Close, serverVars
<1>5. CASE Sleep
  BY <1>0, <1>5 DEF Sleep, serverVars
<1>6. CASE Verdict
  BY <1>0, <1>6 DEF Verdict, Return, serverVars
<1>7. ASSUME NEW c \in Client, Login(c)
      PROVE  OneHeld' /\ Awaited' /\ Missing' /\ Ladder'
  <2>1. UNCHANGED <<mainVars, open, body, event, reloaded>> /\ conn[c] = "dialled"
        /\ conn'[c] \in {"held", "refused"}
        /\ \A d \in Client : d # c => conn'[d] = conn[d]
    BY <1>7 DEF Login
  <2>2. c >= phase
    BY <2>1
  <2>3. c = phase
    BY <2>1, <2>2 DEF Reloaded
  <2>4. conn'[phase] = "refused" => ~Proves(phase)
    <3>1. \A d \in Client : conn[d] # "held"
      BY <2>1, <2>3 DEF Reloaded
    <3>2. conn'[phase] = "refused" => ~Honours(phase)
      BY <1>7, <2>3, <3>1 DEF Login
    <3>3. reloaded <=> phase >= 3
      BY <2>1, <2>3 DEF Reloaded
    <3> QED
      BY <3>2, <3>3 DEF Honours, Proves, OldKey
  <2> QED
    BY <1>0, <2>1, <2>3, <2>4 DEF mainVars
<1>8. ASSUME NEW c \in Client, LoginAck(c)
      PROVE  OneHeld' /\ Awaited' /\ Missing' /\ Ladder'
  BY <1>0, <1>8 DEF LoginAck, mainVars
<1>9. ASSUME NEW c \in Client, Handle(c)
      PROVE  OneHeld' /\ Awaited' /\ Missing' /\ Ladder'
  BY <1>0, <1>9 DEF Handle, mainVars
<1>10. ASSUME NEW c \in Client, Drop(c)
       PROVE  OneHeld' /\ Awaited' /\ Missing' /\ Ladder'
  BY <1>0, <1>10 DEF Drop, mainVars
<1>11. CASE Done \/ UNCHANGED vars
  BY <1>0, <1>11 DEF Done, vars, mainVars, serverVars
<1> QED
  BY <1>1, <1>2, <1>3, <1>4, <1>5, <1>6, <1>7, <1>8, <1>9, <1>10, <1>11 DEF Next, Main, Server

\* On a machine that is quick enough the harness passes the builds it should,
\* and no other.
THEOREM Separation == Spec => []Discriminates
<1>1. IInv /\ Settled => Discriminates
  <2> SUFFICES ASSUME IInv, Settled, Timely, Prompt, exit \notin {Gate!Running, Gate!Setup}
               PROVE  exit = Gate!Pass <=> build \in FullBuilds
    BY DEF Discriminates
  <2> USE DEF IInv, TypeOK, Client
  <2>1. pc = "done" /\ exit = ExitCode
    BY DEF Verdicts
  <2>2. Ladder /\ Missing /\ Accepted
    BY DEF Settled
  <2>3. phase = 4 \/ (phase < 3 /\ ~arrived[phase])
    BY <2>1, <2>2 DEF Ladder
  <2>4. \A c \in Client : c <= phase => (arrived[c] <=> Proves(c))
    BY <2>1, <2>2 DEF Missing, Judged, Accepted
  <2>5. exit = Gate!Pass <=> arrived[1] /\ arrived[2] /\ ~arrived[3] /\ arrived[4]
    BY <2>1 DEF ExitCode, Gate!Pass, Gate!Fail, Gate!Inconclusive
  <2>6. build \in FullBuilds <=> build["first"] /\ build["second"] /\ build["revokes"] /\ build["spares"]
    BY DEF FullBuilds, Features
  <2>7. CASE phase = 4
    BY <2>4, <2>5, <2>6, <2>7 DEF Proves, OldKey
  <2>8. CASE phase < 3 /\ ~arrived[phase]
    BY <2>4, <2>5, <2>6, <2>8 DEF Proves, OldKey
  <2> QED
    BY <2>3, <2>7, <2>8
<1>2. Init => Settled
  BY SettledInit
<1>3. IInv /\ Settled /\ [Next]_vars => Settled'
  BY SettledStep
<1> QED
  BY <1>1, <1>2, <1>3, Invariance, PTL DEF Spec

=============================================================================
