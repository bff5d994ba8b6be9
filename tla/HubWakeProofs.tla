---------------------------- MODULE HubWakeProofs ----------------------------
(***************************************************************************)
(* What p2p_hubwake's verdict is evidence of, for every burst, every set   *)
(* of builds and every order of signals, sends and completions.            *)
(*                                                                         *)
(* While a signal is unhandled the last message of a burst that outlasts   *)
(* the signals is unsent.  So a pause finds the connection busy, and the   *)
(* whole burst can only have arrived where the wakeup was handled: a       *)
(* latch that is still on then is seen by main, and a latch that is off    *)
(* although the wakeup left it on went with the connection.                *)
(***************************************************************************)
EXTENDS HubWake, TLAPS

\* Main is past its assertions.
Ending == {"close", "join", "cleanup", "exit"}

\* Main's program.
Control ==
    /\ nExit = Running <=> pc # "done"
    /\ pc \in {"setup", "dialled", "identify", "pause"} => posted = 0
    /\ pc = "wakeup" => posted = 1
    /\ pc \in {"burst", "look", "after"} => posted = 2
    /\ pc \in {"identify", "pause", "wakeup", "burst", "look", "after", "awaitAfter",
               "close", "join", "cleanup", "exit"} => sent
    /\ posted > 0 => sent

\* A connection is there from the first login-ack on.
Connection ==
    /\ sent <=> con # "down"
    /\ sent => build["logsIn"]
    /\ ~sent => queue = 0 /\ wire = 0 /\ got = 0 /\ ~latch /\ ~sending
    /\ latch \/ sending => con = "up"
    /\ handled = 0 => ~latch /\ con # "dropped"
    /\ handled < 3 => after = "unsent"

\* While a signal is unhandled the burst has not all been sent.
Outlasts ==
    build["outlasts"] /\ sent /\ handled < 2 =>
        /\ wire + got < Burst
        /\ con = "up" /\ build["late"] => queue > 0

\* Main's assertions.
Asserted ==
    /\ pc \in {"look", "after", "awaitAfter", "close", "join", "cleanup", "exit"} /\ 1 \notin failed
       => got = Burst
    /\ pc \in Ending /\ failed = {} => after = "seen"
    /\ pc \in Ending /\ posted = 3 /\ 3 \notin failed => after = "seen"
    /\ pc = "awaitAfter" => failed = {}
    /\ nExit = SUCCESS => failed = {} /\ after = "seen"

\* A wakeup that undoes a pause leaves the burst alone.
Kept ==
    build \in FullBuilds /\ build["outlasts"] /\ sent =>
        /\ con = "up"
        /\ queue + wire + got = Burst
        /\ handled < 2 => queue > 0
        /\ handled # 1 => ~latch

\* In any other build main finds the latch, or has the last message lost.
Telling == build["outlasts"] /\ build["late"] /\ build \notin FullBuilds

Lost ==
    Telling =>
        /\ handled > 0 => con = "dropped" \/ (build["spares"] /\ latch)
        /\ pc \in {"after", "awaitAfter"} /\ failed = {} => con = "dropped"
        /\ posted = 3 => con = "dropped"
        /\ after \in {"unsent", "lost"}

\* The messages of the burst that are there.
Total == queue + wire + got

\* Where main's waits are long enough, what it has missed is gone for good.
Settled ==
    build["timely"] =>
        /\ 1 \in failed => sent /\ Total < Burst
        /\ 3 \in failed => after = "lost" /\ handled = 3

IInv ==
    TypeOK /\ Control /\ Connection /\ Outlasts /\ Asserted /\ Kept /\ Lost /\ Settled

LEMMA AllInit == Init => IInv
<1> SUFFICES ASSUME Init
             PROVE  IInv
  OBVIOUS
<1> USE BurstAssumption DEF Init, Running, SUCCESS, SETUP, FAILED, TIMEOUT
<1>1. MainOK
  BY DEF MainOK
<1>2. CountsOK
  BY DEF CountsOK
<1>3. ConOK
  BY DEF ConOK
<1>4. Control /\ Connection /\ Outlasts /\ Asserted
  BY DEF Control, Connection, Outlasts, Asserted, Ending
<1>5. Kept /\ Lost /\ Settled
  BY DEF Kept, Lost, Settled
<1> QED
  BY <1>1, <1>2, <1>3, <1>4, <1>5 DEF IInv, TypeOK

\* The build is the same throughout.
LEMMA SameBuild == [Next]_vars => build' = build
  BY DEF Next, Main, SetUp, AwaitPosted, Identify, Pause, Wakeup, AwaitBurst, Look,
     PostAfterWake, AwaitAfter, CloseHubs, Join, CloseEvents, Exit, Client, LoginAck, HandlePause,
     HandleWakeup, HandleAfter, StartSend, CompleteSend, Restart, Server, Receive, ReceiveAfter,
     HubEnds, Done, vars, clientRest

LEMMA MainStep == MainOK /\ [Next]_vars => MainOK'
<1> SUFFICES ASSUME MainOK, [Next]_vars
             PROVE  MainOK'
  OBVIOUS
<1> USE DEF MainOK, Running, SUCCESS, SETUP, FAILED, TIMEOUT
<1>1. CASE SetUp \/ AwaitPosted \/ Identify
  BY <1>1 DEF SetUp, AwaitPosted, Identify, Return
<1>2. CASE Pause \/ Wakeup
  BY <1>2 DEF Pause, Wakeup
<1>3. CASE AwaitBurst \/ Look \/ AwaitAfter
  BY <1>3 DEF AwaitBurst, Look, AwaitAfter
<1>4. CASE PostAfterWake \/ CloseHubs
  BY <1>4 DEF PostAfterWake, CloseHubs
<1>5. CASE Join \/ CloseEvents \/ Exit
  BY <1>5 DEF Join, CloseEvents, Exit
<1>6. CASE Client \/ Restart
  BY <1>6 DEF Client, LoginAck, HandlePause, HandleWakeup, HandleAfter, StartSend, CompleteSend,
     Restart, clientRest, mainVars
<1>7. CASE Server \/ \E h \in Hubs : HubEnds(h)
  BY <1>7 DEF Server, Receive, ReceiveAfter, HubEnds, mainVars
<1>8. CASE Done \/ UNCHANGED vars
  BY <1>8 DEF Done, vars, mainVars
<1> QED
  BY <1>1, <1>2, <1>3, <1>4, <1>5, <1>6, <1>7, <1>8 DEF Next, Main

LEMMA CountsStep == CountsOK /\ Control /\ Connection /\ [Next]_vars => CountsOK'
<1> SUFFICES ASSUME CountsOK, Control, Connection, [Next]_vars
             PROVE  CountsOK'
  OBVIOUS
<1> USE BurstAssumption DEF CountsOK
<1>1. CASE SetUp \/ AwaitPosted \/ Identify
  BY <1>1 DEF SetUp, AwaitPosted, Identify, Return, conVars
<1>2. CASE Pause
  BY <1>2 DEF Pause, Control, conVars
<1>3. CASE Wakeup
  BY <1>3 DEF Wakeup, Control, conVars
<1>4. CASE AwaitBurst \/ Look \/ AwaitAfter
  BY <1>4 DEF AwaitBurst, Look, AwaitAfter, conVars
<1>5. CASE PostAfterWake
  BY <1>5 DEF PostAfterWake, conVars
<1>6. CASE CloseHubs \/ Join \/ CloseEvents \/ Exit
  BY <1>6 DEF CloseHubs, Join, CloseEvents, Exit, conVars
<1>7. CASE LoginAck
  BY <1>7 DEF LoginAck, clientRest, mainVars, Connection
<1>8. CASE HandlePause
  BY <1>8 DEF HandlePause, Drop, clientRest, mainVars
<1>9. CASE HandleWakeup \/ HandleAfter \/ Restart
  <2>1. CASE HandleWakeup
    BY <2>1 DEF HandleWakeup, clientRest, mainVars
  <2>2. CASE HandleAfter
    BY <2>2 DEF HandleAfter, clientRest, mainVars
  <2>3. CASE Restart
    BY <2>3 DEF Restart, clientRest, mainVars
  <2> QED
    BY <1>9, <2>1, <2>2, <2>3
<1>10. CASE StartSend
  BY <1>10 DEF StartSend, clientRest, mainVars
<1>11. CASE CompleteSend
  BY <1>11 DEF CompleteSend, Drop, clientRest, mainVars
<1>12. CASE Server
  BY <1>12 DEF Server, Receive, ReceiveAfter, mainVars
<1>13. CASE \E h \in Hubs : HubEnds(h)
  BY <1>13 DEF HubEnds, conVars, mainVars
<1>14. CASE Done \/ UNCHANGED vars
  BY <1>14 DEF Done, vars, mainVars, conVars
<1> QED
  BY <1>1, <1>2, <1>3, <1>4, <1>5, <1>6, <1>7, <1>8, <1>9, <1>10, <1>11, <1>12, <1>13, <1>14
     DEF Next, Main, Client

LEMMA ConStep == ConOK /\ [Next]_vars => ConOK'
<1> SUFFICES ASSUME ConOK, [Next]_vars
             PROVE  ConOK'
  OBVIOUS
<1> USE DEF ConOK
<1>1. CASE CloseHubs
  BY <1>1 DEF CloseHubs, conVars
<1>2. CASE Main /\ ~CloseHubs
  BY <1>2 DEF Main, SetUp, AwaitPosted, Identify, Pause, Wakeup, AwaitBurst, Look,
     PostAfterWake, AwaitAfter, Join, CloseEvents, Exit, conVars
<1>3. CASE LoginAck \/ Restart
  BY <1>3 DEF LoginAck, Restart, clientRest
<1>4. CASE HandlePause
  BY <1>4 DEF HandlePause, Drop, clientRest
<1>5. CASE HandleWakeup \/ HandleAfter
  BY <1>5 DEF HandleWakeup, HandleAfter, clientRest
<1>6. CASE StartSend
  BY <1>6 DEF StartSend, clientRest
<1>7. CASE CompleteSend
  BY <1>7 DEF CompleteSend, Drop, clientRest
<1>8. CASE Server \/ \E h \in Hubs : HubEnds(h)
  BY <1>8 DEF Server, Receive, ReceiveAfter, HubEnds, conVars
<1>9. CASE Done \/ UNCHANGED vars
  BY <1>9 DEF Done, vars, conVars
<1> QED
  BY <1>1, <1>2, <1>3, <1>4, <1>5, <1>6, <1>7, <1>8, <1>9 DEF Next, Client

LEMMA ControlStep == TypeOK /\ Control /\ [Next]_vars => Control'
<1> SUFFICES ASSUME TypeOK, Control, [Next]_vars
             PROVE  Control'
  OBVIOUS
<1> USE DEF Control, Ending, Running, SUCCESS, SETUP, FAILED, TIMEOUT
<1>1. CASE SetUp \/ AwaitPosted \/ Identify \/ Pause \/ Wakeup
  BY <1>1 DEF SetUp, AwaitPosted, Identify, Pause, Wakeup, Return, conVars
<1>2. CASE AwaitBurst \/ Look \/ AwaitAfter
  BY <1>2 DEF AwaitBurst, Look, AwaitAfter, conVars
<1>3. CASE PostAfterWake \/ CloseHubs
  BY <1>3 DEF PostAfterWake, CloseHubs, conVars
<1>4. CASE Join \/ CloseEvents
  BY <1>4 DEF Join, CloseEvents, conVars
<1>8. CASE Exit
  BY <1>8 DEF Exit, conVars
<1>5. CASE Client \/ Restart
  BY <1>5 DEF Client, LoginAck, HandlePause, HandleWakeup, HandleAfter, StartSend, CompleteSend,
     Restart, Drop, clientRest, mainVars
<1>6. CASE Server \/ \E h \in Hubs : HubEnds(h)
  BY <1>6 DEF Server, Receive, ReceiveAfter, HubEnds, mainVars, conVars
<1>7. CASE Done \/ UNCHANGED vars
  BY <1>7 DEF Done, vars, mainVars, conVars
<1> QED
  BY <1>1, <1>2, <1>3, <1>4, <1>5, <1>6, <1>7, <1>8 DEF Next, Main

\* Main and the ends of the hubs leave the connection and its traffic alone.
LEMMA TrafficKept ==
    Main \/ (\E h \in Hubs : HubEnds(h)) \/ Done \/ UNCHANGED vars =>
        UNCHANGED <<sent, con, latch, queue, sending, wire, after, handled, got>>
<1>1. Main => UNCHANGED <<conVars, handled, got>>
  BY DEF Main, SetUp, AwaitPosted, Identify, Pause, Wakeup, AwaitBurst, Look, PostAfterWake,
     AwaitAfter, CloseHubs, Join, CloseEvents, Exit
<1>2. (\E h \in Hubs : HubEnds(h)) \/ Done \/ UNCHANGED vars => UNCHANGED <<conVars, handled, got>>
  BY DEF HubEnds, Done, vars
<1> QED
  BY <1>1, <1>2 DEF conVars

LEMMA ConnectionStep == TypeOK /\ Control /\ Connection /\ [Next]_vars => Connection'
<1> SUFFICES ASSUME CountsOK, ConOK, Control, Connection, [Next]_vars
             PROVE  Connection'
  BY DEF TypeOK
<1>0. build' = build
  BY SameBuild
<1> USE <1>0 DEF Connection
<1>1. CASE Main \/ (\E h \in Hubs : HubEnds(h)) \/ Done \/ UNCHANGED vars
  BY <1>1, TrafficKept
<1>2. CASE LoginAck
  BY <1>2 DEF LoginAck, CountsOK, Control, clientRest
<1>3. CASE HandlePause
  BY <1>3 DEF HandlePause, Drop, CountsOK, clientRest
<1>4. CASE HandleWakeup
  BY <1>4 DEF HandleWakeup, CountsOK, ConOK, Control, clientRest
<1>5. CASE HandleAfter
  BY <1>5 DEF HandleAfter, CountsOK, clientRest
<1>6. CASE Restart
  BY <1>6 DEF Restart, clientRest
<1>7. CASE StartSend
  BY <1>7 DEF StartSend, CountsOK, clientRest
<1>8. CASE CompleteSend
  BY <1>8 DEF CompleteSend, Drop, CountsOK, clientRest
<1>9. CASE Server
  BY <1>9 DEF Server, Receive, ReceiveAfter, CountsOK
<1> QED
  BY <1>1, <1>2, <1>3, <1>4, <1>5, <1>6, <1>7, <1>8, <1>9 DEF Next, Client

LEMMA OutlastsStep == TypeOK /\ Connection /\ Control /\ Outlasts /\ [Next]_vars => Outlasts'
<1> SUFFICES ASSUME CountsOK, ConOK, Connection, Control, Outlasts, [Next]_vars
             PROVE  Outlasts'
  BY DEF TypeOK
<1>0. build' = build
  BY SameBuild
<1> USE <1>0, BurstAssumption DEF Outlasts
<1>1. CASE Main \/ (\E h \in Hubs : HubEnds(h)) \/ Done \/ UNCHANGED vars
  BY <1>1, TrafficKept
<1>2. CASE LoginAck
  BY <1>2 DEF LoginAck, Connection, clientRest
<1>3. CASE HandlePause
  <2>1. Drop => wire' \in Nat /\ wire' <= wire /\ con' = "dropped"
    BY DEF Drop, CountsOK
  <2>2. sent' = sent /\ got' = got /\ handled = 0
    BY <1>3 DEF HandlePause, Drop, clientRest
  <2>3. CASE Drop
    BY <2>1, <2>2, <2>3 DEF CountsOK
  <2>4. CASE UNCHANGED <<con, queue, wire>>
    BY <2>2, <2>4
  <2> QED
    BY <1>3, <2>3, <2>4 DEF HandlePause
<1>4. CASE HandleWakeup
  BY <1>4 DEF HandleWakeup, CountsOK
<1>5. CASE HandleAfter
  BY <1>5 DEF HandleAfter, CountsOK
<1>6. CASE Restart
  BY <1>6 DEF Restart, clientRest
<1>7. CASE StartSend
  BY <1>7 DEF StartSend, CountsOK, clientRest
<1>8. CASE CompleteSend
  <2>1. Drop => wire' \in Nat /\ wire' <= wire /\ con' = "dropped"
    BY DEF Drop, CountsOK
  <2>2. sent' = sent /\ got' = got /\ handled' = handled
    BY <1>8 DEF CompleteSend, Drop, clientRest
  <2>3. CASE Drop
    BY <2>1, <2>2, <2>3 DEF CountsOK
  <2>4. CASE UNCHANGED <<con, queue, wire>>
    BY <2>2, <2>4
  <2> QED
    BY <1>8, <2>3, <2>4 DEF CompleteSend
<1>9. CASE Server
  <2>1. wire' + got' = wire + got
    BY <1>9 DEF Server, Receive, ReceiveAfter, CountsOK
  <2>2. UNCHANGED <<sent, con, queue, handled>>
    BY <1>9 DEF Server, Receive, ReceiveAfter
  <2> QED
    BY <2>1, <2>2
<1> QED
  BY <1>1, <1>2, <1>3, <1>4, <1>5, <1>6, <1>7, <1>8, <1>9 DEF Next, Client

LEMMA AssertedStep ==
    TypeOK /\ Control /\ Connection /\ Asserted /\ [Next]_vars => Asserted'
<1> SUFFICES ASSUME CountsOK, Control, Connection, Asserted, [Next]_vars
             PROVE  Asserted'
  BY DEF TypeOK
<1> USE DEF Asserted, Ending, Running, SUCCESS, SETUP, FAILED, TIMEOUT
<1>1. CASE SetUp \/ AwaitPosted \/ Identify \/ Pause \/ Wakeup
  BY <1>1 DEF SetUp, AwaitPosted, Identify, Pause, Wakeup, Return, Control, conVars
<1>2. CASE AwaitBurst
  BY <1>2 DEF AwaitBurst, Control, conVars
<1>3. CASE Look \/ PostAfterWake
  BY <1>3 DEF Look, PostAfterWake, Control, conVars
<1>4. CASE AwaitAfter
  BY <1>4 DEF AwaitAfter, Control, conVars
<1>5. CASE CloseHubs
  BY <1>5 DEF CloseHubs, Control, conVars
<1>6. CASE Join \/ CloseEvents
  BY <1>6 DEF Join, CloseEvents, Control, conVars
<1>11. CASE Exit
  BY <1>11 DEF Exit, Control, conVars
<1>7. CASE Client \/ Restart
  <2>1. UNCHANGED <<pc, failed, nExit, got>>
    BY <1>7 DEF Client, LoginAck, HandlePause, HandleWakeup, HandleAfter, StartSend,
       CompleteSend, Restart, clientRest, mainVars
  <2>2. after = "seen" => after' = "seen"
    <3>1. CASE LoginAck \/ HandleWakeup \/ Restart
      BY <3>1 DEF LoginAck, HandleWakeup, Restart
    <3>2. CASE HandlePause \/ CompleteSend
      BY <3>2 DEF HandlePause, CompleteSend, Drop
    <3>3. CASE HandleAfter \/ StartSend
      BY <3>3 DEF HandleAfter, StartSend, Connection, CountsOK
    <3> QED
      BY <1>7, <3>1, <3>2, <3>3 DEF Client
  <2>3. posted' = posted
    BY <1>7 DEF Client, LoginAck, HandlePause, HandleWakeup, HandleAfter, StartSend,
       CompleteSend, Restart, clientRest, mainVars
  <2> QED
    BY <2>1, <2>2, <2>3
<1>8. CASE Receive
  <2>1. got + wire <= Burst /\ wire > 0 /\ got < Burst
    BY <1>8, BurstAssumption DEF Receive, CountsOK
  <2>2. UNCHANGED <<pc, failed, nExit, posted, after>>
    BY <1>8 DEF Receive, mainVars
  <2>3. Runs("server")
    BY <1>8 DEF Receive
  <2> QED
    BY <2>1, <2>2, <2>3 DEF Runs, CountsOK
<1>9. CASE ReceiveAfter
  BY <1>9 DEF ReceiveAfter, mainVars
<1>10. CASE (\E h \in Hubs : HubEnds(h)) \/ Done \/ UNCHANGED vars
  BY <1>10 DEF HubEnds, Done, vars, mainVars, conVars
<1> QED
  BY <1>1, <1>2, <1>3, <1>4, <1>5, <1>6, <1>7, <1>8, <1>9, <1>10, <1>11
     DEF Next, Main, Server

LEMMA KeptStep ==
    TypeOK /\ Control /\ Connection /\ Outlasts /\ Kept /\ [Next]_vars => Kept'
<1> SUFFICES ASSUME CountsOK, ConOK, Control, Connection, Outlasts, Kept, [Next]_vars,
                    build \in FullBuilds, build["outlasts"], sent'
             PROVE  /\ con' = "up"
                    /\ queue' + wire' + got' = Burst
                    /\ handled' < 2 => queue' > 0
                    /\ handled' # 1 => ~latch'
  BY SameBuild DEF TypeOK, Kept
<1>0. build["logsIn"] /\ build["spares"] /\ build["clears"]
  BY DEF FullBuilds, Features
<1>s. sent => /\ con = "up"
              /\ queue + wire + got = Burst
              /\ handled < 2 => queue > 0
              /\ handled # 1 => ~latch
  BY DEF Kept
<1>1. CASE Main \/ (\E h \in Hubs : HubEnds(h)) \/ Done \/ UNCHANGED vars
  <2>1. UNCHANGED <<sent, con, latch, queue, wire, handled, got>>
    BY <1>1, TrafficKept
  <2>2. sent
    BY <2>1
  <2> QED
    BY <1>s, <2>1, <2>2
<1>2. CASE LoginAck
  BY <1>2, BurstAssumption DEF LoginAck, Connection, clientRest
<1>3. CASE HandlePause
  <2>1. UNCHANGED <<sent, got>> /\ handled = 0 /\ handled' = 1
    BY <1>3 DEF HandlePause, Drop, clientRest
  <2>2. con = "up" /\ queue > 0
    BY <1>s, <2>1
  <2>3. UNCHANGED <<con, queue, wire>>
    BY <1>0, <1>3, <2>2 DEF HandlePause
  <2> QED
    BY <1>s, <2>1, <2>3
<1>4. CASE HandleWakeup
  BY <1>0, <1>4, <1>s DEF HandleWakeup, clientRest
<1>5. CASE HandleAfter
  BY <1>5, <1>s DEF HandleAfter, clientRest
<1>6. CASE Restart
  BY <1>6, <1>s DEF Restart, clientRest
<1>7. CASE StartSend
  BY <1>7, <1>s, BurstAssumption DEF StartSend, CountsOK, clientRest
<1>8. CASE CompleteSend
  <2>1. UNCHANGED <<sent, got, handled>>
    BY <1>8 DEF CompleteSend, Drop, clientRest
  <2>2. latch => queue # 0
    BY <1>s, <2>1 DEF CountsOK
  <2>3. UNCHANGED <<con, latch, queue, wire>>
    BY <1>8, <2>2 DEF CompleteSend
  <2> QED
    BY <1>s, <2>1, <2>3
<1>9. CASE Server
  <2>0. queue \in Nat /\ wire \in Nat /\ got \in Nat
    BY BurstAssumption DEF CountsOK
  <2>1. \/ wire' = wire - 1 /\ got' = got + 1
        \/ wire' = wire /\ got' = got
    BY <1>9 DEF Server, Receive, ReceiveAfter
  <2>2. UNCHANGED <<sent, con, latch, queue, handled>>
    BY <1>9 DEF Server, Receive, ReceiveAfter
  <2> QED
    BY <1>s, <2>0, <2>1, <2>2
<1> QED
  BY <1>1, <1>2, <1>3, <1>4, <1>5, <1>6, <1>7, <1>8, <1>9 DEF Next, Client

LEMMA LostStep ==
    TypeOK /\ Control /\ Connection /\ Outlasts /\ Asserted /\ Lost /\ [Next]_vars => Lost'
<1> SUFFICES ASSUME MainOK, CountsOK, ConOK, Control, Connection, Outlasts, Asserted, Lost,
                    [Next]_vars, Telling
             PROVE  /\ handled' > 0 => con' = "dropped" \/ (build["spares"] /\ latch')
                    /\ pc' \in {"after", "awaitAfter"} /\ failed' = {} => con' = "dropped"
                    /\ posted' = 3 => con' = "dropped"
                    /\ after' \in {"unsent", "lost"}
  <2>1. [Next]_vars => build' = build
    BY SameBuild
  <2>2. build' = build => (Telling' <=> Telling)
    BY DEF Telling, FullBuilds
  <2> QED
    BY <2>1, <2>2 DEF Lost, TypeOK
<1>0. build["outlasts"] /\ build["late"]
  BY DEF Telling
<1>f. sent => ~build["spares"] \/ ~build["clears"]
  BY DEF Telling, FullBuilds, Features, MainOK, Connection
<1>l. /\ handled > 0 => con = "dropped" \/ (build["spares"] /\ latch)
      /\ pc \in {"after", "awaitAfter"} /\ failed = {} => con = "dropped"
      /\ posted = 3 => con = "dropped"
      /\ after \in {"unsent", "lost"}
  BY DEF Lost
<1>1. CASE SetUp \/ AwaitPosted \/ Identify
  BY <1>1, <1>l DEF SetUp, AwaitPosted, Identify, Return, conVars
<1>2. CASE Pause \/ Wakeup
  BY <1>2, <1>l DEF Pause, Wakeup, conVars
<1>3. CASE AwaitBurst
  BY <1>3, <1>l DEF AwaitBurst, conVars
<1>4. CASE Look
  <2>1. UNCHANGED <<handled, posted, con, latch, after>>
    BY <1>4 DEF Look, conVars
  <2>2. ASSUME failed' = {}
        PROVE  con = "dropped"
    <3>1. failed = {} /\ ~latch
      BY <1>4, <2>2 DEF Look
    <3>2. got = Burst /\ sent /\ posted = 2
      BY <1>4, <3>1 DEF Look, Asserted, Control
    <3>3. handled >= 2
      BY <1>0, <3>2, BurstAssumption DEF Outlasts, CountsOK
    <3> QED
      BY <1>l, <3>1, <3>3 DEF CountsOK
  <2> QED
    BY <1>l, <2>1, <2>2
<1>5. CASE PostAfterWake
  BY <1>5, <1>l DEF PostAfterWake, conVars
<1>6. CASE AwaitAfter
  BY <1>6, <1>l DEF AwaitAfter, conVars
<1>7. CASE CloseHubs \/ Join \/ CloseEvents \/ Exit
  BY <1>7, <1>l DEF CloseHubs, Join, CloseEvents, Exit, conVars
<1>8. CASE LoginAck
  BY <1>8, <1>l DEF LoginAck, clientRest, mainVars, Connection, Control, CountsOK
<1>9. CASE HandlePause
  BY <1>9, <1>l DEF HandlePause, Drop, clientRest, mainVars, Connection
<1>10. CASE HandleWakeup
  <2>1. UNCHANGED <<pc, failed, posted, con, after>> /\ handled = 1 /\ posted > 1
    BY <1>10 DEF HandleWakeup, clientRest, mainVars
  <2>2. sent
    BY <2>1 DEF Control, CountsOK
  <2>3. CASE con = "dropped"
    BY <1>l, <2>1, <2>3
  <2>4. CASE con # "dropped"
    <3>1. build["spares"] /\ latch /\ ~build["clears"]
      BY <1>f, <1>l, <2>1, <2>2, <2>4
    <3>2. latch'
      BY <1>10, <3>1 DEF HandleWakeup
    <3> QED
      BY <1>l, <2>1, <3>1, <3>2
  <2> QED
    BY <2>3, <2>4
<1>11. CASE HandleAfter
  BY <1>11, <1>l DEF HandleAfter, clientRest, mainVars, CountsOK
<1>12. CASE Restart
  BY <1>0, <1>12 DEF Restart
<1>13. CASE StartSend
  BY <1>13, <1>l DEF StartSend, clientRest, mainVars
<1>14. CASE CompleteSend
  BY <1>14, <1>l DEF CompleteSend, Drop, clientRest, mainVars
<1>15. CASE Server
  BY <1>15, <1>l DEF Server, Receive, ReceiveAfter, mainVars
<1>16. CASE (\E h \in Hubs : HubEnds(h)) \/ Done \/ UNCHANGED vars
  BY <1>16, <1>l DEF HubEnds, Done, vars, mainVars, conVars
<1> QED
  BY <1>1, <1>2, <1>3, <1>4, <1>5, <1>6, <1>7, <1>8, <1>9, <1>10, <1>11, <1>12, <1>13, <1>14,
     <1>15, <1>16 DEF Next, Main, Client

LEMMA OncePosted == sent /\ [Next]_vars => sent'
<1>1. CASE Main \/ (\E h \in Hubs : HubEnds(h)) \/ Done \/ UNCHANGED vars
  BY <1>1, TrafficKept
<1>2. CASE Client \/ Restart \/ Server
  BY <1>2 DEF Client, LoginAck, HandlePause, HandleWakeup, HandleAfter, StartSend, CompleteSend,
     Restart, Drop, Server, Receive, ReceiveAfter
<1> QED
  BY <1>1, <1>2 DEF Next

LEMMA TotalNat == CountsOK => Total \in Nat /\ got <= Total
  BY BurstAssumption DEF CountsOK, Total

LEMMA TotalNext ==
    CountsOK /\ Control /\ Connection /\ [Next]_vars => Total' \in Nat /\ got' <= Total'
<1>1. (CountsOK => Total \in Nat /\ got <= Total)'
  BY TotalNat, PTL
<1> QED
  BY <1>1, CountsStep

\* Once the burst is posted no more of it comes to be.
LEMMA BurstFalls == CountsOK /\ sent /\ [Next]_vars => Total' <= Total
<1> SUFFICES ASSUME CountsOK, sent, [Next]_vars
             PROVE  queue' + wire' + got' <= queue + wire + got
  BY DEF Total
<1>n. queue \in Nat /\ wire \in Nat /\ got \in Nat
  BY BurstAssumption DEF CountsOK
<1>d. Drop => queue' = 0 /\ wire' \in Nat /\ wire' <= wire
  BY <1>n DEF Drop
<1>1. CASE Main \/ (\E h \in Hubs : HubEnds(h)) \/ Done \/ UNCHANGED vars
  <2>1. queue' = queue /\ wire' = wire /\ got' = got
    BY <1>1, TrafficKept
  <2> QED
    BY <1>n, <2>1
<1>2. CASE LoginAck \/ HandleWakeup \/ HandleAfter \/ Restart
  <2>1. queue' = queue /\ wire' = wire /\ got' = got
    BY <1>2 DEF LoginAck, HandleWakeup, HandleAfter, Restart, clientRest
  <2> QED
    BY <1>n, <2>1
<1>3. CASE HandlePause \/ CompleteSend
  <2>1. got' = got
    BY <1>3 DEF HandlePause, CompleteSend, clientRest
  <2>2. Drop \/ (queue' = queue /\ wire' = wire)
    BY <1>3 DEF HandlePause, CompleteSend
  <2> QED
    BY <1>n, <1>d, <2>1, <2>2
<1>4. CASE StartSend
  BY <1>n, <1>4 DEF StartSend, clientRest
<1>5. CASE Server
  <2>1. \/ wire' = wire - 1 /\ got' = got + 1
        \/ wire' = wire /\ got' = got
    BY <1>5 DEF Server, Receive, ReceiveAfter
  <2>2. queue' = queue
    BY <1>5 DEF Server, Receive, ReceiveAfter
  <2> QED
    BY <1>n, <2>1, <2>2
<1> QED
  BY <1>1, <1>2, <1>3, <1>4, <1>5 DEF Next, Client

LEMMA SettledStep ==
    TypeOK /\ Control /\ Connection /\ Asserted /\ Settled /\ [Next]_vars => Settled'
<1> SUFFICES ASSUME MainOK, CountsOK, ConOK, Control, Connection, Asserted, Settled, [Next]_vars,
                    build["timely"]
             PROVE  /\ 1 \in failed' => sent' /\ Total' < Burst
                    /\ 3 \in failed' => after' = "lost" /\ handled' = 3
  BY SameBuild DEF TypeOK, Settled
<1>l. /\ 1 \in failed => sent /\ Total < Burst
      /\ 3 \in failed => after = "lost" /\ handled = 3
  BY DEF Settled
<1>1. CASE Main
  <2>1. UNCHANGED <<sent, Total, after, handled>>
    BY <1>1, TrafficKept DEF Total
  <2>2. CASE AwaitBurst
    <3>1. 1 \in failed' => 1 \in failed \/ got + wire + queue # Burst
      BY <2>2 DEF AwaitBurst, MayTimeOut
    <3>2. 3 \in failed' => 3 \in failed
      BY <2>2 DEF AwaitBurst
    <3>3. got + wire + queue # Burst => Total < Burst
      BY BurstAssumption DEF CountsOK, Total
    <3>4. 1 \in failed' => sent
      BY <1>l, <2>2 DEF AwaitBurst, Control
    <3> QED
      BY <1>l, <2>1, <3>1, <3>2, <3>3, <3>4
  <2>3. CASE AwaitAfter
    <3>1. failed = {}
      BY <2>3 DEF AwaitAfter, Asserted
    <3>2. 3 \in failed' => after = "lost"
      BY <2>3, <3>1 DEF AwaitAfter, MayTimeOut
    <3>3. 1 \notin failed'
      BY <2>3, <3>1 DEF AwaitAfter
    <3>4. after = "lost" => handled = 3
      BY DEF Connection, CountsOK, MainOK
    <3> QED
      BY <2>1, <3>2, <3>3, <3>4
  <2>4. CASE ~AwaitBurst /\ ~AwaitAfter
    <3>1. failed' \subseteq failed \union {2}
      BY <1>1, <2>4 DEF Main, SetUp, AwaitPosted, Identify, Return, Pause, Wakeup, Look,
         PostAfterWake, CloseHubs, Join, CloseEvents, Exit
    <3> QED
      BY <1>l, <2>1, <3>1
  <2> QED
    BY <2>2, <2>3, <2>4
<1>2. CASE ~Main
  <2>1. UNCHANGED failed
    BY <1>2 DEF Next, Client, LoginAck, HandlePause, HandleWakeup, HandleAfter, StartSend,
       CompleteSend, Restart, Server, Receive, ReceiveAfter, HubEnds, Done, vars, clientRest,
       mainVars
  <2>2. 1 \in failed => sent'
    BY <1>l, OncePosted
  <2>3. 1 \in failed => Total' <= Total
    BY <1>l, BurstFalls
  <2>4. after = "lost" /\ handled = 3 => after' = "lost" /\ handled' = 3
    BY <1>2 DEF Next, Client, LoginAck, HandlePause, HandleWakeup, HandleAfter, StartSend,
       CompleteSend, Restart, Drop, Server, Receive, ReceiveAfter, HubEnds, Done, vars, conVars,
       clientRest
  <2>5. Total \in Nat /\ Total' \in Nat
    BY TotalNat, TotalNext
  <2>6. 1 \in failed' => Total' < Burst
    BY <1>l, <2>1, <2>3, <2>5, BurstAssumption
  <2> QED
    BY <1>l, <2>1, <2>2, <2>4, <2>6
<1> QED
  BY <1>1, <1>2

THEOREM Invariance == Spec => []IInv
<1>1. Init => IInv
  BY AllInit
<1>2. IInv /\ [Next]_vars => IInv'
  <2> SUFFICES ASSUME IInv, [Next]_vars
               PROVE  IInv'
    OBVIOUS
  <2> USE DEF IInv
  <2>1. MainOK' /\ CountsOK' /\ ConOK'
    BY MainStep, CountsStep, ConStep DEF TypeOK
  <2>2. Control' /\ Connection' /\ Outlasts' /\ Asserted'
    BY ControlStep, ConnectionStep, OutlastsStep, AssertedStep
  <2>3. Kept' /\ Lost' /\ Settled'
    BY KeptStep, LostStep, SettledStep
  <2> QED
    BY <2>1, <2>2, <2>3 DEF TypeOK
<1> QED
  BY <1>1, <1>2, PTL DEF Spec

\* Every state is well typed.
THEOREM Typing == Spec => []TypeOK
<1>1. IInv => TypeOK
  BY DEF IInv
<1> QED
  BY <1>1, Invariance, PTL

\* A pause that a wakeup undoes before the burst is out loses none of it.
THEOREM BurstKept == Spec => []NothingLost
<1>1. IInv => NothingLost
  BY DEF IInv, Kept, NothingLost
<1> QED
  BY <1>1, Invariance, PTL

\* Between main's closing of the events and its return no thread that outlived
\* the joins sets one of them, except in a run that has failed on a machine whose
\* waits end too soon.  What an assertion has seen cannot be set again (Asserted),
\* and what it has missed where its wait was long enough cannot come (Settled).
THEOREM NoneSetLate == Spec => ClosedEventsStayUnset
<1>1. IInv /\ [Next]_vars =>
         [pc = "exit" /\ SetsEvent => failed # {} /\ ~build["timely"]]_vars
  <2> SUFFICES ASSUME CountsOK, ConOK, Control, Connection, Asserted, Settled, [Next]_vars,
                      pc = "exit", SetsEvent,
                      failed = {} \/ build["timely"]
               PROVE  FALSE
    BY DEF IInv, TypeOK
  <2>1. sent
    BY DEF Control, Ending
  <2>2. CASE got # Burst /\ got' = Burst
    <3>1. 1 \in failed
      BY <2>2 DEF Asserted, Ending
    <3>2. Total < Burst /\ Total' <= Total
      BY <2>1, <3>1, BurstFalls DEF Settled
    <3>3. Total \in Nat /\ Total' \in Nat /\ got' <= Total'
      BY TotalNat, TotalNext
    <3> QED
      BY <2>2, <3>2, <3>3, BurstAssumption
  <2>3. CASE after # "seen" /\ after' = "seen"
    <3>1. after = "wire"
      <4>1. CASE Main \/ (\E h \in Hubs : HubEnds(h)) \/ Done \/ UNCHANGED vars
        BY <2>3, <4>1, TrafficKept
      <4>2. CASE Client \/ Restart
        BY <2>3, <4>2 DEF Client, LoginAck, HandlePause, HandleWakeup, HandleAfter, StartSend,
           CompleteSend, Restart, Drop
      <4>3. CASE Server
        BY <2>3, <4>3 DEF Server, Receive, ReceiveAfter
      <4> QED
        BY <4>1, <4>2, <4>3 DEF Next
    <3>2. handled = 3 /\ posted = 3
      BY <3>1 DEF Connection, CountsOK
    <3>3. 3 \in failed
      BY <2>3, <3>2 DEF Asserted, Ending
    <3> QED
      BY <3>1, <3>3 DEF Settled
  <2> QED
    BY <2>1, <2>2, <2>3 DEF SetsEvent
<1> QED
  BY <1>1, Invariance, PTL DEF Spec, ClosedEventsStayUnset

\* A run passes only on a build it should, whatever the waits.
LEMMA PassOnGood == TypeOK /\ Asserted /\ Lost => (nExit = SUCCESS => build \in GoodBuilds)
<1> SUFFICES ASSUME TypeOK, Asserted, Lost, nExit = SUCCESS, build \notin GoodBuilds
             PROVE  FALSE
  OBVIOUS
<1>1. Telling
  BY DEF GoodBuilds, Telling, TypeOK, MainOK
<1>2. after = "seen"
  BY DEF Asserted
<1> QED
  BY <1>1, <1>2 DEF Lost

LEMMA ExitOnce == Control /\ [Next]_vars /\ nExit' # nExit => nExit = Running
<1> SUFFICES ASSUME Control, [Next]_vars, nExit' # nExit
             PROVE  nExit = Running
  OBVIOUS
<1>1. CASE Main
  BY <1>1 DEF Main, SetUp, AwaitPosted, Identify, Pause, Wakeup, AwaitBurst, Look,
     PostAfterWake, AwaitAfter, CloseHubs, Join, CloseEvents, Exit, Control
<1>2. CASE Client \/ Restart \/ Server \/ (\E h \in Hubs : HubEnds(h)) \/ Done \/ UNCHANGED vars
  BY <1>2 DEF Client, LoginAck, HandlePause, HandleWakeup, HandleAfter, StartSend, CompleteSend,
     Restart, Server, Receive, ReceiveAfter, HubEnds, Done, vars, clientRest, mainVars
<1> QED
  BY <1>1, <1>2 DEF Next

\* The verdict is evidence: the run implements the gate's abstract verdict.
THEOREM Refinement == Spec => PassIsEvidence
<1> USE DEF Running, SUCCESS, SETUP, FAILED, TIMEOUT
<1>1. Init => Gate!GateInit
  BY DEF Init, Gate!GateInit, gateExit, Gate!Running
<1>p. (TypeOK /\ Asserted /\ Lost => (nExit = SUCCESS => build \in GoodBuilds))'
  BY PassOnGood, PTL
<1>2. IInv /\ IInv' /\ [Next]_vars => [Gate!GateNext]_(Gate!gateVars)
  <2> SUFFICES ASSUME IInv, IInv', [Next]_vars
               PROVE  Gate!GateNext \/ UNCHANGED <<build, gateExit>>
    BY DEF Gate!gateVars
  <2>1. build' = build
    BY SameBuild
  <2>2. CASE nExit' = nExit
    BY <2>1, <2>2 DEF gateExit
  <2>3. CASE nExit' # nExit
    <3>1. gateExit = Gate!Running
      BY <2>3, ExitOnce DEF IInv, gateExit, Gate!Running
    <3>2. nExit' \in {SUCCESS, SETUP, FAILED, TIMEOUT}
      BY <2>3, ExitOnce DEF IInv, TypeOK, MainOK
    <3>3. gateExit' \in Gate!ExitCodes /\ (gateExit' = Gate!Pass => nExit' = SUCCESS)
      <4> USE DEF gateExit, Gate!ExitCodes, Gate!Pass, Gate!Fail, Gate!Setup, Gate!Inconclusive
      <4>1. CASE nExit' = SETUP
        BY <4>1
      <4>2. CASE nExit' = FAILED
        BY <4>2
      <4>3. CASE nExit' = SUCCESS
        BY <4>3
      <4>4. CASE nExit' = TIMEOUT
        BY <4>4
      <4> QED
        BY <3>2, <4>1, <4>2, <4>3, <4>4
    <3>4. nExit' = SUCCESS => build \in GoodBuilds
      <4>1. TypeOK' /\ Asserted' /\ Lost'
        BY DEF IInv
      <4>2. nExit' = SUCCESS => build' \in GoodBuilds'
        BY <4>1, <1>p
      <4>3. GoodBuilds' = GoodBuilds
        BY DEF GoodBuilds, FullBuilds
      <4> QED
        BY <2>1, <4>2, <4>3
    <3>5. Gate!Return(gateExit')
      BY <2>1, <3>1, <3>3, <3>4 DEF Gate!Return
    <3> QED
      BY <3>3, <3>5 DEF Gate!GateNext
  <2> QED
    BY <2>2, <2>3
<1> QED
  BY <1>1, <1>2, Invariance, PTL DEF Spec, PassIsEvidence, Gate!GateSpec
-----------------------------------------------------------------------------
(***************************************************************************)
(* On a machine whose waits are long enough main finds nothing wrong with  *)
(* a build that is right: the burst is under way or there (Kept), a burst  *)
(* that is there has had its wakeup, and the message after it finds the    *)
(* connection up.                                                          *)
(***************************************************************************)
OnTime == \A t \in Timing : build[t]

Unfailed ==
    OnTime /\ build \in FullBuilds => failed = {} /\ nExit # FAILED /\ after # "lost"

LEMMA UnfailedInit == Init => Unfailed
  BY DEF Init, Unfailed, Running, FAILED

LEMMA UnfailedStep == IInv /\ Unfailed /\ [Next]_vars => Unfailed'
<1> SUFFICES ASSUME CountsOK, Control, Connection, Asserted, Kept, [Next]_vars,
                    OnTime, build \in FullBuilds,
                    failed = {}, nExit # FAILED, after # "lost"
             PROVE  failed' = {} /\ nExit' # FAILED /\ after' # "lost"
  <2>1. [Next]_vars => build' = build
    BY SameBuild
  <2> QED
    BY <2>1 DEF IInv, TypeOK, Unfailed, OnTime, FullBuilds
<1>0. build["timely"] /\ build["outlasts"] /\ build["spares"]
  BY DEF OnTime, Timing, FullBuilds, Features
<1>k. sent => /\ con = "up"
              /\ queue + wire + got = Burst
              /\ handled < 2 => queue > 0
              /\ handled # 1 => ~latch
  BY <1>0 DEF Kept
<1> USE DEF Running, SUCCESS, SETUP, FAILED, TIMEOUT
<1>1. CASE SetUp \/ AwaitPosted \/ Identify \/ Pause \/ Wakeup
  BY <1>1 DEF SetUp, AwaitPosted, Identify, Pause, Wakeup, Return, conVars
<1>2. CASE AwaitBurst
  <2>1. UNCHANGED <<nExit, after>> /\ sent
    BY <1>2 DEF AwaitBurst, conVars, Control
  <2>2. got + wire + queue = Burst
    BY <1>k, <2>1, BurstAssumption DEF CountsOK
  <2>3. UNCHANGED failed
    BY <1>0, <1>2, <2>2 DEF AwaitBurst, MayTimeOut
  <2> QED
    BY <2>1, <2>3
<1>3. CASE Look
  <2>1. UNCHANGED <<nExit, after>> /\ sent /\ got = Burst
    BY <1>3 DEF Look, conVars, Control, Asserted
  <2>2. queue = 0
    BY <1>k, <2>1, BurstAssumption DEF CountsOK
  <2>3. ~latch /\ con = "up"
    BY <1>k, <2>1, <2>2 DEF CountsOK
  <2> QED
    BY <1>3, <2>1, <2>3 DEF Look
<1>4. CASE PostAfterWake \/ CloseHubs
  BY <1>4 DEF PostAfterWake, CloseHubs, conVars
<1>5. CASE AwaitAfter
  BY <1>0, <1>5 DEF AwaitAfter, MayTimeOut, conVars
<1>6. CASE Join \/ CloseEvents
  BY <1>6 DEF Join, CloseEvents, conVars
<1>12. CASE Exit
  BY <1>12 DEF Exit, conVars
<1>7. CASE HandlePause
  <2>1. sent /\ handled = 0
    BY <1>7 DEF HandlePause, Control, CountsOK
  <2>2. con = "up" /\ queue > 0
    BY <1>k, <2>1
  <2> QED
    BY <1>0, <1>7, <2>2 DEF HandlePause, clientRest, mainVars
<1>8. CASE LoginAck \/ HandleWakeup \/ Restart \/ StartSend
  BY <1>8 DEF LoginAck, HandleWakeup, Restart, StartSend, clientRest, mainVars
<1>9. CASE HandleAfter
  <2>1. sent
    BY <1>9 DEF HandleAfter, Control, CountsOK
  <2> QED
    BY <1>9, <1>k, <2>1 DEF HandleAfter, clientRest, mainVars
<1>10. CASE CompleteSend
  <2>1. sent
    BY <1>10 DEF CompleteSend, Connection
  <2>2. ~(latch /\ queue = 0)
    BY <1>k, <2>1 DEF CountsOK
  <2> QED
    BY <1>10, <2>2 DEF CompleteSend, clientRest, mainVars
<1>11. CASE Server \/ (\E h \in Hubs : HubEnds(h)) \/ Done \/ UNCHANGED vars
  BY <1>11 DEF Server, Receive, ReceiveAfter, HubEnds, Done, vars, mainVars, conVars
<1> QED
  BY <1>1, <1>2, <1>3, <1>4, <1>5, <1>6, <1>7, <1>8, <1>9, <1>10, <1>11, <1>12
     DEF Next, Main, Client

\* On such a machine the harness passes the builds whose wakeup undoes their
\* pause, and fails the others.
THEOREM Separation == Spec => []Discriminates
<1>1. IInv /\ Unfailed => Discriminates
  <2> SUFFICES ASSUME IInv, Unfailed, OnTime, nExit \in {SUCCESS, FAILED}
               PROVE  nExit = SUCCESS <=> build \in FullBuilds
    BY DEF Discriminates, OnTime
  <2>1. nExit = SUCCESS => build \in GoodBuilds
    BY PassOnGood DEF IInv
  <2>2. build \in GoodBuilds => build \in FullBuilds
    BY DEF GoodBuilds, OnTime, Timing
  <2>3. build \in FullBuilds => nExit # FAILED
    BY DEF Unfailed
  <2> QED
    BY <2>1, <2>2, <2>3
<1> QED
  BY <1>1, UnfailedInit, UnfailedStep, Invariance, PTL DEF Spec

=============================================================================
