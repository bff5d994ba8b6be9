------------------------------- MODULE HubWake -------------------------------
(***************************************************************************)
(* p2p_hubwake: does WakeupHub undo what PauseHub did to a connection that *)
(* was carrying traffic?                                                   *)
(*                                                                         *)
(* The client hub posts a burst on its login-ack; main then pauses and     *)
(* wakes that hub, waits for the burst to arrive, looks at the connection  *)
(* and sends one message more.  A pause drops a connection that is idle    *)
(* and latches close-on-idle on one that is not; a wakeup takes the latch  *)
(* off.  The two signals and the last message reach the hub's pump in the  *)
(* order they were posted, between the sends of the burst.                 *)
(***************************************************************************)
EXTENDS Integers

CONSTANTS Builds,   \* the builds of the libraries to run against
          Burst     \* kBurst

Features  == {"logsIn",   \* the handshake completes
              "spares",   \* PauseHub only latches a connection that is busy
              "clears"}   \* WakeupHub takes the latch off
\* And of the machine:
Timing    == {"timely",   \* no wait ends while what it is for may happen
              "outlasts", \* the burst's last send starts after both signals
              "late"}     \* m_uAutoRestart outlasts main's waits
AllBuilds == [Features \union Timing -> BOOLEAN]

ASSUME BuildsAssumption == Builds \subseteq AllBuilds
ASSUME BurstAssumption  == Burst \in Nat \ {0}

VARIABLES build,    \* the build linked with
          pc,       \* main: what it does next
          failed,   \* main: the assertions that have failed
          nExit,    \* the process exit code
          posted,   \* how many of the pause, the wakeup and the last message
                    \* main has posted to the client hub
          handled,  \* how many of these its pump has handled
          sent,     \* m_bSent: the burst has been posted
          con,      \* the client's connection
          latch,    \* ConState_CloseOnIdle
          queue,    \* the burst's messages that wait to be sent
          sending,  \* m_pP2PeerMsgSend is non-null
          wire,     \* the burst's messages under way
          got,      \* g_nReceived
          after,    \* where the message posted after the wakeup is
          hub       \* each hub: "up", told to close, or its thread gone

mainVars == <<pc, failed, nExit, posted>>
conVars  == <<sent, con, latch, queue, sending, wire, after>>
vars     == <<build, mainVars, handled, conVars, got, hub>>

Hubs    == {"client", "server"}
Running == -1
\* Verdict = process EXIT CODE
SUCCESS == 0
SETUP   == 1
FAILED  == 2
TIMEOUT == 3

FullBuilds == {b \in Builds : \A f \in Features : b[f]}
\* A pass is evidence where the burst outlasts the signals, and the restart
\* main's patience.
GoodBuilds == FullBuilds \union {b \in Builds : ~b["outlasts"] \/ ~b["late"]}

\* The other harnesses return 1 for a failure and 2 for a setup.
gateExit == IF nExit \in {SETUP, FAILED} THEN 3 - nExit ELSE nExit

Gate == INSTANCE GateVerdict WITH Good <- GoodBuilds, exit <- gateExit

Init ==
    /\ build \in Builds
    /\ pc = "setup" /\ failed = {} /\ nExit = Running
    /\ posted = 0 /\ handled = 0
    /\ sent = FALSE /\ con = "down" /\ latch = FALSE /\ queue = 0 /\ sending = FALSE
    /\ wire = 0 /\ got = 0 /\ after = "unsent"
    /\ hub = [h \in Hubs |-> "up"]

-----------------------------------------------------------------------------
(* Main *)

\* A wait for something may end without it.
MayTimeOut(possible) == ~build["timely"] \/ ~possible

Return(code) ==
    pc' = "done" /\ nExit' = code /\ UNCHANGED <<failed, posted>>

\* The events, the hubs, the service and the client connection.
SetUp ==
    /\ pc = "setup"
    /\ \/ pc' = "dialled" /\ UNCHANGED <<failed, nExit, posted>>
       \/ Return(SETUP)
    /\ UNCHANGED <<build, handled, conVars, got, hub>>

AwaitPosted ==
    /\ pc = "dialled"
    /\ \/ sent /\ pc' = "identify" /\ UNCHANGED <<failed, nExit, posted>>
       \/ ~sent /\ MayTimeOut(build["logsIn"]) /\ Return(TIMEOUT)
    /\ UNCHANGED <<build, handled, conVars, got, hub>>

\* ConQuery before the pause.
Identify ==
    /\ pc = "identify"
    /\ IF con = "down"
       THEN Return(SETUP)
       ELSE pc' = "pause" /\ UNCHANGED <<failed, nExit, posted>>
    /\ UNCHANGED <<build, handled, conVars, got, hub>>

\* PauseHub and WakeupHub, from main: a signal each.
Pause ==
    /\ pc = "pause" /\ posted' = 1 /\ pc' = "wakeup"
    /\ UNCHANGED <<build, failed, nExit, handled, conVars, got, hub>>

Wakeup ==
    /\ pc = "wakeup" /\ posted' = 2 /\ pc' = "burst"
    /\ UNCHANGED <<build, failed, nExit, handled, conVars, got, hub>>

\* Mutant: the wait for the burst has no time to give.
AwaitBurstPoll ==
    /\ pc = "burst" /\ pc' = "look"
    /\ \/ got = Burst /\ UNCHANGED failed
       \/ got # Burst /\ failed' = failed \union {1}
    /\ UNCHANGED <<build, nExit, posted, handled, conVars, got, hub>>

\* 1. The whole burst arrives.
AwaitBurst ==
    /\ pc = "burst" /\ pc' = "look"
    /\ \/ got = Burst /\ UNCHANGED failed
       \/ /\ got # Burst /\ MayTimeOut(got + wire + queue = Burst)
          /\ failed' = failed \union {1}
    /\ UNCHANGED <<build, nExit, posted, handled, conVars, got, hub>>

\* Mutant: assertion 2 does not look at the latch.
LookAnyLatch ==
    /\ pc = "look" /\ pc' = "after"
    /\ \/ UNCHANGED failed
       \/ con = "dropped" /\ failed' = failed \union {2}
    /\ UNCHANGED <<build, nExit, posted, handled, conVars, got, hub>>

\* 2. The connection is there and its latch is off.  A connection that was
\* dropped is found, with a clean state, or not.
Look ==
    /\ pc = "look" /\ pc' = "after"
    /\ \/ ~latch /\ UNCHANGED failed
       \/ (latch \/ con = "dropped") /\ failed' = failed \union {2}
    /\ UNCHANGED <<build, nExit, posted, handled, conVars, got, hub>>

\* 3. A message is posted, if nothing has failed,
PostAfterWake ==
    /\ pc = "after"
    /\ IF failed = {} THEN posted' = 3 /\ pc' = "awaitAfter"
       ELSE pc' = "close" /\ UNCHANGED posted
    /\ UNCHANGED <<build, failed, nExit, handled, conVars, got, hub>>

\* Mutant: the last message may be late.
AwaitAfterLate ==
    /\ pc = "awaitAfter" /\ pc' = "close"
    /\ after = "seen" \/ MayTimeOut(after # "lost")
    /\ failed' = IF after = "lost" THEN failed \union {3} ELSE failed
    /\ UNCHANGED <<build, nExit, posted, handled, conVars, got, hub>>

\* and arrives.
AwaitAfter ==
    /\ pc = "awaitAfter" /\ pc' = "close"
    /\ \/ after = "seen" /\ UNCHANGED failed
       \/ /\ after # "seen" /\ MayTimeOut(after # "lost")
          /\ failed' = failed \union {3}
    /\ UNCHANGED <<build, nExit, posted, handled, conVars, got, hub>>

CloseHubs ==
    /\ pc = "close" /\ pc' = "join"
    /\ hub' = [h \in Hubs |-> "closing"]
    /\ UNCHANGED <<build, failed, nExit, posted, handled, conVars, got>>

\* Both threads are waited for, five seconds each; what the waits say is not
\* looked at.
Join ==
    /\ pc = "join" /\ pc' = "cleanup"
    /\ (\A h \in Hubs : hub[h] = "gone") \/ MayTimeOut(TRUE)
    /\ UNCHANGED <<build, failed, nExit, posted, handled, conVars, got, hub>>

\* CleanupP2Pmsg, and the three events' handles are closed.
CloseEvents ==
    /\ pc = "cleanup" /\ pc' = "exit"
    /\ UNCHANGED <<build, failed, nExit, posted, handled, conVars, got, hub>>

Exit ==
    /\ pc = "exit" /\ pc' = "done"
    /\ nExit' = IF failed = {} THEN SUCCESS ELSE FAILED
    /\ UNCHANGED <<build, failed, posted, handled, conVars, got, hub>>

Main == SetUp \/ AwaitPosted \/ Identify \/ Pause \/ Wakeup \/ AwaitBurst \/ Look
        \/ PostAfterWake \/ AwaitAfter \/ CloseHubs \/ Join \/ CloseEvents \/ Exit

-----------------------------------------------------------------------------
(* The client hub *)

clientRest == <<build, mainVars, got, hub>>

\* A hub's thread runs until it has ended, or the process has.
Runs(h) == hub[h] # "gone" /\ nExit = Running

\* The login-ack: m_bSent is set, the burst is posted, and main is told.
LoginAck ==
    /\ Runs("client") /\ pc # "setup" /\ build["logsIn"] /\ ~sent
    /\ sent' = TRUE /\ con' = "up" /\ queue' = Burst
    /\ UNCHANGED <<clientRest, handled, latch, sending, wire, after>>

\* The connection goes, with what waits in it and any part of what is under way.
Drop ==
    /\ con' = "dropped" /\ latch' = FALSE /\ queue' = 0 /\ sending' = FALSE
    /\ wire' \in 0..wire
    /\ \/ after \in {"queued", "wire"} /\ after' = "lost"
       \/ after # "queued" /\ UNCHANGED after
    /\ UNCHANGED sent

\* The default handler restarts a client; its login-ack posts no second burst.
Restart ==
    /\ Runs("client") /\ con = "dropped" /\ ~build["late"]
    /\ con' = "up"
    /\ UNCHANGED <<clientRest, handled, sent, latch, queue, sending, wire, after>>

\* Mutant: the pause drops what is sending its last message.
HandlePauseQueue ==
    /\ Runs("client") /\ handled = 0 /\ posted > 0 /\ handled' = 1
    /\ \/ con = "up" /\ build["spares"] /\ queue > 1
          /\ latch' = TRUE /\ UNCHANGED <<sent, con, queue, sending, wire, after>>
       \/ con = "up" /\ ~(build["spares"] /\ queue > 1) /\ Drop
    /\ UNCHANGED clientRest

\* P2PsigHub_PAUSE: a busy connection is latched, an idle one dropped.
HandlePause ==
    /\ Runs("client") /\ handled = 0 /\ posted > 0 /\ handled' = 1
    /\ LET spared == build["spares"] /\ (sending \/ queue > 0)
       IN  \/ con = "up" /\ spared
              /\ latch' = TRUE /\ UNCHANGED <<sent, con, queue, sending, wire, after>>
           \/ con = "up" /\ ~spared /\ Drop
    /\ UNCHANGED clientRest

\* P2PsigHub_WAKEUP: the inverse of the latch.
HandleWakeup ==
    /\ Runs("client") /\ handled = 1 /\ posted > 1 /\ handled' = 2
    /\ latch' = IF build["clears"] THEN FALSE ELSE latch
    /\ UNCHANGED <<clientRest, sent, con, queue, sending, wire, after>>

\* The last message finds the connection or it does not.
HandleAfter ==
    /\ Runs("client") /\ handled = 2 /\ posted > 2 /\ handled' = 3
    /\ after' = IF con = "up" THEN "queued" ELSE "lost"
    /\ UNCHANGED <<clientRest, sent, con, latch, queue, sending, wire>>

\* The next message is given to the socket.
StartSend ==
    /\ Runs("client") /\ con = "up" /\ ~sending
    /\ \/ /\ queue > 0
          /\ build["outlasts"] /\ queue = 1 => handled >= 2
          /\ queue' = queue - 1 /\ wire' = wire + 1 /\ UNCHANGED after
       \/ queue = 0 /\ after = "queued" /\ after' = "wire" /\ UNCHANGED <<queue, wire>>
    /\ sending' = TRUE
    /\ UNCHANGED <<clientRest, handled, sent, con, latch>>

\* The send completes; a latched connection with nothing more to send closes.
CompleteSend ==
    /\ Runs("client") /\ sending
    /\ IF latch /\ queue = 0 /\ after # "queued"
       THEN Drop
       ELSE sending' = FALSE /\ UNCHANGED <<sent, con, latch, queue, wire, after>>
    /\ UNCHANGED <<clientRest, handled>>

Client == LoginAck \/ HandlePause \/ HandleWakeup \/ HandleAfter \/ StartSend \/ CompleteSend

-----------------------------------------------------------------------------
(* The server hub *)

\* On_P2PeerBCast counts a message of the burst,
Receive ==
    /\ Runs("server") /\ wire > 0
    /\ wire' = wire - 1 /\ got' = got + 1
    /\ UNCHANGED <<build, mainVars, handled, sent, con, latch, queue, sending, after, hub>>

\* or knows the other one by its tag.
ReceiveAfter ==
    /\ Runs("server") /\ wire = 0 /\ after = "wire"
    /\ after' = "seen"
    /\ UNCHANGED <<build, mainVars, handled, sent, con, latch, queue, sending, wire, got, hub>>

\* A hub told to close ends its thread.
HubEnds(h) ==
    /\ Runs(h) /\ hub[h] = "closing"
    /\ hub' = [hub EXCEPT ![h] = "gone"]
    /\ UNCHANGED <<build, mainVars, handled, conVars, got>>

Server == Receive \/ ReceiveAfter

Done == pc = "done" /\ UNCHANGED vars

Next == Main \/ Client \/ Restart \/ Server \/ (\E h \in Hubs : HubEnds(h)) \/ Done

Spec == Init /\ [][Next]_vars

-----------------------------------------------------------------------------
(* Properties *)

MainOK ==
    /\ build \in Builds
    /\ pc \in {"setup", "dialled", "identify", "pause", "wakeup", "burst", "look", "after",
               "awaitAfter", "close", "join", "cleanup", "exit", "done"}
    /\ failed \in SUBSET {1, 2, 3}
    /\ nExit \in {Running, SUCCESS, SETUP, FAILED, TIMEOUT}

CountsOK ==
    /\ posted \in 0..3 /\ handled \in 0..posted
    /\ queue \in 0..Burst /\ wire \in 0..Burst /\ got \in 0..Burst
    /\ queue + wire + got <= Burst

ConOK ==
    /\ sent \in BOOLEAN /\ latch \in BOOLEAN /\ sending \in BOOLEAN
    /\ con \in {"down", "up", "dropped"}
    /\ after \in {"unsent", "queued", "wire", "seen", "lost"}
    /\ hub \in [Hubs -> {"up", "closing", "gone"}]

TypeOK == MainOK /\ CountsOK /\ ConOK

\* While the burst outlasts the signals and the restart main's patience, 0 is
\* returned only by a build whose wakeup undoes its pause, however short the
\* waits.
PassIsEvidence == Gate!GateSpec

\* "pause/wake loses no traffic" (p2p_hubwake.cpp:45): if both signals are
\* handled before the last send starts, every message of the burst is waiting,
\* under way or received, in whatever order sends and signals are handled.
NothingLost ==
    build \in FullBuilds /\ build["outlasts"] /\ sent => queue + wire + got = Burst

\* With waits that are long enough the verdict separates the builds.
Discriminates ==
    (\A t \in Timing : build[t]) /\ nExit \in {SUCCESS, FAILED}
    => (nExit = SUCCESS <=> build \in FullBuilds)

\* What a hub's thread does that sets one of the three events.
SetsEvent ==
    \/ ~sent /\ sent'                        \* g_hBurstPosted
    \/ got # Burst /\ got' = Burst           \* g_hBurstDone
    \/ after # "seen" /\ after' = "seen"     \* g_hAfterSeen

\* Hazard (p2p_hubwake.cpp:359): the handles are closed after joins that may have
\* given up, and the handlers test them against NULL only.  A thread that is
\* still running then sets none of them in a run that returns 0, however slow the
\* machine: there it has set all of them.  Nor does it in a run that fails where
\* main's waits for the messages are long enough: what main has not seen by then,
\* no thread is going to.
ClosedEventsStayUnset ==
    [][pc = "exit" /\ SetsEvent => failed # {} /\ ~build["timely"]]_vars
=============================================================================
