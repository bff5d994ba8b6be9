------------------------------ MODULE LinkCost ------------------------------
(***************************************************************************)
(* p2p_linkcost.cpp: what each part of the link's protection costs.        *)
(*                                                                         *)
(* For each posture main brings up three hubs, has Alice post N messages   *)
(* to Carol through the middle with at most a window of them in flight,    *)
(* and waits until Carol's pump has counted them.  The counters and the    *)
(* events are globals, reset for each posture; joins are bounded, so that  *)
(* the pump of an earlier posture may still run in a later one.  What a    *)
(* run costs, and the primitives timed after it, are left out.             *)
(***************************************************************************)
EXTENDS Integers, Sequences

CONSTANTS kPostures,  \* how many postures
          nCount,     \* messages per posture
          g_nWindow   \* messages in flight

CostAssumption ==
    /\ kPostures \in Nat \ {0} /\ nCount \in Nat \ {0} /\ g_nWindow \in Nat \ {0}

VARIABLES build,       \* [fault, slow]: fixed for the run
          pc, i,       \* where main is, and the posture it runs
          posted,      \* messages posted in this posture
          g_nRecv, g_nInFlight,
          g_hDrain, g_hDone, g_hReady,    \* auto-reset events: set or not
          acked,       \* clients whose login was acknowledged in this posture
          wire,        \* for each posture, messages on their way to its Carol
          carol,       \* for each posture, where its Carol's pump is
          left,        \* postures some of whose pumps main has left running
          row,         \* bComplete for each posture that ran
          nExit,       \* main's verdict so far
          handled,     \* history: messages each Carol counted
          exit         \* Running, Crashed, or the exit code

eventVars == <<g_hDrain, g_hDone, g_hReady>>
countVars == <<g_nRecv, g_nInFlight, handled>>
pumpVars  == <<wire, carol>>
mainVars  == <<pc, i, posted, left, row, nExit>>
vars      == <<build, mainVars, countVars, eventVars, acked, pumpVars, exit>>

Running == -1
Crashed == -2

Postures == 1..kPostures
Faults   == {"none", "loses", "refuses"}

Init ==
    /\ build \in [fault : Faults, slow : BOOLEAN]
    /\ pc = "startup" /\ i = 1 /\ posted = 0 /\ left = {} /\ row = <<>> /\ nExit = 0
    /\ g_nRecv = 0 /\ g_nInFlight = 0 /\ handled = [p \in Postures |-> 0]
    /\ g_hDrain = FALSE /\ g_hDone = FALSE /\ g_hReady = FALSE
    /\ acked = {}
    /\ wire = [p \in Postures |-> 0]
    /\ carol = [p \in Postures |-> "unborn"]
    /\ exit = Running

-----------------------------------------------------------------------------
(* Carol's pump: On_P2PeerBCast *)

\* Mutant: a slot is announced when there is none.
ReceiveFull(p) ==
    /\ carol[p] = "idle" /\ wire[p] > 0
    /\ wire' = [wire EXCEPT ![p] = @ - 1]
    /\ g_nInFlight' = g_nInFlight - 1
    /\ carol' = [carol EXCEPT ![p] = IF g_nInFlight' >= g_nWindow THEN "released" ELSE "signalled"]
    /\ UNCHANGED <<g_nRecv, handled, eventVars>>

\* It takes a message, whatever its length (a wrong one is only recorded), and
\* releases a slot of the window ...
Receive(p) ==
    /\ carol[p] = "idle" /\ wire[p] > 0
    /\ wire' = [wire EXCEPT ![p] = @ - 1]
    /\ g_nInFlight' = g_nInFlight - 1
    /\ carol' = [carol EXCEPT ![p] = IF g_nInFlight' < g_nWindow THEN "released" ELSE "signalled"]
    /\ UNCHANGED <<g_nRecv, handled, eventVars>>

\* ... says so ...
SignalDrain(p) ==
    /\ carol[p] = "released"
    /\ g_hDrain' = TRUE
    /\ carol' = [carol EXCEPT ![p] = "signalled"]
    /\ UNCHANGED <<wire, countVars, g_hDone, g_hReady>>

\* ... counts the message ...
Count(p) ==
    /\ carol[p] = "signalled"
    /\ g_nRecv' = g_nRecv + 1
    /\ handled' = [handled EXCEPT ![p] = @ + 1]
    /\ carol' = [carol EXCEPT ![p] = IF g_nRecv' >= nCount THEN "counted" ELSE "idle"]
    /\ UNCHANGED <<wire, g_nInFlight, eventVars>>

\* ... and says so when all have come.
SignalDone(p) ==
    /\ carol[p] = "counted"
    /\ g_hDone' = TRUE
    /\ carol' = [carol EXCEPT ![p] = "idle"]
    /\ UNCHANGED <<wire, countVars, g_hDrain, g_hReady>>

\* A pump main no longer waits for ends when it gets round to it.
EndLate(p) ==
    /\ carol[p] = "idle" /\ p \in left
    /\ carol' = [carol EXCEPT ![p] = "ended"]
    /\ wire' = [wire EXCEPT ![p] = 0]
    /\ UNCHANGED <<countVars, eventVars>>

Carol(p) ==
    /\ exit = Running
    /\ Receive(p) \/ SignalDrain(p) \/ Count(p) \/ SignalDone(p) \/ EndLate(p)
    /\ UNCHANGED <<build, mainVars, acked, exit>>

\* Its hub is gone: whatever the pump does next may be its last.
Crash ==
    /\ exit = Running
    /\ \E p \in left : carol[p] # "ended"
    /\ exit' = Crashed
    /\ UNCHANGED <<build, mainVars, countVars, eventVars, acked, pumpVars>>

\* A login is acknowledged: every client's handler sets the one event.
LoginAck ==
    /\ exit = Running /\ build.fault # "refuses"
    /\ \/ pc = "carol" /\ acked = {} /\ acked' = {"Carol"}
       \/ pc = "alice" /\ acked = {"Carol"} /\ acked' = {"Carol", "Alice"}
    /\ g_hReady' = TRUE
    /\ UNCHANGED <<build, mainVars, countVars, g_hDrain, g_hDone, pumpVars, exit>>

\* A build that loses messages on their way.
Lose(p) ==
    /\ exit = Running /\ build.fault = "loses" /\ wire[p] > 0
    /\ wire' = [wire EXCEPT ![p] = @ - 1]
    /\ UNCHANGED <<build, mainVars, countVars, eventVars, acked, carol, exit>>

-----------------------------------------------------------------------------
(* Main *)

At(label) == exit = Running /\ pc = label

\* No wait of a machine that is not slow ends while the pumps have work.
MayTimeOut == build.slow \/ (wire[i] = 0 /\ carol[i] = "idle")

\* StartupP2Pmsg, Provision.
Startup ==
    /\ At("startup")
    /\ \/ pc' = "posture" /\ UNCHANGED nExit
       \/ pc' = "return" /\ nExit' = 2
    /\ UNCHANGED <<i, posted, left, row, countVars, eventVars, acked, pumpVars, exit>>

\* Mutant: the events are as the last posture left them.
ResetCounts ==
    /\ At("posture")
    /\ pc' = "carol" /\ posted' = 0 /\ acked' = {}
    /\ g_nRecv' = 0 /\ g_nInFlight' = 0
    /\ carol' = [carol EXCEPT ![i] = "idle"]
    /\ UNCHANGED <<i, left, row, nExit, handled, eventVars, wire, exit>>

\* The counters and the events are reset; the middle and Carol come up.
Posture ==
    /\ At("posture")
    /\ pc' = "carol" /\ posted' = 0 /\ acked' = {}
    /\ g_nRecv' = 0 /\ g_nInFlight' = 0
    /\ g_hDrain' = FALSE /\ g_hDone' = FALSE /\ g_hReady' = FALSE
    /\ carol' = [carol EXCEPT ![i] = "idle"]
    /\ UNCHANGED <<i, left, row, nExit, handled, wire, exit>>

\* Provisioning and spawning may fail, and a login may not come; RunPosture
\* returns false then.  The hubs that are up are destroyed without being closed.
SetupFailed ==
    /\ pc \in {"posture", "carol", "alice"} /\ exit = Running
    /\ pc' = "return" /\ nExit' = 2
    /\ left' \in {left, left \cup {i}}
    /\ UNCHANGED <<i, posted, row, countVars, eventVars, acked, pumpVars, exit>>

LoggedIn ==
    /\ exit = Running /\ g_hReady
    /\ \/ pc = "carol" /\ pc' = "alice"
       \/ pc = "alice" /\ pc' = "window"
    /\ g_hReady' = FALSE
    /\ UNCHANGED <<i, posted, left, row, nExit, countVars, g_hDrain, g_hDone, acked, pumpVars,
                   exit>>

\* Is there room in the window?
CheckWindow ==
    /\ At("window")
    /\ pc' = IF posted = nCount THEN "finish"
             ELSE IF g_nInFlight >= g_nWindow THEN "drain" ELSE "post"
    /\ UNCHANGED <<i, posted, left, row, nExit, countVars, eventVars, acked, pumpVars, exit>>

\* Mutant: what the event said is believed.
DrainedOnce ==
    /\ At("drain") /\ g_hDrain
    /\ g_hDrain' = FALSE
    /\ pc' = "post"
    /\ UNCHANGED <<i, posted, left, row, nExit, countVars, g_hDone, g_hReady, acked, pumpVars,
                   exit>>

Drained ==
    /\ At("drain") /\ g_hDrain
    /\ g_hDrain' = FALSE
    /\ pc' = "window"
    /\ UNCHANGED <<i, posted, left, row, nExit, countVars, g_hDone, g_hReady, acked, pumpVars,
                   exit>>

EndRow(bComplete) ==
    /\ row' = Append(row, bComplete)
    /\ pc' = "close"

Stalled ==
    /\ At("drain") /\ ~g_hDrain /\ MayTimeOut
    /\ EndRow(FALSE)
    /\ UNCHANGED <<i, posted, left, nExit, countVars, eventVars, acked, pumpVars, exit>>

Post ==
    /\ At("post")
    /\ g_nInFlight' = g_nInFlight + 1
    /\ wire' = [wire EXCEPT ![i] = @ + 1]
    /\ posted' = posted + 1
    /\ pc' = "window"
    /\ UNCHANGED <<i, left, row, nExit, g_nRecv, handled, eventVars, acked, carol, exit>>

Finish ==
    /\ At("finish")
    /\ IF g_nRecv >= nCount THEN EndRow(TRUE) ELSE pc' = "done" /\ UNCHANGED row
    /\ UNCHANGED <<i, posted, left, nExit, countVars, eventVars, acked, pumpVars, exit>>

Done ==
    /\ At("done")
    /\ \/ g_hDone /\ EndRow(TRUE) /\ g_hDone' = FALSE
       \/ ~g_hDone /\ MayTimeOut /\ EndRow(FALSE) /\ UNCHANGED g_hDone
    /\ UNCHANGED <<i, posted, left, nExit, countVars, g_hDrain, g_hReady, acked, pumpVars, exit>>

NextPosture ==
    /\ i' = IF i < kPostures THEN i + 1 ELSE i
    /\ pc' = IF i < kPostures THEN "posture" ELSE "return"

\* A posture that is incomplete makes the run incomplete.
Verdict == IF ~row[i] /\ nExit = 0 THEN 3 ELSE nExit

\* The hubs are closed and joined, and their connections with them.
Closed ==
    /\ At("close") /\ carol[i] = "idle"
    /\ carol' = [carol EXCEPT ![i] = "ended"]
    /\ wire' = [wire EXCEPT ![i] = 0]
    /\ nExit' = Verdict
    /\ NextPosture
    /\ UNCHANGED <<posted, left, row, countVars, eventVars, acked, exit>>

\* The join gives up after five seconds, and the hub is destroyed.
Abandoned ==
    /\ At("close") /\ build.slow
    /\ left' = left \cup {i}
    /\ nExit' = Verdict
    /\ NextPosture
    /\ UNCHANGED <<posted, row, countVars, eventVars, acked, pumpVars, exit>>

Return ==
    /\ At("return")
    /\ exit' = nExit
    /\ UNCHANGED <<mainVars, countVars, eventVars, acked, pumpVars>>

Main ==
    /\ \/ Startup \/ Posture \/ SetupFailed \/ LoggedIn \/ CheckWindow \/ Drained \/ Stalled
       \/ Post \/ Finish \/ Done \/ Closed \/ Abandoned \/ Return
    /\ UNCHANGED build

Over == exit # Running /\ UNCHANGED vars

Next ==
    \/ Main \/ LoginAck \/ Crash \/ Over
    \/ \E p \in Postures : Carol(p) \/ Lose(p)

\* Main and the pumps are threads the system schedules.
Spec ==
    /\ Init /\ [][Next]_vars
    /\ WF_vars(Main) /\ \A p \in Postures : WF_vars(Carol(p))
-----------------------------------------------------------------------------
TypeOK ==
    /\ build \in [fault : Faults, slow : BOOLEAN]
    /\ pc \in {"startup", "posture", "carol", "alice", "window", "drain", "post", "finish",
              "done", "close", "return"}
    /\ i \in Postures /\ posted \in 0..nCount
    /\ g_nRecv \in Nat /\ g_nInFlight \in Int
    /\ eventVars \in BOOLEAN \X BOOLEAN \X BOOLEAN
    /\ acked \subseteq {"Carol", "Alice"}
    /\ wire \in [Postures -> 0..nCount] /\ handled \in [Postures -> 0..nCount]
    /\ carol \in [Postures -> {"unborn", "idle", "released", "signalled", "counted", "ended"}]
    /\ left \subseteq Postures
    /\ row \in Seq(BOOLEAN) /\ Len(row) <= kPostures
    /\ nExit \in {0, 2, 3} /\ exit \in {Running, Crashed, 0, 2, 3}

\* Hazard (p2p_linkcost.cpp:546): what a posture is told by, its successor is
\* told by too.  The run is OK only if every posture's own Carol counted every
\* message, however slow the machine; the one thing that can make it lie is an
\* earlier posture's pump that outlives its join.
OkIsComplete ==
    exit = 0 =>
        \A p \in Postures : handled[p] = nCount \/ \E q \in left : q < p

\* Hazard (p2p_linkcost.cpp:679): the event says that there was room, the counter
\* whether there is.  Unless such a pump takes from the counter, it never falls
\* short of what is on its way, and never exceeds the window.
WindowHolds ==
    left = {} /\ exit = Running => wire[i] <= g_nInFlight /\ g_nInFlight <= g_nWindow

\* Hazard (p2p_linkcost.cpp:681): main sleeps between looking at the counter and
\* waiting for the event.  On a machine that is not slow no message Carol took
\* goes unnoticed: only a build that loses one stalls.
OnlyLossStalls ==
    exit = 3 => build.slow \/ build.fault = "loses"

\* Main returns, also from a build that loses messages or answers no login.
MainReturns == <>(exit # Running)
=============================================================================
