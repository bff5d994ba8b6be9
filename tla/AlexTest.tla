------------------------------ MODULE AlexTest ------------------------------
(***************************************************************************)
(* alex_test.cpp with run_alex_test.sh and run_alex_test.ps1: a script, a  *)
(* server and a client, three processes that share a port and exit codes.  *)
(*                                                                         *)
(* Each waits by the clock, so the clock is part of the model.  A process  *)
(* is a record of where it is, since when, and what it returned; a timer   *)
(* is the time passed since then.  On a machine that is not slow no step   *)
(* is put off by more than kDelay, except the login: how long a handshake  *)
(* takes is the library's affair, and what the client's wait is for.  On a *)
(* slow one any step may come after any other's timer, so that there the   *)
(* clock stands and timers end at will.                                    *)
(***************************************************************************)
EXTENDS Integers

CONSTANTS kHeadStart,   \* the script's sleep before it runs the client
          kServerWait,  \* the server's wait for the message
          kClientWait,  \* the client's wait for the login
          kFlush,       \* the client's sleep before it closes
          kJoin,        \* the wait for a hub's thread
          kReap,        \* the PowerShell script's wait for the server
          kTimeout,     \* CTest's patience with the script
          kDelay        \* what a machine that is not slow puts a step off by

\* 1.5, 15, 10, 1.5, 3, 15 and 60 seconds.
ClockAssumption ==
    /\ {kHeadStart, kServerWait, kClientWait, kFlush, kJoin, kReap, kTimeout, kDelay} \subseteq Nat
    \* The client sleeps longer than a message takes to cross.
    /\ kDelay < kFlush
    \* The launches, the client's last moment and the crossing may each be late.
    /\ kHeadStart + kClientWait + 4 * kDelay < kServerWait
    \* The server's hub is joined before the script gives up, also if the message
    \* of a client that timed out crosses at the server's last moment.
    /\ kJoin + kDelay < kReap
    /\ kServerWait + kJoin + 3 * kDelay < kHeadStart + kClientWait + kFlush + kReap

VARIABLES build,    \* [fault, slow, shell]: fixed for the run
          now,      \* the clock
          script,   \* the script's process
          server,   \* the server's process
          client,   \* the client's process
          wire,     \* the message: "none", "sent", "crossed", "lost"
          killed    \* the script killed the server

vars == <<build, now, script, server, client, wire, killed>>

NoCode == -1
Faults == {"none", "loses", "noLogin", "noServer", "noClient"}

Timely == ~build.slow

Idle == [at |-> "off", since |-> 0, rc |-> NoCode]

Init ==
    /\ build \in [fault : Faults, slow : BOOLEAN, shell : {"sh", "ps1"}]
    /\ now = 0
    /\ script = [Idle EXCEPT !.at = "launch"]
    /\ server = Idle /\ client = Idle
    /\ wire = "none" /\ killed = FALSE

Enter(process, label) == [at |-> label, since |-> now, rc |-> process.rc]
Exit(process, code)   == [at |-> "exited", since |-> now, rc |-> code]

Passed(process, duration) == build.slow \/ now - process.since >= duration

-----------------------------------------------------------------------------
(* The server *)

\* Startup, the hub and the service connection: from here the wait runs.
Bind ==
    /\ server.at = "started"
    /\ server' = IF build.fault = "noServer" THEN Exit(server, 1) ELSE Enter(server, "waiting")
    /\ UNCHANGED <<build, now, script, client, wire, killed>>

\* The handler of a message sets the event.  One that is handled later, by a hub
\* that is being closed, is not heard: the wait is over.
Cross ==
    /\ wire = "sent" /\ build.fault # "loses"
    /\ server.at = "waiting"
    /\ wire' = "crossed"
    /\ server' = [Enter(server, "closing") EXCEPT !.rc = 0]
    /\ UNCHANGED <<build, now, script, client, killed>>

\* Mutant: the server waits as long as the client does.
ServerTimedOutEarly ==
    /\ server.at = "waiting" /\ Passed(server, kClientWait)
    /\ server' = [Enter(server, "closing") EXCEPT !.rc = 3]
    /\ UNCHANGED <<build, now, script, client, wire, killed>>

ServerTimedOut ==
    /\ server.at = "waiting" /\ Passed(server, kServerWait)
    /\ server' = [Enter(server, "closing") EXCEPT !.rc = 3]
    /\ UNCHANGED <<build, now, script, client, wire, killed>>

\* CloseHub, and a join that takes its time up to the limit.
ServerExits ==
    /\ server.at = "closing"
    /\ server' = Exit(server, server.rc)
    /\ UNCHANGED <<build, now, script, client, wire, killed>>

-----------------------------------------------------------------------------
(* The client *)

Connect ==
    /\ client.at = "started"
    /\ client' = IF build.fault = "noClient" THEN Exit(client, 1) ELSE Enter(client, "waiting")
    /\ UNCHANGED <<build, now, script, server, wire, killed>>

\* On_ConLoginAck posts the message and sets the event, which may be too late
\* for the wait, and both hubs are up until they are closed.  What is posted to
\* one that is being closed may be gone.
LoginAck ==
    /\ server.at \in {"waiting", "closing"} /\ wire = "none" /\ build.fault # "noLogin"
    /\ \/ client.at = "waiting" /\ client' = [Enter(client, "flushing") EXCEPT !.rc = 0]
       \/ client.at \in {"flushing", "closing"} /\ UNCHANGED client
    /\ wire' \in IF client.at = "closing" THEN {"sent", "lost"} ELSE {"sent"}
    /\ UNCHANGED <<build, now, script, server, killed>>

ClientTimedOut ==
    /\ client.at = "waiting" /\ Passed(client, kClientWait)
    /\ client' = [Enter(client, "flushing") EXCEPT !.rc = 3]
    /\ UNCHANGED <<build, now, script, server, wire, killed>>

\* Sleep, then CloseHub: what has not crossed by now may be gone.
Flushed ==
    /\ client.at = "flushing" /\ Passed(client, kFlush)
    /\ client' = Enter(client, "closing")
    /\ wire' \in IF wire = "sent" THEN {"sent", "lost"} ELSE {wire}
    /\ UNCHANGED <<build, now, script, server, killed>>

ClientExits ==
    /\ client.at = "closing"
    /\ client' = Exit(client, client.rc)
    /\ UNCHANGED <<build, now, script, server, wire, killed>>

-----------------------------------------------------------------------------
(* The script *)

Launch ==
    /\ script.at = "launch"
    /\ server' = Enter(server, "started")
    /\ script' = Enter(script, "sleep")
    /\ UNCHANGED <<build, now, client, wire, killed>>

RunClient ==
    /\ script.at = "sleep" /\ Passed(script, kHeadStart)
    /\ client' = Enter(client, "started")
    /\ script' = Enter(script, "client")
    /\ UNCHANGED <<build, now, server, wire, killed>>

ClientDone ==
    /\ script.at = "client" /\ client.at = "exited"
    /\ script' = Enter(script, "reap")
    /\ UNCHANGED <<build, now, server, client, wire, killed>>

\* Mutant: the client's word is enough.
VerdictOfClient == IF client.rc = 0 THEN 0 ELSE 1

Verdict == IF server.rc = 0 /\ client.rc = 0 THEN 0 ELSE 1

Reaped ==
    /\ script.at = "reap" /\ server.at = "exited"
    /\ script' = Exit(script, Verdict)
    /\ UNCHANGED <<build, now, server, client, wire, killed>>

\* Mutant: the server is given no time once the client is done.
KillAtOnce ==
    /\ script.at = "reap" /\ build.shell = "ps1" /\ server.at # "exited"
    /\ killed' = TRUE
    /\ server' = Exit(server, 1)
    /\ UNCHANGED <<build, now, script, client, wire>>

\* WaitForExit gives up: the server is killed, and has no exit code of its own.
Kill ==
    /\ script.at = "reap" /\ build.shell = "ps1" /\ server.at # "exited"
    /\ Passed(script, kReap)
    /\ killed' = TRUE
    /\ server' = Exit(server, 1)
    /\ UNCHANGED <<build, now, script, client, wire>>

-----------------------------------------------------------------------------
(* The clock *)

\* What a process that is there has to do within, on a machine that is not slow.
Limit(process) ==
    CASE process.at \in {"off", "exited"} -> kTimeout
      [] process.at = "closing"           -> kJoin + kDelay
      [] process.at = "flushing"          -> kFlush + kDelay
      [] process.at \in {"started", "launch"} -> kDelay
      [] process.at = "sleep"             -> kHeadStart + kDelay
      [] OTHER                            -> kTimeout

Overdue ==
    \/ \E process \in {script, server, client} :
        process.at \notin {"off", "exited"} /\ Passed(process, Limit(process))
    \/ server.at = "waiting" /\ Passed(server, kServerWait + kDelay)
    \/ client.at = "waiting" /\ Passed(client, kClientWait + kDelay)
    \/ client.at = "flushing" /\ client.rc = 0 /\ wire = "sent" /\ build.fault # "loses"
        /\ server.at = "waiting" /\ Passed(client, kDelay)
    \/ script.at = "client" /\ client.at = "exited" /\ Passed(client, kDelay)
    \/ script.at = "reap" /\ server.at = "exited" /\ Passed(server, kDelay)
        /\ Passed(script, kDelay)
    \/ script.at = "reap" /\ build.shell = "ps1" /\ Passed(script, kReap + kDelay)

Tick ==
    /\ Timely /\ script.at # "exited" /\ now < kTimeout
    /\ ~Overdue
    /\ now' = now + 1
    /\ UNCHANGED <<build, script, server, client, wire, killed>>

\* CTest stops a script it has lost patience with.
GivenUp ==
    /\ Passed(Idle, kTimeout) /\ script.at # "exited"
    /\ script' = Exit(script, 1)
    /\ UNCHANGED <<build, now, server, client, wire, killed>>

Over == script.at = "exited" /\ UNCHANGED vars

Server == Bind \/ Cross \/ ServerTimedOut \/ ServerExits
Client == Connect \/ LoginAck \/ ClientTimedOut \/ Flushed \/ ClientExits
Script == Launch \/ RunClient \/ ClientDone \/ Reaped \/ Kill

Next ==
    \/ script.at # "exited" /\ (Server \/ Client \/ Script)
    \/ Tick \/ GivenUp \/ Over

Spec == Init /\ [][Next]_vars

-----------------------------------------------------------------------------
Processes == [at : {"off", "launch", "sleep", "client", "reap", "started", "waiting", "flushing",
                    "closing", "exited"}, since : 0..kTimeout, rc : {NoCode, 0, 1, 3}]

TypeOK ==
    /\ build \in [fault : Faults, slow : BOOLEAN, shell : {"sh", "ps1"}]
    /\ now \in 0..kTimeout
    /\ {script, server, client} \subseteq Processes
    /\ wire \in {"none", "sent", "crossed", "lost"} /\ killed \in BOOLEAN

\* Hazard (alex_test.cpp:198): the client's success is that it has posted.  The
\* script passes only if the message crossed, on any machine.
PassMeansCrossed == script.rc = 0 => wire = "crossed"

\* Hazard (alex_test.cpp:277): the server began to wait before the client did, and
\* waits longer.  On a machine that is not slow no client that got to post ends
\* its run without having been heard, however late its login: neither is the
\* server gone by then, nor has the client left before the message has.
WhoPostsIsHeard ==
    Timely /\ build.fault # "loses" /\ client.at = "exited" /\ client.rc = 0 => wire = "crossed"

\* Hazard (run_alex_test.ps1:51): the kill never meets a server that has the
\* message and is only closing.
KillSparesSuccess == Timely /\ killed => wire # "crossed"
=============================================================================
