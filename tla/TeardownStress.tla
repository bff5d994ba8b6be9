--------------------------- MODULE TeardownStress ---------------------------
(***************************************************************************)
(* teardown_stress.cpp: batches of clients dial one server and are torn    *)
(* down wherever they are.  The delay before that sweeps a few             *)
(* milliseconds; here a client may have come any way in any delay.         *)
(***************************************************************************)
EXTENDS Integers, Sequences

CONSTANTS nTotal,  \* the connections to make
          nConc    \* and how many of them at a time

VARIABLES pc,      \* where main is
          nMade,   \* the clients of the batches before this one
          i,       \* the client of this batch main is at
          hub,     \* the clients' hubs, in the order they were made: each is
                   \* "up", "closing" or "ended"
          addr,    \* the number in each one's address
          names,   \* the clients whose login the server holds
          build,   \* [slow]: may a hub's thread outlast the join
          nExit    \* Running, Crashed or the exit code

vars == <<pc, nMade, i, hub, addr, names, build, nExit>>

StressAssumption == nTotal \in Nat /\ nConc \in Nat

Running == -1
Crashed == -2

Hubs  == 1..nTotal
Alive == {c \in DOMAIN hub : hub[c] # "ended"}

nConcClamped == IF nConc < 1 THEN 1 ELSE nConc
nThis == IF nMade + nConcClamped > nTotal THEN nTotal - nMade ELSE nConcClamped

\* The hubs the batch holds: those made last.
InBatch == IF pc = "make" THEN i ELSE IF pc \in {"close", "join"} THEN nThis ELSE 0
Batch(k) == Len(hub) - InBatch + k + 1

Init ==
    /\ pc = "listen"
    /\ nMade = 0
    /\ i = 0
    /\ hub = <<>>
    /\ addr = <<>>
    /\ names = {}
    /\ build \in [slow : BOOLEAN]
    /\ nExit = Running

Return(code) == nExit' = code /\ pc' = "over"

\* while (nMade < nTotal)
NextBatch(made) == pc' = IF made < nTotal THEN "make" ELSE "server"

-----------------------------------------------------------------------------
(* Main *)

SetupFailed ==
    /\ pc = "listen"
    /\ Return(1)
    /\ UNCHANGED <<nMade, i, hub, addr, names, build>>

Listen ==
    /\ pc = "listen"
    /\ NextBatch(0)
    /\ UNCHANGED <<nMade, i, hub, addr, names, build, nExit>>

\* Mutant: a client is numbered within its batch.
SpawnHubInBatch ==
    /\ pc = "make" /\ i < nThis
    /\ \E state \in {"up", "ended"} : hub' = Append(hub, state)
    /\ addr' = Append(addr, i)
    /\ i' = i + 1
    /\ UNCHANGED <<pc, nMade, names, build, nExit>>

\* Two addresses "Stress.Client.%d" differ where their numbers do.  Without a
\* thread nothing is dialled, and the client still counts.
SpawnHub ==
    /\ pc = "make" /\ i < nThis
    /\ \E state \in {"up", "ended"} : hub' = Append(hub, state)
    /\ addr' = Append(addr, nMade + i)
    /\ i' = i + 1
    /\ UNCHANGED <<pc, nMade, names, build, nExit>>

Delay ==
    /\ pc = "make" /\ i = nThis
    /\ pc' = "close" /\ i' = 0
    /\ UNCHANGED <<nMade, hub, addr, names, build, nExit>>

CloseHub ==
    /\ pc = "close" /\ i < nThis
    /\ hub' = [hub EXCEPT ![Batch(i)] = IF @ = "up" THEN "closing" ELSE @]
    /\ i' = i + 1
    /\ UNCHANGED <<pc, nMade, addr, names, build, nExit>>

AllClosed ==
    /\ pc = "close" /\ i = nThis
    /\ pc' = "join" /\ i' = 0
    /\ UNCHANGED <<nMade, hub, addr, names, build, nExit>>

\* The thread has ended, or three seconds have.
Join ==
    /\ pc = "join" /\ i < nThis
    /\ hub[Batch(i)] = "ended" \/ build.slow
    /\ i' = i + 1
    /\ UNCHANGED <<pc, nMade, hub, addr, names, build, nExit>>

\* The batch and its hubs are destroyed.
Destroy ==
    /\ pc = "join" /\ i = nThis
    /\ nMade' = nMade + nThis
    /\ NextBatch(nMade + nThis) /\ i' = 0
    /\ UNCHANGED <<hub, addr, names, build, nExit>>

\* What the wait for the server's thread says is not looked at.
CloseServer ==
    /\ pc = "server"
    /\ Return(0)
    /\ UNCHANGED <<nMade, i, hub, addr, names, build>>

Main ==
    \/ SetupFailed \/ Listen \/ SpawnHub \/ Delay \/ CloseHub \/ AllClosed \/ Join \/ Destroy
    \/ CloseServer

-----------------------------------------------------------------------------
(* The hubs' threads *)

\* A client of a batch that is gone may still get to its login.
Login(c) ==
    /\ c \in Alive \ names
    /\ names' = names \cup {c}
    /\ UNCHANGED <<pc, nMade, i, hub, addr, build, nExit>>

\* The server notices that a client closed.
Drop(c) ==
    /\ c \in names /\ hub[c] # "up"
    /\ names' = names \ {c}
    /\ UNCHANGED <<pc, nMade, i, hub, addr, build, nExit>>

Ended(c) ==
    /\ c \in DOMAIN hub /\ hub[c] = "closing"
    /\ hub' = [hub EXCEPT ![c] = "ended"]
    /\ UNCHANGED <<pc, nMade, i, addr, names, build, nExit>>

\* A thread whose hub is destroyed touches it.
Crash(c) ==
    /\ c \in Alive /\ c < Batch(0)
    /\ Return(Crashed)
    /\ UNCHANGED <<nMade, i, hub, addr, names, build>>

Threads ==
    /\ nExit = Running
    /\ \E c \in Hubs : Login(c) \/ Drop(c) \/ Ended(c) \/ Crash(c)

Over == pc = "over" /\ UNCHANGED vars

Next == Main \/ Threads \/ Over

\* A hub that is closed ends its thread.
Spec ==
    /\ Init /\ [][Next]_vars
    /\ WF_vars(Main) /\ \A c \in Hubs : WF_vars(nExit = Running /\ Ended(c))

-----------------------------------------------------------------------------
TypeOK ==
    /\ pc \in {"listen", "make", "close", "join", "server", "over"}
    /\ nMade \in 0..nTotal
    /\ i \in 0..nConcClamped
    /\ hub \in Seq({"up", "closing", "ended"}) /\ addr \in Seq(Nat) /\ Len(addr) = Len(hub)
    /\ names \subseteq DOMAIN hub
    /\ nExit \in {Running, Crashed, 0, 1}

\* Hazard (teardown_stress.cpp:230): the join of a thread gives up, and the
\* batch is destroyed.  What is left of it, a thread that runs on or a login the
\* server still holds, never has the address of another client of its own or any
\* later batch (teardown_stress.cpp:204, "so completed logins never collide"),
\* however slow the machine; and SUCCESS is printed of nTotal clients, none of
\* them left out or made twice, also where the last batch is a smaller one.
BatchesDoNotMeet ==
    /\ \A c, d \in Alive \cup names : c # d => addr[c] # addr[d]
    /\ nExit = 0 => Len(addr) = nTotal /\ \A n \in 0..(nTotal - 1) : \E c \in Hubs : addr[c] = n

MainReturns == <>(pc = "over")
=============================================================================
