----------------------------- MODULE ReplayGuard -----------------------------
(***************************************************************************)
(* p2p_replayguard: is a signed block, accepted once, refused the second   *)
(* time it is delivered?                                                   *)
(*                                                                         *)
(* Three threads of control share the tallies g_nOpened, g_nReplay and     *)
(* g_nOther: main, which posts each sealed body, sleeps and reads; the     *)
(* connection, which carries bodies in order and takes as long as it       *)
(* likes; and Bob's pump, which opens a body and bumps one tally.  Main    *)
(* never waits for an arrival, only for a Sleep to end, so a body may be   *)
(* handled in a later phase than the one that posted it.                   *)
(*                                                                         *)
(* The libraries are modelled by how the harness uses them: `build' says   *)
(* which of the behaviours the harness probes this build has.              *)
(***************************************************************************)
EXTENDS Integers, Sequences

CONSTANT Builds     \* the builds of the libraries to run against

\* One flag per behaviour a build may or may not have.
Features  == {"defaults",     \* both switches on and a 24 h window, unasked
              "keys",         \* provisioning lets Bob open at all
              "sealOff",      \* with the switch off a second copy opens
              "sealOn",       \* with it on the seal cache is consulted
              "sealFresh",    \* the cache refuses copies, not everything
              "relayOff", "relayOn", "relayFresh"}   \* the same of relays
\* A build and, as "timely", a machine on which every wait outlasts what it is
\* for.
AllBuilds == [Features \union {"timely"} -> BOOLEAN]

ASSUME BuildsAssumption == Builds \subseteq AllBuilds

\* The builds that have everything a pass asserts.
GoodBuilds == {b \in Builds : \A f \in Features : b[f]}

VARIABLES build,      \* the build linked with
          pc,         \* main: what it does next
          phase,      \* main: 1, 2 or 3, the sealed half's phase
          k,          \* main: which copy or which tally it is at
          n,          \* main: what it read of the tallies in each phase
          relay,      \* main: bRelayOk, bRelayCtrl, bRelayRefused, bRelayLive
          exit,       \* main: the process exit code
          connected,  \* the login completed, so a post finds a connection
          link,       \* bodies on their way to Bob, oldest first
          bob,        \* Bob's pump: "idle", or the tally it is about to bump
          tally,      \* g_nOpened, g_nReplay, g_nOther
          refuse,     \* RefuseSealReplay as last set on Bob's hub
          cache       \* the bodies Bob's seal cache holds

mainVars == <<pc, phase, k, n, relay, exit>>
bobVars  == <<bob, tally, cache>>
vars     == <<build, mainVars, connected, link, bobVars, refuse>>

Gate == INSTANCE GateVerdict WITH Good <- GoodBuilds

Counters == <<"opened", "replay", "other">>
Phases   == 1..3
Body     == Phases                    \* each phase posts a body of its own
\* Mutant: one redelivery too many.
CopiesThrice(p) == IF p = 3 THEN 1 ELSE 3
Copies(p) == IF p = 3 THEN 1 ELSE 2   \* PostTwice, then one fresh body
Tallies  == {"opened", "replay", "other"}
NoTally  == [c \in Tallies |-> 0]
NoRelay  == [ok |-> FALSE, ctrl |-> FALSE, refused |-> FALSE, live |-> FALSE]

\* What the replay cache of a build answers.  `on' is whether the cache is
\* consulted; a cache holds only what it was consulted about, which is why the
\* harness can reuse one attestation across its off and on phases.
Refused(on, fresh, block, held) == on /\ (block \in held \/ (~fresh /\ held # {}))
SealOn   == IF refuse THEN build["sealOn"] ELSE ~build["sealOff"]
RelayOn(switch) == IF switch THEN build["relayOn"] ELSE ~build["relayOff"]

Init ==
    /\ build \in Builds
    /\ pc = "setup" /\ phase = 1 /\ k = 1
    /\ n = [p \in Phases |-> NoTally] /\ relay = NoRelay
    /\ exit = Gate!Running
    /\ connected = FALSE /\ link = <<>>
    /\ bob = "idle" /\ tally = NoTally /\ cache = {}
    /\ refuse = build["defaults"]

-----------------------------------------------------------------------------
(* Main *)

Timely == build["timely"]

\* A Sleep ends.  A timely one has let the login and every body through.
Slept == Timely => connected /\ link = <<>> /\ bob = "idle"

Return(code) ==
    /\ pc' = "done" /\ exit' = code
    /\ UNCHANGED <<phase, k, n, relay>>

\* Startup, provisioning, both hubs, the dial and the three SealFor calls.
SetUp ==
    /\ pc = "setup"
    /\ \/ Slept /\ pc' = "defaults" /\ UNCHANGED <<phase, k, n, relay, exit>>
       \/ Return(Gate!Setup)
    /\ UNCHANGED <<build, connected, link, bobVars, refuse>>

\* Phase 0: both switches on by default at the hub, or the run is over.
CheckDefaults ==
    /\ pc = "defaults"
    /\ IF build["defaults"]
       THEN pc' = "switch" /\ UNCHANGED <<phase, k, n, relay, exit>>
       ELSE Return(Gate!Fail)
    /\ UNCHANGED <<build, connected, link, bobVars, refuse>>

SetSwitch ==
    /\ pc = "switch" /\ pc' = "zero" /\ k' = 1
    /\ \/ phase = 1 /\ refuse' = FALSE
       \/ phase = 2 /\ refuse' = TRUE
       \/ phase = 3 /\ UNCHANGED refuse
    /\ UNCHANGED <<build, phase, n, relay, exit, connected, link, bobVars>>

\* Mutant: the tallies are never reset.
ZeroNothing ==
    /\ pc = "zero" /\ pc' = "post" /\ k' = 1
    /\ UNCHANGED <<build, phase, n, relay, exit, connected, link, bobVars, refuse>>

\* g_nOpened = 0; g_nReplay = 0; g_nOther = 0: three stores, in that order.
Zero ==
    /\ pc = "zero"
    /\ tally' = [tally EXCEPT ![Counters[k]] = 0]
    /\ IF k < 3 THEN k' = k + 1 /\ pc' = pc ELSE k' = 1 /\ pc' = "post"
    /\ UNCHANGED <<build, phase, n, relay, exit, connected, link, bob, cache, refuse>>

\* PostP2PeerMsg: with no connection the body has nowhere to go and is lost.
Post ==
    /\ pc = "post" /\ pc' = "sleep"
    /\ link' = IF connected THEN Append(link, phase) ELSE link
    /\ UNCHANGED <<build, phase, k, n, relay, exit, connected, bobVars, refuse>>

\* Mutant: wait for an open instead of for the time to pass.
SleepUntilOpened ==
    /\ pc = "sleep" /\ tally["opened"] = k
    /\ IF k < Copies(phase) THEN k' = k + 1 /\ pc' = "post" ELSE k' = 1 /\ pc' = "load"
    /\ UNCHANGED <<build, phase, n, relay, exit, connected, link, bobVars, refuse>>

Sleep ==
    /\ pc = "sleep" /\ Slept
    /\ IF k < Copies(phase) THEN k' = k + 1 /\ pc' = "post" ELSE k' = 1 /\ pc' = "load"
    /\ UNCHANGED <<build, phase, n, relay, exit, connected, link, bobVars, refuse>>

\* n1Open, n1Replay, n1Other: one load each, in that order; phase 3 has no
\* third.  The last load of a phase moves main to the next one.
Load ==
    /\ pc = "load"
    /\ n' = [n EXCEPT ![phase][Counters[k]] = tally[Counters[k]]]
    /\ IF k < (IF phase = 3 THEN 2 ELSE 3)
       THEN k' = k + 1 /\ UNCHANGED <<pc, phase>>
       ELSE /\ k' = 1
            /\ IF phase < 3 THEN phase' = phase + 1 /\ pc' = "switch"
                            ELSE phase' = phase /\ pc' = "relay"
    /\ UNCHANGED <<build, relay, exit, connected, link, bobVars, refuse>>

\* Phases 4-6, straight at the hub API: no pump is involved.  blk1 is verified
\* twice with the switch off and twice with it on, blk2 once with it on; each
\* verification that the cache was consulted about and accepted is recorded.
VerifyRelays ==
    LET Verify(switch, block, held) ==
            ~Refused(RelayOn(switch), build["relayFresh"], block, held)
        Held(switch, block, held) ==
            IF RelayOn(switch) /\ Verify(switch, block, held) THEN held \union {block} ELSE held
        c1 == Held(FALSE, 1, {})
        c2 == Held(FALSE, 1, c1)
        c3 == Held(TRUE, 1, c2)
        c4 == Held(TRUE, 1, c3)
    IN  [ok      |-> TRUE,
         ctrl    |-> Verify(FALSE, 1, {}) /\ Verify(FALSE, 1, c1),
         refused |-> Verify(TRUE, 1, c2) /\ ~Verify(TRUE, 1, c3),
         live    |-> Verify(TRUE, 2, c4)]

RelayHalf ==
    /\ pc = "relay" /\ pc' = "verdict"
    /\ relay' \in {VerifyRelays, NoRelay}      \* NoRelay: AttestRelay failed
    /\ UNCHANGED <<build, phase, k, n, exit, connected, link, bobVars, refuse>>

\* Mutant: the controls are not looked at.
ExitCodeNoControl ==
    IF ~relay.ok \/ n[1]["other"] # 0 \/ n[2]["other"] # 0
    THEN Gate!Setup
    ELSE IF n[2]["opened"] # 1 \/ n[2]["replay"] # 1 \/ ~relay.refused
    THEN Gate!Fail
    ELSE IF n[3]["opened"] # 1 \/ ~relay.live
    THEN Gate!Inconclusive
    ELSE Gate!Pass

\* The chain of verdicts, in the order the code tries them.
ExitCode ==
    IF ~relay.ok \/ n[1]["other"] # 0 \/ n[2]["other"] # 0
    THEN Gate!Setup
    ELSE IF n[1]["opened"] # 2 \/ ~relay.ctrl
    THEN Gate!Inconclusive
    ELSE IF n[2]["opened"] # 1 \/ n[2]["replay"] # 1 \/ ~relay.refused
    THEN Gate!Fail
    ELSE IF n[3]["opened"] # 1 \/ ~relay.live
    THEN Gate!Inconclusive
    ELSE Gate!Pass

Verdict ==
    /\ pc = "verdict"
    /\ Return(ExitCode)
    /\ UNCHANGED <<build, connected, link, bobVars, refuse>>

Main == \/ SetUp \/ CheckDefaults \/ SetSwitch \/ Zero \/ Post \/ Sleep \/ Load
        \/ RelayHalf \/ Verdict

-----------------------------------------------------------------------------
(* The connection and Bob's pump *)

\* The signed login completes, at any time or never.
Connect ==
    /\ ~connected /\ connected' = TRUE
    /\ UNCHANGED <<build, mainVars, link, bobVars, refuse>>

\* On_P2PeerBCast up to the OpenFrom call, which reads the switch and the
\* cache under the hub's lock.
Open ==
    /\ bob = "idle" /\ link # <<>>
    /\ link' = Tail(link)
    /\ bob' = CASE ~build["keys"] -> "other"
                [] build["keys"] /\ Refused(SealOn, build["sealFresh"], Head(link), cache) -> "replay"
                [] OTHER -> "opened"
    /\ cache' = IF SealOn /\ bob' = "opened" THEN cache \union {Head(link)} ELSE cache
    /\ UNCHANGED <<build, mainVars, connected, tally, refuse>>

\* The rest of On_P2PeerBCast: ++g_nOpened, ++g_nReplay or ++g_nOther.
Count ==
    /\ bob # "idle" /\ bob' = "idle"
    /\ tally' = [tally EXCEPT ![bob] = @ + 1]
    /\ UNCHANGED <<build, mainVars, connected, link, cache, refuse>>

Bob == Open \/ Count

Done == pc = "done" /\ UNCHANGED vars

Next == Main \/ Connect \/ Bob \/ Done

Spec == Init /\ [][Next]_vars

\* Main runs, the pump runs and the login completes.  A Sleep always ends:
\* with Timely it ends once what it waits for has happened, and all of those
\* steps are fair.
FairSpec == Spec /\ WF_vars(Main) /\ WF_vars(Connect) /\ WF_vars(Bob)

-----------------------------------------------------------------------------
(* Properties *)

TypeOK ==
    /\ build \in Builds
    /\ pc \in {"setup", "defaults", "switch", "zero", "post", "sleep", "load",
               "relay", "verdict", "done"}
    /\ phase \in Phases /\ k \in 1..3
    /\ n \in [Phases -> [Tallies -> Nat]]
    /\ relay \in [ok : BOOLEAN, ctrl : BOOLEAN, refused : BOOLEAN, live : BOOLEAN]
    /\ exit \in Gate!ExitCodes \union {Gate!Running}
    /\ connected \in BOOLEAN
    /\ link \in Seq(Body)
    /\ bob \in {"idle"} \union Tallies
    /\ tally \in [Tallies -> Nat]
    /\ refuse \in BOOLEAN
    /\ cache \in SUBSET Body

\* The harness implements a gate: it returns once, and it returns 0 only from a
\* build that has every feature it asserts, however late the bodies arrive.
PassIsEvidence == Gate!GateSpec

\* Two opens read in phase 1, and then two answers in phase 2, account for
\* every copy posted so far: none of them is still on its way to be counted
\* against a later phase.  A verdict that reads three phases off the same
\* tallies, resetting them without waiting for anybody, rests on this.
Settled(p) ==
    /\ p > 1 => n[1]["opened"] = 2
    /\ p > 2 => n[2]["opened"] + n[2]["replay"] = 2
EvidenceIsOwn == Settled(phase) => \A i \in 1..Len(link) : link[i] = phase

\* When every Sleep is long enough the verdict separates the builds exactly:
\* apart from a failed setup, 0 is returned on a good build and on no other.
Discriminates ==
    Timely /\ exit \notin {Gate!Running, Gate!Setup} => (exit = Gate!Pass <=> build \in GoodBuilds)

\* The harness always returns, whatever the build does with the bodies.
Returns == <>(exit # Gate!Running)
=============================================================================
