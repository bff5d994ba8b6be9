# MscsUnitTests in TLA+

MscsUnitTests is the acceptance suite of two libraries, Msgcore (a typed message
store) and Targetcore (hubs, connections, message pumps). The libraries are not in
this repository. What is here is a unit-test runner with three suites, some sixty
*harnesses* (single-purpose programs whose exit code is a verdict), scripts, git
hooks and CI checks. What can go wrong here is therefore a *verdict*: a harness
that passes a build it should fail, blames a build for the machine's slowness,
reads a counter that another thread has yet to bump, or never returns. That is what
this project specifies.

Each specification puts the program next to an abstract build of the libraries: a
record of flags, one per behaviour the harness exists to tell apart. TLC checks the
program against every such build and every interleaving; TLAPS proves the main
results for every build, every constant and every timing.

## 1. Inventory

### The parts, their state and their operations

| Part | State it keeps | Operations | Correct when |
|---|---|---|---|
| **Unit-test runner** `TestFramework.cpp/.h`, `TestMain.cpp` | `g_tf.cases`, `failures`, `caseFailures`, `s_caseFailureBaseline`, skipped suites | `tf_runner_startup`, `tf_begin_case`, `tf_fail`, `AssertReportHook` (on the thread that asserts), `tf_runner_finish` | no recorded failure ends green; the count of failing cases is the number of cases in which a check failed |
| **Unit suites** `MsgcoreSuite`, `MsgcoreCApiSuite`, `TargetcoreSuite` | local to each case; in-memory hubs whose threads may outlive it | `TF_CASE` blocks, hub spawn and bounded join | each case's checks hold of the libraries |
| **Gate harnesses** `p2p_*.cpp` | tallies and events shared by main and pump threads, a boolean per assertion | phases: arrange, post, wait, read; then a ladder of `if`s over the readings | 0 is evidence, 1 accuses the build, 2 says that nothing was set up, 3 that the control did not hold |
| &nbsp;&nbsp;replay guard `p2p_replayguard.cpp` | `g_nOpened`, `g_nReplay`, `g_nOther`, reset per phase; the two switches | three seal phases, four relay checks, the verdict | a pass means that every probed switch and cache works |
| &nbsp;&nbsp;backpressure `p2p_backpressure.cpp` | `g_nRecv`, the park thread's flags, six assertions | control batch, park, flood, four quiet seconds, release, drain | a pass means that the budget holds a connection, counts it and lets it go |
| &nbsp;&nbsp;key rotation `p2p_keyrotate.cpp` | an event per phase, the server's key list and revocation list | four clients at one address, one revocation, one reload | a pass means that both keys work and that one can be withdrawn alone |
| &nbsp;&nbsp;connection reaping `p2p_conreap.cpp` | four raw sockets, five readings of the accepted count | dial, poll, close, poll | a pass means that a silent departure frees its connection and a silent presence does not |
| &nbsp;&nbsp;pause and wakeup `p2p_hubwake.cpp` | two events, a receive counter, the close-on-idle latch | burst, `PauseHub`, `WakeupHub`, three assertions | a pass means that a wakeup undoes a pause |
| &nbsp;&nbsp;authentication, sealing, link policy and hub lifecycle families | an event or a flag per phase, a global phase counter, a count of failed checks | control, probe, ladder of verdicts | a pass means that the probe was refused and would have been noticed |
| &nbsp;&nbsp;resource bounds `p2p_pumpbound.cpp`, the connection caps and deadlines | how many posts were accepted, the figures a diagnostic names; which raw sockets the listener closed | fill to the bound, ask for one more, poll | the bound that is named is the bound that is enforced; a peer is dropped for the bound's sake and no other's |
| &nbsp;&nbsp;link cost `p2p_linkcost.cpp` | `g_nRecv`, `g_nInFlight`, three events, reset per posture | post through a window of messages under way, wait for the last | no wakeup is lost, no counter short; OK means that every message came |
| **Probes** `alex_test`, the meshes, `teardown_stress` | a done event; atomic counters of callbacks; a client's number | one message across two hubs or processes; batches of hubs closed in mid-connect | a pass means that it crossed; nothing left of a batch has another client's address |
| **Fuzzers** | a corpus and a generator | feed bytes to a parser of the library | outside: the parser is |
| **Scripts** `run_alex_test.*`, `run_sanitizers.sh` | process ids, exit codes | start, wait, compare | both exit codes are looked at |
| **Git hooks** `tools/hooks/` | none; they read the remote's refs and CI's runs | `pre-push`: three rules; `commit-msg`: wording | master only moves forward, to commits CI has seen green |
| **Repository checks** `.github/`, `CheckSuiteWiring.ps1` | none | pure functions of a checkout | every source is built and run by something |
| **Build files** `CMakeLists.txt` | the list of tests, one `RESOURCE_LOCK` per port or pipe | CTest starts a test when its locks are free | two harnesses never share a port |
| **Msgcore, Targetcore** (external) | connections, pumps, queues, the message budget | as the harnesses use them | this is what the harnesses ask |

### How they interact

* Main and hub threads share globals: atomics, events, plain integers in the runner.
  Main arranges and reads, the pumps' callbacks count. There is no acknowledgement
  from a callback to main but an event or a counter.
* Harness and library interact by calls (`PostP2PeerMsg`, `PauseHub`,
  `ReloadRevocationList`), which only post a signal to a pump, and by virtual
  callbacks (`On_P2PeerBCast`, `On_ConLoginAck`) on the pump's thread.
* A caller (ctest, a script) sees a harness as one exit code. CTest runs several at
  once and knows their ports by their locks only; the two-process script sleeps
  between its launches and knows nothing else of the port.
* The hook sees CI as the latest run on a commit, and the remote as the refs git
  read before it ran the hook.

### What is hard

* **Time as a synchroniser.** Most phases wait by `Sleep` or by a bounded poll. A
  late message is counted in the next phase, or missing from this one.
* **Verdicts by absence.** "It did not arrive" is the pass of several phases. It
  is evidence only next to a control that shows that it would have arrived.
* **Shared counters.** The runner's counters are plain integers which the assert
  hook increments on any thread.
* **Bounded joins.** Threads are given three to five seconds, then main goes on
  and destroys what they use.
* **Two things that look the same.** A completion without bytes is an arming post
  or a close; a refused client has a revoked key or an address still held.
* **Check, then act.** The hook asks about a commit, then git moves the ref.

The lines where each of these bites are in `PROJECT.json`, "hazards", with the
properties that would notice.

## 2. Plan

Modules, in order of importance. All are written.

1. `GateVerdict`: the contract of a gate harness, which the harness modules refine.
2. `ReplayGuard`: tallies read by sleeping, the purest case of late evidence.
3. `Runner`: every verdict of the unit suites goes through it.
4. `Backpressure`: the most threads, a bounded resource and hysteresis.
5. `KeyRotate`, `ConReap`: absences with two explanations.
6. `PrePush`: several developers, CI and a remote.
7. `HubWake`: signals, sends and completions in any order, and a bounded join.
8. `Ladders` over `HarnessSteps`, with six tables (`LaddersAuth`, `LaddersSeal`,
   `LaddersLink`, `LaddersHub`, `LaddersBound`, `LaddersMesh`): fifty-one smaller
   harnesses, one record each, over one model of phases whose readings are true, or
   late. Abstract specification: `GateVerdict`.
9. `LaddersEvidence`: what a harness's text alone says about the faults it rules out.
   `LaddersTimely`: what it says about a run on a timely machine. The theorems of
   `Ladders` are about every table that meets them.
10. `PumpBound`: figures read out of a text, and a guard against overflow.
11. `LinkCost`: a window of messages under way, events that are reset under a pump.
12. `AlexTest`: server, client and script as processes on one clock.
13. `TeardownStress`: batches whose joins may give up.
14. `CTestPorts`: which tests CTest may run at once.

`Probes` composes `Runner` and 10 to 13: they share the variables they have a common
name for, and one run of it is a run of one of them. Its properties are those of the
five, each of the program it is about; `MCProbes` gives its constants values. Otherwise
there is one run per module, with flags in the build instead of a run per timing. Theorems: typing and the inductive
invariant of each harness module, `PassIsEvidence` of each as a refinement of
`GateVerdict`, and the safety properties the runs check.

## 3. The modules

### How a harness is modelled

* `build` is a record of flags fixed in `Init`: the library behaviours the harness
  probes, each present or absent. External definitions (`Open`'s `Refused`, `Arm`,
  `HandlePause`, ...) consult it. They say no more about Targetcore than the
  harness's header and calls do.
* The same record holds flags of the *machine*. `timely`: no wait ends while what it
  waits for may still happen. Without it every wait may end at once, so a result
  with `timely` false covers every duration of every `Sleep` and timeout.
  `KeyRotate` adds `prompt` (the 300 ms are enough for the server to drop a closed
  client); `HubWake` adds `outlasts` (the burst's last send starts after both
  signals are handled) and `late` (`m_uAutoRestart` is longer than main's waits).
* Main is a program counter. One action is one handler or one step between two
  points where another thread can be observed: a post, a read of one counter, a
  wait. Every early return with its exit code is there.
* Message contents, logs and addresses are left out, except where two of them are
  told apart.

### GateVerdict

`build` and `exit`. `Return(code)` once, and 0 only on a build in `Good`. Every
harness module has `Gate == INSTANCE GateVerdict WITH Good <- GoodBuilds` and
`PassIsEvidence == Gate!GateSpec`. `GoodBuilds` is what a pass is evidence of on
*any* machine. Where that is less than the harness says, `FullBuilds` is the whole
claim, and `Discriminates` states it of a timely machine.

| Module | Code | State | Actions |
|---|---|---|---|
| `ReplayGuard` | `main`, `PostTwice`, `GuardHub::On_P2PeerBCast` | `tally` is the three globals, `n` what main read, `link` the bodies under way, `bob` the counter Bob's pump is about to bump, `cache` the replay cache | `SetUp`, `CheckDefaults`, `SetSwitch`, `Zero` and `Load` (a counter at a time), `Post`, `Slept`, `Sleep`, `VerifyRelays`, `Verdict`; `Connect`; `Open`, `Count` |
| `Runner` | `TestFramework.cpp`, `TestMain.cpp` | the four counters, `reg` (a loaded value not yet stored), `alive` pumps, `result`, `exit` | `Startup`, `BeginCase`, `EndCase`, `Summary`, `Finish`; `SpawnHub`, `JoinHub`; `LoadFailures`, `StoreFailures` on any thread |
| `Backpressure` | `main`, `ParkThread`, `BpHub` | `out`, `wire`, `queue`, `recv` follow a message, `held` and `holds` the connection, `park`, `parked`, `drain` the park thread | main's phases; `Send`, `Hold`, `Parse`, `Resume`, `Handle`; `CreatePump`, `SeeDrain`, `ClosePump` |
| `KeyRotate` | `main`, `RunPhase`, `RotHub` | `conn` and `body` of each of four clients, `event`, `reloaded` | `Spawn`, `Await`, `Close`, `Sleep`, `Revoke`, `Verdict`; `Login`, `LoginAck`, `Handle`, `Drop` |
| `ConReap` | `main`, `PollAccepted`, `RawConnect` | `peer` (the raw socket), `svc` (the service's side), `read` (the five readings) | dials, closes, polls and looks of main; `Accept`, `Arm`, `Reap` |
| `HubWake` | `main`, `WakeHub` | `posted` and `handled` signals, `con`, `latch`, `queue`, `sending`, `wire`, `got`, `after`, `hub` threads | main's steps to `Join`; `LoginAck`, `HandlePause`, `HandleWakeup`, `HandleAfter`, `StartSend`, `CompleteSend`, `Restart`; `Receive`, `ReceiveAfter`, `HubEnds` |
| `PrePush` | `tools/hooks/pre-push` | `master`, the latest `run` of each commit, `push` of each developer | `StartRun`, `FinishRun`; `Begin`, `Refuse`, `Allow`, `Update` |
| `PumpBound` | `main` and its loop of posts, `CheckRefusal`, `TakeMessage`, `LastNumber` | `sites`, what each site called so far enforces and says; `count`, the live messages; `nPosted`, `base`, `live`, which main reads it by | main's phases, one action each; a post that is accepted or refused; a stray message that comes or goes |
| `LinkCost` | `main`, `RunPosture`, Alice and Carol | `g_nRecv`, `g_nInFlight` and the three events; of each posture, the messages on the `wire` and where its `carol` is | main's steps of a posture, post by post; the logins; Carol's counting and signalling, a step at a time |
| `AlexTest` | `alex_test.cpp`, `run_alex_test.sh` and `.ps1` | `now`; the three processes, each where it is and since when; `wire`; `killed` | each process's starts, waits, timeouts and exits; the crossing; the kill; `Tick` |
| `TeardownStress` | `teardown_stress.cpp` | `hub` and `addr`, the clients' threads and the numbers in their addresses, in the order they were made; the `names` the server holds, `nMade`, `i` | listen, launch, close, join, destroy; a login; a hub's thread ends; the server forgets a name |
| `CTestPorts` | `CMakeLists.txt` and the ports in the sources | the tests that wait and that run | `Start`, `Finish` |

The clock of `AlexTest` ticks twice a second, and on a machine that is not slow no
step is put off by more than `kDelay`, one tick. On a slow machine any step may come
after any other's timer. The 1.5, 3, 10, 15 and 60 seconds of the sources are what
the property is about (the server outwaits a client), so they are kept as numbers.

`PumpBound` has figures in base three and `unsigned long` of four bits or eight: in
four, a figure passes `LastNumber`'s guard and wraps, as it does in 32 bits where the
source compares with a tenth of the largest value.

### Ladders

Most harnesses are shorter than those above and have one shape, so each is a record
of data and `Ladders` is the one state machine that runs it.

* `HarnessSteps` is the vocabulary. Main's steps: `Arrange` (calls that may fail and
  return a setup code), `Ask` (post or connect), `Wait` (on an auto-reset event), `Poll`
  (a flag or a count now), `Rest` (`Sleep`), `Clear` (reset flags), `Shut` (close the
  phase's hubs), `Turn` (assign the phase counter), `Look` (a call that answers at
  once), `Rung` (an `if` of the verdict), `Return`. An effect is what a pump thread does
  about something main has asked for: a signal, the effects it comes after, the faults
  that prevent it and those it takes. A signal may depend on the phase counter at the
  time of the handler, as in `p2p_authchannel`'s `On_ConLogin`.
* `Ladders` has one action per step and `Deliver` for the pumps. Nothing stops an effect
  from being delivered phases after main has given it up, until its hubs are closed.
  Every wait in `build.slow` may end at once; the others end when the pumps have nothing
  left that they could do.
* The six tables hold the records. A fault is one way of misbehaving that the harness's
  header or a failure message names. `proves` lists the faults that a pass rules out on
  *any* machine: those that show in something the harness requires, or in an answer it
  gets at once. The rest is an absence, and is ruled out on a timely machine. `quirks`
  are differences between builds that the harness does not judge.
* `LaddersEvidence` says the same thing without running anything. A rung is passed only
  when its patterns do not fit; a fault is *barred* there if one of them must fit on
  such a build, because nothing can set the reading it demands (what could is `Undone`,
  or asked for later, or cleared or taken by another wait in between), or because
  something certain always does. `EvidenceAssumption`: every fault in a harness's
  `proves` is barred by a rung before each return of 0. `OwnAssumption`: of a harness
  that stops with a pass, everything that can have set a reading it passes on is, or
  comes after, something main asks for under that very signal, or else the reading
  stands behind one that is. `SightAssumption`: what can set a reading that a pattern of
  an accusing rung demands, in the phase it is asked for in, is delivered only by a
  build with an accused fault.
* `LaddersTimely` does the same for a timely machine, for a build with the faults *F*. It
  gathers what the pumps have done for certain when main is past a wait (`Settled`):
  what they could do with all that main has asked for, if nothing was signalled, or what
  comes before anything that can have been. From this it tells the readings that are
  sure to be true or false (`Sure`). `VerdictAssumption`: for every build with up to
  `MaxTrouble` faults, wherever main would be wrong to stop, the rung there is sure not
  to fit or an earlier one is sure to. It speaks only of readings that one step alone
  takes, which is why each chain of `p2p_e2ewaive` has readings of its own: `Check`
  counts a failure of either.

TLC evaluates the four assumptions for the fifty-one. A verdict that forgets one of its
conditions breaks the one it concerns before a behaviour is explored.

What the records show of the code, none of it a contradiction of what it says:

* `p2p_authchannel`, `p2p_confchannel` and `p2p_reportsign` charge what a handler sees
  to the phase main is in. A login of `p2p_confchannel`'s phase 2 that the open server
  handles late sets the event of phase 3, and a sound build fails. `SightIsProof`
  exempts such a run (`Astray`), and holds of all others.
* `p2p_authancestor`, `p2p_revokedist`, `p2p_sealhop`, `p2p_e2ewaive`,
  `p2p_gcmdirection`, `p2p_linktrust` and others return 1, not 3, when something they
  require comes too late: on a slow machine a sound build fails. This is why
  `Discriminates` speaks of a timely one.
* `p2p_armgate`, `p2p_authposture`, `p2p_e2ewaive` and `p2p_gcmdirection` may return 2
  over checks that have failed already.
* `p2p_sealwire` reports an unsealed body as inconclusive. `p2p_expreg` judges the
  reaping of a registration only where the forged one was taken.
* `p2p_ucastgate` has exit codes of its own: 1 is a failed setup, 2 a failure.
* `p2p_dmxdead` reads `pCli` (line 290) after a wait of eight seconds for its close: a
  close that comes just then is the one its comment on line 269 warns of. In the
  control it reads `Closed` once, when the message has arrived.
* `p2p_acceptcap`, `p2p_srcbound` and `p2p_pipecap` learn from a raw socket that it was
  closed, not by what. A listener that closes everything looks, until the control is
  polled for long enough, like one that keeps its bound: they prove nothing on a slow
  machine, and `proves` is empty.
* The meshes count messages, not transports: a build that delivered one message twice
  would be taken for one that serves two transports. No build in `LaddersMesh` does.
* In `p2p_sealbcast` a leaf that phase 3's broadcast reaches late counts for phase 4.

Of the other modules: `p2p_linkcost` may print OK for a posture that was short when a
Carol of an earlier posture, whose join had given up, counts into it; `OkIsComplete`
exempts just that. `p2p_pumpbound` takes a site that refuses to have the bound measured
at the first: a lower one of its own is not told apart, a higher one is
(`NoneEnforcesMore`). `alex_test`'s client calls it a success when its message is
posted, so that only the server's code says that it crossed, and the script looks at
both. `teardown_stress` with its default maximal delay of 8 takes only the delays 0, 3
and 6, since `nBatch * 3 % 9` is one of these; and its exit code says "server survived"
although nobody looks at the wait for the server's thread. Two remarks of the sources
hold with a proviso: "the refusal was the revocation" (`p2p_keyrotate.cpp:469`) needs the
server to have dropped the last client within 300 ms, which `Discriminates` assumes
(`prompt`); and "Assertion 2 does NOT discriminate" (`p2p_hubwake.cpp:63`) is so once main
looks after the last completion has been handled.

Definitions marked "Mutant" in a comment are plausible mistakes. No action uses
them; put in the place of the definition they stand before, they break a property.

## 4. The runs

| Run | Shows | Bounds, and why they are enough |
|---|---|---|
| `replay_guard` | the harness returns, passes complete builds only, and no body is charged to a later phase once its own phase has been answered | all 256 builds on a timely machine; without, builds that lack at most two of eight features. A pass asks for each feature separately, so one missing is what could be missed, and two may mask each other |
| `runner_race` (violation) | the count of failing cases can be too low | one pump, five failures |
| `backpressure` | a pass is evidence; a "never held" is never said of a build that held; one hold per pressing; the park thread ends before the hub | batches of 2, marks 1 and 6, 6 parked: the smallest numbers with the source's inequalities (`MarksAssumption`), so that both batches fit below the gap. Builds as in `replay_guard` |
| `key_rotate` | a pass is evidence; an accusation is never owed to another phase's message; the verdict separates builds on a prompt machine | all 64; the four clients are the code's |
| `con_reap` | a pass is evidence; the result that accuses names the fault the build has; all departed peers are dropped in the end; and the verdict separates builds | all 32; three and one connections are the code's |
| `pre_push` | master moves forward, to commits that were green | two developers; a root, a branch of two on it and a commit that diverges: a fast-forward, a skip of one, a rewrite |
| `pre_push_branch` (violation) | a commit that never ran gets onto master below a green tip | one developer |
| `hub_wake` | nothing of the burst is lost, a pass is evidence, a thread that outlives its join sets none of the events main has closed unless a wait was too short and the run failed | all 64; a burst of 3 has a first, a middle and a last send between which a signal can fall |
| `ladders` | a pass is evidence on any machine; a harness that accuses a build for what it has *seen* is right on any machine; a reading a pass rests on was caused by the request it is taken for; on a timely machine 0 means sound and 1 means guilty | `MaxTrouble` = 2: two faults, two slow waits, or one of each. A wrong pass takes the fault and what hides it, which is a second fault (a control that a deaf build also fails) or one slow wait; a wrong accusation takes one fault of another kind or one late effect |
| `probes` | no recorded failure of the unit-test runner ends in a green exit, and its summary is safe to read; `p2p_pumpbound` passes only texts that name the bound the first site enforced, lets no other site enforce more, and judges right up to both edges of what it can measure; `p2p_linkcost` keeps its window, loses no wakeup, and its OK is complete; the two-process test passes only if the message crossed, its server outwaits its client and its script kills no server that has the message; what is left of a batch of `teardown_stress` has no other client's address and its SUCCESS is said of every client; `p2p_pumpbound`, `p2p_linkcost` and `teardown_stress` return | two pumps, two cases, four failures, so that two threads can interleave in a third's increment, and a case end and another begin under a pump; figures of up to three digits, bounds on either side of both limits, words in which one wraps and one does not; two postures of four messages, so that a window of two fills, drains and fills, and a pump is left over from one to the next; the ticks of the sources; five clients in batches of two, the last one short |
| `ctest_ports` (violation) | two tests that bind one port run at once | two at a time |

The three violations are findings (`PROJECT.json`):

* `runner_race`: `++g_tf.failures` on a pump's thread loses updates, so
  `caseFailures` is not what `TestFramework.h:36` says. The exit code is not
  affected, which `NoFalseGreen` shows and `NeverFalselyGreen` proves.
* `pre_push_branch`: "any commit whose exact SHA has not already gone green"
  (`tools/hooks/README.md:33`) is checked of the tip only.
* `ctest_ports`: "so CTest never runs two on the same port" (`README.md:98`). Two
  harnesses bind the port after the one they are given and lock, too
  (`p2p_authrelay`, `p2p_sealbcast`), and that is another test's.

Deadlock is checked in every run. A finished program stutters (`Done`, in `Ladders`
`Over`); in `ladders` this says that no harness waits for ever.

### Fairness

Three runs state liveness. `ReplayGuard`'s `Returns` assumes that main, the login and
Bob's pump run when they can: weak fairness of each, which a preemptive scheduler and a
pump blocked in `GetQueuedCompletionStatus` give. No `Sleep` is assumed to be long.
`ConReap`'s `EveryCloseReaped` assumes the same of main and of the service's pump as a
whole, for which it is enough that the pump completes what has completed: each
connection has finitely many steps. It is stated of a complete build, and about the time
before the hub shuts down. `Probes`' `MainReturns` assumes weak fairness of each
program's main, of each posture's Carol in `LinkCost`, and in `TeardownStress` of the
end of each hub's thread once its hub is closed. On a machine that is not slow main's
waits and joins last until the other side has nothing left to do, so the other side must
run: a pump whose message has arrived, a thread whose hub is closed. On a slow one every
wait may end, and main's own fairness is enough. `AlexTest` has no liveness property:
its script waits for a process, and what ends that is CTest's patience. `Runner` has
none either: nothing of it waits but the bounded joins, and a case may run for as long
as it likes.

## 5. The proofs

Each `...Proofs` module proves `Spec => []IInv` for an inductive invariant, and from
it the properties. All hold for every set of builds, with no bound on timing.

| Module | Theorems | Assumptions | The argument |
|---|---|---|---|
| `ReplayGuardProofs` | `Typing`, `OwnEvidence`, `Refinement`, `Separation` | `BuildsAssumption` | Copies are conserved: those of a phase are under way, being counted, counted, or in what was read. Bodies leave in order, so a full answer to one phase empties the link of it. A reading of a later phase that no build without a feature can give then needs the feature. For `Separation`: when every Sleep is long enough one body is under way at a time (`Alone`), so what a complete build has answered, and what its cache holds, is a function of how many bodies it took (`Answers`), and so is every row main reads (`Rows`). |
| `BackpressureProofs` | `Typing`, `NeverHeld`, `Hysteresis`, `Refinement`, `Separation`, `ThreadGone` | `BuildsAssumption`, `MarksAssumption` | Live messages are bounded by both batches and the parked ones. Once held, a connection resumes only below the low mark, from where two batches do not reach the high one. The base count is taken of an empty network. For the last two: a timely look finds what the build must show by then (`Looked`), since what is kept is counted exactly (`Kept`), no hold is older than the pressing (`Unpressed`), and the park thread ends once it is released (`Thread`). |
| `KeyRotateProofs` | `Typing`, `StillLogsIn`, `Refinement`, `Separation` | `BuildsAssumption` | A message of client *c* exists only if a build with *c*'s key honoured logged it in, before or after the reload according to *c*. The converse needs a timely, prompt machine: at most one address is held, a client main has judged has arrived unless its key was refused, and main gets to a phase by the ladder of the earlier ones (`Settled`). |
| `ConReapProofs` | `Typing`, `FaultsNamed`, `Refinement`, `Separation` | `BuildsAssumption` | A side is dropped only behind a closed peer, or as an arming post in a build that does not spare; a count read as 3 and then as 0 needs both sides of this. On a timely machine each reading is the number of peers that should be up at that point: what was read is what was there (`Read`), what is not read yet is still to be dialled or closed (`Unread`, `Peers`). So a reading that is off has the cause its result names, and for `FaultsNamed` the first reading that is off decides which ("dropped at accept" is also what a build gets that accepts nothing). |
| `PrePushProofs` | `Typing`, `GreenTip`, `HistoryKept` | `HistoryAssumption`, `RootAssumption`, `ZeroAssumption` | A push past its hook keeps old an ancestor of new and new green, whatever others do; the remote's compare-and-swap makes old the master at the move. |
| `HubWakeProofs` | `Typing`, `BurstKept`, `NoneSetLate`, `Refinement`, `Separation` | `BuildsAssumption`, `BurstAssumption` | While a signal is unhandled, the last message of a burst that outlasts them is unsent (`Outlasts`). So a pause finds the connection busy, and a complete burst means that the wakeup was handled: in a bad build either the latch is still on, which main sees, or the connection is gone, and with it the last message (`Lost`). With waits that are long enough a complete build fails no assertion (`Unfailed`), because what `Outlasts` and `Kept` say is left in the queue keeps its connection up. For `NoneSetLate`: main is past its assertions without a failure only when both events have been set, and each handler sets its own once. Where the waits are long enough, what main missed is gone for good (`Settled`): the burst is short of a message, and the number of those queued, under way or received only falls (`Total`), or the last message is lost. |
| `LaddersProofs` | `Typing`, `Invariance`, `Refinement`, `Ownership`, `Sight`, `Separation` | `TableAssumption`, `EvidenceAssumption`; `OwnAssumption` for `Ownership`, `SightAssumption` for `Sight`, `VerdictAssumption` for `Separation` | Of every table of programs with the forms of `HarnessSteps`. What a pump sets is what an effect that was asked for sets, and no effect a fault prevents is delivered; so what a wait took, or a poll saw, has a source the build allows, and what is certain to be set is set. By `EvidenceAssumption` a rung stands before the return that a build with the fault cannot pass. The invariant is that main is past no rung that bars a fault of the build. `Ownership` and `Sight` follow a reading that is true back to what it is of (`Sights`): a delivery that set the signal before the step that read it, was not cleared away in between, and was asked for in a phase that the turns before the request fix. `Separation` is an induction over the run of what the text foretells (`Timing`): what is settled at a step is delivered when main is past it, because a wait that ends on a timely machine finds its signal, whose setter comes after it, or the pumps with nothing left to do. So a delivery is of the phase it was asked for in when the text says so, what nothing resets is set, a signal is of something that no wait has taken, main reads what it is sure to read, and is past no rung that is sure to stop it. |
| `ProbesProofs` | `Typing` and `Invariance` of all five; of the runner `NeverFalselyGreen`, `Safe`, `NeverOver`; of `p2p_pumpbound` `PassTold`, `OneBound`, `EdgesTold`; of `p2p_linkcost` `Complete`, `WindowKept`, `NothingUnnoticed`; of the two-process test `Crossed`, `PostHeard`, `NoneKilled`; of `teardown_stress` `BatchesApart` | `PumpsAssumption`, `BoundsAssumption`; `FiguresAssumption`, `CredibleAssumption`; `CostAssumption`; `ClockAssumption`; `StressAssumption` | One invariant for each program, below. |

The five invariants of `ProbesProofs`:

* `RunInv`. A lost update loses a number, never the last one: a store is of at least
  one, so a counter that has left zero does not return (`Kept`), and the counter and
  every loaded value stay at most the failures recorded (`Bounded`). `Told` says what
  the summary and the exit code have been read from.
* `PumpInv`. While the first site is filled the counter is the base plus what was posted
  (`Counted`), unless it has strayed by one, and then what was measured is off by one
  too. A 0 has passed every check (`Judged`), and with one stray message at most a site
  whose text agrees with the measure enforces what it says. `Edges` says that a site
  within both limits, and honest, is never inconclusive. The lemmas are about
  `LastNumber`: what it reads of a text with one figure, and that a figure that wraps
  is never the bound, because the ceiling is below what an `unsigned long` holds.
* `CostInv`. A posture's messages are on the wire, with its Carol or handled, and no
  more than were posted (`Conserved`). As long as no earlier Carol is left (`left`) only
  this posture's counts (`Counts`, `Window`), and a row is OK only when all were handled
  (`Rows`). On a build that loses nothing, with joins that are long enough, each message
  has an owner who will set the event main waits for (`Prompt`). `WindowKept` is of runs in
  which no pump was left running, `NothingUnnoticed` of a machine that is not slow.
* `AlexInv`. Each process is in a stage no longer than its timer and the delay allow
  (`InTime`). That bounds the start of the server's wait from above by the client's
  (`NotLate`) and from below (`NotEarly`), through every stage of the script in between.
  From the one it follows that the server still waits when a login is in time
  (`NoneLeft`) and that the client that posts then is heard (`Heard`), from the other
  that a server with the message has time to close (`Spared`). A login after the
  client's wait may still post, to a server that waits or closes; no verdict rests on it.
* `StressInv`. Main has made as many clients as it counts, those of the batch included,
  and each has its place in that order in its address (`Numbered`); so no two that were
  ever made share one, whichever of them a join left running. That main is done only
  when it has counted all of them rests on the last batch being cut to what is left.

Two of them changed the model. `PostHeard` fails if the client's sleep equals the delay
(a message may then cross in the tick in which the client closes), which the instance
TLC runs does not show: `ClockAssumption` asks for `kDelay < kFlush`, and gained the
two inequalities under which `NoneKilled` holds. `PassTold` fails if an `unsigned long` is so
small that the ceiling wraps: `CredibleAssumption` says that it is not. `PassTold` is of
what the texts say and of what the first site enforces; that another site enforces no
less is not a theorem, because one post per site does not show it.

`Invariance` is not provable from the properties alone: none of them speaks of what
is under way, which is where a late message is. Each `IInv` adds that.

The typing invariants of the other modules with proofs are established by TLAPS only, and
so is `NeverOver` of `ProbesProofs` (the runner's count of failures is never too high).

The assumptions on a table are conditions on its text, which TLC evaluates on
`MCLadders`' in the run `ladders`; a harness added to it is covered by the theorems as
soon as that run passes.

Left to TLC: `Returns`, `EveryCloseReaped` and `MainReturns` (liveness, out of the
prover's reach), and that the tables meet the assumptions.

## 6. What is not modelled

* The libraries, beyond the flags. That a build has a feature is an assumption of a
  behaviour, never a result.
* Memory safety, which the sanitizer runs are for. Early returns that leave a hub's
  thread running while its object is destroyed are listed as a hazard without a
  property.
* Durations, except in `AlexTest`. A wait is long enough or it is not.
* `p2p_acceptcap --rawonly`, which judges nothing, and a run of it with both halves: no
  test is registered for either. What `p2p_linkcost` prints of times.
* The cases of the unit suites. Each is a sequence of checks of the libraries'
  containers and addresses; to `Runner` a case is a number of checks that may fail.
* The fuzzers, the smoke, golden and compile tests, `seal_interop` and `crypto_kat`:
  sequential computations whose subject is outside the repository.
* The repository checks, which are functions of a checkout. `PrePush` takes their
  result as a run's conclusion.
