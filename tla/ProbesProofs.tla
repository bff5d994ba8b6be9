---------------------------- MODULE ProbesProofs -----------------------------
(***************************************************************************)
(* Of each of the five programs: what its verdict says is so, for every    *)
(* value of its constants and every interleaving.                          *)
(***************************************************************************)
EXTENDS Probes, TLAPS

(***************************************************************************)
(* The unit-test runner                                                    *)
(*                                                                         *)
(* A store writes one more than its thread once loaded.  That is at least  *)
(* one, so the counter is never zero again after the first store (Kept);   *)
(* and what was loaded never exceeded what had been recorded by then, so   *)
(* the counter never exceeds what has been recorded (Bounded).             *)
(***************************************************************************)
Kept    == hits > 0 => failures > 0
Bounded == failures <= hits /\ \A t \in Run!Threads : reg[t] <= hits
Told ==
    /\ exit = Run!Running <=> pc # "done"
    /\ pc \in {"start", "between", "case"} => result = "none"
    /\ pc = "start" => hits = 0 /\ alive = {} /\ \A t \in Run!Threads : reg[t] = Run!NoReg
    /\ pc = "printed" /\ result = "FAIL" => failures > 0
    /\ pc = "printed" => result \in {"PASS", "INCOMPLETE", "FAIL"}
    /\ pc = "printed" /\ failures = 0 => (result = "PASS" <=> nSkipped = 0)
    /\ exit \in {0, 2} => hits = 0 /\ result # "FAIL"
    /\ exit = 0 => result = "PASS"

RunInv == Run!TypeOK /\ Kept /\ Bounded /\ Told

LEMMA RunInit == Run!Init => RunInv
<1> SUFFICES ASSUME Run!Init
             PROVE  RunInv
  OBVIOUS
<1>1. caseHit \in BOOLEAN
  BY Zenon DEF Run!Init
<1>2. Run!TypeOK
  BY <1>1 DEF Run!Init, Run!TypeOK, Run!NoReg, Run!Running, Run!Results
<1>3. Kept /\ Bounded /\ Told
  BY DEF Run!Init, Kept, Bounded, Told, Run!NoReg, Run!Running
<1> QED
  BY <1>2, <1>3 DEF RunInv

LEMMA RunTypeStep == Run!TypeOK /\ [Run!Next]_(Run!vars) => Run!TypeOK'
<1> SUFFICES ASSUME Run!TypeOK, [Run!Next]_(Run!vars)
             PROVE  Run!TypeOK'
  OBVIOUS
<1> USE DEF Run!TypeOK, Run!Results, Run!Running, Run!NoReg, Run!counters, Run!history
<1>1. CASE Run!Startup
  BY <1>1 DEF Run!Startup
<1>2. CASE Run!BeginCase
  <2>1. caseHit' \in BOOLEAN
    BY <1>2, Zenon DEF Run!BeginCase
  <2> QED
    BY <1>2, <2>1 DEF Run!BeginCase
<1>3. CASE Run!EndCase
  BY <1>3 DEF Run!EndCase
<1>4. CASE Run!Summary
  BY <1>4 DEF Run!Summary
<1>5. CASE Run!Finish
  BY <1>5 DEF Run!Finish
<1>6. ASSUME NEW p \in Pumps, Run!SpawnHub(p) \/ Run!JoinHub(p)
      PROVE  Run!TypeOK'
  BY <1>6 DEF Run!SpawnHub, Run!JoinHub
<1>7. ASSUME NEW t \in Run!Threads, Run!LoadFailures(t)
      PROVE  Run!TypeOK'
  BY <1>7 DEF Run!LoadFailures
<1>8. ASSUME NEW t \in Run!Threads, Run!StoreFailures(t)
      PROVE  Run!TypeOK'
  <2>1. reg[t] \in Nat /\ reg' \in [Run!Threads -> Nat \union {Run!NoReg}]
    BY <1>8 DEF Run!StoreFailures
  <2>2. caseHit' \in BOOLEAN
    BY <1>8, Zenon DEF Run!StoreFailures
  <2> QED
    BY <1>8, <2>1, <2>2 DEF Run!StoreFailures
<1>9. CASE UNCHANGED Run!vars
  BY <1>9 DEF Run!vars
<1> QED
  BY <1>1, <1>2, <1>3, <1>4, <1>5, <1>6, <1>7, <1>8, <1>9 DEF Run!Next, Run!Main, Run!Fail, Run!Done

LEMMA RunRestStep == RunInv /\ [Run!Next]_(Run!vars) => Kept' /\ Bounded' /\ Told'
<1> SUFFICES ASSUME RunInv, [Run!Next]_(Run!vars)
             PROVE  Kept' /\ Bounded' /\ Told'
  OBVIOUS
<1> USE DEF RunInv, Run!TypeOK, Kept, Bounded, Told, Run!Results, Run!Running, Run!NoReg, Run!counters, Run!history
<1>1. CASE Run!Startup
  BY <1>1 DEF Run!Startup
<1>2. CASE Run!BeginCase
  BY <1>2 DEF Run!BeginCase
<1>3. CASE Run!EndCase
  BY <1>3 DEF Run!EndCase
<1>4. CASE Run!Summary
  BY <1>4 DEF Run!Summary
<1>5. CASE Run!Finish
  BY <1>5 DEF Run!Finish
<1>6. ASSUME NEW p \in Pumps, Run!SpawnHub(p) \/ Run!JoinHub(p)
      PROVE  Kept' /\ Bounded' /\ Told'
  BY <1>6 DEF Run!SpawnHub, Run!JoinHub
<1>7. ASSUME NEW t \in Run!Threads, Run!LoadFailures(t)
      PROVE  Kept' /\ Bounded' /\ Told'
  BY <1>7 DEF Run!LoadFailures, Run!MayFail, Run!Threads
<1>8. ASSUME NEW t \in Run!Threads, Run!StoreFailures(t)
      PROVE  Kept' /\ Bounded' /\ Told'
  <2>1. reg[t] \in Nat /\ failures' = reg[t] + 1 /\ hits' = hits + 1 /\ reg[t] <= hits
    BY <1>8 DEF Run!StoreFailures
  <2>2. Kept'
    BY <2>1
  <2>3. Bounded'
    BY <1>8, <2>1 DEF Run!StoreFailures
  <2>4. Told'
    <3>1. t \in Run!Threads /\ UNCHANGED <<pc, nSkipped, result, exit>> /\ exit = Run!Running
      BY <1>8 DEF Run!StoreFailures
    <3>2. pc # "start"
      BY <1>8, <2>1 DEF Run!StoreFailures
    <3> QED
      BY <2>1, <3>1, <3>2
  <2> QED
    BY <2>2, <2>3, <2>4
<1>9. CASE UNCHANGED Run!vars
  BY <1>9 DEF Run!vars
<1> QED
  BY <1>1, <1>2, <1>3, <1>4, <1>5, <1>6, <1>7, <1>8, <1>9 DEF Run!Next, Run!Main, Run!Fail, Run!Done

LEMMA RunInvStep == RunInv /\ [Run!Next]_(Run!vars) => RunInv'
  BY RunTypeStep, RunRestStep DEF RunInv

(***************************************************************************)
(* teardown_stress                                                         *)
(*                                                                         *)
(* The hubs that were made are those of the batches that are gone and      *)
(* those of the one main is at, so that a client's number is its place     *)
(* among all of them (Numbered), whatever has become of the others.        *)
(***************************************************************************)
Numbered ==
    /\ \A c \in DOMAIN addr : addr[c] = c - 1
    /\ pc # "over" => Len(hub) = nMade + Stress!InBatch
    /\ pc = "listen" => i = 0 /\ nMade = 0
    /\ pc = "server" => nMade = nTotal
    /\ nExit = 0 => pc = "over" /\ Len(hub) = nTotal

StressInv == Stress!TypeOK /\ Numbered

\* A batch is not empty while clients are left, and not too large.
LEMMA BatchSize ==
    ASSUME Stress!TypeOK
    PROVE  /\ Stress!nConcClamped \in Nat /\ nTotal \in Nat /\ nMade \in Nat /\ i \in Nat
           /\ Stress!nThis \in 0..Stress!nConcClamped /\ nMade + Stress!nThis <= nTotal
BY StressAssumption DEF Stress!StressAssumption, Stress!TypeOK, Stress!nConcClamped, Stress!nThis

LEMMA StressInit == Stress!Init => StressInv
<1> SUFFICES ASSUME Stress!Init
             PROVE  StressInv
  OBVIOUS
<1>1. nTotal \in Nat /\ Stress!nConcClamped \in Nat
  BY StressAssumption DEF Stress!StressAssumption, Stress!nConcClamped
<1>2. Stress!TypeOK
  BY <1>1 DEF Stress!Init, Stress!TypeOK, Stress!Running
<1>3. Numbered
  BY DEF Stress!Init, Numbered, Stress!InBatch, Stress!Running
<1> QED
  BY <1>2, <1>3 DEF StressInv

\* A hub whose state changes stays where it is.
LEMMA SameLength ==
    ASSUME NEW S, NEW s \in Seq(S), NEW k, NEW x \in S
    PROVE  /\ [s EXCEPT ![k] = x] \in Seq(S) /\ Len([s EXCEPT ![k] = x]) = Len(s)
           /\ DOMAIN [s EXCEPT ![k] = x] = DOMAIN s
<1> DEFINE t == [s EXCEPT ![k] = x]
<1>1. Len(s) \in Nat /\ DOMAIN s = 1..Len(s) /\ \A j \in 1..Len(s) : s[j] \in S
  OBVIOUS
<1>2. t = [j \in 1..Len(s) |-> IF j = k THEN x ELSE s[j]]
  BY <1>1
<1>3. \A j \in 1..Len(s) : (IF j = k THEN x ELSE s[j]) \in S
  BY <1>1
<1>4. t \in [1..Len(s) -> S]
  BY <1>2, <1>3
<1>5. t \in Seq(S) /\ Len(t) = Len(s)
  BY <1>1, <1>4
<1> QED
  BY <1>5

\* Closing a hub that is not up changes nothing.
LEMMA CloseHubOr ==
    ASSUME Stress!TypeOK, Stress!CloseHub
    PROVE  hub' = [hub EXCEPT ![Stress!Batch(i)] = "closing"] \/ hub' = hub
<1> DEFINE k == Stress!Batch(i)
<1>1. hub' = [hub EXCEPT ![k] = IF hub[k] = "up" THEN "closing" ELSE hub[k]]
  BY DEF Stress!CloseHub
<1>2. [hub EXCEPT ![k] = hub[k]] = hub
  BY DEF Stress!TypeOK
<1>3. CASE hub[k] = "up"
  BY <1>1, <1>3
<1>4. CASE hub[k] # "up"
  <2>1. hub' = [hub EXCEPT ![k] = hub[k]]
    BY <1>1, <1>4
  <2> QED
    BY <1>2, <2>1
<1> QED
  BY <1>3, <1>4

LEMMA StressTypeStep == Stress!TypeOK /\ [Stress!Next]_(Stress!vars) => Stress!TypeOK'
<1> SUFFICES ASSUME Stress!TypeOK, [Stress!Next]_(Stress!vars)
             PROVE  Stress!TypeOK'
  OBVIOUS
<1>0. /\ Stress!nConcClamped \in Nat /\ nTotal \in Nat /\ nMade \in Nat /\ i \in Nat
      /\ Stress!nThis \in 0..Stress!nConcClamped /\ nMade + Stress!nThis <= nTotal
  BY BatchSize
<1> USE DEF Stress!TypeOK, Stress!Running, Stress!Crashed
<1>1. CASE Stress!SetupFailed \/ Stress!Listen \/ Stress!CloseServer
  BY <1>0, <1>1 DEF Stress!SetupFailed, Stress!Listen, Stress!CloseServer, Stress!Return,
     Stress!NextBatch
<1>2. CASE Stress!SpawnHub
  <2>1. PICK state \in {"up", "ended"} : hub' = Append(hub, state)
    BY <1>2 DEF Stress!SpawnHub
  <2>2. /\ hub' \in Seq({"up", "closing", "ended"}) /\ Len(hub') = Len(hub) + 1
        /\ DOMAIN hub \subseteq DOMAIN hub'
    BY <2>1
  <2>3. addr' \in Seq(Nat) /\ Len(addr') = Len(addr) + 1
    BY <1>0, <1>2 DEF Stress!SpawnHub
  <2> QED
    BY <1>0, <1>2, <2>2, <2>3 DEF Stress!SpawnHub
<1>3. CASE Stress!Delay \/ Stress!AllClosed
  BY <1>0, <1>3 DEF Stress!Delay, Stress!AllClosed
<1>4. CASE Stress!CloseHub
  <2>1. hub' = [hub EXCEPT ![Stress!Batch(i)] = "closing"] \/ hub' = hub
    BY <1>4, CloseHubOr
  <2>2. hub' \in Seq({"up", "closing", "ended"}) /\ Len(hub') = Len(hub)
        /\ DOMAIN hub' = DOMAIN hub
    <3>1. CASE hub' = hub
      BY <3>1 DEF Stress!TypeOK
    <3>2. CASE hub' = [hub EXCEPT ![Stress!Batch(i)] = "closing"]
      <4>1. hub \in Seq({"up", "closing", "ended"}) /\ "closing" \in {"up", "closing", "ended"}
        BY DEF Stress!TypeOK
      <4> QED
        BY <3>2, <4>1, SameLength
    <3> QED
      BY <2>1, <3>1, <3>2
  <2> QED
    BY <1>0, <1>4, <2>2 DEF Stress!CloseHub
<1>5. CASE Stress!Join
  BY <1>0, <1>5 DEF Stress!Join
<1>6. CASE Stress!Destroy
  BY <1>0, <1>6 DEF Stress!Destroy, Stress!NextBatch
<1>7. CASE Stress!Threads
  <2>1. PICK c \in Stress!Hubs : Stress!Login(c) \/ Stress!Drop(c) \/ Stress!Ended(c) \/ Stress!Crash(c)
    BY <1>7 DEF Stress!Threads
  <2>2. CASE Stress!Login(c) \/ Stress!Drop(c)
    BY <2>2 DEF Stress!Login, Stress!Drop, Stress!Alive
  <2>3. CASE Stress!Ended(c)
    <3>1. hub' \in Seq({"up", "closing", "ended"}) /\ Len(hub') = Len(hub)
          /\ DOMAIN hub' = DOMAIN hub
      BY <2>3, SameLength DEF Stress!Ended
    <3> QED
      BY <2>3, <3>1 DEF Stress!Ended
  <2>4. CASE Stress!Crash(c)
    BY <2>4 DEF Stress!Crash, Stress!Return
  <2> QED
    BY <2>1, <2>2, <2>3, <2>4
<1>8. CASE Stress!Over \/ UNCHANGED Stress!vars
  BY <1>8 DEF Stress!Over, Stress!vars
<1> QED
  BY <1>1, <1>2, <1>3, <1>4, <1>5, <1>6, <1>7, <1>8 DEF Stress!Next, Stress!Main

LEMMA StressInvStep == StressInv /\ [Stress!Next]_(Stress!vars) => StressInv'
<1> SUFFICES ASSUME Stress!TypeOK, Numbered, [Stress!Next]_(Stress!vars)
             PROVE  Numbered'
  BY StressTypeStep DEF StressInv
<1>0. /\ Stress!nConcClamped \in Nat /\ nTotal \in Nat /\ nMade \in Nat /\ i \in Nat
      /\ Stress!nThis \in 0..Stress!nConcClamped /\ nMade + Stress!nThis <= nTotal
      /\ hub \in Seq({"up", "closing", "ended"}) /\ addr \in Seq(Nat) /\ Len(addr) = Len(hub)
  BY BatchSize DEF Stress!TypeOK
<1> USE DEF Numbered, Stress!InBatch, Stress!Running, Stress!Crashed
<1>1. CASE Stress!SetupFailed \/ Stress!Listen \/ Stress!CloseServer
  BY <1>0, <1>1 DEF Stress!SetupFailed, Stress!Listen, Stress!CloseServer, Stress!Return,
     Stress!NextBatch
<1>2. CASE Stress!SpawnHub
  <2>1. Len(hub') = Len(hub) + 1 /\ Len(hub) = nMade + i
    BY <1>0, <1>2 DEF Stress!SpawnHub
  <2>2. \A c \in DOMAIN addr' : addr'[c] = c - 1
    BY <1>0, <1>2, <2>1 DEF Stress!SpawnHub
  <2> QED
    BY <1>0, <1>2, <2>1, <2>2 DEF Stress!SpawnHub
<1>3. CASE Stress!Delay \/ Stress!AllClosed
  BY <1>0, <1>3 DEF Stress!Delay, Stress!AllClosed, Stress!nThis
<1>4. CASE Stress!CloseHub
  <2>0. hub' = [hub EXCEPT ![Stress!Batch(i)] = "closing"] \/ hub' = hub
    BY <1>4, CloseHubOr
  <2>1. Len(hub') = Len(hub)
    BY <1>0, <2>0, SameLength
  <2> QED
    BY <1>0, <1>4, <2>1 DEF Stress!CloseHub, Stress!nThis
<1>5. CASE Stress!Join
  BY <1>0, <1>5 DEF Stress!Join, Stress!nThis
<1>6. CASE Stress!Destroy
  BY <1>0, <1>6 DEF Stress!Destroy, Stress!NextBatch
<1>7. CASE Stress!Threads
  <2>1. PICK c \in Stress!Hubs : Stress!Login(c) \/ Stress!Drop(c) \/ Stress!Ended(c) \/ Stress!Crash(c)
    BY <1>7 DEF Stress!Threads
  <2>2. Len(hub') = Len(hub) /\ UNCHANGED <<nMade, i, addr>>
    BY <1>0, <2>1, SameLength DEF Stress!Login, Stress!Drop, Stress!Ended, Stress!Crash
  <2>3. \/ pc' = pc /\ nExit' = nExit
        \/ pc' = "over" /\ nExit' = -2
    BY <2>1 DEF Stress!Login, Stress!Drop, Stress!Ended, Stress!Crash, Stress!Return
  <2> QED
    BY <1>0, <2>2, <2>3 DEF Stress!nThis
<1>8. CASE Stress!Over \/ UNCHANGED Stress!vars
  BY <1>8 DEF Stress!Over, Stress!vars, Stress!nThis
<1> QED
  BY <1>1, <1>2, <1>3, <1>4, <1>5, <1>6, <1>7, <1>8 DEF Stress!Next, Stress!Main

LEMMA StressHolds == StressInv => Stress!BatchesDoNotMeet
<1> SUFFICES ASSUME StressInv
             PROVE  Stress!BatchesDoNotMeet
  OBVIOUS
<1>1. /\ DOMAIN addr = 1..Len(hub) /\ DOMAIN hub = 1..Len(hub) /\ nTotal \in Nat
      /\ Stress!Alive \cup names \subseteq DOMAIN addr
  BY StressAssumption DEF StressInv, Stress!StressAssumption, Stress!TypeOK, Stress!Alive
<1>2. \A c \in 1..Len(hub) : addr[c] = c - 1
  BY <1>1 DEF StressInv, Numbered
<1>3. \A c, d \in Stress!Alive \cup names : c # d => addr[c] # addr[d]
  BY <1>1, <1>2
<1>4. ASSUME nExit = 0
      PROVE  Len(addr) = nTotal /\ \A n \in 0..(nTotal - 1) : \E c \in Stress!Hubs : addr[c] = n
  <2>1. Len(hub) = nTotal /\ Len(addr) = nTotal
    BY <1>4 DEF StressInv, Numbered, Stress!TypeOK
  <2>2. ASSUME NEW n \in 0..(nTotal - 1)
        PROVE  \E c \in Stress!Hubs : addr[c] = n
    <3>1. n + 1 \in Stress!Hubs /\ addr[n + 1] = n
      BY <1>1, <1>2, <2>1 DEF Stress!Hubs
    <3> QED
      BY <3>1
  <2> QED
    BY <2>1, <2>2
<1> QED
  BY <1>3, <1>4 DEF Stress!BatchesDoNotMeet

(***************************************************************************)
(* p2p_pumpbound                                                           *)
(*                                                                         *)
(* Up to one stray message the count is either what main thinks it is, or  *)
(* one off and stays so until main asks for it (Counted).  A verdict of 0  *)
(* then puts the bound where main measured it, and a figure of at least    *)
(* kMinCredible can be read from one diagnostic only: what wraps is below  *)
(* Radix (Figure).                                                         *)
(***************************************************************************)
Refused == IF keeps THEN 1 ELSE 0

\* The last post was let in, and the next one is not.
Reached ==
    nPosted > 0 => sites.post.limit = Pump!Unlimited \/ sites.post.limit >= base + nPosted - 1
Beyond == sites.post.limit # Pump!Unlimited /\ sites.post.limit < base + nPosted

Near(n) == strays = 1 /\ (count = n - 1 \/ count = n + 1)

Refuses(site) == site.limit # Pump!Unlimited /\ site.limit <= Pump!Measured
Agrees(site)  == Pump!LastNumber(site.says) = Pump!Measured

Called ==
    /\ pc \in {"startup", "hub"} =>
        DOMAIN sites = {} /\ nExit = 2 /\ nPosted = 0 /\ (strays = 0 => count = base)
    /\ pc \in {"fill", "caught"} => DOMAIN sites = {"post"} /\ nExit = 2
    /\ pc = "caught" => nPosted < kPostCeiling
    /\ pc = "batch" => DOMAIN sites = {"post", "batch"} /\ nExit = 0
    /\ pc = "narrow" => DOMAIN sites = {"post", "batch", "narrow"} /\ nExit = 0
    /\ pc = "close" => "post" \in DOMAIN sites
    /\ pc = "over" => "post" \in DOMAIN sites \/ (DOMAIN sites = {} /\ nExit = 2)
    /\ strays = 0 => base <= MaxBase

Counted ==
    /\ pc = "fill" /\ strays <= 1 =>
        (count = base + nPosted /\ Reached) \/ Near(base + nPosted)
    /\ pc = "caught" /\ strays <= 1 =>
        (count = base + nPosted + Refused /\ Reached /\ Beyond) \/ Near(base + nPosted + Refused)

Judged ==
    nExit = 0 =>
        /\ kMinCredible <= nPosted /\ nPosted < kPostCeiling
        /\ Agrees(sites.post)
        /\ strays <= 1 /\ (keeps => strays = 0) => sites.post.limit = Pump!Measured
        /\ pc \in {"batch", "narrow"} /\ strays = 0 => count = base + nPosted /\ ~keeps
        /\ pc \in {"narrow", "close", "over"} =>
            Agrees(sites.batch) /\ (strays = 0 => Refuses(sites.batch))
        /\ pc \in {"close", "over"} =>
            /\ DOMAIN sites = {"post", "batch", "narrow"}
            /\ Agrees(sites.narrow) /\ (strays = 0 => Refuses(sites.narrow))

Edges ==
    pc \in {"close", "over"} /\ strays = 0 /\ DOMAIN sites # {} =>
        /\ nExit = 3 <=> Pump!Inconclusive
        /\ Pump!Honest /\ ~Pump!Inconclusive => nExit = 0

PumpInv == Pump!TypeOK /\ Called /\ Counted /\ Judged /\ Edges

LEMMA PumpConstants ==
    /\ Radix \in Nat /\ Radix >= 2 /\ Largest \in Nat
    /\ \A w \in Words : w \in Nat /\ w > Largest
    /\ Incidental \in Nat /\ Limits \subseteq Nat /\ Figures \subseteq Nat
    /\ MaxBase \in Nat /\ MaxStrays \in Nat
    /\ kMinCredible \in Nat /\ kMinCredible > Radix /\ kMinCredible > Incidental + 1
    /\ kPostCeiling \in Nat /\ kPostCeiling > kMinCredible /\ MaxBase + kPostCeiling <= Largest
BY FiguresAssumption, CredibleAssumption DEF Pump!FiguresAssumption, Pump!CredibleAssumption

\* Reading a figure: what is small enough is read as it is, and what wraps is
\* read as something below Radix.
LEMMA Reading ==
    ASSUME word \in Words, NEW n \in Nat
    PROVE  /\ Pump!RunRead(n) \in Int
           /\ n <= Largest => Pump!RunRead(n) = n
           /\ Pump!RunRead(n) = n \/ Pump!RunRead(n) < Radix
<1> DEFINE d == n \div Radix
           l == Largest \div Radix
<1>1. word \in Nat /\ word > Largest /\ Radix \in Nat /\ Radix >= 2 /\ Largest \in Nat
  BY PumpConstants
<1>2. d \in Nat /\ l \in Nat /\ n < Radix * d + Radix /\ Radix * l <= Largest /\ Radix * d <= n
      /\ Largest < Radix * l + Radix
  BY <1>1
<1>3. n <= Largest => d <= l
  BY <1>1, <1>2
<1>4. d <= l => Radix * d <= Radix * l
  BY <1>1, <1>2
<1>5. d <= l => n < Largest + Radix
  BY <1>1, <1>2, <1>4
<1>6. n < word => n % word = n
  BY <1>1
<1>7. word <= n /\ n < Largest + Radix => n % word < Radix
  <2>1. word <= n /\ n < Largest + Radix => (n % word = n - word \/ Radix > word)
    BY <1>1
  <2>2. Radix <= word
    BY <1>1, PumpConstants
  <2> QED
    BY <1>1, <2>1, <2>2
<1>8. n < Radix => n % word = n
  BY <1>1, <1>6, PumpConstants
<1>9. Pump!RunRead(n) = IF n < Radix THEN n ELSE IF d > l THEN -1 ELSE n % word
  BY <1>1, <1>2 DEF Pump!RunRead, Pump!NoNumber
<1>10. n % word \in Nat
  BY <1>1
<1> HIDE DEF d, l
<1> QED
  BY <1>1, <1>2, <1>3, <1>5, <1>6, <1>7, <1>9, <1>10

\* What a diagnostic says.
LEMMA Figure ==
    ASSUME word \in Words, NEW says \in Pump!Diagnostics, NEW m \in Nat, kMinCredible <= m + 1
    PROVE  /\ Pump!LastNumber(says) = m => says = <<Incidental, m>>
           /\ m <= Largest /\ says = <<Incidental, m>> => Pump!LastNumber(says) = m
<1>0. /\ Incidental \in Nat /\ Incidental < Largest /\ Radix \in Nat /\ Radix >= 2 /\ Largest \in Nat
      /\ m > Incidental /\ m >= Radix /\ m \in Int
  BY PumpConstants
<1>1. Pump!RunRead(Incidental) = Incidental
  BY <1>0, Reading
<1>2. CASE says = <<>>
  BY <1>0, <1>2 DEF Pump!LastNumber, Pump!NoNumber
<1>3. CASE says = <<Incidental>>
  <2>1. DOMAIN says = {1} /\ says[1] = Incidental /\ Pump!Last(says) = Incidental /\ says # <<>>
    BY <1>3 DEF Pump!Last
  <2> QED
    BY <1>0, <1>1, <1>3, <2>1 DEF Pump!LastNumber, Pump!NoNumber
<1>4. ASSUME NEW n \in Figures, says = <<Incidental, n>>
      PROVE  /\ Pump!LastNumber(says) = m => says = <<Incidental, m>>
             /\ m <= Largest /\ says = <<Incidental, m>> => Pump!LastNumber(says) = m
  <2>1. n \in Nat
    BY PumpConstants
  <2>2. DOMAIN says = {1, 2} /\ says[1] = Incidental /\ says[2] = n /\ Pump!Last(says) = n /\ says # <<>>
    BY <1>4 DEF Pump!Last
  <2>3. Pump!LastNumber(says) = Pump!RunRead(n)
    BY <1>0, <1>1, <2>2 DEF Pump!LastNumber, Pump!NoNumber
  <2>4. /\ Pump!RunRead(n) \in Int
        /\ n <= Largest => Pump!RunRead(n) = n
        /\ Pump!RunRead(n) = n \/ Pump!RunRead(n) < Radix
    BY <2>1, Reading
  <2>5. says = <<Incidental, m>> => n = m
    BY <2>2
  <2> QED
    BY <1>0, <1>4, <2>1, <2>3, <2>4, <2>5
<1> QED
  BY <1>2, <1>3, <1>4 DEF Pump!Diagnostics

LEMMA PumpInit == Pump!Init => PumpInv
<1> SUFFICES ASSUME Pump!Init
             PROVE  PumpInv
  OBVIOUS
<1>1. base \in Nat /\ base <= MaxBase /\ 0 \in 0..kPostCeiling /\ 0 \in 0..MaxStrays
  BY PumpConstants DEF Pump!Init
<1>2. keeps \in BOOLEAN /\ word \in Words
  BY Zenon DEF Pump!Init
<1>3. DOMAIN sites = {}
  BY DEF Pump!Init
<1>4. Pump!TypeOK
  BY <1>1, <1>2, <1>3 DEF Pump!Init, Pump!TypeOK
<1> QED
  BY <1>1, <1>3, <1>4 DEF Pump!Init, PumpInv, Called, Counted, Judged, Edges

\* A first call adds the site and changes no other.
LEMMA Calling ==
    ASSUME NEW site \in Pump!SiteNames, Pump!FirstCall(site),
           DOMAIN sites \subseteq Pump!SiteNames, \A x \in DOMAIN sites : sites[x] \in Pump!SiteKinds
    PROVE  /\ DOMAIN sites' = DOMAIN sites \cup {site}
           /\ \A x \in DOMAIN sites : x # site => sites'[x] = sites[x]
           /\ DOMAIN sites' \subseteq Pump!SiteNames
           /\ \A x \in DOMAIN sites' : sites'[x] \in Pump!SiteKinds
<1>1. PICK s \in Pump!SiteKinds :
        sites' = [x \in DOMAIN sites \cup {site} |-> IF x = site THEN s ELSE sites[x]]
  BY DEF Pump!FirstCall
<1> QED
  BY <1>1

\* What a site's record is made of.
LEMMA SiteRecord ==
    ASSUME NEW s \in Pump!SiteKinds
    PROVE  /\ s.limit \in Int /\ (s.limit = Pump!Unlimited \/ s.limit \in Nat)
           /\ s.says \in Pump!Diagnostics
<1>1. s.limit \in Limits \cup {Pump!Unlimited} /\ s.says \in Pump!Diagnostics
  BY DEF Pump!SiteKinds
<1>2. Limits \subseteq Nat
  BY PumpConstants
<1>3. s.limit \in Nat \/ s.limit = Pump!Unlimited
  BY <1>1, <1>2
<1> QED
  BY <1>1, <1>3 DEF Pump!Unlimited

LEMMA PumpTypeStep == Pump!TypeOK /\ [Pump!Next]_(Pump!vars) => Pump!TypeOK'
<1> SUFFICES ASSUME Pump!TypeOK, [Pump!Next]_(Pump!vars)
             PROVE  Pump!TypeOK'
  OBVIOUS
<1>0. /\ pc \in {"startup", "hub", "fill", "caught", "batch", "narrow", "close", "over"}
      /\ base \in Nat /\ count \in Nat /\ live \in Nat /\ strays \in 0..MaxStrays
      /\ nPosted \in 0..kPostCeiling /\ nExit \in 0..3
      /\ DOMAIN sites \subseteq Pump!SiteNames
      /\ \A s \in DOMAIN sites : sites[s] \in Pump!SiteKinds
      /\ kPostCeiling \in Nat /\ MaxStrays \in Nat
  BY PumpConstants DEF Pump!TypeOK
<1>b. keeps \in BOOLEAN /\ word \in Words
  BY DEF Pump!TypeOK
<1> DEFINE Numbers ==
        /\ pc' \in {"startup", "hub", "fill", "caught", "batch", "narrow", "close", "over"}
        /\ base' \in Nat /\ count' \in Nat /\ live' \in Nat /\ strays' \in 0..MaxStrays
        /\ nPosted' \in 0..kPostCeiling /\ nExit' \in 0..3
           Sites ==
        /\ DOMAIN sites' \subseteq Pump!SiteNames
        /\ \A s \in DOMAIN sites' : sites'[s] \in Pump!SiteKinds
<1>1. Numbers
  <2> USE <1>0
  <2>1. CASE Pump!StartupP2Pmsg \/ Pump!CreateP2PmsgHub \/ Pump!CloseP2PmsgHub
    BY <2>1 DEF Pump!StartupP2Pmsg, Pump!CreateP2PmsgHub, Pump!CloseP2PmsgHub, Pump!queueVars, Pump!mainVars
  <2>2. CASE Pump!PostAccepted \/ Pump!NeverRefused \/ Pump!PostRefused
    BY <2>2 DEF Pump!PostAccepted, Pump!NeverRefused, Pump!PostRefused, Pump!AfterRefusal, Pump!queueVars, Pump!mainVars
  <2>3. CASE Pump!Judge
    <3>1. Pump!Verdict \in 0..3
      BY DEF Pump!Verdict
    <3> QED
      BY <2>3, <3>1 DEF Pump!Judge, Pump!queueVars
  <2>4. CASE Pump!Batch \/ Pump!Narrow
    <3>1. count' \in Nat
      BY <2>4 DEF Pump!Batch, Pump!Narrow, Pump!Call, Pump!AfterRefusal
    <3>2. nExit' \in {0, 1}
      BY <2>4 DEF Pump!Batch, Pump!Narrow, Pump!CheckRefusal
    <3> QED
      BY <2>4, <3>1, <3>2 DEF Pump!Batch, Pump!Narrow, Pump!mainVars
  <2>5. CASE Pump!Stray
    BY <2>5 DEF Pump!Stray, Pump!mainVars
  <2>6. CASE Pump!Over \/ UNCHANGED Pump!vars
    BY <2>6 DEF Pump!Over, Pump!vars, Pump!queueVars, Pump!mainVars
  <2> QED
    BY <2>1, <2>2, <2>3, <2>4, <2>5, <2>6 DEF Pump!Next, Pump!Main
<1>2. Sites
  <2>1. CASE UNCHANGED sites
    BY <1>0, <2>1
  <2>2. ASSUME NEW site \in Pump!SiteNames, Pump!FirstCall(site)
        PROVE  Sites
    BY <1>0, <2>2, Calling
  <2>3. UNCHANGED sites \/ \E site \in Pump!SiteNames : Pump!FirstCall(site)
    BY Zenon DEF Pump!Next, Pump!Main, Pump!StartupP2Pmsg, Pump!CreateP2PmsgHub, Pump!CloseP2PmsgHub,
      Pump!PostAccepted, Pump!NeverRefused, Pump!PostRefused, Pump!Judge, Pump!Batch, Pump!Narrow,
      Pump!Stray, Pump!Over, Pump!vars, Pump!buildVars, Pump!SiteNames
  <2> QED
    BY <2>1, <2>2, <2>3
<1>3. UNCHANGED <<word, keeps>>
  BY Zenon DEF Pump!Next, Pump!Main, Pump!StartupP2Pmsg, Pump!CreateP2PmsgHub, Pump!CloseP2PmsgHub,
    Pump!PostAccepted, Pump!NeverRefused, Pump!PostRefused, Pump!Judge, Pump!Batch, Pump!Narrow,
    Pump!Stray, Pump!Over, Pump!vars, Pump!buildVars
<1> QED
  BY <1>b, <1>1, <1>2, <1>3 DEF Pump!TypeOK

LEMMA PumpCalledStep == PumpInv /\ [Pump!Next]_(Pump!vars) => Called'
<1> SUFFICES ASSUME PumpInv, [Pump!Next]_(Pump!vars)
             PROVE  Called'
  OBVIOUS
<1>0. /\ DOMAIN sites \subseteq Pump!SiteNames
      /\ \A s \in DOMAIN sites : sites[s] \in Pump!SiteKinds
      /\ strays \in Nat /\ Called /\ base \in Nat
  BY DEF PumpInv, Pump!TypeOK
<1> USE DEF Called
<1>1. CASE Pump!StartupP2Pmsg \/ Pump!CloseP2PmsgHub
  BY <1>0, <1>1 DEF Pump!StartupP2Pmsg, Pump!CloseP2PmsgHub, Pump!buildVars, Pump!queueVars, Pump!mainVars
<1>2. CASE Pump!CreateP2PmsgHub
  <2>1. CASE pc' = "over"
    BY <1>0, <1>2, <2>1 DEF Pump!CreateP2PmsgHub, Pump!queueVars
  <2>2. CASE pc' # "over"
    <3>1. pc' = "fill" /\ base' = count /\ Pump!FirstCall("post")
      BY <1>2, <2>2 DEF Pump!CreateP2PmsgHub
    <3>2. DOMAIN sites' = {"post"}
      BY <1>0, <1>2, <3>1, Calling DEF Pump!CreateP2PmsgHub, Pump!SiteNames
    <3> QED
      BY <1>0, <1>2, <3>1, <3>2 DEF Pump!CreateP2PmsgHub, Pump!queueVars
  <2> QED
    BY <2>1, <2>2
<1>3. CASE Pump!PostAccepted \/ Pump!NeverRefused \/ Pump!PostRefused
  BY <1>0, <1>3 DEF Pump!PostAccepted, Pump!NeverRefused, Pump!PostRefused, Pump!buildVars, Pump!queueVars, Pump!mainVars
<1>4. CASE Pump!Judge
  <2>1. CASE Pump!Verdict = 0
    <3>1. DOMAIN sites' = DOMAIN sites \cup {"batch"}
      BY <1>0, <1>4, <2>1, Calling DEF Pump!Judge, Pump!SiteNames
    <3> QED
      BY <1>0, <1>4, <2>1, <3>1 DEF Pump!Judge, Pump!queueVars
  <2>2. CASE Pump!Verdict # 0
    BY <1>0, <1>4, <2>2 DEF Pump!Judge, Pump!queueVars
  <2> QED
    BY <2>1, <2>2
<1>5. CASE Pump!Batch
  <2>1. CASE nExit' = 0
    <3>1. DOMAIN sites' = DOMAIN sites \cup {"narrow"}
      BY <1>0, <1>5, <2>1, Calling DEF Pump!Batch, Pump!SiteNames
    <3> QED
      BY <1>0, <1>5, <2>1, <3>1 DEF Pump!Batch, Pump!mainVars
  <2>2. CASE nExit' # 0
    BY <1>0, <1>5, <2>2 DEF Pump!Batch, Pump!mainVars
  <2> QED
    BY <2>1, <2>2
<1>6. CASE Pump!Narrow
  BY <1>0, <1>6 DEF Pump!Narrow, Pump!buildVars, Pump!mainVars
<1>7. CASE Pump!Stray
  BY <1>0, <1>7 DEF Pump!Stray, Pump!buildVars, Pump!mainVars
<1>8. CASE Pump!Over \/ UNCHANGED Pump!vars
  BY <1>0, <1>8 DEF Pump!Over, Pump!vars, Pump!buildVars, Pump!queueVars, Pump!mainVars
<1> QED
  BY <1>1, <1>2, <1>3, <1>4, <1>5, <1>6, <1>7, <1>8 DEF Pump!Next, Pump!Main

LEMMA PumpCountedStep == PumpInv /\ [Pump!Next]_(Pump!vars) => Counted'
<1> SUFFICES ASSUME PumpInv, [Pump!Next]_(Pump!vars)
             PROVE  Counted'
  OBVIOUS
<1>0. /\ DOMAIN sites \subseteq Pump!SiteNames
      /\ \A s \in DOMAIN sites : sites[s] \in Pump!SiteKinds
      /\ base \in Nat /\ count \in Nat /\ nPosted \in Nat /\ strays \in Nat
      /\ Called /\ Counted /\ Refused \in {0, 1}
      /\ pc \in {"startup", "hub"} => nPosted = 0
  BY PumpConstants DEF PumpInv, Pump!TypeOK, Refused, Called
<1>p. pc \in {"fill", "caught"} => sites.post.limit \in Int
  BY <1>0, SiteRecord DEF Called
<1> USE DEF Counted, Near
<1>1. CASE Pump!CreateP2PmsgHub
  BY <1>0, <1>1 DEF Pump!CreateP2PmsgHub, Pump!queueVars, Reached, Called
<1>2. CASE Pump!PostAccepted
  BY <1>0, <1>p, <1>2 DEF Pump!PostAccepted, Pump!Accepts, Pump!buildVars, Reached
<1>3. CASE Pump!PostRefused
  <2>1. Refused' = Refused /\ count' = count + Refused
    BY <1>0, <1>3 DEF Pump!PostRefused, Refused, Pump!AfterRefusal, Pump!buildVars
  <2>2. Reached => Reached'
    BY <1>3 DEF Pump!PostRefused, Reached, Pump!buildVars, Pump!mainVars
  <2>3. count = base + nPosted => Beyond'
    BY <1>0, <1>p, <1>3 DEF Pump!PostRefused, Pump!Accepts, Beyond, Pump!buildVars, Pump!mainVars
  <2>4. pc = "fill" /\ pc' = "caught" /\ base' = base /\ nPosted' = nPosted /\ strays' = strays
    BY <1>3 DEF Pump!PostRefused, Pump!mainVars
  <2> QED
    BY <1>0, <2>1, <2>2, <2>3, <2>4
<1>4. CASE Pump!Stray
  <2>1. Refused' = Refused /\ (Reached <=> Reached') /\ (Beyond <=> Beyond')
    BY <1>4 DEF Pump!Stray, Refused, Reached, Beyond, Pump!buildVars, Pump!mainVars
  <2>2. /\ UNCHANGED <<pc, base, nPosted>> /\ strays' = strays + 1
        /\ count' = count + 1 \/ count' = count - 1
    BY <1>4 DEF Pump!Stray, Pump!mainVars
  <2> QED
    BY <1>0, <2>1, <2>2
<1>5. CASE Pump!Over \/ UNCHANGED Pump!vars
  <2>1. /\ UNCHANGED <<pc, base, nPosted, strays, count>>
        /\ Refused' = Refused /\ (Reached <=> Reached') /\ (Beyond <=> Beyond')
    BY <1>5 DEF Pump!Over, Pump!vars, Pump!buildVars, Pump!queueVars, Pump!mainVars, Refused, Reached, Beyond
  <2> QED
    BY <1>0, <2>1
<1>6. CASE Pump!StartupP2Pmsg \/ Pump!NeverRefused \/ Pump!Judge \/ Pump!Batch \/ Pump!Narrow
           \/ Pump!CloseP2PmsgHub
  <2>1. pc' \notin {"fill", "caught"}
    BY <1>6 DEF Pump!StartupP2Pmsg, Pump!NeverRefused, Pump!Judge, Pump!Batch, Pump!Narrow, Pump!CloseP2PmsgHub
  <2> QED
    BY <2>1
<1> QED
  BY <1>1, <1>2, <1>3, <1>4, <1>5, <1>6 DEF Pump!Next, Pump!Main

\* What a site says is read the same way throughout.
LEMMA SameReading ==
    ASSUME Pump!TypeOK, [Pump!Next]_(Pump!vars), NEW site \in DOMAIN sites,
           sites'[site] = sites[site], UNCHANGED <<base, nPosted>>
    PROVE  /\ Agrees(sites[site])' <=> Agrees(sites[site])
           /\ Refuses(sites[site])' <=> Refuses(sites[site])
           /\ Pump!Measured' = Pump!Measured
<1>1. word' = word
  BY Zenon DEF Pump!Next, Pump!Main, Pump!StartupP2Pmsg, Pump!CreateP2PmsgHub, Pump!CloseP2PmsgHub,
    Pump!PostAccepted, Pump!NeverRefused, Pump!PostRefused, Pump!Judge, Pump!Batch, Pump!Narrow,
    Pump!Stray, Pump!Over, Pump!vars, Pump!buildVars
<1>2. Pump!Measured' = Pump!Measured
  BY DEF Pump!Measured
<1>3. Pump!LastNumber(sites[site].says)' = Pump!LastNumber(sites[site].says)
  BY <1>1 DEF Pump!LastNumber, Pump!RunRead, Pump!Last
<1>4. Refuses(sites[site])' <=> Refuses(sites[site])
  BY <1>2 DEF Refuses
<1> QED
  BY <1>2, <1>3, <1>4 DEF Agrees

\* What the verdict of phase 1 is about, in numbers.
LEMMA Verdicts ==
    ASSUME PumpInv, pc = "caught", live' = count, Pump!Verdict = 0
    PROVE  /\ kMinCredible <= nPosted /\ nPosted < kPostCeiling
           /\ Agrees(sites.post)
           /\ strays <= 1 /\ (keeps => strays = 0) => sites.post.limit = Pump!Measured
           /\ strays = 0 => count = base + nPosted /\ ~keeps
<1>0. /\ base \in Nat /\ count \in Nat /\ nPosted \in Nat /\ strays \in Nat /\ nPosted < kPostCeiling
      /\ Pump!Measured = base + nPosted - 1 /\ kMinCredible \in Nat /\ kMinCredible > 0
  BY PumpConstants DEF PumpInv, Pump!TypeOK, Called, Pump!Measured
<1>1. sites.post.limit \in Int /\ (sites.post.limit = Pump!Unlimited \/ sites.post.limit \in Nat)
  BY SiteRecord DEF PumpInv, Called, Pump!TypeOK
<1>2. kMinCredible <= nPosted /\ Agrees(sites.post) /\ live' = Pump!Measured + 1
  BY <1>0 DEF Pump!Verdict, Agrees
<1>3. strays <= 1 =>
        (count = base + nPosted + Refused /\ Reached /\ Beyond) \/ Near(base + nPosted + Refused)
  BY DEF PumpInv, Counted
<1>4. strays <= 1 /\ (keeps => strays = 0) => count = base + nPosted /\ ~keeps /\ Reached /\ Beyond
  <2>1. CASE ~keeps
    BY <1>0, <1>2, <1>3, <2>1 DEF Refused, Near
  <2>2. CASE keeps
    BY <1>0, <1>2, <1>3, <2>2 DEF Refused, Near
  <2> QED
    BY <2>1, <2>2
<1>5. Reached /\ Beyond => sites.post.limit = Pump!Measured
  BY <1>0, <1>1, <1>2 DEF Reached, Beyond, Pump!Unlimited
<1> QED
  BY <1>0, <1>2, <1>4, <1>5

LEMMA PumpJudgedStep == PumpInv /\ [Pump!Next]_(Pump!vars) => Judged'
<1> SUFFICES ASSUME PumpInv, [Pump!Next]_(Pump!vars), nExit' = 0
             PROVE  Judged'
  BY DEF Judged
<1>0. /\ DOMAIN sites \subseteq Pump!SiteNames
      /\ \A s \in DOMAIN sites : sites[s] \in Pump!SiteKinds
      /\ base \in Nat /\ count \in Nat /\ nPosted \in Nat /\ strays \in Nat
      /\ Called /\ Judged /\ Pump!TypeOK
  BY PumpConstants DEF PumpInv, Pump!TypeOK
<1>1. CASE Pump!Judge
  <2>1. pc = "caught" /\ live' = count
    BY <1>1 DEF Pump!Judge
  <2>2. Pump!Verdict = 0 /\ pc' = "batch" /\ Pump!FirstCall("batch")
    BY <1>1 DEF Pump!Judge
  <2>3. UNCHANGED <<word, keeps, base, nPosted, count, strays>>
    BY <1>1 DEF Pump!Judge, Pump!queueVars
  <2>4. sites'.post = sites.post
    BY <1>0, <2>1, <2>2, Calling DEF Pump!SiteNames, Called
  <2>5. "post" \in DOMAIN sites
    BY <1>0, <2>1 DEF Called
  <2>6. (Agrees(sites.post)' <=> Agrees(sites.post)) /\ Pump!Measured' = Pump!Measured
    BY <1>0, <2>3, <2>4, <2>5, SameReading
  <2>7. /\ kMinCredible <= nPosted /\ nPosted < kPostCeiling
        /\ Agrees(sites.post)
        /\ strays <= 1 /\ (keeps => strays = 0) => sites.post.limit = Pump!Measured
        /\ strays = 0 => count = base + nPosted /\ ~keeps
    BY <2>1, <2>2, Verdicts
  <2> QED
    BY <2>2, <2>3, <2>4, <2>6, <2>7, Zenon DEF Judged
<1>2. CASE Pump!Batch
  <2>1. pc = "batch" /\ nExit = 0 /\ DOMAIN sites = {"post", "batch"}
    BY <1>0, <1>2 DEF Pump!Batch, Called
  <2>2. /\ UNCHANGED <<word, keeps, strays, base, nPosted>> /\ pc' = "narrow" /\ Pump!FirstCall("narrow")
        /\ Pump!CheckRefusal(sites.batch) = 0 /\ Pump!Call(sites.batch)
    BY <1>2 DEF Pump!Batch, Pump!mainVars
  <2>3. sites'.post = sites.post /\ sites'.batch = sites.batch
    BY <1>0, <2>1, <2>2, Calling DEF Pump!SiteNames
  <2>4. ~Pump!Accepts(sites.batch) /\ Agrees(sites.batch)
    BY <2>2 DEF Pump!CheckRefusal, Agrees
  <2>5. /\ (Agrees(sites.post)' <=> Agrees(sites.post)) /\ (Agrees(sites.batch)' <=> Agrees(sites.batch))
        /\ (Refuses(sites.batch)' <=> Refuses(sites.batch)) /\ Pump!Measured' = Pump!Measured
    BY <1>0, <2>1, <2>2, <2>3, SameReading
  <2>6. strays = 0 => count = base + nPosted /\ ~keeps
    BY <1>0, <2>1 DEF Judged
  <2>7. strays = 0 => Refuses(sites.batch)
    <3>1. sites.batch.limit \in Int
      BY <1>0, <2>1, SiteRecord
    <3> QED
      BY <1>0, <2>4, <2>6, <3>1 DEF Refuses, Pump!Accepts, Pump!Measured
  <2>8. count' = Pump!AfterRefusal
    BY <2>2, <2>4 DEF Pump!Call
  <2>9. strays' = 0 => count' = base' + nPosted' /\ ~keeps'
    BY <2>2, <2>6, <2>8 DEF Pump!AfterRefusal
  <2> QED
    BY <1>0, <2>1, <2>2, <2>3, <2>4, <2>5, <2>7, <2>9, Zenon DEF Judged
<1>3. CASE Pump!Narrow
  <2>1. pc = "narrow" /\ nExit = 0 /\ DOMAIN sites = {"post", "batch", "narrow"}
    BY <1>0, <1>3 DEF Pump!Narrow, Called
  <2>2. /\ UNCHANGED <<word, keeps, strays, base, nPosted, sites>> /\ pc' = "close"
        /\ Pump!CheckRefusal(sites.narrow) = 0
    BY <1>3 DEF Pump!Narrow, Pump!mainVars, Pump!buildVars
  <2>3. ~Pump!Accepts(sites.narrow) /\ Agrees(sites.narrow)
    BY <2>2 DEF Pump!CheckRefusal, Agrees
  <2>4. /\ (Agrees(sites.post)' <=> Agrees(sites.post)) /\ (Agrees(sites.batch)' <=> Agrees(sites.batch))
        /\ (Agrees(sites.narrow)' <=> Agrees(sites.narrow))
        /\ (Refuses(sites.batch)' <=> Refuses(sites.batch)) /\ (Refuses(sites.narrow)' <=> Refuses(sites.narrow))
        /\ Pump!Measured' = Pump!Measured
    BY <1>0, <2>1, <2>2, SameReading
  <2>5. strays = 0 => Refuses(sites.narrow)
    <3>1. sites.narrow.limit \in Int
      BY <1>0, <2>1, SiteRecord
    <3>2. strays = 0 => count = base + nPosted
      BY <1>0, <2>1 DEF Judged
    <3> QED
      BY <1>0, <2>3, <3>1, <3>2 DEF Refuses, Pump!Accepts, Pump!Measured
  <2> QED
    BY <1>0, <2>1, <2>2, <2>3, <2>4, <2>5, Zenon DEF Judged
<1>4. CASE Pump!CloseP2PmsgHub \/ Pump!Over \/ UNCHANGED Pump!vars \/ Pump!Stray
  <2>1. /\ UNCHANGED <<word, keeps, base, nPosted, sites>> /\ nExit = 0
        /\ strays' = 0 => strays = 0
        /\ strays' <= 1 => strays <= 1
        /\ pc' = pc \/ (pc' = "over" /\ pc = "close")
        /\ strays' = 0 /\ pc' \in {"batch", "narrow"} => count' = count
    BY <1>0, <1>4 DEF Pump!CloseP2PmsgHub, Pump!Over, Pump!vars, Pump!Stray, Pump!buildVars, Pump!queueVars, Pump!mainVars
  <2>2. "post" \in DOMAIN sites
    BY <1>0, <2>1 DEF Called, Pump!TypeOK
  <2>3. \A s \in DOMAIN sites :
            /\ Agrees(sites[s])' <=> Agrees(sites[s])
            /\ Refuses(sites[s])' <=> Refuses(sites[s])
    BY <1>0, <2>1, SameReading
  <2>4. Pump!Measured' = Pump!Measured
    BY <2>1 DEF Pump!Measured
  <2>5. pc \in {"narrow", "close", "over"} => "batch" \in DOMAIN sites
    BY <1>0, <2>1 DEF Judged, Called
  <2>6. pc \in {"close", "over"} => "narrow" \in DOMAIN sites
    BY <1>0, <2>1 DEF Judged
  <2>7. Judged
    BY <1>0
  <2>8. CASE pc' = pc
    BY <2>1, <2>2, <2>3, <2>4, <2>5, <2>6, <2>7, <2>8, Zenon DEF Judged
  <2>9. CASE pc' = "over" /\ pc = "close"
    BY <2>1, <2>2, <2>3, <2>4, <2>5, <2>6, <2>7, <2>9, Zenon DEF Judged
  <2> QED
    BY <2>1, <2>8, <2>9
<1>5. CASE Pump!StartupP2Pmsg \/ Pump!CreateP2PmsgHub \/ Pump!PostAccepted \/ Pump!NeverRefused
           \/ Pump!PostRefused
  BY <1>0, <1>5 DEF Pump!StartupP2Pmsg, Pump!CreateP2PmsgHub, Pump!PostAccepted, Pump!NeverRefused,
     Pump!PostRefused, Called
<1> QED
  BY <1>1, <1>2, <1>3, <1>4, <1>5 DEF Pump!Next, Pump!Main

\* A site that refuses where the first one does and says so passes.
LEMMA HonestSite ==
    ASSUME Pump!TypeOK, NEW s \in DOMAIN sites, kMinCredible <= nPosted, base <= MaxBase,
           count = base + nPosted, sites[s].limit = Pump!Measured,
           sites[s].says = <<Incidental, Pump!Measured>>
    PROVE  Agrees(sites[s]) /\ Pump!CheckRefusal(sites[s]) = 0
<1>1. /\ base \in Nat /\ nPosted \in Nat /\ nPosted <= kPostCeiling /\ word \in Words
      /\ kPostCeiling \in Nat /\ Largest \in Nat /\ MaxBase \in Nat /\ MaxBase + kPostCeiling <= Largest
      /\ kMinCredible \in Nat /\ kMinCredible > 1 /\ sites[s] \in Pump!SiteKinds
  BY PumpConstants DEF Pump!TypeOK
<1>2. /\ Pump!Measured \in Nat /\ kMinCredible <= Pump!Measured + 1 /\ Pump!Measured <= Largest
      /\ count = Pump!Measured + 1
  BY <1>1 DEF Pump!Measured
<1>3. Agrees(sites[s])
  BY <1>1, <1>2, Figure, SiteRecord DEF Agrees
<1>4. ~Pump!Accepts(sites[s])
  BY <1>2 DEF Pump!Accepts, Pump!Unlimited
<1> QED
  BY <1>3, <1>4 DEF Pump!CheckRefusal, Agrees

LEMMA PumpEdgesStep == PumpInv /\ [Pump!Next]_(Pump!vars) => Edges'
<1> SUFFICES ASSUME PumpInv, [Pump!Next]_(Pump!vars), pc' \in {"close", "over"}, strays' = 0,
                    DOMAIN sites' # {}
             PROVE  /\ nExit' = 3 <=> Pump!Inconclusive'
                    /\ Pump!Honest' /\ ~Pump!Inconclusive' => nExit' = 0
  BY DEF Edges
<1>0. /\ base \in Nat /\ count \in Nat /\ nPosted \in 0..kPostCeiling /\ strays \in Nat
      /\ kMinCredible \in Nat /\ kMinCredible > 0 /\ kPostCeiling \in Nat /\ kPostCeiling > 0
      /\ Called /\ Counted /\ Judged /\ Edges /\ Pump!TypeOK
      /\ Pump!Measured = base + nPosted - 1
  BY PumpConstants DEF PumpInv, Pump!TypeOK, Pump!Measured
<1>a. "post" \in DOMAIN sites => sites.post.limit \in Int /\ (sites.post.limit = -1 \/ sites.post.limit \in Nat)
  BY SiteRecord DEF Pump!TypeOK, PumpInv, Pump!Unlimited
<1>b. UNCHANGED <<base, sites, keeps>> =>
        (Pump!Inconclusive' <=> Pump!Inconclusive) /\ (Pump!Honest' <=> Pump!Honest)
  BY DEF Pump!Inconclusive, Pump!Honest
<1>c. strays = 0 => base <= MaxBase
  BY <1>0 DEF Called
<1>1. CASE Pump!NeverRefused
  <2>1. pc = "fill" /\ strays = 0 /\ nPosted = kPostCeiling /\ nExit' = 3 /\ UNCHANGED <<base, sites, keeps>>
    BY <1>1 DEF Pump!NeverRefused, Pump!queueVars, Pump!mainVars, Pump!buildVars
  <2>2. sites.post.limit = -1 \/ sites.post.limit >= base + nPosted - 1
    BY <1>0, <2>1 DEF Counted, Reached, Near, Pump!Unlimited
  <2>3. "post" \in DOMAIN sites
    BY <1>0, <2>1 DEF Called
  <2>4. Pump!Inconclusive
    BY <1>0, <1>a, <2>1, <2>2, <2>3 DEF Pump!Inconclusive, Pump!Unlimited
  <2> QED
    BY <1>b, <2>1, <2>4
<1>2. CASE Pump!Judge
  <2>1. /\ pc = "caught" /\ strays = 0 /\ UNCHANGED <<base, sites, keeps>> /\ live' = count
        /\ nExit' = Pump!Verdict /\ nExit' # 0
    BY <1>2 DEF Pump!Judge, Pump!queueVars
  <2>2. /\ count = base + nPosted + Refused /\ Reached /\ Beyond /\ nPosted < kPostCeiling
        /\ DOMAIN sites = {"post"}
    BY <1>0, <2>1 DEF Counted, Near, Called
  <2>3. /\ sites.post.limit \in Nat /\ sites.post.limit < base + nPosted
        /\ nPosted > 0 => sites.post.limit = Pump!Measured
    BY <1>0, <1>a, <2>2 DEF Reached, Beyond, Pump!Unlimited
  <2>4. Pump!Inconclusive <=> nPosted < kMinCredible
    BY <1>0, <2>2, <2>3 DEF Pump!Inconclusive, Pump!Unlimited
  <2>5. nExit' = 3 <=> nPosted < kMinCredible
    BY <2>1 DEF Pump!Verdict
  <2>6. Pump!Honest => nPosted < kMinCredible
    <3> SUFFICES ASSUME Pump!Honest, ~(nPosted < kMinCredible)
                 PROVE  FALSE
      OBVIOUS
    <3>1. ~keeps /\ count = base + nPosted /\ kMinCredible <= nPosted
      BY <1>0, <2>2 DEF Pump!Honest, Refused
    <3>2. sites.post.limit = Pump!Measured /\ sites.post.says = <<Incidental, Pump!Measured>>
      BY <1>0, <2>2, <2>3, <3>1 DEF Pump!Honest
    <3>3. Agrees(sites.post)
      BY <1>0, <1>c, <2>1, <2>2, <3>1, <3>2, HonestSite
    <3>4. live' = Pump!Measured + 1
      BY <1>0, <2>1, <3>1
    <3> QED
      BY <2>1, <3>1, <3>3, <3>4 DEF Pump!Verdict, Agrees
  <2> QED
    BY <1>b, <2>1, <2>4, <2>5, <2>6
<1>3. ASSUME NEW s \in {"batch", "narrow"}, pc = s, nExit' = Pump!CheckRefusal(sites[s]),
             UNCHANGED <<base, keeps, strays>>, nExit' # 0 => UNCHANGED sites, s = "narrow" => UNCHANGED sites,
             nExit' # 0 \/ s = "narrow"
      PROVE  /\ nExit' = 3 <=> Pump!Inconclusive'
             /\ Pump!Honest' /\ ~Pump!Inconclusive' => nExit' = 0
  <2>1. UNCHANGED sites /\ strays = 0 /\ nExit' \in {0, 1}
    BY <1>3 DEF Pump!CheckRefusal
  <2>2. nExit = 0 /\ s \in DOMAIN sites /\ "post" \in DOMAIN sites
    BY <1>0, <1>3 DEF Called
  <2>3. /\ kMinCredible <= nPosted /\ nPosted < kPostCeiling /\ sites.post.limit = Pump!Measured
        /\ count = base + nPosted
    BY <1>0, <1>3, <2>1, <2>2 DEF Judged
  <2>4. ~Pump!Inconclusive
    BY <1>0, <2>3 DEF Pump!Inconclusive, Pump!Unlimited
  <2>5. Pump!Honest => Pump!CheckRefusal(sites[s]) = 0
    <3> SUFFICES ASSUME Pump!Honest
                 PROVE  Pump!CheckRefusal(sites[s]) = 0
      OBVIOUS
    <3>1. sites[s].limit = Pump!Measured /\ sites[s].says = <<Incidental, Pump!Measured>>
      BY <2>2, <2>3 DEF Pump!Honest
    <3> QED
      BY <1>0, <1>c, <2>1, <2>2, <2>3, <3>1, HonestSite
  <2> QED
    BY <1>3, <1>b, <2>1, <2>4, <2>5
<1>4. CASE Pump!Batch
  <2>1. pc = "batch" /\ nExit' = Pump!CheckRefusal(sites["batch"]) /\ UNCHANGED <<base, keeps, strays>>
        /\ nExit' # 0 /\ UNCHANGED sites
    BY <1>4 DEF Pump!Batch, Pump!mainVars
  <2> QED
    BY <1>3, <2>1
<1>5. CASE Pump!Narrow
  <2>1. pc = "narrow" /\ nExit' = Pump!CheckRefusal(sites["narrow"]) /\ UNCHANGED <<base, keeps, strays, sites>>
    BY <1>5 DEF Pump!Narrow, Pump!mainVars, Pump!buildVars
  <2> QED
    BY <1>3, <2>1
<1>6. CASE Pump!CloseP2PmsgHub \/ Pump!Over \/ UNCHANGED Pump!vars
  <2>1. UNCHANGED <<base, sites, keeps, strays, nExit>> /\ pc \in {"close", "over"}
    BY <1>6 DEF Pump!CloseP2PmsgHub, Pump!Over, Pump!vars, Pump!mainVars, Pump!buildVars, Pump!queueVars
  <2> QED
    BY <1>0, <1>b, <2>1 DEF Edges
<1>7. CASE Pump!StartupP2Pmsg \/ Pump!CreateP2PmsgHub
  BY <1>0, <1>7 DEF Pump!StartupP2Pmsg, Pump!CreateP2PmsgHub, Called, Pump!buildVars
<1>8. CASE Pump!PostAccepted \/ Pump!PostRefused \/ Pump!Stray
  BY <1>8 DEF Pump!PostAccepted, Pump!PostRefused, Pump!Stray
<1> QED
  BY <1>1, <1>2, <1>4, <1>5, <1>6, <1>7, <1>8 DEF Pump!Next, Pump!Main

LEMMA PumpInvStep == PumpInv /\ [Pump!Next]_(Pump!vars) => PumpInv'
BY PumpTypeStep, PumpCalledStep, PumpCountedStep, PumpJudgedStep, PumpEdgesStep DEF PumpInv

LEMMA PumpHolds == PumpInv => Pump!PassIsTruth /\ Pump!NoneEnforcesMore /\ Pump!TrueAtTheEdges
<1> SUFFICES ASSUME PumpInv
             PROVE  Pump!PassIsTruth /\ Pump!NoneEnforcesMore /\ Pump!TrueAtTheEdges
  OBVIOUS
<1>1. /\ base \in Nat /\ nPosted \in Nat /\ strays \in Nat /\ word \in Words
      /\ Pump!Measured = base + nPosted - 1 /\ kMinCredible \in Nat /\ kMinCredible > 1
      /\ Called /\ Judged /\ Edges
      /\ \A s \in DOMAIN sites : sites[s] \in Pump!SiteKinds
  BY PumpConstants DEF PumpInv, Pump!TypeOK, Pump!Measured
<1>2. ASSUME Pump!Passed
      PROVE  /\ DOMAIN sites = Pump!SiteNames /\ \A s \in Pump!SiteNames : Agrees(sites[s])
             /\ Pump!Measured \in Nat /\ kMinCredible <= Pump!Measured + 1
             /\ strays <= 1 /\ (keeps => strays = 0) => sites.post.limit = Pump!Measured
             /\ strays = 0 => Refuses(sites.batch) /\ Refuses(sites.narrow)
  <2>1. pc = "over" /\ nExit = 0
    BY <1>2 DEF Pump!Passed, Pump!Pass
  <2>2. DOMAIN sites = Pump!SiteNames /\ \A s \in Pump!SiteNames : Agrees(sites[s])
    BY <1>1, <2>1 DEF Judged, Pump!SiteNames
  <2> QED
    BY <1>1, <2>1, <2>2 DEF Judged
<1>3. Pump!PassIsTruth
  <2> SUFFICES ASSUME Pump!Passed, strays <= 1, keeps => strays = 0, NEW s \in Pump!SiteNames
               PROVE  sites[s].says = <<Incidental, Pump!Measured>> /\ sites.post.limit = Pump!Measured
    BY DEF Pump!PassIsTruth, Pump!Names
  <2>1. sites[s].says \in Pump!Diagnostics
    BY <1>1, <1>2, SiteRecord
  <2> QED
    BY <1>1, <1>2, <2>1, Figure DEF Agrees
<1>4. Pump!NoneEnforcesMore
  <2> SUFFICES ASSUME Pump!Passed, strays = 0, NEW s \in Pump!SiteNames
               PROVE  Refuses(sites[s])
    BY DEF Pump!NoneEnforcesMore, Refuses
  <2>1. Refuses(sites.batch) /\ Refuses(sites.narrow)
    BY <1>2
  <2>2. Refuses(sites.post)
    <3>1. sites.post.limit = Pump!Measured /\ Pump!Measured \in Nat
      BY <1>2
    <3> QED
      BY <3>1 DEF Refuses, Pump!Unlimited
  <2> QED
    BY <2>1, <2>2 DEF Pump!SiteNames
<1>5. Pump!TrueAtTheEdges
  BY <1>1 DEF Edges, Pump!TrueAtTheEdges, Pump!Pass
<1> QED
  BY <1>3, <1>4, <1>5
(***************************************************************************)
(* p2p_linkcost                                                            *)
(*                                                                         *)
(* A message is on its way, taken or counted, once (Conserved).  While     *)
(* main has left no pump running the counter is the current Carol's own    *)
(* (Counts), so that what a row says is so (Rows), and the window is kept  *)
(* (Window).  Where nothing is lost and no wait ends early, what main is   *)
(* told follows what Carol did at once, or Carol's pump is just about to   *)
(* say it (Told of the two events), so that no wait ends without (Prompt). *)
(***************************************************************************)
Posting == pc \in {"carol", "alice", "window", "drain", "post", "finish", "done", "close"}

Taken(p) == IF carol[p] \in {"released", "signalled"} THEN 1 ELSE 0

\* Where the Carols of the other postures are.
Places ==
    /\ \A p \in Cost!Postures : p > i \/ (p = i /\ pc \in {"startup", "posture"}) =>
        carol[p] = "unborn" /\ wire[p] = 0 /\ handled[p] = 0
    /\ \A p \in Cost!Postures : p < i /\ p \notin left => carol[p] = "ended"
    /\ \A q \in left : q <= i /\ (q = i => pc = "return")

Conserved ==
    /\ \A p \in Cost!Postures : handled[p] + wire[p] + Taken(p) <= nCount
    /\ Posting => handled[i] + wire[i] + Taken(i) <= posted
    /\ pc = "post" => posted < nCount
    /\ pc \in {"finish", "done"} => posted = nCount

Counts ==
    Posting /\ left = {} =>
        g_nRecv = handled[i] /\ (g_hDone \/ carol[i] = "counted" => handled[i] = nCount)

Rows ==
    /\ pc \notin {"close", "return"} => Len(row) = i - 1
    /\ pc = "close" => Len(row) = i
    /\ \A p \in 1..Len(row) : row[p] => handled[p] = nCount \/ \E q \in left : q < p
    /\ nExit = 0 /\ pc # "return" => \A p \in 1..(i - 1) : row[p]
    /\ nExit = 0 /\ pc = "return" => Len(row) = kPostures /\ \A p \in Cost!Postures : row[p]
    /\ exit \in {Cost!Running, Cost!Crashed} \/ (pc = "return" /\ exit = nExit)

Window ==
    left = {} =>
        wire[i] <= g_nInFlight /\ g_nInFlight <= g_nWindow /\ (pc = "post" => g_nInFlight < g_nWindow)

Prompt ==
    ~build.slow /\ build.fault # "loses" =>
        /\ nExit # 3 /\ (pc # "return" => left = {})
        /\ Posting => g_nInFlight = wire[i] /\ handled[i] + wire[i] + Taken(i) = posted
        /\ pc = "drain" /\ g_nInFlight < g_nWindow => g_hDrain \/ carol[i] = "released"
        /\ pc = "done" /\ g_nRecv >= nCount => g_hDone \/ carol[i] = "counted"
        /\ pc = "close" => row[i]

CostInv == Cost!TypeOK /\ Places /\ Conserved /\ Counts /\ Rows /\ Window /\ Prompt

LEMMA CostFacts ==
    ASSUME Cost!TypeOK
    PROVE  /\ kPostures \in Nat /\ kPostures > 0 /\ nCount \in Nat /\ nCount > 0
           /\ g_nWindow \in Nat /\ g_nWindow > 0
           /\ i \in Cost!Postures /\ i \in Nat /\ posted \in Nat /\ posted <= nCount
           /\ \A p \in Cost!Postures : p \in Nat /\ wire[p] \in Nat /\ handled[p] \in Nat
           /\ \A p \in Cost!Postures : wire[p] <= nCount /\ handled[p] <= nCount
           /\ g_nRecv \in Nat /\ g_nInFlight \in Int
           /\ DOMAIN wire = Cost!Postures /\ DOMAIN handled = Cost!Postures /\ DOMAIN carol = Cost!Postures
           /\ \A p \in Cost!Postures : Taken(p) \in {0, 1}
BY CostAssumption DEF Cost!CostAssumption, Cost!TypeOK, Cost!Postures, Taken

LEMMA CostInit == Cost!Init => CostInv
<1> SUFFICES ASSUME Cost!Init
             PROVE  CostInv
  OBVIOUS
<1>1. kPostures \in Nat /\ kPostures > 0 /\ nCount \in Nat /\ nCount > 0 /\ g_nWindow \in Nat
      /\ 1 \in Cost!Postures
  BY CostAssumption DEF Cost!CostAssumption, Cost!Postures
<1>2. build \in [fault : Cost!Faults, slow : BOOLEAN] /\ Cost!eventVars \in BOOLEAN \X BOOLEAN \X BOOLEAN
  BY Zenon DEF Cost!Init, Cost!eventVars
<1>3. row \in Seq(BOOLEAN) /\ Len(row) = 0
  BY DEF Cost!Init
<1>4. Cost!TypeOK
  BY <1>1, <1>2, <1>3 DEF Cost!Init, Cost!TypeOK, Cost!Running
<1>5. Places /\ Conserved /\ Counts
  BY <1>1 DEF Cost!Init, Places, Conserved, Counts, Posting, Taken, Cost!Postures
<1>6. Rows /\ Window /\ Prompt
  BY <1>1, <1>3 DEF Cost!Init, Rows, Window, Prompt, Posting, Cost!Postures
<1> QED
  BY <1>4, <1>5, <1>6 DEF CostInv

\* What main and the others leave alone.
LEMMA CostFrame ==
    ASSUME Cost!TypeOK, [Cost!Next]_(Cost!vars)
    PROVE  build' = build
BY Zenon DEF Cost!Next, Cost!Main, Cost!LoginAck, Cost!Crash, Cost!Over, Cost!Carol, Cost!Lose, Cost!vars

LEMMA CostTypeStep == CostInv /\ [Cost!Next]_(Cost!vars) => Cost!TypeOK'
<1> SUFFICES ASSUME CostInv, [Cost!Next]_(Cost!vars)
             PROVE  Cost!TypeOK'
  OBVIOUS
<1>0. /\ kPostures \in Nat /\ kPostures > 0 /\ nCount \in Nat /\ nCount > 0
      /\ i \in Cost!Postures /\ i \in Nat /\ posted \in Nat /\ posted <= nCount
      /\ \A p \in Cost!Postures : wire[p] \in Nat /\ handled[p] \in Nat
      /\ \A p \in Cost!Postures : wire[p] <= nCount /\ handled[p] <= nCount
      /\ g_nRecv \in Nat /\ g_nInFlight \in Int
      /\ \A p \in Cost!Postures : Taken(p) \in {0, 1}
  BY CostFacts DEF CostInv
<1>1. /\ wire \in [Cost!Postures -> 0..nCount] /\ handled \in [Cost!Postures -> 0..nCount]
      /\ carol \in [Cost!Postures -> {"unborn", "idle", "released", "signalled", "counted", "ended"}]
      /\ row \in Seq(BOOLEAN) /\ Len(row) <= kPostures /\ left \subseteq Cost!Postures
      /\ nExit \in {0, 2, 3} /\ exit \in {-1, -2, 0, 2, 3} /\ acked \subseteq {"Carol", "Alice"}
      /\ pc \in {"startup", "posture", "carol", "alice", "window", "drain", "post", "finish",
              "done", "close", "return"}
  BY DEF CostInv, Cost!TypeOK, Cost!Running, Cost!Crashed
<1>2. g_hDrain \in BOOLEAN /\ g_hDone \in BOOLEAN /\ g_hReady \in BOOLEAN
      /\ build \in [fault : Cost!Faults, slow : BOOLEAN]
  BY DEF CostInv, Cost!TypeOK, Cost!eventVars
<1> DEFINE Numbers ==
        /\ i' \in Cost!Postures /\ posted' \in 0..nCount /\ g_nRecv' \in Nat /\ g_nInFlight' \in Int
        /\ left' \subseteq Cost!Postures /\ nExit' \in {0, 2, 3} /\ exit' \in {-1, -2, 0, 2, 3}
        /\ acked' \subseteq {"Carol", "Alice"}
        /\ pc' \in {"startup", "posture", "carol", "alice", "window", "drain", "post", "finish",
              "done", "close", "return"}
           Maps ==
        /\ wire' \in [Cost!Postures -> 0..nCount] /\ handled' \in [Cost!Postures -> 0..nCount]
        /\ carol' \in [Cost!Postures -> {"unborn", "idle", "released", "signalled", "counted", "ended"}]
           Row == row' \in Seq(BOOLEAN) /\ Len(row') <= kPostures
           Events == g_hDrain' \in BOOLEAN /\ g_hDone' \in BOOLEAN /\ g_hReady' \in BOOLEAN
<1>3. CASE Cost!Main
  <2>1. Numbers
    <3> USE <1>0, <1>1 DEF Cost!mainVars, Cost!countVars, Cost!pumpVars
    <3>1. CASE Cost!Startup \/ Cost!Posture \/ Cost!SetupFailed \/ Cost!LoggedIn
      <4>1. CASE Cost!Startup
        BY <4>1 DEF Cost!Startup
      <4>2. CASE Cost!Posture
        BY <4>2 DEF Cost!Posture
      <4>3. CASE Cost!SetupFailed
        BY <4>3 DEF Cost!SetupFailed
      <4>4. CASE Cost!LoggedIn
        BY <4>4 DEF Cost!LoggedIn
      <4> QED
        BY <3>1, <4>1, <4>2, <4>3, <4>4
    <3>2. CASE Cost!CheckWindow \/ Cost!Drained \/ Cost!Stalled \/ Cost!Finish \/ Cost!Done
      <4>1. CASE Cost!CheckWindow
        BY <4>1 DEF Cost!CheckWindow, Cost!EndRow
      <4>2. CASE Cost!Drained
        BY <4>2 DEF Cost!Drained, Cost!EndRow
      <4>3. CASE Cost!Stalled
        BY <4>3 DEF Cost!Stalled, Cost!EndRow
      <4>4. CASE Cost!Finish
        <5>1. UNCHANGED <<i, posted, left, nExit, Cost!countVars, acked, exit>> /\ (pc' = "close" \/ pc' = "done")
          BY <4>4, Zenon DEF Cost!Finish, Cost!EndRow
        <5> QED
          BY <5>1
      <4>5. CASE Cost!Done
        <5>1. UNCHANGED <<i, posted, left, nExit, Cost!countVars, acked, exit>> /\ pc' = "close"
          BY <4>5, Zenon DEF Cost!Done, Cost!EndRow
        <5> QED
          BY <5>1
      <4> QED
        BY <3>2, <4>1, <4>2, <4>3, <4>4, <4>5
    <3>3. CASE Cost!Post
      <4>1. posted < nCount
        BY <3>3 DEF Cost!Post, Cost!At, CostInv, Conserved
      <4> QED
        BY <3>3, <4>1 DEF Cost!Post
    <3>4. CASE Cost!Closed \/ Cost!Abandoned
      <4>1. i' \in Cost!Postures /\ pc' \in {"posture", "return"}
        BY <3>4 DEF Cost!Closed, Cost!Abandoned, Cost!NextPosture, Cost!Postures
      <4>2. nExit' \in {0, 2, 3}
        BY <3>4 DEF Cost!Closed, Cost!Abandoned, Cost!Verdict
      <4>3. /\ left' \subseteq Cost!Postures /\ acked' = acked /\ exit' = exit
            /\ posted' = posted /\ g_nRecv' = g_nRecv /\ g_nInFlight' = g_nInFlight
        BY <3>4 DEF Cost!Closed, Cost!Abandoned
      <4> QED
        BY <4>1, <4>2, <4>3
    <3>5. CASE Cost!Return
      BY <3>5 DEF Cost!Return
    <3> QED
      BY <1>3, <3>1, <3>2, <3>3, <3>4, <3>5 DEF Cost!Main
  <2>2. Maps
    <3> USE <1>0, <1>1 DEF Cost!mainVars, Cost!countVars, Cost!pumpVars
    <3>1. CASE Cost!Post
      <4>1. posted < nCount /\ wire[i] <= posted
        BY <3>1 DEF Cost!Post, Cost!At, CostInv, Conserved, Posting
      <4> QED
        BY <3>1, <4>1 DEF Cost!Post
    <3>2. CASE Cost!Posture \/ Cost!Closed
      BY <3>2 DEF Cost!Posture, Cost!Closed
    <3>3. CASE ~(Cost!Post \/ Cost!Posture \/ Cost!Closed)
      <4>1. UNCHANGED <<wire, handled, carol>>
        BY <1>3, <3>3, Zenon DEF Cost!Main, Cost!Startup, Cost!SetupFailed, Cost!LoggedIn,
          Cost!CheckWindow, Cost!Drained, Cost!Stalled, Cost!Finish, Cost!Done, Cost!Abandoned, Cost!Return,
          Cost!countVars, Cost!pumpVars
      <4> QED
        BY <4>1
    <3> QED
      BY <3>1, <3>2, <3>3
  <2>3. Row
    <3>1. CASE UNCHANGED row
      BY <1>1, <3>1
    <3>2. ASSUME NEW b \in BOOLEAN, row' = Append(row, b), pc \in {"drain", "finish", "done"}
          PROVE  Row
      <4>1. Len(row) < kPostures
        BY <1>0, <3>2 DEF CostInv, Rows, Cost!Postures
      <4> QED
        BY <1>0, <1>1, <3>2, <4>1
    <3>3. \/ UNCHANGED row
          \/ pc \in {"drain", "finish", "done"} /\ \E b \in BOOLEAN : row' = Append(row, b)
      BY <1>3 DEF Cost!Main, Cost!Startup, Cost!SetupFailed, Cost!LoggedIn, Cost!Posture, Cost!Post,
          Cost!Closed, Cost!CheckWindow, Cost!Drained, Cost!Stalled, Cost!Finish, Cost!Done, Cost!Abandoned,
          Cost!Return, Cost!mainVars, Cost!EndRow, Cost!At
    <3> QED
      BY <3>1, <3>2, <3>3
  <2>4. Events
    BY <1>2, <1>3, Zenon DEF Cost!Main, Cost!Startup, Cost!SetupFailed, Cost!LoggedIn, Cost!Posture, Cost!Post,
          Cost!Closed, Cost!CheckWindow, Cost!Drained, Cost!Stalled, Cost!Finish, Cost!Done, Cost!Abandoned,
          Cost!Return, Cost!eventVars
  <2> QED
    BY <1>2, <2>1, <2>2, <2>3, <2>4, CostFrame DEF CostInv, Cost!TypeOK, Cost!eventVars, Cost!Running, Cost!Crashed
<1>4. ASSUME NEW p \in Cost!Postures, Cost!Carol(p) \/ Cost!Lose(p)
      PROVE  Cost!TypeOK'
  <2>1. UNCHANGED <<pc, i, posted, left, row, nExit, acked, exit>>
    BY <1>4 DEF Cost!Carol, Cost!Lose, Cost!mainVars
  <2>2. g_nRecv' \in Nat /\ g_nInFlight' \in Int
    BY <1>0, <1>4 DEF Cost!Carol, Cost!Lose, Cost!Receive, Cost!SignalDrain, Cost!Count, Cost!SignalDone,
       Cost!EndLate, Cost!countVars
  <2>3. Maps
    <3>1. CASE Cost!Count(p)
      <4>1. handled[p] < nCount
        BY <1>0, <3>1 DEF Cost!Count, CostInv, Conserved, Taken
      <4> QED
        BY <1>0, <1>1, <3>1, <4>1 DEF Cost!Count
    <3>2. CASE Cost!Receive(p) \/ Cost!SignalDrain(p) \/ Cost!SignalDone(p) \/ Cost!EndLate(p) \/ Cost!Lose(p)
      <4>1. UNCHANGED handled
        BY <3>2, Zenon DEF Cost!Receive, Cost!SignalDrain, Cost!SignalDone, Cost!EndLate, Cost!Lose,
           Cost!countVars
      <4>2. wire' \in [Cost!Postures -> 0..nCount]
        BY <1>0, <1>1, <3>2 DEF Cost!Receive, Cost!SignalDrain, Cost!SignalDone, Cost!EndLate, Cost!Lose
      <4>3. carol' \in [Cost!Postures -> {"unborn", "idle", "released", "signalled", "counted", "ended"}]
        BY <1>1, <3>2 DEF Cost!Receive, Cost!SignalDrain, Cost!SignalDone, Cost!EndLate, Cost!Lose
      <4> QED
        BY <1>1, <4>1, <4>2, <4>3
    <3> QED
      BY <1>4, <3>1, <3>2 DEF Cost!Carol
  <2>4. Events
    BY <1>2, <1>4, Zenon DEF Cost!Carol, Cost!Lose, Cost!Receive, Cost!SignalDrain, Cost!Count, Cost!SignalDone,
       Cost!EndLate, Cost!eventVars
  <2> QED
    BY <1>1, <1>2, <2>1, <2>2, <2>3, <2>4, CostFrame DEF CostInv, Cost!TypeOK, Cost!eventVars, Cost!Running, Cost!Crashed
<1>5. CASE Cost!LoginAck
  <2>1. /\ UNCHANGED <<build, pc, i, posted, left, row, nExit, g_nRecv, g_nInFlight, handled, g_hDrain, g_hDone,
                       wire, carol, exit>>
        /\ acked' \subseteq {"Carol", "Alice"} /\ g_hReady' = TRUE
    BY <1>5 DEF Cost!LoginAck, Cost!mainVars, Cost!countVars, Cost!pumpVars
  <2> QED
    BY <1>2, <2>1 DEF CostInv, Cost!TypeOK, Cost!eventVars
<1>6. CASE Cost!Crash \/ Cost!Over \/ UNCHANGED Cost!vars
  <2>1. /\ UNCHANGED <<build, pc, i, posted, left, row, nExit, g_nRecv, g_nInFlight, handled, g_hDrain, g_hDone,
                       g_hReady, wire, carol, acked>>
        /\ exit' \in {exit, Cost!Crashed}
    BY <1>6 DEF Cost!Crash, Cost!Over, Cost!vars, Cost!mainVars, Cost!countVars, Cost!eventVars, Cost!pumpVars
  <2> QED
    BY <2>1 DEF CostInv, Cost!TypeOK, Cost!eventVars
<1> QED
  BY <1>3, <1>4, <1>5, <1>6 DEF Cost!Next

LEMMA CostPlacesStep == CostInv /\ [Cost!Next]_(Cost!vars) => Places'
<1> SUFFICES ASSUME CostInv, [Cost!Next]_(Cost!vars)
             PROVE  Places'
  OBVIOUS
<1>0. /\ i \in Cost!Postures /\ i \in Nat /\ left \subseteq Cost!Postures
      /\ \A p \in Cost!Postures : p \in Nat /\ wire[p] \in Nat
      /\ DOMAIN wire = Cost!Postures /\ DOMAIN handled = Cost!Postures /\ DOMAIN carol = Cost!Postures
      /\ wire \in [Cost!Postures -> Nat]
      /\ Places
  BY CostFacts DEF CostInv, Cost!TypeOK
<1>1. CASE Cost!Posture
  BY <1>0, <1>1 DEF Cost!Posture, Cost!At, Places
<1>2. CASE Cost!Post
  BY <1>0, <1>2 DEF Cost!Post, Cost!At, Places, Cost!countVars
<1>3. CASE Cost!Closed \/ Cost!Abandoned
  <2>1. /\ pc = "close" /\ handled' = handled
        /\ \A p \in Cost!Postures : p # i => wire'[p] = wire[p] /\ carol'[p] = carol[p]
        /\ (carol'[i] = "ended" /\ left' = left) \/ left' = left \cup {i}
    BY <1>0, <1>3 DEF Cost!Closed, Cost!Abandoned, Cost!At, Cost!countVars, Cost!pumpVars
  <2>2. (i' = i + 1 /\ pc' = "posture") \/ (i' = i /\ pc' = "return")
    BY <1>3 DEF Cost!Closed, Cost!Abandoned, Cost!NextPosture
  <2>3. ASSUME NEW p \in Cost!Postures, p > i' \/ (p = i' /\ pc' \in {"startup", "posture"})
        PROVE  carol'[p] = "unborn" /\ wire'[p] = 0 /\ handled'[p] = 0
    <3>1. p > i
      BY <1>0, <2>2, <2>3
    <3> QED
      BY <1>0, <2>1, <3>1 DEF Places
  <2>4. ASSUME NEW p \in Cost!Postures, p < i', p \notin left'
        PROVE  carol'[p] = "ended"
    <3>1. p < i \/ p = i
      BY <1>0, <2>2, <2>4
    <3>2. p = i => carol'[p] = "ended"
      BY <2>1, <2>4
    <3>3. p < i => p # i /\ p \notin left
      BY <1>0, <2>1, <2>4
    <3> QED
      BY <1>0, <2>1, <3>1, <3>2, <3>3 DEF Places
  <2>5. ASSUME NEW q \in left'
        PROVE  q <= i' /\ (q = i' => pc' = "return")
    <3>1. q \in left \/ q = i
      BY <2>1, <2>5
    <3>2. q \in Nat /\ q <= i
      <4>1. q \in left => q \in Nat /\ q <= i
        BY <1>0 DEF Places
      <4> QED
        BY <1>0, <3>1, <4>1
    <3> QED
      BY <1>0, <2>2, <3>2
  <2> QED
    BY <2>3, <2>4, <2>5 DEF Places
<1>4. CASE \/ Cost!Startup \/ Cost!LoggedIn \/ Cost!CheckWindow \/ Cost!Drained
           \/ Cost!Stalled \/ Cost!Finish \/ Cost!Done \/ Cost!Return \/ Cost!LoginAck \/ Cost!Crash
           \/ Cost!Over \/ UNCHANGED Cost!vars
  <2>1. UNCHANGED <<wire, handled, carol, i, left>>
    BY <1>4, Zenon DEF Cost!Startup, Cost!LoggedIn, Cost!CheckWindow, Cost!Drained,
      Cost!Stalled, Cost!Finish, Cost!Done, Cost!Return, Cost!LoginAck, Cost!Crash, Cost!Over, Cost!vars,
      Cost!mainVars, Cost!countVars, Cost!pumpVars
  <2>2. pc' # "return" => pc # "return"
    BY <1>4 DEF Cost!Startup, Cost!LoggedIn, Cost!CheckWindow, Cost!Drained,
      Cost!Stalled, Cost!Finish, Cost!Done, Cost!Return, Cost!LoginAck, Cost!Crash, Cost!Over, Cost!vars,
      Cost!mainVars, Cost!At
  <2>3. pc \notin {"startup", "posture"} => pc' \notin {"startup", "posture"}
    BY <1>4 DEF Cost!Startup, Cost!LoggedIn, Cost!CheckWindow, Cost!Drained,
      Cost!Stalled, Cost!Finish, Cost!Done, Cost!Return, Cost!LoginAck, Cost!Crash, Cost!Over, Cost!vars,
      Cost!mainVars, Cost!EndRow, Cost!At
  <2> QED
    BY <1>0, <2>1, <2>2, <2>3 DEF Places
<1>5. ASSUME NEW p \in Cost!Postures, Cost!Carol(p) \/ Cost!Lose(p)
      PROVE  Places'
  <2>1. /\ UNCHANGED <<pc, i, left>>
        /\ \A q \in Cost!Postures : q # p =>
            wire'[q] = wire[q] /\ carol'[q] = carol[q] /\ handled'[q] = handled[q]
    BY <1>0, <1>5 DEF Cost!Carol, Cost!Lose, Cost!Receive, Cost!SignalDrain, Cost!Count, Cost!SignalDone,
       Cost!EndLate, Cost!mainVars, Cost!countVars
  <2>2. ~(p > i \/ (p = i /\ pc \in {"startup", "posture"}))
    BY <1>0, <1>5 DEF Cost!Carol, Cost!Lose, Cost!Receive, Cost!SignalDrain, Cost!Count, Cost!SignalDone,
       Cost!EndLate, Places
  <2>3. carol[p] = "ended" => carol'[p] = "ended"
    BY <1>0, <1>5 DEF Cost!Carol, Cost!Lose, Cost!Receive, Cost!SignalDrain, Cost!Count, Cost!SignalDone,
       Cost!EndLate
  <2> QED
    BY <1>0, <2>1, <2>2, <2>3 DEF Places
<1>6. CASE Cost!SetupFailed
  <2>1. /\ UNCHANGED <<wire, handled, carol, i>> /\ pc' = "return"
        /\ left' = left \/ left' = left \cup {i}
    BY <1>6 DEF Cost!SetupFailed, Cost!countVars, Cost!pumpVars
  <2>2. ASSUME NEW q \in left'
        PROVE  q <= i'
    <3>1. q \in left \/ q = i
      BY <2>1, <2>2
    <3>2. q \in left => q <= i
      BY <1>0 DEF Places
    <3> QED
      BY <1>0, <2>1, <3>1, <3>2
  <2> QED
    BY <1>0, <2>1, <2>2 DEF Places
<1> QED
  BY <1>1, <1>2, <1>3, <1>4, <1>5, <1>6 DEF Cost!Next, Cost!Main

LEMMA CostConservedStep == CostInv /\ [Cost!Next]_(Cost!vars) => Conserved'
<1> SUFFICES ASSUME CostInv, [Cost!Next]_(Cost!vars)
             PROVE  Conserved'
  OBVIOUS
<1>0. /\ i \in Cost!Postures /\ posted \in Nat /\ posted <= nCount /\ nCount \in Nat
      /\ \A p \in Cost!Postures : wire[p] \in Nat /\ handled[p] \in Nat
      /\ wire \in [Cost!Postures -> 0..nCount] /\ handled \in [Cost!Postures -> 0..nCount]
      /\ carol \in [Cost!Postures -> {"unborn", "idle", "released", "signalled", "counted", "ended"}]
      /\ Conserved /\ Places
  BY CostFacts DEF CostInv, Cost!TypeOK
<1> DEFINE Total(p) == handled[p] + wire[p] + Taken(p)
<1>t. \A p \in Cost!Postures : Taken(p) \in {0, 1} /\ Total(p) \in Nat
  BY <1>0 DEF Taken
<1>d. \A p \in Cost!Postures : Total(p)' \in Nat
  <2>1. wire' \in [Cost!Postures -> 0..nCount] /\ handled' \in [Cost!Postures -> 0..nCount]
    BY CostTypeStep DEF Cost!TypeOK
  <2> QED
    BY <1>0, <2>1 DEF Taken
<1>c. /\ \A p \in Cost!Postures : Total(p) <= nCount
      /\ Posting => Total(i) <= posted
  BY <1>0 DEF Conserved
<1>1. CASE Cost!Posture
  <2>1. /\ \A p \in Cost!Postures : Total(p)' = Total(p)
        /\ Total(i) = 0 /\ i' = i /\ posted' = 0 /\ pc' = "carol"
    BY <1>0, <1>1 DEF Cost!Posture, Cost!At, Places, Taken
  <2> QED
    BY <1>0, <1>c, <2>1 DEF Conserved
<1>2. CASE Cost!Post
  <2>1. /\ \A p \in Cost!Postures : p # i => Total(p)' = Total(p)
        /\ Total(i)' = Total(i) + 1 /\ i' = i /\ posted' = posted + 1 /\ pc' = "window" /\ posted < nCount
        /\ Posting
    BY <1>0, <1>2 DEF Cost!Post, Cost!At, Conserved, Taken, Posting
  <2> QED
    BY <1>0, <1>t, <1>c, <2>1 DEF Conserved
<1>3. CASE Cost!Closed \/ Cost!Abandoned
  <2>1. pc' \in {"posture", "return"}
    BY <1>3 DEF Cost!Closed, Cost!Abandoned, Cost!NextPosture
  <2>2. \A p \in Cost!Postures : Total(p)' <= Total(p)
    BY <1>0, <1>3 DEF Cost!Closed, Cost!Abandoned, Taken, Cost!pumpVars, Cost!countVars
  <2> QED
    BY <1>0, <1>t, <1>c, <1>d, <2>1, <2>2 DEF Conserved, Posting
<1>4. CASE \/ Cost!Startup \/ Cost!SetupFailed \/ Cost!LoggedIn \/ Cost!Drained
           \/ Cost!Stalled \/ Cost!Finish \/ Cost!Done \/ Cost!Return \/ Cost!LoginAck \/ Cost!Crash
           \/ Cost!Over \/ UNCHANGED Cost!vars
  <2>1. UNCHANGED <<wire, handled, carol, i, posted>>
    BY <1>4, Zenon DEF Cost!Startup, Cost!SetupFailed, Cost!LoggedIn, Cost!Drained,
      Cost!Stalled, Cost!Finish, Cost!Done, Cost!Return, Cost!LoginAck, Cost!Crash, Cost!Over, Cost!vars,
      Cost!mainVars, Cost!countVars, Cost!pumpVars
  <2>2. /\ Posting' => Posting
        /\ pc' = "post" => pc = "post"
        /\ pc' \in {"finish", "done"} => pc \in {"finish", "done"}
    BY <1>4 DEF Cost!Startup, Cost!SetupFailed, Cost!LoggedIn, Cost!Drained,
      Cost!Stalled, Cost!Finish, Cost!Done, Cost!Return, Cost!LoginAck, Cost!Crash, Cost!Over, Cost!vars,
      Cost!mainVars, Cost!EndRow, Cost!At, Posting
  <2>3. \A p \in Cost!Postures : Total(p)' = Total(p)
    BY <2>1 DEF Taken
  <2> QED
    BY <1>0, <1>c, <2>1, <2>2, <2>3 DEF Conserved
<1>5. CASE Cost!CheckWindow
  <2>1. UNCHANGED <<wire, handled, carol, i, posted>> /\ Posting
    BY <1>5 DEF Cost!CheckWindow, Cost!countVars, Cost!pumpVars, Cost!At, Posting
  <2>2. \A p \in Cost!Postures : Total(p)' = Total(p)
    BY <2>1 DEF Taken
  <2> QED
    BY <1>0, <1>c, <1>5, <2>1, <2>2 DEF Conserved, Cost!CheckWindow
<1>6. ASSUME NEW p \in Cost!Postures, Cost!Carol(p) \/ Cost!Lose(p)
      PROVE  Conserved'
  <2>1. UNCHANGED <<pc, i, posted>>
    BY <1>6 DEF Cost!Carol, Cost!Lose, Cost!mainVars
  <2>2. \A q \in Cost!Postures : q # p => Total(q)' = Total(q)
    BY <1>0, <1>6 DEF Cost!Carol, Cost!Lose, Cost!Receive, Cost!SignalDrain, Cost!Count, Cost!SignalDone,
       Cost!EndLate, Cost!countVars, Taken
  <2>3. Total(p)' <= Total(p)
    <3>1. CASE Cost!Receive(p)
      BY <1>0, <3>1 DEF Cost!Receive, Taken
    <3>2. CASE Cost!SignalDrain(p)
      BY <1>0, <3>2 DEF Cost!SignalDrain, Cost!countVars, Taken
    <3>3. CASE Cost!Count(p)
      BY <1>0, <3>3 DEF Cost!Count, Taken
    <3>4. CASE Cost!SignalDone(p)
      BY <1>0, <3>4 DEF Cost!SignalDone, Cost!countVars, Taken
    <3>5. CASE Cost!EndLate(p)
      BY <1>0, <3>5 DEF Cost!EndLate, Cost!countVars, Taken
    <3>6. CASE Cost!Lose(p)
      BY <1>0, <3>6 DEF Cost!Lose, Cost!countVars, Taken
    <3> QED
      BY <1>6, <3>1, <3>2, <3>3, <3>4, <3>5, <3>6 DEF Cost!Carol
  <2>4. \A q \in Cost!Postures : Total(q)' <= Total(q)
    BY <1>t, <1>d, <2>2, <2>3
  <2>5. Posting' <=> Posting
    BY <2>1 DEF Posting
  <2>6. ASSUME NEW q \in Cost!Postures
        PROVE  Total(q)' <= nCount /\ (Posting /\ q = i => Total(q)' <= posted)
    <3>1. /\ Total(q) \in Nat /\ Total(q)' \in Nat /\ Total(q)' <= Total(q) /\ Total(q) <= nCount
          /\ Posting /\ q = i => Total(q) <= posted
      BY <1>t, <1>c, <1>d, <2>4
    <3> HIDE DEF Total
    <3> QED
      BY <1>0, <3>1
  <2> QED
    BY <1>0, <2>1, <2>5, <2>6 DEF Conserved
<1> QED
  BY <1>1, <1>2, <1>3, <1>4, <1>5, <1>6 DEF Cost!Next, Cost!Main

\* While main has left no pump running, only the current posture's does anything.
LEMMA CostCurrent ==
    ASSUME CostInv, left = {}, NEW p \in Cost!Postures, Cost!Carol(p)
    PROVE  p = i /\ pc \notin {"startup", "posture"} /\ ~Cost!EndLate(p)
<1>1. i \in Nat /\ p \in Nat /\ Places
  BY CostFacts DEF CostInv
<1>2. carol[p] \notin {"unborn", "ended"} /\ ~Cost!EndLate(p)
  BY DEF Cost!Carol, Cost!Receive, Cost!SignalDrain, Cost!Count, Cost!SignalDone, Cost!EndLate
<1> QED
  BY <1>1, <1>2 DEF Places

\* Main never waits again for a pump it has left.
LEMMA CostLeft ==
    ASSUME CostInv, [Cost!Next]_(Cost!vars)
    PROVE  left \subseteq left'
BY Zenon DEF Cost!Next, Cost!Main, Cost!Startup, Cost!SetupFailed, Cost!LoggedIn, Cost!Posture, Cost!Post,
    Cost!Closed, Cost!CheckWindow, Cost!Drained, Cost!Stalled, Cost!Finish, Cost!Done, Cost!Abandoned,
    Cost!Return, Cost!LoginAck, Cost!Crash, Cost!Over, Cost!Carol, Cost!Lose, Cost!vars, Cost!mainVars

LEMMA CostCountsStep == CostInv /\ [Cost!Next]_(Cost!vars) => Counts'
<1> SUFFICES ASSUME CostInv, [Cost!Next]_(Cost!vars), Posting', left' = {}
             PROVE  g_nRecv' = handled'[i'] /\ (g_hDone' \/ carol'[i'] = "counted" => handled'[i'] = nCount)
  BY DEF Counts
<1>0. /\ i \in Cost!Postures /\ nCount \in Nat /\ g_nRecv \in Nat
      /\ \A p \in Cost!Postures : wire[p] \in Nat /\ handled[p] \in Nat
      /\ DOMAIN wire = Cost!Postures /\ DOMAIN handled = Cost!Postures /\ DOMAIN carol = Cost!Postures
      /\ handled \in [Cost!Postures -> 0..nCount]
      /\ carol \in [Cost!Postures -> {"unborn", "idle", "released", "signalled", "counted", "ended"}]
      /\ Places /\ Conserved /\ Counts /\ left = {}
  BY CostFacts, CostLeft DEF CostInv, Cost!TypeOK
<1>1. CASE Cost!Posture
  <2>1. g_nRecv' = 0 /\ handled'[i'] = 0 /\ carol'[i'] = "idle"
    BY <1>0, <1>1 DEF Cost!Posture, Cost!At, Places
  <2>2. g_hDone' = FALSE
    BY <1>1 DEF Cost!Posture
  <2> QED
    BY <2>1, <2>2
<1>2. CASE \/ Cost!Startup \/ Cost!SetupFailed \/ Cost!LoggedIn \/ Cost!CheckWindow \/ Cost!Drained
           \/ Cost!Stalled \/ Cost!Post \/ Cost!Finish \/ Cost!Done \/ Cost!Closed \/ Cost!Abandoned
           \/ Cost!Return \/ Cost!LoginAck \/ Cost!Crash \/ Cost!Over \/ UNCHANGED Cost!vars
  <2>1. Posting /\ ~Cost!Closed /\ ~Cost!Abandoned
    BY <1>2 DEF Cost!Startup, Cost!SetupFailed, Cost!LoggedIn, Cost!CheckWindow, Cost!Drained,
      Cost!Stalled, Cost!Post, Cost!Finish, Cost!Done, Cost!Closed, Cost!Abandoned, Cost!NextPosture,
      Cost!Return, Cost!LoginAck, Cost!Crash, Cost!Over, Cost!vars, Cost!mainVars, Cost!At, Posting
  <2>2. UNCHANGED <<g_nRecv, handled, carol, i>>
    BY <1>2, <2>1, Zenon DEF Cost!Startup, Cost!SetupFailed, Cost!LoggedIn, Cost!CheckWindow, Cost!Drained,
      Cost!Stalled, Cost!Post, Cost!Finish, Cost!Done, Cost!Return, Cost!LoginAck, Cost!Crash, Cost!Over,
      Cost!vars, Cost!mainVars, Cost!countVars, Cost!pumpVars
  <2>3. g_hDone' => g_hDone
    BY <1>2, <2>1, Zenon DEF Cost!Startup, Cost!SetupFailed, Cost!LoggedIn, Cost!CheckWindow, Cost!Drained,
      Cost!Stalled, Cost!Post, Cost!Finish, Cost!Done, Cost!Return, Cost!LoginAck, Cost!Crash, Cost!Over,
      Cost!vars, Cost!eventVars
  <2> QED
    BY <1>0, <2>1, <2>2, <2>3, Zenon DEF Counts
<1>3. ASSUME NEW p \in Cost!Postures, Cost!Lose(p)
      PROVE  g_nRecv' = handled'[i'] /\ (g_hDone' \/ carol'[i'] = "counted" => handled'[i'] = nCount)
  <2>1. UNCHANGED <<pc, i, g_nRecv, handled, carol, g_hDone>>
    BY <1>3 DEF Cost!Lose, Cost!mainVars, Cost!countVars, Cost!eventVars
  <2> QED
    BY <1>0, <2>1 DEF Counts, Posting
<1>4. ASSUME NEW p \in Cost!Postures, Cost!Carol(p)
      PROVE  g_nRecv' = handled'[i'] /\ (g_hDone' \/ carol'[i'] = "counted" => handled'[i'] = nCount)
  <2>1. p = i /\ ~Cost!EndLate(p) /\ UNCHANGED <<pc, i>> /\ Posting
    BY <1>0, <1>4, CostCurrent DEF Cost!Carol, Cost!mainVars, Posting
  <2>2. g_nRecv = handled[i] /\ (g_hDone \/ carol[i] = "counted" => handled[i] = nCount)
    BY <1>0, <2>1 DEF Counts
  <2>3. CASE Cost!Receive(p) \/ Cost!SignalDrain(p)
    <3>1. UNCHANGED <<g_nRecv, handled, g_hDone>> /\ carol'[i] # "counted"
      BY <1>0, <2>1, <2>3 DEF Cost!Receive, Cost!SignalDrain, Cost!eventVars, Cost!countVars
    <3> QED
      BY <2>1, <2>2, <3>1, Zenon
  <2>4. CASE Cost!SignalDone(p)
    <3>1. UNCHANGED <<g_nRecv, handled>> /\ carol[i] = "counted"
      BY <2>1, <2>4 DEF Cost!SignalDone, Cost!countVars
    <3> QED
      BY <2>1, <2>2, <3>1, Zenon
  <2>5. CASE Cost!Count(p)
    <3>1. handled[i] + 1 <= nCount
      BY <1>0, <2>1, <2>5 DEF Cost!Count, Conserved, Taken
    <3>2. ~g_hDone
      BY <1>0, <2>2, <3>1
    <3>3. g_nRecv' = g_nRecv + 1 /\ handled'[i] = handled[i] + 1
      BY <1>0, <2>1, <2>5 DEF Cost!Count
    <3>4. carol'[i] = "counted" => handled'[i] = nCount
      BY <1>0, <2>1, <2>2, <2>5, <3>1, <3>3 DEF Cost!Count
    <3>5. ~g_hDone'
      BY <2>5, <3>2 DEF Cost!Count, Cost!eventVars
    <3> QED
      BY <2>1, <2>2, <3>3, <3>4, <3>5
  <2> QED
    BY <1>4, <2>1, <2>3, <2>4, <2>5 DEF Cost!Carol
<1> QED
  BY <1>1, <1>2, <1>3, <1>4 DEF Cost!Next, Cost!Main

LEMMA CostWindowStep == CostInv /\ [Cost!Next]_(Cost!vars) => Window'
<1> SUFFICES ASSUME CostInv, [Cost!Next]_(Cost!vars), left' = {}
             PROVE  /\ wire'[i'] <= g_nInFlight' /\ g_nInFlight' <= g_nWindow
                    /\ pc' = "post" => g_nInFlight' < g_nWindow
  BY DEF Window
<1>0. /\ i \in Cost!Postures /\ i \in Nat /\ g_nInFlight \in Int /\ g_nWindow \in Nat /\ g_nWindow > 0
      /\ \A p \in Cost!Postures : wire[p] \in Nat /\ p \in Nat
      /\ DOMAIN wire = Cost!Postures /\ left = {} /\ Places
      /\ wire[i] <= g_nInFlight /\ g_nInFlight <= g_nWindow
      /\ pc = "post" => g_nInFlight < g_nWindow
  BY CostFacts, CostLeft DEF CostInv, Window
<1>1. CASE Cost!Posture
  BY <1>0, <1>1 DEF Cost!Posture, Cost!At, Places
<1>2. CASE Cost!CheckWindow
  BY <1>0, <1>2 DEF Cost!CheckWindow, Cost!countVars, Cost!pumpVars
<1>3. CASE Cost!Post
  BY <1>0, <1>3 DEF Cost!Post, Cost!At
<1>4. CASE Cost!Closed
  <2>1. pc' # "post" /\ g_nInFlight' = g_nInFlight /\ wire'[i] = 0
        /\ \A p \in Cost!Postures : p # i => wire'[p] = wire[p]
    BY <1>0, <1>4 DEF Cost!Closed, Cost!NextPosture, Cost!countVars
  <2>2. i' = i \/ (i' = i + 1 /\ i' \in Cost!Postures)
    BY <1>0, <1>4, CostAssumption DEF Cost!Closed, Cost!NextPosture, Cost!Postures, Cost!CostAssumption
  <2>3. i' # i => wire[i'] = 0
    BY <1>0, <2>2 DEF Places
  <2> QED
    BY <1>0, <2>1, <2>2, <2>3
<1>5. CASE Cost!Abandoned
  BY <1>5 DEF Cost!Abandoned
<1>6. CASE \/ Cost!Startup \/ Cost!SetupFailed \/ Cost!LoggedIn \/ Cost!Drained \/ Cost!Stalled
           \/ Cost!Finish \/ Cost!Done \/ Cost!Return \/ Cost!LoginAck \/ Cost!Crash \/ Cost!Over
           \/ UNCHANGED Cost!vars
  <2>1. UNCHANGED <<g_nInFlight, wire, i>>
    BY <1>6, Zenon DEF Cost!Startup, Cost!SetupFailed, Cost!LoggedIn, Cost!Drained,
      Cost!Stalled, Cost!Finish, Cost!Done, Cost!Return, Cost!LoginAck, Cost!Crash, Cost!Over,
      Cost!vars, Cost!mainVars, Cost!countVars, Cost!pumpVars
  <2>2. pc' = "post" => pc = "post"
    BY <1>6 DEF Cost!Startup, Cost!SetupFailed, Cost!LoggedIn, Cost!Drained,
      Cost!Stalled, Cost!Finish, Cost!Done, Cost!Return, Cost!LoginAck, Cost!Crash, Cost!Over,
      Cost!vars, Cost!mainVars, Cost!EndRow
  <2> QED
    BY <1>0, <2>1, <2>2
<1>7. ASSUME NEW p \in Cost!Postures, Cost!Lose(p)
      PROVE  /\ wire'[i'] <= g_nInFlight' /\ g_nInFlight' <= g_nWindow
             /\ pc' = "post" => g_nInFlight' < g_nWindow
  <2>1. UNCHANGED <<pc, i, g_nInFlight>> /\ wire'[i] <= wire[i] /\ wire'[i] \in Int
    BY <1>0, <1>7 DEF Cost!Lose, Cost!mainVars, Cost!countVars
  <2> QED
    BY <1>0, <2>1
<1>8. ASSUME NEW p \in Cost!Postures, Cost!Carol(p)
      PROVE  /\ wire'[i'] <= g_nInFlight' /\ g_nInFlight' <= g_nWindow
             /\ pc' = "post" => g_nInFlight' < g_nWindow
  <2>1. p = i /\ ~Cost!EndLate(p) /\ UNCHANGED <<pc, i>>
    BY <1>0, <1>8, CostCurrent DEF Cost!Carol, Cost!mainVars
  <2>2. CASE Cost!Receive(p)
    BY <1>0, <2>1, <2>2 DEF Cost!Receive
  <2>3. CASE Cost!SignalDrain(p) \/ Cost!Count(p) \/ Cost!SignalDone(p)
    BY <1>0, <2>1, <2>3 DEF Cost!SignalDrain, Cost!Count, Cost!SignalDone, Cost!countVars
  <2> QED
    BY <1>8, <2>1, <2>2, <2>3 DEF Cost!Carol
<1> QED
  BY <1>1, <1>2, <1>3, <1>4, <1>5, <1>6, <1>7, <1>8 DEF Cost!Next, Cost!Main

LEMMA CostRowsStep == CostInv /\ [Cost!Next]_(Cost!vars) => Rows'
<1> SUFFICES ASSUME CostInv, [Cost!Next]_(Cost!vars)
             PROVE  Rows'
  OBVIOUS
<1>0. /\ kPostures \in Nat /\ i \in Cost!Postures /\ i \in Nat /\ i <= kPostures /\ nCount \in Nat
      /\ row \in Seq(BOOLEAN) /\ Len(row) \in Nat /\ Len(row) <= kPostures
      /\ \A p \in Cost!Postures : wire[p] \in Nat /\ handled[p] \in Nat
      /\ handled \in [Cost!Postures -> 0..nCount]
      /\ Cost!Postures = 1..kPostures
      /\ pc \in {"startup", "posture", "carol", "alice", "window", "drain", "post", "finish", "done",
                 "close", "return"}
      /\ Rows /\ Places /\ Conserved
  BY CostFacts DEF CostInv, Cost!TypeOK, Cost!Postures
<1>1. ASSUME NEW b \in BOOLEAN, row' = Append(row, b), pc' = "close", pc \in {"drain", "finish", "done"},
             UNCHANGED <<i, left, nExit, handled, exit>>, exit = Cost!Running,
             b => handled[i] = nCount \/ left # {}
      PROVE  Rows'
  <2>1. /\ Len(row) = i - 1 /\ Len(row') = i /\ row'[i] = b
        /\ \A p \in 1..(i - 1) : row'[p] = row[p]
    BY <1>0, <1>1 DEF Rows
  <2>2. left # {} => \E q \in left : q < i
    <3>1. \A q \in left : q <= i /\ q # i /\ q \in Nat
      BY <1>0, <1>1, CostFacts DEF Places, CostInv, Cost!TypeOK
    <3> QED
      BY <1>0, <3>1
  <2>3. ASSUME NEW p \in 1..i, row'[p]
        PROVE  handled'[p] = nCount \/ \E q \in left' : q < p
    <3>1. CASE p = i
      BY <1>1, <2>1, <2>2, <2>3, <3>1
    <3>2. CASE p # i
      <4>1. p \in 1..Len(row) /\ row[p]
        BY <1>0, <2>1, <2>3, <3>2
      <4> QED
        BY <1>0, <1>1, <4>1 DEF Rows
    <3> QED
      BY <3>1, <3>2
  <2>4. nExit' = 0 => \A p \in 1..(i' - 1) : row'[p]
    BY <1>0, <1>1, <2>1 DEF Rows
  <2> QED
    BY <1>1, <2>1, <2>3, <2>4 DEF Rows
<1>2. CASE Cost!Stalled \/ Cost!Finish \/ Cost!Done
  <2>1. CASE row' = row
    <3>0. \A b \in BOOLEAN : row' # Append(row, b)
      BY <1>0, <2>1
    <3>1. UNCHANGED <<i, left, nExit, handled, exit>> /\ pc = "finish" /\ pc' = "done" /\ exit = Cost!Running
      BY <1>2, <3>0, Zenon DEF Cost!Stalled, Cost!Finish, Cost!Done, Cost!At, Cost!EndRow, Cost!countVars
    <3> QED
      BY <1>0, <2>1, <3>1 DEF Rows
  <2>2. CASE row' # row
    <3>1. /\ UNCHANGED <<i, left, nExit, handled, exit>> /\ exit = Cost!Running
          /\ pc \in {"drain", "finish", "done"}
      BY <1>2, Zenon DEF Cost!Stalled, Cost!Finish, Cost!Done, Cost!At, Cost!EndRow, Cost!countVars
    <3>2. PICK b \in BOOLEAN : /\ row' = Append(row, b) /\ pc' = "close"
                               /\ b => (pc = "finish" /\ g_nRecv >= nCount) \/ (pc = "done" /\ g_hDone)
      BY <1>2, <2>2, Zenon DEF Cost!Stalled, Cost!Finish, Cost!Done, Cost!At, Cost!EndRow
    <3>3. b => handled[i] = nCount \/ left # {}
      <4>1. left = {} => g_nRecv = handled[i] /\ (g_hDone => handled[i] = nCount)
        BY <3>1 DEF CostInv, Counts, Posting
      <4>2. g_nRecv = handled[i] /\ g_nRecv >= nCount => handled[i] = nCount
        BY <1>0
      <4> QED
        BY <3>2, <4>1, <4>2
    <3> QED
      BY <1>1, <3>1, <3>2, <3>3
  <2> QED
    BY <2>1, <2>2
<1>3. CASE Cost!Closed \/ Cost!Abandoned
  <2>1. /\ pc = "close" /\ UNCHANGED <<row, handled, exit>> /\ exit = Cost!Running
        /\ left \subseteq left' /\ nExit' = Cost!Verdict
        /\ (i < kPostures /\ i' = i + 1 /\ pc' = "posture") \/ (~(i < kPostures) /\ i' = i /\ pc' = "return")
    BY <1>3 DEF Cost!Closed, Cost!Abandoned, Cost!At, Cost!NextPosture, Cost!countVars
  <2>2. Len(row) = i /\ row[i] \in BOOLEAN
    BY <1>0, <2>1 DEF Rows
  <2>3. nExit' = 0 => nExit = 0 /\ row[i]
    BY <2>1, <2>2 DEF Cost!Verdict
  <2>4. nExit' = 0 => \A p \in 1..i : row[p]
    BY <1>0, <2>1, <2>2, <2>3 DEF Rows
  <2>5. \A p \in 1..Len(row') : row'[p] => handled'[p] = nCount \/ \E q \in left' : q < p
    BY <1>0, <2>1 DEF Rows
  <2>6. CASE pc' = "posture"
    BY <1>0, <2>1, <2>2, <2>4, <2>5, <2>6 DEF Rows
  <2>7. CASE pc' = "return"
    BY <1>0, <2>1, <2>2, <2>4, <2>5, <2>7 DEF Rows
  <2> QED
    BY <2>1, <2>6, <2>7
<1>4. CASE \/ Cost!Posture \/ Cost!LoggedIn \/ Cost!CheckWindow \/ Cost!Drained \/ Cost!Post
  <2>1. UNCHANGED <<row, handled, i, left, nExit, exit>> /\ exit = Cost!Running
    BY <1>4, Zenon DEF Cost!Posture, Cost!LoggedIn, Cost!CheckWindow, Cost!Drained, Cost!Post, Cost!At,
       Cost!countVars
  <2>2. pc \notin {"close", "return"} /\ pc' \notin {"close", "return"}
    BY <1>4 DEF Cost!Posture, Cost!LoggedIn, Cost!CheckWindow, Cost!Drained, Cost!Post, Cost!At
  <2> QED
    BY <1>0, <2>1, <2>2 DEF Rows
<1>5. CASE Cost!Startup \/ Cost!SetupFailed
  <2>1. /\ UNCHANGED <<row, handled, i, exit>> /\ exit = Cost!Running /\ pc \notin {"close", "return"}
        /\ (pc' = "posture" /\ nExit' = nExit) \/ (pc' = "return" /\ nExit' = 2)
    BY <1>5 DEF Cost!Startup, Cost!SetupFailed, Cost!At, Cost!countVars
  <2>2. \A p \in 1..Len(row') : row'[p] => handled'[p] = nCount \/ \E q \in left' : q < p
    BY <1>0, <2>1, CostLeft DEF Rows
  <2> QED
    BY <1>0, <2>1, <2>2 DEF Rows
<1>6. CASE Cost!Return
  <2>1. UNCHANGED <<row, handled, i, left, pc, nExit>> /\ pc = "return" /\ exit' = nExit
    BY <1>6 DEF Cost!Return, Cost!At, Cost!countVars, Cost!mainVars
  <2> QED
    BY <1>0, <2>1 DEF Rows
<1>7. CASE Cost!LoginAck \/ Cost!Crash \/ Cost!Over \/ UNCHANGED Cost!vars
  <2>1. UNCHANGED <<row, handled, i, left, pc, nExit>> /\ exit' \in {exit, Cost!Crashed}
    BY <1>7 DEF Cost!LoginAck, Cost!Crash, Cost!Over, Cost!vars, Cost!countVars, Cost!mainVars
  <2> QED
    BY <1>0, <2>1 DEF Rows
<1>8. ASSUME NEW p \in Cost!Postures, Cost!Carol(p) \/ Cost!Lose(p)
      PROVE  Rows'
  <2>1. UNCHANGED <<row, i, left, pc, nExit, exit>>
    BY <1>8 DEF Cost!Carol, Cost!Lose, Cost!mainVars
  <2>2. ASSUME NEW q \in Cost!Postures, handled[q] = nCount
        PROVE  handled'[q] = nCount
    <3>1. CASE Cost!Count(p)
      <4>1. handled[p] + 1 <= nCount
        <5>1. Taken(p) = 1 /\ handled[p] + wire[p] + Taken(p) <= nCount
          BY <1>0, <3>1 DEF Cost!Count, Conserved, Taken
        <5>2. handled[p] \in Nat /\ wire[p] \in Nat
          BY <1>0
        <5> QED
          BY <1>0, <5>1, <5>2
      <4>2. p # q
        BY <1>0, <2>2, <4>1
      <4> QED
        BY <1>0, <2>2, <3>1, <4>2 DEF Cost!Count
    <3>2. CASE ~Cost!Count(p)
      <4>1. UNCHANGED handled
        BY <1>8, <3>2, Zenon DEF Cost!Carol, Cost!Lose, Cost!Receive, Cost!SignalDrain, Cost!SignalDone,
          Cost!EndLate, Cost!countVars
      <4> QED
        BY <2>2, <4>1
    <3> QED
      BY <3>1, <3>2
  <2>3. 1..Len(row) \subseteq Cost!Postures
    BY <1>0
  <2>4. \A q \in 1..Len(row') : row'[q] => handled'[q] = nCount \/ \E r \in left' : r < q
    BY <1>0, <2>1, <2>2, <2>3 DEF Rows
  <2> QED
    BY <1>0, <2>1, <2>4 DEF Rows
<1> QED
  BY <1>2, <1>3, <1>4, <1>5, <1>6, <1>7, <1>8 DEF Cost!Next, Cost!Main

LEMMA CostPromptStep == CostInv /\ [Cost!Next]_(Cost!vars) => Prompt'
<1> SUFFICES ASSUME CostInv, [Cost!Next]_(Cost!vars), ~build'.slow, build'.fault # "loses"
             PROVE  /\ nExit' # 3 /\ (pc' # "return" => left' = {})
                    /\ Posting' => /\ g_nInFlight' = wire'[i']
                                   /\ handled'[i'] + wire'[i'] + Taken(i)' = posted'
                    /\ pc' = "drain" /\ g_nInFlight' < g_nWindow => g_hDrain' \/ carol'[i'] = "released"
                    /\ pc' = "done" /\ g_nRecv' >= nCount => g_hDone' \/ carol'[i'] = "counted"
                    /\ pc' = "close" => row'[i']
  BY DEF Prompt
<1>b. ~build.slow /\ build.fault # "loses"
  BY CostFrame DEF CostInv
<1>0. /\ i \in Cost!Postures /\ i \in Nat /\ posted \in Nat /\ nCount \in Nat /\ nCount > 0
      /\ g_nInFlight \in Int /\ g_nRecv \in Nat /\ g_nWindow \in Nat /\ g_nWindow > 0
      /\ \A p \in Cost!Postures : wire[p] \in Nat /\ handled[p] \in Nat /\ Taken(p) \in {0, 1}
      /\ wire \in [Cost!Postures -> 0..nCount] /\ handled \in [Cost!Postures -> 0..nCount]
      /\ carol \in [Cost!Postures -> {"unborn", "idle", "released", "signalled", "counted", "ended"}]
      /\ Places /\ Conserved /\ Counts /\ row \in Seq(BOOLEAN)
  BY CostFacts DEF CostInv, Cost!TypeOK
<1>1. nExit # 3 /\ (pc # "return" => left = {})
  BY <1>b DEF CostInv, Prompt
<1>2. Posting => g_nInFlight = wire[i] /\ handled[i] + wire[i] + Taken(i) = posted
  BY <1>b DEF CostInv, Prompt
<1>3. pc = "drain" /\ g_nInFlight < g_nWindow => g_hDrain \/ carol[i] = "released"
  BY <1>b DEF CostInv, Prompt
<1>4. pc = "done" /\ g_nRecv >= nCount => g_hDone \/ carol[i] = "counted"
  BY <1>b DEF CostInv, Prompt
<1>5. pc = "close" => row[i]
  BY <1>b DEF CostInv, Prompt
<1> DEFINE Goal == /\ nExit' # 3 /\ (pc' # "return" => left' = {})
                   /\ Posting' => /\ g_nInFlight' = wire'[i']
                                  /\ handled'[i'] + wire'[i'] + Taken(i)' = posted'
                   /\ pc' = "drain" /\ g_nInFlight' < g_nWindow => g_hDrain' \/ carol'[i'] = "released"
                   /\ pc' = "done" /\ g_nRecv' >= nCount => g_hDone' \/ carol'[i'] = "counted"
                   /\ pc' = "close" => row'[i']
\* The waits of a machine that is not slow.
<1>w. Cost!MayTimeOut => wire[i] = 0 /\ carol[i] = "idle" /\ Taken(i) = 0
  BY <1>b DEF Cost!MayTimeOut, Taken
<1>6. ~Cost!Stalled
  <2> SUFFICES ASSUME Cost!Stalled
               PROVE  FALSE
    OBVIOUS
  <2>1. pc = "drain" /\ Posting /\ ~g_hDrain /\ Cost!MayTimeOut
    BY DEF Cost!Stalled, Cost!At, Posting
  <2>2. g_nInFlight < g_nWindow /\ carol[i] # "released"
    BY <1>0, <1>2, <1>w, <2>1
  <2> QED
    BY <1>3, <2>1, <2>2
<1>7. Cost!Done => g_hDone
  <2> SUFFICES ASSUME Cost!Done, ~g_hDone
               PROVE  FALSE
    OBVIOUS
  <2>1. pc = "done" /\ Posting /\ Cost!MayTimeOut
    BY DEF Cost!Done, Cost!At, Posting
  <2>2. posted = nCount /\ g_nRecv = handled[i]
    BY <1>0, <1>1, <2>1 DEF Conserved, Counts
  <2>3. g_nRecv >= nCount /\ carol[i] # "counted"
    BY <1>0, <1>2, <1>w, <2>1, <2>2
  <2> QED
    BY <1>4, <2>1, <2>3
<1>8. CASE Cost!Posture
  BY <1>0, <1>1, <1>8 DEF Cost!Posture, Cost!At, Places, Taken
<1>9. CASE Cost!Post
  BY <1>0, <1>1, <1>2, <1>9 DEF Cost!Post, Cost!At, Posting, Taken
<1>10. CASE Cost!Finish \/ Cost!Done
  <2>1. /\ UNCHANGED <<i, posted, left, nExit, g_nInFlight, handled, wire, carol, g_nRecv>>
        /\ Posting /\ pc # "return"
    BY <1>10, Zenon DEF Cost!Finish, Cost!Done, Cost!At, Posting, Cost!countVars, Cost!pumpVars
  <2>2. (pc' = "close" /\ row' = Append(row, TRUE)) \/ (pc' = "done" /\ ~(g_nRecv >= nCount))
    BY <1>7, <1>10, Zenon DEF Cost!Finish, Cost!Done, Cost!EndRow
  <2>3. Len(row) = i - 1
    BY <1>10 DEF CostInv, Rows, Cost!Finish, Cost!Done, Cost!At
  <2>4. row' = Append(row, TRUE) => row'[i] = TRUE
    BY <1>0, <2>3
  <2>5. Taken(i)' = Taken(i)
    BY <2>1 DEF Taken
  <2> QED
    BY <1>1, <1>2, <2>1, <2>2, <2>4, <2>5
<1>11. CASE Cost!Closed \/ Cost!Abandoned
  <2>1. ~Cost!Abandoned
    BY <1>b DEF Cost!Abandoned
  <2>2. pc' \in {"posture", "return"} /\ left' = left /\ nExit' = Cost!Verdict /\ pc = "close"
    BY <1>11, <2>1 DEF Cost!Closed, Cost!NextPosture, Cost!At
  <2>3. nExit' = nExit
    BY <1>5, <2>2 DEF Cost!Verdict
  <2> QED
    BY <1>1, <2>2, <2>3 DEF Posting
<1>12. CASE Cost!LoggedIn \/ Cost!CheckWindow \/ Cost!Drained
  <2>1. /\ UNCHANGED <<i, posted, left, nExit, g_nInFlight, handled, wire, carol, g_nRecv>>
    BY <1>12, Zenon DEF Cost!LoggedIn, Cost!CheckWindow, Cost!Drained, Cost!countVars, Cost!pumpVars
  <2>2. /\ Posting /\ pc # "return" /\ pc' \notin {"done", "close"}
        /\ pc' = "drain" => g_nInFlight >= g_nWindow
    BY <1>12 DEF Cost!LoggedIn, Cost!CheckWindow, Cost!Drained, Cost!At, Posting
  <2>3. Taken(i)' = Taken(i)
    BY <2>1 DEF Taken
  <2> QED
    BY <1>0, <1>1, <1>2, <2>1, <2>2, <2>3
<1>13. CASE Cost!Startup \/ Cost!SetupFailed
  <2>1. /\ pc' \in {"posture", "return"} /\ nExit' \in {nExit, 2}
        /\ pc # "return" /\ (pc' = "posture" => left' = left)
    BY <1>13 DEF Cost!Startup, Cost!SetupFailed, Cost!At
  <2> QED
    BY <1>1, <2>1 DEF Posting
<1>14. CASE Cost!Return \/ Cost!LoginAck \/ Cost!Crash \/ Cost!Over \/ UNCHANGED Cost!vars
  <2>1. UNCHANGED <<pc, i, posted, left, row, nExit, g_nInFlight, handled, wire, carol, g_nRecv, g_hDrain, g_hDone>>
    BY <1>14, Zenon DEF Cost!Return, Cost!LoginAck, Cost!Crash, Cost!Over, Cost!vars, Cost!mainVars,
       Cost!countVars, Cost!eventVars, Cost!pumpVars
  <2>2. Taken(i)' = Taken(i) /\ (Posting' <=> Posting)
    BY <2>1 DEF Taken, Posting
  <2> QED
    BY <1>1, <1>2, <1>3, <1>4, <1>5, <2>1, <2>2
<1>15. ASSUME NEW p \in Cost!Postures, Cost!Lose(p)
       PROVE  Goal
  BY <1>b, <1>15 DEF Cost!Lose
<1>16. ASSUME NEW p \in Cost!Postures, Cost!Carol(p), pc = "return"
       PROVE  Goal
  BY <1>1, <1>16 DEF Cost!Carol, Cost!mainVars, Posting
<1>17. ASSUME NEW p \in Cost!Postures, Cost!Carol(p), pc # "return"
       PROVE  Goal
  <2>1. p = i /\ ~Cost!EndLate(p) /\ UNCHANGED <<pc, i, posted, left, row, nExit>>
    BY <1>1, <1>17, CostCurrent DEF Cost!Carol, Cost!mainVars
  <2>2. Posting' <=> Posting
    BY <2>1 DEF Posting
  <2> USE <1>0, <1>1, <1>2, <2>1, <2>2
  <2>3. CASE Cost!Receive(p)
    <3>1. Posting => g_nInFlight' = wire'[i] /\ handled'[i] + wire'[i] + Taken(i)' = posted
      BY <2>3 DEF Cost!Receive, Taken
    <3>2. g_nInFlight' < g_nWindow => carol'[i] = "released"
      BY <2>3 DEF Cost!Receive
    <3>3. g_hDone' = g_hDone /\ g_nRecv' = g_nRecv /\ carol[i] # "counted"
      BY <2>3 DEF Cost!Receive, Cost!eventVars
    <3> QED
      BY <1>4, <1>5, <3>1, <3>2, <3>3
  <2>4. CASE Cost!SignalDrain(p)
    <3>1. Posting => g_nInFlight' = wire'[i] /\ handled'[i] + wire'[i] + Taken(i)' = posted
      BY <2>4 DEF Cost!SignalDrain, Cost!countVars, Taken
    <3>2. g_hDrain' = TRUE /\ g_hDone' = g_hDone /\ g_nRecv' = g_nRecv /\ carol[i] # "counted"
      BY <2>4 DEF Cost!SignalDrain, Cost!countVars
    <3> QED
      BY <1>4, <1>5, <3>1, <3>2
  <2>5. CASE Cost!Count(p)
    <3>1. Posting => g_nInFlight' = wire'[i] /\ handled'[i] + wire'[i] + Taken(i)' = posted
      BY <2>5 DEF Cost!Count, Taken
    <3>2. g_nInFlight' = g_nInFlight /\ g_hDrain' = g_hDrain /\ carol[i] # "released"
      BY <2>5 DEF Cost!Count, Cost!eventVars
    <3>3. g_nRecv' >= nCount => carol'[i] = "counted"
      BY <2>5 DEF Cost!Count
    <3> QED
      BY <1>3, <1>5, <3>1, <3>2, <3>3
  <2>6. CASE Cost!SignalDone(p)
    <3>1. Posting => g_nInFlight' = wire'[i] /\ handled'[i] + wire'[i] + Taken(i)' = posted
      BY <2>6 DEF Cost!SignalDone, Cost!countVars, Taken
    <3>2. g_hDone' = TRUE /\ g_hDrain' = g_hDrain /\ g_nInFlight' = g_nInFlight /\ carol[i] # "released"
      BY <2>6 DEF Cost!SignalDone, Cost!countVars
    <3> QED
      BY <1>3, <1>5, <3>1, <3>2
  <2> QED
    BY <1>17, <2>1, <2>3, <2>4, <2>5, <2>6 DEF Cost!Carol
<1> QED
  BY <1>6, <1>8, <1>9, <1>10, <1>11, <1>12, <1>13, <1>14, <1>15, <1>16, <1>17
     DEF Cost!Next, Cost!Main

LEMMA CostInvStep == CostInv /\ [Cost!Next]_(Cost!vars) => CostInv'
BY CostTypeStep, CostPlacesStep, CostConservedStep, CostCountsStep, CostRowsStep, CostWindowStep, CostPromptStep
   DEF CostInv

LEMMA CostHolds == CostInv => Cost!OkIsComplete /\ Cost!WindowHolds /\ Cost!OnlyLossStalls
<1> SUFFICES ASSUME CostInv
             PROVE  Cost!OkIsComplete /\ Cost!WindowHolds /\ Cost!OnlyLossStalls
  OBVIOUS
<1>1. exit \in {0, 3} => pc = "return" /\ exit = nExit
  BY DEF CostInv, Rows, Cost!Running, Cost!Crashed
<1>2. Cost!OkIsComplete
  <2> SUFFICES ASSUME exit = 0, NEW p \in Cost!Postures
               PROVE  handled[p] = nCount \/ \E q \in left : q < p
    BY DEF Cost!OkIsComplete
  <2>1. Len(row) = kPostures /\ row[p]
    BY <1>1 DEF CostInv, Rows
  <2> QED
    BY <2>1 DEF CostInv, Rows, Cost!Postures
<1>3. Cost!WindowHolds
  BY DEF CostInv, Window, Cost!WindowHolds
<1>4. Cost!OnlyLossStalls
  <2>1. build.slow \in BOOLEAN
    BY DEF CostInv, Cost!TypeOK
  <2> QED
    BY <1>1, <2>1 DEF CostInv, Prompt, Cost!OnlyLossStalls
<1> QED
  BY <1>2, <1>3, <1>4

(***************************************************************************)
(* alex_test and its scripts                                               *)
(*                                                                         *)
(* Who is where, and who says what, is so on any machine (Stages).  On one *)
(* that is not slow no process stays longer than it has to (InTime), which *)
(* bounds the client's post from above (NotLate) and, for a client that    *)
(* timed out, the script's reaping from below (NotEarly).  From the one it *)
(* follows that the server is there for a login that is in time (NoneLeft) *)
(* and the client that posted then is heard (Heard), from the other that a *)
(* server with the message has time to close (Spared).                     *)
(***************************************************************************)
Stages ==
    /\ script.at \in {"launch", "sleep", "client", "reap", "exited"}
    /\ server.at \in {"off", "started", "waiting", "closing", "exited"}
    /\ client.at \in {"off", "started", "waiting", "flushing", "closing", "exited"}
    /\ script.at = "launch" => server.at = "off"
    /\ script.at \in {"launch", "sleep"} => client.at = "off"
    /\ script.at = "reap" => client.at = "exited"
    /\ client.at \in {"off", "started", "waiting"} => client.rc = Alex!NoCode
    /\ client.at \in {"flushing", "closing"} => client.rc \in {0, 3}
    /\ client.rc \in {Alex!NoCode, 1} => wire = "none"
    /\ wire = "crossed" => build.fault # "loses" /\ server.at \in {"closing", "exited"}
    /\ server.rc = 0 \/ script.rc = 0 => wire = "crossed"
    /\ killed => server.at = "exited"

Within(process, duration) == process.since <= now /\ now <= process.since + duration

InTime ==
    /\ script.since <= now /\ server.since <= now /\ client.since <= now
    /\ script.at = "sleep" => Within(script, kHeadStart + kDelay)
    /\ client.at = "started" => Within(client, kDelay)
    /\ client.at = "waiting" => Within(client, kClientWait + kDelay)
    /\ server.at = "started" => Within(server, kDelay)
    /\ server.at = "waiting" => Within(server, kServerWait + kDelay)
    /\ server.at = "closing" => Within(server, kJoin + kDelay)

NotLate ==
    server.at \in {"started", "waiting"} =>
        /\ script.at = "sleep" => script.since <= server.since
        /\ client.at = "started" => client.since <= server.since + kHeadStart + kDelay
        /\ client.at = "waiting" => client.since <= server.since + kHeadStart + 2 * kDelay
        /\ client.at = "flushing" /\ client.rc = 0 =>
            client.since <= server.since + kHeadStart + kClientWait + 3 * kDelay

\* When the server's wait began or will have begun.
Waits == IF server.at = "started" THEN server.since + kDelay ELSE server.since

NotEarly ==
    server.at \in {"started", "waiting"} =>
        /\ script.at = "sleep" => Waits <= script.since + kDelay
        /\ client.at \in {"started", "waiting"} => Waits + kHeadStart <= client.since + kDelay
        /\ client.at = "flushing" /\ client.rc = 3 =>
            Waits + kHeadStart + kClientWait <= client.since + kDelay
        /\ client.at \in {"closing", "exited"} /\ client.rc = 3 =>
            Waits + kHeadStart + kClientWait + kFlush <= client.since + kDelay
        /\ script.at = "reap" /\ client.rc = 3 =>
            Waits + kHeadStart + kClientWait + kFlush <= script.since + kDelay

Heard ==
    build.fault # "loses" /\ client.rc = 0 =>
        \/ wire = "crossed"
        \/ /\ wire = "sent" /\ client.at = "flushing" /\ server.at = "waiting"
           /\ now <= client.since + kDelay

\* The server is there for a login that is in time.
NoneLeft ==
    client.at \in {"started", "waiting"} \/ script.at = "sleep" => server.at # "closing"

Spared ==
    /\ script.at = "reap" /\ server.at = "closing" /\ wire = "crossed" =>
        server.since + kJoin + kDelay < script.since + kReap
    /\ killed => wire # "crossed"

AlexInv ==
    /\ Alex!TypeOK /\ Stages
    /\ Alex!Timely => InTime /\ NotLate /\ NotEarly /\ NoneLeft /\ Heard /\ Spared

LEMMA AlexConstants ==
    /\ kHeadStart \in Nat /\ kServerWait \in Nat /\ kClientWait \in Nat /\ kFlush \in Nat
    /\ kJoin \in Nat /\ kReap \in Nat /\ kTimeout \in Nat /\ kDelay \in Nat
    /\ kDelay < kFlush /\ kJoin + kDelay < kReap
    /\ kHeadStart + kClientWait + 4 * kDelay < kServerWait
    /\ kServerWait + kJoin + 3 * kDelay < kHeadStart + kClientWait + kFlush + kReap
BY ClockAssumption DEF Alex!ClockAssumption

LEMMA AlexInit == Alex!Init => AlexInv
<1> SUFFICES ASSUME Alex!Init
             PROVE  AlexInv
  OBVIOUS
<1>1. /\ script = [at |-> "launch", since |-> 0, rc |-> Alex!NoCode]
      /\ server = [at |-> "off", since |-> 0, rc |-> Alex!NoCode] /\ client = server
      /\ now = 0 /\ wire = "none" /\ killed = FALSE /\ kTimeout \in Nat
      /\ build \in [fault : Alex!Faults, slow : BOOLEAN, shell : {"sh", "ps1"}]
  BY AlexConstants DEF Alex!Init, Alex!Idle
<1>2. Alex!TypeOK
  <2>1. now \in 0..kTimeout
    BY <1>1
  <2>2. script \in Alex!Processes /\ server \in Alex!Processes
    BY <1>1, <2>1 DEF Alex!Processes
  <2> QED
    BY <1>1, <2>1, <2>2 DEF Alex!TypeOK
<1>3. Stages
  BY <1>1 DEF Stages, Alex!NoCode
<1>4. InTime /\ NotLate /\ NotEarly /\ NoneLeft /\ Heard /\ Spared
  BY <1>1 DEF InTime, NotLate, NotEarly, NoneLeft, Heard, Spared, Alex!NoCode
<1> QED
  BY <1>2, <1>3, <1>4 DEF AlexInv

\* What kind of build and machine it is does not change.
LEMMA AlexFrame ==
    ASSUME [Alex!Next]_(Alex!vars)
    PROVE  UNCHANGED build
BY Zenon DEF Alex!Next, Alex!Server, Alex!Client, Alex!Script, Alex!Bind, Alex!Cross, Alex!ServerTimedOut,
    Alex!ServerExits, Alex!Connect, Alex!LoginAck, Alex!ClientTimedOut, Alex!Flushed, Alex!ClientExits,
    Alex!Launch, Alex!RunClient, Alex!ClientDone, Alex!Reaped, Alex!Kill, Alex!Tick, Alex!GivenUp, Alex!Over,
    Alex!vars

LEMMA AlexTypeStep == Alex!TypeOK /\ [Alex!Next]_(Alex!vars) => Alex!TypeOK'
<1> SUFFICES ASSUME Alex!TypeOK, [Alex!Next]_(Alex!vars)
             PROVE  Alex!TypeOK'
  OBVIOUS
<1>0. /\ script \in Alex!Processes /\ server \in Alex!Processes /\ client \in Alex!Processes
      /\ now \in 0..kTimeout /\ kTimeout \in Nat
      /\ wire \in {"none", "sent", "crossed", "lost"} /\ killed \in BOOLEAN
      /\ script.rc \in {Alex!NoCode, 0, 1, 3} /\ server.rc \in {Alex!NoCode, 0, 1, 3}
      /\ client.rc \in {Alex!NoCode, 0, 1, 3}
  BY AlexConstants DEF Alex!TypeOK, Alex!Processes
<1>1. UNCHANGED build
  BY AlexFrame
<1>2. CASE Alex!Server
  <2>1. CASE Alex!Bind
    <3>1. server' \in Alex!Processes
      BY <1>0, <2>1 DEF Alex!Bind, Alex!Enter, Alex!Exit, Alex!Processes, Alex!NoCode
    <3> QED
      BY <1>0, <1>1, <2>1, <3>1 DEF Alex!Bind, Alex!TypeOK
  <2>2. CASE Alex!Cross
    <3>1. server' \in Alex!Processes
      BY <1>0, <2>2 DEF Alex!Cross, Alex!Enter, Alex!Exit, Alex!Processes, Alex!NoCode
    <3> QED
      BY <1>0, <1>1, <2>2, <3>1 DEF Alex!Cross, Alex!TypeOK
  <2>3. CASE Alex!ServerTimedOut
    <3>1. server' \in Alex!Processes
      BY <1>0, <2>3 DEF Alex!ServerTimedOut, Alex!Enter, Alex!Exit, Alex!Processes, Alex!NoCode
    <3> QED
      BY <1>0, <1>1, <2>3, <3>1 DEF Alex!ServerTimedOut, Alex!TypeOK
  <2>4. CASE Alex!ServerExits
    <3>1. server' \in Alex!Processes
      BY <1>0, <2>4 DEF Alex!ServerExits, Alex!Enter, Alex!Exit, Alex!Processes, Alex!NoCode
    <3> QED
      BY <1>0, <1>1, <2>4, <3>1 DEF Alex!ServerExits, Alex!TypeOK
  <2> QED
    BY <1>2, <2>1, <2>2, <2>3, <2>4 DEF Alex!Server
<1>3. CASE Alex!Client
  <2>1. CASE Alex!Connect
    <3>1. client' \in Alex!Processes
      BY <1>0, <2>1 DEF Alex!Connect, Alex!Enter, Alex!Exit, Alex!Processes, Alex!NoCode
    <3> QED
      BY <1>0, <1>1, <2>1, <3>1 DEF Alex!Connect, Alex!TypeOK
  <2>2. CASE Alex!LoginAck
    <3>1. client' \in Alex!Processes
      BY <1>0, <2>2 DEF Alex!LoginAck, Alex!Enter, Alex!Exit, Alex!Processes, Alex!NoCode
    <3> QED
      BY <1>0, <1>1, <2>2, <3>1 DEF Alex!LoginAck, Alex!TypeOK
  <2>3. CASE Alex!ClientTimedOut
    <3>1. client' \in Alex!Processes
      BY <1>0, <2>3 DEF Alex!ClientTimedOut, Alex!Enter, Alex!Exit, Alex!Processes, Alex!NoCode
    <3> QED
      BY <1>0, <1>1, <2>3, <3>1 DEF Alex!ClientTimedOut, Alex!TypeOK
  <2>4. CASE Alex!Flushed
    <3>1. client' \in Alex!Processes
      BY <1>0, <2>4 DEF Alex!Flushed, Alex!Enter, Alex!Exit, Alex!Processes, Alex!NoCode
    <3> QED
      BY <1>0, <1>1, <2>4, <3>1 DEF Alex!Flushed, Alex!TypeOK
  <2>5. CASE Alex!ClientExits
    <3>1. client' \in Alex!Processes
      BY <1>0, <2>5 DEF Alex!ClientExits, Alex!Enter, Alex!Exit, Alex!Processes, Alex!NoCode
    <3> QED
      BY <1>0, <1>1, <2>5, <3>1 DEF Alex!ClientExits, Alex!TypeOK
  <2> QED
    BY <1>3, <2>1, <2>2, <2>3, <2>4, <2>5 DEF Alex!Client
<1>4. CASE Alex!Script
  <2>1. CASE Alex!Launch
    <3>1. server' \in Alex!Processes /\ script' \in Alex!Processes
      BY <1>0, <2>1 DEF Alex!Launch, Alex!Enter, Alex!Exit, Alex!Processes, Alex!NoCode
    <3> QED
      BY <1>0, <1>1, <2>1, <3>1 DEF Alex!Launch, Alex!TypeOK
  <2>2. CASE Alex!RunClient
    <3>1. client' \in Alex!Processes /\ script' \in Alex!Processes
      BY <1>0, <2>2 DEF Alex!RunClient, Alex!Enter, Alex!Exit, Alex!Processes, Alex!NoCode
    <3> QED
      BY <1>0, <1>1, <2>2, <3>1 DEF Alex!RunClient, Alex!TypeOK
  <2>3. CASE Alex!ClientDone
    <3>1. script' \in Alex!Processes
      BY <1>0, <2>3 DEF Alex!ClientDone, Alex!Enter, Alex!Exit, Alex!Processes, Alex!NoCode
    <3> QED
      BY <1>0, <1>1, <2>3, <3>1 DEF Alex!ClientDone, Alex!TypeOK
  <2>4. CASE Alex!Reaped
    <3>1. script' \in Alex!Processes
      BY <1>0, <2>4 DEF Alex!Reaped, Alex!Enter, Alex!Exit, Alex!Processes, Alex!NoCode, Alex!Verdict
    <3> QED
      BY <1>0, <1>1, <2>4, <3>1 DEF Alex!Reaped, Alex!TypeOK
  <2>5. CASE Alex!Kill
    <3>1. server' \in Alex!Processes
      BY <1>0, <2>5 DEF Alex!Kill, Alex!Enter, Alex!Exit, Alex!Processes, Alex!NoCode
    <3> QED
      BY <1>0, <1>1, <2>5, <3>1 DEF Alex!Kill, Alex!TypeOK
  <2> QED
    BY <1>4, <2>1, <2>2, <2>3, <2>4, <2>5 DEF Alex!Script
<1>5. CASE Alex!Tick
  BY <1>0, <1>1, <1>5 DEF Alex!Tick, Alex!TypeOK
<1>6. CASE Alex!GivenUp
  BY <1>0, <1>1, <1>6 DEF Alex!GivenUp, Alex!Exit, Alex!Processes, Alex!TypeOK
<1>7. CASE Alex!Over \/ UNCHANGED Alex!vars
  BY <1>0, <1>1, <1>7 DEF Alex!Over, Alex!vars, Alex!TypeOK
<1> QED
  BY <1>2, <1>3, <1>4, <1>5, <1>6, <1>7 DEF Alex!Next

LEMMA AlexStagesStep == AlexInv /\ [Alex!Next]_(Alex!vars) => Stages'
<1> SUFFICES ASSUME AlexInv, [Alex!Next]_(Alex!vars)
             PROVE  Stages'
  OBVIOUS
<1>0. /\ Stages
      /\ wire \in {"none", "sent", "crossed", "lost"}
      /\ server.rc \in {Alex!NoCode, 0, 1, 3} /\ client.rc \in {Alex!NoCode, 0, 1, 3}
  BY DEF AlexInv, Alex!TypeOK, Alex!Processes
<1>1. UNCHANGED build
  BY AlexFrame
<1> USE DEF Alex!Enter, Alex!Exit, Alex!NoCode, Stages
<1>2. CASE Alex!Server
  <2>1. CASE Alex!Bind
    BY <1>0, <1>1, <2>1 DEF Alex!Bind
  <2>2. CASE Alex!Cross
    BY <1>0, <1>1, <2>2 DEF Alex!Cross
  <2>3. CASE Alex!ServerTimedOut
    BY <1>0, <1>1, <2>3 DEF Alex!ServerTimedOut
  <2>4. CASE Alex!ServerExits
    BY <1>0, <1>1, <2>4 DEF Alex!ServerExits
  <2> QED
    BY <1>2, <2>1, <2>2, <2>3, <2>4 DEF Alex!Server
<1>3. CASE Alex!Client
  <2>1. CASE Alex!Connect
    BY <1>0, <1>1, <2>1 DEF Alex!Connect
  <2>2. CASE Alex!LoginAck
    BY <1>0, <1>1, <2>2 DEF Alex!LoginAck
  <2>3. CASE Alex!ClientTimedOut
    BY <1>0, <1>1, <2>3 DEF Alex!ClientTimedOut
  <2>4. CASE Alex!Flushed
    BY <1>0, <1>1, <2>4 DEF Alex!Flushed
  <2>5. CASE Alex!ClientExits
    BY <1>0, <1>1, <2>5 DEF Alex!ClientExits
  <2> QED
    BY <1>3, <2>1, <2>2, <2>3, <2>4, <2>5 DEF Alex!Client
<1>4. CASE Alex!Script
  <2>1. CASE Alex!Launch
    BY <1>0, <1>1, <2>1 DEF Alex!Launch
  <2>2. CASE Alex!RunClient
    BY <1>0, <1>1, <2>2 DEF Alex!RunClient
  <2>3. CASE Alex!ClientDone
    BY <1>0, <1>1, <2>3 DEF Alex!ClientDone
  <2>4. CASE Alex!Reaped
    BY <1>0, <1>1, <2>4 DEF Alex!Reaped, Alex!Verdict
  <2>5. CASE Alex!Kill
    BY <1>0, <1>1, <2>5 DEF Alex!Kill
  <2> QED
    BY <1>4, <2>1, <2>2, <2>3, <2>4, <2>5 DEF Alex!Script
<1>5. CASE Alex!Tick
  BY <1>0, <1>5 DEF Alex!Tick
<1>6. CASE Alex!GivenUp
  BY <1>0, <1>6 DEF Alex!GivenUp
<1>7. CASE Alex!Over \/ UNCHANGED Alex!vars
  BY <1>0, <1>7 DEF Alex!Over, Alex!vars
<1> QED
  BY <1>2, <1>3, <1>4, <1>5, <1>6, <1>7 DEF Alex!Next

LEMMA AlexTimeStep ==
    AlexInv /\ [Alex!Next]_(Alex!vars) /\ Alex!Timely' =>
        InTime' /\ NotLate' /\ NotEarly' /\ NoneLeft' /\ Heard' /\ Spared'
<1> SUFFICES ASSUME AlexInv, [Alex!Next]_(Alex!vars), Alex!Timely'
             PROVE  InTime' /\ NotLate' /\ NotEarly' /\ NoneLeft' /\ Heard' /\ Spared'
  OBVIOUS
<1>1. UNCHANGED build /\ ~build.slow
  BY AlexFrame DEF Alex!Timely
<1>0. /\ Stages /\ InTime /\ NotLate /\ NotEarly /\ NoneLeft /\ Heard /\ Spared
      /\ now \in Nat /\ script.since \in Nat /\ server.since \in Nat /\ client.since \in Nat
      /\ wire \in {"none", "sent", "crossed", "lost"}
      /\ server.rc \in {Alex!NoCode, 0, 1, 3} /\ client.rc \in {Alex!NoCode, 0, 1, 3}
  BY <1>1, AlexConstants DEF AlexInv, Alex!TypeOK, Alex!Processes, Alex!Timely
<1>c. /\ kHeadStart \in Nat /\ kServerWait \in Nat /\ kClientWait \in Nat /\ kFlush \in Nat
      /\ kJoin \in Nat /\ kReap \in Nat /\ kTimeout \in Nat /\ kDelay \in Nat
      /\ kDelay < kFlush /\ kJoin + kDelay < kReap
      /\ kHeadStart + kClientWait + 4 * kDelay < kServerWait
      /\ kServerWait + kJoin + 3 * kDelay < kHeadStart + kClientWait + kFlush + kReap
  BY AlexConstants
<1> USE DEF Alex!Enter, Alex!Exit, Alex!NoCode, Alex!Passed, Stages, InTime, Within, NotLate, NotEarly,
          Waits, NoneLeft, Heard, Spared
<1>2. CASE Alex!Server
  <2>1. CASE Alex!Bind
    BY <1>0, <1>1, <1>c, <2>1 DEF Alex!Bind
  <2>2. CASE Alex!Cross
    BY <1>0, <1>1, <1>c, <2>2 DEF Alex!Cross
  <2>3. CASE Alex!ServerTimedOut
    BY <1>0, <1>1, <1>c, <2>3 DEF Alex!ServerTimedOut
  <2>4. CASE Alex!ServerExits
    BY <1>0, <1>1, <1>c, <2>4 DEF Alex!ServerExits
  <2> QED
    BY <1>2, <2>1, <2>2, <2>3, <2>4 DEF Alex!Server
<1>3. CASE Alex!Client
  <2>1. CASE Alex!Connect
    BY <1>0, <1>1, <1>c, <2>1 DEF Alex!Connect
  <2>2. CASE Alex!LoginAck
    BY <1>0, <1>1, <1>c, <2>2 DEF Alex!LoginAck
  <2>3. CASE Alex!ClientTimedOut
    BY <1>0, <1>1, <1>c, <2>3 DEF Alex!ClientTimedOut
  <2>4. CASE Alex!Flushed
    BY <1>0, <1>1, <1>c, <2>4 DEF Alex!Flushed
  <2>5. CASE Alex!ClientExits
    BY <1>0, <1>1, <1>c, <2>5 DEF Alex!ClientExits
  <2> QED
    BY <1>3, <2>1, <2>2, <2>3, <2>4, <2>5 DEF Alex!Client
<1>4. CASE Alex!Script
  <2>1. CASE Alex!Launch
    BY <1>0, <1>1, <1>c, <2>1 DEF Alex!Launch
  <2>2. CASE Alex!RunClient
    BY <1>0, <1>1, <1>c, <2>2 DEF Alex!RunClient
  <2>3. CASE Alex!ClientDone
    BY <1>0, <1>1, <1>c, <2>3 DEF Alex!ClientDone
  <2>4. CASE Alex!Reaped
    BY <1>0, <1>1, <1>c, <2>4 DEF Alex!Reaped, Alex!Verdict
  <2>5. CASE Alex!Kill
    BY <1>0, <1>1, <1>c, <2>5 DEF Alex!Kill
  <2> QED
    BY <1>4, <2>1, <2>2, <2>3, <2>4, <2>5 DEF Alex!Script
<1>5. CASE Alex!Tick
  BY <1>0, <1>1, <1>c, <1>5 DEF Alex!Tick, Alex!Overdue, Alex!Limit
<1>6. CASE Alex!GivenUp
  BY <1>0, <1>1, <1>c, <1>6 DEF Alex!GivenUp
<1>7. CASE Alex!Over \/ UNCHANGED Alex!vars
  BY <1>0, <1>7 DEF Alex!Over, Alex!vars
<1> QED
  BY <1>2, <1>3, <1>4, <1>5, <1>6, <1>7 DEF Alex!Next

LEMMA AlexInvStep == AlexInv /\ [Alex!Next]_(Alex!vars) => AlexInv'
BY AlexTypeStep, AlexStagesStep, AlexTimeStep DEF AlexInv

LEMMA AlexHolds == AlexInv => Alex!PassMeansCrossed /\ Alex!WhoPostsIsHeard /\ Alex!KillSparesSuccess
BY DEF AlexInv, Stages, Heard, Spared, Alex!PassMeansCrossed, Alex!WhoPostsIsHeard, Alex!KillSparesSuccess

(***************************************************************************)
(* The five together: each step is one program's, and leaves the program   *)
(* what it is.                                                             *)
(***************************************************************************)
IInv ==
    /\ harness = "runner"    => RunInv
    /\ harness = "pumpbound" => PumpInv
    /\ harness = "linkcost"  => CostInv
    /\ harness = "alex_test" => AlexInv
    /\ harness = "stress"    => StressInv

LEMMA Start == Init => IInv
<1> SUFFICES ASSUME Init
             PROVE  IInv
  OBVIOUS
<1>1. CASE harness = "runner"
  BY <1>1, RunInit DEF Init, IInv
<1>2. CASE harness = "pumpbound"
  BY <1>2, PumpInit DEF Init, IInv
<1>3. CASE harness = "linkcost"
  BY <1>3, CostInit DEF Init, IInv
<1>4. CASE harness = "alex_test"
  BY <1>4, AlexInit DEF Init, IInv
<1>5. CASE harness = "stress"
  BY <1>5, StressInit DEF Init, IInv
<1> QED
  BY <1>1, <1>2, <1>3, <1>4, <1>5 DEF Init

LEMMA Step == IInv /\ [Next]_vars => IInv'
<1> SUFFICES ASSUME IInv, [Next]_vars
             PROVE  IInv'
  OBVIOUS
<1>1. ASSUME RunStep(Run!Next)
      PROVE  IInv'
  BY <1>1, RunInvStep DEF RunStep, IInv
<1>2. ASSUME PumpStep(Pump!Next)
      PROVE  IInv'
  BY <1>2, PumpInvStep DEF PumpStep, IInv
<1>3. ASSUME CostStep(Cost!Next)
      PROVE  IInv'
  BY <1>3, CostInvStep DEF CostStep, IInv
<1>4. ASSUME AlexStep(Alex!Next)
      PROVE  IInv'
  BY <1>4, AlexInvStep DEF AlexStep, IInv
<1>5. ASSUME StressStep(Stress!Next)
      PROVE  IInv'
  BY <1>5, StressInvStep DEF StressStep, IInv
<1>6. CASE UNCHANGED vars
  <2>1. UNCHANGED <<harness, Run!vars, Pump!vars, Cost!vars, Alex!vars, Stress!vars>>
    BY <1>6 DEF vars, runOwn, pumpOwn, costOwn, alexOwn, stressOwn, Run!vars, Run!counters, Run!history,
       Pump!vars, Pump!buildVars, Pump!queueVars, Pump!mainVars, Cost!vars, Cost!mainVars, Cost!countVars,
       Cost!eventVars, Cost!pumpVars, Alex!vars, Stress!vars
  <2> QED
    BY <2>1, RunInvStep, PumpInvStep, CostInvStep, AlexInvStep, StressInvStep DEF IInv
<1> QED
  BY <1>1, <1>2, <1>3, <1>4, <1>5, <1>6 DEF Next

\* The invariant of the five holds.
THEOREM Invariance == Spec => []IInv
<1>1. Spec => Init /\ [][Next]_vars
  BY PTL DEF Spec
<1> QED
  BY <1>1, Start, Step, PTL

\* Every program's variables keep their types, in any number of cases, posts,
\* messages, clients and ticks.
THEOREM Typing == Spec => []TypeOK
<1>1. IInv => TypeOK
  BY DEF IInv, TypeOK, RunInv, PumpInv, CostInv, AlexInv, StressInv
<1> QED
  BY <1>1, Invariance, PTL

LEMMA RunHolds == RunInv => Run!NoFalseGreen /\ Run!SummaryIsSafe /\ Run!NeverOverCounted
BY DEF RunInv, Bounded, Told, Run!NoFalseGreen, Run!SummaryIsSafe, Run!NeverOverCounted

\* A run of the unit-test runner that recorded a failure does not exit 0 or 2.
THEOREM NeverFalselyGreen == Spec => []NoFalseGreen
<1>1. IInv => NoFalseGreen
  BY RunHolds DEF IInv, NoFalseGreen
<1> QED
  BY <1>1, Invariance, PTL

\* What exits green was not printed FAIL.
THEOREM Safe == Spec => []SummaryIsSafe
<1>1. IInv => SummaryIsSafe
  BY RunHolds DEF IInv, SummaryIsSafe
<1> QED
  BY <1>1, Invariance, PTL

\* A pass of p2p_pumpbound means that every text named the bound the first site
\* enforced, whatever the platform's word, also when one message strayed.  What the
\* other two enforce is the next theorem's, which leaves a lower bound open.
THEOREM PassTold == Spec => []PassIsTruth
<1>1. IInv => PassIsTruth
  BY PumpHolds DEF IInv, PassIsTruth
<1> QED
  BY <1>1, Invariance, PTL

\* It means that no site lets in more than the bound that was measured.
THEOREM OneBound == Spec => []NoneEnforcesMore
<1>1. IInv => NoneEnforcesMore
  BY PumpHolds DEF IInv, NoneEnforcesMore
<1> QED
  BY <1>1, Invariance, PTL

\* Its verdict is the right one just inside and just outside of what it can measure.
THEOREM EdgesTold == Spec => []TrueAtTheEdges
<1>1. IInv => TrueAtTheEdges
  BY PumpHolds DEF IInv, TrueAtTheEdges
<1> QED
  BY <1>1, Invariance, PTL

\* OK from p2p_linkcost means that every posture's messages came, for any number of
\* postures and messages, unless the pump of an earlier one was left running.
THEOREM Complete == Spec => []OkIsComplete
<1>1. IInv => OkIsComplete
  BY CostHolds DEF IInv, OkIsComplete
<1> QED
  BY <1>1, Invariance, PTL

\* The window is never exceeded, for any window, while no pump of an earlier posture
\* was left running.
THEOREM WindowKept == Spec => []WindowHolds
<1>1. IInv => WindowHolds
  BY CostHolds DEF IInv, WindowHolds
<1> QED
  BY <1>1, Invariance, PTL

\* No wakeup of its main thread is lost: on a machine that is not slow only a build
\* that loses a message stalls.
THEOREM NothingUnnoticed == Spec => []OnlyLossStalls
<1>1. IInv => OnlyLossStalls
  BY CostHolds DEF IInv, OnlyLossStalls
<1> QED
  BY <1>1, Invariance, PTL

\* A pass of the two-process test means that the message crossed, on any machine.
THEOREM Crossed == Spec => []PassMeansCrossed
<1>1. IInv => PassMeansCrossed
  BY AlexHolds DEF IInv, PassMeansCrossed
<1> QED
  BY <1>1, Invariance, PTL

\* Whoever posts is heard: the server outwaits any client that gets to post, whatever
\* the durations that satisfy ClockAssumption.
THEOREM PostHeard == Spec => []WhoPostsIsHeard
<1>1. IInv => WhoPostsIsHeard
  BY AlexHolds DEF IInv, WhoPostsIsHeard
<1> QED
  BY <1>1, Invariance, PTL

\* The script kills no server that has the message.
THEOREM NoneKilled == Spec => []KillSparesSuccess
<1>1. IInv => KillSparesSuccess
  BY AlexHolds DEF IInv, KillSparesSuccess
<1> QED
  BY <1>1, Invariance, PTL

\* What is left of a batch of clients has no other client's address, and SUCCESS is
\* said of every client, for any number of clients, any size of batch and however
\* many joins give up.
THEOREM BatchesApart == Spec => []BatchesDoNotMeet
<1>1. IInv => BatchesDoNotMeet
  BY StressHolds DEF IInv, BatchesDoNotMeet
<1> QED
  BY <1>1, Invariance, PTL

\* Lost updates of the runner's failure counter only ever lose.
THEOREM NeverOver == Spec => [](harness = "runner" => Run!NeverOverCounted)
<1>1. IInv => (harness = "runner" => Run!NeverOverCounted)
  BY RunHolds DEF IInv
<1> QED
  BY <1>1, Invariance, PTL
=============================================================================
