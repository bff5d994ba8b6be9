------------------------------ MODULE PumpBound ------------------------------
(***************************************************************************)
(* p2p_pumpbound.cpp: does the queue-full diagnostic tell the truth about  *)
(* the bound it just enforced?                                             *)
(*                                                                         *)
(* Main fills a queue nothing drains until a post is refused, works out    *)
(* the bound from how many posts were accepted, and compares it with the   *)
(* figure the diagnostic names; then it posts once through each of two     *)
(* other sites, whose guards should refuse on entry.  What a site of the   *)
(* build enforces and says is chosen when the site is first called.  A     *)
(* diagnostic is its runs of digits, in order: "P2Pmsg pump is full, N     *)
(* entries" has two, the first of them incidental.                         *)
(***************************************************************************)
EXTENDS Integers, Sequences, SequencesExt

CONSTANTS kPostCeiling,  \* posts attempted before main gives up
          kMinCredible,  \* fewer accepted posts than this prove nothing
          Radix,         \* of the figures in a diagnostic
          Largest,       \* the largest unsigned long LastNumber has in mind
          Words,         \* how many values an unsigned long has, by platform
          Incidental,    \* the figure in the text before the bound
          Limits,        \* bound: bounds a site may enforce
          Figures,       \* bound: figures a diagnostic may name
          MaxBase,       \* bound: messages alive before the run
          MaxStrays      \* bound: messages that come or go of themselves

\* What the figures are.
FiguresAssumption ==
    /\ Radix \in Nat \ {0, 1} /\ Largest \in Nat /\ Words \subseteq Nat \ 0..Largest
    /\ Incidental \in Nat /\ Limits \subseteq Nat /\ Figures \subseteq Nat
    /\ MaxBase \in Nat /\ MaxStrays \in Nat

\* 1000 against a 2 and against what wraps: a figure below ten.  The ceiling,
\* five million, is far from the largest unsigned long.
CredibleAssumption ==
    /\ kMinCredible \in Nat /\ kMinCredible > Radix /\ kMinCredible > Incidental + 1
    /\ kPostCeiling \in Nat /\ kPostCeiling > kMinCredible
    /\ MaxBase + kPostCeiling <= Largest

VARIABLES pc,       \* "startup", "hub", "fill", "caught", "batch", "narrow", "close", "over"
          word,     \* how many values an unsigned long has here
          sites,    \* what the sites called so far enforce and say
          keeps,    \* the build leaves a refused message in the count
          base,     \* ulBase
          count,    \* live P2Pmsgs in the process
          nPosted,  \* posts accepted
          live,     \* ulLiveAtThrow
          strays,   \* messages that came or went of themselves
          nExit     \* main's verdict so far: the exit code when pc is "over"

buildVars == <<word, sites, keeps>>
queueVars == <<count, strays>>
mainVars  == <<base, nPosted, live>>
vars      == <<pc, buildVars, queueVars, mainVars, nExit>>

Unlimited == -1    \* a site that refuses nothing
Pass      == 0

SiteNames   == {"post", "batch", "narrow"}
Diagnostics == {<<>>, <<Incidental>>} \cup {<<Incidental, n>> : n \in Figures}
SiteKinds   == [limit : Limits \cup {Unlimited}, says : Diagnostics]

-----------------------------------------------------------------------------
(* LastNumber *)

NoNumber == -1

\* One run of digits.  The guard lets through figures of which the last digit
\* is too much, and those wrap where an unsigned long is no larger than Largest.
RunRead(n) ==
    LET ul == n \div Radix
    IN  CASE n < Radix              -> n
          [] ul > Largest \div Radix -> NoNumber
          [] OTHER                  -> n % word

LastNumber(runs) ==
    IF runs = <<>> \/ \E i \in DOMAIN runs : RunRead(runs[i]) = NoNumber
    THEN NoNumber
    ELSE RunRead(Last(runs))

-----------------------------------------------------------------------------
Init ==
    /\ pc = "startup" /\ nExit = 2
    /\ word \in Words /\ keeps \in BOOLEAN /\ sites = <<>>
    /\ base \in 0..MaxBase /\ count = base /\ strays = 0
    /\ nPosted = 0 /\ live = 0

\* StartupP2Pmsg.
StartupP2Pmsg ==
    /\ pc = "startup"
    /\ pc' \in {"hub", "over"}
    /\ UNCHANGED <<buildVars, queueVars, mainVars, nExit>>

\* A site is called for the first time.
FirstCall(site) ==
    \E s \in SiteKinds :
        sites' = [x \in DOMAIN sites \cup {site} |-> IF x = site THEN s ELSE sites[x]]

\* CreateP2PmsgHub may throw, and leave messages alive when it does not: the
\* baseline is what is there afterwards.
CreateP2PmsgHub ==
    /\ pc = "hub"
    /\ \/ pc' = "over" /\ UNCHANGED <<sites, base>>
       \/ /\ pc' = "fill"
          /\ base' = count
          /\ FirstCall("post")
    /\ UNCHANGED <<word, keeps, queueVars, nPosted, live, nExit>>

Accepts(site) == site.limit = Unlimited \/ count <= site.limit

AfterRefusal == IF keeps THEN count + 1 ELSE count

\* Mutant: nothing ends the loop but a refusal.
PostAcceptedAlways ==
    /\ pc = "fill"
    /\ Accepts(sites.post)
    /\ nPosted' = nPosted + 1 /\ count' = count + 1
    /\ UNCHANGED <<pc, buildVars, strays, base, live, nExit>>

\* The guard reads the count before the message is made.
PostAccepted ==
    /\ pc = "fill" /\ nPosted < kPostCeiling
    /\ Accepts(sites.post)
    /\ nPosted' = nPosted + 1 /\ count' = count + 1
    /\ UNCHANGED <<pc, buildVars, strays, base, live, nExit>>

\* The loop has used up its posts.
NeverRefused ==
    /\ pc = "fill" /\ nPosted = kPostCeiling
    /\ pc' = "close" /\ nExit' = 3
    /\ UNCHANGED <<buildVars, queueVars, mainVars>>

\* Mutant: a refused post is tried again.
PostRetried ==
    /\ pc = "fill" /\ nPosted < kPostCeiling
    /\ ~Accepts(sites.post)
    /\ UNCHANGED vars

\* Main asks for the live count once it has caught the refusal.
PostRefused ==
    /\ pc = "fill" /\ nPosted < kPostCeiling
    /\ ~Accepts(sites.post)
    /\ count' = AfterRefusal
    /\ pc' = "caught"
    /\ UNCHANGED <<buildVars, strays, mainVars, nExit>>

Measured == base + nPosted - 1

\* Mutant: no positive control.
VerdictWithoutControl ==
    IF LastNumber(sites.post.says) # Measured \/ live' # Measured + 1 THEN 1 ELSE 0

\* Mutant: the refusal is counted as a post.
VerdictOffByOne ==
    IF nPosted <= kMinCredible THEN 3
    ELSE IF LastNumber(sites.post.says) # Measured \/ live' # Measured + 1 THEN 1 ELSE 0

Verdict ==
    IF nPosted < kMinCredible THEN 3
    ELSE IF LastNumber(sites.post.says) # Measured \/ live' # Measured + 1 THEN 1 ELSE 0

Judge ==
    /\ pc = "caught"
    /\ live' = count
    /\ nExit' = Verdict
    /\ IF Verdict = 0
       THEN /\ pc' = "batch"
            /\ FirstCall("batch")
       ELSE pc' = "close" /\ UNCHANGED sites
    /\ UNCHANGED <<word, keeps, queueVars, base, nPosted>>

\* Mutant: that a post was accepted shows in no figure.
CheckFigure(site) == IF LastNumber(site.says) # Measured THEN 1 ELSE 0

CheckRefusal(site) ==
    IF Accepts(site) \/ LastNumber(site.says) # Measured THEN 1 ELSE 0

Call(site) == count' = IF Accepts(site) THEN count + 1 ELSE AfterRefusal

Batch ==
    /\ pc = "batch"
    /\ Call(sites.batch)
    /\ nExit' = CheckRefusal(sites.batch)
    /\ IF nExit' = 0
       THEN /\ pc' = "narrow"
            /\ FirstCall("narrow")
       ELSE pc' = "close" /\ UNCHANGED sites
    /\ UNCHANGED <<word, keeps, strays, mainVars>>

Narrow ==
    /\ pc = "narrow"
    /\ Call(sites.narrow)
    /\ nExit' = CheckRefusal(sites.narrow)
    /\ pc' = "close"
    /\ UNCHANGED <<buildVars, strays, mainVars>>

\* CloseP2PmsgHub frees what the queue holds; whatever it throws is cancelled.
CloseP2PmsgHub ==
    /\ pc = "close"
    /\ pc' = "over" /\ count' = base
    /\ UNCHANGED <<buildVars, strays, mainVars, nExit>>

\* The count is the whole process's: what the start left behind may go, and
\* something may come.
Stray ==
    /\ pc \notin {"startup", "close", "over"} /\ strays < MaxStrays
    /\ strays' = strays + 1
    /\ \/ count' = count + 1
       \/ count > 0 /\ count' = count - 1
    /\ UNCHANGED <<pc, buildVars, mainVars, nExit>>

Over == pc = "over" /\ UNCHANGED vars

Main ==
    \/ StartupP2Pmsg \/ CreateP2PmsgHub \/ PostAccepted \/ NeverRefused
    \/ PostRefused \/ Judge \/ Batch \/ Narrow \/ CloseP2PmsgHub

Next == Main \/ Stray \/ Over

\* Main is one thread of a program that is not paused.
Spec == Init /\ [][Next]_vars /\ WF_vars(Main)

-----------------------------------------------------------------------------
TypeOK ==
    /\ pc \in {"startup", "hub", "fill", "caught", "batch", "narrow", "close", "over"}
    /\ word \in Words /\ keeps \in BOOLEAN
    /\ DOMAIN sites \subseteq SiteNames
    /\ \A s \in DOMAIN sites : sites[s] \in SiteKinds
    /\ base \in Nat /\ count \in Nat /\ live \in Nat /\ strays \in 0..MaxStrays
    /\ nPosted \in 0..kPostCeiling
    /\ nExit \in 0..3

Passed == pc = "over" /\ nExit = Pass

Names(site, n) == site.says = <<Incidental, n>>

\* Hazard (p2p_pumpbound.cpp:159): LastNumber's guard lets figures through that
\* wrap.  A pass still means that every text named the bound the first site
\* enforces, digit for digit, also when one message strayed in or out of the
\* count during the run, at whichever point, or the refused message stayed in it
\* (p2p_pumpbound.cpp:355 checks the arithmetic): two such errors may cancel.
PassIsTruth ==
    Passed /\ strays <= 1 /\ (keeps => strays = 0) =>
        \A s \in SiteNames : Names(sites[s], sites.post.limit)

\* Hazard (p2p_pumpbound.cpp:200): main posts to the other two sites only once,
\* over the first one's bound.  A pass means none of them lets more in.  That
\* they do not refuse earlier it does not mean.
NoneEnforcesMore ==
    Passed /\ strays = 0 =>
        \A s \in SiteNames : sites[s].limit # Unlimited /\ sites[s].limit <= Measured

\* The run is inconclusive exactly when the bound lies outside of what main can
\* tell from posting: fewer posts than it believes, or as many as it makes.
Inconclusive ==
    \/ sites.post.limit = Unlimited
    \/ sites.post.limit + 1 - base < kMinCredible
    \/ sites.post.limit + 1 - base >= kPostCeiling

Honest ==
    /\ ~keeps
    /\ \A s \in DOMAIN sites :
        sites[s] = [limit |-> sites.post.limit, says |-> <<Incidental, sites.post.limit>>]

\* Hazard (p2p_pumpbound.cpp:320): a bound is one less than what was posted, a
\* ceiling exactly that.  Just inside both edges a build that enforces one bound
\* and names it passes, and just outside the run says that it cannot tell.
TrueAtTheEdges ==
    pc = "over" /\ strays = 0 /\ DOMAIN sites # {} =>
        /\ nExit = 3 <=> Inconclusive
        /\ Honest /\ ~Inconclusive => nExit = Pass

\* A queue without a bound does not keep main posting.
MainReturns == <>(pc = "over")
=============================================================================
