---------------------------- MODULE PrePushProofs ----------------------------
(***************************************************************************)
(* What the hook keeps off master, for every history, any number of        *)
(* developers and any order of their pushes and of CI's runs.              *)
(*                                                                         *)
(* A push that the hook let through carries what it was let through for    *)
(* until the remote takes it: a commit that has been green, in whose       *)
(* history the old master is.  The remote compares the old value again.    *)
(***************************************************************************)
EXTENDS PrePush, TLAPS

\* CI's latest answer is kept by the commits that ever had it.
RunsSeen == \A c \in Commits : run[c] = "success" => c \in green

\* What a push that is on its way to the remote was checked for.
Checked(p) ==
    p.at = "allowed" =>
        /\ p.new \in green
        /\ p.old # Zero => IsAncestor(p.old, p.new)

IInv ==
    /\ TypeOK
    /\ TipWasGreen
    /\ RunsSeen
    /\ \A d \in Developers : Checked(push[d])

LEMMA AllInit == Init => IInv
<1> SUFFICES ASSUME Init
             PROVE  IInv
  OBVIOUS
<1> USE RootAssumption, ZeroAssumption DEF Init, Refs, Idle
<1>1. TypeOK
  BY DEF TypeOK, Conclusions
<1>2. TipWasGreen /\ RunsSeen
  BY DEF TipWasGreen, RunsSeen
<1>3. \A d \in Developers : Checked(push[d])
  BY DEF Checked
<1> QED
  BY <1>1, <1>2, <1>3 DEF IInv

\* A new run never takes a green from a commit.
LEMMA StartKeeps ==
    ASSUME IInv, NEW c \in Commits, StartRun(c)
    PROVE  IInv'
<1>1. TypeOK'
  BY DEF IInv, TypeOK, StartRun
<1>2. RunsSeen'
  BY DEF IInv, TypeOK, StartRun, RunsSeen
<1> QED
  BY <1>1, <1>2 DEF IInv, StartRun, TipWasGreen, Checked

\* Neither does the end of one.
LEMMA FinishKeeps ==
    ASSUME IInv, NEW c \in Commits, FinishRun(c)
    PROVE  IInv'
<1>1. PICK r \in Conclusions :
        /\ run' = [run EXCEPT ![c] = r]
        /\ green' = IF r = "success" THEN green \union {c} ELSE green
  BY DEF FinishRun
<1>2. green \subseteq green'
  BY <1>1
<1>3. TypeOK'
  BY <1>1 DEF IInv, TypeOK, FinishRun
<1>4. RunsSeen'
  BY <1>1 DEF IInv, TypeOK, RunsSeen
<1>5. TipWasGreen'
  BY <1>2 DEF IInv, FinishRun, TipWasGreen
<1>6. \A d \in Developers : Checked(push[d])'
  BY <1>2 DEF IInv, FinishRun, Checked
<1> QED
  BY <1>3, <1>4, <1>5, <1>6 DEF IInv

\* A push starts unchecked and ends forgotten.
LEMMA BeginRefuseKeep ==
    ASSUME IInv, NEW d \in Developers,
           Refuse(d) \/ \E new \in Refs : Begin(d, new)
    PROVE  IInv'
<1>1. PICK p \in [at : {"idle", "hook"}, old : Refs, new : Refs] :
        push' = [push EXCEPT ![d] = p]
  BY DEF Refuse, Begin, Idle, Refs, IInv, TypeOK
<1>2. UNCHANGED <<master, run, green, hasGh>>
  BY DEF Refuse, Begin
<1>3. TypeOK'
  BY <1>1, <1>2 DEF IInv, TypeOK
<1>4. TipWasGreen' /\ RunsSeen'
  BY <1>2 DEF IInv, TipWasGreen, RunsSeen
<1>5. \A e \in Developers : Checked(push[e])'
  BY <1>1, <1>2 DEF IInv, TypeOK, Checked
<1> QED
  BY <1>3, <1>4, <1>5 DEF IInv

\* The hook lets a push through for what it has just looked at.
LEMMA AllowKeeps ==
    ASSUME IInv, NEW d \in Developers, Allow(d)
    PROVE  IInv'
<1>1. /\ push[d].new \in Commits
      /\ push[d].new \in green
      /\ push[d].old # Zero => IsAncestor(push[d].old, push[d].new)
  BY DEF Allow, Allows, IInv, TypeOK, RunsSeen, Refs
<1>2. /\ push' = [push EXCEPT ![d] = [push[d] EXCEPT !.at = "allowed"]]
      /\ UNCHANGED <<master, run, green, hasGh>>
  BY DEF Allow
<1>3. push[d] \in [at : {"idle", "hook"}, old : Refs, new : Refs]
  BY DEF Allow, IInv, TypeOK
<1>4. TypeOK'
  BY <1>1, <1>2, <1>3 DEF IInv, TypeOK
<1>5. TipWasGreen' /\ RunsSeen'
  BY <1>2 DEF IInv, TipWasGreen, RunsSeen
<1>6. \A e \in Developers : Checked(push[e])'
  BY <1>1, <1>2, <1>3 DEF IInv, TypeOK, Checked
<1> QED
  BY <1>4, <1>5, <1>6 DEF IInv

\* The remote moves the ref to a commit that was checked against where it is.
LEMMA UpdateKeeps ==
    ASSUME IInv, NEW d \in Developers, Update(d)
    PROVE  /\ IInv'
           /\ master' # master => /\ master' \in green
                                  /\ master # Zero => master' # Zero /\ IsAncestor(master, master')
<1>1. push[d] \in [at : {"allowed"}, old : Refs, new : Commits] /\ Checked(push[d])
  BY DEF Update, IInv, TypeOK
<1>2. /\ push' = [push EXCEPT ![d] = Idle]
      /\ UNCHANGED <<green, hasGh>>
      /\ \/ UNCHANGED <<master, run>>
         \/ /\ master = push[d].old
            /\ master' = push[d].new
            /\ run' = [run EXCEPT ![push[d].new] = "queued"]
  BY DEF Update
<1>3. master' # master => /\ master' \in green
                          /\ master # Zero => master' # Zero /\ IsAncestor(master, master')
  BY <1>1, <1>2, ZeroAssumption DEF Checked
<1>4. TypeOK'
  BY <1>1, <1>2 DEF IInv, TypeOK, Refs, Idle
<1>5. TipWasGreen'
  BY <1>2, <1>3 DEF IInv, TipWasGreen
<1>6. RunsSeen'
  BY <1>1, <1>2 DEF IInv, TypeOK, RunsSeen
<1>7. \A e \in Developers : Checked(push[e])'
  BY <1>2 DEF IInv, TypeOK, Checked, Idle
<1> QED
  BY <1>3, <1>4, <1>5, <1>6, <1>7 DEF IInv

LEMMA AllNext ==
    IInv /\ [Next]_vars =>
        IInv' /\ (master' # master /\ master # Zero => master' # Zero /\ IsAncestor(master, master'))
<1> SUFFICES ASSUME IInv, [Next]_vars
             PROVE  IInv' /\ (master' # master /\ master # Zero => master' # Zero /\ IsAncestor(master, master'))
  OBVIOUS
<1>1. ASSUME NEW c \in Commits, StartRun(c) \/ FinishRun(c)
      PROVE  IInv' /\ master' = master
  BY <1>1, StartKeeps, FinishKeeps DEF StartRun, FinishRun
<1>2. ASSUME NEW d \in Developers, Refuse(d) \/ \E new \in Refs : Begin(d, new)
      PROVE  IInv' /\ master' = master
  BY <1>2, BeginRefuseKeep DEF Refuse, Begin
<1>3. ASSUME NEW d \in Developers, Allow(d)
      PROVE  IInv' /\ master' = master
  BY <1>3, AllowKeeps DEF Allow
<1>4. CASE \E d \in Developers : Update(d)
  BY <1>4, UpdateKeeps
<1>5. CASE UNCHANGED vars
  BY <1>5 DEF vars, IInv, TypeOK, TipWasGreen, RunsSeen, Checked
<1> QED
  BY <1>1, <1>2, <1>3, <1>4, <1>5 DEF Next

\* The invariant holds throughout.
THEOREM Invariance == Spec => []IInv
  BY AllInit, AllNext, PTL DEF Spec

\* Every variable keeps its type; a push that was let through has a commit.
THEOREM Typing == Spec => []TypeOK
  BY Invariance, PTL DEF IInv

\* Master's tip has been green in CI.
THEOREM GreenTip == Spec => []TipWasGreen
  BY Invariance, PTL DEF IInv

\* What master has reached stays in its history.
THEOREM HistoryKept == Spec => NeverRewritten
<1>1. IInv /\ [Next]_vars => [master # Zero => master' # Zero /\ IsAncestor(master, master')]_master
  BY AllNext
<1> QED
  BY <1>1, Invariance, PTL DEF Spec, NeverRewritten
=============================================================================
