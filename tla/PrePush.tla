------------------------------- MODULE PrePush -------------------------------
(***************************************************************************)
(* tools/hooks/pre-push: deletions, rewrites and unverified commits are    *)
(* kept off master by a hook on each developer's machine, that asks CI     *)
(* about the commit between the moment git learned where the remote's      *)
(* master is and the moment it moves it.                                   *)
(*                                                                         *)
(* Several developers push at once, branches as they like and master       *)
(* through the hook; CI runs on every push, may be run again, and answers  *)
(* a question about a commit with its latest run.                          *)
(***************************************************************************)
CONSTANTS Commits,      \* the commits there will ever be, histories apart
          Ancestors,    \* the pairs <<a, c>> with a in the history of c
          Root,         \* the commit master is at to begin with
          Developers

\* What git merge-base --is-ancestor goes by.
ASSUME HistoryAssumption ==
    /\ Ancestors \subseteq Commits \X Commits
    /\ \A c \in Commits : <<c, c>> \in Ancestors
    /\ \A a, b, c \in Commits :
          <<a, b>> \in Ancestors /\ <<b, c>> \in Ancestors => <<a, c>> \in Ancestors
ASSUME RootAssumption == Root \in Commits

\* The object name git prints where there is no object: no commit has it.
Zero == "0000000000000000000000000000000000000000"
ASSUME ZeroAssumption == Zero \notin Commits

VARIABLES master,   \* the remote's refs/heads/master, or Zero
          run,      \* the latest run of the workflow on each commit
          green,    \* the commits that have ever had a green one
          push,     \* each developer's push of master: what it is at,
                    \* the old and the new value of the ref
          hasGh     \* each developer has the GitHub CLI on PATH

vars == <<master, run, green, push, hasGh>>

Refs == Commits \union {Zero}
Idle == [at |-> "idle", old |-> Zero, new |-> Zero]
Conclusions == {"success", "failure"}

IsAncestor(a, c) == <<a, c>> \in Ancestors

\* A remote that has a master, which CI has seen, or none as yet.
Init ==
    /\ master \in {Root, Zero}
    /\ run = [c \in Commits |-> IF c = master THEN "success" ELSE "none"]
    /\ green = {master} \ {Zero}
    /\ push = [d \in Developers |-> Idle]
    /\ hasGh \in [Developers -> BOOLEAN]

-----------------------------------------------------------------------------
(* GitHub *)

\* A push of any branch but master, or a rerun: the workflow starts.
StartRun(c) ==
    /\ run' = [run EXCEPT ![c] = "queued"]
    /\ UNCHANGED <<master, green, push, hasGh>>

FinishRun(c) ==
    /\ run[c] = "queued"
    /\ \E r \in Conclusions :
          /\ run' = [run EXCEPT ![c] = r]
          /\ green' = IF r = "success" THEN green \union {c} ELSE green
    /\ UNCHANGED <<master, push, hasGh>>

-----------------------------------------------------------------------------
(* A push of master *)

\* git asks the remote for its refs and hands the hook one line for master.
Begin(d, new) ==
    /\ push[d].at = "idle"
    /\ push' = [push EXCEPT ![d] = [at |-> "hook", old |-> master, new |-> new]]
    /\ UNCHANGED <<master, run, green, hasGh>>

\* Mutant: the rewrite is not looked for.
AllowsRewrite(p, gh) == p.new # Zero /\ gh /\ run[p.new] = "success"

\* Mutant: a commit CI has never seen will do.
AllowsUnseen(p, gh) ==
    /\ p.new # Zero
    /\ p.old # Zero => IsAncestor(p.old, p.new)
    /\ gh
    /\ run[p.new] \in {"success", "none"}

\* The three rules, in the order of the script: no deletion, no rewrite of an
\* existing master, and the latest run of the new tip completed with success.
Allows(p, gh) ==
    /\ p.new # Zero
    /\ p.old # Zero => IsAncestor(p.old, p.new)
    /\ gh
    /\ run[p.new] = "success"

\* The hook exits 1 and git pushes nothing.
Refuse(d) ==
    /\ push[d].at = "hook" /\ ~Allows(push[d], hasGh[d])
    /\ push' = [push EXCEPT ![d] = Idle]
    /\ UNCHANGED <<master, run, green, hasGh>>

\* The hook exits 0.
Allow(d) ==
    /\ push[d].at = "hook" /\ Allows(push[d], hasGh[d])
    /\ push' = [push EXCEPT ![d].at = "allowed"]
    /\ UNCHANGED <<master, run, green, hasGh>>

\* The remote moves the ref if it is still where git saw it, and the workflow
\* runs on the new tip; otherwise it rejects the push.
Update(d) ==
    /\ push[d].at = "allowed"
    /\ IF master = push[d].old
       THEN /\ master' = push[d].new
            /\ run' = [run EXCEPT ![push[d].new] = "queued"]
       ELSE UNCHANGED <<master, run>>
    /\ push' = [push EXCEPT ![d] = Idle]
    /\ UNCHANGED <<green, hasGh>>

Next ==
    \/ \E c \in Commits : StartRun(c) \/ FinishRun(c)
    \/ \E d \in Developers :
          \/ \E new \in Refs : Begin(d, new)
          \/ Refuse(d) \/ Allow(d) \/ Update(d)

Spec == Init /\ [][Next]_vars

-----------------------------------------------------------------------------
(* Properties *)

TypeOK ==
    /\ master \in Refs
    /\ run \in [Commits -> {"none", "queued"} \union Conclusions]
    /\ green \in SUBSET Commits
    /\ push \in [Developers -> [at : {"idle", "hook"}, old : Refs, new : Refs]
                              \union [at : {"allowed"}, old : Refs, new : Commits]]
    /\ hasGh \in [Developers -> BOOLEAN]

\* Rule 3, of tips: master is at a commit that has been green in CI, although
\* its run may have been repeated since the hook asked.
TipWasGreen == master # Zero => master \in green

\* Rules 1 and 2: however the pushes of several developers overlap, what
\* master has reached stays in its history, and master is not deleted.
NeverRewritten ==
    [][master # Zero => master' # Zero /\ IsAncestor(master, master')]_master

\* tools/hooks/README.md:33 says that the hook keeps off master "any commit
\* whose exact SHA has not already gone green".
EveryCommitWasGreen ==
    \A c \in Commits : IsAncestor(c, master) /\ ~IsAncestor(c, Root) => c \in green
=============================================================================
