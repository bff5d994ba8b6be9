------------------------------ MODULE MCPrePush ------------------------------
(* PrePush for TLC: two developers; a branch of two commits on the root and a *)
(* commit that diverges from it.                                              *)
EXTENDS PrePush

MCCommits   == {"root", "first", "second", "other"}
MCAncestors ==
    {<<c, c>> : c \in MCCommits}
    \union {<<"root", c>> : c \in MCCommits} \union {<<"first", "second">>}
=============================================================================
