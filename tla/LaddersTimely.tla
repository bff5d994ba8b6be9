--------------------------- MODULE LaddersTimely ----------------------------
(***************************************************************************)
(* What a harness's text alone says about its runs on a timely machine:    *)
(* what the pumps have done for certain when main is past a step, what     *)
(* main then reads for certain, and that its verdict is the truth.         *)
(*                                                                         *)
(* F is what the build misbehaves in.  Z is a set of pairs <<e, q>>, each  *)
(* to say that main is past step q only when effect e has been delivered.  *)
(***************************************************************************)
EXTENDS LaddersEvidence

\* What the build does once it is asked, and what it never does.
Able(h, F) ==
    {e \in DOMAIN effects[h] :
        effects[h][e].unless \cap F = {} /\ effects[h][e].given \subseteq F}

Barren(h, F) ==
    LET idle == DOMAIN effects[h] \ Able(h, F)
    IN Behind(h, Behind(h, Behind(h, Behind(h, idle))))

\* E and what comes right before it; e and what comes before it.
Ahead(h, E)  == E \cup UNION {effects[h][e].after : e \in E}
Before(h, e) == Ahead(h, Ahead(h, {e}))

\* At step q main has asked for e, of hubs that it has not closed since.
Open(h, e, q) ==
    \E a \in Asks(h, e) : a < q /\ \A j \in Steps(h, {"shut"}) : j < a \/ q <= j

(***************************************************************************)
(* What is done if the pumps have nothing left to do at step q.  As in     *)
(* LaddersEvidence, four steps of after are enough.                        *)
(***************************************************************************)
Ripe(h, D, E) == E \cup {e \in D : effects[h][e].after \subseteq E}

Ready(h, F, Z, q) ==
    LET D == {e \in Able(h, F) : Open(h, e, q)}
        E == {z[1] : z \in {y \in Z : y[2] < q}}
    IN Ripe(h, D, Ripe(h, D, Ripe(h, D, Ripe(h, D, E))))

\* No turn finds e asked for and not done.
Prompt(h, Z, e) ==
    \A a \in Asks(h, e), t \in Steps(h, {"turn"}) :
        t < a \/ \E z \in Z : z[1] = e /\ z[2] < t

\* The signals e can set.
Emits(h, Z, e) == IF Prompt(h, Z, e) THEN OwnSignals(h, e) ELSE Sets(h, e)

Waits(h, s) == {w \in Steps(h, {"wait"}) : programs[h][w].signal = s}

\* What e had set is taken before step i.
Spent(h, Z, e, s, i) ==
    \E w \in Waits(h, s), z \in Z : w < i /\ z[1] = e /\ z[2] <= w

\* What can have set s at step i.
Setters(h, F, Z, s, i) ==
    {e \in DOMAIN effects[h] \ Barren(h, F) :
        /\ \E a \in Asks(h, e) : a < i
        /\ s \in Emits(h, Z, e)
        /\ ~Erased(h, e, s, i)
        /\ ~Spent(h, Z, e, s, i)}

\* Past step q, main has slept until e was done, or waited in vain until it was,
\* or seen what comes after e.
Awaited(h, F, Z, q) ==
    LET seen == IF programs[h][q].op = "rest" THEN {}
                ELSE {Before(h, e) : e \in Setters(h, F, Z, programs[h][q].signal, q)}
    IN {e \in Ready(h, F, Z, q) : \A B \in seen : e \in B}

Settle(h, F, Z) ==
    UNION {Awaited(h, F, Z, q) \X {q} : q \in Steps(h, {"rest", "wait"})}

\* Twice is enough for the harnesses: Judges says that it is.
Settled(h, F) == Settle(h, F, Settle(h, F, {}))

(***************************************************************************)
(* What main reads.                                                        *)
(***************************************************************************)

\* Step i finds what e has set: nothing has reset it.
Finds(h, Z, e, i) ==
    LET s == programs[h][i].signal IN
    /\ Emits(h, Z, e) = {s}
    /\ \A c \in Clears(h, s) \cup Waits(h, s) : i <= c \/ \A a \in Asks(h, e) : c < a

SureTrue(h, F, Z, i) ==
    LET step == programs[h][i] IN
    \/ step.op = "look" /\ step.faults \cap F # {}
    \/ step.op = "wait" /\ \E e \in Ready(h, F, Z, i) : Finds(h, Z, e, i)
    \/ step.op = "poll" /\ \E z \in Z : z[2] < i /\ Finds(h, Z, z[1], i)

SureFalse(h, F, Z, i) ==
    LET step == programs[h][i] IN
    \/ step.op = "look" /\ step.faults \cap F = {}
    \/ step.op \in {"wait", "poll"} /\ Setters(h, F, Z, step.signal, i) = {}

\* Pairs <<i, v>>: step i reads v.
Sure(h, F, Z) ==
    LET I == Steps(h, {"wait", "poll", "look"})
    IN ({i \in I : SureTrue(h, F, Z, i)} \X {TRUE}) \cup
       ({i \in I : SureFalse(h, F, Z, i)} \X {FALSE})

\* At step k main has read v for r, with K what it is sure to read.
Knows(h, K, r, v, k) ==
    \E x \in K : /\ x[1] < k /\ x[2] = v
                 /\ programs[h][x[1]].reading = r /\ ReadAt(h, r, x[1])

(***************************************************************************)
(* The verdict.                                                            *)
(***************************************************************************)

\* Rung k stops main; rung k does not.
Halts(h, K, k) ==
    \E p \in programs[h][k].patterns : \A r \in DOMAIN p : Knows(h, K, r, p[r], k)

LetsPass(h, K, k) ==
    \A p \in programs[h][k].patterns : \E r \in DOMAIN p : Knows(h, K, r, ~p[r], k)

\* To stop at step k is to pass a build that is not sound, to fail one that is, or to
\* accuse it of what it does not do.
Wrong(h, F, k) ==
    LET step == programs[h][k]
        sound == F \cap faults[h] = {}
    IN /\ step.op \in {"arrange", "rung", "return"}
       /\ \/ step.code = Pass /\ ~sound
          \/ step.code # Pass /\ sound /\ step.op # "arrange"
          \/ step.op = "rung" /\ step.accused # {} /\ step.accused \cap F = {}

Judges(h, F) ==
    LET Z == Settled(h, F)
        K == Sure(h, F, Z)
        J == {j \in Steps(h, {"rung"}) : Halts(h, K, j)}
    IN /\ Z \subseteq Settle(h, F, Z)
       /\ \A k \in DOMAIN programs[h] : Wrong(h, F, k) =>
            \/ programs[h][k].op = "rung" /\ LetsPass(h, K, k)
            \/ \E j \in J : j < k

ASSUME VerdictAssumption ==
    \A h \in Harnesses : \A F \in UpTo(MaxTrouble, probed[h]) : Judges(h, F)
=============================================================================
