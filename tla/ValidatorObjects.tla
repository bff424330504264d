-------------------------- MODULE ValidatorObjects --------------------------
(***************************************************************************)
(* What validator objects promise: each has the rules it was last given,   *)
(* or none; nothing that happens to one object changes another; a clone,   *)
(* which takes a while to make, ends up with the rules of its original.    *)
(***************************************************************************)
CONSTANTS Obj, RuleSet, Unborn, Bare, Gone

VARIABLES
    holds,      \* the rules of each object
    copies      \* the clones being made, each with its original

vars == <<holds, copies>>

Init == holds = [o \in Obj |-> Unborn] /\ copies = {}

Alive(o) == holds[o] \in RuleSet \cup {Bare}

Become(o, r) == holds' = [holds EXCEPT ![o] = r]

\* An object comes into being without rules, or made with some.
Create(o) == /\ holds[o] = Unborn
             /\ \E r \in RuleSet \cup {Bare} : Become(o, r)
             /\ UNCHANGED copies

\* A construction drops the old rules before it sets new ones, if it does.
Drop(o) == Alive(o) /\ Become(o, Bare) /\ UNCHANGED copies
Set(o) == Alive(o) /\ (\E r \in RuleSet : Become(o, r)) /\ UNCHANGED copies

\* A clone begins without rules, and in the end gets those its original has at
\* that moment; it keeps its own if the original has none.
Clone(o, c) ==
    /\ Alive(o) /\ holds[c] = Unborn
    /\ Become(c, Bare)
    /\ copies' = copies \cup {<<o, c>>}

CloneEnds(o, c) ==
    /\ <<o, c>> \in copies
    /\ Become(c, IF holds[o] \in RuleSet THEN holds[o] ELSE holds[c])
    /\ copies' = copies \ {<<o, c>>}

\* Neither a clone in the making nor its original is freed.
Release(o) ==
    /\ Alive(o)
    /\ \A pair \in copies : o \notin {pair[1], pair[2]}
    /\ Become(o, Gone)
    /\ UNCHANGED copies

Next == \E o \in Obj : \/ Create(o) \/ Drop(o) \/ Set(o) \/ Release(o)
                       \/ \E c \in Obj : Clone(o, c) \/ CloneEnds(o, c)

Spec == Init /\ [][Next]_vars
=============================================================================
