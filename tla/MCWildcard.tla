----------------------------- MODULE MCWildcard -----------------------------
(***************************************************************************)
(* Small instances of Wildcard: every tree up to a depth over a few keys.  *)
(***************************************************************************)
EXTENDS Wildcard

CONSTANTS ka, kb, k0, kneg, kab, kaa, kempty, MCKey

MCSeg == {"*", "", "a*", "a", "b", "0", "18446744073709551615"}
MCSegSize == [s \in MCSeg |->
    CASE s = "" -> 0 [] s = "a*" -> 2 [] s = "18446744073709551615" -> 20 [] OTHER -> 1]

MCStarred == {"*", "a*"}

MCKeyOrder == SelectSeq(<<kaa, kab, ka, kb, k0, kneg, kempty>>, LAMBDA k : k \in MCKey)
MCText == [k \in MCKey |->
    CASE k = ka -> <<"a">> [] k = kb -> <<"b">> [] k = k0 -> <<"0">>
      [] k = kneg -> <<"18446744073709551615">>
      [] k = kab -> <<"a", "b">> [] k = kaa -> <<"a", "a">> [] k = kempty -> <<"">>]
MCKeySize == [k \in MCKey |->
    CASE k \in {k0, kneg} -> 21 [] k = kempty -> 0 [] k \in {kab, kaa} -> 3
      [] OTHER -> 1]

Only(f) == [s \in {t \in DOMAIN f : f[t] \in MCKey} |-> f[s]]
MCStringKey == Only([s \in {"a", "b", ""} |->
    CASE s = "a" -> ka [] s = "b" -> kb [] s = "" -> kempty])

\* strtol reads nothing of an empty segment and answers 0, which the comparison
\* of the end pointers takes for a number.
MCIndexKey == Only([s \in {"0", ""} |-> k0])

Scalar == [places |-> {<<>>}, arrays |-> {}]

\* The array whose keys are the domain of f, with the trees f gives them.
Graft(f) ==
    LET Under(part) == {<<>>} \cup UNION {{<<k>> \o loc : loc \in part[k]} : k \in DOMAIN f}
    IN  [places |-> Under([k \in DOMAIN f |-> f[k].places]),
         arrays |-> Under([k \in DOMAIN f |-> f[k].arrays])]

ArraysOver(keySets, subtrees) == {Graft(f) : f \in UNION {[S -> subtrees] : S \in keySets}}

\* A root array with the one key the patterns start at.
Rooted(key, trees) == {Graft([k \in {key} |-> t]) : t \in trees}

\* Every tree of a depth over a string and an integer key.
PlainArrays(subtrees) == ArraysOver(SUBSET {ka, k0}, subtrees)
Depth1 == PlainArrays({Scalar})
Depth2 == PlainArrays(Depth1 \cup {Scalar})
Depth3 == PlainArrays(Depth2 \cup {Scalar})

PlainTrees == Rooted(ka, Depth3 \cup {Scalar}) \cup Depth1

\* Arrays of at most two keys, a negative one alone, over more kinds of keys.
Pairs == {S \in SUBSET (MCKey \ {k0}) : Cardinality(S) <= 2 /\ (kneg \in S => S = {kneg})}
OddTrees ==
    LET Leaves == {Scalar, Graft([k \in {ka} |-> Scalar])}
        Flat == ArraysOver(Pairs, Leaves)
    IN  Rooted(ka, ArraysOver(Pairs, Flat \cup {Scalar}))

AllTrees == PlainTrees \cup OddTrees

AllPatterns == {<<"a", "*">>, <<"a", "*", "a">>, <<"a", "*", "*">>, <<"a", "0", "*">>,
                <<"a", "a", "*">>, <<"a", "*", "*", "*">>, <<"a", "*", "a", "*">>,
                <<"a", "*", "a", "0">>, <<"a", "0">>, <<"a", "a*">>, <<"b", "*", "*">>,
                <<"a", "*", "a", "*", "a">>}
ElementPatterns == {<<"a", "*", "b">>}
=============================================================================
