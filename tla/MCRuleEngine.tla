---------------------------- MODULE MCRuleEngine ----------------------------
(***************************************************************************)
(* A small instance of RuleEngine: lists of rules for one path, and lists  *)
(* for two fields whose paths are apart or shared.                         *)
(***************************************************************************)
EXTENDS RuleEngine, FiniteSetsExt, SequencesExt

CONSTANTS p, q, req, nul, fil, pre, g, h, w0, w1, s0, s1, s2, NoResult

MCRule == {req, nul, fil, pre, g, h, w0, w1, s0, s1, s2}

MCKind == [r \in MCRule |->
    CASE r = req -> "required" [] r = nul -> "nullable" [] r = fil -> "filled"
      [] r = pre -> "present"  [] r \in {g, h} -> "guarded" [] OTHER -> "when"]

MCLevel == [r \in MCRule |-> CASE r \in {w1, s1} -> 1 [] r = s2 -> 2 [] OTHER -> 0]

\* w0 may stand in a field's list, and w1 is nested in it: rules that can skip
\* stand behind rules that can fail.  Nothing in s0, or s1 nested in it, can
\* skip, and s2 nested in s1 is too deep for the evaluation.
MCThen == [r \in MCRule |->
    CASE r = w0 -> <<h, w1, g>> [] r = w1 -> <<g, nul, h>>
      [] r = s0 -> <<s1, h>>    [] r = s1 -> <<g, s2, pre>> [] OTHER -> <<>>]
MCElse == [r \in MCRule |->
    CASE r = w0 -> <<fil, pre>> [] r = s0 -> <<req>> [] OTHER -> <<>>]

Lists(alphabet, n) == UNION {[1 .. k -> alphabet] : k \in 0 .. n}

OneField(alphabet, n) ==
    {<<[paths |-> <<p>>, rules |-> list]>> : list \in Lists(alphabet, n)}

TwoFields(alphabet, pathLists) ==
    {<<[paths |-> s, rules |-> a], [paths |-> t, rules |-> b]>> :
        s \in pathLists, t \in pathLists,
        a \in Lists(alphabet, 1), b \in Lists(alphabet, 1)}

\* One field with one path and every list of up to three rules, one with two
\* paths, and two fields that may share their paths.  A field is a pattern when
\* it has more or fewer paths than one.
MCPrograms ==
    OneField({req, nul, fil, g, w0}, 3)
        \cup OneField({g, nul, s0}, 2)
        \cup {<<[paths |-> <<p, q>>, rules |-> list]>> : list \in Lists({nul, g, s0}, 2)}
        \cup TwoFields({nul, g, s0}, {<<>>, <<p>>, <<q>>, <<p, q>>})

\* One rule that can fail and a conditional with a rule that skips behind one
\* that fails.
SkipPrograms == OneField({g, w0}, 2)

\* The rules a list leads to, in any branch.
Reached(list) == LET Once(S) == S \cup UNION {Children(r) : r \in S}
                 IN  Once(Once(Once(ToSet(list))))

\* Every input that a program can tell from another, where h accepts and s1 is
\* true of everything; a second path or field makes do with fewer.
InputsFor(pr) ==
    LET used == UNION {Reached(pr[f].rules) : f \in DOMAIN pr}
        looked == UNION {ToSet(pr[f].paths) : f \in DOMAIN pr}
        values == IF Len(pr) = 1 THEN Values ELSE {"empty", "filled"}
        varied == used \cap (IF looked = {p} THEN {g, h} ELSE {g})
        asked == used \cap {w0, w1, s0}
    IN  {[value  |-> [x \in Path |-> IF x \in looked THEN v[x] ELSE "missing"],
          passes |-> [r \in Rule |-> [x \in Path |->
                         r \in varied /\ x \in looked => a[r][x]]],
          holds  |-> [r \in Rule |-> [x \in Path |->
                         r \in asked /\ x \in looked => c[r][x]]]] :
            v \in [looked -> values],
            a \in [varied -> [looked -> BOOLEAN]],
            c \in [asked -> [looked -> BOOLEAN]]}

MCInputs == [pr \in Programs |-> InputsFor(pr)]

\* The answer of the call, once it has returned.
result == IF pc = "done"
          THEN [errors |-> errors, validated |-> validated, isValid |-> isValid]
          ELSE NoResult

Contract == INSTANCE ValidationContract WITH MaxDepth <- MAX_CONDITION_EVAL_DEPTH

\* validate() implements its contract: the only change a caller can see is
\* the answer, and the answer is the contract's function of rules and data.
ImplementsContract == Contract!Spec
=============================================================================
