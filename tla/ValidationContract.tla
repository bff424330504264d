------------------------ MODULE ValidationContract ------------------------
(***************************************************************************)
(* What one call of Validator::validate() promises, with nothing said of   *)
(* how: the answer is a function of the rules and the data, given once.    *)
(* A list of rules is read as a whole.  It is in force up to its first     *)
(* rule that skips; the errors are those of the rules in force, in their   *)
(* order; a conditional stands for the list of the branch it takes.        *)
(***************************************************************************)
EXTENDS Integers, SequencesExt

CONSTANTS Path, Kind, ThenRules, ElseRules, MaxDepth, NoResult

VARIABLES program, input, result

\* What a rule other than a conditional says of a value.
Fails(r, p, nullable) ==
    \/ Kind[r] = "required" /\ input.value[p] # "filled"
    \/ Kind[r] = "filled"   /\ input.value[p] = "empty"
    \/ Kind[r] = "present"  /\ input.value[p] = "missing"
    \/ /\ Kind[r] = "guarded"
       /\ ~input.passes[r][p]
       /\ nullable => input.value[p] = "filled"

Skips(r, p) ==
    \/ Kind[r] = "nullable" /\ input.value[p] # "filled"
    \/ Kind[r] = "filled"   /\ input.value[p] = "missing"

Earliest(S) == CHOOSE i \in S : \A j \in S : i <= j

RECURSIVE ListOutcome(_, _, _, _)

\* Errors of a rule, whether it stops the list it is in, whether it fails.
RuleOutcome(r, p, nullable, depth) ==
    IF Kind[r] # "when"
    THEN [errors |-> IF Fails(r, p, nullable) THEN <<r>> ELSE <<>>,
          skips  |-> Skips(r, p),
          fails  |-> Fails(r, p, nullable)]
    ELSE IF depth > MaxDepth
    THEN [errors |-> <<r>>, skips |-> FALSE, fails |-> TRUE]
    ELSE LET branch == IF input.holds[r][p] THEN ThenRules[r] ELSE ElseRules[r]
             outcome == ListOutcome(branch, p, nullable, depth + 1)
         IN  [outcome EXCEPT !.fails = @ /\ ~outcome.skips]

ListOutcome(list, p, nullable, depth) ==
    LET each == [i \in DOMAIN list |-> RuleOutcome(list[i], p, nullable, depth)]
        skipping == {i \in DOMAIN list : each[i].skips}
        inForce == IF skipping = {} THEN Len(list) ELSE Earliest(skipping)
    IN  [errors |-> FlattenSeq([i \in 1 .. inForce |-> each[i].errors]),
         skips  |-> skipping # {},
         fails  |-> \E i \in 1 .. inForce : each[i].fails]

FieldOutcome(f, p) ==
    LET list == program[f].rules
    IN  ListOutcome(list, p, \E i \in DOMAIN list : Kind[list[i]] = "nullable", 0)

\* The errors of a path: those each field it is a path of gives it, in order.
PathErrors(p) ==
    FlattenSeq([f \in DOMAIN program |->
        FlattenSeq([k \in DOMAIN program[f].paths |->
            IF program[f].paths[k] = p THEN FieldOutcome(f, p).errors ELSE <<>>])])

\* A path is validated when some field it is a path of does not fail it.
Accepted(p) ==
    /\ input.value[p] # "missing"
    /\ \E f \in DOMAIN program :
          p \in ToSet(program[f].paths) /\ ~FieldOutcome(f, p).fails

Answer ==
    [errors    |-> [p \in Path |-> PathErrors(p)],
     validated |-> {p \in Path : Accepted(p)},
     isValid   |-> \A p \in Path : PathErrors(p) = <<>>]

Init == result = NoResult

Return ==
    /\ result = NoResult
    /\ result' = Answer
    /\ UNCHANGED <<program, input>>

Next == Return

Spec == Init /\ [][Next]_<<program, input, result>>
=============================================================================
