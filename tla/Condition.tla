----------------------------- MODULE Condition -----------------------------
(***************************************************************************)
(* The condition of a conditional rule: sf_parse_condition builds a tree   *)
(* from the given array, sf_evaluate_condition walks it for one value and  *)
(* one data array.  Both recursions are stacks here, with their depths.    *)
(*                                                                         *)
(* A given condition is a node: compound with parts, simple, or malformed  *)
(* (no array, no name in front, or an unknown name starting with @).  A    *)
(* parsed one is a record that holds its parts.                            *)
(***************************************************************************)
EXTENDS Integers, SequencesExt

CONSTANTS
    Given,          \* the conditions that occur in the given arrays
    Form,           \* what each is
    Parts,          \* the elements of a compound one behind its name
    NoPart,         \* an element that is missing or no array, a reference included
    Subject, Op, Operand,   \* the three elements of a simple one
    Value,          \* PHP values
    Null,           \* the value null
    FieldName,      \* the names a condition may look up
    Compare,        \* PHP's comparison of two values
    Members,        \* the elements of an array value
    Empty,          \* the values sf_is_empty accepts
    LengthOf, TypeOf,       \* the values @length and @type stand for
    Matches,        \* whether a pattern compiles and matches a string
    Contexts,       \* the values and data a condition may be evaluated for
    Absent,         \* no value (NULL)
    MAX_CONDITION_PARSE_DEPTH, MAX_CONDITION_EVAL_DEPTH

Operators == {"eq", "neq", "gt", "gte", "lt", "lte", "in", "not_in", "filled",
              "empty", "matches"}

SelfSubjects == {"@length", "@value", "@type", "@empty", "@filled", "@matches"}

ASSUME ConditionAssumption ==
    /\ NoPart \notin Given
    /\ Form \in [Given -> {"and", "or", "simple", "malformed"}]
    /\ Parts \in [Given -> Seq(Given \cup {NoPart})]
    /\ Subject \in [Given -> SelfSubjects \cup FieldName]
    /\ Operand \in [Given -> Value]
    /\ Null \in Value
    /\ Compare \in [Value \X Value -> {-1, 0, 1}]
    /\ Members \in [Value -> SUBSET Value]
    /\ Empty \subseteq Value /\ Null \in Empty
    /\ LengthOf \in [Value \cup {Absent} -> Value]
    /\ TypeOf \in [Value \cup {Absent} -> Value]
    /\ Matches \in [Value \X Value -> BOOLEAN]
    /\ \A c \in Contexts : /\ c.value \in Value \cup {Absent}
                           /\ c.all \in [FieldName -> Value \cup {Absent}]
    /\ MAX_CONDITION_PARSE_DEPTH \in Nat
    /\ MAX_CONDITION_EVAL_DEPTH \in Nat

VARIABLES
    given,      \* the condition array of the rule
    context,    \* the value of the field and the data array
    pc,         \* what is being done
    call,       \* the condition the recursion is at
    stack,      \* the compound conditions it is in
    ret,        \* what the last call of the parser returned
    parsed,     \* the condition the rule owns
    holds       \* what the last call of the evaluation answered

task == <<given, context>>
vars == <<given, context, pc, call, stack, ret, parsed, holds>>

-----------------------------------------------------------------------------
\* Simple conditions.

IsEmpty(v) == v = Absent \/ v \in Empty

\* parse_operator: what it does not know is equality.
ParseOperator(op) == IF op \in Operators THEN op ELSE "eq"

\* The value a condition asks about; a field is one key of the data.
SubjectValue(g) ==
    IF      Subject[g] = "@length" THEN LengthOf[context.value]
    ELSE IF Subject[g] = "@value"  THEN context.value
    ELSE IF Subject[g] = "@type"   THEN TypeOf[context.value]
    ELSE context.all[Subject[g]]

\* Mutant of OfAbsent: nothing can be said of a field that is not there.
OfAbsentFalse(op, operand) == FALSE

\* The operators on a subject that is not there.
OfAbsent(op, operand) ==
    \/ op \in {"lte", "not_in", "empty"}
    \/ op \in {"eq", "gte"} /\ operand = Null
    \/ op \in {"neq", "lt"} /\ operand # Null

\* The operators on a value; "matches" holds of none.
OfValue(op, v, operand) ==
    \/ op = "eq"     /\ Compare[v, operand] = 0
    \/ op = "neq"    /\ Compare[v, operand] # 0
    \/ op = "gt"     /\ Compare[v, operand] > 0
    \/ op = "gte"    /\ Compare[v, operand] >= 0
    \/ op = "lt"     /\ Compare[v, operand] < 0
    \/ op = "lte"    /\ Compare[v, operand] <= 0
    \/ op = "in"     /\ \E m \in Members[operand] : Compare[v, m] = 0
    \/ op = "not_in" /\ \A m \in Members[operand] : Compare[v, m] # 0
    \/ op = "filled" /\ ~IsEmpty(v)
    \/ op = "empty"  /\ IsEmpty(v)

Apply(op, v, operand) ==
    IF v = Absent THEN OfAbsent(op, operand) ELSE OfValue(op, v, operand)

\* evaluate_simple_condition
Simple(g) ==
    IF      Subject[g] = "@empty"   THEN IsEmpty(context.value)
    ELSE IF Subject[g] = "@filled"  THEN ~IsEmpty(context.value)
    ELSE IF Subject[g] = "@matches"
         THEN context.value # Absent /\ Matches[Operand[g], context.value]
    ELSE Apply(ParseOperator(Op[g]), SubjectValue(g), Operand[g])

-----------------------------------------------------------------------------
Cond(g, subs) == [of |-> g, subs |-> subs]
NoCondition == Cond(NoPart, <<>>)       \* NULL
Kind(cond) == Form[cond.of]

Top == stack[Len(stack)]
Below == Front(stack)

\* The depth argument of both recursions: one more for each compound condition.
Depth == Len(stack)

\* A rule that is the text "when" has no condition and is executed without one.
Init ==
    /\ \/ given \in Given /\ pc = "parse"
       \/ given = NoCondition /\ pc = "evaluate"
    /\ context \in Contexts
    /\ call = given
    /\ stack = <<>>
    /\ ret = NoCondition
    /\ parsed = NoCondition
    /\ holds = FALSE

Returns(cond) == ret' = cond /\ pc' = "parsed"
Answers(answer) == holds' = answer /\ pc' = "evaluated"

\* Mutant of TooDeep: one level more is parsed.
TooDeepLate == Depth > MAX_CONDITION_PARSE_DEPTH + 1

TooDeep == Depth > MAX_CONDITION_PARSE_DEPTH

\* Too deep, or nothing a condition can be: NULL, with a warning or without.
RefuseCondition ==
    /\ pc = "parse"
    /\ TooDeep \/ Form[call] = "malformed"
    /\ Returns(NoCondition)
    /\ UNCHANGED <<task, call, stack, parsed, holds>>

Accepted == pc = "parse" /\ ~TooDeep

ParseSimple ==
    /\ Accepted
    /\ Form[call] = "simple"
    /\ Returns(Cond(call, <<>>))
    /\ UNCHANGED <<task, call, stack, parsed, holds>>

OpenCompound ==
    /\ Accepted
    /\ Form[call] \in {"and", "or"}
    /\ stack' = Append(stack, [of |-> call, next |-> 1, subs |-> <<>>])
    /\ pc' = "parts"
    /\ UNCHANGED <<task, call, ret, parsed, holds>>

ParsePart ==
    /\ pc = "parts"
    /\ Top.next \in DOMAIN Parts[Top.of]
    /\ Parts[Top.of][Top.next] # NoPart
    /\ call' = Parts[Top.of][Top.next]
    /\ pc' = "parse"
    /\ UNCHANGED <<task, stack, ret, parsed, holds>>

\* An element that is missing or no array is passed over.
SkipPart ==
    /\ pc = "parts"
    /\ Top.next \in DOMAIN Parts[Top.of]
    /\ Parts[Top.of][Top.next] = NoPart
    /\ stack' = Append(Below, [Top EXCEPT !.next = @ + 1])
    /\ UNCHANGED <<task, pc, call, ret, parsed, holds>>

\* A part that parsed is stored, one that did not is dropped.
StorePart ==
    /\ pc = "parsed"
    /\ stack # <<>>
    /\ stack' = Append(Below,
           [Top EXCEPT !.next = @ + 1,
                       !.subs = IF ret = NoCondition THEN @ ELSE Append(@, ret)])
    /\ pc' = "parts"
    /\ UNCHANGED <<task, call, ret, parsed, holds>>

CloseCompound ==
    /\ pc = "parts"
    /\ Top.next \notin DOMAIN Parts[Top.of]
    /\ ret' = Cond(Top.of, Top.subs)
    /\ stack' = Below
    /\ pc' = "parsed"
    /\ UNCHANGED <<task, call, parsed, holds>>

\* The rule owns the condition and is executed; without one it is refused.
Execute ==
    /\ pc = "parsed"
    /\ stack = <<>>
    /\ parsed' = ret
    /\ call' = ret
    /\ pc' = IF ret = NoCondition THEN "done" ELSE "evaluate"
    /\ UNCHANGED <<task, stack, ret, holds>>

-----------------------------------------------------------------------------
\* sf_evaluate_condition_with_depth.

EvaluateNothing ==
    /\ pc = "evaluate"
    /\ call = NoCondition
    /\ Answers(TRUE)
    /\ UNCHANGED <<task, call, stack, ret, parsed>>

EvaluateTooDeep ==
    /\ pc = "evaluate"
    /\ call # NoCondition
    /\ Depth > MAX_CONDITION_EVAL_DEPTH
    /\ Answers(FALSE)
    /\ UNCHANGED <<task, call, stack, ret, parsed>>

Entered == pc = "evaluate" /\ call # NoCondition /\ Depth <= MAX_CONDITION_EVAL_DEPTH

EvaluateSimple ==
    /\ Entered
    /\ Kind(call) = "simple"
    /\ Answers(Simple(call.of))
    /\ UNCHANGED <<task, call, stack, ret, parsed>>

EnterCompound ==
    /\ Entered
    /\ Kind(call) \in {"and", "or"}
    /\ stack' = Append(stack, [cond |-> call, next |-> 1])
    /\ pc' = "subs"
    /\ UNCHANGED <<task, call, ret, parsed, holds>>

\* Mutant of EvaluateSub: the loop does not go on.
EvaluateSubAgain ==
    /\ pc = "subs"
    /\ Top.next \in DOMAIN Top.cond.subs
    /\ call' = Top.cond.subs[Top.next]
    /\ pc' = "evaluate"
    /\ UNCHANGED <<task, stack, ret, parsed, holds>>

EvaluateSub ==
    /\ pc = "subs"
    /\ Top.next \in DOMAIN Top.cond.subs
    /\ call' = Top.cond.subs[Top.next]
    /\ stack' = Append(Below, [Top EXCEPT !.next = @ + 1])
    /\ pc' = "evaluate"
    /\ UNCHANGED <<task, ret, parsed, holds>>

\* Mutant of Decides: the two connectives are swapped.
DecidesSwapped(kind, answer) == answer = (kind = "and")

\* The answer of a part that ends the loop of its connective.
Decides(kind, answer) == answer = (kind = "or")

TakeSub ==
    /\ pc = "evaluated"
    /\ stack # <<>>
    /\ IF Decides(Kind(Top.cond), holds)
       THEN stack' = Below /\ UNCHANGED pc
       ELSE pc' = "subs" /\ UNCHANGED stack
    /\ UNCHANGED <<task, call, ret, parsed, holds>>

\* No part decided: an "and" holds, an "or" does not.
LeaveCompound ==
    /\ pc = "subs"
    /\ Top.next \notin DOMAIN Top.cond.subs
    /\ Answers(Kind(Top.cond) = "and")
    /\ stack' = Below
    /\ UNCHANGED <<task, call, ret, parsed>>

Answer ==
    /\ pc = "evaluated"
    /\ stack = <<>>
    /\ pc' = "done"
    /\ UNCHANGED <<task, call, stack, ret, parsed, holds>>

-----------------------------------------------------------------------------
Returned == pc = "done" /\ UNCHANGED vars

Step ==
    \/ RefuseCondition \/ ParseSimple \/ OpenCompound \/ ParsePart \/ SkipPart
    \/ StorePart \/ CloseCompound \/ Execute
    \/ EvaluateNothing \/ EvaluateTooDeep \/ EvaluateSimple \/ EnterCompound \/ EvaluateSub
    \/ TakeSub \/ LeaveCompound \/ Answer

Next == Step \/ Returned

Spec == Init /\ [][Next]_vars

\* Both recursions run to their end within one call.
FairSpec == Spec /\ WF_vars(Step)
-----------------------------------------------------------------------------
\* The type invariant; a parsed condition is built of accepted nodes.
TypeOK ==
    /\ given \in Given \cup {NoCondition} /\ context \in Contexts
    /\ pc \in {"parse", "parts", "parsed", "evaluate", "subs", "evaluated", "done"}
    /\ pc = "parse" => call \in Given
    /\ pc \in {"parts", "subs"} => stack # <<>>
    /\ pc \in {"parse", "parts", "parsed"} => \A k \in DOMAIN stack :
          /\ Form[stack[k].of] \in {"and", "or"}
          /\ Len(stack[k].subs) < stack[k].next
          /\ NoCondition \notin ToSet(stack[k].subs)
    /\ pc \in {"evaluate", "subs", "evaluated"} => \A k \in DOMAIN stack :
          stack[k].next \in 1 .. Len(stack[k].cond.subs) + 1
    /\ holds \in BOOLEAN

\* The parts of a compound condition that are conditions at all.
Sound(g) == {c \in ToSet(Parts[g]) : c # NoPart /\ Form[c] # "malformed"}

\* What a condition means, by the number of levels that may still be below it:
\* parts that are no condition, or too deep for the parser, count for nothing;
\* those too deep for the evaluation are false.
Meaning[n \in Nat] ==
    [g \in {c \in Given : Form[c] # "malformed"} |->
        /\ MAX_CONDITION_PARSE_DEPTH - n <= MAX_CONDITION_EVAL_DEPTH
        /\ \/ Form[g] = "simple" /\ Simple(g)
           \/ Form[g] = "and" /\ \A c \in Sound(g) : n > 0 => Meaning[n - 1][c]
           \/ Form[g] = "or"  /\ \E c \in Sound(g) : n > 0 /\ Meaning[n - 1][c]]

\* The two recursions with their short cuts answer what the condition means.
EvaluatesMeaning ==
    pc = "done" /\ parsed # NoCondition =>
        holds = Meaning[MAX_CONDITION_PARSE_DEPTH][given]

\* The conditions n levels below a parsed one.
Nested(cond) ==
    LET level[n \in Nat] ==
            IF n = 0 THEN {cond} ELSE UNION {ToSet(c.subs) : c \in level[n - 1]}
    IN  level

\* What the parser lets through is no deeper than its limit: with an evaluation
\* limit no smaller, no parsed condition is silently false for its depth.
ParsedFits ==
    parsed # NoCondition => Nested(parsed)[MAX_CONDITION_PARSE_DEPTH + 1] = {}

\* Each comparison and its opposite: exactly one of them holds, of a value and
\* of a missing one; and at least is greater or equal.
Opposites == {<<"eq", "neq">>, <<"gt", "lte">>, <<"gte", "lt">>, <<"in", "not_in">>,
              <<"empty", "filled">>}

OperatorsCoherent ==
    \A g \in Given : Form[g] = "simple" /\ Subject[g] \notin {"@empty", "@filled", "@matches"} =>
        LET Is(op) == Apply(op, SubjectValue(g), Operand[g]) IN
        /\ \A pair \in Opposites : Is(pair[1]) = ~Is(pair[2])
        /\ Is("gte") = (Is("gt") \/ Is("eq"))

\* "All conditions must be true" (README.md).  The run and_drops_part shows
\* that a part the parser does not understand is not asked for.
TrueOf(g) == g # NoPart /\ Form[g] # "malformed" /\ (Form[g] = "simple" => Simple(g))
AndMeansAll ==
    pc = "done" /\ parsed # NoCondition /\ holds /\ Form[given] = "and" =>
        \A c \in ToSet(Parts[given]) : TrueOf(c)

\* Parse and evaluation end.
Terminates == <>(pc = "done")
=============================================================================
