----------------------------- MODULE RuleEngine -----------------------------
(***************************************************************************)
(* The rule engine of the extension: one call of Validator::validate(),    *)
(* from the creation of the result object to the assignment of is_valid.   *)
(* Every step of the loops of validate(), validate_field() and             *)
(* sf_execute_conditional() is a step here; a rule is executed in one      *)
(* step, because no rule function yields in the middle of its work.        *)
(*                                                                         *)
(* Rules are nodes of the trees the parser builds.  What a rule tests is   *)
(* abstracted to whether it accepts the value (input.passes), what a       *)
(* condition tests to whether it holds (input.holds), and a value to what  *)
(* the presence rules distinguish: absent, empty (null, false, "", []) or  *)
(* filled.  A guarded rule is any rule that starts with                    *)
(* "if (ctx->has_nullable && ctx->is_null_or_empty) return RULE_PASS":     *)
(* all of them except the four presence rules and the conditional.         *)
(*                                                                         *)
(* A program is the sequence of the validator's fields; each has its rules *)
(* and the concrete paths it is applied to (one for a plain field name,    *)
(* the expansion for a pattern with wildcards).                            *)
(***************************************************************************)
EXTENDS Integers, Sequences

CONSTANTS
    Rule,           \* the rule nodes
    Path,           \* the concrete dotted paths
    Kind,           \* what each rule is
    ThenRules,      \* the two branches of each conditional
    ElseRules,
    Level,          \* the nesting depth the parser met each conditional at
    Programs,       \* the rule sets a call may run with
    Inputs,         \* the data arrays it may be given with each
    MAX_RULE_PARSE_DEPTH,
    MAX_CONDITION_EVAL_DEPTH

Kinds == {"required", "nullable", "filled", "present", "guarded", "when"}

Children(r) == {ThenRules[r][i] : i \in DOMAIN ThenRules[r]}
                   \cup {ElseRules[r][i] : i \in DOMAIN ElseRules[r]}

\* parse_single_rule_with_depth rejects a rule deeper than the limit, so the
\* conditionals of a parsed tree carry consecutive depths up to the limit.
ParsedTree ==
    \A r \in Rule : Kind[r] = "when" =>
        /\ Level[r] \in 0 .. MAX_RULE_PARSE_DEPTH
        /\ Children(r) # {} => Level[r] < MAX_RULE_PARSE_DEPTH
        /\ \A c \in Children(r) : Kind[c] = "when" => Level[c] = Level[r] + 1

Values == {"missing", "empty", "filled"}

Input == [value  : [Path -> Values],
          passes : [Rule -> [Path -> BOOLEAN]],
          holds  : [Rule -> [Path -> BOOLEAN]]]

Field == [paths : Seq(Path), rules : Seq(Rule)]

ASSUME ConstantsAssumption ==
    /\ Kind \in [Rule -> Kinds]
    /\ ThenRules \in [Rule -> Seq(Rule)]
    /\ ElseRules \in [Rule -> Seq(Rule)]
    /\ Level \in [Rule -> Nat]
    /\ MAX_RULE_PARSE_DEPTH \in Nat
    /\ MAX_CONDITION_EVAL_DEPTH \in Nat
    /\ ParsedTree
    /\ \A p \in Programs :
          /\ p \in Seq(Field)
          /\ \A in \in Inputs[p] : in \in Input
          /\ \A f \in DOMAIN p : \A i \in DOMAIN p[f].rules :
                Kind[p[f].rules[i]] = "when" => Level[p[f].rules[i]] = 0

VARIABLES
    program,        \* intern->rules
    input,          \* the array passed to validate()
    fieldIdx,       \* position in the loop over intern->rules
    pathIdx,        \* position in the loop over the expanded paths
    pc,             \* the loop the call is in
    stack,          \* validate_field's loop below, the conditionals above it
    ret,            \* the result of the last rule or conditional
    hasNullable,    \* ctx.has_nullable
    errors,         \* result->errors: the failed rules of each path
    validated,      \* result->validated: its keys
    isValid         \* result->is_valid

call == <<program, input>>
position == <<fieldIdx, pathIdx>>
vars == <<program, input, fieldIdx, pathIdx, pc, stack, ret, hasNullable,
          errors, validated, isValid>>

-----------------------------------------------------------------------------
\* Mutant of Frame: the loop starts one rule too early.
FrameFromZero(list) == [rules |-> list, next |-> 0, result |-> "PASS"]

\* A frame is a loop over a rule list and what it remembers: branch_result
\* of sf_execute_conditional or has_error ("FAIL") of validate_field.
Frame(list) == [rules |-> list, next |-> 1, result |-> "PASS"]

\* Mutants of Advance: a loop that moves on after a failure only, and one that
\* remembers the last result instead of any failure.
AdvanceOnFailure(frame, r) ==
    [rules  |-> frame.rules,
     next   |-> IF r = "FAIL" THEN frame.next + 1 ELSE frame.next,
     result |-> IF r = "FAIL" THEN "FAIL" ELSE frame.result]
AdvanceWithLast(frame, r) ==
    [rules |-> frame.rules, next |-> frame.next + 1, result |-> r]

\* The loop after a rule returned r: it goes on whether or not the rule failed
\* (ctx.bail is never set).
Advance(frame, r) == [rules  |-> frame.rules,
                      next   |-> frame.next + 1,
                      result |-> IF r = "FAIL" THEN "FAIL" ELSE frame.result]

Top == stack[Len(stack)]
Below == [i \in 1 .. Len(stack) - 1 |-> stack[i]]
AtRule == Top.next \in DOMAIN Top.rules
CurrentRule == Top.rules[Top.next]
CurrentField == program[fieldIdx]
CurrentPath == CurrentField.paths[pathIdx]

\* Mutant of Depth: validate_field starts counting at 1.
DepthFromOne == Len(stack)

\* The depth argument of sf_execute_conditional: 0 when validate_field calls
\* it, one more for each conditional it is nested in.
Depth == Len(stack) - 1

NullOrEmpty(v) == v \in {"missing", "empty"}

\* Mutant of HasNullable: only the first rule is looked at.
NullableFirst(list) == \E i \in DOMAIN list : i = 1 /\ Kind[list[i]] = "nullable"

\* The scan for a nullable rule: the field's own rules, not those of branches.
HasNullable(list) == \E i \in DOMAIN list : Kind[list[i]] = "nullable"

Required(v) == IF NullOrEmpty(v) THEN "FAIL" ELSE "PASS"
Nullable(v) == IF NullOrEmpty(v) THEN "SKIP" ELSE "PASS"
Filled(v) == CASE v = "missing" -> "SKIP"
               [] v = "empty"   -> "FAIL"
               [] OTHER         -> "PASS"
Present(v) == IF v = "missing" THEN "FAIL" ELSE "PASS"

\* Mutant of Guarded: the early return of the rules is SKIP.
GuardedSkips(nullable, v, accepts) ==
    IF nullable /\ NullOrEmpty(v) THEN "SKIP"
    ELSE IF accepts THEN "PASS" ELSE "FAIL"

\* Any other rule: an empty value of a nullable field passes untested.
Guarded(nullable, v, accepts) ==
    IF (nullable /\ NullOrEmpty(v)) \/ accepts THEN "PASS" ELSE "FAIL"

\* sf_execute_rule for every rule but the conditional.
RuleResult(r, p, nullable) ==
    LET v == input.value[p] IN
    CASE Kind[r] = "required" -> Required(v)
      [] Kind[r] = "nullable" -> Nullable(v)
      [] Kind[r] = "filled"   -> Filled(v)
      [] Kind[r] = "present"  -> Present(v)
      [] OTHER                -> Guarded(nullable, v, input.passes[r][p])

\* sf_add_error: the entry goes to the end of the list of the path.
AddError(r) == [errors EXCEPT ![CurrentPath] = Append(@, r)]

Branch(r) == IF input.holds[r][CurrentPath] THEN ThenRules[r] ELSE ElseRules[r]

-----------------------------------------------------------------------------
Init ==
    /\ program \in Programs
    /\ input \in Inputs[program]
    /\ fieldIdx = 1
    /\ pathIdx = 1
    /\ pc = "fields"
    /\ stack = <<>>
    /\ ret = "PASS"
    /\ hasNullable = FALSE
    /\ errors = [p \in Path |-> <<>>]
    /\ validated = {}
    /\ isValid = TRUE

\* validate_field is entered for the next path of the current field.
EnterField ==
    /\ pc = "fields"
    /\ fieldIdx \in DOMAIN program
    /\ pathIdx \in DOMAIN CurrentField.paths
    /\ hasNullable' = HasNullable(CurrentField.rules)
    /\ stack' = <<Frame(CurrentField.rules)>>
    /\ pc' = "rules"
    /\ UNCHANGED <<call, position, ret, errors, validated, isValid>>

\* Mutant of NextField: the position among the paths is not reset.
NextFieldSamePath ==
    /\ pc = "fields"
    /\ fieldIdx \in DOMAIN program
    /\ pathIdx \notin DOMAIN CurrentField.paths
    /\ fieldIdx' = fieldIdx + 1
    /\ UNCHANGED <<call, pathIdx, pc, stack, ret, hasNullable, errors, validated,
                   isValid>>

\* The loop over intern->rules moves to the next field.
NextField ==
    /\ pc = "fields"
    /\ fieldIdx \in DOMAIN program
    /\ pathIdx \notin DOMAIN CurrentField.paths
    /\ fieldIdx' = fieldIdx + 1
    /\ pathIdx' = 1
    /\ UNCHANGED <<call, pc, stack, ret, hasNullable, errors, validated, isValid>>

\* The end of validate(): is_valid is decided from the errors.
Finish ==
    /\ pc = "fields"
    /\ fieldIdx \notin DOMAIN program
    /\ isValid' = (\A p \in Path : errors[p] = <<>>)
    /\ pc' = "done"
    /\ UNCHANGED <<call, position, stack, ret, hasNullable, errors, validated>>

\* One rule that is not a conditional.
ExecuteRule ==
    /\ pc = "rules"
    /\ AtRule
    /\ Kind[CurrentRule] # "when"
    /\ ret' = RuleResult(CurrentRule, CurrentPath, hasNullable)
    /\ errors' = IF ret' = "FAIL" THEN AddError(CurrentRule) ELSE errors
    /\ pc' = "deliver"
    /\ UNCHANGED <<call, position, stack, hasNullable, validated, isValid>>

\* sf_execute_conditional picks a branch and starts its loop.
EnterConditional ==
    /\ pc = "rules"
    /\ AtRule
    /\ Kind[CurrentRule] = "when"
    /\ Depth <= MAX_CONDITION_EVAL_DEPTH
    /\ stack' = Append(stack, Frame(Branch(CurrentRule)))
    /\ UNCHANGED <<call, position, pc, ret, hasNullable, errors, validated, isValid>>

\* sf_execute_conditional refuses to go deeper.
ConditionalTooDeep ==
    /\ pc = "rules"
    /\ AtRule
    /\ Kind[CurrentRule] = "when"
    /\ Depth > MAX_CONDITION_EVAL_DEPTH
    /\ errors' = AddError(CurrentRule)
    /\ ret' = "FAIL"
    /\ pc' = "deliver"
    /\ UNCHANGED <<call, position, stack, hasNullable, validated, isValid>>

\* The loop that executed a rule looks at a result other than SKIP.
TakeResult ==
    /\ pc = "deliver"
    /\ ret # "SKIP"
    /\ stack' = [stack EXCEPT ![Len(stack)] = Advance(@, ret)]
    /\ pc' = "rules"
    /\ UNCHANGED <<call, position, ret, hasNullable, errors, validated, isValid>>

\* A conditional has run its branch to the end and returns branch_result.
ReturnBranch ==
    /\ pc = "rules"
    /\ ~AtRule
    /\ Len(stack) > 1
    /\ ret' = Top.result
    /\ stack' = Below
    /\ pc' = "deliver"
    /\ UNCHANGED <<call, position, hasNullable, errors, validated, isValid>>

\* Mutant of PropagateSkip: any result but PASS counts as a failure.
PropagateSkipAsFailure ==
    /\ pc = "deliver"
    /\ ret = "SKIP"
    /\ Len(stack) > 1
    /\ stack' = Below
    /\ ret' = "FAIL"
    /\ UNCHANGED <<call, position, pc, hasNullable, errors, validated, isValid>>

\* A SKIP inside a branch makes the conditional return SKIP at once.
PropagateSkip ==
    /\ pc = "deliver"
    /\ ret = "SKIP"
    /\ Len(stack) > 1
    /\ stack' = Below
    /\ UNCHANGED <<call, position, pc, ret, hasNullable, errors, validated, isValid>>

\* validate_field leaves its loop: at the end of the list, or on a SKIP.
LeaveRules ==
    /\ Len(stack) = 1
    /\ \/ pc = "rules" /\ ~AtRule
       \/ pc = "deliver" /\ ret = "SKIP"
    /\ pc' = "store"
    /\ UNCHANGED <<call, position, stack, ret, hasNullable, errors, validated,
                   isValid>>

\* Mutant of StoreValidated: it asks whether the path has any error.
StoreUnlessInError ==
    /\ pc = "store"
    /\ validated' = IF errors[CurrentPath] = <<>> /\ input.value[CurrentPath] # "missing"
                    THEN validated \cup {CurrentPath}
                    ELSE validated
    /\ stack' = <<>>
    /\ pathIdx' = pathIdx + 1
    /\ pc' = "fields"
    /\ UNCHANGED <<call, fieldIdx, ret, hasNullable, errors, isValid>>

\* validate_field stores the value when nothing failed, then returns.
StoreValidated ==
    /\ pc = "store"
    /\ validated' = IF Top.result = "PASS" /\ input.value[CurrentPath] # "missing"
                    THEN validated \cup {CurrentPath}
                    ELSE validated
    /\ stack' = <<>>
    /\ pathIdx' = pathIdx + 1
    /\ pc' = "fields"
    /\ UNCHANGED <<call, fieldIdx, ret, hasNullable, errors, isValid>>

\* The call has returned.
Returned == pc = "done" /\ UNCHANGED vars

Step ==
    \/ EnterField \/ NextField \/ Finish
    \/ ExecuteRule \/ EnterConditional \/ ConditionalTooDeep
    \/ TakeResult \/ ReturnBranch \/ PropagateSkip
    \/ LeaveRules \/ StoreValidated

Next == Step \/ Returned

Spec == Init /\ [][Next]_vars

\* The call is plain sequential code: it is never descheduled for ever.
FairSpec == Spec /\ WF_vars(Step)

-----------------------------------------------------------------------------
Frames == [rules : Seq(Rule), next : Nat \ {0}, result : {"PASS", "FAIL"}]

\* The type invariant of the call's state.
TypeOK ==
    /\ program \in Programs
    /\ input \in Input
    /\ fieldIdx \in Nat \ {0}
    /\ pathIdx \in Nat \ {0}
    /\ pc \in {"fields", "rules", "deliver", "store", "done"}
    /\ stack \in Seq(Frames)
    /\ ret \in {"PASS", "FAIL", "SKIP"}
    /\ hasNullable \in BOOLEAN
    /\ errors \in [Path -> Seq(Rule)]
    /\ validated \in SUBSET Path
    /\ isValid \in BOOLEAN

\* The call is inside validate_field.
InField == pc \in {"rules", "deliver", "store"}

\* Where the loops stand, and when the stack is empty.
ControlOK ==
    /\ InField => /\ fieldIdx \in DOMAIN program
                  /\ pathIdx \in DOMAIN CurrentField.paths
                  /\ Len(stack) >= 1
    /\ pc = "store" => Len(stack) = 1
    /\ ~InField => stack = <<>>
    /\ pc = "done" => fieldIdx \notin DOMAIN program

\* A rule has failed in validate_field and is not forgotten.
FailurePending ==
    \/ \E i \in DOMAIN stack : stack[i].result = "FAIL"
    \/ pc = "deliver" /\ ret = "FAIL"

\* No failure without an error of the path.
FailureLeavesError == InField /\ FailurePending => errors[CurrentPath] # <<>>

\* validate_field has returned for path k of field f.
Earlier(f, k) == f < fieldIdx \/ (f = fieldIdx /\ k < pathIdx)

\* A path that was looked at and has a value is either validated or in error.
EarlierDecided ==
    \A f \in DOMAIN program : \A k \in DOMAIN program[f].paths :
        Earlier(f, k) /\ input.value[program[f].paths[k]] # "missing"
            => \/ program[f].paths[k] \in validated
               \/ errors[program[f].paths[k]] # <<>>

\* Nothing is validated that was not looked at, or that is absent.
ValidatedEarlier ==
    \A p \in validated :
        /\ input.value[p] # "missing"
        /\ \E f \in DOMAIN program : \E k \in DOMAIN program[f].paths :
              Earlier(f, k) /\ program[f].paths[k] = p

VerdictFromErrors == pc = "done" /\ isValid => \A p \in Path : errors[p] = <<>>

\* The loop at the bottom of the stack is validate_field's.
BottomLoop == InField => stack[1].rules = CurrentField.rules

\* The conditionals of a loop are as deep as the loop is.
LevelsFollowStack ==
    \A i \in DOMAIN stack : \A j \in DOMAIN stack[i].rules :
        Kind[stack[i].rules[j]] = "when" => Level[stack[i].rules[j]] = i - 1

\* The inductive strengthening of ValidMeansComplete and DepthsAgree:
\* at every step, what the loops have done so far is decided correctly.
CallInv ==
    /\ ControlOK
    /\ FailureLeavesError
    /\ EarlierDecided
    /\ ValidatedEarlier
    /\ VerdictFromErrors
    /\ BottomLoop
    /\ LevelsFollowStack

\* Every path validate() has to look at.
Scheduled == UNION {{program[f].paths[k] : k \in DOMAIN program[f].paths}
                       : f \in DOMAIN program}

\* A result that is valid leaves nothing out: validated() then holds every
\* path the rules were applied to that has a value in the data.  It needs
\* every FAIL, from any depth of conditionals, to leave an error behind.
ValidMeansComplete ==
    pc = "done" /\ isValid =>
        validated = {p \in Scheduled : input.value[p] # "missing"}

\* The rules whose whole tree has no rule that can return SKIP: the largest
\* set of such rules closed under taking the rules of the branches.
SkipFree == {r \in Rule : \E S \in SUBSET Rule :
    r \in S /\ \A s \in S : Kind[s] \notin {"nullable", "filled"} /\ Children(s) \subseteq S}

\* No path is scheduled twice: no two patterns expand to a common path.
NoOverlap == \A f, g \in DOMAIN program :
    \A i \in DOMAIN program[f].paths, j \in DOMAIN program[g].paths :
        program[f].paths[i] = program[g].paths[j] => f = g /\ i = j

\* No branch of a conditional can return SKIP.
SkipFreeBranches == \A f \in DOMAIN program : \A i \in DOMAIN program[f].rules :
    Kind[program[f].rules[i]] = "when" => Children(program[f].rules[i]) \subseteq SkipFree

\* validated() is the subset of the input that passed: a path with an error
\* is not in it.
FailureExcludesValidated == \A p \in validated : errors[p] = <<>>

\* What the code does guarantee of it: it holds, at every step of the call,
\* when no branch of a conditional can return SKIP and no path is scheduled
\* twice.  The run skip_loses_failure shows that the first condition cannot be
\* dropped; nor can the second, as has_error is local to validate_field.
LosslessResult == NoOverlap /\ SkipFreeBranches => FailureExcludesValidated

\* An error belongs to a path that is or was looked at.
ErrorsScheduled ==
    \A p \in Path : errors[p] # <<>> =>
        \E f \in DOMAIN program : \E k \in DOMAIN program[f].paths :
            /\ program[f].paths[k] = p
            /\ Earlier(f, k) \/ (InField /\ f = fieldIdx /\ k = pathIdx)

\* The inductive strengthening of LosslessResult: without a SKIP in a branch,
\* a skip is seen by validate_field's own loop alone, so no failure of the
\* current path is forgotten before it is stored.
BranchesSkipFree ==
    \A i \in DOMAIN stack : i > 1 =>
        \A j \in DOMAIN stack[i].rules : stack[i].rules[j] \in SkipFree

SkipOnlyInField == pc = "deliver" /\ ret = "SKIP" => Len(stack) = 1

ErrorRemembered == InField /\ errors[CurrentPath] # <<>> => FailurePending

LosslessInv ==
    NoOverlap /\ SkipFreeBranches =>
        /\ BranchesSkipFree
        /\ SkipOnlyInField
        /\ ErrorRemembered
        /\ ErrorsScheduled
        /\ FailureExcludesValidated

\* The evaluator counts the depth of a conditional as the parser did, wherever
\* the loops above it stand, so that the limits of the two can be compared.
DepthsAgree ==
    pc = "rules" /\ AtRule /\ Kind[CurrentRule] = "when" => Depth = Level[CurrentRule]

\* sf_execute_conditional never answers "validation.when.depth_exceeded" to a
\* rule set the parser accepted: a consequence of DepthsAgree if the limit of
\* the evaluation is no smaller than the one of the parser.
DepthNeverExceeded ==
    pc = "rules" /\ AtRule /\ Kind[CurrentRule] = "when"
        => Depth <= MAX_CONDITION_EVAL_DEPTH

\* Rule i of field f is a top-level "required" that no earlier rule can skip.
Enforced(f, i) ==
    /\ Kind[program[f].rules[i]] = "required"
    /\ \A j \in 1 .. i - 1 : program[f].rules[j] \in SkipFree

\* A top-level "required" that no earlier rule can skip is enforced: a valid
\* result is never given to data in which the path is missing or empty.
RequiredEnforced ==
    pc = "done" /\ isValid => \A f \in DOMAIN program :
        \A k \in DOMAIN program[f].paths, i \in DOMAIN program[f].rules :
            Enforced(f, i) => input.value[program[f].paths[k]] = "filled"

\* The inductive strengthening of RequiredEnforced: every loop above the first
\* runs a branch of the conditional that the loop below it stands at, a skip
\* comes from a rule whose tree can skip, and an enforced rule that has run has
\* seen a value or left an error.
LoopsLinked ==
    /\ pc = "deliver" => AtRule
    /\ \A i \in DOMAIN stack : i > 1 =>
          /\ stack[i - 1].next \in DOMAIN stack[i - 1].rules
          /\ Kind[stack[i - 1].rules[stack[i - 1].next]] = "when"
          /\ \A j \in DOMAIN stack[i].rules :
                stack[i].rules[j] \in Children(stack[i - 1].rules[stack[i - 1].next])

SkipFromSkipping == pc = "deliver" /\ ret = "SKIP" => CurrentRule \notin SkipFree

SeenOrError(p) == input.value[p] = "filled" \/ errors[p] # <<>>

\* Rule i of the current field has run on the current path.
HasRun(i) == \/ i < stack[1].next
             \/ i = stack[1].next /\ pc = "deliver" /\ Len(stack) = 1
             \/ pc = "store"

CurrentEnforced ==
    InField => \A i \in DOMAIN CurrentField.rules :
        Enforced(fieldIdx, i) /\ HasRun(i) => SeenOrError(CurrentPath)

EarlierEnforced ==
    \A f \in DOMAIN program : \A k \in DOMAIN program[f].paths :
        Earlier(f, k) => \A i \in DOMAIN program[f].rules :
            Enforced(f, i) => SeenOrError(program[f].paths[k])

EnforcedInv ==
    /\ LoopsLinked
    /\ SkipFromSkipping
    /\ CurrentEnforced
    /\ EarlierEnforced

\* Wherever "nullable" stands among the field's own rules, an empty value is
\* reported by the presence rules only.
ReportsFilled ==
    \A p \in Path : errors'[p] # errors[p] =>
        LET reported == errors'[p][Len(errors'[p])]
            nullable == \E i \in DOMAIN CurrentField.rules :
                            Kind[CurrentField.rules[i]] = "nullable"
        IN  Kind[reported] = "guarded" /\ nullable => input.value[p] = "filled"

NullableShields == [][ReportsFilled]_vars

\* What ctx.has_nullable says holds of the field until it is left.
NullableKnown == InField => hasNullable = HasNullable(CurrentField.rules)

\* validate() returns.
Terminates == <>(pc = "done")

=============================================================================
