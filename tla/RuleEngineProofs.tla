-------------------------- MODULE RuleEngineProofs --------------------------
(***************************************************************************)
(* Theorems about RuleEngine, for every rule set the parser can accept,    *)
(* every data array and every limit: no failure is lost, a valid result is *)
(* complete, conditionals are evaluated as deep as they were parsed,       *)
(* "nullable" shields the other rules of its field from an empty value,    *)
(* and "required" is enforced unless a rule before it can skip.            *)
(***************************************************************************)
EXTENDS RuleEngine, SequenceTheorems, TLAPS

-----------------------------------------------------------------------------
(* Operations on the stack of loops. *)

LEMMA FrameType ==
    ASSUME NEW list \in Seq(Rule)
    PROVE  Frame(list) \in Frames
BY DEF Frame, Frames

LEMMA PushType ==
    ASSUME NEW s \in Seq(Frames), NEW f \in Frames
    PROVE  /\ Append(s, f) \in Seq(Frames)
           /\ Len(Append(s, f)) = Len(s) + 1
           /\ \A i \in 1 .. Len(s) : Append(s, f)[i] = s[i]
           /\ Append(s, f)[Len(s) + 1] = f
OBVIOUS

LEMMA PopType ==
    ASSUME NEW s \in Seq(Frames), Len(s) >= 1
    PROVE  /\ [i \in 1 .. Len(s) - 1 |-> s[i]] \in Seq(Frames)
           /\ Len([i \in 1 .. Len(s) - 1 |-> s[i]]) = Len(s) - 1
           /\ \A j \in 1 .. Len(s) - 1 : [i \in 1 .. Len(s) - 1 |-> s[i]][j] = s[j]
OBVIOUS

LEMMA AdvanceType ==
    ASSUME NEW f \in Frames, NEW r
    PROVE  /\ Advance(f, r) \in Frames
           /\ Advance(f, r).rules = f.rules
           /\ Advance(f, r).result = IF r = "FAIL" THEN "FAIL" ELSE f.result
BY DEF Advance, Frames

\* The loop that takes a result changes only itself.
LEMMA ReplaceTopType ==
    ASSUME NEW s \in Seq(Frames), Len(s) >= 1, NEW f \in Frames
    PROVE  /\ [s EXCEPT ![Len(s)] = f] \in Seq(Frames)
           /\ Len([s EXCEPT ![Len(s)] = f]) = Len(s)
           /\ \A i \in 1 .. Len(s) - 1 : [s EXCEPT ![Len(s)] = f][i] = s[i]
           /\ [s EXCEPT ![Len(s)] = f][Len(s)] = f
OBVIOUS

-----------------------------------------------------------------------------
(* Type correctness. *)

LEMMA ProgramType ==
    ASSUME TypeOK
    PROVE  /\ program \in Seq(Field)
           /\ input \in Input
           /\ \A f \in DOMAIN program :
                 /\ program[f].paths \in Seq(Path)
                 /\ program[f].rules \in Seq(Rule)
                 /\ \A k \in DOMAIN program[f].paths : program[f].paths[k] \in Path
<1>1. program \in Seq(Field) /\ input \in Input
  BY ConstantsAssumption DEF TypeOK
<1>2. \A f \in DOMAIN program : program[f] \in Field
  BY <1>1
<1>3. QED
  BY <1>1, <1>2 DEF Field

LEMMA TopFrameType ==
    ASSUME TypeOK, Len(stack) >= 1
    PROVE  /\ Top \in Frames
           /\ Top = stack[Len(stack)]
           /\ Len(stack) \in DOMAIN stack
           /\ AtRule => CurrentRule \in Rule
<1>1. Top \in Frames /\ Len(stack) \in DOMAIN stack
  BY DEF TypeOK, Top
<1>2. AtRule => CurrentRule \in Rule
  BY <1>1 DEF AtRule, CurrentRule, Frames
<1>3. QED
  BY <1>1, <1>2 DEF Top

LEMMA BranchType ==
    ASSUME TypeOK, NEW r \in Rule
    PROVE  /\ Branch(r) \in Seq(Rule)
           /\ \A j \in DOMAIN Branch(r) : Branch(r)[j] \in Children(r)
<1>1. ThenRules[r] \in Seq(Rule) /\ ElseRules[r] \in Seq(Rule)
  BY ConstantsAssumption
<1>2. Branch(r) = ThenRules[r] \/ Branch(r) = ElseRules[r]
  BY DEF Branch
<1>3. QED
  BY <1>1, <1>2 DEF Children

LEMMA RuleResultType ==
    ASSUME NEW r, NEW p, NEW n
    PROVE  RuleResult(r, p, n) \in {"PASS", "FAIL", "SKIP"}
BY DEF RuleResult, Required, Nullable, Filled, Present, Guarded

LEMMA AddErrorType ==
    ASSUME NEW p \in Path, NEW r \in Rule, errors \in [Path -> Seq(Rule)]
    PROVE  LET e == [errors EXCEPT ![p] = Append(@, r)] IN
           /\ e \in [Path -> Seq(Rule)]
           /\ e[p] # <<>>
           /\ \A q \in Path : q # p => e[q] = errors[q]
OBVIOUS

\* A frame pushed by validate_field or by a conditional.
LEMMA EntryFrame ==
    ASSUME NEW list \in Seq(Rule)
    PROVE  /\ <<Frame(list)>> \in Seq(Frames)
           /\ Len(<<Frame(list)>>) = 1
           /\ <<Frame(list)>>[1] = Frame(list)
BY FrameType

LEMMA TypeStep == TypeOK /\ ControlOK /\ [Next]_vars => (TypeOK /\ ControlOK)'
<1> SUFFICES ASSUME TypeOK, ControlOK, [Next]_vars
             PROVE  (TypeOK /\ ControlOK)'
  OBVIOUS
<1> USE DEF InField, ControlOK, call, position
<1>1. CASE EnterField
  <2>1. CurrentField.rules \in Seq(Rule)
    BY <1>1, ProgramType DEF EnterField, CurrentField
  <2>2. stack' \in Seq(Frames) /\ Len(stack') = 1
    BY <1>1, <2>1, EntryFrame DEF EnterField
  <2>3. hasNullable' \in BOOLEAN
    BY <1>1 DEF EnterField, HasNullable
  <2>4. QED
    BY <1>1, <2>2, <2>3 DEF EnterField, TypeOK, CurrentField
<1>2. CASE NextField
  BY <1>2 DEF NextField, TypeOK
<1>3. CASE Finish
  <2>1. isValid' \in BOOLEAN
    BY <1>3 DEF Finish
  <2>2. QED
    BY <1>3, <2>1 DEF Finish, TypeOK
<1>4. CASE ExecuteRule
  <2>1. CurrentRule \in Rule /\ CurrentPath \in Path
    BY <1>4, TopFrameType, ProgramType
       DEF ExecuteRule, CurrentPath, CurrentField
  <2>2. ret' \in {"PASS", "FAIL", "SKIP"}
    BY <1>4, RuleResultType DEF ExecuteRule
  <2>3. errors' \in [Path -> Seq(Rule)]
    BY <1>4, <2>1, AddErrorType DEF ExecuteRule, AddError, TypeOK
  <2>4. QED
    BY <1>4, <2>2, <2>3 DEF ExecuteRule, TypeOK, CurrentField
<1>5. CASE EnterConditional
  <2>1. Frame(Branch(CurrentRule)) \in Frames
    BY <1>5, TopFrameType, BranchType, FrameType DEF EnterConditional
  <2>2. stack' \in Seq(Frames) /\ Len(stack') = Len(stack) + 1
    BY <1>5, <2>1, PushType DEF EnterConditional, TypeOK
  <2>3. QED
    BY <1>5, <2>2 DEF EnterConditional, TypeOK, CurrentField
<1>6. CASE ConditionalTooDeep
  <2>1. CurrentRule \in Rule /\ CurrentPath \in Path
    BY <1>6, TopFrameType, ProgramType
       DEF ConditionalTooDeep, CurrentPath, CurrentField
  <2>2. errors' \in [Path -> Seq(Rule)]
    BY <1>6, <2>1, AddErrorType DEF ConditionalTooDeep, AddError, TypeOK
  <2>3. QED
    BY <1>6, <2>2 DEF ConditionalTooDeep, TypeOK, CurrentField
<1>7. CASE TakeResult
  <2>1. Advance(Top, ret) \in Frames
    BY <1>7, TopFrameType, AdvanceType DEF TakeResult
  <2>2. stack' \in Seq(Frames) /\ Len(stack') = Len(stack)
    BY <1>7, <2>1, ReplaceTopType DEF TakeResult, TypeOK, Top
  <2>3. QED
    BY <1>7, <2>2 DEF TakeResult, TypeOK, CurrentField
<1>8. CASE ReturnBranch
  <2>1. stack' \in Seq(Frames) /\ Len(stack') = Len(stack) - 1
    BY <1>8, PopType DEF ReturnBranch, Below, TypeOK
  <2>2. ret' \in {"PASS", "FAIL", "SKIP"}
    BY <1>8, TopFrameType DEF ReturnBranch, Frames
  <2>3. QED
    BY <1>8, <2>1, <2>2 DEF ReturnBranch, TypeOK, CurrentField
<1>9. CASE PropagateSkip
  <2>1. stack' \in Seq(Frames) /\ Len(stack') = Len(stack) - 1
    BY <1>9, PopType DEF PropagateSkip, Below, TypeOK
  <2>2. QED
    BY <1>9, <2>1 DEF PropagateSkip, TypeOK, CurrentField
<1>10. CASE LeaveRules
  BY <1>10 DEF LeaveRules, TypeOK, CurrentField
<1>11. CASE StoreValidated
  <2>1. CurrentPath \in Path
    BY <1>11, ProgramType DEF StoreValidated, CurrentPath, CurrentField
  <2>2. QED
    BY <1>11, <2>1 DEF StoreValidated, TypeOK, CurrentField
<1>12. CASE UNCHANGED vars
  BY <1>12 DEF vars, TypeOK, CurrentField
<1>13. QED
  BY <1>1, <1>2, <1>3, <1>4, <1>5, <1>6, <1>7, <1>8, <1>9, <1>10, <1>11, <1>12
     DEF Next, Step, Returned

LEMMA InitType == Init => TypeOK /\ ControlOK
<1>1. <<>> \in Seq(Frames) /\ <<>> \in Seq(Rule)
  OBVIOUS
<1>2. Init => errors \in [Path -> Seq(Rule)] /\ stack \in Seq(Frames)
  BY <1>1 DEF Init
<1>3. Init => hasNullable \in BOOLEAN /\ isValid \in BOOLEAN
  BY DEF Init
<1>4. Init => program \in Programs /\ input \in Input
  BY ConstantsAssumption DEF Init
<1>5. QED
  BY <1>2, <1>3, <1>4 DEF Init, TypeOK, ControlOK, InField

\* The state of a call is always of its type, and its loops are where the
\* control says: inside validate_field there is a current field, a current
\* path and at least one loop; elsewhere the stack is empty.
THEOREM TypeCorrect == Spec => [](TypeOK /\ ControlOK)
BY InitType, TypeStep, PTL DEF Spec

-----------------------------------------------------------------------------
(* What each step does to the stack, the errors and the position; the      *)
(* invariants below are proved from these facts alone.                     *)

LEMMA EnterFieldStack ==
    ASSUME TypeOK, ControlOK, EnterField
    PROVE  /\ Len(stack') = 1
           /\ stack'[1].rules = CurrentField.rules
           /\ stack'[1].result = "PASS"
           /\ DOMAIN stack' = {1}
<1>1. CurrentField.rules \in Seq(Rule)
  BY ProgramType DEF EnterField, CurrentField
<1>2. stack' = <<Frame(CurrentField.rules)>>
  BY DEF EnterField
<1>3. QED
  BY <1>1, <1>2, EntryFrame DEF Frame

LEMMA PushStack ==
    ASSUME TypeOK, ControlOK, EnterConditional
    PROVE  /\ Len(stack) >= 1
           /\ DOMAIN stack = 1 .. Len(stack)
           /\ DOMAIN stack' = 1 .. Len(stack) + 1
           /\ \A i \in DOMAIN stack : stack'[i] = stack[i]
           /\ stack'[Len(stack) + 1].rules = Branch(CurrentRule)
           /\ stack'[Len(stack) + 1].result = "PASS"
           /\ CurrentRule \in Rule
           /\ AtRule
           /\ Branch(CurrentRule) \in Seq(Rule)
           /\ \A j \in DOMAIN Branch(CurrentRule) :
                 Branch(CurrentRule)[j] \in Children(CurrentRule)
<1>1. Len(stack) >= 1 /\ AtRule /\ CurrentRule \in Rule
  BY TopFrameType DEF EnterConditional, ControlOK, InField
<1>2. /\ Branch(CurrentRule) \in Seq(Rule)
      /\ \A j \in DOMAIN Branch(CurrentRule) :
            Branch(CurrentRule)[j] \in Children(CurrentRule)
  BY <1>1, BranchType
<1>3. Frame(Branch(CurrentRule)) \in Frames
  BY <1>2, FrameType
<1>4. stack' = Append(stack, Frame(Branch(CurrentRule)))
  BY DEF EnterConditional
<1>5. stack \in Seq(Frames) /\ stack' \in Seq(Frames)
  BY <1>3, <1>4, PushType DEF TypeOK
<1>6. QED
  BY <1>1, <1>2, <1>3, <1>4, <1>5, PushType DEF Frame

LEMMA TakeStack ==
    ASSUME TypeOK, ControlOK, TakeResult
    PROVE  /\ Len(stack) >= 1
           /\ DOMAIN stack = 1 .. Len(stack)
           /\ DOMAIN stack' = DOMAIN stack
           /\ \A i \in DOMAIN stack : stack'[i].rules = stack[i].rules
           /\ \A i \in DOMAIN stack : i # Len(stack) => stack'[i] = stack[i]
           /\ stack'[Len(stack)].result
                 = IF ret = "FAIL" THEN "FAIL" ELSE stack[Len(stack)].result
<1>1. Len(stack) >= 1 /\ Top \in Frames /\ Top = stack[Len(stack)]
  BY TopFrameType DEF TakeResult, ControlOK, InField
<1>2. /\ Advance(Top, ret) \in Frames
      /\ Advance(Top, ret).rules = Top.rules
      /\ Advance(Top, ret).result = IF ret = "FAIL" THEN "FAIL" ELSE Top.result
  BY <1>1, AdvanceType
<1>3. stack' = [stack EXCEPT ![Len(stack)] = Advance(Top, ret)]
  BY <1>1 DEF TakeResult
<1>4. stack \in Seq(Frames)
  BY DEF TypeOK
<1>5. QED
  BY <1>1, <1>2, <1>3, <1>4

LEMMA PopStack ==
    ASSUME TypeOK, ControlOK, ReturnBranch \/ PropagateSkip
    PROVE  /\ Len(stack) > 1
           /\ DOMAIN stack = 1 .. Len(stack)
           /\ DOMAIN stack' = 1 .. Len(stack) - 1
           /\ \A i \in DOMAIN stack' : stack'[i] = stack[i]
<1>1. Len(stack) > 1 /\ stack' = Below /\ stack \in Seq(Frames)
  BY DEF ReturnBranch, PropagateSkip, TypeOK
<1>2. QED
  BY <1>1 DEF Below

LEMMA ErrorStep ==
    ASSUME TypeOK, ControlOK, ExecuteRule \/ ConditionalTooDeep
    PROVE  /\ CurrentPath \in Path
           /\ ret' = "FAIL" => errors'[CurrentPath] # <<>>
           /\ ret' # "FAIL" => errors' = errors
           /\ \A q \in Path : q # CurrentPath => errors'[q] = errors[q]
           /\ \A q \in Path : errors[q] # <<>> => errors'[q] # <<>>
<1>1. CurrentRule \in Rule /\ CurrentPath \in Path
  BY TopFrameType, ProgramType
     DEF ExecuteRule, ConditionalTooDeep, CurrentPath, CurrentField, ControlOK, InField
<1>2. (errors' = errors /\ ret' # "FAIL") \/ errors' = AddError(CurrentRule)
  BY DEF ExecuteRule, ConditionalTooDeep
<1>3. errors' = AddError(CurrentRule) => ret' = "FAIL" \/ errors' = errors
  BY DEF ExecuteRule, ConditionalTooDeep
<1>4. QED
  BY <1>1, <1>2, <1>3, AddErrorType DEF AddError, TypeOK

-----------------------------------------------------------------------------
(* A valid result is complete. *)

LEMMA LevelsStep ==
    ASSUME TypeOK, ControlOK, LevelsFollowStack, [Next]_vars
    PROVE  LevelsFollowStack'
<1> USE DEF LevelsFollowStack
<1>1. CASE EnterField
  <2>1. \A j \in DOMAIN CurrentField.rules :
            Kind[CurrentField.rules[j]] = "when" => Level[CurrentField.rules[j]] = 0
    BY <1>1, ConstantsAssumption DEF EnterField, CurrentField, TypeOK
  <2>2. QED
    BY <1>1, <2>1, EnterFieldStack
<1>2. CASE EnterConditional
  <2>1. stack[Len(stack)].rules[Top.next] = CurrentRule
           /\ Top.next \in DOMAIN stack[Len(stack)].rules
    BY <1>2, PushStack DEF AtRule, CurrentRule, Top
  <2>2. Kind[CurrentRule] = "when" /\ Level[CurrentRule] = Len(stack) - 1
    BY <1>2, <2>1, PushStack DEF EnterConditional
  <2>3. \A c \in Children(CurrentRule) : Kind[c] = "when" => Level[c] = Len(stack)
    BY <1>2, <2>2, PushStack, ConstantsAssumption DEF ParsedTree, TypeOK
  <2> DEFINE top == Len(stack) + 1
  <2>4. \A j \in DOMAIN stack'[top].rules :
            Kind[stack'[top].rules[j]] = "when" => Level[stack'[top].rules[j]] = top - 1
    BY <1>2, <2>3, PushStack DEF TypeOK
  <2>5. \A i \in DOMAIN stack' : i \in DOMAIN stack \/ i = top
    BY <1>2, PushStack DEF TypeOK
  <2>6. QED
    BY <1>2, <2>4, <2>5, PushStack
<1>3. CASE TakeResult
  BY <1>3, TakeStack
<1>4. CASE ReturnBranch \/ PropagateSkip
  BY <1>4, PopStack
<1>5. CASE StoreValidated
  BY <1>5 DEF StoreValidated
<1>6. CASE NextField \/ Finish \/ ExecuteRule \/ ConditionalTooDeep \/ LeaveRules
              \/ UNCHANGED vars
  BY <1>6 DEF NextField, Finish, ExecuteRule, ConditionalTooDeep, LeaveRules, vars
<1>7. QED
  BY <1>1, <1>2, <1>3, <1>4, <1>5, <1>6 DEF Next, Step, Returned

LEMMA BottomStep ==
    ASSUME TypeOK, ControlOK, BottomLoop, [Next]_vars
    PROVE  BottomLoop'
<1> USE DEF BottomLoop, InField, CurrentField
<1>1. CASE EnterField
  BY <1>1, EnterFieldStack DEF EnterField, call, position
<1>2. CASE EnterConditional
  <2>1. 1 \in DOMAIN stack
    BY <1>2, PushStack DEF TypeOK
  <2>2. QED
    BY <1>2, <2>1, PushStack DEF EnterConditional, call, position
<1>3. CASE TakeResult
  <2>1. 1 \in DOMAIN stack
    BY <1>3, TakeStack DEF TypeOK
  <2>2. QED
    BY <1>3, <2>1, TakeStack DEF TakeResult, call, position
<1>4. CASE ReturnBranch \/ PropagateSkip
  <2>1. 1 \in DOMAIN stack'
    BY <1>4, PopStack DEF TypeOK
  <2>2. QED
    BY <1>4, <2>1, PopStack DEF ReturnBranch, PropagateSkip, call, position
<1>5. CASE NextField \/ Finish \/ StoreValidated
  BY <1>5 DEF NextField, Finish, StoreValidated
<1>6. CASE ExecuteRule \/ ConditionalTooDeep \/ LeaveRules
  BY <1>6 DEF ExecuteRule, ConditionalTooDeep, LeaveRules, call, position
<1>7. CASE UNCHANGED vars
  BY <1>7 DEF vars
<1>8. QED
  BY <1>1, <1>2, <1>3, <1>4, <1>5, <1>6, <1>7 DEF Next, Step, Returned

LEMMA FailureStep ==
    ASSUME TypeOK, ControlOK, FailureLeavesError, [Next]_vars
    PROVE  FailureLeavesError'
<1> USE DEF FailureLeavesError, FailurePending, InField, CurrentPath, CurrentField
<1>1. CASE EnterField
  BY <1>1, EnterFieldStack DEF EnterField
<1>2. CASE ExecuteRule \/ ConditionalTooDeep
  BY <1>2, ErrorStep DEF ExecuteRule, ConditionalTooDeep, call, position
<1>3. CASE EnterConditional
  BY <1>3, PushStack DEF EnterConditional, call, position
<1>4. CASE TakeResult
  BY <1>4, TakeStack DEF TakeResult, call, position
<1>5. CASE ReturnBranch \/ PropagateSkip
  <2>1. Len(stack) \in DOMAIN stack /\ Top = stack[Len(stack)]
    BY <1>5, PopStack DEF Top
  <2>2. FailurePending' => FailurePending
    BY <1>5, <2>1, PopStack DEF ReturnBranch, PropagateSkip
  <2>3. QED
    BY <1>5, <2>2 DEF ReturnBranch, PropagateSkip, call, position
<1>6. CASE LeaveRules
  BY <1>6 DEF LeaveRules, call, position
<1>7. CASE NextField \/ Finish \/ StoreValidated
  BY <1>7 DEF NextField, Finish, StoreValidated
<1>8. CASE UNCHANGED vars
  BY <1>8 DEF vars
<1>9. QED
  BY <1>1, <1>2, <1>3, <1>4, <1>5, <1>6, <1>7, <1>8 DEF Next, Step, Returned

\* Steps that leave the position and the validated paths alone.
LEMMA KeepsPosition ==
    ASSUME [Next]_vars, ~NextField, ~StoreValidated
    PROVE  UNCHANGED <<program, input, fieldIdx, pathIdx, validated>>
BY DEF Next, Step, Returned, EnterField, Finish, ExecuteRule, EnterConditional,
       ConditionalTooDeep, TakeResult, ReturnBranch, PropagateSkip, LeaveRules,
       vars, call, position

\* Errors are only ever added.
LEMMA ErrorsGrow ==
    ASSUME TypeOK, ControlOK, [Next]_vars
    PROVE  \A p \in Path : errors[p] # <<>> => errors'[p] # <<>>
<1>1. CASE ExecuteRule \/ ConditionalTooDeep
  BY <1>1, ErrorStep
<1>2. CASE ~(ExecuteRule \/ ConditionalTooDeep)
  BY <1>2 DEF Next, Step, Returned, EnterField, NextField, Finish, EnterConditional,
       TakeResult, ReturnBranch, PropagateSkip, LeaveRules, StoreValidated, vars
<1>3. QED
  BY <1>1, <1>2

\* The paths behind the loops after a step of a loop.
LEMMA NextFieldEarlier ==
    ASSUME TypeOK, ControlOK, NextField,
           NEW f \in DOMAIN program, NEW k \in DOMAIN program[f].paths
    PROVE  Earlier(f, k)' <=> Earlier(f, k)
<1>1. /\ fieldIdx \in Nat /\ pathIdx \in Nat /\ pathIdx >= 1
      /\ fieldIdx' = fieldIdx + 1 /\ pathIdx' = 1
  BY DEF NextField, TypeOK
<1>2. f \in Nat /\ k \in Nat /\ k >= 1
  BY ProgramType
<1>3. f = fieldIdx => k < pathIdx
  BY <1>1, <1>2, ProgramType DEF NextField, CurrentField
<1>4. QED
  BY <1>1, <1>2, <1>3 DEF Earlier

LEMMA StoreEarlier ==
    ASSUME TypeOK, ControlOK, StoreValidated,
           NEW f \in DOMAIN program, NEW k \in DOMAIN program[f].paths
    PROVE  Earlier(f, k)' <=> Earlier(f, k) \/ (f = fieldIdx /\ k = pathIdx)
<1>1. /\ fieldIdx \in Nat /\ pathIdx \in Nat
      /\ fieldIdx' = fieldIdx /\ pathIdx' = pathIdx + 1
  BY DEF StoreValidated, TypeOK
<1>2. f \in Nat /\ k \in Nat
  BY ProgramType
<1>3. QED
  BY <1>1, <1>2 DEF Earlier

LEMMA DecidedStep ==
    ASSUME TypeOK, ControlOK, FailureLeavesError, EarlierDecided, [Next]_vars
    PROVE  EarlierDecided'
<1> USE DEF EarlierDecided
<1>1. CASE NextField
  <2>1. UNCHANGED <<program, input, validated, errors>>
    BY <1>1 DEF NextField, call
  <2>2. QED
    BY <1>1, <2>1, NextFieldEarlier
<1>2. CASE StoreValidated
  <2>1. UNCHANGED <<program, input, errors>> /\ validated \subseteq validated'
    BY <1>2 DEF StoreValidated, call
  <2>2. Len(stack) = 1 /\ Top = stack[1] /\ 1 \in DOMAIN stack /\ Top \in Frames
    <3>1. Len(stack) = 1
      BY <1>2 DEF StoreValidated, ControlOK
    <3>2. QED
      BY <3>1, TopFrameType
  <2>3. Top.result = "FAIL" => errors[CurrentPath] # <<>>
    BY <1>2, <2>2
       DEF StoreValidated, FailureLeavesError, FailurePending, InField
  <2>4. input.value[CurrentPath] # "missing"
            => CurrentPath \in validated' \/ errors[CurrentPath] # <<>>
    BY <1>2, <2>2, <2>3 DEF StoreValidated, Frames
  <2>5. SUFFICES ASSUME NEW f \in DOMAIN program, NEW k \in DOMAIN program[f].paths,
                        Earlier(f, k)',
                        input.value[program[f].paths[k]] # "missing"
                 PROVE  \/ program[f].paths[k] \in validated'
                        \/ errors[program[f].paths[k]] # <<>>
    BY <2>1
  <2>6. CASE Earlier(f, k)
    BY <2>1, <2>5, <2>6
  <2>7. CASE f = fieldIdx /\ k = pathIdx
    BY <2>4, <2>5, <2>7 DEF CurrentPath, CurrentField
  <2>8. QED
    BY <1>2, <2>5, <2>6, <2>7, StoreEarlier
<1>3. CASE ~NextField /\ ~StoreValidated
  <2>1. UNCHANGED <<program, input, fieldIdx, pathIdx, validated>>
    BY <1>3, KeepsPosition
  <2>2. \A f, k : Earlier(f, k)' = Earlier(f, k)
    BY <2>1 DEF Earlier
  <2>3. \A f \in DOMAIN program : \A k \in DOMAIN program[f].paths :
            program[f].paths[k] \in Path
    BY ProgramType
  <2>4. QED
    BY <2>1, <2>2, <2>3, ErrorsGrow
<1>4. QED
  BY <1>1, <1>2, <1>3

LEMMA ValidatedStep ==
    ASSUME TypeOK, ControlOK, ValidatedEarlier, [Next]_vars
    PROVE  ValidatedEarlier'
<1> USE DEF ValidatedEarlier
<1>1. CASE NextField
  <2>1. UNCHANGED <<program, input, validated>>
    BY <1>1 DEF NextField, call
  <2>2. QED
    BY <1>1, <2>1, NextFieldEarlier
<1>2. CASE StoreValidated
  <2>1. UNCHANGED <<program, input>>
    BY <1>2 DEF StoreValidated, call
  <2>2. /\ fieldIdx \in DOMAIN program /\ pathIdx \in DOMAIN program[fieldIdx].paths
        /\ CurrentPath = program[fieldIdx].paths[pathIdx]
    BY <1>2 DEF StoreValidated, ControlOK, InField, CurrentPath, CurrentField
  <2>3. \E f \in DOMAIN program : \E k \in DOMAIN program[f].paths :
            Earlier(f, k)' /\ program[f].paths[k] = CurrentPath
    BY <1>2, <2>2, StoreEarlier
  <2>4. \A p \in validated' : p \in validated
            \/ (p = CurrentPath /\ input.value[p] # "missing")
    BY <1>2 DEF StoreValidated
  <2>5. QED
    BY <1>2, <2>1, <2>2, <2>3, <2>4, StoreEarlier
<1>3. CASE ~NextField /\ ~StoreValidated
  <2>1. UNCHANGED <<program, input, fieldIdx, pathIdx, validated>>
    BY <1>3, KeepsPosition
  <2>2. QED
    BY <2>1 DEF Earlier
<1>4. QED
  BY <1>1, <1>2, <1>3

LEMMA VerdictStep ==
    ASSUME TypeOK, ControlOK, VerdictFromErrors, [Next]_vars
    PROVE  VerdictFromErrors'
<1>1. CASE Finish
  BY <1>1 DEF Finish, VerdictFromErrors
<1>2. CASE UNCHANGED vars
  BY <1>2 DEF vars, VerdictFromErrors
<1>3. CASE Step /\ ~Finish
  <2>1. pc' # "done"
    BY <1>3 DEF Step, EnterField, NextField, ExecuteRule, EnterConditional,
       ConditionalTooDeep, TakeResult, ReturnBranch, PropagateSkip, LeaveRules,
       StoreValidated
  <2>2. QED
    BY <2>1 DEF VerdictFromErrors
<1>4. QED
  BY <1>1, <1>2, <1>3 DEF Next, Returned

\* The inductive invariant of the call holds for every program and input.
THEOREM CallInvariant == Spec => []CallInv
<1>1. Init => CallInv
  <2> SUFFICES ASSUME Init PROVE CallInv
    OBVIOUS
  <2>1. \A f \in DOMAIN program : \A k \in DOMAIN program[f].paths : ~Earlier(f, k)
    <3>1. TypeOK
      BY InitType
    <3>2. QED
      BY <3>1, ProgramType DEF Init, Earlier
  <2>2. EarlierDecided
    BY <2>1 DEF EarlierDecided
  <2>3. QED
    BY <2>2 DEF Init, CallInv, ControlOK, InField, FailureLeavesError,
                ValidatedEarlier, VerdictFromErrors, BottomLoop, LevelsFollowStack
<1>2. TypeOK /\ CallInv /\ [Next]_vars => CallInv'
  BY TypeStep, FailureStep, DecidedStep, ValidatedStep, VerdictStep, LevelsStep,
     BottomStep
     DEF CallInv
<1>3. QED
  BY <1>1, <1>2, TypeCorrect, PTL DEF Spec

\* A result that is valid contains every scheduled path that has a value.
THEOREM ValidComplete == Spec => []ValidMeansComplete
<1>1. TypeOK /\ CallInv => ValidMeansComplete
  <2> SUFFICES ASSUME TypeOK, CallInv, pc = "done", isValid
               PROVE  validated = {p \in Scheduled : input.value[p] # "missing"}
    BY DEF ValidMeansComplete
  <2>1. \A f \in DOMAIN program : \A k \in DOMAIN program[f].paths : Earlier(f, k)
    BY ProgramType DEF CallInv, ControlOK, Earlier, TypeOK
  <2>2. \A p \in Path : errors[p] = <<>>
    BY DEF CallInv, VerdictFromErrors
  <2>3. \A p \in Scheduled : input.value[p] # "missing" => p \in validated
    <3>1. SUFFICES ASSUME NEW f \in DOMAIN program, NEW k \in DOMAIN program[f].paths,
                          input.value[program[f].paths[k]] # "missing"
                   PROVE  program[f].paths[k] \in validated
      BY DEF Scheduled
    <3>2. program[f].paths[k] \in validated \/ errors[program[f].paths[k]] # <<>>
      BY <2>1, <3>1 DEF CallInv, EarlierDecided
    <3>3. QED
      BY <2>2, <3>2, ProgramType
  <2>4. \A p \in validated : p \in Scheduled /\ input.value[p] # "missing"
    BY DEF CallInv, ValidatedEarlier, Scheduled
  <2>5. QED
    BY <2>3, <2>4
<1>2. QED
  BY <1>1, TypeCorrect, CallInvariant, PTL

\* At every conditional the evaluator is as deep as the parser was.
THEOREM DepthAgreement == Spec => []DepthsAgree
<1>1. TypeOK /\ CallInv => DepthsAgree
  <2> SUFFICES ASSUME TypeOK, CallInv, pc = "rules", AtRule,
                      Kind[CurrentRule] = "when"
               PROVE  Depth = Level[CurrentRule]
    BY DEF DepthsAgree
  <2>1. Len(stack) >= 1
    BY DEF CallInv, ControlOK, InField
  <2>2. CurrentRule \in Rule /\ Len(stack) \in DOMAIN stack
    BY <2>1, TopFrameType
  <2>3. Level[CurrentRule] = Len(stack) - 1
    BY <2>2 DEF CallInv, LevelsFollowStack, AtRule, CurrentRule, Top
  <2>4. QED
    BY <2>3 DEF Depth
<1>2. QED
  BY <1>1, TypeCorrect, CallInvariant, PTL

\* A conditional of an accepted rule set is never refused for its depth, as
\* long as the evaluation limit is no smaller than the parse limit.
THEOREM DepthBounded ==
    ASSUME MAX_RULE_PARSE_DEPTH <= MAX_CONDITION_EVAL_DEPTH
    PROVE  Spec => []DepthNeverExceeded
<1>1. TypeOK /\ ControlOK /\ DepthsAgree => DepthNeverExceeded
  <2> SUFFICES ASSUME TypeOK, ControlOK, DepthsAgree, pc = "rules", AtRule,
                      Kind[CurrentRule] = "when"
               PROVE  Depth <= MAX_CONDITION_EVAL_DEPTH
    BY DEF DepthNeverExceeded
  <2>1. CurrentRule \in Rule
    BY TopFrameType DEF ControlOK, InField
  <2>2. Level[CurrentRule] \in 0 .. MAX_RULE_PARSE_DEPTH
    BY <2>1, ConstantsAssumption DEF ParsedTree
  <2>3. Depth = Level[CurrentRule]
    BY DEF DepthsAgree
  <2>4. QED
    BY <2>2, <2>3, ConstantsAssumption
<1>2. QED
  BY <1>1, TypeCorrect, DepthAgreement, PTL

-----------------------------------------------------------------------------
(* A failure keeps its path out of the validated paths, when no branch can *)
(* skip and no path is scheduled twice.                                    *)

LEMMA SkipFreeClosed ==
    ASSUME NEW r \in SkipFree
    PROVE  Kind[r] \notin {"nullable", "filled"} /\ Children(r) \subseteq SkipFree
<1>1. PICK S \in SUBSET Rule :
          /\ r \in S
          /\ \A t \in S : Kind[t] \notin {"nullable", "filled"} /\ Children(t) \subseteq S
  BY DEF SkipFree
<1>2. S \subseteq SkipFree
  BY <1>1 DEF SkipFree
<1>3. QED
  BY <1>1, <1>2

LEMMA SkippingKind ==
    ASSUME TypeOK, ExecuteRule, ret' = "SKIP"
    PROVE  Kind[CurrentRule] \in {"nullable", "filled"}
BY DEF ExecuteRule, RuleResult, Required, Nullable, Filled, Present, Guarded

LEMMA BranchesStep ==
    ASSUME TypeOK, ControlOK, BottomLoop, SkipFreeBranches, BranchesSkipFree,
           [Next]_vars
    PROVE  BranchesSkipFree'
<1> USE DEF BranchesSkipFree
<1>1. CASE EnterField
  BY <1>1, EnterFieldStack
<1>2. CASE EnterConditional
  <2>1. /\ Top = stack[Len(stack)]
        /\ stack[Len(stack)].rules[Top.next] = CurrentRule
        /\ Top.next \in DOMAIN stack[Len(stack)].rules
        /\ Kind[CurrentRule] = "when"
    BY <1>2, PushStack DEF AtRule, CurrentRule, Top, EnterConditional
  <2>2. Len(stack) > 1 => CurrentRule \in SkipFree
    BY <1>2, <2>1, PushStack
  <2>3. Len(stack) = 1 => Children(CurrentRule) \subseteq SkipFree
    <3>1. SUFFICES ASSUME Len(stack) = 1
                   PROVE  Children(CurrentRule) \subseteq SkipFree
      OBVIOUS
    <3>2. fieldIdx \in DOMAIN program /\ stack[1].rules = program[fieldIdx].rules
      BY <1>2 DEF EnterConditional, BottomLoop, InField, ControlOK, CurrentField
    <3>3. QED
      BY <2>1, <3>1, <3>2 DEF SkipFreeBranches
  <2>4. Children(CurrentRule) \subseteq SkipFree
    BY <1>2, <2>2, <2>3, SkipFreeClosed, PushStack
  <2> DEFINE top == Len(stack) + 1
  <2>5. \A j \in DOMAIN stack'[top].rules : stack'[top].rules[j] \in SkipFree
    BY <1>2, <2>4, PushStack
  <2>6. \A i \in DOMAIN stack' : i \in DOMAIN stack \/ i = top
    BY <1>2, PushStack DEF TypeOK
  <2>7. QED
    BY <1>2, <2>5, <2>6, PushStack
<1>3. CASE TakeResult
  BY <1>3, TakeStack
<1>4. CASE ReturnBranch \/ PropagateSkip
  BY <1>4, PopStack
<1>5. CASE StoreValidated
  BY <1>5 DEF StoreValidated
<1>6. CASE NextField \/ Finish \/ ExecuteRule \/ ConditionalTooDeep \/ LeaveRules
              \/ UNCHANGED vars
  BY <1>6 DEF NextField, Finish, ExecuteRule, ConditionalTooDeep, LeaveRules, vars
<1>7. QED
  BY <1>1, <1>2, <1>3, <1>4, <1>5, <1>6 DEF Next, Step, Returned

LEMMA NoSkipToPropagate ==
    ASSUME TypeOK, SkipOnlyInField, PropagateSkip
    PROVE  FALSE
<1>1. Len(stack) \in Nat /\ Len(stack) > 1
  BY DEF TypeOK, PropagateSkip
<1>2. Len(stack) = 1
  BY DEF SkipOnlyInField, PropagateSkip
<1>3. QED
  BY <1>1, <1>2

LEMMA SkipStep ==
    ASSUME TypeOK, ControlOK, BranchesSkipFree, SkipOnlyInField, [Next]_vars
    PROVE  SkipOnlyInField'
<1> USE DEF SkipOnlyInField
<1>1. CASE ExecuteRule
  <2>1. SUFFICES ASSUME ret' = "SKIP", Len(stack) # 1
                 PROVE  FALSE
    BY <1>1 DEF ExecuteRule
  <2>2. Kind[CurrentRule] \in {"nullable", "filled"}
    BY <1>1, <2>1, SkippingKind
  <2>3. Len(stack) > 1 /\ Len(stack) \in DOMAIN stack
    <3>1. Len(stack) >= 1
      BY <1>1 DEF ExecuteRule, ControlOK, InField
    <3>2. Len(stack) \in Nat /\ DOMAIN stack = 1 .. Len(stack)
      BY DEF TypeOK
    <3>3. Len(stack) > 1
      BY <2>1, <3>1, <3>2
    <3>4. QED
      BY <3>2, <3>3
  <2>4. CurrentRule \in SkipFree
    BY <1>1, <2>3 DEF ExecuteRule, BranchesSkipFree, AtRule, CurrentRule, Top
  <2>5. QED
    BY <2>2, <2>4, SkipFreeClosed
<1>2. CASE ReturnBranch
  <2>1. ret' # "SKIP"
    BY <1>2, TopFrameType DEF ReturnBranch, ControlOK, InField, Frames
  <2>2. QED
    BY <2>1
<1>3. CASE PropagateSkip
  BY <1>3, NoSkipToPropagate
<1>4. CASE UNCHANGED vars
  BY <1>4 DEF vars
<1>5. CASE Step /\ ~ExecuteRule /\ ~ReturnBranch /\ ~PropagateSkip
  <2>1. pc' # "deliver" \/ ret' = "FAIL"
    BY <1>5 DEF Step, EnterField, NextField, Finish, EnterConditional,
       ConditionalTooDeep, TakeResult, LeaveRules, StoreValidated
  <2>2. QED
    BY <2>1
<1>6. QED
  BY <1>1, <1>2, <1>3, <1>4, <1>5 DEF Next, Returned

\* The current path has not been looked at before.
LEMMA CurrentIsNew ==
    ASSUME TypeOK, ControlOK, NoOverlap,
           fieldIdx \in DOMAIN program, pathIdx \in DOMAIN CurrentField.paths,
           NEW f \in DOMAIN program, NEW k \in DOMAIN program[f].paths, Earlier(f, k)
    PROVE  program[f].paths[k] # CurrentPath
BY DEF NoOverlap, Earlier, CurrentPath, CurrentField, TypeOK

LEMMA RememberedStep ==
    ASSUME TypeOK, ControlOK, NoOverlap, SkipOnlyInField, ErrorsScheduled,
           ErrorRemembered, [Next]_vars
    PROVE  ErrorRemembered'
<1> USE DEF ErrorRemembered, FailurePending, InField, CurrentPath, CurrentField
<1>1. CASE EnterField
  <2>1. CurrentPath \in Path
    BY <1>1, ProgramType DEF EnterField
  <2>2. errors[CurrentPath] = <<>>
    <3>1. ~InField
      BY <1>1 DEF EnterField
    <3>2. \A f \in DOMAIN program : \A k \in DOMAIN program[f].paths :
              Earlier(f, k) => program[f].paths[k] # CurrentPath
      BY <1>1, CurrentIsNew DEF EnterField
    <3>3. QED
      BY <2>1, <3>1, <3>2 DEF ErrorsScheduled
  <2>3. QED
    BY <1>1, <2>2 DEF EnterField, call, position
<1>2. CASE ExecuteRule \/ ConditionalTooDeep
  BY <1>2, ErrorStep DEF ExecuteRule, ConditionalTooDeep, call, position
<1>3. CASE EnterConditional
  BY <1>3, PushStack DEF EnterConditional, call, position
<1>4. CASE TakeResult
  <2>1. Len(stack) \in DOMAIN stack
    BY <1>4, TakeStack DEF TypeOK
  <2>2. FailurePending => FailurePending'
    BY <1>4, <2>1, TakeStack DEF TakeResult
  <2>3. QED
    BY <1>4, <2>2 DEF TakeResult, call, position
<1>5. CASE ReturnBranch
  <2>1. Top = stack[Len(stack)]
    BY DEF Top
  <2>2. \A i \in DOMAIN stack : i \in DOMAIN stack' \/ i = Len(stack)
    BY <1>5, PopStack DEF TypeOK
  <2>3. FailurePending => FailurePending'
    BY <1>5, <2>1, <2>2, PopStack DEF ReturnBranch
  <2>4. QED
    BY <1>5, <2>3 DEF ReturnBranch, call, position
<1>6. CASE PropagateSkip
  BY <1>6, NoSkipToPropagate
<1>7. CASE LeaveRules
  BY <1>7 DEF LeaveRules, call, position
<1>8. CASE NextField \/ Finish \/ StoreValidated
  BY <1>8 DEF NextField, Finish, StoreValidated
<1>9. CASE UNCHANGED vars
  BY <1>9 DEF vars
<1>10. QED
  BY <1>1, <1>2, <1>3, <1>4, <1>5, <1>6, <1>7, <1>8, <1>9 DEF Next, Step, Returned

LEMMA ScheduledStep ==
    ASSUME TypeOK, ControlOK, ErrorsScheduled, [Next]_vars
    PROVE  ErrorsScheduled'
<1> USE DEF ErrorsScheduled
<1>1. CASE NextField
  <2>1. UNCHANGED <<program, errors>> /\ ~InField /\ ~InField'
    BY <1>1 DEF NextField, call, InField
  <2>2. QED
    BY <1>1, <2>1, NextFieldEarlier
<1>2. CASE StoreValidated
  <2>1. UNCHANGED <<program, errors>>
    BY <1>2 DEF StoreValidated, call
  <2>2. QED
    BY <1>2, <2>1, StoreEarlier
<1>3. CASE ~NextField /\ ~StoreValidated
  <2>1. UNCHANGED <<program, fieldIdx, pathIdx>>
    BY <1>3, KeepsPosition
  <2>2. \A f, k : Earlier(f, k)' = Earlier(f, k)
    BY <2>1 DEF Earlier
  <2>3. CASE ExecuteRule \/ ConditionalTooDeep
    <3>1. InField /\ InField'
      BY <2>3 DEF ExecuteRule, ConditionalTooDeep, InField
    <3>2. /\ fieldIdx \in DOMAIN program
          /\ pathIdx \in DOMAIN program[fieldIdx].paths
          /\ CurrentPath = program[fieldIdx].paths[pathIdx]
      BY <3>1 DEF ControlOK, CurrentPath, CurrentField
    <3>3. \A p \in Path : errors'[p] # <<>> => errors[p] # <<>> \/ p = CurrentPath
      BY <2>3, ErrorStep
    <3>4. QED
      BY <2>1, <2>2, <3>1, <3>2, <3>3
  <2>4. CASE ~(ExecuteRule \/ ConditionalTooDeep)
    <3>1. errors' = errors /\ (InField => InField')
      BY <1>3, <2>4 DEF Next, Step, Returned, EnterField, Finish, EnterConditional,
         TakeResult, ReturnBranch, PropagateSkip, LeaveRules, vars, InField
    <3>2. QED
      BY <2>1, <2>2, <3>1
  <2>5. QED
    BY <2>3, <2>4
<1>4. QED
  BY <1>1, <1>2, <1>3

LEMMA ExclusionStep ==
    ASSUME TypeOK, ControlOK, NoOverlap, ValidatedEarlier, ErrorRemembered,
           FailureExcludesValidated, [Next]_vars
    PROVE  FailureExcludesValidated'
<1> USE DEF FailureExcludesValidated
<1>1. CASE StoreValidated
  <2>1. Len(stack) = 1 /\ InField /\ errors' = errors
    BY <1>1 DEF StoreValidated, ControlOK, InField
  <2>2. Top = stack[1] /\ DOMAIN stack = {1}
    BY <2>1 DEF Top, TypeOK
  <2>3. Top.result = "PASS" => errors[CurrentPath] = <<>>
    BY <1>1, <2>1, <2>2 DEF StoreValidated, ErrorRemembered, FailurePending
  <2>4. QED
    BY <1>1, <2>1, <2>3 DEF StoreValidated
<1>2. CASE ExecuteRule \/ ConditionalTooDeep
  <2>1. fieldIdx \in DOMAIN program /\ pathIdx \in DOMAIN CurrentField.paths
    BY <1>2 DEF ExecuteRule, ConditionalTooDeep, ControlOK, InField
  <2>2. CurrentPath \notin validated
    BY <2>1, CurrentIsNew DEF ValidatedEarlier
  <2>3. validated' = validated
    BY <1>2 DEF ExecuteRule, ConditionalTooDeep
  <2>4. QED
    BY <1>2, <2>2, <2>3, ErrorStep DEF TypeOK
<1>3. CASE ~StoreValidated /\ ~ExecuteRule /\ ~ConditionalTooDeep
  BY <1>3 DEF Next, Step, Returned, EnterField, NextField, Finish, EnterConditional,
     TakeResult, ReturnBranch, PropagateSkip, LeaveRules, vars
<1>4. QED
  BY <1>1, <1>2, <1>3

\* A path in error is never validated, at any step of the call, when no branch
\* of a conditional can return SKIP and no path is scheduled twice.
THEOREM Lossless == Spec => []LosslessResult
<1>1. Init => LosslessInv
  BY DEF Init, LosslessInv, BranchesSkipFree, SkipOnlyInField, ErrorRemembered,
         InField, ErrorsScheduled, FailureExcludesValidated
<1>2. TypeOK /\ CallInv /\ LosslessInv /\ [Next]_vars => LosslessInv'
  <2> SUFFICES ASSUME TypeOK, CallInv, LosslessInv, [Next]_vars,
                      NoOverlap', SkipFreeBranches'
               PROVE  (/\ BranchesSkipFree /\ SkipOnlyInField /\ ErrorRemembered
                       /\ ErrorsScheduled /\ FailureExcludesValidated)'
    BY DEF LosslessInv
  <2>1. program' = program
    BY DEF Next, Step, Returned, EnterField, NextField, Finish, ExecuteRule,
       EnterConditional, ConditionalTooDeep, TakeResult, ReturnBranch,
       PropagateSkip, LeaveRules, StoreValidated, vars, call
  <2>2. NoOverlap /\ SkipFreeBranches
    BY <2>1 DEF NoOverlap, SkipFreeBranches
  <2>3. /\ BranchesSkipFree /\ SkipOnlyInField /\ ErrorRemembered
        /\ ErrorsScheduled /\ FailureExcludesValidated
    BY <2>2 DEF LosslessInv
  <2>4. ControlOK /\ BottomLoop /\ ValidatedEarlier
    BY DEF CallInv
  <2>5. QED
    BY <2>2, <2>3, <2>4, BranchesStep, SkipStep, RememberedStep, ScheduledStep,
       ExclusionStep
<1>3. LosslessInv => LosslessResult
  BY DEF LosslessInv, LosslessResult
<1>4. QED
  BY <1>1, <1>2, <1>3, TypeCorrect, CallInvariant, PTL DEF Spec

-----------------------------------------------------------------------------
(* The presence rules: nullable shields the other rules of its field from *)
(* an empty value.                                                        *)

LEMMA NullableStep ==
    ASSUME TypeOK, ControlOK, NullableKnown, [Next]_vars
    PROVE  NullableKnown'
<1> USE DEF NullableKnown, InField, CurrentField, HasNullable, call, position
<1>1. CASE EnterField
  BY <1>1 DEF EnterField
<1>2. CASE ExecuteRule \/ EnterConditional \/ ConditionalTooDeep
  BY <1>2 DEF ExecuteRule, EnterConditional, ConditionalTooDeep
<1>3. CASE TakeResult \/ ReturnBranch \/ PropagateSkip \/ LeaveRules
  BY <1>3 DEF TakeResult, ReturnBranch, PropagateSkip, LeaveRules
<1>4. CASE NextField \/ Finish \/ StoreValidated
  BY <1>4 DEF NextField, Finish, StoreValidated
<1>5. CASE UNCHANGED vars
  BY <1>5 DEF vars
<1>6. QED
  BY <1>1, <1>2, <1>3, <1>4, <1>5 DEF Next, Step, Returned

\* The last entry of a list of errors is the rule that was added.
LEMMA LastError ==
    ASSUME TypeOK, NEW r \in Rule, NEW p \in Path, CurrentPath \in Path,
           AddError(r)[p] # errors[p]
    PROVE  p = CurrentPath /\ AddError(r)[p][Len(AddError(r)[p])] = r
<1>1. p = CurrentPath /\ AddError(r)[p] = Append(errors[p], r)
  BY DEF AddError, TypeOK
<1>2. errors[p] \in Seq(Rule)
  BY DEF TypeOK
<1>3. QED
  BY <1>1, <1>2

\* A rule that starts with the nullable guard fails on filled values only.
LEMMA GuardedFails ==
    ASSUME TypeOK, NEW r \in Rule, NEW p \in Path,
           Kind[r] = "guarded", RuleResult(r, p, TRUE) = "FAIL"
    PROVE  input.value[p] = "filled"
<1>1. input.value[p] \in Values
  BY DEF TypeOK, Input
<1>2. ~NullOrEmpty(input.value[p])
  BY DEF RuleResult, Guarded
<1>3. QED
  BY <1>1, <1>2 DEF Values, NullOrEmpty

LEMMA ReportStep ==
    ASSUME TypeOK, ControlOK, NullableKnown, [Next]_vars
    PROVE  ReportsFilled
<1>1. CASE ExecuteRule
  <2>1. CurrentRule \in Rule /\ CurrentPath \in Path
    BY <1>1, TopFrameType, ProgramType
       DEF ExecuteRule, ControlOK, InField, CurrentPath, CurrentField
  <2>2. SUFFICES
          ASSUME NEW p \in Path, errors'[p] # errors[p],
                 Kind[errors'[p][Len(errors'[p])]] = "guarded",
                 \E i \in DOMAIN CurrentField.rules :
                     Kind[CurrentField.rules[i]] = "nullable"
          PROVE  input.value[p] = "filled"
    BY DEF ReportsFilled
  <2>3. hasNullable = TRUE
    BY <1>1, <2>2 DEF NullableKnown, HasNullable, ExecuteRule, InField
  <2>4. ret' = "FAIL" /\ errors' = AddError(CurrentRule)
    BY <1>1, <2>2 DEF ExecuteRule
  <2>5. p = CurrentPath /\ errors'[p][Len(errors'[p])] = CurrentRule
    BY <2>1, <2>2, <2>4, LastError
  <2>6. QED
    BY <1>1, <2>1, <2>2, <2>3, <2>4, <2>5, GuardedFails DEF ExecuteRule
<1>2. CASE ConditionalTooDeep
  <2>1. CurrentRule \in Rule /\ CurrentPath \in Path
    BY <1>2, TopFrameType, ProgramType
       DEF ConditionalTooDeep, ControlOK, InField, CurrentPath, CurrentField
  <2>2. ASSUME NEW p \in Path, errors'[p] # errors[p]
        PROVE  Kind[errors'[p][Len(errors'[p])]] = "when"
    BY <1>2, <2>1, <2>2, LastError DEF ConditionalTooDeep
  <2>3. QED
    BY <2>2 DEF ReportsFilled
<1>3. CASE ~(ExecuteRule \/ ConditionalTooDeep)
  <2>1. errors' = errors
    BY <1>3 DEF Next, Step, Returned, EnterField, NextField, Finish,
       EnterConditional, TakeResult, ReturnBranch, PropagateSkip, LeaveRules,
       StoreValidated, vars
  <2>2. QED
    BY <2>1 DEF ReportsFilled
<1>4. QED
  BY <1>1, <1>2, <1>3

\* In a field with a nullable rule among its own, wherever it stands, no rule
\* but the presence rules reports an empty or absent value, in branches too.
THEOREM Shielded == Spec => NullableShields
<1>1. Init => NullableKnown
  BY DEF Init, NullableKnown, InField
<1>2. Spec => []NullableKnown
  BY <1>1, NullableStep, TypeCorrect, PTL DEF Spec
<1>3. QED
  BY <1>2, ReportStep, TypeCorrect, PTL DEF Spec, NullableShields

-----------------------------------------------------------------------------
(* required: the loops on the stack. *)

\* Where the loops stand after a step; the rest of the stack is as the lemmas
\* of RuleEngineProofs say.
LEMMA EnterFieldNext ==
    ASSUME TypeOK, ControlOK, EnterField
    PROVE  stack'[1].next = 1
BY EntryFrame DEF EnterField, Frame

LEMMA TakeNext ==
    ASSUME TypeOK, ControlOK, TakeResult
    PROVE  stack'[Len(stack)].next = stack[Len(stack)].next + 1
<1>1. Len(stack) >= 1 /\ Top = stack[Len(stack)] /\ stack \in Seq(Frames)
  BY TopFrameType DEF TakeResult, ControlOK, InField, TypeOK
<1>2. stack' = [stack EXCEPT ![Len(stack)] = Advance(Top, ret)]
  BY <1>1 DEF TakeResult
<1>3. QED
  BY <1>1, <1>2 DEF Advance

LEMMA LinkedStep ==
    ASSUME TypeOK, ControlOK, LoopsLinked, [Next]_vars
    PROVE  LoopsLinked'
<1> USE DEF LoopsLinked
<1>1. CASE EnterField
  BY <1>1, EnterFieldStack DEF EnterField
<1>2. CASE EnterConditional
  <2>1. /\ Top = stack[Len(stack)] /\ Top.next \in DOMAIN Top.rules
        /\ CurrentRule = Top.rules[Top.next] /\ Kind[CurrentRule] = "when"
    BY <1>2, PushStack DEF EnterConditional, AtRule, CurrentRule, Top
  <2>2. \A i \in DOMAIN stack' : i > 1 =>
            (i \in DOMAIN stack /\ i - 1 \in DOMAIN stack) \/ i = Len(stack) + 1
    BY <1>2, PushStack DEF TypeOK
  <2>3. stack'[Len(stack)] = stack[Len(stack)]
    BY <1>2, PushStack DEF TypeOK
  <2>4. Len(stack) + 1 - 1 = Len(stack)
    BY DEF TypeOK
  <2>5. pc' # "deliver"
    BY <1>2 DEF EnterConditional
  <2>6. QED
    BY <1>2, <2>1, <2>2, <2>3, <2>4, <2>5, PushStack
<1>3. CASE TakeResult
  <2>1. \A i \in DOMAIN stack : i > 1 => i - 1 \in DOMAIN stack /\ i - 1 # Len(stack)
    BY <1>3, TakeStack DEF TypeOK
  <2>2. QED
    BY <1>3, <2>1, TakeStack DEF TakeResult
<1>4. CASE ReturnBranch \/ PropagateSkip
  <2>1. \A i \in DOMAIN stack' : /\ i \in DOMAIN stack
                                 /\ i > 1 => i - 1 \in DOMAIN stack'
    BY <1>4, PopStack DEF TypeOK
  <2>2. Len(stack') = Len(stack) - 1 /\ Len(stack') \in DOMAIN stack'
    BY <1>4, PopType, PopStack DEF ReturnBranch, PropagateSkip, Below, TypeOK
  <2>3. Len(stack) \in DOMAIN stack /\ Len(stack) > 1
    BY <1>4, PopStack DEF TypeOK
  <2>4. AtRule'
    BY <1>4, <2>2, <2>3, PopStack DEF AtRule, Top
  <2>5. QED
    BY <1>4, <2>1, <2>4, PopStack
<1>5. CASE ExecuteRule \/ ConditionalTooDeep
  BY <1>5 DEF ExecuteRule, ConditionalTooDeep, AtRule, Top
<1>6. CASE StoreValidated
  BY <1>6 DEF StoreValidated
<1>7. CASE NextField \/ Finish \/ LeaveRules
  BY <1>7 DEF NextField, Finish, LeaveRules
<1>8. CASE UNCHANGED vars
  BY <1>8 DEF vars, AtRule, Top
<1>9. QED
  BY <1>1, <1>2, <1>3, <1>4, <1>5, <1>6, <1>7, <1>8 DEF Next, Step, Returned

\* The conditional that a popped loop was a branch of.
LEMMA PopRule ==
    ASSUME TypeOK, ControlOK, LoopsLinked, ReturnBranch \/ PropagateSkip
    PROVE  /\ Kind[CurrentRule'] = "when"
           /\ \A j \in DOMAIN Top.rules : Top.rules[j] \in Children(CurrentRule')
<1>1. Len(stack') = Len(stack) - 1 /\ Len(stack') \in DOMAIN stack'
  BY PopType, PopStack DEF ReturnBranch, PropagateSkip, Below, TypeOK
<1>2. Len(stack) \in DOMAIN stack /\ Len(stack) > 1
  BY PopStack DEF TypeOK
<1>3. CurrentRule' = stack[Len(stack) - 1].rules[stack[Len(stack) - 1].next]
  BY <1>1, PopStack DEF CurrentRule, Top
<1>4. QED
  BY <1>2, <1>3 DEF LoopsLinked, Top

LEMMA SkippingStep ==
    ASSUME TypeOK, ControlOK, LoopsLinked, SkipFromSkipping, [Next]_vars
    PROVE  SkipFromSkipping'
<1> USE DEF SkipFromSkipping
<1>1. CASE ExecuteRule
  <2>1. CurrentRule' = CurrentRule
    BY <1>1 DEF ExecuteRule, CurrentRule, Top
  <2>2. QED
    BY <1>1, <2>1, SkippingKind, SkipFreeClosed DEF SkipFree
<1>2. CASE ReturnBranch
  BY <1>2, TopFrameType DEF ReturnBranch, ControlOK, InField, Frames
<1>3. CASE PropagateSkip
  <2>1. CurrentRule \notin SkipFree /\ AtRule
    BY <1>3 DEF PropagateSkip, LoopsLinked
  <2>2. CurrentRule \in Children(CurrentRule')
    BY <1>3, <2>1, PopRule DEF AtRule, CurrentRule
  <2>3. CurrentRule' \notin SkipFree
    <3>1. PICK r : r = CurrentRule'
      OBVIOUS
    <3>2. r \in SkipFree => CurrentRule \in SkipFree
      BY <2>2, <3>1, SkipFreeClosed
    <3>3. QED
      BY <2>1, <3>1, <3>2
  <2>4. SkipFree' = SkipFree
    BY DEF SkipFree
  <2>5. QED
    BY <2>3, <2>4
<1>4. CASE UNCHANGED vars
  BY <1>4 DEF vars, CurrentRule, Top
<1>5. CASE Step /\ ~ExecuteRule /\ ~ReturnBranch /\ ~PropagateSkip
  <2>1. pc' # "deliver" \/ ret' = "FAIL"
    BY <1>5 DEF Step, EnterField, NextField, Finish, EnterConditional,
       ConditionalTooDeep, TakeResult, LeaveRules, StoreValidated
  <2>2. QED
    BY <2>1
<1>6. QED
  BY <1>1, <1>2, <1>3, <1>4, <1>5 DEF Next, Returned

-----------------------------------------------------------------------------
(* required: what has run on the current path, and on the earlier ones. *)

LEMMA SeenStays ==
    ASSUME TypeOK, ControlOK, [Next]_vars, input' = input,
           NEW p \in Path, SeenOrError(p)
    PROVE  SeenOrError(p)'
BY ErrorsGrow DEF SeenOrError

\* A required rule that has run saw a value or left an error.
LEMMA RequiredRuns ==
    ASSUME TypeOK, ControlOK, ExecuteRule, Kind[CurrentRule] = "required"
    PROVE  SeenOrError(CurrentPath)'
<1>1. CurrentPath \in Path /\ input.value \in [Path -> Values] /\ input' = input
  BY ErrorStep DEF TypeOK, Input, ExecuteRule, call
<1>2. CurrentPath' = CurrentPath
  BY DEF ExecuteRule, CurrentPath, CurrentField, call, position
<1>3. ret' = Required(input.value[CurrentPath])
  BY DEF ExecuteRule, RuleResult
<1>4. input.value[CurrentPath] = "filled" \/ ret' = "FAIL"
  BY <1>1, <1>3 DEF Required, NullOrEmpty, Values
<1>5. QED
  BY <1>1, <1>2, <1>4, ErrorStep DEF SeenOrError

\* The field's own loop, and its rules as the field's rules.
LEMMA FieldLoop ==
    ASSUME TypeOK, ControlOK, BottomLoop, InField
    PROVE  /\ 1 \in DOMAIN stack /\ stack[1] \in Frames /\ Len(stack) \in Nat
           /\ stack[1].next \in Nat \ {0}
           /\ stack[1].rules = CurrentField.rules
           /\ CurrentField = program[fieldIdx]
           /\ DOMAIN CurrentField.rules = 1 .. Len(CurrentField.rules)
           /\ Len(CurrentField.rules) \in Nat
           /\ CurrentPath \in Path
           /\ Len(stack) = 1 => Top = stack[1]
<1>1. 1 \in DOMAIN stack /\ stack[1] \in Frames /\ Len(stack) \in Nat
  BY DEF TypeOK, ControlOK
<1>2. CurrentField.rules \in Seq(Rule) /\ CurrentPath \in Path
  BY ProgramType DEF ControlOK, CurrentField, CurrentPath
<1>3. QED
  BY <1>1, <1>2 DEF BottomLoop, Frames, CurrentField, Top

\* What a step inside the field must show of the rules of the field.
LEMMA EnforcedStays ==
    ASSUME TypeOK, ControlOK, [Next]_vars, CurrentEnforced, InField,
           UNCHANGED <<program, input, fieldIdx, pathIdx>>,
           CurrentPath \in Path,
           \A i \in DOMAIN CurrentField.rules :
               Enforced(fieldIdx, i) /\ HasRun(i)'
                   => HasRun(i) \/ SeenOrError(CurrentPath)'
    PROVE  CurrentEnforced'
<1>1. CurrentField' = CurrentField /\ CurrentPath' = CurrentPath
  BY DEF CurrentField, CurrentPath
<1>2. \A i : Enforced(fieldIdx, i)' = Enforced(fieldIdx, i)
  BY DEF Enforced, SkipFree
<1>3. SeenOrError(CurrentPath) => SeenOrError(CurrentPath)'
  <2>1. PICK p \in Path : p = CurrentPath
    OBVIOUS
  <2>2. SeenOrError(p) => SeenOrError(p)'
    BY SeenStays
  <2>3. QED
    BY <1>1, <2>1, <2>2 DEF SeenOrError
<1>4. QED
  BY <1>1, <1>2, <1>3 DEF CurrentEnforced

LEMMA CurrentStep ==
    ASSUME TypeOK, ControlOK, BottomLoop, LoopsLinked, SkipFromSkipping,
           CurrentEnforced, [Next]_vars
    PROVE  CurrentEnforced'
<1>1. CASE EnterField
  <2>1. stack'[1].next = 1 /\ pc' = "rules"
    BY <1>1, EnterFieldNext DEF EnterField
  <2>2. CurrentField' = CurrentField
    BY <1>1 DEF EnterField, CurrentField, call, position
  <2>3. CurrentField.rules \in Seq(Rule)
    BY <1>1, ProgramType DEF EnterField, CurrentField
  <2>4. \A i \in DOMAIN CurrentField.rules : ~HasRun(i)'
    BY <2>1, <2>3 DEF HasRun
  <2>5. QED
    BY <2>2, <2>4 DEF CurrentEnforced
<1>2. CASE ExecuteRule
  <2>1. InField /\ pc = "rules" /\ pc' = "deliver" /\ stack' = stack
        /\ UNCHANGED <<program, input, fieldIdx, pathIdx>>
    BY <1>2 DEF ExecuteRule, InField, call, position
  <2>2. ASSUME NEW i \in DOMAIN CurrentField.rules, Enforced(fieldIdx, i),
               HasRun(i)', ~HasRun(i)
        PROVE  SeenOrError(CurrentPath)'
    <3>1. i = stack[1].next /\ Len(stack) = 1
      BY <2>1, <2>2 DEF HasRun
    <3>2. Kind[CurrentRule] = "required"
      BY <2>1, <2>2, <3>1, FieldLoop DEF Enforced, CurrentRule
    <3>3. QED
      BY <1>2, <3>2, RequiredRuns
  <2>3. QED
    BY <2>1, <2>2, FieldLoop, EnforcedStays
<1>3. CASE ConditionalTooDeep
  <2>1. InField /\ pc = "rules" /\ pc' = "deliver" /\ stack' = stack
        /\ UNCHANGED <<program, input, fieldIdx, pathIdx>>
    BY <1>3 DEF ConditionalTooDeep, InField, call, position
  <2>2. ASSUME NEW i \in DOMAIN CurrentField.rules, Enforced(fieldIdx, i), HasRun(i)'
        PROVE  HasRun(i)
    <3>1. SUFFICES ASSUME i = stack[1].next, Len(stack) = 1 PROVE FALSE
      BY <2>1, <2>2 DEF HasRun
    <3>2. Kind[CurrentRule] = "required"
      BY <2>1, <2>2, <3>1, FieldLoop DEF Enforced, CurrentRule
    <3>3. QED
      BY <1>3, <3>2 DEF ConditionalTooDeep
  <2>3. QED
    BY <2>1, <2>2, FieldLoop, EnforcedStays
<1>4. CASE EnterConditional
  <2>1. InField /\ pc = "rules" /\ pc' = "rules"
        /\ UNCHANGED <<program, input, fieldIdx, pathIdx>>
    BY <1>4 DEF EnterConditional, InField, call, position
  <2>2. stack'[1] = stack[1]
    BY <1>4, <2>1, FieldLoop, PushStack
  <2>3. \A i : HasRun(i)' => HasRun(i)
    BY <2>1, <2>2 DEF HasRun
  <2>4. QED
    BY <2>1, <2>3, FieldLoop, EnforcedStays
<1>5. CASE TakeResult
  <2>1. InField /\ pc = "deliver" /\ pc' = "rules"
        /\ UNCHANGED <<program, input, fieldIdx, pathIdx>>
    BY <1>5 DEF TakeResult, InField, call, position
  <2>2. IF Len(stack) = 1 THEN stack'[1].next = stack[1].next + 1
                          ELSE stack'[1].next = stack[1].next
    BY <1>5, <2>1, FieldLoop, TakeStack, TakeNext
  <2>3. \A i \in DOMAIN CurrentField.rules : HasRun(i)' => HasRun(i)
    BY <2>1, <2>2, FieldLoop DEF HasRun
  <2>4. QED
    BY <2>1, <2>3, FieldLoop, EnforcedStays
<1>6. CASE ReturnBranch \/ PropagateSkip
  <2>1. InField /\ pc' = "deliver" /\ pc # "store"
        /\ UNCHANGED <<program, input, fieldIdx, pathIdx>>
    BY <1>6 DEF ReturnBranch, PropagateSkip, InField, call, position
  <2>2. stack'[1] = stack[1] /\ Len(stack') = Len(stack) - 1
    BY <1>6, PopStack, PopType DEF TypeOK, ReturnBranch, PropagateSkip, Below
  <2>3. ASSUME NEW i \in DOMAIN CurrentField.rules, Enforced(fieldIdx, i), HasRun(i)'
        PROVE  HasRun(i)
    <3>1. SUFFICES ASSUME i = stack[1].next, Len(stack') = 1 PROVE FALSE
      BY <2>1, <2>2, <2>3 DEF HasRun
    <3>2. CurrentRule' = CurrentField.rules[i]
      BY <2>1, <2>2, <3>1, FieldLoop DEF CurrentRule, Top
    <3>3. Kind[CurrentField.rules[i]] = "when"
      BY <1>6, <3>2, PopRule
    <3>4. QED
      BY <2>1, <2>3, <3>3, FieldLoop DEF Enforced
  <2>4. QED
    BY <2>1, <2>3, FieldLoop, EnforcedStays
<1>7. CASE LeaveRules
  <2>1. InField /\ stack' = stack
        /\ UNCHANGED <<program, input, fieldIdx, pathIdx>>
    BY <1>7 DEF LeaveRules, InField, call, position
  <2>2. Len(stack) = 1 /\ Top = stack[1]
    BY <1>7, <2>1, FieldLoop DEF LeaveRules
  <2>3. ASSUME NEW i \in DOMAIN CurrentField.rules, Enforced(fieldIdx, i)
        PROVE  HasRun(i)
    <3>1. CASE pc = "rules" /\ ~AtRule
      BY <2>1, <2>2, <3>1, FieldLoop DEF HasRun, AtRule
    <3>2. CASE pc = "deliver" /\ ret = "SKIP"
      <4>1. CurrentRule = CurrentField.rules[stack[1].next] /\ CurrentRule \notin SkipFree
        BY <2>1, <2>2, <3>2, FieldLoop DEF SkipFromSkipping, CurrentRule
      <4>2. ~(stack[1].next < i)
        BY <2>1, <2>3, <4>1, FieldLoop DEF Enforced
      <4>3. QED
        BY <2>1, <2>2, <3>2, <4>2, FieldLoop DEF HasRun
    <3>3. QED
      BY <1>7, <3>1, <3>2 DEF LeaveRules
  <2>4. QED
    BY <2>1, <2>3, FieldLoop, EnforcedStays
<1>8. CASE NextField \/ Finish \/ StoreValidated
  <2>1. ~InField'
    BY <1>8 DEF NextField, Finish, StoreValidated, InField
  <2>2. QED
    BY <2>1 DEF CurrentEnforced
<1>9. CASE UNCHANGED vars
  BY <1>9 DEF vars, CurrentEnforced, InField, CurrentField, CurrentPath, Enforced,
              SkipFree, HasRun, SeenOrError
<1>10. QED
  BY <1>1, <1>2, <1>3, <1>4, <1>5, <1>6, <1>7, <1>8, <1>9 DEF Next, Step, Returned

LEMMA EarlierStep ==
    ASSUME TypeOK, ControlOK, CurrentEnforced, EarlierEnforced, [Next]_vars
    PROVE  EarlierEnforced'
<1>1. UNCHANGED <<program, input>>
  BY DEF Next, Step, Returned, EnterField, NextField, Finish, ExecuteRule,
     EnterConditional, ConditionalTooDeep, TakeResult, ReturnBranch,
     PropagateSkip, LeaveRules, StoreValidated, vars, call
<1>2. \A f, i : Enforced(f, i)' = Enforced(f, i)
  BY <1>1 DEF Enforced, SkipFree
<1>3. \A p \in Path : SeenOrError(p) => SeenOrError(p)'
  BY <1>1, SeenStays
<1>4. SUFFICES ASSUME NEW f \in DOMAIN program, NEW k \in DOMAIN program[f].paths,
                      NEW i \in DOMAIN program[f].rules,
                      Earlier(f, k)', Enforced(f, i)
               PROVE  SeenOrError(program[f].paths[k])
  <2>1. \A f \in DOMAIN program : \A k \in DOMAIN program[f].paths :
            program[f].paths[k] \in Path
    BY ProgramType
  <2>2. QED
    BY <1>1, <1>2, <1>3, <1>4, <2>1 DEF EarlierEnforced, SeenOrError
<1>5. CASE Earlier(f, k)
  BY <1>4, <1>5 DEF EarlierEnforced
<1>6. CASE ~Earlier(f, k)
  <2>1. StoreValidated /\ f = fieldIdx /\ k = pathIdx
    <3>1. CASE NextField
      BY <1>4, <1>6, <3>1, NextFieldEarlier
    <3>2. CASE StoreValidated
      BY <1>4, <1>6, <3>2, StoreEarlier
    <3>3. CASE ~NextField /\ ~StoreValidated
      BY <1>4, <1>6, <3>3, KeepsPosition DEF Earlier
    <3>4. QED
      BY <3>1, <3>2, <3>3
  <2>2. InField /\ \A j : HasRun(j)
    BY <2>1 DEF StoreValidated, InField, HasRun
  <2>3. QED
    BY <1>4, <2>1, <2>2 DEF CurrentEnforced, CurrentPath, CurrentField
<1>7. QED
  BY <1>5, <1>6

\* A required rule that stands behind no rule that can skip is enforced on
\* every path: if the result is valid, every one of them is filled.
THEOREM RequiredHolds == Spec => []RequiredEnforced
<1>1. Init => EnforcedInv
  <2> SUFFICES ASSUME Init PROVE EnforcedInv
    OBVIOUS
  <2>1. \A f \in DOMAIN program : \A k \in DOMAIN program[f].paths : ~Earlier(f, k)
    BY InitType, ProgramType DEF Init, Earlier
  <2>2. EarlierEnforced
    BY <2>1 DEF EarlierEnforced
  <2>3. QED
    BY <2>2 DEF Init, EnforcedInv, LoopsLinked, SkipFromSkipping, CurrentEnforced,
                InField
<1>2. TypeOK /\ CallInv /\ EnforcedInv /\ [Next]_vars => EnforcedInv'
  BY LinkedStep, SkippingStep, CurrentStep, EarlierStep DEF CallInv, EnforcedInv
<1>3. TypeOK /\ CallInv /\ EnforcedInv => RequiredEnforced
  <2> SUFFICES ASSUME TypeOK, CallInv, EnforcedInv, pc = "done", isValid,
                      NEW f \in DOMAIN program, NEW k \in DOMAIN program[f].paths,
                      NEW i \in DOMAIN program[f].rules, Enforced(f, i)
               PROVE  input.value[program[f].paths[k]] = "filled"
    BY DEF RequiredEnforced
  <2>1. Earlier(f, k)
    BY ProgramType DEF CallInv, ControlOK, Earlier, TypeOK
  <2>2. SeenOrError(program[f].paths[k])
    BY <2>1 DEF EnforcedInv, EarlierEnforced
  <2>3. errors[program[f].paths[k]] = <<>>
    BY ProgramType DEF CallInv, VerdictFromErrors
  <2>4. QED
    BY <2>2, <2>3 DEF SeenOrError
<1>4. QED
  BY <1>1, <1>2, <1>3, TypeCorrect, CallInvariant, PTL DEF Spec

=============================================================================
