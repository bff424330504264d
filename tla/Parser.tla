------------------------------- MODULE Parser -------------------------------
(***************************************************************************)
(* sf_parse_rules: from the rules array given to a constructor to the      *)
(* table of parsed rules, or to NULL.  The recursion of                    *)
(* parse_single_rule_with_depth is a stack of the conditionals it is in.   *)
(*                                                                         *)
(* What the parser allocates is a set of blocks.  A block is named by the  *)
(* place of its owner in the rules array, a sequence of slots from the     *)
(* table down, and by the part of it that it is.  An owner is reached from *)
(* the one above once it is stored there: linked holds the places stored   *)
(* in the table, in a field's rules or in a branch and counted.            *)
(*                                                                         *)
(* Of a given rule the parser sees whether it names a known rule with the  *)
(* parameters it needs (Shape), and of a conditional whether its condition *)
(* parses.  An element that is a PHP reference is no array to the parser   *)
(* and makes its rule an invalid one: so does every array that contains    *)
(* itself, which it can only by a reference.                               *)
(***************************************************************************)
EXTENDS Integers, SequencesExt

CONSTANTS
    Given,          \* the rules that occur in the given arrays
    Shape,          \* what each is
    Then, Else,     \* the branches of the conditionals
    HasElse,        \* the conditionals given with an else array
    RuleSets,       \* the rules arrays a constructor may be given
    MAX_RULE_PARSE_DEPTH

\* "invalid" is any rule the parser throws on; "plain" one that owns nothing,
\* "owning" one with a copied parameter; "unconditioned" a conditional whose
\* condition sf_parse_condition answers with NULL.
Shapes == {"invalid", "plain", "owning", "when", "unconditioned"}

\* A field: its name is accepted, its value is an array, and the rules in it.
Entry == [named : BOOLEAN, isArray : BOOLEAN, rules : Seq(Given)]

ASSUME ParserAssumption ==
    /\ Shape \in [Given -> Shapes]
    /\ Then \in [Given -> Seq(Given)]
    /\ Else \in [Given -> Seq(Given)]
    /\ HasElse \subseteq Given
    /\ \A g \in Given \ HasElse : Else[g] = <<>>
    /\ \A r \in RuleSets : r \in Seq(Entry)
    /\ MAX_RULE_PARSE_DEPTH \in Nat

VARIABLES
    rules,      \* the given rules array
    pc,         \* where the parse stands
    field,      \* the field of the loop of sf_parse_rules
    next,       \* the rule of the loop over the field's rules
    call,       \* the rule parse_single_rule_with_depth is called for
    stack,      \* the conditionals whose branches are being parsed
    ok,         \* what the last call returned: a rule, or NULL
    linked,     \* the places stored in their owner
    made,       \* every block allocated
    freed,      \* those freed since
    twice,      \* those freed when they were already free
    thrown,     \* an InvalidRuleException is pending
    result      \* what sf_parse_rules returns

loops == <<field, next>>
memory == <<made, freed, twice>>
vars == <<rules, pc, field, next, call, stack, ok, linked, made, freed, twice,
          thrown, result>>

-----------------------------------------------------------------------------
Slot(s, i) == [slot |-> s, index |-> i]
Block(at, part) == [at |-> at, part |-> part]

Table == <<>>
FieldAt(f) == <<Slot("field", f)>>
RuleAt(f, i) == <<Slot("field", f), Slot("rule", i)>>

\* The blocks the owner at a place frees: its own, and those of the places
\* linked below it.
Tree(at) ==
    {b \in made : /\ IsPrefix(at, b.at)
                  /\ \A n \in Len(at) + 1 .. Len(b.at) : SubSeq(b.at, 1, n) \in linked}

Allocate(blocks) == made' = made \cup blocks /\ UNCHANGED <<freed, twice>>

Free(blocks) ==
    /\ freed' = freed \cup blocks
    /\ twice' = twice \cup (blocks \cap freed)
    /\ UNCHANGED made

Top == stack[Len(stack)]
Below == Front(stack)
Branch(frame) == IF frame.branch = "then" THEN Then[frame.given] ELSE Else[frame.given]

NoCall == [at |-> Table, given |-> CHOOSE g \in Given : TRUE, depth |-> 0]

Init ==
    /\ rules \in RuleSets
    /\ pc = "fields"
    /\ field = 1
    /\ next = 1
    /\ call = NoCall
    /\ stack = <<>>
    /\ ok = FALSE
    /\ linked = {}
    /\ made = {Block(Table, "table")}
    /\ freed = {}
    /\ twice = {}
    /\ thrown = FALSE
    /\ result = "none"

-----------------------------------------------------------------------------
\* The loop over the fields.

\* A field name that is not accepted, or rules that are no array.
RejectField ==
    /\ pc = "fields"
    /\ field \in DOMAIN rules
    /\ ~(rules[field].named /\ rules[field].isArray)
    /\ thrown' = TRUE
    /\ Free(Tree(Table))
    /\ result' = "NULL"
    /\ pc' = "done"
    /\ UNCHANGED <<rules, loops, call, stack, ok, linked>>

FieldBlocks(f) == {Block(FieldAt(f), part) : part \in {"struct", "name", "rules"}}

StartField ==
    /\ pc = "fields"
    /\ field \in DOMAIN rules
    /\ rules[field].named
    /\ rules[field].isArray
    /\ Allocate(FieldBlocks(field))
    /\ next' = 1
    /\ pc' = "rules"
    /\ UNCHANGED <<rules, field, call, stack, ok, linked, thrown, result>>

NextRule ==
    /\ pc = "rules"
    /\ next \in DOMAIN rules[field].rules
    /\ call' = [at |-> RuleAt(field, next), given |-> rules[field].rules[next], depth |-> 0]
    /\ pc' = "call"
    /\ UNCHANGED <<rules, loops, stack, ok, linked, memory, thrown, result>>

StoreField ==
    /\ pc = "rules"
    /\ next \notin DOMAIN rules[field].rules
    /\ linked' = linked \cup {FieldAt(field)}
    /\ field' = field + 1
    /\ pc' = "fields"
    /\ UNCHANGED <<rules, next, call, stack, ok, memory, thrown, result>>

StoreRule ==
    /\ pc = "return"
    /\ stack = <<>>
    /\ ok
    /\ linked' = linked \cup {call.at}
    /\ next' = next + 1
    /\ pc' = "rules"
    /\ UNCHANGED <<rules, field, call, stack, ok, memory, thrown, result>>

\* A rule of the field did not parse: the field, then the table are freed.
AbandonField ==
    /\ pc = "return"
    /\ stack = <<>>
    /\ ~ok
    /\ Free(Tree(FieldAt(field)) \cup Tree(Table))
    /\ result' = "NULL"
    /\ pc' = "done"
    /\ UNCHANGED <<rules, loops, call, stack, ok, linked, thrown>>

Finish ==
    /\ pc = "fields"
    /\ field \notin DOMAIN rules
    /\ result' = "table"
    /\ pc' = "done"
    /\ UNCHANGED <<rules, loops, call, stack, ok, linked, memory, thrown>>

-----------------------------------------------------------------------------
\* parse_single_rule_with_depth.
Returns(value) == ok' = value /\ pc' = "return"

TooDeep == pc = "call" /\ call.depth > MAX_RULE_PARSE_DEPTH

RejectDepth ==
    /\ TooDeep
    /\ thrown' = TRUE
    /\ Returns(FALSE)
    /\ UNCHANGED <<rules, loops, call, stack, linked, memory, result>>

Parses(shape) == pc = "call" /\ ~TooDeep /\ Shape[call.given] = shape

\* The rule struct is freed again before anything else is allocated.
RejectRule ==
    /\ Parses("invalid")
    /\ thrown' = TRUE
    /\ Returns(FALSE)
    /\ UNCHANGED <<rules, loops, call, stack, linked, memory, result>>

ParseLeaf ==
    /\ Parses("plain") \/ Parses("owning")
    /\ Allocate({Block(call.at, "struct")}
                    \cup (IF Shape[call.given] = "owning" THEN {Block(call.at, "param")} ELSE {}))
    /\ Returns(TRUE)
    /\ UNCHANGED <<rules, loops, call, stack, linked, thrown, result>>

\* sf_parse_condition answered with NULL: the rule is freed and NULL returned,
\* and nobody throws.
RejectCondition ==
    /\ Parses("unconditioned")
    /\ Returns(FALSE)
    /\ UNCHANGED <<rules, loops, call, stack, linked, memory, thrown, result>>

OpenConditional ==
    /\ Parses("when")
    /\ Allocate({Block(call.at, part) : part \in {"struct", "condition", "then"}})
    /\ stack' = Append(stack, [at |-> call.at, given |-> call.given, depth |-> call.depth,
                               branch |-> "then", next |-> 1])
    /\ pc' = "branch"
    /\ UNCHANGED <<rules, loops, call, ok, linked, thrown, result>>

\* The recursive call for the next rule of the branch.
NextInner ==
    /\ pc = "branch"
    /\ Top.next \in DOMAIN Branch(Top)
    /\ call' = [at |-> Append(Top.at, Slot(Top.branch, Top.next)),
                given |-> Branch(Top)[Top.next],
                depth |-> Top.depth + 1]
    /\ pc' = "call"
    /\ UNCHANGED <<rules, loops, stack, ok, linked, memory, thrown, result>>

\* Mutant of BranchDone: the last rule of a branch is left out.
BranchDoneEarly == pc = "branch" /\ Top.next + 1 \notin DOMAIN Branch(Top)

BranchDone == pc = "branch" /\ Top.next \notin DOMAIN Branch(Top)

OpenElse ==
    /\ BranchDone
    /\ Top.branch = "then"
    /\ Top.given \in HasElse
    /\ Allocate({Block(Top.at, "else")})
    /\ stack' = Append(Below, [Top EXCEPT !.branch = "else", !.next = 1])
    /\ UNCHANGED <<rules, pc, loops, call, ok, linked, thrown, result>>

CloseConditional ==
    /\ BranchDone
    /\ Top.branch = "else" \/ Top.given \notin HasElse
    /\ call' = [at |-> Top.at, given |-> Top.given, depth |-> Top.depth]
    /\ stack' = Below
    /\ Returns(TRUE)
    /\ UNCHANGED <<rules, loops, linked, memory, thrown, result>>

\* Mutants of StoreInner: the loop stays at its rule; a stored rule is not counted.
StoreInnerStays ==
    /\ pc = "return"
    /\ stack # <<>>
    /\ ok
    /\ linked' = linked \cup {call.at}
    /\ pc' = "branch"
    /\ UNCHANGED <<rules, loops, call, stack, ok, memory, thrown, result>>
StoreInnerUncounted ==
    /\ pc = "return"
    /\ stack # <<>>
    /\ ok
    /\ stack' = Append(Below, [Top EXCEPT !.next = @ + 1])
    /\ pc' = "branch"
    /\ UNCHANGED <<rules, loops, call, ok, linked, memory, thrown, result>>

StoreInner ==
    /\ pc = "return"
    /\ stack # <<>>
    /\ ok
    /\ linked' = linked \cup {call.at}
    /\ stack' = Append(Below, [Top EXCEPT !.next = @ + 1])
    /\ pc' = "branch"
    /\ UNCHANGED <<rules, loops, call, ok, memory, thrown, result>>

\* Mutants of AbandonConditional: a failure in the else branch is not passed on,
\* and the rule frees itself but leaves its place counted by its owner.
AbandonThenOnly ==
    /\ pc = "return"
    /\ stack # <<>>
    /\ ~ok
    /\ Free(Tree(Top.at))
    /\ call' = [at |-> Top.at, given |-> Top.given, depth |-> Top.depth]
    /\ stack' = Below
    /\ Returns(Top.branch = "else")
    /\ UNCHANGED <<rules, loops, linked, thrown, result>>
AbandonStored ==
    /\ pc = "return"
    /\ stack # <<>>
    /\ ~ok
    /\ Free(Tree(Top.at))
    /\ linked' = linked \cup {Top.at}
    /\ call' = [at |-> Top.at, given |-> Top.given, depth |-> Top.depth]
    /\ stack' = Below
    /\ Returns(FALSE)
    /\ UNCHANGED <<rules, loops, thrown, result>>

\* A rule of a branch did not parse: the rules stored in both branches are
\* freed, then the arrays, the condition and the rule itself.
AbandonConditional ==
    /\ pc = "return"
    /\ stack # <<>>
    /\ ~ok
    /\ Free(Tree(Top.at))
    /\ call' = [at |-> Top.at, given |-> Top.given, depth |-> Top.depth]
    /\ stack' = Below
    /\ Returns(FALSE)
    /\ UNCHANGED <<rules, loops, linked, thrown, result>>

-----------------------------------------------------------------------------
Returned == pc = "done" /\ UNCHANGED vars

Step ==
    \/ RejectField \/ StartField \/ NextRule \/ StoreField \/ StoreRule
    \/ AbandonField \/ Finish
    \/ RejectDepth \/ RejectRule \/ ParseLeaf \/ RejectCondition
    \/ OpenConditional \/ NextInner \/ OpenElse \/ CloseConditional
    \/ StoreInner \/ AbandonConditional

Next == Step \/ Returned

Spec == Init /\ [][Next]_vars

\* The parser is one call that runs to its end.
FairSpec == Spec /\ WF_vars(Step)

-----------------------------------------------------------------------------
live == made \ freed

\* The type invariant.
TypeOK ==
    /\ rules \in RuleSets
    /\ pc \in {"fields", "rules", "call", "branch", "return", "done"}
    /\ field \in 1 .. Len(rules) + 1
    /\ pc \in {"rules", "call", "branch", "return"} => field \in DOMAIN rules
    /\ next \in Nat \ {0}
    /\ call.given \in Given /\ call.depth \in 0 .. MAX_RULE_PARSE_DEPTH + 1
    /\ \A k \in DOMAIN stack :
          /\ stack[k].given \in Given
          /\ stack[k].depth = k - 1
          /\ stack[k].branch \in {"then", "else"}
          /\ stack[k].next \in Nat \ {0}
    /\ pc = "call" => call.depth = Len(stack)
    /\ pc = "branch" => stack # <<>>
    /\ pc \in {"fields", "rules", "done"} => stack = <<>>
    /\ ok \in BOOLEAN /\ thrown \in BOOLEAN
    /\ freed \subseteq made
    /\ result \in {"none", "NULL", "table"}
    /\ result = "none" <=> pc # "done"

\* No block is freed twice, whatever fails in the rules array.
NoDoubleFree == twice = {}

\* While the parse runs, what is live is owned by the table, the field in
\* progress, the conditionals in progress or the rule just returned.
OwnedMeanwhile ==
    live = Tree(Table)
           \cup (IF pc = "fields" THEN {} ELSE Tree(FieldAt(field)))
           \cup (UNION {Tree(stack[k].at) : k \in DOMAIN stack})
           \cup (IF pc = "return" /\ ok THEN Tree(call.at) ELSE {})

\* No block is without an owner at any time: when the parse fails everything it
\* allocated is freed, when it succeeds the table owns it all and nothing it owns
\* was freed, and in between it is as OwnedMeanwhile says.
NothingLeaks ==
    CASE result = "NULL" -> live = {}
      [] result = "table" -> live = Tree(Table) /\ freed = {}
      [] OTHER -> OwnedMeanwhile

\* A chain of conditionals from a field's list, each nested in the one before.
Nested(f, chain) ==
    /\ chain[1] \in ToSet(rules[f].rules)
    /\ \A k \in 1 .. Len(chain) - 1 :
          /\ Shape[chain[k]] = "when"
          /\ chain[k + 1] \in ToSet(Then[chain[k]]) \cup ToSet(Else[chain[k]])

\* What the parser accepts, said without an algorithm: every field has a name
\* and an array, and every rule at any depth is known and no deeper than the limit.
Acceptable ==
    \A f \in DOMAIN rules :
        /\ rules[f].named /\ rules[f].isArray
        /\ \A n \in 1 .. MAX_RULE_PARSE_DEPTH + 2 : \A chain \in [1 .. n -> Given] :
              Nested(f, chain) =>
                  /\ Shape[chain[n]] \in {"plain", "owning", "when"}
                  /\ n - 1 <= MAX_RULE_PARSE_DEPTH

\* The parser accepts the rules arrays that are acceptable and no others.
AcceptsExactly == pc = "done" => (result = "table" <=> Acceptable)

\* The rule in a slot of a branch of a given rule, and the one that was given at
\* a place of a field's rules.
InSlot(g, s) == IF s.slot = "then" THEN Then[g][s.index] ELSE Else[g][s.index]

GivenAt(at) ==
    LET Walk[n \in 2 .. Len(at)] ==
            IF n = 2 THEN rules[at[1].index].rules[at[2].index]
                     ELSE InSlot(Walk[n - 1], at[n])
    IN  Walk[Len(at)]

\* An accepted table holds every rule that was given, at its place: those of
\* the fields, and both branches of every conditional it holds.
NothingDropped ==
    result = "table" =>
        /\ \A f \in DOMAIN rules : \A i \in DOMAIN rules[f].rules : RuleAt(f, i) \in linked
        /\ \A at \in linked : Len(at) > 1 /\ Shape[GivenAt(at)] = "when" =>
              /\ \A i \in DOMAIN Then[GivenAt(at)] : Append(at, Slot("then", i)) \in linked
              /\ \A i \in DOMAIN Else[GivenAt(at)] : Append(at, Slot("else", i)) \in linked

\* "Exception was thrown by sf_parse_rules" (validator.c, of a NULL result).
\* The run silent_null shows that it need not have been.
NullMeansThrown == result = "NULL" => thrown

\* The parse ends.
Terminates == <>(pc = "done")

=============================================================================
