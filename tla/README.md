# Verification of the signalforge/validation PHP extension

TLA+ models of the validation extension in `src/`, model-checked with TLC, and
theorems about them checked with TLAPS. Paths below are relative to the
repository (`src/...` is the repository root), line numbers belong to the
commit the project was written for; `PROJECT.json` maps every definition to the
lines it stands for.

## The system

A `Validator` object is constructed from an array of rules and then asked to
validate arrays of data. It runs inside PHP: one thread, no I/O, nothing that
survives the request. What makes it hard is not concurrency but depth and
bookkeeping: rules and conditions are trees the user writes, both the parser and
the evaluators recurse under limits of their own, a field pattern expands to
paths that are then looked up again, failures and skips travel up through
several levels of loops, all memory is freed by hand, and a comparison or a
warning may call PHP code in the middle of it all.

| part | code | state | operations |
|---|---|---|---|
| rule engine | `src/src/validator.c` 184-256, 295-373; `rules/regional.c` 290-350; `rules/presence.c` | the loops over fields, paths, rules and branches; `errors`, `validated`, `is_valid` of the result | `validate`, `validate_field`, `sf_execute_conditional`, `sf_execute_rule` |
| wildcard expansion, dotted lookup | `src/src/wildcard.c` | the recursion, the table of expanded paths | `sf_expand_wildcards`, `sf_get_nested_value` |
| rule parser | `src/src/parser.c` | the table of field rules, the rule trees, everything they allocate | `sf_parse_rules`, `parse_single_rule_with_depth`, the frees |
| conditions | `src/src/condition.c` | condition trees | `sf_parse_condition`, `sf_evaluate_condition` |
| validator objects | `src/src/validator.c` 21-181, 263-288, 390-413, 433-674 | `intern->rules`, `intern->regex_cache` | create, `__construct`, `make`, clone, free, `sf_get_or_compile_regex` |
| result object | `src/src/result.c` | the two tables and the flag | accessors, clone, free |
| value rules | `src/src/rules/*.c` | none | one function per rule |
| helpers | `src/src/util/*.c` | none | UTF-8 lengths and offsets, wrappers of the allocator |

`__construct` and `make` call the parser, which calls the condition parser for
each `when`. `validate` walks the table the object owns: a field with a wildcard
is expanded, each path is looked up, and `validate_field` runs the field's rules
on the value; a conditional evaluates its condition and runs one of its branches
with the same context. Rules report through `sf_add_error` and through their
return value (PASS, FAIL, SKIP), and it is from these two channels that
`is_valid` and `validated` are computed: the first from the error table, the
second from the return values. They must agree.

What makes each part correct:

* rule engine: the verdict is complete (valid means that every path with a value
  is in `validated`), no failure is lost, a required field is enforced, the
  evaluator's depth limit is never met by a rule set the parser accepted;
* wildcards: the paths found are those the pattern means, each reading the element
  it was made for, as many as the limits allow, and nothing allocated on the way
  is left behind;
* parser: it accepts what is acceptable, keeps every rule, and each block it
  allocates has one owner at any time, on every failure path;
* conditions: parsing and evaluation together give what the condition means;
* objects: each owns its rules, and PHP code that runs inside a call takes them
  from it in no other way than those named below;
* results: what a result says stays as it was, and what it shares is counted;
* value rules: an answer depends on what the value is and not on the clock, on
  memory that was not written, or on the order in which two rules are asked;
  opposite rules answer opposite, stronger rules imply weaker ones, and every
  exception to that is named.

## The modules

| module | models | how state and actions correspond |
|---|---|---|
| `RuleEngine` | one call of `validate()` | `fieldIdx`, `pathIdx` are its two loops; `stack` holds one frame per running rule list, the bottom one `validate_field`'s and one more per conditional; a frame's `result` is `has_error` or `branch_result`; one action per step of a loop, per return and per early return. A rule's test is an input (`input.passes`), and so is whether a condition holds |
| `ValidationContract` | the answer, as a function | the recursion of the rules written down directly; its only step is the answer. TLC only (RECURSIVE) |
| `RuleEngineProofs` | | theorems about `RuleEngine` |
| `Wildcard` | `sf_expand_wildcards`, `sf_get_nested_value` | `stack` is the recursion, a frame being one call with its depth and its loop over the keys; `result` is the table of paths, `blocks` how many blocks are allocated. Paths are sequences of segments, and a key with dots prints as several |
| `Parser` | `sf_parse_rules` and everything below | `stack` is the recursion through conditionals; `made`, `linked`, `freed` and `twice` follow every block from its allocation through the owner it is linked to until it is freed. What a rule may have as parameters is the shape of a given rule |
| `Condition` | `sf_parse_condition`, then `sf_evaluate_condition` | one `stack` for either recursion, the depth argument being its length. PHP's comparison, emptiness, `@length`, `@type` and PCRE2 are constants |
| `Lifecycle` | all objects | `rulesOf` and `cache` are the two fields of an object; `content` is what lives at the address of a table; `frames` are the calls in progress: constructions, `make`, clones (between the creation of the clone and the copy of the rules the clone handler runs the `__clone` of a subclass) and validations. A frame whose `user` is set is in PHP code, which may start any operation on any object. A frame's `table` is the address the loop of `validate` walks; when that table is freed the frame loses it (`CutWalks`) |
| `ValidatorObjects` | what objects promise | each has the rules it was given last, whatever happens to others; a clone gets those its original has when it is finished |
| `TextRules` | `util/utf8.c`; `alpha`, `alpha_num`, `alpha_dash`, `lowercase`, `uppercase` | one call; `step` is the loop it is in and `at` the pointer, over bytes. What UTF-8 is stands in the properties, from the code points up |
| `Checksums` | `validate_oib`, `validate_iban` | two calls, on the number meant and on the number typed, that read in step: `sum` is `t` or the remainder, `digits` how far the buffer is filled, `slip` what the typist did |
| `Dates` | `validate_date_php`, `parse_date_to_time` and the six rules on dates | one call; `clock` moves in any step, `thrown` is PHP's pending exception, `stamp` starts with whatever memory holds |
| `ValueRules` | the rules of `numeric.c`, `comparison.c`, `types.c` and the rest of `string.c`, with `get_size`, `get_numeric_value`, `values_equal` | the rules of one family run in any order on one value, `verdicts` keeps their answers. Numbers are counted in fractions of 1, so that doubles lie between integers; the rounding of a large integer is a constant |
| `ArrayRules` | `distinct` | one call; `seen` is its table of texts, `TextOf` what `snprintf` makes of an item |
| `Results` | `result.c`, and what `validate` stores | `heap` is PHP's counted values and references, `holds` who holds which: the two tables of each result, and the caller's data, variable and array. A caller's assignment is an action as well |
| `LifecycleProofs` | | theorems about `Lifecycle`, that it implements `ValidatorObjects` among them |
| `WildcardProofs`, `ParserProofs`, `ConditionProofs`, `ResultProofs` | | theorems about `Wildcard`, `Parser`, `Condition` and `Results` |
| `LeafProofs` | | theorems about `Checksums`, `Dates`, `ValueRules`, `ArrayRules` and `TextRules`, one part for each |
| `NaturalSets` | | induction over the natural numbers, for a set of them, and that such a set has a least one |
| `MC...` | | the small instances TLC checks; `MCComponents` puts the modules that share no state side by side |

Every operation is one module's action with the whole of its effect, and errors
are actions as well (`ConditionalTooDeep`, `RefuseCondition`, `AbandonField`,
`ConstructFails`, ...).

## What is checked

All runs pass except those marked *violated*, which show a disagreement between
the code and what the repository says of it (see the findings).

| run | instance | shows |
|---|---|---|
| `rule_engine` | rule lists of one and two fields over `required`, `nullable`, `filled`, `present`, value rules and conditionals whose branches skip and nest three deep; one and two paths, shared or not; every value and every outcome a program can tell apart; parse limit 2, evaluation limit 1 | `ImplementsContract`: the answer is the contract's, at the evaluator's limit too; `CallInv`, `ValidMeansComplete`, `RequiredEnforced`, `LosslessResult`, `DepthsAgree`, `NullableShields`, `Terminates` |
| `skip_loses_failure` | | *violated*: `FailureExcludesValidated` |
| `expand` | every tree to depth four over keys of every kind (plain, with a dot, empty, negative, an integer), patterns with up to three wildcards; limits low enough for each early return to fire: 30 characters, three paths, depth four | `ExpansionSound`, `ExpansionComplete`, `PlainSameElement`, `TableOwnsAll`, `Terminates`; `CapOvershoot` bounds how far the limit on paths is passed |
| `scalar_element_skipped` | | *violated*: `NoElementSkipped` |
| `parse` | rules arrays of up to two fields and two rules each over ten given rules: leaves that fail in either branch of nested conditionals, conditionals at the depth limit and past it; depth limit 2 | `NoDoubleFree`, `NothingLeaks` (at the end and in between), `AcceptsExactly`, `NothingDropped`, `Terminates` |
| `silent_null` | | *violated*: `NullMeansThrown` |
| `condition` | nineteen conditions, nested to and past the limits, with malformed and missing parts; every value, absent included, in two fields and as the value validated; parse limit 3, evaluation limit 2 | `EvaluatesMeaning`, `ParsedFits`, `OperatorsCoherent`, `Terminates` |
| `and_drops_part` | | *violated*: `AndMeansAll` |
| `components` | the modules that share no state side by side, each with the instance below: texts, checksums, dates, values, arrays, results, validator objects | `TextVerdict`, `WalkOnCharacters`; `MistypedRefused`, `NumericFits`; `DateVerdict`; `VerdictsCohere`, `NumbersMeant`; `DistinctVerdict`; `CountsHolders`, `ResultKeeps`; `OneOwner`, `LeaksByOverwriting`, `CutByConstructing`, `ImplementsObjects` |
| `alpha_admits_any` | the texts of `components` | *violated*: `AlphaOnlyLetters` |
| `walked_table_freed` | the objects of `components`: one is constructed again from inside its own `validate` | *violated*: `WalksOwnTable` |
| `nested_construct_leaks` | the objects of `components`: one is constructed again from inside its own construction | *violated*: `NothingLeaks` |

Every property of a
passing run has a mutant in `PROJECT.json`: a definition changed the way a bug
would change the code, under which TLC finds that property violated.

### Bounds and why they are enough

The limits of the code (`SF_MAX_RULE_PARSE_DEPTH`, the two condition depths,
`SF_MAX_PATH_LENGTH`, ...) are constants of the modules, so that a run can meet
them with small inputs: every action that handles a limit fires in some run.
The
code has the evaluator's limits equal to the parser's
(`php_signalforge_validation.h`); the runs `rule_engine` and `condition` set them
one lower, so that the actions that refuse to go deeper fire. That they cannot fire
with the limits of the code is what `DepthsAgree` (with the theorem `DepthBounded`)
and `ParsedFits` say. Two paths and two
fields are enough for one field to affect another's path; three rules, for a rule
before and a rule behind the one that skips; conditionals within conditionals at
the limit, for a result that travels through a level that neither made nor
finally takes it. `MaxFrames` is the only
bound that has no counterpart in the code.

The components below share no variables, so the run `components` has one behaviour
for each of theirs and no product of them:

* objects: two objects, three addresses of tables, two sets of rules, two calls in
  progress, any operation from inside any other. Two calls are enough for any
  operation to come between the first and the second half of any other on the same
  object and on another; a third address lets a table be freed and its address be
  used again while the other object keeps its own. The theorems about objects are
  for any number of all of these;
* texts: all of up to three bytes out of the letters, digits and every byte at
  which a test of `sf_utf8_is_valid` changes its answer, and texts of four bytes
  for each lead byte; offsets of up to three characters; which of the characters
  that occur are letters is given as Unicode has it;
* checksums: OIBs of the real length, IBANs of five and six characters over ten
  digits, four letters' values, a blank and a foreign character. A slip has two
  readings and the rest of the number only multiplies their difference, so a
  longer IBAN meets no new case;
* dates: days of two seconds and a clock that moves twice, which is once between
  any two parses;
* values: integers from -8 to 7 with halves between them, doubles of three binary
  digits, doubles beyond the integers and NaN, and both casts that compilers make
  of those;
* arrays: three items over fifteen, with two digits for the six of `%g`;
* results: two results, four values in memory, a caller with three places of his
  own. The allocator gives a value that was freed out again at once, so one that
  is freed too early is seen to change.

### Fairness

`FairSpec` of `RuleEngine`, `Wildcard`, `Parser` and `Condition` is weak fairness
of the step relation: each module is one call of sequential C code that waits for
nobody, so a step that can be taken is taken. A property `Terminates` of such a
module says that the loops and the recursion end. `Lifecycle` is checked for safety only; its
actions are the choices of a caller, which owes no progress. Nor is there
fairness in the rules: their loops go over a finite text or array by one step
each, and what could be wrong with them is the answer.

### Assumptions on the environment

* `RuleEngine`: the trees are ones the parser builds (`ParsedTree`), and the
  outcome of a rule on a path does not depend on the other rules that run.
* `Wildcard`: no path separator inside a segment; the order of an array's keys is
  fixed while it is walked.
* `Parser`: allocation does not fail (the engine's allocator ends the request).
* `Checksums`: characters are digits, letters, blanks and others; the locale has
  no other letters for `toupper`.
* `Dates`: no change to or from summer time between the two dates; a date without
  a time takes the time of day of the clock, as PHP's documentation of
  `createFromFormat` has it.
* `ValueRules`: rounding to a double is monotone; a text without a zero byte that
  `strtol` reads to its end is a number to `is_numeric_string` (PHP 8, which lets
  blanks follow); PHP's comparison answers the
  same for the same pair, and never that NaN is equal to something. A value the
  caller holds by reference reaches the rules as a reference, and none of the
  types they ask for.
* `Results`: PHP writes in place into references and into values with one holder,
  and copies others first.
* `Lifecycle`: PHP code called from inside a call may start every operation on
  every object. It does not hold the last reference to an object in a call: the
  engine holds `$this` for a method, and the caller holds the original while a
  clone of it is made. While rules are freed no PHP code runs: values in their
  conditions have no destructors that use validators.
* `Parser`, `Condition`: an element that is a PHP reference is neither a text nor an
  array to them, as the code looks through none (`parser.c:166`, `condition.c:132`).
  An array that contains itself does so through a reference: the parser of rules
  refuses it at once, that of conditions passes over the element. No limit is
  needed for it, and the given rules and conditions of the runs are trees.

## What is proved

`RuleEngineProofs` proves for every rule set, every data array and any limits:

* `TypeCorrect`: `TypeOK` together with `ControlOK`, which ties the loop
  positions and the height of the stack to the control point. Every other proof
  starts from it.
* `CallInvariant`: `CallInv`. The verdict `ValidMeansComplete` says something of
  the end of the call only, so it is not inductive. What is: a failure pending in
  any loop has left an error at the current path (`FailureLeavesError`), every path
  already looked at is validated or in error (`EarlierDecided`), nothing else is
  validated (`ValidatedEarlier`), and the conditionals of the i-th loop on the
  stack were parsed at depth i - 1 (`LevelsFollowStack`).
* `ValidComplete` (`ValidMeansComplete`) follows from it at the end of the call.
* `DepthAgreement` (`DepthsAgree`), from `LevelsFollowStack`: the evaluator counts
  the depth of a conditional as the parser did. `DepthBounded` follows: if the
  evaluator's limit is at least the parser's, it is never met.
* `Lossless` (`LosslessResult`): if no path is scheduled twice and no branch can
  skip, a path with an error is not validated. Its strengthening `LosslessInv`
  adds that all lists on the stack above the first are free of skips, that a skip
  is seen only by `validate_field`'s own loop, and that an error of the current
  path is remembered by some loop. The first condition is
  needed because two patterns (`items.*` and `items.0`) may schedule one path, which
  one of them fails and the other stores; the second as `skip_loses_failure` shows.
  `LosslessInv` is used in the proof only.

The same module goes on with the presence rules:

* `Shielded` (`NullableShields`): the flag `has_nullable` is a fact of the field
  until the field is left (`NullableKnown`), so a rule that starts with the
  nullable guard cannot fail on an empty value, however deep its branch.
* `RequiredHolds` (`RequiredEnforced`), by `EnforcedInv`: every loop above the
  first runs a branch of the conditional that the loop below it stands at
  (`LoopsLinked`); hence a skip that travels down the stack comes from a rule
  whose tree can skip (`SkipFromSkipping`); hence the field's own loop cannot be
  left in front of an enforced rule, and every enforced rule that has run saw a
  value or left an error (`CurrentEnforced`, `EarlierEnforced`).

These proofs assume `ConstantsAssumption` of `RuleEngine` only, which every run of
that module evaluates; `DepthBounded` has its relation of the limits as a
hypothesis.

`LifecycleProofs` proves for any objects, tables, rules and patterns, and calls
nested to any depth:

* `TypeCorrect` and `Owners`, from `StateOK`: `TypeOK` is not inductive without
  `OneOwner`, because the patterns that a walk may still ask for belong to the
  table its object points to, and an owner in common would let another object
  replace them.
* `LeaksOnly` (`LeaksByOverwriting`): a table is left behind in one way only, by a
  construction or a clone that comes to its end and assigns over a table that PHP
  code gave to the same object while it ran; and either begins with an object that
  has none.
* `CutsOnly` (`CutByConstructing`): the table a validation walks is taken from it in
  one way only, by a construction of its object that begins while it runs. What is
  inductive is `WalkInv`: a walk has the table its object owns or has lost it; above
  it on the stack no frame clones into its object, and if one constructs it the walk
  has lost its table already.
* `Independent`: `Lifecycle` implements `ValidatorObjects` (`ImplementsObjects`),
  action by action, with the contents of the table an object points to as what it
  holds (`Holding`) and the frames of the clones as those being made (`Copying`).
  That a step on one object leaves the contents of the others alone is `OneOwner`
  again.

The second and the third theorem state what holds of the code whatever PHP code
does in between; that the exceptions they name happen is what the runs
`nested_construct_leaks` and `walked_table_freed` show.

They assume `LifecycleAssumption`, which the runs of `Lifecycle` evaluate.

`WildcardProofs` proves for any data, pattern and limits:

* `ExpansionInvariant`, from `WildcardInv`: each call in progress holds the rest of
  the pattern and a prefix that agrees with the part taken (`Frames`, `Taking`); the
  calls below the top of the stack are loops over keys that add no path themselves
  (`Waiting`); each path in the table is meant and reads its element (`Entries`);
  the table has room for what the last loop may still add (`RoomLeft`); and what is
  allocated is two blocks for each path of the table and the prefixes that the calls
  in progress hold (`BlocksCounted`).
* `TypeInvariant` (`TypeOK`), `PathsMeant` (`ExpansionSound`), `ElementsRead`
  (`PlainSameElement`), `TableOwns` (`TableOwnsAll`) and `OvershootBounded`
  (`CapOvershoot`) follow. The second and the third speak of data with plain keys.
* `AllFound` (`ExpansionComplete`), from `NothingLost`: a path that the pattern means
  and that fits the limits is in the table or lies ahead of a call in progress
  (`NoneLost`, `Ahead`), at every moment.

The lookup, the length of a printed path and the walk over the keys are folds and
recursive functions; that each goes element by element is proved first, from
`AllNaturals` of `NaturalSets`. `WildcardAssumption` is all that is assumed.

`ParserProofs` proves for any given rules, fields and limit:

* `OwnerInvariant`, from `OwnerInv`: every frame has the shape its point in the
  code says (`Shaped`); each conditional in progress stands where the loop of the
  one below it does (`Chain`); what is stored lies behind all of these loops
  (`Stored`), so that what is being parsed is not stored yet; and every block has
  the owner its place says, until a failure frees it on the way out (`Owned`).
* `FreedOnce` (`NoDoubleFree`) and `AllOwned` (`NothingLeaks`) follow.
* `AcceptsRight` (`AcceptsExactly`), from `AnswersRight`: the rules a loop has
  passed are fine, the call that returns says whether its rule is
  (`ok <=> Fine`), and `Levels` ties depth and frames to the rule the loop is at.
  `Fine` says that every chain of rules below is known and within the limit; it
  unfolds by one level without an induction, because a chain that is too long has
  a beginning that is.
* `KeepsAll` (`NothingDropped`), from `AllKept`: every conditional that is stored
  has the rules of its branches stored, and those a loop has passed are.

`ConditionProofs` proves for any conditions, values, data and limits:

* `ConditionInvariant`, from `ConditionInv`: every condition being parsed has kept
  what it should of the parts before the next (`Opened`), what a call returns is
  whole down to the limit (`Tree`, `Outcome`), every condition being evaluated
  stands at a part that nothing before it decides (`Walked`, `Within`), and an
  answer is the meaning at its depth.
* `AnswersMeaning` (`EvaluatesMeaning`) and `FitsLimit` (`ParsedFits`) follow: what
  is evaluated is what the given condition means, and nothing parsed is deeper than
  the limit. Meaning and nesting are
  recursive functions over the depth; that they exist and unfold is proved first.
* `Coherent` (`OperatorsCoherent`): of a comparison and its opposite exactly one
  holds.

`ResultProofs` proves for any results, values and callers:

* `ResultInvariant`, from `ResultInv`: the count of every value is the number of
  its holders (`Counting`), a result that does not exist holds nothing, and messages
  never stand in a PHP reference (`TablesOK`). Each step either writes into no value
  that somebody else holds (`Quiet`) or is the caller's write in place
  (`WritesInPlace`).
* `CountsRight` (`CountsHolders`) and `ResultsKept` (`ResultKeeps`) follow.

`LeafProofs` proves of the rules that share no state with others, for all inputs
their modules' assumptions allow:

* texts, from `TextInv`: the bytes that `sf_utf8_is_valid` has passed are a
  sequence of characters, and every reading of the text as UTF-8 has a character
  start where the pointer stands (`Validated`); the loop of the rule then stands at
  a start in every reading (`Walked`); a count is the number of bytes so far that do
  not continue another (`Counted`). Under it lies `CharacterTests`: a piece of text
  passes the tests of the code if and only if it is the encoding of a Unicode scalar
  value, by arithmetic in base 64 for each of the four lengths. `TextsRight`
  (`TextVerdict`) and `WalkTrusts` (`WalkOnCharacters`) follow, for any set of
  letters; the first by way of the exact answers (`TextAnswers`), which accept every
  character beyond ASCII. That a text has only one reading is not needed.
* dates, from `DateInv`: no format tried so far reads the value without a warning
  (`Found`), and a timestamp is the moment written, filled up from the clock of some
  moment of the call, or what memory held (`StampAt`). `DatesRight` (`DateVerdict`)
  follows, with `OrderKept`: times of day do not reorder days.
* numbers, from `ValueInv`: the verdicts kept are what the rules say. The rest of
  `ValuesCohere` (`VerdictsCohere`) and `ValuesMeant` (`NumbersMeant`) is monotony of
  the conversion to a double, and what truncation does to a fraction on either side
  of zero (`SizeOfNumber`).
* lists, from `DistinctInv`: the table holds the texts of the scalars passed, each
  once (`Behind`). `DistinctRight` (`DistinctVerdict`) then rests on what a text
  tells of its number: equal texts are of one value, of values of two types, or of
  doubles that are close (`TextsTell`, `CloseMagnitudes`), for any number of digits.
* checksums, for any alphabet, any length of an OIB and any limits of an IBAN that
  `ChecksumAssumption` allows (the buffer holds two digits for each character of the
  longest IBAN, and a terminator), from `SumInv`. `MistypedRefused` speaks of
  verdicts at the end; what is inductive is that the sums of the two calls agree
  before the slip, are those of one number with either character appended in the
  midst of a swap, and differ after it (`SlipShows`), as remainders (`InRange`).
  They stay apart because adding a digit modulo 10 and doubling modulo 11 are one to
  one on 1 .. 10 (`OIBStepApart`, `OIBStepTells`), 10 and 100 are invertible modulo
  97 (`AppendedApart`), and so are the factors 9 and 99 of a swap (`AppendedOrder`).
  `SlipsFound` (`MistypedRefused`) follows, and `RoomSuffices` (`NumericFits`) by
  `DigitsFit`, at most two digits for each character read: the refusal for want of
  room in `validate_iban` is never met.

Checked by TLC only: liveness under fairness (`Terminates`), which the prover does
not handle, and `ImplementsContract`, whose contract is recursive. The violated
properties of the findings are TLC's counterexamples.

## Findings

1. A branch of a conditional that failed and then skips answers SKIP, so the
   failing path is validated (`rules/regional.c:344`; run `skip_loses_failure`).
2. An element that is no array is skipped by a pattern that goes on below it, and
   `required` is not applied to it (`wildcard.c:181`; `scalar_element_skipped`).
3. A conditional whose condition does not parse makes the parser return NULL
   without the exception its callers expect (`parser.c:329`; `silent_null`).
4. A part of an `and` that does not parse is dropped (`condition.c:135`;
   `and_drops_part`).
5. `alpha` accepts every character beyond ASCII, letter or not: control characters,
   punctuation, unassigned code points (`rules/string.c:250`; `alpha_admits_any`),
   against `README.md:139` and the comment at `string.c:208`. `alpha_num` and
   `alpha_dash` have the same loop. That they accept all letters, nothing that is no
   UTF-8 and no other ASCII character is `TextVerdict`.
6. PHP code that runs inside `validate` and constructs the same object again frees
   the rules `validate` is walking over (`validator.c:277`; `walked_table_freed`).
   A condition that compares an object with a text runs such code. Nothing counts
   the walk, and the constructor, which expects to be called again, does not look.
7. A constructor entered again from a warning of its own parse leaks the rules of
   the inner one, and so does a clone whose `__clone` constructs it
   (`validator.c:283`, 660; `nested_construct_leaks`).

Some limits have no run of their own. The operator `matches` is parsed and then
holds of no value of a field, as its case of the switch falls through to false
(`condition.c:489`, against `condition.h:22`); `Apply` of `Condition` has it so.
`sf_utf8_char_to_byte_offset` ends one byte behind the start of the character
asked for, which is within it if it has several bytes (`utf8.c:73`); `TextVerdict`
says so, and nothing in the extension calls it.

Further limits of the code are hypotheses of properties: `NoOverlap` in
`LosslessResult`, because `has_error` is local to one call of `validate_field`
(`validator.c:250`), and `PlainData` in `PlainSameElement`, because a key that
contains a dot is split when its path is looked up, and an empty key or a negative
index does not lead back either (`wildcard.c:217`). NaN passes
`gt`, `gte`, `lt` and `lte` (`numeric.c:54`), `integer` reads a text only to its
first zero byte (`types.c:74`), `confirmed` refuses a path longer than a field
name (`comparison.c:172`): exceptions in `VerdictsCohere`. `distinct` may take values of two types for one
(`array.c:45`): tolerated in `DistinctVerdict`. `max 5` and `gt 5` both
accept 5.9 (`string.c:26`): in `NumbersMeant`. Dates of one day, of which one has
no time, compare by the time of day of the call (`format.c:503`): outside of
`Comparable` in `DateVerdict`. A PHP reference in the data goes into `validated`
as a reference (`validator.c:243`): the exception in `ResultKeeps`.

## Not modelled

* `email`, `url`, `uuid`, `phone` and `vat_eu`: conjunctions of tests of single
  characters and lengths, with no state between them; a model would repeat the
  tests. `ip` and `json` ask a library. Their guard and the effect of their
  verdict are in `RuleEngine`;
* the copy a clone makes rule by rule (`sf_clone_parsed_rule`): one step here, so
  a part that the two tables share would not show;
* freeing conditions and expanded paths: plain walks with no failure path;
* PHP's comparison, its date parser, PCRE2, the allocator and hash tables:
  external, constants or sets with the operations the code uses;
* memory helpers, module entry, stubs, tests, the fuzz harness and build files:
  no state of their own.

## Plan

1. A proof of `ImplementsContract`, with the contract's recursion as a function
   over the depth of a rule, as `Meaning` of `Condition` is.
2. A composition of `Wildcard` with `RuleEngine`, so that path lists come from
   patterns and data.
3. The clone of a rule tree as a copy node by node, in `Lifecycle`'s style of
   ownership.
