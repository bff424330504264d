----------------------------- MODULE ValueRules -----------------------------
(***************************************************************************)
(* The rules that decide at once: number, size, list, field, pattern, part *)
(* and type rules.  Rules of one family are run one after the other on one *)
(* value, as a rule list does, and their verdicts are kept, because what   *)
(* can be wrong with them shows only between them.                         *)
(*                                                                         *)
(* Numbers are counted in units of a fraction, so that a double can lie    *)
(* between two integers; AsDouble is the rounding of an integer too large  *)
(* for the precision of a double.                                          *)
(***************************************************************************)
EXTENDS Integers, Sequences

CONSTANTS
    Inputs,             \* values, parameters and data a rule list may be run for
    Unit,               \* the units of 1
    LongMin, LongMax,   \* the range of an integer
    AsDouble,           \* what a number becomes as a double
    NaN, NoNumber,      \* the double that is no number; a text that is none
    Equal,              \* the pairs of values PHP's comparison calls equal
    Casts               \* what a build makes of a double no integer can hold

Families ==
    [number |-> {"gt", "gte", "lt", "lte", "min", "max", "between"},
     list |-> {"in", "not_in"},
     field |-> {"same", "different", "confirmed"},
     pattern |-> {"regex", "not_regex"},
     part |-> {"starts_with", "ends_with", "contains"},
     type |-> {"string", "integer", "numeric", "boolean", "array"}]

\* A value the caller holds by reference is seen as such, not as what it refers to.
Types == {"absent", "null", "false", "true", "long", "double", "string", "array",
          "reference"}

\* A text that a C string is shorter than.
ZeroByte(text) == \E k \in DOMAIN text : text[k] = "zero byte"

ASSUME ValueAssumption ==
    /\ Unit \in Nat \ {0} /\ LongMin \in Int /\ LongMax \in Int
    /\ NaN \notin Int /\ NoNumber \notin Int
    /\ \A x \in DOMAIN AsDouble : x \in Int /\ AsDouble[x] \in Int
    /\ \A x, y \in DOMAIN AsDouble : x <= y => AsDouble[x] <= AsDouble[y]
    /\ \A i \in Inputs :
          /\ i.family \in DOMAIN Families
          /\ i.low * Unit \in DOMAIN AsDouble /\ i.high * Unit \in DOMAIN AsDouble
          /\ i.low \in Int /\ i.high \in Int
          /\ i.nullable \in BOOLEAN /\ i.longPath \in BOOLEAN /\ Len(i.part) \in Nat
          /\ \A v \in {i.subject, i.other} \cup i.list :
                /\ v.type \in Types
                /\ v.number \in DOMAIN AsDouble \cup {NaN, NoNumber}
                /\ v.type = "long" => \E n \in LongMin .. LongMax : v.number = n * Unit
                /\ v.type = "double" => v.number # NoNumber
                /\ v.size \in Nat /\ Len(v.text) \in Nat
                /\ v.whole \in BOOLEAN /\ v.boolish \in BOOLEAN
                /\ v.whole /\ v.number = NoNumber => ZeroByte(v.text)
    /\ \A c \in Casts : \A out \in {"low", "high", "nan"} : c[out] \in LongMin .. LongMax

VARIABLES
    input,      \* what the rules are run for
    build,      \* how this build casts
    verdicts    \* of the rules that have run: whether they accepted

valueVars == <<input, build, verdicts>>

subject == input.subject

-----------------------------------------------------------------------------
\* sf_is_empty
IsEmpty == \/ subject.type \in {"absent", "null", "false"}
           \/ subject.type = "string" /\ subject.text = <<>>
           \/ subject.type = "array" /\ subject.size = 0

\* The guard every one of these rules starts with.
Shielded == input.nullable /\ IsEmpty

\* Towards zero, or what the build makes of a number out of range.
Truncated(x) == IF x >= 0 THEN x \div Unit ELSE -((-x) \div Unit)

Cast(x) == IF x = NaN THEN build["nan"]
           ELSE IF Truncated(x) > LongMax THEN build["high"]
           ELSE IF Truncated(x) < LongMin THEN build["low"]
           ELSE Truncated(x)

\* get_size: characters, elements, or the number itself.
Size == IF subject.type \in {"string", "array"} THEN subject.size
        ELSE IF subject.type = "long" THEN subject.number \div Unit
        ELSE IF subject.type = "double" THEN Cast(subject.number)
        ELSE 0

\* get_numeric_value
HasNumber == subject.type \in {"long", "double", "string"} /\ subject.number # NoNumber
Number == IF subject.number = NaN THEN NaN ELSE AsDouble[subject.number]
Limit == AsDouble[input.low * Unit]

\* Mutant of AtMost: the limit itself is left out.
AtMostStrict(x, y) == x # NaN /\ x < y

\* Comparisons of doubles; none holds of NaN.
AtMost(x, y) == x # NaN /\ x <= y
AtLeast(x, y) == x # NaN /\ x >= y
Below(x, y) == x # NaN /\ x < y
Above(x, y) == x # NaN /\ x > y

\* The tests are for failure, so NaN passes all four.
NumberAccepts(rule) ==
    /\ HasNumber
    /\ \/ rule = "gt" /\ ~AtMost(Number, Limit)
       \/ rule = "gte" /\ ~Below(Number, Limit)
       \/ rule = "lt" /\ ~AtLeast(Number, Limit)
       \/ rule = "lte" /\ ~Above(Number, Limit)

SizeAccepts(rule) ==
    /\ rule \in {"min", "between"} => Size >= input.low
    /\ rule \in {"max", "between"} => Size <= input.high

ValuesEqual(a, b) ==
    IF "absent" \in {a.type, b.type} THEN a.type = b.type ELSE <<a, b>> \in Equal

ListAccepts(rule) ==
    LET found == subject.type # "absent" /\ \E item \in input.list : ValuesEqual(subject, item)
    IN  IF rule = "in" THEN found ELSE ~found

\* The other field of confirmed is the one named after the field itself.  A path
\* may be longer than a field name: confirmed refuses it whatever is there.
FieldAccepts(rule) ==
    /\ rule = "confirmed" => ~input.longPath
    /\ IF rule = "different" THEN ~ValuesEqual(subject, input.other)
                             ELSE ValuesEqual(subject, input.other)

\* Mutant of PatternAccepts: not_regex fails like regex where nothing was matched.
PatternAcceptsRan(rule) ==
    /\ subject.type = "string"
    /\ input.matching = IF rule = "regex" THEN "match" ELSE "no match"

\* A pattern that does not compile, or gives up at its limits, has not matched.
PatternAccepts(rule) ==
    LET matched == subject.type = "string" /\ input.matching = "match"
    IN  IF rule = "regex" THEN matched ELSE ~matched

PartAccepts(rule) ==
    LET n == Len(input.part)
        room == Len(subject.text) - n
        Stands(k) == SubSeq(subject.text, k + 1, k + n) = input.part
    IN  /\ subject.type = "string"
        /\ \/ n = 0
           \/ /\ room >= 0
              /\ \/ rule = "starts_with" /\ Stands(0)
                 \/ rule = "ends_with" /\ Stands(room)
                 \/ rule = "contains" /\ \E k \in 0 .. room : Stands(k)

\* strtol reads an integer up to the end or to a zero byte; is_numeric_string
\* reads the whole text.
TypeAccepts(rule) ==
    \/ /\ rule = "integer"
       /\ subject.type = "long" \/ (subject.type = "string" /\ subject.whole)
    \/ rule = "numeric" /\ HasNumber
    \/ /\ rule = "boolean"
       /\ \/ subject.type \in {"true", "false"}
          \/ subject.type = "long" /\ subject.number \in {0, Unit}
          \/ subject.type = "string" /\ subject.boolish
    \/ rule \in {"string", "array"} /\ subject.type = rule

Accepts(rule) ==
    \/ Shielded
    \/ rule \in {"gt", "gte", "lt", "lte"} /\ NumberAccepts(rule)
    \/ rule \in {"min", "max", "between"} /\ SizeAccepts(rule)
    \/ rule \in Families.list /\ ListAccepts(rule)
    \/ rule \in Families.field /\ FieldAccepts(rule)
    \/ rule \in Families.pattern /\ PatternAccepts(rule)
    \/ rule \in Families.part /\ PartAccepts(rule)
    \/ rule \in Families.type /\ TypeAccepts(rule)

-----------------------------------------------------------------------------
ValueInit ==
    /\ input \in Inputs
    /\ build \in Casts
    /\ verdicts = [rule \in {} |-> FALSE]

\* A rule of the list is run and its result kept.
RunRule(rule) ==
    /\ rule \in Families[input.family] \ DOMAIN verdicts
    /\ verdicts' = [r \in DOMAIN verdicts \cup {rule} |->
                       IF r = rule THEN Accepts(rule) ELSE verdicts[r]]
    /\ UNCHANGED <<input, build>>

ValueNext == \E rule \in Families[input.family] : RunRule(rule)

ValueSpec == ValueInit /\ [][ValueNext]_valueVars

-----------------------------------------------------------------------------
Ran(rules) == rules \subseteq DOMAIN verdicts

\* Pairs of which one is the negation of the other, and pairs of which the first
\* asks for more than the second.
Opposite == {<<"gt", "lte">>, <<"gte", "lt">>, <<"in", "not_in">>,
             <<"same", "different">>, <<"regex", "not_regex">>}
Stronger == {<<"gt", "gte">>, <<"lt", "lte">>, <<"between", "min">>, <<"between", "max">>,
             <<"integer", "numeric">>, <<"starts_with", "contains">>,
             <<"ends_with", "contains">>, <<"confirmed", "same">>, <<"same", "confirmed">>}

\* The rules do not contradict each other.  Of two opposite ones exactly one
\* accepts, but for an empty nullable value, NaN, which passes all comparisons,
\* and a value that is no number, which passes none; what a stronger rule accepts
\* the weaker does, but for a text that strtol reads to a zero byte only, and for
\* confirmed on a long path; between asks for no more than min and max do.
VerdictsCohere ==
    /\ \A p \in Opposite : Ran({p[1], p[2]}) /\ verdicts[p[1]] = verdicts[p[2]] =>
          \/ Shielded
          \/ input.family = "number" /\ verdicts[p[1]] /\ subject.number = NaN
          \/ input.family = "number" /\ ~verdicts[p[1]] /\ ~HasNumber
    /\ \A p \in Stronger : Ran({p[1], p[2]}) /\ verdicts[p[1]] =>
          \/ verdicts[p[2]]
          \/ p[1] = "integer" /\ subject.type = "string" /\ ZeroByte(subject.text)
          \/ p[2] = "confirmed" /\ input.longPath
    /\ Ran({"between", "min", "max"}) =>
          (verdicts["min"] /\ verdicts["max"] => verdicts["between"])

\* What the verdicts on numbers say of the numbers themselves.  Strict rules
\* never accept wrongly and refuse wrongly only where a double cannot tell the
\* value from the limit.  max n and gt n accept the same number only if it is a
\* fraction above n that is cut off, likewise min n and lt n below; or if no
\* integer can hold it.
NumbersMeant ==
    LET x == subject.number
        limit == input.low * Unit
        Accepted(rule) == Ran({rule}) /\ verdicts[rule]
        Refused(rule) == Ran({rule}) /\ ~verdicts[rule]
        Fits == LongMin * Unit <= x /\ x <= LongMax * Unit
    IN  input.family = "number" /\ HasNumber /\ x # NaN /\ ~Shielded =>
          /\ Accepted("gt") => x > limit
          /\ Accepted("lt") => x < limit
          /\ Refused("gt") /\ x > limit => AsDouble[x] = AsDouble[limit]
          /\ Refused("lt") /\ x < limit => AsDouble[x] = AsDouble[limit]
          /\ subject.type # "string" /\ Fits =>
                /\ Accepted("gt") /\ Accepted("max") /\ input.low = input.high =>
                      subject.type = "double" /\ limit < x /\ x < limit + Unit
                /\ Accepted("lt") /\ Accepted("min") =>
                      subject.type = "double" /\ limit - Unit < x /\ x < limit

=============================================================================
