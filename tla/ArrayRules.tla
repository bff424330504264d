----------------------------- MODULE ArrayRules -----------------------------
(***************************************************************************)
(* The rule distinct of rules/array.c: one call on a value, the loop that  *)
(* turns the items of an array into texts and looks for one seen before.   *)
(*                                                                         *)
(* A text is a notation and a number: the decimal digits of a whole number,*)
(* the number with an exponent, or a word.  Doubles are whole numbers here;*)
(* %g keeps six digits of a fraction in the same way.                      *)
(***************************************************************************)
EXTENDS Integers, Sequences

CONSTANTS
    Items,          \* the items that occur, [type, value]
    MaxItems,       \* the longest array
    PRECISION,      \* ten to the power of the digits %g keeps (six)
    Places          \* the powers of ten that doubles reach beyond those digits

Scalars == {"string", "long", "double", "true", "false", "null"}
Magnitude(x) == IF x < 0 THEN -x ELSE x

ASSUME ItemAssumption ==
    /\ MaxItems \in Nat /\ PRECISION \in Nat \ {0} /\ PRECISION % 10 = 0
    /\ 1 \in Places /\ Places \subseteq Nat \ {0}
    /\ \A p \in Places : p = 1 \/ \E q \in Places : p = 10 * q
    /\ \A p, q \in Places : p < q => 10 * p <= q
    /\ \A i \in Items :
          /\ i.type \in Scalars \cup {"array", "reference"}
          /\ i.type = "string" => i.value \in {"digits", "exponent", "word"} \X Int
          /\ i.type \in {"long", "double"} => i.value \in Int
          /\ i.type \in {"true", "false", "null"} => i.value = 0
          /\ i.type = "double" => \E p \in Places : Magnitude(i.value) < PRECISION * p

VARIABLES
    items,          \* the array, or <<>> for what is none
    isArray,
    shielded,       \* nullable, and null or empty
    atItem,         \* the item the loop is at
    seen,           \* the texts met so far
    distinctAnswer  \* "none" yet, "accepted" or "refused"

distinctVars == <<items, isArray, shielded, atItem, seen, distinctAnswer>>

-----------------------------------------------------------------------------
\* The place of the last digit that is kept.
Place(x) ==
    LET Suffices(p) == Magnitude(x) < PRECISION * p
    IN  CHOOSE p \in Places : Suffices(p) /\ \A q \in Places : Suffices(q) => p <= q

\* Rounded to that place, a half to the even digit.
Rounded(x) ==
    LET p == Place(x)
        kept == Magnitude(x) \div p
        rest == 2 * (Magnitude(x) % p)
        up == rest > p \/ (rest = p /\ p > 1 /\ kept % 2 = 1)
        size == (IF up THEN kept + 1 ELSE kept) * p
    IN  IF x < 0 THEN -size ELSE size

TextOf(i) ==
    IF i.type = "string" THEN i.value
    ELSE IF i.type = "long" THEN <<"digits", i.value>>
    ELSE IF i.type = "double" THEN
        <<IF Magnitude(Rounded(i.value)) < PRECISION THEN "digits" ELSE "exponent",
          Rounded(i.value)>>
    ELSE IF i.type = "null" THEN <<"word", 0>>      \* the empty word
    ELSE <<"digits", IF i.type = "true" THEN 1 ELSE 0>>

-----------------------------------------------------------------------------
DistinctInit ==
    /\ isArray \in BOOLEAN /\ shielded \in BOOLEAN
    /\ items \in UNION {[1 .. n -> Items] : n \in 0 .. MaxItems}
    /\ items # <<>> => isArray /\ ~shielded
    /\ atItem = 1 /\ seen = {} /\ distinctAnswer = "none"

Running == distinctAnswer = "none" /\ isArray /\ ~shielded

ReturnDistinct(answer) ==
    /\ distinctAnswer' = answer
    /\ UNCHANGED <<items, isArray, shielded, atItem, seen>>

NotApplied ==
    /\ distinctAnswer = "none" /\ (shielded \/ ~isArray)
    /\ ReturnDistinct(IF shielded THEN "accepted" ELSE "refused")

\* Mutant of Compared: null is skipped like a nested array.
ComparedSet(i) == i.type \in Scalars \ {"null"}

\* Arrays, objects and references have no text and are passed over.
Compared(i) == i.type \in Scalars

NextItem == atItem' = atItem + 1 /\ UNCHANGED <<items, isArray, shielded, distinctAnswer>>

SkipItem ==
    /\ Running /\ atItem <= Len(items) /\ ~Compared(items[atItem])
    /\ NextItem /\ UNCHANGED seen

RecordItem ==
    /\ Running /\ atItem <= Len(items) /\ Compared(items[atItem])
    /\ TextOf(items[atItem]) \notin seen
    /\ seen' = seen \cup {TextOf(items[atItem])}
    /\ NextItem

FindDuplicate ==
    /\ Running /\ atItem <= Len(items) /\ Compared(items[atItem])
    /\ TextOf(items[atItem]) \in seen
    /\ ReturnDistinct("refused")

EndItems == Running /\ atItem > Len(items) /\ ReturnDistinct("accepted")

DistinctNext == NotApplied \/ SkipItem \/ RecordItem \/ FindDuplicate \/ EndItems

DistinctSpec == DistinctInit /\ [][DistinctNext]_distinctVars

-----------------------------------------------------------------------------
Same(i, j) == i.type = j.type /\ i.value = j.value

\* Numbers that agree in the digits %g keeps: they are less than a tenth of the
\* precision apart.
LookAlike(i, j) ==
    \/ i.type # j.type
    \/ /\ i.type = "double"
       /\ \E x \in {i.value, j.value} :
             Magnitude(i.value - j.value) <= Magnitude(x) \div (PRECISION \div 10)

\* An array is refused if a scalar occurs twice in it, however far apart and
\* whatever is between, and otherwise only for look-alikes: values of different
\* types, or large doubles that agree in the digits of their texts.
DistinctVerdict ==
    distinctAnswer # "none" /\ isArray /\ ~shielded =>
        LET compared == {k \in DOMAIN items : items[k].type \in Scalars}
            pairs == {p \in compared \X compared : p[1] < p[2]}
        IN  /\ distinctAnswer = "accepted" => \A p \in pairs : ~Same(items[p[1]], items[p[2]])
            /\ distinctAnswer = "refused" =>
                  \E p \in pairs : \/ Same(items[p[1]], items[p[2]])
                                   \/ LookAlike(items[p[1]], items[p[2]])

=============================================================================
