---------------------------- MODULE MCComponents ----------------------------
(***************************************************************************)
(* The components that share no state with the others, side by side: each  *)
(* behaviour is one of one component, the variables of the others stand    *)
(* still.                                                                  *)
(***************************************************************************)
EXTENDS MCLifecycle, TextRules, Checksums, Dates, ValueRules, ArrayRules, Results

VARIABLE part       \* the component this behaviour is of

allVars == <<part, textVars, sumVars, dateVars, valueVars, distinctVars, resultVars, lifeVars>>

-----------------------------------------------------------------------------
\* Texts: every one of up to three bytes out of the boundaries of the code, and
\* longer ones that start with each lead byte.
AsciiBytes == {65, 97, 53, 45}
TrailBytes == {128, 143, 144, 159, 160, 191}
LeadBytes == {193, 194, 224, 225, 237, 240, 244, 245}
MCTexts ==
    UNION {[1 .. n -> AsciiBytes \cup TrailBytes \cup LeadBytes] : n \in 0 .. 3}
    \cup {<<lead>> \o rest : lead \in {240, 244, 245, 224, 237, 194, 97},
                             rest \in [1 .. 3 -> (TrailBytes \ {128, 191}) \cup {65}]}

\* The letters among the characters of these texts, by the bits before the last
\* six.
Row(k, last) == {64 * k + d : d \in last}
MCAlphabetic ==
    UNION {Row(k, {0, 15, 16, 31, 32, 63}) :
              k \in {64, 832, 847, 848, 1040, 1056, 2063, 2064, 2079, 2080}}
    \cup Row(32, {0, 15, 16}) \cup Row(79, {0, 15, 16, 31, 32})
    \cup Row(80, {15, 16, 31, 32, 63}) \cup Row(96, {32, 63}) \cup Row(127, {16, 32})
    \cup Row(863, {0, 15, 16, 31, 32}) \cup Row(1039, {15})

MCAlphabet == (0 .. 9) \cup {10, 11, 35, Blank, Other}

\* Dates: no text, no date, one that is not in the calendar, one the parser
\* throws at, and two days with and without a time.
NoDate == [isText |-> FALSE, format |-> 0, warns |-> FALSE, throws |-> FALSE,
           day |-> 0, time |-> 0]
Date(f, d, t) == [NoDate EXCEPT !.isText = TRUE, !.format = f, !.day = d, !.time = t]
MCDates == {NoDate, Date(0, 0, 0), [Date(2, 1, 0) EXCEPT !.warns = TRUE],
            [Date(1, 1, 0) EXCEPT !.throws = TRUE], Date(3, 1, 1)}
           \cup {Date(1, d, 0) : d \in 1 .. 2}
           \cup {Date(2, d, t) : d \in 1 .. 2, t \in 0 .. 1}

\* Values: halves are the fractions, integers lie in -8 .. 7, doubles keep three
\* binary digits.
MCLongMin == -8
Absent == [type |-> "absent", number |-> NoNumber, size |-> 0, text |-> <<>>,
           whole |-> FALSE, boolish |-> FALSE]
OfType(t) == [Absent EXCEPT !.type = t]
Long(n) == [Absent EXCEPT !.type = "long", !.number = 2 * n]
Double(x) == [Absent EXCEPT !.type = "double", !.number = x]
Text(t, n) == [Absent EXCEPT !.type = "string", !.text = t, !.size = Len(t), !.number = n]

MCValues ==
    {OfType(t) : t \in {"absent", "null", "false", "true", "reference"}}
    \cup {[OfType("array") EXCEPT !.size = n] : n \in {0, 2}}
    \cup {Long(n) : n \in {-8, -5, 0, 1, 2, 5, 6, 7}}
    \cup {Double(x) : x \in {-40, -5, -4, -1, 0, 4, 5, 16, 40, NaN}}
    \cup {Text(<<>>, NoNumber), Text(<<"a">>, NoNumber),
          [Text(<<"0">>, 0) EXCEPT !.whole = TRUE, !.boolish = TRUE],
          [Text(<<"7">>, 14) EXCEPT !.whole = TRUE], Text(<<"1", ".", "5">>, 3),
          [Text(<<"1", "zero byte">>, NoNumber) EXCEPT !.whole = TRUE],
          [Text(<<"trail byte">>, NoNumber) EXCEPT !.size = 0]}

\* Rounded to a multiple of four beyond 8, a half to the even one.
MCAsDouble ==
    [x \in -40 .. 40 |->
        LET a == Magnitude(x)
            down == a - (a % 4)
            r == IF a % 4 < 2 \/ (a % 4 = 2 /\ (down \div 4) % 2 = 0) THEN down ELSE down + 4
        IN  IF a <= 8 THEN x ELSE IF x < 0 THEN -r ELSE r]

MCEqual ==
    {p \in MCValues \X MCValues :
        /\ NaN \notin {p[1].number, p[2].number}
        /\ \/ p[1] = p[2]
           \/ p[1].number # NoNumber /\ p[1].number = p[2].number
           \/ {p[1].type, p[2].type} = {"null", "false"}}

MCCasts == {[low |-> MCLongMin, high |-> MCLongMin, nan |-> MCLongMin],
            [low |-> MCLongMin, high |-> 7, nan |-> 0]}

Plain(f, s) == [family |-> f, subject |-> s, other |-> Absent, nullable |-> FALSE,
                low |-> 0, high |-> 0, list |-> {}, longPath |-> FALSE,
                matching |-> "none", part |-> <<>>]
Words == UNION {[1 .. n -> {"a", "b"}] : n \in 0 .. 3}

MCInputs ==
    UNION {
        {[Plain("number", s) EXCEPT !.low = l, !.high = h, !.nullable = b] :
            s \in MCValues, l \in {-5, -2, 0, 2, 5, 6}, h \in {-2, 2, 6}, b \in BOOLEAN},
        {[Plain("list", s) EXCEPT !.list = l, !.nullable = b] : s \in MCValues, b \in BOOLEAN,
            l \in {{}, {Long(1), OfType("null")}, {Text(<<"a">>, NoNumber)}}},
        {[Plain("field", s) EXCEPT !.other = o, !.nullable = b, !.longPath = long] :
            s \in MCValues, b, long \in BOOLEAN, o \in {Absent, OfType("null"), Long(1), Double(NaN)}},
        {[Plain("pattern", s) EXCEPT !.matching = m, !.nullable = b] : s \in MCValues,
            b \in BOOLEAN, m \in {"match", "no match", "gave up", "not compiled"}},
        {[Plain("part", Text(w, NoNumber)) EXCEPT !.part = p] : w, p \in Words},
        {[Plain(f, s) EXCEPT !.nullable = b] :
            f \in {"part", "type"}, s \in MCValues, b \in BOOLEAN}}

\* Items: numbers on both sides of the two digits that are kept, and what shares
\* its text with another.
Item(t, x) == [type |-> t, value |-> x]
MCItems ==
    {Item("long", n) : n \in {0, 7, 101}}
    \cup {Item("double", n) : n \in {7, 99, 101, 104, 105, 115, -101}}
    \cup {Item("string", t) : t \in {<<"digits", 7>>, <<"exponent", 100>>, <<"word", 0>>}}
    \cup {Item(t, 0) : t \in {"true", "false", "null", "array", "reference"}}

-----------------------------------------------------------------------------
NoTextCall == textCall = [name |-> "strlen", position |-> 0] /\ text = <<>>
           /\ step = "idle" /\ at = 1 /\ count = 0 /\ textAccepted = FALSE
NoSum == /\ scheme = "oib" /\ length = 0 /\ read = 0 /\ sum = [x \in Copies |-> 0]
         /\ digits = [x \in Copies |-> 0] /\ verdict = [x \in Copies |-> "none"]
         /\ slip = "none" /\ owed = <<>>
NoDates == /\ dateCall = [rule |-> "date", format |-> 0] /\ values = <<NoDate, NoDate>>
           /\ clock = 0 /\ ticks = 0 /\ dateStep = "idle" /\ slot = 1 /\ format = 1
           /\ stamp = <<0, 0>> /\ thrown = FALSE /\ dateAccepted = FALSE
NoValue == input = Plain("type", Absent) /\ build = [low |-> 0, high |-> 0, nan |-> 0]
           /\ verdicts = [rule \in {} |-> FALSE]
NoItems == /\ items = <<>> /\ isArray = FALSE /\ shielded = FALSE /\ atItem = 1
           /\ seen = {} /\ distinctAnswer = "none"

Init ==
    \/ part = "text" /\ TextInit
       /\ NoSum /\ NoDates /\ NoValue /\ NoItems /\ ResultInit /\ LifeInit
    \/ part = "sum" /\ SumInit
       /\ NoTextCall /\ NoDates /\ NoValue /\ NoItems /\ ResultInit /\ LifeInit
    \/ part = "date" /\ DateInit
       /\ NoTextCall /\ NoSum /\ NoValue /\ NoItems /\ ResultInit /\ LifeInit
    \/ part = "value" /\ ValueInit
       /\ NoTextCall /\ NoSum /\ NoDates /\ NoItems /\ ResultInit /\ LifeInit
    \/ part = "array" /\ DistinctInit
       /\ NoTextCall /\ NoSum /\ NoDates /\ NoValue /\ ResultInit /\ LifeInit
    \/ part = "result" /\ ResultInit
       /\ NoTextCall /\ NoSum /\ NoDates /\ NoValue /\ NoItems /\ LifeInit
    \/ part = "object" /\ LifeInit
       /\ NoTextCall /\ NoSum /\ NoDates /\ NoValue /\ NoItems /\ ResultInit

Still(others) == UNCHANGED <<part, others>>

TextStep == part = "text" /\ TextNext
            /\ Still(<<sumVars, dateVars, valueVars, distinctVars, resultVars, lifeVars>>)
SumStep == part = "sum" /\ SumNext
           /\ Still(<<textVars, dateVars, valueVars, distinctVars, resultVars, lifeVars>>)
DateStep == part = "date" /\ DateNext
            /\ Still(<<textVars, sumVars, valueVars, distinctVars, resultVars, lifeVars>>)
ValueStep == part = "value" /\ ValueNext
             /\ Still(<<textVars, sumVars, dateVars, distinctVars, resultVars, lifeVars>>)
ArrayStep == part = "array" /\ DistinctNext
             /\ Still(<<textVars, sumVars, dateVars, valueVars, resultVars, lifeVars>>)
ResultStep == part = "result" /\ ResultNext
              /\ Still(<<textVars, sumVars, dateVars, valueVars, distinctVars, lifeVars>>)
ObjectStep == part = "object" /\ LifeNext
              /\ Still(<<textVars, sumVars, dateVars, valueVars, distinctVars, resultVars>>)

\* A call has returned.
Returned == /\ \/ part = "text" /\ step = "done"
               \/ part = "sum" /\ \A x \in Copies : verdict[x] # "none"
               \/ part = "date" /\ dateStep = "done"
               \/ part = "value" /\ DOMAIN verdicts = Families[input.family]
               \/ part = "array" /\ distinctAnswer # "none"
            /\ UNCHANGED allVars

Next == \/ TextStep \/ SumStep \/ DateStep \/ ValueStep \/ ArrayStep \/ ResultStep
        \/ ObjectStep \/ Returned

Spec == Init /\ [][Next]_allVars

=============================================================================
