----------------------------- MODULE Checksums -----------------------------
(***************************************************************************)
(* The two checksums of rules/regional.c: ISO 7064 MOD 11,10 of an OIB and *)
(* MOD 97,10 of an IBAN.  What a checksum promises is about two texts: the *)
(* number meant and the number typed.  Two calls read them in step, and    *)
(* the typist may slip once: put one character for another of its kind, or *)
(* swap two that stand side by side.  The guard for values that are        *)
(* nullable or no texts has been passed (see ValueRules).                  *)
(***************************************************************************)
EXTENDS Integers

CONSTANTS
    Alphabet,       \* the characters that occur
    OIB_LENGTH,
    IBAN_MIN_LENGTH, IBAN_MAX_LENGTH,
    IBAN_BUFFER     \* the room for the digits of an IBAN, terminator included

\* Digits and letters are their values (A is 10, in either case).
Digit == 0 .. 9
Letter == 10 .. 35
Blank == 36
Other == 37
Char == Digit \cup Letter \cup {Blank, Other}

ASSUME ChecksumAssumption ==
    /\ Alphabet \subseteq Char
    /\ OIB_LENGTH \in Nat
    /\ IBAN_MIN_LENGTH \in Nat /\ IBAN_MAX_LENGTH \in Nat /\ IBAN_BUFFER \in Nat
    /\ 4 <= IBAN_MIN_LENGTH
    /\ 2 * IBAN_MAX_LENGTH < IBAN_BUFFER

Copies == {1, 2}            \* the text meant and the text typed

VARIABLES
    scheme,     \* which rule
    length,     \* the length of both texts
    read,       \* how many characters of each have been read
    sum,        \* t, or the remainder of the digits so far
    digits,     \* the length of the digits of an IBAN
    verdict,    \* of each call: "none" yet, "accepted", or why it was refused
    slip,       \* what the typist did
    owed        \* the characters that complete a swap

sumVars == <<scheme, length, read, sum, digits, verdict, slip, owed>>

-----------------------------------------------------------------------------
\* Mutant of OIBStep: the zero of the first sum stays.
OIBStepZero(t, d) == (((d + t) % 10) * 2) % 11

\* One turn of the loop over the first ten digits.
OIBStep(t, d) ==
    LET s == (d + t) % 10 IN ((IF s = 0 THEN 10 ELSE s) * 2) % 11

\* The digit the last one must be.
Control(t) == (11 - t) % 10

\* The digits of a character appended to a number that leaves the remainder r.
Appended(r, c) ==
    IF c \in Digit THEN (r * 10 + c) % 97
    ELSE IF c \in Letter THEN (((r * 10 + c \div 10) % 97) * 10 + (c % 10)) % 97
    ELSE r

DigitsOf(c) == IF c \in Digit THEN 1 ELSE IF c \in Letter THEN 2 ELSE 0

\* An IBAN is read from its fifth character; the first four follow.
InTail == read < length - 4

-----------------------------------------------------------------------------
\* Mutant of LengthFits: no longest length.
LengthFitsShort == IF scheme = "oib" THEN length = OIB_LENGTH ELSE length >= IBAN_MIN_LENGTH

LengthFits ==
    IF scheme = "oib" THEN length = OIB_LENGTH
    ELSE length \in IBAN_MIN_LENGTH .. IBAN_MAX_LENGTH

SumInit ==
    /\ scheme \in {"oib", "iban"}
    /\ length \in {OIB_LENGTH, OIB_LENGTH + 1} \cup IBAN_MIN_LENGTH - 1 .. IBAN_MAX_LENGTH + 1
    /\ read = 0
    /\ sum = [x \in Copies |-> IF scheme = "oib" THEN 10 ELSE 0]
    /\ digits = [x \in Copies |-> 0]
    /\ verdict = [x \in Copies |-> IF LengthFits THEN "none" ELSE "length"]
    /\ slip = "none" /\ owed = <<>>

LastCharacter == read = length - 1

\* A character that is no digit ends the call; the eleventh is compared.
OIBVerdict(x, c) ==
    IF c \notin Digit THEN "character"
    ELSE IF ~LastCharacter THEN "none"
    ELSE IF Control(sum[x]) = c THEN "accepted" ELSE "sum"

\* A blank is skipped behind the first four characters.  A character for which
\* there is no room is refused.
Skipped(c) == c = Blank /\ InTail

IBANVerdict(x, c) ==
    IF c \notin Digit \cup Letter /\ ~Skipped(c) THEN "character"
    ELSE IF c \in Digit \cup Letter /\ digits[x] + DigitsOf(c) >= IBAN_BUFFER THEN "room"
    ELSE IF ~LastCharacter THEN "none"
    ELSE IF Appended(sum[x], c) = 1 THEN "accepted" ELSE "sum"

VerdictOn(x, c) == IF scheme = "oib" THEN OIBVerdict(x, c) ELSE IBANVerdict(x, c)

SumAfter(x, c) ==
    IF scheme = "iban" THEN Appended(sum[x], c)
    ELSE IF c \in Digit THEN OIBStep(sum[x], c) ELSE sum[x]

\* Both calls read their next character, unless they have returned.
Read(chars) ==
    LET running == {x \in Copies : verdict[x] = "none"} IN
    /\ running # {} /\ read < length
    /\ read' = read + 1
    /\ verdict' = [x \in Copies |-> IF x \in running THEN VerdictOn(x, chars[x]) ELSE verdict[x]]
    /\ sum' = [x \in Copies |-> IF verdict'[x] = "none" THEN SumAfter(x, chars[x]) ELSE 0]
    /\ digits' = [x \in Copies |-> IF x \in running /\ scheme = "iban"
                                  THEN digits[x] + DigitsOf(chars[x]) ELSE 0]
    /\ UNCHANGED <<scheme, length>>

SameKind(c, d) == {c, d} \subseteq Digit \/ {c, d} \subseteq Letter

\* What is typed is what was meant.
ReadSame ==
    /\ slip # "swapping"
    /\ \E c \in Alphabet : Read(<<c, c>>)
    /\ UNCHANGED <<slip, owed>>

\* One character is typed for another.
ReadSubstituted ==
    /\ slip = "none"
    /\ \E c, d \in Alphabet : c # d /\ SameKind(c, d) /\ Read(<<c, d>>)
    /\ slip' = "made" /\ UNCHANGED owed

\* Two neighbours are typed in the wrong order: the second here, the first next.
\* The call reads them one after the other except across the fifth character.
ReadSwapped ==
    /\ slip = "none" /\ scheme = "iban"
    /\ read \notin {length - 5, length - 1}
    /\ \E c, d \in Alphabet :
          c # d /\ SameKind(c, d) /\ Read(<<c, d>>) /\ owed' = <<d, c>>
    /\ slip' = "swapping"

ReadOwed ==
    /\ slip = "swapping"
    /\ Read(owed)
    /\ slip' = "made" /\ owed' = <<>>

SumNext == ReadSame \/ ReadSubstituted \/ ReadSwapped \/ ReadOwed

SumSpec == SumInit /\ [][SumNext]_sumVars

-----------------------------------------------------------------------------
\* A slip of the typist is never accepted together with the number meant: an OIB
\* shows one wrong digit, an IBAN also two neighbours of a kind in the wrong order.
MistypedRefused == slip = "made" => \E x \in Copies : verdict[x] # "accepted"

\* The digits of every text that is short enough fit the buffer, the terminator
\* behind them too: no call is refused for room.
NumericFits == \A x \in Copies : verdict[x] # "room" /\ digits[x] < IBAN_BUFFER

=============================================================================
