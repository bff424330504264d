----------------------------- MODULE TextRules -----------------------------
(***************************************************************************)
(* The rules that walk through a text byte by byte, and the UTF-8 helpers  *)
(* below them: one call on one text.  A text is a sequence of bytes; `at'  *)
(* is the position of the pointer p, counted from 1.  The guard for values *)
(* that are nullable or no texts has been passed (see ValueRules).         *)
(***************************************************************************)
EXTENDS Integers, FiniteSets, Sequences

CONSTANTS
    Texts,          \* the texts a call may be given
    CharPositions,  \* the character positions an offset may be asked for
    Alphabetic      \* the letters of Unicode beyond ASCII, as code points

ASSUME TextAssumption == \A t \in Texts : t \in Seq(0 .. 255)
ASSUME PositionAssumption == CharPositions \subseteq Nat
ASSUME AlphabeticAssumption == Alphabetic \subseteq Nat

VARIABLES
    textCall,       \* what is called, with the character position if it takes one
    text,           \* the bytes of the value
    step,           \* the loop the call is in
    at,             \* where its pointer stands
    count,          \* the characters counted
    textAccepted    \* the answer of a rule

textVars == <<textCall, text, step, at, count, textAccepted>>

CharRules == {"alpha", "alpha_num", "alpha_dash"}
CaseRules == {"lowercase", "uppercase"}

-----------------------------------------------------------------------------
Upper == 65 .. 90
Lower == 97 .. 122
Digits == 48 .. 57

\* The ASCII characters each rule lets through.
Allowed == [alpha |-> Upper \cup Lower,
            alpha_num |-> Upper \cup Lower \cup Digits,
            alpha_dash |-> Upper \cup Lower \cup Digits \cup {45, 95}]

WrongCase == [lowercase |-> Upper, uppercase |-> Lower]

\* 10xxxxxx
Continues(b) == b \div 64 = 2

\* The length a lead byte announces; 0 for a byte that leads nothing.
Width(b) == IF b < 128 THEN 1
            ELSE IF b \div 32 = 6 THEN 2
            ELSE IF b \div 16 = 14 THEN 3
            ELSE IF b \div 8 = 30 THEN 4
            ELSE 0

\* Mutant of WellFormed: surrogates are not looked for.
WellFormedSurrogate(p) ==
    LET lead == text[p]
        n == Width(lead)
    IN  /\ n # 0
        /\ p + n - 1 <= Len(text)
        /\ \A k \in 1 .. n - 1 : Continues(text[p + k])
        /\ n = 2 => (lead % 32) \div 2 # 0
        /\ lead = 224 => text[p + 1] % 64 >= 32
        /\ lead = 240 => text[p + 1] % 64 >= 16
        /\ lead = 244 => text[p + 1] <= 143
        /\ lead <= 244

\* One turn of sf_utf8_is_valid that does not return 0: the bytes that follow
\* are there, continue, and make no overlong form, surrogate or number beyond
\* U+10FFFF.
WellFormed(p) ==
    LET lead == text[p]
        n == Width(lead)
    IN  /\ n # 0
        /\ p + n - 1 <= Len(text)
        /\ \A k \in 1 .. n - 1 : Continues(text[p + k])
        /\ n = 2 => (lead % 32) \div 2 # 0
        /\ lead = 224 => text[p + 1] % 64 >= 32
        /\ lead = 237 => text[p + 1] % 64 < 32
        /\ lead = 240 => text[p + 1] % 64 >= 16
        /\ lead = 244 => text[p + 1] <= 143
        /\ lead <= 244

-----------------------------------------------------------------------------
TextCalls == [name : CharRules \cup CaseRules \cup {"strlen"}, position : {0}]
             \cup [name : {"offset"}, position : CharPositions]

FirstStep(name) == IF name \in CharRules THEN "validating"
                   ELSE IF name \in CaseRules THEN "scanning"
                   ELSE "counting"

TextInit ==
    /\ textCall \in TextCalls
    /\ text \in Texts
    /\ step = FirstStep(textCall.name)
    /\ at = 1 /\ count = 0
    /\ textAccepted = FALSE

More == at <= Len(text)

ReturnText(answer) ==
    /\ step' = "done" /\ textAccepted' = answer
    /\ UNCHANGED <<textCall, text, at, count>>

Advance(n) == at' = at + n /\ UNCHANGED <<textCall, text, step, count, textAccepted>>

\* sf_utf8_is_valid.
ValidateCharacter == step = "validating" /\ More /\ WellFormed(at) /\ Advance(Width(text[at]))

InvalidText == step = "validating" /\ More /\ ~WellFormed(at) /\ ReturnText(FALSE)

StartWalk ==
    /\ step = "validating" /\ ~More
    /\ step' = "walking" /\ at' = 1
    /\ UNCHANGED <<textCall, text, count, textAccepted>>

\* Mutant of WalksOver: four bytes are taken for three.
WalksOverThree(b) ==
    IF b < 128 THEN b \in Allowed[textCall.name] ELSE Width(b) \in 1 .. 3

\* One turn of the rule's own loop: an ASCII character must be allowed, the lead
\* byte of a longer one is enough; anything else "should not reach here".
WalksOver(b) == IF b < 128 THEN b \in Allowed[textCall.name] ELSE Width(b) # 0

WalkCharacter == step = "walking" /\ More /\ WalksOver(text[at]) /\ Advance(Width(text[at]))

WalkRefuses == step = "walking" /\ More /\ ~WalksOver(text[at]) /\ ReturnText(FALSE)

WalkEnds == step = "walking" /\ ~More /\ ReturnText(TRUE)

\* lowercase and uppercase look at single bytes, with no check of the encoding.
ScanByte ==
    /\ step = "scanning" /\ More
    /\ text[at] \notin WrongCase[textCall.name]
    /\ Advance(1)

ScanRefuses ==
    /\ step = "scanning" /\ More
    /\ text[at] \in WrongCase[textCall.name]
    /\ ReturnText(FALSE)

ScanEnds == step = "scanning" /\ ~More /\ ReturnText(TRUE)

\* sf_utf8_strlen, and sf_utf8_char_to_byte_offset, which stops at its position.
Counting == More /\ (textCall.name = "offset" => count < textCall.position)

CountByte ==
    /\ step = "counting" /\ Counting
    /\ count' = IF Continues(text[at]) THEN count ELSE count + 1
    /\ at' = at + 1
    /\ UNCHANGED <<textCall, text, step, textAccepted>>

CountEnds == step = "counting" /\ ~Counting /\ ReturnText(TRUE)

TextNext == \/ ValidateCharacter \/ InvalidText \/ StartWalk
            \/ WalkCharacter \/ WalkRefuses \/ WalkEnds
            \/ ScanByte \/ ScanRefuses \/ ScanEnds
            \/ CountByte \/ CountEnds

TextSpec == TextInit /\ [][TextNext]_textVars

-----------------------------------------------------------------------------
\* What UTF-8 is, said without the code: a character is the encoding of a
\* Unicode scalar value, the shortest one.
ScalarValue(u) == (0 <= u /\ u < 55296) \/ (57344 <= u /\ u < 1114112)

Encoded(u) ==
    LET Trail(n) == 128 + ((u \div n) % 64) IN
    IF u < 128 THEN <<u>>
    ELSE IF u < 2048 THEN <<192 + u \div 64, Trail(1)>>
    ELSE IF u < 65536 THEN <<224 + u \div 4096, Trail(64), Trail(1)>>
    ELSE <<240 + u \div 262144, Trail(4096), Trail(64), Trail(1)>>

\* The value a piece of text would stand for, were it one character.
Decoded(piece) ==
    LET Low(k) == piece[k] % 64 IN
    IF Len(piece) = 1 THEN piece[1]
    ELSE IF Len(piece) = 2 THEN (piece[1] % 32) * 64 + Low(2)
    ELSE IF Len(piece) = 3 THEN (piece[1] % 16) * 4096 + Low(2) * 64 + Low(3)
    ELSE (piece[1] % 8) * 262144 + Low(2) * 4096 + Low(3) * 64 + Low(4)

IsCharacter(piece) ==
    /\ Len(piece) \in 1 .. 4
    /\ ScalarValue(Decoded(piece))
    /\ Encoded(Decoded(piece)) = piece

\* Where the characters of the text start, if it is a sequence of characters.
CharacterAt(starts, p) ==
    LET next == {q \in starts : q > p} \cup {Len(text) + 1}
        end == CHOOSE q \in next : \A r \in next : q <= r
    IN  SubSeq(text, p, end - 1)

Readings == {starts \in SUBSET DOMAIN text :
                /\ text # <<>> => 1 \in starts
                /\ \A p \in starts : IsCharacter(CharacterAt(starts, p))}

Decodable == Readings # {}
Starts == CHOOSE starts \in Readings : TRUE

\* A character every one of these rules has to let through: one of its ASCII
\* characters, or a letter.
Proper(p) == \/ text[p] \in Allowed[textCall.name]
             \/ text[p] >= 128 /\ Decoded(CharacterAt(Starts, p)) \in Alphabetic

\* The answer of a call is what its text, read as characters, calls for.  alpha
\* and its sisters accept nothing that is no UTF-8 and no other ASCII character
\* than theirs, and refuse no letter of any alphabet; what they say of the other
\* characters is the question of AlphaOnlyLetters.  A length is a number of
\* characters.  An offset is one byte behind the start of the character with that
\* number, counted from 1, which is within it if it has several bytes; the
\* beginning for 0, and the end if there are fewer.
TextVerdict ==
    step = "done" =>
        /\ textCall.name \in CharRules /\ textAccepted =>
              Decodable /\ \A p \in Starts :
                               text[p] >= 128 \/ text[p] \in Allowed[textCall.name]
        /\ textCall.name \in CharRules /\ Decodable /\ (\A p \in Starts : Proper(p)) =>
              textAccepted
        /\ textCall.name \in CaseRules =>
              (textAccepted <=>
                  \A p \in DOMAIN text : text[p] \notin WrongCase[textCall.name])
        /\ textCall.name = "strlen" /\ Decodable => count = Cardinality(Starts)
        /\ textCall.name = "offset" /\ Decodable =>
              /\ textCall.position = 0 => at = 1
              /\ \A p \in Starts :
                    Cardinality({q \in Starts : q <= p}) = textCall.position => at = p + 1
              /\ textCall.position > Cardinality(Starts) => at = Len(text) + 1

\* "Only alphabetic characters": alpha accepts letters and nothing else.  It
\* accepts every character beyond ASCII: see the run alpha_admits_any.
AlphaOnlyLetters ==
    step = "done" /\ textCall.name = "alpha" /\ textAccepted =>
        \A p \in Starts : Proper(p)

\* The walk trusts the check that went before it: the text is UTF-8 throughout,
\* the pointer stands at the beginning of a character or behind the last, and
\* the branch for other lead bytes is never taken.
WalkOnCharacters ==
    step = "walking" =>
        /\ Decodable
        /\ at \in Starts \cup {Len(text) + 1}
        /\ More /\ ~WalksOver(text[at]) => text[at] < 128

=============================================================================
