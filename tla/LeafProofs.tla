----------------------------- MODULE LeafProofs -----------------------------
(***************************************************************************)
(* What the rules promise that share no state with the others: checksums,  *)
(* dates, numbers and sizes, distinct lists, and texts, each for every     *)
(* value of the constants its module allows.                               *)
(***************************************************************************)
EXTENDS Checksums, Dates, ValueRules, ArrayRules, TextRules,
        SequenceTheorems, FiniteSetTheorems, NaturalSets

-----------------------------------------------------------------------------
(* Checksums of an OIB and of an IBAN. *)

\* A number is its quotient and its remainder: the form in which the solver
\* does linear arithmetic on remainders.
LEMMA Modulo97 ==
    ASSUME NEW a \in Int
    PROVE  a % 97 \in 0 .. 96 /\ \E q \in Int : a = 97 * q + (a % 97)
<1>1. a % 97 \in 0 .. 96
  BY SMT
<1>2. a \div 97 \in Int /\ a = 97 * (a \div 97) + (a % 97)
  BY SMT
<1> QED
  BY <1>1, <1>2

\* Characters of a kind: both digits or both letters.
LEMMA CharRange == Char \subseteq 0 .. 37
  BY DEF Char, Digit, Letter, Blank, Other

\* What the remainder is after a character: a letter stands for two digits.
LEMMA AppendedDigit ==
    ASSUME NEW r \in 0 .. 96, NEW c \in Digit
    PROVE  Appended(r, c) \in 0 .. 96 /\ \E q \in Int : r * 10 + c = 97 * q + Appended(r, c)
<1>1. Appended(r, c) = (r * 10 + c) % 97
  BY DEF Appended
<1>2. r * 10 + c \in Int
  BY DEF Digit
<1> QED
  BY <1>1, <1>2, Modulo97

LEMMA AppendedLetter ==
    ASSUME NEW r \in 0 .. 96, NEW c \in Letter
    PROVE  Appended(r, c) \in 0 .. 96 /\ \E q \in Int : r * 100 + c = 97 * q + Appended(r, c)
<1> DEFINE m == (r * 10 + c \div 10) % 97
           n == m * 10 + (c % 10)
<1>1. c \in Int /\ c \notin Digit
  BY DEF Letter, Digit
<1>2. c \div 10 \in Int /\ c % 10 \in Int /\ c = 10 * (c \div 10) + (c % 10)
  BY <1>1, SMT
<1>3. Appended(r, c) = n % 97
  BY <1>1 DEF Appended
<1>4. m \in 0 .. 96 /\ \E p \in Int : r * 10 + c \div 10 = 97 * p + m
  <2>1. r * 10 + c \div 10 \in Int
    BY <1>2
  <2> QED
    BY <2>1, Modulo97
<1> HIDE DEF m
<1>5. PICK p \in Int : r * 10 + c \div 10 = 97 * p + m
  BY <1>4
<1>6. n \in Int
  BY <1>2, <1>4
<1>7. n % 97 \in 0 .. 96 /\ \E q \in Int : n = 97 * q + (n % 97)
  BY <1>6, Modulo97
<1>8. PICK q \in Int : n = 97 * q + (n % 97)
  BY <1>7
<1> DEFINE rest == n % 97
<1>9. r * 100 + c = n + 970 * p
  BY <1>1, <1>2, <1>4, <1>5
<1>10. r * 100 + c = 97 * (q + 10 * p) + rest
  <2>1. rest \in 0 .. 96 /\ n = 97 * q + rest
    BY <1>7, <1>8
  <2> HIDE DEF n, rest
  <2> QED
    BY <1>1, <1>6, <1>9, <2>1, SMT
<1>11. q + 10 * p \in Int /\ rest = Appended(r, c) /\ rest \in 0 .. 96
  BY <1>3, <1>7
<1> HIDE DEF rest
<1> QED
  BY <1>10, <1>11

LEMMA AppendedRange ==
    ASSUME NEW r \in 0 .. 96, NEW c \in Char
    PROVE  Appended(r, c) \in 0 .. 96
<1>1. CASE c \in Digit \cup Letter
  BY <1>1, AppendedDigit, AppendedLetter
<1>2. CASE c \notin Digit \cup Letter
  BY <1>2 DEF Appended
<1> QED
  BY <1>1, <1>2

\* 10 and 100 have inverses modulo 97: two remainders stay apart.
LEMMA AppendedApart ==
    ASSUME NEW r \in 0 .. 96, NEW s \in 0 .. 96, r # s, NEW c \in Char
    PROVE  Appended(r, c) # Appended(s, c)
<1>1. CASE c \in Digit
  <2> DEFINE a == Appended(r, c)
           b == Appended(s, c)
  <2>1. PICK p \in Int : r * 10 + c = 97 * p + a
    BY <1>1, AppendedDigit
  <2>2. PICK q \in Int : s * 10 + c = 97 * q + b
    BY <1>1, AppendedDigit
  <2>3. a \in 0 .. 96 /\ b \in 0 .. 96
    BY AppendedRange
  <2>4. c \in 0 .. 37
    BY CharRange
  <2> HIDE DEF a, b
  <2>5. a = b => 10 * (r - s) = 97 * (p - q)
    BY <2>1, <2>2, <2>3, <2>4, SMT
  <2>6. \A i \in Int : \A k \in -96 .. 96 : 10 * k = 97 * i => k = 0
    BY SMT
  <2>7. p - q \in Int /\ r - s \in -96 .. 96 /\ r - s # 0
    BY <2>3
  <2> QED
    BY <2>5, <2>6, <2>7 DEF a, b
<1>2. CASE c \in Letter
  <2> DEFINE a == Appended(r, c)
           b == Appended(s, c)
  <2>1. PICK p \in Int : r * 100 + c = 97 * p + a
    BY <1>2, AppendedLetter
  <2>2. PICK q \in Int : s * 100 + c = 97 * q + b
    BY <1>2, AppendedLetter
  <2>3. a \in 0 .. 96 /\ b \in 0 .. 96
    BY AppendedRange
  <2>4. c \in 0 .. 37
    BY CharRange
  <2> HIDE DEF a, b
  <2>5. a = b => 100 * (r - s) = 97 * (p - q)
    BY <2>1, <2>2, <2>3, <2>4, SMT
  <2>6. \A i \in Int : \A k \in -96 .. 96 : 100 * k = 97 * i => k = 0
    BY SMT
  <2>7. p - q \in Int /\ r - s \in -96 .. 96 /\ r - s # 0
    BY <2>3
  <2> QED
    BY <2>5, <2>6, <2>7 DEF a, b
<1>3. CASE c \notin Digit \cup Letter
  BY <1>3 DEF Appended
<1> QED
  BY <1>1, <1>2, <1>3

\* One character for another of its kind shows in the remainder.
LEMMA AppendedTells ==
    ASSUME NEW r \in 0 .. 96, NEW c \in Char, NEW d \in Char, c # d, SameKind(c, d)
    PROVE  Appended(r, c) # Appended(r, d)
<1>1. CASE c \in Digit /\ d \in Digit
  <2> DEFINE a == Appended(r, c)
           b == Appended(r, d)
  <2>1. PICK p \in Int : r * 10 + c = 97 * p + a
    BY <1>1, AppendedDigit
  <2>2. PICK q \in Int : r * 10 + d = 97 * q + b
    BY <1>1, AppendedDigit
  <2>3. a \in 0 .. 96 /\ b \in 0 .. 96
    BY AppendedRange
  <2>4. c \in 0 .. 37 /\ d \in 0 .. 37
    BY CharRange
  <2> HIDE DEF a, b
  <2>5. a = b => c - d = 97 * (p - q)
    BY <2>1, <2>2, <2>3, <2>4, SMT
  <2>6. \A i \in Int : \A k \in -37 .. 37 : k = 97 * i => k = 0
    BY SMT
  <2>7. p - q \in Int /\ c - d \in -37 .. 37 /\ c - d # 0
    BY <2>4
  <2> QED
    BY <2>5, <2>6, <2>7 DEF a, b
<1>2. CASE c \in Letter /\ d \in Letter
  <2> DEFINE a == Appended(r, c)
           b == Appended(r, d)
  <2>1. PICK p \in Int : r * 100 + c = 97 * p + a
    BY <1>2, AppendedLetter
  <2>2. PICK q \in Int : r * 100 + d = 97 * q + b
    BY <1>2, AppendedLetter
  <2>3. a \in 0 .. 96 /\ b \in 0 .. 96
    BY AppendedRange
  <2>4. c \in 0 .. 37 /\ d \in 0 .. 37
    BY CharRange
  <2> HIDE DEF a, b
  <2>5. a = b => c - d = 97 * (p - q)
    BY <2>1, <2>2, <2>3, <2>4, SMT
  <2>6. \A i \in Int : \A k \in -37 .. 37 : k = 97 * i => k = 0
    BY SMT
  <2>7. p - q \in Int /\ c - d \in -37 .. 37 /\ c - d # 0
    BY <2>4
  <2> QED
    BY <2>5, <2>6, <2>7 DEF a, b
<1> QED
  BY <1>1, <1>2 DEF SameKind

\* So do two neighbours in the wrong order: 9 and 99 are prime to 97, and no
\* two characters of a kind are 97 apart.
LEMMA AppendedOrder ==
    ASSUME NEW r \in 0 .. 96, NEW c \in Char, NEW d \in Char, c # d, SameKind(c, d)
    PROVE  Appended(Appended(r, c), d) # Appended(Appended(r, d), c)
<1> DEFINE rc == Appended(r, c)
           rd == Appended(r, d)
           rcd == Appended(rc, d)
           rdc == Appended(rd, c)
<1>0. rc \in 0 .. 96 /\ rd \in 0 .. 96 /\ c \in 0 .. 37 /\ d \in 0 .. 37
  <2>1. rc \in 0 .. 96 /\ rd \in 0 .. 96
    BY AppendedRange
  <2>2. c \in 0 .. 37 /\ d \in 0 .. 37
    BY CharRange
  <2> QED
    BY <2>1, <2>2
<1> SUFFICES rcd # rdc
  OBVIOUS
<1>a. rcd \in 0 .. 96 /\ rdc \in 0 .. 96
  <2> HIDE DEF rc, rd
  <2> QED
    BY <1>0, AppendedRange
<1>1. CASE c \in Digit /\ d \in Digit
  <2>1. PICK p \in Int : r * 10 + c = 97 * p + rc
    BY <1>1, AppendedDigit
  <2>2. PICK q \in Int : r * 10 + d = 97 * q + rd
    BY <1>1, AppendedDigit
  <2> HIDE DEF rc, rd
  <2>3. PICK m \in Int : rc * 10 + d = 97 * m + rcd
    BY <1>0, <1>1, AppendedDigit
  <2>4. PICK n \in Int : rd * 10 + c = 97 * n + rdc
    BY <1>0, <1>1, AppendedDigit
  <2> HIDE DEF rcd, rdc
  <2>5. r * 100 + 10 * c + d = 97 * (10 * p + m) + rcd
    BY <1>0, <1>a, <2>1, <2>3, SMT
  <2>6. r * 100 + 10 * d + c = 97 * (10 * q + n) + rdc
    BY <1>0, <1>a, <2>2, <2>4, SMT
  <2> DEFINE i == 10 * p + m - 10 * q - n
  <2>7. i \in Int /\ (rcd = rdc => 9 * (c - d) = 97 * i)
    BY <1>0, <1>a, <2>5, <2>6, SMT
  <2>8. c - d \in -9 .. 9 /\ c - d # 0
    BY <1>1 DEF Digit
  <2>9. \A j \in Int : \A k \in -9 .. 9 : 9 * k = 97 * j => k = 0
    BY SMT
  <2> HIDE DEF i
  <2> QED
    BY <2>7, <2>8, <2>9
<1>2. CASE c \in Letter /\ d \in Letter
  <2>1. PICK p \in Int : r * 100 + c = 97 * p + rc
    BY <1>2, AppendedLetter
  <2>2. PICK q \in Int : r * 100 + d = 97 * q + rd
    BY <1>2, AppendedLetter
  <2> HIDE DEF rc, rd
  <2>3. PICK m \in Int : rc * 100 + d = 97 * m + rcd
    BY <1>0, <1>2, AppendedLetter
  <2>4. PICK n \in Int : rd * 100 + c = 97 * n + rdc
    BY <1>0, <1>2, AppendedLetter
  <2> HIDE DEF rcd, rdc
  <2>5. r * 10000 + 100 * c + d = 97 * (100 * p + m) + rcd
    BY <1>0, <1>a, <2>1, <2>3, SMT
  <2>6. r * 10000 + 100 * d + c = 97 * (100 * q + n) + rdc
    BY <1>0, <1>a, <2>2, <2>4, SMT
  <2> DEFINE i == 100 * p + m - 100 * q - n
  <2>7. i \in Int /\ (rcd = rdc => 99 * (c - d) = 97 * i)
    BY <1>0, <1>a, <2>5, <2>6, SMT
  <2>8. c - d \in -25 .. 25 /\ c - d # 0
    BY <1>2 DEF Letter
  <2>9. \A j \in Int : \A k \in -25 .. 25 : 99 * k = 97 * j => k = 0
    BY SMT
  <2> HIDE DEF i
  <2> QED
    BY <2>7, <2>8, <2>9
<1> QED
  BY <1>1, <1>2 DEF SameKind

\* The steps of an OIB keep apart what was apart: the remainders stay in
\* 1 .. 10, where adding a digit modulo 10 and doubling modulo 11 are one to one.
LEMMA OIBStepRange ==
    ASSUME NEW t \in 1 .. 10, NEW d \in Digit
    PROVE  OIBStep(t, d) \in 1 .. 10
  BY SMT DEF OIBStep, Digit

LEMMA OIBStepApart ==
    ASSUME NEW t \in 1 .. 10, NEW u \in 1 .. 10, t # u, NEW d \in Digit
    PROVE  OIBStep(t, d) # OIBStep(u, d)
  BY SMT DEF OIBStep, Digit

LEMMA OIBStepTells ==
    ASSUME NEW t \in 1 .. 10, NEW c \in Digit, NEW d \in Digit, c # d
    PROVE  OIBStep(t, c) # OIBStep(t, d)
  BY SMT DEF OIBStep, Digit

LEMMA ControlApart ==
    ASSUME NEW t \in 1 .. 10, NEW u \in 1 .. 10, t # u
    PROVE  Control(t) # Control(u)
  BY SMT DEF Control

-----------------------------------------------------------------------------
Summing == \A x \in Copies : verdict[x] = "none"
SlipRefused == \E x \in Copies : verdict[x] \notin {"none", "accepted"}

\* The sum of a call that goes on is a remainder.
InRange ==
    \A x \in Copies : verdict[x] = "none" =>
        /\ scheme = "oib" => sum[x] \in 1 .. 10
        /\ scheme = "iban" => sum[x] \in 0 .. 96

\* Two digits at most for each character read, and no text is longer than allowed.
DigitsFit ==
    /\ read \in Nat /\ length \in Int
    /\ \A x \in Copies :
          /\ digits[x] \in Nat /\ digits[x] < IBAN_BUFFER /\ verdict[x] # "room"
          /\ verdict[x] = "none" => scheme = "oib" \/ /\ length <= IBAN_MAX_LENGTH
                                                      /\ digits[x] <= 2 * read

\* Before the slip both calls agree; in the midst of a swap the sums are those of
\* one number with either character behind it; after it they differ.
Alike == verdict[1] = verdict[2] /\ sum[1] = sum[2] /\ digits[1] = digits[2]

Swapping ==
    /\ scheme = "iban"
    /\ \E c, d \in Char :
          /\ c # d /\ SameKind(c, d) /\ owed = <<d, c>>
          /\ \/ SlipRefused
             \/ Summing /\ \E r \in 0 .. 96 : sum[1] = Appended(r, c) /\ sum[2] = Appended(r, d)

SlipShows ==
    /\ scheme \in {"oib", "iban"}
    /\ slip = "none" => Alike
    /\ slip = "swapping" => Swapping
    /\ slip = "made" => SlipRefused \/ (Summing /\ sum[1] # sum[2])

SumInv == InRange /\ DigitsFit /\ SlipShows

-----------------------------------------------------------------------------
LEMMA InitInv == SumInit => SumInv
<1> SUFFICES ASSUME SumInit PROVE SumInv
  OBVIOUS
<1>1. InRange
  BY DEF SumInit, InRange
<1>2. DigitsFit
  <2>1. length \in Int
    BY ChecksumAssumption DEF SumInit, ChecksumAssumption
  <2>2. ASSUME NEW x \in Copies
        PROVE  /\ digits[x] = 0 /\ verdict[x] # "room"
               /\ verdict[x] = "none" => scheme = "oib" \/ length <= IBAN_MAX_LENGTH
    BY ChecksumAssumption DEF SumInit, LengthFits, ChecksumAssumption
  <2>3. read = 0 /\ IBAN_MAX_LENGTH \in Nat /\ IBAN_BUFFER \in Nat /\ 0 < IBAN_BUFFER
    BY ChecksumAssumption DEF SumInit, ChecksumAssumption
  <2> QED
    BY <2>1, <2>2, <2>3 DEF DigitsFit
<1>3. SlipShows
  BY DEF SumInit, SlipShows, Alike, Copies
<1> QED
  BY <1>1, <1>2, <1>3 DEF SumInv

\* A call that goes on after a character was going on before it.
LEMMA ReadRange ==
    ASSUME NEW chars, chars[1] \in Char, chars[2] \in Char,
           scheme \in {"oib", "iban"}, InRange, Read(chars)
    PROVE  InRange'
<1> SUFFICES ASSUME NEW x \in Copies, verdict'[x] = "none"
             PROVE  /\ scheme = "oib" => sum'[x] \in 1 .. 10
                    /\ scheme = "iban" => sum'[x] \in 0 .. 96
  BY DEF InRange, Read
<1>1. chars[x] \in Char
  BY DEF Copies
<1>2. verdict[x] = "none" /\ VerdictOn(x, chars[x]) = "none" /\ sum'[x] = SumAfter(x, chars[x])
  BY DEF Read
<1>3. CASE scheme = "oib"
  <2>1. chars[x] \in Digit /\ sum[x] \in 1 .. 10 /\ sum'[x] = OIBStep(sum[x], chars[x])
    BY <1>2, <1>3 DEF VerdictOn, OIBVerdict, SumAfter, InRange
  <2> QED
    BY <1>3, <2>1, OIBStepRange
<1>4. CASE scheme = "iban"
  <2>1. sum[x] \in 0 .. 96 /\ sum'[x] = Appended(sum[x], chars[x])
    BY <1>2, <1>4 DEF SumAfter, InRange
  <2> QED
    BY <1>1, <1>4, <2>1, AppendedRange
<1> QED
  BY <1>3, <1>4

LEMMA ReadFits ==
    ASSUME NEW chars, DigitsFit, scheme \in {"oib", "iban"}, Read(chars)
    PROVE  DigitsFit'
<1>1. read \in Nat /\ length \in Int /\ read < length /\ read' = read + 1 /\ length' = length
  BY DEF DigitsFit, Read
<1>2. ASSUME NEW x \in Copies
      PROVE  /\ digits'[x] \in Nat /\ digits'[x] < IBAN_BUFFER /\ verdict'[x] # "room"
             /\ verdict'[x] = "none" => scheme = "oib" \/ /\ length <= IBAN_MAX_LENGTH
                                                          /\ digits'[x] <= 2 * (read + 1)
  <2> DEFINE n == DigitsOf(chars[x])
  <2>0. IBAN_BUFFER \in Nat /\ IBAN_MAX_LENGTH \in Nat /\ 2 * IBAN_MAX_LENGTH < IBAN_BUFFER
    BY ChecksumAssumption DEF ChecksumAssumption
  <2>1. n \in 0 .. 2
    BY DEF DigitsOf
  <2>2. CASE verdict[x] # "none"
    <3>1. digits'[x] = 0 /\ verdict'[x] = verdict[x]
      BY <2>2 DEF Read
    <3> QED
      BY <2>0, <2>2, <3>1 DEF DigitsFit
  <2>3. CASE verdict[x] = "none" /\ scheme = "oib"
    <3>1. digits'[x] = 0 /\ verdict'[x] = OIBVerdict(x, chars[x])
      BY <2>3 DEF Read, VerdictOn
    <3> QED
      BY <2>0, <2>3, <3>1 DEF OIBVerdict
  <2>4. CASE verdict[x] = "none" /\ scheme = "iban"
    <3>1. digits'[x] = digits[x] + n /\ verdict'[x] = IBANVerdict(x, chars[x])
      BY <2>4 DEF Read, VerdictOn
    <3>2. digits[x] \in Nat /\ digits[x] <= 2 * read /\ length <= IBAN_MAX_LENGTH
      BY <2>4 DEF DigitsFit
    <3> HIDE DEF n
    <3>3. digits[x] + n \in Nat /\ digits[x] + n <= 2 * (read + 1) /\ digits[x] + n < IBAN_BUFFER
      BY <1>1, <2>0, <2>1, <3>2
    <3>4. ~(digits[x] + n >= IBAN_BUFFER)
      BY <2>0, <3>3
    <3>5. verdict'[x] # "room"
      BY <3>1, <3>4 DEF n, IBANVerdict
    <3> QED
      BY <3>1, <3>2, <3>3, <3>5
  <2> QED
    BY <2>2, <2>3, <2>4
<1>3. scheme' = scheme
  BY DEF Read
<1> QED
  BY <1>1, <1>2, <1>3 DEF DigitsFit

\* A call that has refused its text stays with that.
LEMMA RefusedStays ==
    ASSUME NEW chars, SlipRefused, Read(chars)
    PROVE  SlipRefused'
  BY DEF SlipRefused, Read

\* What two different remainders, or two different characters, come to: not both
\* calls accept, and if both go on their sums differ.
Apart(chars) ==
    /\ scheme = "iban" => Appended(sum[1], chars[1]) # Appended(sum[2], chars[2])
    /\ scheme = "oib" /\ chars[1] \in Digit /\ chars[2] \in Digit =>
          /\ OIBStep(sum[1], chars[1]) # OIBStep(sum[2], chars[2])
          /\ ~(Control(sum[1]) = chars[1] /\ Control(sum[2]) = chars[2])

LEMMA ReadApart ==
    ASSUME NEW chars, Summing, Read(chars), Apart(chars), scheme \in {"oib", "iban"}
    PROVE  SlipRefused' \/ (Summing' /\ sum'[1] # sum'[2])
<1>1. /\ verdict'[1] = VerdictOn(1, chars[1]) /\ verdict'[2] = VerdictOn(2, chars[2])
      /\ verdict'[1] = "none" => sum'[1] = SumAfter(1, chars[1])
      /\ verdict'[2] = "none" => sum'[2] = SumAfter(2, chars[2])
  BY DEF Summing, Read, Copies
<1>2. SUFFICES ASSUME verdict'[1] \in {"none", "accepted"}, verdict'[2] \in {"none", "accepted"}
               PROVE  /\ verdict'[1] = "none" /\ verdict'[2] = "none"
                      /\ sum'[1] # sum'[2]
  BY DEF SlipRefused, Summing, Copies
<1>3. CASE scheme = "oib"
  <2>1. /\ chars[1] \in Digit /\ chars[2] \in Digit
        /\ LastCharacter => Control(sum[1]) = chars[1] /\ Control(sum[2]) = chars[2]
        /\ ~LastCharacter => verdict'[1] = "none" /\ verdict'[2] = "none"
    BY <1>1, <1>2, <1>3 DEF VerdictOn, OIBVerdict
  <2>2. ~LastCharacter
    BY <1>3, <2>1 DEF Apart
  <2> QED
    BY <1>1, <1>3, <2>1, <2>2 DEF Apart, SumAfter
<1>4. CASE scheme = "iban"
  <2>1. /\ LastCharacter => Appended(sum[1], chars[1]) = 1 /\ Appended(sum[2], chars[2]) = 1
        /\ ~LastCharacter => verdict'[1] = "none" /\ verdict'[2] = "none"
    BY <1>1, <1>2, <1>4 DEF VerdictOn, IBANVerdict
  <2>2. ~LastCharacter
    BY <1>4, <2>1 DEF Apart
  <2> QED
    BY <1>1, <1>4, <2>1, <2>2 DEF Apart, SumAfter
<1> QED
  BY <1>3, <1>4

\* Calls that agree are both running when they read.
LEMMA AlikeRun ==
    ASSUME NEW chars, Alike, Read(chars)
    PROVE  Summing
  BY DEF Alike, Read, Summing, Copies

-----------------------------------------------------------------------------
LEMMA SameShows ==
    ASSUME SumInv, ReadSame
    PROVE  SlipShows'
<1>1. PICK c \in Alphabet : Read(<<c, c>>)
  BY DEF ReadSame
<1> DEFINE chars == <<c, c>>
<1>2. c \in Char /\ chars[1] = c /\ chars[2] = c
  BY ChecksumAssumption DEF ChecksumAssumption
<1> HIDE DEF chars
<1>3. Read(chars) /\ slip' = slip /\ slip # "swapping" /\ scheme' = scheme
  BY <1>1 DEF chars, ReadSame, Read
<1>4. CASE slip = "none"
  <2>1. Alike
    BY <1>4 DEF SumInv, SlipShows
  <2>2. VerdictOn(1, c) = VerdictOn(2, c) /\ SumAfter(1, c) = SumAfter(2, c)
    BY <2>1 DEF Alike, VerdictOn, SumAfter, OIBVerdict, IBANVerdict
  <2>3. Summing
    BY <1>3, <2>1, AlikeRun
  <2>4. /\ verdict'[1] = VerdictOn(1, c) /\ verdict'[2] = VerdictOn(2, c)
        /\ sum'[1] = IF verdict'[1] = "none" THEN SumAfter(1, c) ELSE 0
        /\ sum'[2] = IF verdict'[2] = "none" THEN SumAfter(2, c) ELSE 0
        /\ digits'[1] = IF scheme = "iban" THEN digits[1] + DigitsOf(c) ELSE 0
        /\ digits'[2] = IF scheme = "iban" THEN digits[2] + DigitsOf(c) ELSE 0
    BY <1>2, <1>3, <2>3 DEF Read, Summing, Copies
  <2>5. Alike'
    BY <2>1, <2>2, <2>4 DEF Alike
  <2> QED
    BY <1>3, <1>4, <2>5 DEF SumInv, SlipShows
<1>5. CASE slip = "made"
  <2>1. CASE SlipRefused
    BY <1>3, <1>5, <2>1, RefusedStays DEF SumInv, SlipShows
  <2>2. CASE Summing /\ sum[1] # sum[2]
    <3>1. Apart(chars)
      <4>1. CASE scheme = "oib" /\ c \in Digit
        <5>1. sum[1] \in 1 .. 10 /\ sum[2] \in 1 .. 10
          BY <2>2, <4>1 DEF SumInv, InRange, Summing, Copies
        <5>2. OIBStep(sum[1], c) # OIBStep(sum[2], c) /\ Control(sum[1]) # Control(sum[2])
          BY <2>2, <4>1, <5>1, OIBStepApart, ControlApart
        <5> QED
          BY <1>2, <4>1, <5>2 DEF Apart
      <4>2. CASE scheme = "iban"
        <5>1. sum[1] \in 0 .. 96 /\ sum[2] \in 0 .. 96
          BY <2>2, <4>2 DEF SumInv, InRange, Summing, Copies
        <5> QED
          BY <1>2, <2>2, <4>2, <5>1, AppendedApart DEF Apart
      <4>3. CASE scheme = "oib" /\ c \notin Digit
        BY <1>2, <4>3 DEF Apart
      <4> QED
        BY <4>1, <4>2, <4>3 DEF SumInv, SlipShows
    <3>2. SlipRefused' \/ (Summing' /\ sum'[1] # sum'[2])
      BY <1>3, <2>2, <3>1, ReadApart DEF SumInv, SlipShows
    <3> QED
      BY <1>3, <1>5, <3>2 DEF SumInv, SlipShows
  <2> QED
    BY <1>5, <2>1, <2>2 DEF SumInv, SlipShows
<1>6. CASE slip \notin {"none", "made"}
  BY <1>3, <1>6 DEF SumInv, SlipShows
<1> QED
  BY <1>4, <1>5, <1>6

LEMMA SubstitutedShows ==
    ASSUME SumInv, ReadSubstituted
    PROVE  SlipShows'
<1>1. PICK c \in Alphabet, d \in Alphabet : c # d /\ SameKind(c, d) /\ Read(<<c, d>>)
  BY DEF ReadSubstituted
<1> DEFINE chars == <<c, d>>
<1>2. c \in Char /\ d \in Char /\ chars[1] = c /\ chars[2] = d
  BY ChecksumAssumption DEF ChecksumAssumption
<1> HIDE DEF chars
<1>3. Read(chars) /\ slip = "none" /\ slip' = "made" /\ scheme' = scheme
  BY <1>1 DEF chars, ReadSubstituted, Read
<1>4. Alike /\ scheme \in {"oib", "iban"}
  BY <1>3 DEF SumInv, SlipShows
<1>5. Summing
  BY <1>3, <1>4, AlikeRun
<1>6. Apart(chars)
  <2>1. CASE scheme = "oib" /\ c \in Digit /\ d \in Digit
    <3>1. sum[1] \in 1 .. 10 /\ sum[2] = sum[1]
      BY <1>4, <1>5, <2>1 DEF SumInv, InRange, Summing, Copies, Alike
    <3>2. OIBStep(sum[1], c) # OIBStep(sum[1], d)
      BY <1>1, <2>1, <3>1, OIBStepTells
    <3> QED
      BY <1>1, <1>2, <2>1, <3>1, <3>2 DEF Apart
  <2>2. CASE scheme = "iban"
    <3>1. sum[1] \in 0 .. 96 /\ sum[2] = sum[1]
      BY <1>4, <1>5, <2>2 DEF SumInv, InRange, Summing, Copies, Alike
    <3> QED
      BY <1>1, <1>2, <2>2, <3>1, AppendedTells DEF Apart
  <2> QED
    BY <1>2, <1>4, <2>1, <2>2 DEF Apart
<1>7. SlipRefused' \/ (Summing' /\ sum'[1] # sum'[2])
  BY <1>3, <1>4, <1>5, <1>6, ReadApart
<1> QED
  BY <1>3, <1>4, <1>7 DEF SlipShows

LEMMA SwappedShows ==
    ASSUME SumInv, ReadSwapped
    PROVE  SlipShows'
<1>1. PICK c \in Alphabet, d \in Alphabet :
          c # d /\ SameKind(c, d) /\ Read(<<c, d>>) /\ owed' = <<d, c>>
  BY DEF ReadSwapped
<1> DEFINE chars == <<c, d>>
<1>2. c \in Char /\ d \in Char /\ chars[1] = c /\ chars[2] = d
  BY ChecksumAssumption DEF ChecksumAssumption
<1> HIDE DEF chars
<1>3. /\ Read(chars) /\ slip = "none" /\ slip' = "swapping"
      /\ scheme = "iban" /\ scheme' = scheme /\ ~LastCharacter
  BY <1>1 DEF chars, ReadSwapped, Read, LastCharacter
<1>4. Alike
  BY <1>3 DEF SumInv, SlipShows
<1>5. Summing
  BY <1>3, <1>4, AlikeRun
<1>6. sum[1] \in 0 .. 96 /\ sum[2] = sum[1]
  BY <1>3, <1>4, <1>5 DEF SumInv, InRange, Summing, Copies, Alike
<1>7. /\ verdict'[1] = IBANVerdict(1, c) /\ verdict'[2] = IBANVerdict(2, d)
      /\ verdict'[1] = "none" => sum'[1] = Appended(sum[1], c)
      /\ verdict'[2] = "none" => sum'[2] = Appended(sum[2], d)
  BY <1>2, <1>3, <1>5 DEF Read, Summing, Copies, VerdictOn, SumAfter
<1>8. verdict'[1] # "accepted" /\ verdict'[2] # "accepted"
  BY <1>3, <1>7 DEF IBANVerdict
<1>9. \/ SlipRefused'
      \/ Summing' /\ \E r \in 0 .. 96 : sum'[1] = Appended(r, c) /\ sum'[2] = Appended(r, d)
  BY <1>6, <1>7, <1>8 DEF SlipRefused, Summing, Copies
<1>10. Swapping'
  BY <1>1, <1>2, <1>3, <1>9 DEF Swapping
<1> QED
  BY <1>3, <1>10 DEF SlipShows

LEMMA OwedShows ==
    ASSUME SumInv, ReadOwed
    PROVE  SlipShows'
<1>1. slip = "swapping" /\ Read(owed) /\ slip' = "made" /\ scheme' = scheme
  BY DEF ReadOwed, Read
<1>2. scheme = "iban" /\ Swapping
  BY <1>1 DEF SumInv, SlipShows, Swapping
<1>3. PICK c \in Char, d \in Char :
          /\ c # d /\ SameKind(c, d) /\ owed = <<d, c>>
          /\ \/ SlipRefused
             \/ Summing /\ \E r \in 0 .. 96 : sum[1] = Appended(r, c) /\ sum[2] = Appended(r, d)
  BY <1>2 DEF Swapping
<1> DEFINE chars == <<d, c>>
<1>4. Read(chars) /\ chars[1] = d /\ chars[2] = c
  BY <1>1, <1>3
<1> HIDE DEF chars
<1>5. CASE SlipRefused
  BY <1>1, <1>2, <1>4, <1>5, RefusedStays DEF SlipShows
<1>6. CASE Summing /\ \E r \in 0 .. 96 : sum[1] = Appended(r, c) /\ sum[2] = Appended(r, d)
  <2>1. PICK r \in 0 .. 96 : sum[1] = Appended(r, c) /\ sum[2] = Appended(r, d)
    BY <1>6
  <2>2. Appended(sum[1], d) # Appended(sum[2], c)
    BY <1>3, <2>1, AppendedOrder
  <2>3. Apart(chars)
    BY <1>2, <1>4, <2>2 DEF Apart
  <2>4. SlipRefused' \/ (Summing' /\ sum'[1] # sum'[2])
    BY <1>2, <1>4, <1>6, <2>3, ReadApart
  <2> QED
    BY <1>1, <1>2, <2>4 DEF SlipShows
<1> QED
  BY <1>3, <1>5, <1>6

\* Every step is a Read of two characters.
LEMMA NextReads ==
    ASSUME SumInv, SumNext
    PROVE  \E chars : chars[1] \in Char /\ chars[2] \in Char /\ Read(chars)
<1>1. ASSUME NEW c \in Char, NEW d \in Char
      PROVE  <<c, d>>[1] \in Char /\ <<c, d>>[2] \in Char
  OBVIOUS
<1>2. Alphabet \subseteq Char
  BY ChecksumAssumption DEF ChecksumAssumption
<1>3. CASE ReadSame
  BY <1>1, <1>2, <1>3 DEF ReadSame
<1>4. CASE ReadSubstituted
  BY <1>1, <1>2, <1>4 DEF ReadSubstituted
<1>5. CASE ReadSwapped
  BY <1>1, <1>2, <1>5 DEF ReadSwapped
<1>6. CASE ReadOwed
  <2>1. Swapping /\ Read(owed)
    BY <1>6 DEF ReadOwed, SumInv, SlipShows
  <2>2. PICK c \in Char, d \in Char : owed = <<d, c>>
    BY <2>1 DEF Swapping
  <2> QED
    BY <1>1, <2>1, <2>2
<1> QED
  BY <1>3, <1>4, <1>5, <1>6 DEF SumNext

LEMMA StepInv == SumInv /\ [SumNext]_sumVars => SumInv'
<1> SUFFICES ASSUME SumInv, [SumNext]_sumVars PROVE SumInv'
  OBVIOUS
<1>1. CASE SumNext
  <2>1. PICK chars : chars[1] \in Char /\ chars[2] \in Char /\ Read(chars)
    BY <1>1, NextReads
  <2>2. scheme \in {"oib", "iban"} /\ InRange /\ DigitsFit
    BY DEF SumInv, SlipShows
  <2>3. InRange' /\ DigitsFit'
    BY <2>1, <2>2, ReadRange, ReadFits
  <2>4. SlipShows'
    BY <1>1, SameShows, SubstitutedShows, SwappedShows, OwedShows DEF SumNext
  <2> QED
    BY <2>3, <2>4 DEF SumInv
<1>2. CASE UNCHANGED sumVars
  BY <1>2 DEF sumVars, SumInv, InRange, DigitsFit, SlipShows, Alike, Swapping, SlipRefused, Summing
<1> QED
  BY <1>1, <1>2

\* The inductive invariant of the two calls.
THEOREM CallsInvariant == SumSpec => []SumInv
  BY InitInv, StepInv, PTL DEF SumSpec

\* No slip of the typist passes with the number meant, in texts of any length
\* and any alphabet: validate_oib and validate_iban refuse one of the two.
THEOREM SlipsFound == SumSpec => []MistypedRefused
<1>1. SumInv => MistypedRefused
  <2> SUFFICES ASSUME SumInv, slip = "made" PROVE \E x \in Copies : verdict[x] # "accepted"
    BY DEF MistypedRefused
  <2>1. SlipRefused \/ Summing
    BY DEF SumInv, SlipShows
  <2> QED
    BY <2>1 DEF SlipRefused, Summing, Copies
<1> QED
  BY <1>1, CallsInvariant, PTL

\* The digits of an IBAN never meet the end of their buffer if it holds two for
\* each character of the longest one and a terminator, as in validate_iban.
THEOREM RoomSuffices == SumSpec => []NumericFits
<1>1. SumInv => NumericFits
  BY DEF SumInv, DigitsFit, NumericFits
<1> QED
  BY <1>1, CallsInvariant, PTL

-----------------------------------------------------------------------------
(* Dates. *)

DatesTyped ==
    /\ dateCall \in DateCalls
    /\ values \in [{1, 2} -> DateValue]
    /\ clock \in Nat /\ ticks \in Nat
    /\ dateStep \in {"begin", "trying", "reading", "comparing", "done"}
    /\ slot \in {1, 2} /\ format \in Format
    /\ stamp \in [{1, 2} -> Int]
    /\ thrown \in BOOLEAN /\ dateAccepted \in BOOLEAN
    /\ FirstFormat <= format /\ format <= LastFormat

\* A timestamp read for a date: of its day, and with its time or that of the clock,
\* which is known as long as the clock stands still.
StampAt(v, s, now, moved) ==
    \E t \in 0 .. DAY - 1 :
        /\ s = v.day * DAY + t
        /\ v.format # DateOnly => t = v.time
        /\ v.format = DateOnly /\ moved = 0 => t = now % DAY

StampOf(v, s) == StampAt(v, s, clock, ticks)

\* What a call has found out, unless an exception is pending: nothing of the
\* formats it has tried, and the timestamps of the values behind it.
Found ==
    /\ dateStep = "trying" =>
          /\ values[slot].isText
          /\ \A k \in FirstFormat .. format - 1 : values[slot].format = k => values[slot].warns
    /\ dateStep \in {"reading", "comparing"} => IsDate(values[slot])
    /\ dateStep # "done" /\ (slot = 2 \/ dateStep \in {"reading", "comparing"}) =>
          dateCall.rule \in Comparisons
    /\ dateStep # "done" /\ slot = 2 => IsDate(values[1]) /\ StampOf(values[1], stamp[1])
    /\ dateStep = "comparing" => slot = 2 /\ StampOf(values[2], stamp[2])

DateInv == DatesTyped /\ (~thrown => Found) /\ DateVerdict

-----------------------------------------------------------------------------
\* Days are further apart than times.
LEMMA DaysApart ==
    ASSUME NEW a \in Int, NEW b \in Int, a < b, NEW D \in Nat \ {0},
           NEW t \in 0 .. D - 1, NEW u \in 0 .. D - 1
    PROVE  a * D + t < b * D + u
<1> DEFINE k == b - a - 1
<1>1. k \in Nat /\ b = a + 1 + k
  OBVIOUS
<1> HIDE DEF k
<1>2. b * D = a * D + D + k * D
  BY <1>1
<1>3. k * D >= 0
  BY <1>1
<1>4. a * D \in Int /\ k * D \in Int
  BY <1>1
<1> QED
  BY <1>2, <1>3, <1>4

LEMMA DateFacts ==
    ASSUME NEW v \in DateValue
    PROVE  /\ v.isText \in BOOLEAN /\ v.format \in 0 .. 3 /\ v.warns \in BOOLEAN
           /\ v.throws \in BOOLEAN /\ v.day \in Int /\ v.time \in 0 .. DAY - 1
           /\ DAY \in Nat \ {0} /\ 0 \in 0 .. DAY - 1
  BY DateAssumption DEF DateAssumption

LEMMA DateCallFacts ==
    ASSUME dateCall \in DateCalls
    PROVE  /\ dateCall.rule \in Comparisons \cup {"date", "date_format"}
           /\ dateCall.rule = "date_format" => dateCall.format \in Format
           /\ FirstFormat \in Format /\ LastFormat \in Format /\ FirstFormat <= LastFormat
           /\ dateCall.rule # "date_format" => FirstFormat = 1 /\ LastFormat = 3
           /\ dateCall.rule = "date_format" =>
                 FirstFormat = dateCall.format /\ LastFormat = dateCall.format
<1>1. \/ dateCall \in [rule : Comparisons \cup {"date"}, format : {0}]
      \/ dateCall \in [rule : {"date_format"}, format : Format]
  BY DEF DateCalls
<1> QED
  BY <1>1 DEF Comparisons, FirstFormat, LastFormat, Format

\* The order of two timestamps is that of the dates, where that is plain.
LEMMA OrderKept ==
    ASSUME NEW v \in DateValue, NEW w \in DateValue, Comparable(v, w),
           NEW s, NEW r, StampOf(v, s), StampOf(w, r), NEW rule
    PROVE  Holds(rule, s, r) <=> Holds(rule, Moment(v), Moment(w))
<1>1. /\ v.day \in Int /\ w.day \in Int /\ v.time \in 0 .. DAY - 1 /\ w.time \in 0 .. DAY - 1
      /\ DAY \in Nat \ {0} /\ 0 \in 0 .. DAY - 1
  BY DateFacts
<1>2. PICK t \in 0 .. DAY - 1 : /\ s = v.day * DAY + t
                                /\ v.format # DateOnly => t = v.time
                                /\ v.format = DateOnly /\ ticks = 0 => t = clock % DAY
  BY DEF StampOf, StampAt
<1>3. PICK u \in 0 .. DAY - 1 : /\ r = w.day * DAY + u
                                /\ w.format # DateOnly => u = w.time
                                /\ w.format = DateOnly /\ ticks = 0 => u = clock % DAY
  BY DEF StampOf, StampAt
<1> DEFINE m == IF v.format = DateOnly THEN 0 ELSE v.time
           n == IF w.format = DateOnly THEN 0 ELSE w.time
<1>4. /\ Moment(v) = v.day * DAY + m /\ Moment(w) = w.day * DAY + n
      /\ m \in 0 .. DAY - 1 /\ n \in 0 .. DAY - 1
  BY <1>1 DEF Moment
<1>5. v.day * DAY \in Int /\ w.day * DAY \in Int
  BY <1>1
<1>6. CASE v.day < w.day
  <2>1. s < r /\ Moment(v) < Moment(w)
    <3> HIDE DEF m, n
    <3> QED
      BY <1>1, <1>2, <1>3, <1>4, <1>6, DaysApart
  <2>2. s \in Int /\ r \in Int /\ Moment(v) \in Int /\ Moment(w) \in Int
    BY <1>1, <1>2, <1>3, <1>4, <1>5
  <2> QED
    BY <2>1, <2>2 DEF Holds
<1>7. CASE w.day < v.day
  <2>1. r < s /\ Moment(w) < Moment(v)
    <3> HIDE DEF m, n
    <3> QED
      BY <1>1, <1>2, <1>3, <1>4, <1>7, DaysApart
  <2>2. s \in Int /\ r \in Int /\ Moment(v) \in Int /\ Moment(w) \in Int
    BY <1>1, <1>2, <1>3, <1>4, <1>5
  <2> QED
    BY <2>1, <2>2 DEF Holds
<1>8. CASE v.day = w.day
  <2>1. CASE v.format # DateOnly /\ w.format # DateOnly
    BY <1>2, <1>3, <1>4, <2>1
  <2>2. CASE v.format = DateOnly /\ w.format = DateOnly /\ ticks = 0
    <3>1. s = r /\ Moment(v) = Moment(w)
      BY <1>2, <1>3, <1>4, <1>8, <2>2
    <3>2. s \in Int /\ Moment(v) \in Int
      BY <1>2, <1>4, <1>5
    <3> QED
      BY <3>1, <3>2 DEF Holds
  <2> QED
    BY <1>8, <2>1, <2>2 DEF Comparable
<1> QED
  BY <1>1, <1>6, <1>7, <1>8

LEMMA DateInitInv == DateInit => DateInv
<1> SUFFICES ASSUME DateInit PROVE DateInv
  OBVIOUS
<1>1. /\ FirstFormat \in Format /\ FirstFormat <= LastFormat /\ format = FirstFormat
      /\ format \in Format /\ LastFormat \in Format
  BY DateCallFacts DEF DateInit
<1>2. clock \in Nat /\ ticks \in Nat
  <2>1. DAY \in Nat
    BY DateAssumption DEF DateAssumption
  <2> QED
    BY <2>1 DEF DateInit
<1>3. stamp \in [{1, 2} -> Int]
  <2>1. Leftover \subseteq Int
    BY DateAssumption DEF DateAssumption
  <2>2. stamp \in [{1, 2} -> Leftover]
    BY DEF DateInit
  <2> QED
    BY <2>1, <2>2
<1>4. DatesTyped
  <2>1. /\ dateCall \in DateCalls /\ values \in [{1, 2} -> DateValue] /\ slot = 1
        /\ dateStep = "begin" /\ thrown \in BOOLEAN /\ dateAccepted \in BOOLEAN
    BY Zenon DEF DateInit
  <2>2. FirstFormat <= format /\ format <= LastFormat
    BY <1>1 DEF Format
  <2>3. slot \in {1, 2} /\ dateStep \in {"begin", "trying", "reading", "comparing", "done"}
    BY <2>1
  <2> QED
    BY <1>1, <1>2, <1>3, <2>1, <2>2, <2>3, Zenon DEF DatesTyped
<1>5. dateStep = "begin" /\ slot = 1
  BY DEF DateInit
<1>6. Found /\ DateVerdict
  BY <1>5 DEF Found, DateVerdict
<1> QED
  BY <1>4, <1>6 DEF DateInv

LEMMA DateCallKept ==
    [DateNext]_dateVars =>
        /\ dateCall' = dateCall /\ values' = values
        /\ FirstFormat' = FirstFormat /\ LastFormat' = LastFormat
<1> SUFFICES ASSUME [DateNext]_dateVars
             PROVE  dateCall' = dateCall /\ values' = values
  BY DEF FirstFormat, LastFormat
<1> QED
  BY DEF DateNext, dateVars, Tick, BeginValue, NoText, FormatFits, NextFormat,
     NoFormat, ReadTime, CompareDates, ReturnDate

LEMMA TimestampFacts ==
    ASSUME NEW v \in DateValue, DatesTyped
    PROVE  /\ Timestamp(v) \in Int
           /\ clock % DAY \in 0 .. DAY - 1
           /\ StampOf(v, Timestamp(v))
<1>1. DAY \in Nat \ {0} /\ v.day \in Int /\ v.time \in 0 .. DAY - 1
  BY DateFacts
<1>2. clock \in Nat
  BY DEF DatesTyped
<1>3. clock % DAY \in 0 .. DAY - 1
  BY <1>1, <1>2
<1> DEFINE t == IF v.format = DateOnly THEN clock % DAY ELSE v.time
<1>4. t \in 0 .. DAY - 1 /\ Timestamp(v) = v.day * DAY + t
  BY <1>1, <1>3 DEF Timestamp
<1>5. v.day * DAY \in Int
  BY <1>1
<1>6. Timestamp(v) \in Int
  BY <1>1, <1>4, <1>5
<1>7. StampOf(v, Timestamp(v))
  BY <1>4 DEF StampOf, StampAt
<1> QED
  BY <1>3, <1>6, <1>7

LEMMA DatesTypedStep == DatesTyped /\ [DateNext]_dateVars => DatesTyped'
<1> SUFFICES ASSUME DatesTyped, [DateNext]_dateVars PROVE DatesTyped'
  OBVIOUS
<1>0. /\ FirstFormat \in Format /\ LastFormat \in Format /\ FirstFormat <= LastFormat
      /\ dateCall' = dateCall /\ values' = values
      /\ FirstFormat' = FirstFormat /\ LastFormat' = LastFormat
  BY DateCallFacts, DateCallKept DEF DatesTyped
<1>1. \A answer \in BOOLEAN : ReturnDate(answer) /\ thrown' \in BOOLEAN => DatesTyped'
  BY <1>0 DEF DatesTyped, ReturnDate
<1>2. CASE Tick
  BY <1>0, <1>2 DEF DatesTyped, Tick
<1>3. CASE BeginValue
  BY <1>0, <1>3 DEF DatesTyped, BeginValue, Format
<1>4. CASE NoText
  BY <1>1, <1>4 DEF DatesTyped, NoText
<1>5. \A valid \in BOOLEAN : TryFormat(valid) => thrown' \in BOOLEAN
  BY DEF TryFormat, DatesTyped
<1>6. CASE FormatFits
  <2>1. CASE dateCall.rule \in Comparisons
    BY <1>0, <1>5, <1>6, <2>1 DEF DatesTyped, FormatFits
  <2> QED
    BY <1>1, <1>5, <1>6, <2>1 DEF FormatFits
<1>7. CASE NextFormat
  <2>1. format' \in Format /\ FirstFormat <= format' /\ format' <= LastFormat
    BY <1>0, <1>7 DEF DatesTyped, NextFormat, Format
  <2> QED
    BY <1>0, <1>5, <1>7, <2>1 DEF DatesTyped, NextFormat
<1>8. CASE NoFormat
  BY <1>1, <1>5, <1>8 DEF NoFormat
<1>9. CASE ReadTime
  <2>1. values[slot] \in DateValue
    BY DEF DatesTyped
  <2>2. Timestamp(values[slot]) \in Int
    BY <2>1, TimestampFacts
  <2>3. stamp' \in [{1, 2} -> Int]
    BY <1>9, <2>2 DEF DatesTyped, ReadTime
  <2> QED
    BY <1>0, <1>9, <2>3 DEF DatesTyped, ReadTime
<1>10. CASE CompareDates
  <2>1. Holds(dateCall.rule, stamp[1], stamp[2]) \in BOOLEAN
    BY DEF Holds
  <2> QED
    BY <1>1, <1>10, <2>1 DEF DatesTyped, CompareDates
<1>11. CASE UNCHANGED dateVars
  BY <1>0, <1>11 DEF DatesTyped, dateVars
<1> QED
  BY <1>2, <1>3, <1>4, <1>6, <1>7, <1>8, <1>9, <1>10, <1>11 DEF DateNext

-----------------------------------------------------------------------------
\* The exceptions that are pending stay so.
LEMMA ThrownStays == ASSUME DatesTyped, [DateNext]_dateVars, thrown PROVE thrown'
  BY DEF DatesTyped, DateNext, dateVars, Tick, BeginValue, NoText, FormatFits, NextFormat,
     NoFormat, TryFormat, ReadTime, CompareDates, ReturnDate

\* A format is tried with no exception pending before or after: the answer is
\* whether the text is written in it and in the calendar.
LEMMA TryTells ==
    ASSUME DatesTyped, NEW valid \in BOOLEAN, TryFormat(valid), ~thrown'
    PROVE  /\ ~thrown /\ ~values[slot].throws
           /\ valid <=> values[slot].format = format /\ ~values[slot].warns
<1>1. values[slot] \in DateValue
  BY DEF DatesTyped
<1>2. values[slot].throws \in BOOLEAN /\ values[slot].warns \in BOOLEAN
  BY <1>1, DateFacts
<1>3. ~thrown /\ ~values[slot].throws /\ valid \in Answers
  BY <1>2 DEF TryFormat, DatesTyped
<1>4. valid = (values[slot].throws \/ Fits(values[slot]))
  BY <1>3, Zenon DEF Answers
<1>5. valid <=> Fits(values[slot])
  BY <1>3, <1>4, Zenon
<1> QED
  BY <1>3, <1>5 DEF Fits

\* Whether a value is a date of the call's formats, as TryFormat finds it.
Tried(valid) ==
    /\ valid => IsDate(values[slot]) /\ values[slot].format = format
    /\ ~valid /\ format = LastFormat =>
          ~(IsDate(values[slot]) /\ values[slot].format \in FirstFormat .. LastFormat)

LEMMA TriedRight ==
    ASSUME DateInv, NEW valid \in BOOLEAN, TryFormat(valid), ~thrown'
    PROVE  Tried(valid) /\ Found
<1>1. /\ ~thrown /\ ~values[slot].throws
      /\ valid <=> values[slot].format = format /\ ~values[slot].warns
  BY TryTells DEF DateInv
<1>2. /\ values[slot].isText
      /\ \A k \in FirstFormat .. format - 1 : values[slot].format = k => values[slot].warns
      /\ Found
  BY <1>1 DEF DateInv, Found, TryFormat
<1>3. values[slot].warns \in BOOLEAN /\ values[slot].throws \in BOOLEAN
      /\ values[slot].format \in Int
  <2>1. values[slot] \in DateValue
    BY DEF DateInv, DatesTyped
  <2> QED
    BY <2>1, DateFacts
<1>4. /\ format \in Int /\ format \in Format /\ FirstFormat \in Int /\ LastFormat \in Int
  BY DateCallFacts DEF DateInv, DatesTyped, Format
<1>5. valid => IsDate(values[slot]) /\ values[slot].format = format
  BY <1>1, <1>2, <1>3, <1>4 DEF IsDate
<1>6. ASSUME ~valid, format = LastFormat, IsDate(values[slot]),
             values[slot].format \in FirstFormat .. LastFormat
      PROVE  FALSE
  <2>1. ~values[slot].warns
    BY <1>6 DEF IsDate
  <2>2. values[slot].format # format
    BY <1>1, <1>6, <2>1
  <2>3. values[slot].format \in FirstFormat .. format - 1
    BY <1>3, <1>4, <1>6, <2>2
  <2> QED
    BY <1>2, <2>1, <2>3
<1> QED
  BY <1>2, <1>5, <1>6 DEF Tried

-----------------------------------------------------------------------------
\* A timestamp stays one of its date while the clock moves.
LEMMA StampStays ==
    ASSUME DatesTyped, [DateNext]_dateVars, NEW v, NEW s, StampAt(v, s, clock, ticks)
    PROVE  StampAt(v, s, clock', ticks')
<1>1. PICK t \in 0 .. DAY - 1 :
        /\ s = v.day * DAY + t
        /\ v.format # DateOnly => t = v.time
        /\ v.format = DateOnly /\ ticks = 0 => t = clock % DAY
  BY DEF StampAt
<1>2. Tick \/ UNCHANGED <<clock, ticks>>
  BY DEF DateNext, dateVars, BeginValue, NoText, FormatFits, NextFormat,
     NoFormat, ReadTime, CompareDates, ReturnDate
<1>3. ticks' = 0 => ticks = 0 /\ clock' = clock
  BY <1>2 DEF DatesTyped, Tick
<1>4. v.format = DateOnly /\ ticks' = 0 => t = clock' % DAY
  BY <1>1, <1>3
<1> QED
  BY <1>1, <1>4 DEF StampAt

LEMMA FoundStep == DateInv /\ [DateNext]_dateVars => (~thrown' => Found')
<1> SUFFICES ASSUME DateInv, [DateNext]_dateVars, ~thrown' PROVE Found'
  OBVIOUS
<1>1. DatesTyped /\ ~thrown /\ Found
  BY ThrownStays DEF DateInv
<1>2. dateCall' = dateCall /\ values' = values /\ FirstFormat' = FirstFormat
  BY DateCallKept
<1>3. \A v, s : StampAt(v, s, clock, ticks) => StampAt(v, s, clock', ticks')
  BY <1>1, StampStays
<1>4. CASE Tick
  BY <1>1, <1>2, <1>3, <1>4 DEF Found, Tick, StampOf
<1>5. CASE BeginValue
  <2>1. \A k \in FirstFormat .. FirstFormat - 1 : FALSE
    BY DateCallFacts, <1>1 DEF DatesTyped, Format
  <2> QED
    BY <1>1, <1>2, <1>3, <1>5, <2>1 DEF Found, BeginValue, StampOf
<1>6. ASSUME NEW answer, ReturnDate(answer) PROVE Found'
  BY <1>6 DEF Found, ReturnDate
<1>7. CASE NoText
  BY <1>6, <1>7 DEF NoText
<1>8. CASE FormatFits
  <2>1. Tried(TRUE)
    BY <1>8, TriedRight DEF FormatFits
  <2>2. CASE dateCall.rule \in Comparisons
    BY <1>1, <1>2, <1>3, <1>8, <2>1, <2>2 DEF Found, FormatFits, TryFormat, Tried, StampOf
  <2> QED
    BY <1>6, <1>8, <2>2 DEF FormatFits
<1>9. CASE NextFormat
  <2>1. TryFormat(FALSE) /\ dateStep = "trying"
    BY <1>9 DEF NextFormat, TryFormat
  <2>2. /\ ~thrown /\ ~values[slot].throws
        /\ FALSE <=> values[slot].format = format /\ ~values[slot].warns
    BY <1>1, <2>1, TryTells
  <2>3. values[slot].warns \in BOOLEAN
    <3>1. values[slot] \in DateValue
      BY <1>1 DEF DatesTyped
    <3> QED
      BY <3>1, DateFacts
  <2>4. format \in Int /\ FirstFormat \in Int
    BY <1>1, DateCallFacts DEF DatesTyped, Format
  <2>5. \A k \in FirstFormat .. format : k # format => k \in FirstFormat .. format - 1
    BY <2>4
  <2>6. \A k \in FirstFormat .. format : values[slot].format = k => values[slot].warns
    BY <1>1, <2>1, <2>2, <2>3, <2>5 DEF Found
  <2>7. format' = format + 1 /\ format' - 1 = format
    BY <1>9, <2>4 DEF NextFormat
  <2>8. UNCHANGED <<slot, dateStep, stamp>>
    BY <1>9 DEF NextFormat
  <2>9. \A k \in FirstFormat' .. format' - 1 : values'[slot'].format = k => values'[slot'].warns
    BY <1>2, <2>6, <2>7, <2>8
  <2> QED
    BY <1>1, <1>2, <1>3, <2>1, <2>8, <2>9 DEF Found, StampOf
<1>10. CASE NoFormat
  BY <1>6, <1>10 DEF NoFormat
<1>11. CASE ReadTime
  <2>1. values[slot] \in DateValue /\ slot \in {1, 2}
    BY <1>1 DEF DatesTyped
  <2>2. StampAt(values[slot], Timestamp(values[slot]), clock', ticks')
    BY <1>1, <1>3, <2>1, TimestampFacts DEF StampOf
  <2>3. /\ stamp'[slot] = Timestamp(values[slot])
        /\ \A k \in {1, 2} : k # slot => stamp'[k] = stamp[k]
    BY <1>1, <1>11 DEF ReadTime, DatesTyped
  <2>4. dateStep = "reading"
    BY <1>11 DEF ReadTime
  <2>5. CASE slot = 1
    BY <1>1, <1>2, <1>11, <2>2, <2>3, <2>4, <2>5 DEF Found, ReadTime, StampOf
  <2>6. CASE slot = 2
    BY <1>1, <1>2, <1>3, <1>11, <2>2, <2>3, <2>4, <2>6 DEF Found, ReadTime, StampOf
  <2> QED
    BY <2>1, <2>5, <2>6
<1>12. CASE CompareDates
  BY <1>6, <1>12 DEF CompareDates
<1>13. CASE UNCHANGED dateVars
  BY <1>1, <1>13 DEF Found, dateVars, StampOf, FirstFormat
<1> QED
  BY <1>4, <1>5, <1>7, <1>8, <1>9, <1>10, <1>11, <1>12, <1>13 DEF DateNext

-----------------------------------------------------------------------------
\* The answer, given by the return that a step makes.
DateAnswerRight(answer) ==
    LET v == values[1]
        w == values[2]
    IN  /\ dateCall.rule = "date" => (answer <=> IsDate(v))
        /\ dateCall.rule = "date_format" => (answer <=> IsDate(v) /\ v.format = dateCall.format)
        /\ dateCall.rule \in Comparisons =>
              /\ answer => IsDate(v) /\ IsDate(w)
              /\ IsDate(v) /\ IsDate(w) /\ Comparable(v, w) =>
                    (answer <=> Holds(dateCall.rule, Moment(v), Moment(w)))

LEMMA DateVerdictStep == DateInv /\ [DateNext]_dateVars => DateVerdict'
<1> SUFFICES ASSUME DateInv, [DateNext]_dateVars, ~thrown' PROVE DateVerdict'
  BY DEF DateVerdict
<1>1. DatesTyped /\ ~thrown /\ Found
  BY ThrownStays DEF DateInv
<1>2. dateCall' = dateCall /\ values' = values
  BY DateCallKept
<1>3. ASSUME NEW answer \in BOOLEAN, ReturnDate(answer), DateAnswerRight(answer)
      PROVE  DateVerdict'
  BY <1>2, <1>3 DEF DateVerdict, DateAnswerRight, ReturnDate, Comparable
<1>4. CASE dateStep' # "done"
  BY <1>4 DEF DateVerdict
<1>5. CASE NoText
  <2>1. ~IsDate(values[slot])
    BY <1>5 DEF NoText, IsDate
  <2>2. DateAnswerRight(FALSE)
    BY <1>1, <1>5, <2>1 DEF DateAnswerRight, NoText, DatesTyped, Found, Comparisons
  <2> QED
    BY <1>3, <1>5, <2>2 DEF NoText
<1>6. CASE FormatFits /\ dateCall.rule \notin Comparisons
  <2>1. Tried(TRUE)
    BY <1>6, TriedRight DEF FormatFits
  <2>2. dateStep = "trying" /\ slot = 1
    <3>1. dateStep = "trying"
      BY <1>6 DEF FormatFits, TryFormat
    <3> QED
      BY <1>1, <1>6, <3>1 DEF Found, DatesTyped
  <2>3. IsDate(values[1]) /\ values[1].format = format
    BY <2>1, <2>2 DEF Tried
  <2>4. dateCall.rule = "date_format" => format = dateCall.format
    BY <1>1, DateCallFacts DEF DatesTyped, Format
  <2>5. DateAnswerRight(TRUE)
    BY <1>6, <2>3, <2>4 DEF DateAnswerRight
  <2> QED
    BY <1>3, <1>6, <2>5 DEF FormatFits
<1>7. CASE NoFormat
  <2>1. Tried(FALSE)
    BY <1>7, TriedRight DEF NoFormat
  <2>2. ~(IsDate(values[slot]) /\ values[slot].format \in FirstFormat .. LastFormat)
    BY <1>7, <2>1 DEF Tried, NoFormat
  <2>3. dateStep = "trying" /\ dateCall \in DateCalls /\ slot \in {1, 2}
    BY <1>1, <1>7 DEF DatesTyped, NoFormat, TryFormat
  <2>4. CASE dateCall.rule \in Comparisons
    <3>1. FirstFormat .. LastFormat = Format
      BY <2>3, <2>4, DateCallFacts DEF Comparisons, Format
    <3>2. ~IsDate(values[slot])
      BY <2>2, <3>1 DEF IsDate
    <3>3. DateAnswerRight(FALSE)
      BY <2>3, <2>4, <3>2 DEF DateAnswerRight, Comparisons
    <3> QED
      BY <1>3, <1>7, <3>3 DEF NoFormat
  <2>5. CASE dateCall.rule \notin Comparisons
    <3>1. slot = 1
      BY <1>1, <2>3, <2>5 DEF Found
    <3>2. CASE dateCall.rule = "date"
      <4>1. FirstFormat .. LastFormat = Format
        BY <2>3, <3>2, DateCallFacts DEF Format
      <4>2. ~IsDate(values[1])
        BY <2>2, <3>1, <4>1 DEF IsDate
      <4>3. DateAnswerRight(FALSE)
        BY <2>5, <3>2, <4>2 DEF DateAnswerRight
      <4> QED
        BY <1>3, <1>7, <4>3 DEF NoFormat
    <3>3. CASE dateCall.rule = "date_format"
      <4>1. FirstFormat = dateCall.format /\ LastFormat = dateCall.format
            /\ dateCall.format \in FirstFormat .. LastFormat
        BY <2>3, <3>3, DateCallFacts DEF Format
      <4>2. ~(IsDate(values[1]) /\ values[1].format = dateCall.format)
        BY <2>2, <3>1, <4>1
      <4>3. DateAnswerRight(FALSE)
        BY <2>5, <3>3, <4>2 DEF DateAnswerRight
      <4> QED
        BY <1>3, <1>7, <4>3 DEF NoFormat
    <3> QED
      BY <2>3, <2>5, <3>2, <3>3, DateCallFacts
  <2> QED
    BY <2>4, <2>5
<1>8. CASE CompareDates
  <2>1. dateStep = "comparing" /\ slot = 2
    BY <1>1, <1>8 DEF CompareDates, Found
  <2>2. /\ dateCall.rule \in Comparisons /\ IsDate(values[1]) /\ IsDate(values[2])
        /\ StampOf(values[1], stamp[1]) /\ StampOf(values[2], stamp[2])
    BY <1>1, <2>1 DEF Found
  <2>3. values[1] \in DateValue /\ values[2] \in DateValue
    BY <1>1 DEF DatesTyped
  <2> DEFINE answer == Holds(dateCall.rule, stamp[1], stamp[2])
  <2>4. answer \in BOOLEAN
    BY DEF Holds
  <2>5. Comparable(values[1], values[2]) =>
           (answer <=> Holds(dateCall.rule, Moment(values[1]), Moment(values[2])))
    BY <2>2, <2>3, OrderKept
  <2> HIDE DEF answer
  <2>6. DateAnswerRight(answer)
    BY <2>2, <2>5 DEF DateAnswerRight, Comparisons
  <2> QED
    BY <1>3, <1>8, <2>4, <2>6 DEF CompareDates, answer
<1>9. CASE UNCHANGED dateVars
  BY <1>9 DEF DateInv, DateVerdict, dateVars, Comparable
<1>10. CASE Tick \/ BeginValue \/ NextFormat \/ ReadTime
  <2>1. dateStep # "done" /\ dateStep' # "done"
    BY <1>1, <1>10 DEF Tick, BeginValue, NextFormat, ReadTime, TryFormat
  <2> QED
    BY <1>4, <2>1
<1>11. CASE FormatFits /\ dateCall.rule \in Comparisons
  BY <1>4, <1>11 DEF FormatFits
<1> QED
  BY <1>5, <1>6, <1>7, <1>8, <1>9, <1>10, <1>11 DEF DateNext

\* The inductive invariant of a call of a date rule: what sf_parse_date found out
\* about the two values so far, and which moments it kept for them.
THEOREM DateInvariant == DateSpec => []DateInv
<1>1. DateInit => DateInv
  BY DateInitInv
<1>2. DateInv /\ [DateNext]_dateVars => DateInv'
  BY DatesTypedStep, FoundStep, DateVerdictStep DEF DateInv
<1> QED
  BY <1>1, <1>2, PTL DEF DateSpec

\* For all formats, values and clocks: a call that ends without a pending exception
\* accepts only dates, date_format only those of its format, and a comparison has
\* the order of the two dates right wherever the clock and an uninitialised
\* timestamp have no part in it.
THEOREM DatesRight == DateSpec => []DateVerdict
<1>1. DateInv => DateVerdict
  BY DEF DateInv
<1> QED
  BY <1>1, DateInvariant, PTL

-----------------------------------------------------------------------------
(* Numbers and sizes. *)

\* The verdicts kept are those of rules of the family, as they would be given.
ValueInv ==
    /\ input \in Inputs /\ build \in Casts
    /\ DOMAIN verdicts \subseteq Families[input.family]
    /\ \A r \in DOMAIN verdicts : verdicts[r] = Accepts(r)

LEMMA InputFacts ==
    ASSUME input \in Inputs
    PROVE  /\ input.family \in DOMAIN Families
           /\ input.low * Unit \in DOMAIN AsDouble
           /\ input.low \in Int /\ input.high \in Int
           /\ input.nullable \in BOOLEAN /\ input.longPath \in BOOLEAN /\ Len(input.part) \in Nat
           /\ subject.number \in DOMAIN AsDouble \cup {NaN, NoNumber}
           /\ subject.type = "long" => \E n \in LongMin .. LongMax : subject.number = n * Unit
           /\ subject.type = "double" => subject.number # NoNumber
           /\ subject.size \in Nat /\ Len(subject.text) \in Nat
           /\ subject.whole /\ subject.number = NoNumber => ZeroByte(subject.text)
  BY ValueAssumption DEF ValueAssumption, subject

LEMMA DoubleFacts ==
    /\ NaN \notin Int /\ NoNumber \notin Int /\ LongMin \in Int /\ LongMax \in Int
    /\ Unit \in Nat \ {0}
    /\ \A x \in DOMAIN AsDouble : x \in Int /\ AsDouble[x] \in Int
    /\ \A x, y \in DOMAIN AsDouble : x <= y => AsDouble[x] <= AsDouble[y]
  BY ValueAssumption DEF ValueAssumption

LEMMA AcceptsKept ==
    ASSUME UNCHANGED <<input, build>>, NEW r
    PROVE  Accepts(r)' = Accepts(r)
  BY DEF Accepts, NumberAccepts, SizeAccepts, ListAccepts, FieldAccepts, PatternAccepts,
     PartAccepts, TypeAccepts, Shielded, IsEmpty, subject, Size, Cast, HasNumber, Number, Limit

LEMMA ValueInvStep == ValueInv /\ [ValueNext]_valueVars => ValueInv'
<1> SUFFICES ASSUME ValueInv, [ValueNext]_valueVars PROVE ValueInv'
  OBVIOUS
<1>1. UNCHANGED <<input, build>>
  BY DEF ValueNext, RunRule, valueVars
<1>2. \A r : Accepts(r)' = Accepts(r)
  BY <1>1, AcceptsKept
<1>3. CASE UNCHANGED valueVars
  BY <1>1, <1>2, <1>3 DEF ValueInv, valueVars
<1>4. ASSUME NEW rule \in Families[input.family], RunRule(rule) PROVE ValueInv'
  <2>1. /\ DOMAIN verdicts' = DOMAIN verdicts \cup {rule}
        /\ \A r \in DOMAIN verdicts' :
              verdicts'[r] = IF r = rule THEN Accepts(rule) ELSE verdicts[r]
    BY <1>4 DEF RunRule
  <2> QED
    BY <1>1, <1>2, <1>4, <2>1 DEF ValueInv
<1> QED
  BY <1>3, <1>4 DEF ValueNext

LEMMA ValueInitInv == ValueInit => ValueInv
  BY DEF ValueInit, ValueInv

\* The inductive invariant of a value under the rules of its family: what was
\* answered is what the rule says of the value.
THEOREM ValueInvariant == ValueSpec => []ValueInv
  BY ValueInitInv, ValueInvStep, PTL DEF ValueSpec

LEMMA NumberFamily ==
    ASSUME input \in Inputs
    PROVE \A r \in {"gt", "gte", "lt", "lte", "min", "max", "between"} :
             r \in Families[input.family] => input.family = "number"
  BY InputFacts DEF Families

-----------------------------------------------------------------------------
LEMMA Quotient ==
    ASSUME NEW a \in Int, NEW u \in Nat \ {0}
    PROVE  /\ a \div u \in Int
           /\ (a \div u) * u <= a /\ a < (a \div u) * u + u
  OBVIOUS

\* Multiples of a unit are ordered as their factors.
LEMMA Multiples ==
    ASSUME NEW a \in Int, NEW b \in Int, NEW u \in Nat \ {0}
    PROVE  /\ a * u \in Int /\ b * u \in Int
           /\ a <= b <=> a * u <= b * u
           /\ a < b <=> a * u < b * u
           /\ (a + 1) * u = a * u + u
<1>1. a * u \in Int /\ b * u \in Int /\ (a + 1) * u = a * u + u
  OBVIOUS
<1>2. \A k \in Nat : k * u >= 0
  OBVIOUS
<1>3. \A c, d \in Int : c < d => c * u < d * u
  <2> TAKE c, d \in Int
  <2> HAVE c < d
  <2> DEFINE k == d - c - 1
  <2>1. k \in Nat /\ d = c + 1 + k
    OBVIOUS
  <2> HIDE DEF k
  <2>2. d * u = c * u + u + k * u
    BY <2>1
  <2>3. k * u \in Int /\ k * u >= 0 /\ c * u \in Int
    BY <1>2, <2>1
  <2> QED
    BY <2>2, <2>3
<1> QED
  BY <1>1, <1>3

\* The number in front of the point.
LEMMA TruncatedFacts ==
    ASSUME NEW x \in Int
    PROVE  /\ Truncated(x) \in Int
           /\ x >= 0 => Truncated(x) * Unit <= x /\ x < Truncated(x) * Unit + Unit
           /\ x < 0 => x <= Truncated(x) * Unit /\ Truncated(x) * Unit - Unit < x
<1>1. Unit \in Nat \ {0}
  BY DoubleFacts
<1>2. CASE x >= 0
  BY <1>1, <1>2, Quotient DEF Truncated
<1>3. CASE x < 0
  <2> DEFINE q == (-x) \div Unit
  <2>1. q \in Int /\ q * Unit <= -x /\ -x < q * Unit + Unit /\ Truncated(x) = -q
    BY <1>1, <1>3, Quotient DEF Truncated
  <2> HIDE DEF q
  <2>2. (-q) * Unit = -(q * Unit) /\ q * Unit \in Int
    BY <1>1, <2>1
  <2> QED
    BY <1>1, <1>3, <2>1, <2>2
<1> QED
  BY <1>2, <1>3

\* What the size of a number in range says of it.
LEMMA SizeOfNumber ==
    ASSUME input \in Inputs, build \in Casts,
           HasNumber, subject.number # NaN, subject.type # "string",
           LongMin * Unit <= subject.number, subject.number <= LongMax * Unit,
           NEW n \in Int
    PROVE  /\ Size <= n /\ n * Unit < subject.number =>
                 subject.type = "double" /\ subject.number < n * Unit + Unit
           /\ Size >= n /\ subject.number < n * Unit =>
                 subject.type = "double" /\ n * Unit - Unit < subject.number
<1> DEFINE x == subject.number
<1>1. x \in Int /\ Unit \in Nat \ {0} /\ LongMin \in Int /\ LongMax \in Int /\ NaN \notin Int
  BY InputFacts, DoubleFacts DEF HasNumber
<1>2. n * Unit \in Int /\ LongMin * Unit \in Int /\ LongMax * Unit \in Int
  BY <1>1
<1>3. CASE subject.type = "long"
  <2>1. PICK k \in LongMin .. LongMax : x = k * Unit
    BY <1>3, InputFacts
  <2>2. k \in Int
    BY <1>1, <2>1
  <2>3. x \div Unit \in Int /\ (x \div Unit) * Unit <= x /\ x < (x \div Unit) * Unit + Unit
    BY <1>1, Quotient
  <2> DEFINE q == x \div Unit
  <2>4. Size = q
    BY <1>3 DEF Size
  <2> HIDE DEF q, x
  <2>5. q * Unit <= k * Unit /\ k * Unit < (q + 1) * Unit
    BY <1>1, <2>1, <2>3, Multiples DEF q
  <2>6. q \in Int /\ q <= k /\ k < q + 1
    BY <1>1, <2>2, <2>3, <2>5, Multiples DEF q
  <2>7. Size = k
    BY <2>4, <2>6, <2>2
  <2>8. k <= n <=> k * Unit <= n * Unit
    BY <1>1, <2>2, Multiples
  <2>9. n <= k <=> n * Unit <= k * Unit
    BY <1>1, <2>2, Multiples
  <2>10. k * Unit \in Int
    BY <1>1, <2>2
  <2> QED
    BY <1>1, <1>2, <2>1, <2>7, <2>8, <2>9, <2>10 DEF x
<1>4. CASE subject.type = "double"
  <2> DEFINE t == Truncated(x)
  <2> HIDE DEF x
  <2>1. t \in Int /\ (x >= 0 => t * Unit <= x /\ x < t * Unit + Unit)
        /\ (x < 0 => x <= t * Unit /\ t * Unit - Unit < x)
    BY <1>1, TruncatedFacts
  <2>2. Size = Cast(x)
    BY <1>4 DEF Size, x
  <2> HIDE DEF t
  <2>3. /\ t * Unit \in Int /\ (t + 1) * Unit = t * Unit + Unit
        /\ (t - 1) * Unit = t * Unit - Unit
    BY <1>1, <2>1
  <2>4. t <= LongMax
    <3>1. t <= LongMax <=> t * Unit <= LongMax * Unit
      BY <1>1, <2>1, Multiples
    <3>2. t - 1 < LongMax <=> (t - 1) * Unit < LongMax * Unit
      BY <1>1, <2>1, Multiples
    <3>3. CASE x >= 0
      BY <1>1, <1>2, <2>1, <2>3, <3>1, <3>3 DEF x
    <3>4. CASE x < 0
      BY <1>1, <1>2, <2>1, <2>3, <3>2, <3>4 DEF x
    <3> QED
      BY <1>1, <3>3, <3>4
  <2>5. LongMin <= t
    <3>1. LongMin <= t <=> LongMin * Unit <= t * Unit
      BY <1>1, <2>1, Multiples
    <3>2. LongMin < t + 1 <=> LongMin * Unit < (t + 1) * Unit
      BY <1>1, <2>1, Multiples
    <3>3. CASE x >= 0
      BY <1>1, <1>2, <2>1, <2>3, <3>2, <3>3 DEF x
    <3>4. CASE x < 0
      BY <1>1, <1>2, <2>1, <2>3, <3>1, <3>4 DEF x
    <3> QED
      BY <1>1, <3>3, <3>4
  <2>6. Size = t
    BY <1>1, <2>1, <2>2, <2>4, <2>5 DEF Cast, t
  <2>7. t <= n <=> t * Unit <= n * Unit
    BY <1>1, <2>1, Multiples
  <2>8. n <= t <=> n * Unit <= t * Unit
    BY <1>1, <2>1, Multiples
  <2> QED
    BY <1>1, <1>2, <1>4, <2>1, <2>3, <2>6, <2>7, <2>8 DEF x
<1>5. subject.type \in {"long", "double"}
  BY DEF HasNumber
<1> QED
  BY <1>3, <1>4, <1>5

-----------------------------------------------------------------------------
LEMMA NumbersFollow == ValueInv => NumbersMeant
<1> SUFFICES ASSUME ValueInv, input.family = "number", HasNumber, subject.number # NaN, ~Shielded
             PROVE  NumbersMeant
  BY DEF NumbersMeant
<1> DEFINE x == subject.number
           limit == input.low * Unit
           Accepted(rule) == Ran({rule}) /\ verdicts[rule]
           Refused(rule) == Ran({rule}) /\ ~verdicts[rule]
           FitsLong == LongMin * Unit <= x /\ x <= LongMax * Unit
<1>1. input \in Inputs /\ build \in Casts
  BY DEF ValueInv
<1>2. /\ x \in DOMAIN AsDouble /\ limit \in DOMAIN AsDouble /\ x \in Int /\ limit \in Int
      /\ AsDouble[x] \in Int /\ AsDouble[limit] \in Int
      /\ x <= limit => AsDouble[x] <= AsDouble[limit]
      /\ limit <= x => AsDouble[limit] <= AsDouble[x]
  BY <1>1, InputFacts, DoubleFacts DEF HasNumber
<1>3. Number = AsDouble[x] /\ Limit = AsDouble[limit] /\ AsDouble[x] # NaN
  BY <1>2, DoubleFacts DEF Number, Limit
<1>4. /\ Accepts("gt") <=> AsDouble[x] > AsDouble[limit]
      /\ Accepts("lt") <=> AsDouble[x] < AsDouble[limit]
      /\ Accepts("min") <=> Size >= input.low
      /\ Accepts("max") <=> Size <= input.high
  <2>1. /\ Accepts("gt") <=> ~AtMost(Number, Limit)
        /\ Accepts("lt") <=> ~AtLeast(Number, Limit)
        /\ Accepts("min") <=> Size >= input.low
        /\ Accepts("max") <=> Size <= input.high
    BY DEF Accepts, NumberAccepts, SizeAccepts, Families
  <2> QED
    BY <1>2, <1>3, <2>1 DEF AtMost, AtLeast
<1>5. /\ \A r \in {"gt", "lt", "min", "max"} : Accepted(r) => Accepts(r)
      /\ \A r \in {"gt", "lt", "min", "max"} : Refused(r) => ~Accepts(r)
  BY DEF ValueInv, Ran
<1>6. input.low \in Int /\ input.high \in Int
  BY <1>1, InputFacts
<1>7. /\ Accepted("gt") => x > limit
      /\ Accepted("lt") => x < limit
      /\ Refused("gt") /\ x > limit => AsDouble[x] = AsDouble[limit]
      /\ Refused("lt") /\ x < limit => AsDouble[x] = AsDouble[limit]
  <2> HIDE DEF x, limit, Accepted, Refused
  <2> QED
    BY <1>2, <1>4, <1>5
<1>8. ASSUME subject.type # "string", FitsLong
      PROVE  /\ Accepted("gt") /\ Accepted("max") /\ input.low = input.high =>
                      subject.type = "double" /\ limit < x /\ x < limit + Unit
             /\ Accepted("lt") /\ Accepted("min") =>
                      subject.type = "double" /\ limit - Unit < x /\ x < limit
  <2>1. /\ Size <= input.low /\ limit < x =>
              subject.type = "double" /\ x < limit + Unit
        /\ Size >= input.low /\ x < limit =>
              subject.type = "double" /\ limit - Unit < x
    BY <1>1, <1>6, <1>8, SizeOfNumber
  <2> HIDE DEF x, limit, Accepted, Refused
  <2> QED
    BY <1>2, <1>4, <1>5, <1>7, <2>1
<1> HIDE DEF Accepted, Refused
<1>9. subject.type # "string" /\ FitsLong =>
                /\ Accepted("gt") /\ Accepted("max") /\ input.low = input.high =>
                      subject.type = "double" /\ limit < x /\ x < limit + Unit
                /\ Accepted("lt") /\ Accepted("min") =>
                      subject.type = "double" /\ limit - Unit < x /\ x < limit
  BY <1>8
<1> QED
  BY <1>7, <1>9 DEF NumbersMeant, Accepted, Refused

LEMMA OppositeDiffer ==
    ASSUME ValueInv, NEW p \in Opposite, Ran({p[1], p[2]}), verdicts[p[1]] = verdicts[p[2]],
           ~Shielded
    PROVE  \/ input.family = "number" /\ verdicts[p[1]] /\ subject.number = NaN
           \/ input.family = "number" /\ ~verdicts[p[1]] /\ ~HasNumber
<1>1. /\ p[1] \in Families[input.family]
      /\ verdicts[p[1]] = Accepts(p[1]) /\ verdicts[p[2]] = Accepts(p[2])
      /\ input \in Inputs
  BY DEF ValueInv, Ran
<1>2. CASE p \in {<<"gt", "lte">>, <<"gte", "lt">>}
  <2>1. input.family = "number"
    BY <1>1, <1>2, NumberFamily
  <2>2. CASE ~HasNumber
    <3>1. ~Accepts(p[1])
      BY <1>2, <2>2 DEF Accepts, NumberAccepts, Families
    <3> QED
      BY <1>1, <2>1, <2>2, <3>1
  <2>3. CASE HasNumber /\ subject.number = NaN
    <3>1. Accepts(p[1])
      BY <1>2, <2>3 DEF Accepts, NumberAccepts, Number, AtMost, Below
    <3> QED
      BY <1>1, <2>1, <2>3, <3>1
  <2>4. CASE HasNumber /\ subject.number # NaN
    <3>1. Number \in Int /\ Limit \in Int /\ Number # NaN
      BY <1>1, <2>4, InputFacts, DoubleFacts DEF Number, Limit, HasNumber
    <3>2. CASE p = <<"gt", "lte">>
      <4>1. Accepts("gt") <=> ~Accepts("lte")
        BY <2>4, <3>1 DEF Accepts, NumberAccepts, AtMost, Above, Families
      <4> QED
        BY <1>1, <3>2, <4>1
    <3>3. CASE p = <<"gte", "lt">>
      <4>1. Accepts("gte") <=> ~Accepts("lt")
        BY <2>4, <3>1 DEF Accepts, NumberAccepts, AtLeast, Below, Families
      <4> QED
        BY <1>1, <3>3, <4>1
    <3> QED
      BY <1>2, <3>2, <3>3
  <2> QED
    BY <2>2, <2>3, <2>4
<1>3. CASE p = <<"in", "not_in">>
  <2>1. Accepts("in") <=> ~Accepts("not_in")
    BY DEF Accepts, ListAccepts, Families
  <2> QED
    BY <1>1, <1>3, <2>1
<1>4. CASE p = <<"same", "different">>
  <2>1. Accepts("same") <=> ~Accepts("different")
    BY DEF Accepts, FieldAccepts, Families
  <2> QED
    BY <1>1, <1>4, <2>1
<1>5. CASE p = <<"regex", "not_regex">>
  <2>1. Accepts("regex") <=> ~Accepts("not_regex")
    BY DEF Accepts, PatternAccepts, Families
  <2> QED
    BY <1>1, <1>5, <2>1
<1> QED
  BY <1>2, <1>3, <1>4, <1>5 DEF Opposite

LEMMA StrongerImplies ==
    ASSUME ValueInv, NEW p \in Stronger, Accepts(p[1])
    PROVE  \/ Accepts(p[2])
           \/ p[1] = "integer" /\ subject.type = "string" /\ ZeroByte(subject.text)
           \/ p[2] = "confirmed" /\ input.longPath
<1>0. input \in Inputs
  BY DEF ValueInv
<1>1. CASE Shielded
  BY <1>1 DEF Accepts
<1>2. CASE ~Shielded /\ p \in {<<"gt", "gte">>, <<"lt", "lte">>}
  <2>1. HasNumber
    BY <1>2 DEF Accepts, NumberAccepts, Families
  <2>2. CASE subject.number = NaN
    BY <1>2, <2>1, <2>2 DEF Accepts, NumberAccepts, Number, Below, Above
  <2>3. CASE subject.number # NaN
    <3>1. Number \in Int /\ Limit \in Int /\ Number # NaN
      BY <1>0, <2>1, <2>3, InputFacts, DoubleFacts DEF Number, Limit, HasNumber
    <3> QED
      BY <1>2, <2>1, <3>1 DEF Accepts, NumberAccepts, AtMost, AtLeast, Below, Above, Families
  <2> QED
    BY <2>2, <2>3
<1>3. CASE ~Shielded /\ p \in {<<"between", "min">>, <<"between", "max">>}
  BY <1>3 DEF Accepts, SizeAccepts, Families
<1>4. CASE ~Shielded /\ p = <<"integer", "numeric">>
  <2>1. subject.type = "long" \/ (subject.type = "string" /\ subject.whole)
    BY <1>4 DEF Accepts, TypeAccepts, Families
  <2>2. CASE subject.type = "long"
    <3>1. subject.number # NoNumber
      BY <1>0, <2>2, InputFacts, DoubleFacts
    <3> QED
      BY <1>4, <2>2, <3>1 DEF Accepts, TypeAccepts, HasNumber, Families
  <2>3. CASE subject.type = "string" /\ subject.whole
    <3>1. subject.number = NoNumber => ZeroByte(subject.text)
      BY <1>0, <2>3, InputFacts
    <3> QED
      BY <1>4, <2>3, <3>1 DEF Accepts, TypeAccepts, HasNumber, Families
  <2> QED
    BY <2>1, <2>2, <2>3
<1>5. CASE ~Shielded /\ p \in {<<"starts_with", "contains">>, <<"ends_with", "contains">>}
  <2> DEFINE n == Len(input.part)
             room == Len(subject.text) - n
  <2>1. n \in Nat /\ Len(subject.text) \in Nat
    BY <1>0, InputFacts
  <2>2. PartAccepts(p[1])
    BY <1>5 DEF Accepts, Families
  <2>3. PartAccepts("contains")
    <3>1. CASE n = 0
      BY <2>2, <3>1 DEF PartAccepts
    <3>2. CASE n # 0
      <4>1. room >= 0
        <5> HIDE DEF room
        <5>1. n = Len(input.part) /\ room = Len(subject.text) - n
          BY DEF room
        <5> QED
          BY <2>2, <3>2, <5>1, Zenon DEF PartAccepts
      <4>2. 0 \in 0 .. room /\ room \in 0 .. room
        BY <2>1, <4>1
      <4> QED
        BY <1>5, <2>2, <3>2, <4>1, <4>2 DEF PartAccepts
    <3> QED
      BY <3>1, <3>2
  <2> QED
    BY <1>5, <2>3 DEF Accepts, Families
<1>6. CASE ~Shielded /\ p \in {<<"confirmed", "same">>, <<"same", "confirmed">>}
  BY <1>6 DEF Accepts, FieldAccepts, Families
<1> QED
  BY <1>1, <1>2, <1>3, <1>4, <1>5, <1>6 DEF Stronger

LEMMA VerdictsFollow == ValueInv => VerdictsCohere
<1> SUFFICES ASSUME ValueInv PROVE VerdictsCohere
  OBVIOUS
<1>1. \A p \in Opposite : Ran({p[1], p[2]}) /\ verdicts[p[1]] = verdicts[p[2]] =>
          \/ Shielded
          \/ input.family = "number" /\ verdicts[p[1]] /\ subject.number = NaN
          \/ input.family = "number" /\ ~verdicts[p[1]] /\ ~HasNumber
  BY OppositeDiffer
<1>2. \A p \in Stronger : Ran({p[1], p[2]}) /\ verdicts[p[1]] =>
          \/ verdicts[p[2]]
          \/ p[1] = "integer" /\ subject.type = "string" /\ ZeroByte(subject.text)
          \/ p[2] = "confirmed" /\ input.longPath
  <2> TAKE p \in Stronger
  <2> HAVE Ran({p[1], p[2]}) /\ verdicts[p[1]]
  <2>1. verdicts[p[1]] = Accepts(p[1]) /\ verdicts[p[2]] = Accepts(p[2])
    BY DEF ValueInv, Ran
  <2> QED
    BY <2>1, StrongerImplies
<1>3. Ran({"between", "min", "max"}) =>
          (verdicts["min"] /\ verdicts["max"] => verdicts["between"])
  <2>1. Accepts("min") /\ Accepts("max") => Accepts("between")
    BY DEF Accepts, SizeAccepts, Families
  <2> QED
    BY <2>1 DEF ValueInv, Ran
<1> QED
  BY <1>1, <1>2, <1>3 DEF VerdictsCohere

\* For every value, all limits and both casts of an out-of-range double: of two
\* opposite rules (gt and lte, in and not_in...) exactly one accepts and what a
\* stronger rule accepts the weaker does, but for the values VerdictsCohere names.
THEOREM ValuesCohere == ValueSpec => []VerdictsCohere
  BY ValueInvariant, VerdictsFollow, PTL

\* For every number and all limits: gt and lt accept only numbers beyond the limit and
\* refuse one of those only where a double cannot tell the two apart, and max and
\* gt, or min and lt, accept the same number only if it is a fraction cut off.
THEOREM ValuesMeant == ValueSpec => []NumbersMeant
  BY ValueInvariant, NumbersFollow, PTL

-----------------------------------------------------------------------------
(* Distinct lists. *)

\* A number is so many times another and a remainder.
LEMMA Remainder ==
    ASSUME NEW a \in Int, NEW u \in Nat \ {0}
    PROVE  /\ a \div u \in Int /\ a % u \in 0 .. u - 1
           /\ a = (a \div u) * u + (a % u)
  OBVIOUS

LEMMA PlaceFacts ==
    /\ PRECISION \in Nat \ {0} /\ PRECISION \div 10 \in Nat \ {0}
    /\ PRECISION = 10 * (PRECISION \div 10)
    /\ 1 \in Places /\ Places \subseteq Nat \ {0}
    /\ \A p \in Places : p = 1 \/ \E q \in Places : p = 10 * q
    /\ \A p, q \in Places : p < q => 10 * p <= q
<1>1. /\ PRECISION \in Nat \ {0} /\ PRECISION % 10 = 0
      /\ 1 \in Places /\ Places \subseteq Nat \ {0}
      /\ \A p \in Places : p = 1 \/ \E q \in Places : p = 10 * q
      /\ \A p, q \in Places : p < q => 10 * p <= q
  BY ItemAssumption DEF ItemAssumption
<1>2. PRECISION \div 10 \in Nat \ {0} /\ PRECISION = 10 * (PRECISION \div 10)
  BY <1>1
<1> QED
  BY <1>1, <1>2

LEMMA ItemFacts ==
    ASSUME NEW i \in Items
    PROVE  /\ i.type \in Scalars \cup {"array", "reference"}
           /\ i.type = "string" => i.value \in {"digits", "exponent", "word"} \X Int
           /\ i.type \in {"long", "double"} => i.value \in Int
           /\ i.type \in {"true", "false", "null"} => i.value = 0
           /\ i.type = "double" => \E p \in Places : Magnitude(i.value) < PRECISION * p
  BY ItemAssumption DEF ItemAssumption

\* A number that a double can be.
Reached(x) == x \in Int /\ \E p \in Places : Magnitude(x) < PRECISION * p

\* The last digit that is kept stands where the kept digits are as many as they
\* may be.
LEMMA PlaceKeeps ==
    ASSUME NEW x, Reached(x)
    PROVE  /\ Place(x) \in Places
           /\ Magnitude(x) < PRECISION * Place(x)
           /\ Place(x) # 1 => Magnitude(x) >= (PRECISION \div 10) * Place(x)
<1> DEFINE Suffices(p) == Magnitude(x) < PRECISION * p
           S == {p \in Places : Suffices(p)}
           P == Place(x)
           m == PRECISION \div 10
<1>1. S \subseteq Nat /\ S # {}
  BY PlaceFacts DEF Reached
<1>2. \E n \in S : \A k \in S : n <= k
  BY <1>1, LeastNatural
<1>3. P \in Places /\ Suffices(P) /\ \A q \in Places : Suffices(q) => P <= q
  <2>1. \E p \in Places : Suffices(p) /\ \A q \in Places : Suffices(q) => p <= q
    BY <1>2
  <2> QED
    BY <2>1 DEF Place
<1> HIDE DEF P, m
<1>4. ASSUME P # 1 PROVE Magnitude(x) >= m * P
  <2>1. PICK q \in Places : P = 10 * q
    BY <1>3, <1>4, PlaceFacts
  <2>2. q \in Nat \ {0} /\ P > q
    BY <2>1, PlaceFacts
  <2>3. ~(Magnitude(x) < PRECISION * q)
    BY <1>3, <2>1, <2>2
  <2>4. m \in Nat /\ PRECISION = 10 * m
    BY PlaceFacts DEF m
  <2>5. PRECISION * q = m * P
    BY <2>1, <2>2, <2>4
  <2>6. Magnitude(x) \in Int /\ m * P \in Int
    BY <2>1, <2>2, <2>4 DEF Reached, Magnitude
  <2> QED
    BY <2>3, <2>5, <2>6
<1> QED
  BY <1>3, <1>4 DEF P, m

\* What is kept: a multiple of the place, by half of it off at most.
Kept(x) ==
    LET p == Place(x)
        kept == Magnitude(x) \div p
        rest == 2 * (Magnitude(x) % p)
        up == rest > p \/ (rest = p /\ p > 1 /\ kept % 2 = 1)
    IN  IF up THEN kept + 1 ELSE kept

LEMMA KeptFacts ==
    ASSUME NEW x, Reached(x)
    PROVE  LET M == Magnitude(x)
               p == Place(x)
               size == Kept(x) * p
           IN  /\ Kept(x) \in Nat /\ p \in Nat \ {0} /\ size \in Nat
               /\ 2 * (size - M) <= p /\ 2 * (M - size) <= p
               /\ p = 1 => size = M
               /\ size <= PRECISION * p
               /\ p # 1 => size >= (PRECISION \div 10) * p
<1> DEFINE M == Magnitude(x)
           p == Place(x)
           kept == M \div p
           rest == M % p
           c == Kept(x)
           m == PRECISION \div 10
<1>1. /\ M \in Nat /\ p \in Nat \ {0} /\ M < PRECISION * p /\ (p # 1 => M >= m * p)
  <2>1. M \in Nat
    BY DEF Reached, Magnitude
  <2> HIDE DEF M
  <2> QED
    BY <2>1, PlaceKeeps, PlaceFacts DEF M
<1> HIDE DEF M, p
<1>2. kept \in Int /\ rest \in 0 .. p - 1 /\ M = kept * p + rest
  <2>1. M \in Int
    BY <1>1
  <2> QED
    BY <1>1, <2>1, Remainder, Zenon
<1>3. \/ c = kept /\ 2 * rest <= p
      \/ c = kept + 1 /\ 2 * rest >= p /\ p > 1
  <2>1. 2 * rest > p => p > 1
    BY <1>1, <1>2
  <2>2. c = IF 2 * rest > p \/ (2 * rest = p /\ p > 1 /\ kept % 2 = 1) THEN kept + 1 ELSE kept
    BY DEF Kept, M, p
  <2> HIDE DEF c, kept, rest
  <2> QED
    BY <1>1, <1>2, <2>1, <2>2
<1> HIDE DEF c, kept, rest, m
<1>4. kept * p \in Int /\ (kept + 1) * p = kept * p + p /\ c * p \in Int
  BY <1>1, <1>2, <1>3
<1>5. m \in Nat \ {0} /\ PRECISION \in Nat
  BY PlaceFacts DEF m
<1>6. kept < PRECISION /\ 0 <= kept
  <2>1. kept * p < PRECISION * p
    BY <1>1, <1>2, <1>4, <1>5
  <2>2. 0 * p < (kept + 1) * p
    BY <1>1, <1>2, <1>4
  <2>3. 0 < kept + 1
    BY <1>1, <1>2, <2>2, Multiples
  <2> QED
    BY <1>1, <1>2, <1>5, <2>1, <2>3, Multiples
<1>7. c \in Nat /\ c <= PRECISION
  BY <1>2, <1>3, <1>5, <1>6
<1>8. c * p <= PRECISION * p /\ 0 * p <= c * p
  BY <1>1, <1>5, <1>7, Multiples
<1>9. 2 * (c * p - M) <= p /\ 2 * (M - c * p) <= p
  BY <1>1, <1>2, <1>3, <1>4
<1>10. p = 1 => c * p = M
  BY <1>1, <1>2, <1>3
<1>11. ASSUME p # 1 PROVE c * p >= m * p
  <2>1. m * p < (kept + 1) * p
    BY <1>1, <1>2, <1>4, <1>5, <1>11
  <2>2. m < kept + 1
    BY <1>1, <1>2, <1>5, <2>1, Multiples
  <2>3. m <= c
    BY <1>2, <1>3, <1>5, <2>2
  <2>4. m * p <= c * p
    BY <1>1, <1>5, <1>7, <2>3, Multiples
  <2> QED
    BY <1>1, <1>4, <1>5, <2>4
<1>12. c * p \in Nat
  BY <1>1, <1>7
<1> QED
  BY <1>1, <1>7, <1>8, <1>9, <1>10, <1>11, <1>12 DEF M, p, c, m

LEMMA RoundedFacts ==
    ASSUME NEW x, Reached(x)
    PROVE  /\ Rounded(x) \in Int
           /\ x >= 0 => Rounded(x) = Kept(x) * Place(x)
           /\ x < 0 => Rounded(x) = -(Kept(x) * Place(x))
<1>1. Kept(x) * Place(x) \in Nat
  BY KeptFacts
<1>2. Rounded(x) = IF x < 0 THEN -(Kept(x) * Place(x)) ELSE Kept(x) * Place(x)
  BY DEF Rounded, Kept
<1> QED
  BY <1>1, <1>2 DEF Reached

\* Numbers with one text differ by no more than their places allow.
LEMMA CloseMagnitudes ==
    ASSUME NEW x, Reached(x), NEW y, Reached(y),
           Kept(x) * Place(x) = Kept(y) * Place(y), Place(x) <= Place(y)
    PROVE  LET M == Magnitude(x)
               N == Magnitude(y)
           IN  \/ M = N
               \/ M - N <= N \div (PRECISION \div 10) /\ N - M <= N \div (PRECISION \div 10)
<1> DEFINE M == Magnitude(x)
           N == Magnitude(y)
           p == Place(x)
           q == Place(y)
           m == PRECISION \div 10
           s == Kept(x) * p
           c == N \div m
<1>1. /\ p \in Places /\ q \in Places /\ N < PRECISION * q
      /\ p # 1 => M >= m * p
      /\ q # 1 => N >= m * q
  BY PlaceKeeps
<1>2. /\ p \in Nat \ {0} /\ s \in Nat
      /\ 2 * (s - M) <= p /\ 2 * (M - s) <= p
      /\ p = 1 => s = M
      /\ s <= PRECISION * p
  BY KeptFacts
<1>3. /\ q \in Nat \ {0}
      /\ 2 * (s - N) <= q /\ 2 * (N - s) <= q
      /\ q = 1 => s = N
      /\ q # 1 => s >= m * q
  BY KeptFacts
<1>4. m \in Nat \ {0} /\ PRECISION = 10 * m /\ \A a, b \in Places : a < b => 10 * a <= b
  BY PlaceFacts
<1>5. M \in Nat /\ N \in Nat
  BY DEF Reached, Magnitude
<1>6. p <= q
  OBVIOUS
<1> HIDE DEF M, N, p, q, s, m
<1>7. c \in Int /\ (c + 1) * m > N
  <2>1. c \in Int /\ N % m \in 0 .. m - 1 /\ N = c * m + (N % m)
    <3>1. N \in Int
      BY <1>5
    <3> QED
      BY <1>4, <3>1, Remainder, Zenon
  <2> HIDE DEF c
  <2>2. (c + 1) * m = c * m + m /\ c * m \in Int
    BY <1>4, <2>1
  <2> QED
    BY <1>4, <1>5, <2>1, <2>2
<1> HIDE DEF c
<1>8. ASSUME NEW k \in Int, N >= k * m PROVE k <= c
  <2>1. k * m < (c + 1) * m
    BY <1>4, <1>5, <1>7, <1>8
  <2> QED
    BY <1>4, <1>7, <2>1, Multiples
<1>9. CASE q = 1
  <2>1. M = N
    BY <1>2, <1>3, <1>6, <1>9
  <2> QED
    BY <2>1 DEF M, N
<1>10. CASE p = q /\ q # 1
  <2>1. q <= c
    BY <1>1, <1>3, <1>4, <1>8, <1>10
  <2> QED
    BY <1>2, <1>3, <1>5, <1>7, <1>10, <2>1 DEF M, N, m, c
<1>11. CASE p < q
  <2>1. 10 * p <= q /\ q # 1
    BY <1>1, <1>2, <1>4, <1>11
  <2>2. m * q <= s /\ s <= 10 * m * p
    BY <1>2, <1>3, <1>4, <2>1
  <2>3. q <= 10 * p
    <3>1. q * m <= (10 * p) * m
      BY <1>2, <1>3, <1>4, <2>2
    <3> QED
      BY <1>2, <1>3, <1>4, <3>1, Multiples
  <2>4. q = 10 * p /\ s = m * q
    BY <1>2, <1>3, <1>4, <2>1, <2>2, <2>3
  <2>5. q <= c
    BY <1>1, <1>3, <1>4, <1>8, <2>1
  <2> QED
    BY <1>2, <1>3, <1>5, <1>7, <2>4, <2>5 DEF M, N, m, c
<1> QED
  BY <1>2, <1>3, <1>6, <1>9, <1>10, <1>11

\* Items that are told apart by their texts are not the same, and those that are
\* not told apart are the same or look alike.
LEMMA DoublesAlike ==
    ASSUME NEW i \in Items, NEW j \in Items, i.type = "double", j.type = "double",
           Rounded(i.value) = Rounded(j.value), i.value # j.value
    PROVE  LookAlike(i, j)
<1> DEFINE x == i.value
           y == j.value
           m == PRECISION \div 10
           Close(a, b) == \/ Magnitude(a) = Magnitude(b)
                          \/ /\ Magnitude(a) - Magnitude(b) <= Magnitude(b) \div m
                             /\ Magnitude(b) - Magnitude(a) <= Magnitude(b) \div m
<1>1. Reached(x) /\ Reached(y)
  BY ItemFacts DEF Reached
<1>2. x \in Int /\ y \in Int
  BY <1>1 DEF Reached
<1>3. /\ Kept(x) * Place(x) \in Nat /\ Kept(y) * Place(y) \in Nat
      /\ Place(x) \in Nat \ {0} /\ Place(y) \in Nat \ {0}
      /\ Place(x) = 1 => Kept(x) * Place(x) = Magnitude(x)
      /\ Place(y) = 1 => Kept(y) * Place(y) = Magnitude(y)
      /\ Place(x) # 1 => Kept(x) * Place(x) >= m * Place(x)
      /\ Place(y) # 1 => Kept(y) * Place(y) >= m * Place(y)
  BY <1>1, KeptFacts
<1>4. /\ x >= 0 => Rounded(x) = Kept(x) * Place(x)
      /\ x < 0 => Rounded(x) = -(Kept(x) * Place(x))
      /\ y >= 0 => Rounded(y) = Kept(y) * Place(y)
      /\ y < 0 => Rounded(y) = -(Kept(y) * Place(y))
  BY <1>1, RoundedFacts
<1>5. m \in Nat \ {0}
  BY PlaceFacts
<1> HIDE DEF x, y, m
<1>6. Kept(x) * Place(x) = Kept(y) * Place(y)
  BY <1>2, <1>3, <1>4 DEF x, y
<1>7. (x >= 0 /\ y >= 0) \/ (x < 0 /\ y < 0)
  <2>1. ASSUME NEW a \in Int, a < 0, Kept(a) * Place(a) = 0, Place(a) \in Nat \ {0},
               Place(a) = 1 => Kept(a) * Place(a) = Magnitude(a),
               Place(a) # 1 => Kept(a) * Place(a) >= m * Place(a)
        PROVE  FALSE
    <3>1. m * Place(a) > 0
      BY <1>5, <2>1
    <3>2. Place(a) = 1
      BY <1>5, <2>1, <3>1
    <3> QED
      BY <2>1, <3>2 DEF Magnitude
  <2>2. CASE x >= 0 /\ y < 0
    <3>1. Kept(y) * Place(y) = 0
      BY <1>2, <1>3, <1>4, <2>2 DEF x, y
    <3> QED
      BY <1>2, <1>3, <2>1, <2>2, <3>1
  <2>3. CASE x < 0 /\ y >= 0
    <3>1. Kept(x) * Place(x) = 0
      BY <1>2, <1>3, <1>4, <2>3 DEF x, y
    <3> QED
      BY <1>2, <1>3, <2>1, <2>3, <3>1
  <2> QED
    BY <1>2, <2>2, <2>3
<1>8. Close(x, y) \/ Close(y, x)
  <2>1. Place(x) <= Place(y) \/ Place(y) <= Place(x)
    BY <1>3
  <2> QED
    BY <1>1, <1>6, <2>1, CloseMagnitudes DEF m
<1>9. PICK b \in {x, y} :
        Magnitude(x) # Magnitude(y) =>
            /\ Magnitude(x) - Magnitude(y) <= Magnitude(b) \div m
            /\ Magnitude(y) - Magnitude(x) <= Magnitude(b) \div m
  BY <1>8
<1> DEFINE c == Magnitude(b) \div m
<1>10. c \in Int
  <2>1. Magnitude(b) \in Int
    BY <1>2 DEF Magnitude
  <2> QED
    BY <1>5, <2>1, Remainder
<1> HIDE DEF c
<1>11. Magnitude(x) - Magnitude(y) <= c /\ Magnitude(y) - Magnitude(x) <= c
  <2>1. Magnitude(x) # Magnitude(y)
    BY <1>2, <1>7 DEF Magnitude, x, y
  <2> QED
    BY <1>9, <2>1 DEF c
<1>12. Magnitude(x - y) <= c
  BY <1>2, <1>7, <1>10, <1>11 DEF Magnitude
<1> QED
  BY <1>12 DEF LookAlike, c, x, y, m

LEMMA SecondOfPair == \A a, b, c, d : <<a, b>> = <<c, d>> => b = d
<1> TAKE a, b, c, d
<1> HAVE <<a, b>> = <<c, d>>
<1>1. <<a, b>>[2] = b /\ <<c, d>>[2] = d
  OBVIOUS
<1> QED
  BY <1>1

\* Items that share their text are the same or look alike; items that are the
\* same share it.
LEMMA TextsTell ==
    ASSUME NEW i \in Items, NEW j \in Items, Compared(i), Compared(j)
    PROVE  /\ Same(i, j) => TextOf(i) = TextOf(j)
           /\ TextOf(i) = TextOf(j) => Same(i, j) \/ LookAlike(i, j)
<1>1. Same(i, j) => TextOf(i) = TextOf(j)
  BY DEF Same, TextOf
<1>2. ASSUME TextOf(i) = TextOf(j), i.type = j.type
      PROVE  Same(i, j) \/ LookAlike(i, j)
  <2>1. CASE i.type = "string"
    BY <1>2, <2>1 DEF TextOf, Same
  <2>2. CASE i.type = "long"
    <3>1. TextOf(i) = <<"digits", i.value>> /\ TextOf(j) = <<"digits", j.value>>
      BY <1>2, <2>2 DEF TextOf
    <3>2. i.value = j.value
      BY <1>2, <3>1, SecondOfPair
    <3> QED
      BY <1>2, <3>2 DEF Same
  <2>3. CASE i.type = "double"
    <3>1. Rounded(i.value) = Rounded(j.value)
      <4> DEFINE Notation(x) == IF Magnitude(x) < PRECISION THEN "digits" ELSE "exponent"
      <4>1. /\ TextOf(i) = <<Notation(Rounded(i.value)), Rounded(i.value)>>
            /\ TextOf(j) = <<Notation(Rounded(j.value)), Rounded(j.value)>>
        BY <1>2, <2>3, Zenon DEF TextOf
      <4> HIDE DEF Notation
      <4> QED
        BY <1>2, <4>1, SecondOfPair
    <3>2. CASE i.value = j.value
      BY <1>2, <3>2 DEF Same
    <3>3. CASE i.value # j.value
      BY <1>2, <2>3, <3>1, <3>3, DoublesAlike
    <3> QED
      BY <3>2, <3>3
  <2>4. CASE i.type \in {"true", "false", "null"}
    BY <1>2, <2>4, ItemFacts DEF Same
  <2> QED
    BY <2>1, <2>2, <2>3, <2>4 DEF Compared, Scalars
<1>3. i.type # j.type => LookAlike(i, j)
  BY DEF LookAlike
<1> QED
  BY <1>1, <1>2, <1>3

-----------------------------------------------------------------------------
\* The items behind the loop: their texts are those it has seen, each met once.
Behind ==
    /\ seen = {TextOf(items[k]) : k \in {l \in 1 .. atItem - 1 : Compared(items[l])}}
    /\ \A k, l \in 1 .. atItem - 1 :
          k < l /\ Compared(items[k]) /\ Compared(items[l]) =>
              TextOf(items[k]) # TextOf(items[l])

DistinctInv ==
    /\ items \in Seq(Items) /\ isArray \in BOOLEAN /\ shielded \in BOOLEAN
    /\ atItem \in 1 .. Len(items) + 1
    /\ Behind
    /\ DistinctVerdict

LEMMA DistinctInitInv == DistinctInit => DistinctInv
<1> SUFFICES ASSUME DistinctInit PROVE DistinctInv
  OBVIOUS
<1>1. items \in Seq(Items)
  <2>1. PICK n \in 0 .. MaxItems : items \in [1 .. n -> Items]
    BY DEF DistinctInit
  <2>2. n \in Nat
    BY <2>1, ItemAssumption DEF ItemAssumption
  <2> QED
    BY <2>1, <2>2, SeqDef
<1>2. Len(items) \in Nat
  BY <1>1
<1>3. atItem = 1 /\ seen = {} /\ distinctAnswer = "none"
      /\ isArray \in BOOLEAN /\ shielded \in BOOLEAN
  BY DEF DistinctInit
<1>4. 1 .. 1 - 1 = {}
  OBVIOUS
<1>5. atItem \in 1 .. Len(items) + 1
  BY <1>2, <1>3
<1>6. Behind
  BY <1>3, <1>4 DEF Behind
<1>7. DistinctVerdict
  BY <1>3 DEF DistinctVerdict
<1> QED
  BY <1>1, <1>3, <1>5, <1>6, <1>7 DEF DistinctInv

LEMMA DistinctInvStep == DistinctInv /\ [DistinctNext]_distinctVars => DistinctInv'
<1> SUFFICES ASSUME DistinctInv, [DistinctNext]_distinctVars PROVE DistinctInv'
  OBVIOUS
<1>1. /\ items \in Seq(Items) /\ isArray \in BOOLEAN /\ shielded \in BOOLEAN
      /\ atItem \in 1 .. Len(items) + 1 /\ Behind /\ DistinctVerdict
      /\ Len(items) \in Nat /\ DOMAIN items = 1 .. Len(items)
  BY DEF DistinctInv
<1>2. \A k \in 1 .. Len(items) : items[k] \in Items
  BY <1>1
<1>3. ASSUME NEW answer, ReturnDistinct(answer), DistinctVerdict' PROVE DistinctInv'
  <2>1. UNCHANGED <<items, isArray, shielded, atItem, seen>>
    BY <1>3 DEF ReturnDistinct
  <2> QED
    BY <1>1, <1>3, <2>1 DEF DistinctInv, Behind
<1>4. CASE NotApplied
  <2>1. DistinctVerdict'
    BY <1>4 DEF NotApplied, ReturnDistinct, DistinctVerdict
  <2> QED
    BY <1>3, <1>4, <2>1 DEF NotApplied
<1>5. ASSUME NextItem, Running, atItem <= Len(items)
      PROVE  /\ DistinctVerdict' /\ items' = items
             /\ isArray' \in BOOLEAN /\ shielded' \in BOOLEAN
             /\ atItem' \in 1 .. Len(items) + 1 /\ atItem' - 1 = atItem
  <2>1. distinctAnswer' = "none"
    BY <1>5 DEF NextItem, Running
  <2> QED
    BY <1>1, <1>5, <2>1 DEF NextItem, DistinctVerdict
<1>6. 1 .. atItem = (1 .. atItem - 1) \cup {atItem}
  BY <1>1
<1>7. CASE SkipItem
  <2>1. Behind'
    <3>1. seen' = seen /\ items' = items /\ ~Compared(items[atItem])
      BY <1>7 DEF SkipItem, NextItem
    <3>2. atItem' - 1 = atItem
      BY <1>5, <1>7 DEF SkipItem
    <3>3. {l \in 1 .. atItem : Compared(items[l])} = {l \in 1 .. atItem - 1 : Compared(items[l])}
      BY <1>6, <3>1
    <3>4. seen = {TextOf(items[k]) : k \in {l \in 1 .. atItem : Compared(items[l])}}
      BY <1>1, <3>3 DEF Behind
    <3>5. \A k, l \in 1 .. atItem :
             k < l /\ Compared(items[k]) /\ Compared(items[l]) =>
                 TextOf(items[k]) # TextOf(items[l])
      BY <1>1, <1>6, <3>1 DEF Behind
    <3> QED
      BY <3>1, <3>2, <3>4, <3>5 DEF Behind
  <2> QED
    BY <1>1, <1>5, <1>7, <2>1 DEF DistinctInv, SkipItem
<1>8. CASE RecordItem
  <2>1. Behind'
    <3>1. /\ seen' = seen \cup {TextOf(items[atItem])} /\ items' = items
          /\ Compared(items[atItem]) /\ TextOf(items[atItem]) \notin seen
      BY <1>8 DEF RecordItem, NextItem
    <3>2. atItem' - 1 = atItem
      BY <1>5, <1>8 DEF RecordItem
    <3>3. {l \in 1 .. atItem : Compared(items[l])}
             = {l \in 1 .. atItem - 1 : Compared(items[l])} \cup {atItem}
      BY <1>6, <3>1
    <3>4. seen' = {TextOf(items[k]) : k \in {l \in 1 .. atItem : Compared(items[l])}}
      BY <1>1, <3>1, <3>3 DEF Behind
    <3>5. \A k, l \in 1 .. atItem :
             k < l /\ Compared(items[k]) /\ Compared(items[l]) =>
                 TextOf(items[k]) # TextOf(items[l])
      <4> TAKE k, l \in 1 .. atItem
      <4> HAVE k < l /\ Compared(items[k]) /\ Compared(items[l])
      <4>1. k \in 1 .. atItem - 1
        BY <1>1
      <4>2. CASE l = atItem
        BY <1>1, <3>1, <4>1, <4>2 DEF Behind
      <4>3. CASE l \in 1 .. atItem - 1
        BY <1>1, <4>1, <4>3 DEF Behind
      <4> QED
        BY <1>6, <4>2, <4>3
    <3> QED
      BY <3>1, <3>2, <3>4, <3>5 DEF Behind
  <2> QED
    BY <1>1, <1>5, <1>8, <2>1 DEF DistinctInv, RecordItem
<1>9. CASE FindDuplicate
  <2>1. DistinctVerdict'
    <3>1. /\ Compared(items[atItem]) /\ TextOf(items[atItem]) \in seen
          /\ atItem <= Len(items)
      BY <1>9 DEF FindDuplicate
    <3>2. PICK k \in 1 .. atItem - 1 :
            Compared(items[k]) /\ TextOf(items[atItem]) = TextOf(items[k])
      BY <1>1, <3>1 DEF Behind
    <3>3. k \in DOMAIN items /\ atItem \in DOMAIN items /\ k < atItem
      BY <1>1, <3>1
    <3>4. Same(items[k], items[atItem]) \/ LookAlike(items[k], items[atItem])
      BY <1>1, <1>2, <3>1, <3>2, <3>3, TextsTell
    <3>5. /\ items[k].type \in Scalars /\ items[atItem].type \in Scalars
      BY <3>1, <3>2 DEF Compared
    <3>6. distinctAnswer' = "refused" /\ items' = items
      BY <1>9 DEF FindDuplicate, ReturnDistinct
    <3> DEFINE compared == {n \in DOMAIN items : items[n].type \in Scalars}
               pairs == {p \in compared \X compared : p[1] < p[2]}
    <3>7. <<k, atItem>> \in pairs
      BY <3>3, <3>5
    <3>8. \E p \in pairs : \/ Same(items[p[1]], items[p[2]])
                           \/ LookAlike(items[p[1]], items[p[2]])
      BY <3>4, <3>7
    <3> QED
      BY <3>6, <3>8 DEF DistinctVerdict
  <2> QED
    BY <1>3, <1>9, <2>1 DEF FindDuplicate
<1>10. CASE EndItems
  <2>1. DistinctVerdict'
    <3>1. atItem - 1 = Len(items)
      BY <1>1, <1>10 DEF EndItems
    <3>2. distinctAnswer' = "accepted" /\ items' = items
      BY <1>10 DEF EndItems, ReturnDistinct
    <3> DEFINE compared == {n \in DOMAIN items : items[n].type \in Scalars}
               pairs == {p \in compared \X compared : p[1] < p[2]}
    <3>3. ASSUME NEW p \in pairs PROVE ~Same(items[p[1]], items[p[2]])
      <4>1. /\ p[1] \in 1 .. atItem - 1 /\ p[2] \in 1 .. atItem - 1 /\ p[1] < p[2]
            /\ items[p[1]].type \in Scalars /\ items[p[2]].type \in Scalars
        BY <1>1, <3>1
      <4>2. Compared(items[p[1]]) /\ Compared(items[p[2]])
        BY <4>1 DEF Compared
      <4>3. TextOf(items[p[1]]) # TextOf(items[p[2]])
        BY <1>1, <4>1, <4>2 DEF Behind
      <4>4. items[p[1]] \in Items /\ items[p[2]] \in Items
        BY <1>1, <1>2, <3>1, <4>1
      <4> QED
        BY <4>2, <4>3, <4>4, TextsTell
    <3> QED
      BY <3>2, <3>3 DEF DistinctVerdict
  <2> QED
    BY <1>3, <1>10, <2>1 DEF EndItems
<1>11. CASE UNCHANGED distinctVars
  BY <1>1, <1>11 DEF distinctVars, DistinctInv, Behind, DistinctVerdict
<1> QED
  BY <1>4, <1>7, <1>8, <1>9, <1>10, <1>11 DEF DistinctNext

\* The inductive invariant of a call of validate_distinct: the keys seen are the
\* texts of the elements passed, each of them once.
THEOREM DistinctInvariant == DistinctSpec => []DistinctInv
  BY DistinctInitInv, DistinctInvStep, PTL DEF DistinctSpec

\* For every list and every number of digits in a double's text: distinct accepts no
\* list in which a scalar occurs twice, and refuses one without only for two values
\* of different types or two doubles that agree in the digits their texts keep.
THEOREM DistinctRight == DistinctSpec => []DistinctVerdict
<1>1. DistinctInv => DistinctVerdict
  BY DEF DistinctInv
<1> QED
  BY <1>1, DistinctInvariant, PTL

-----------------------------------------------------------------------------
(* Texts. *)

Byte == 0 .. 255

-----------------------------------------------------------------------------
(* Characters: the tests of the code on the bytes of a piece, and the       *)
(* encoding of a scalar value, are the same condition.                      *)

LEMMA ByteParts ==
    ASSUME NEW a \in Byte
    PROVE  /\ a \in Int /\ 0 <= a /\ a <= 255
           /\ \E q, r \in Int : /\ a = 64 * q + r /\ 0 <= r /\ r < 64
                                /\ a \div 64 = q /\ a % 64 = r
           /\ \E q, r \in Int : /\ a = 32 * q + r /\ 0 <= r /\ r < 32
                                /\ a \div 32 = q /\ a % 32 = r
           /\ \E q, r \in Int : /\ a = 16 * q + r /\ 0 <= r /\ r < 16
                                /\ a \div 16 = q /\ a % 16 = r
           /\ \E q, r \in Int : /\ a = 8 * q + r /\ 0 <= r /\ r < 8
                                /\ a \div 8 = q /\ a % 8 = r
<1>1. a \in Int /\ 0 <= a /\ a <= 255
  BY SMT DEF Byte
<1>2. a \div 64 \in Int /\ a % 64 \in Int /\ a = 64 * (a \div 64) + (a % 64)
      /\ 0 <= a % 64 /\ a % 64 < 64
  BY <1>1, SMT
<1>3. a \div 32 \in Int /\ a % 32 \in Int /\ a = 32 * (a \div 32) + (a % 32)
      /\ 0 <= a % 32 /\ a % 32 < 32
  BY <1>1, SMT
<1>4. a \div 16 \in Int /\ a % 16 \in Int /\ a = 16 * (a \div 16) + (a % 16)
      /\ 0 <= a % 16 /\ a % 16 < 16
  BY <1>1, SMT
<1>5. a \div 8 \in Int /\ a % 8 \in Int /\ a = 8 * (a \div 8) + (a % 8)
      /\ 0 <= a % 8 /\ a % 8 < 8
  BY <1>1, SMT
<1> QED
  BY <1>1, <1>2, <1>3, <1>4, <1>5

\* A number in base 64.
LEMMA Sixes ==
    ASSUME NEW q \in Int, NEW r \in Int, 0 <= r, r < 64
    PROVE  (64 * q + r) \div 64 = q /\ (64 * q + r) % 64 = r
  BY SMT

LEMMA Twelves ==
    ASSUME NEW q \in Int, NEW r \in Int, 0 <= r, r < 4096
    PROVE  (4096 * q + r) \div 4096 = q /\ (4096 * q + r) % 4096 = r
  BY SMT

LEMMA Eighteens ==
    ASSUME NEW q \in Int, NEW r \in Int, 0 <= r, r < 262144
    PROVE  (262144 * q + r) \div 262144 = q
  BY SMT

LEMMA TwoBytes ==
    ASSUME NEW a \in Byte, NEW b \in Byte,
           NEW u, u = (a % 32) * 64 + (b % 64)
    PROVE  /\ u \in Int /\ 0 <= u /\ u < 2048
           /\ (u >= 128 /\ 192 + u \div 64 = a /\ 128 + ((u \div 1) % 64) = b)
                 <=> (a \div 32 = 6 /\ b \div 64 = 2 /\ (a % 32) \div 2 # 0)
           /\ ScalarValue(u)
<1>1. PICK q, r \in Int : /\ a = 32 * q + r /\ 0 <= r /\ r < 32
                          /\ a \div 32 = q /\ a % 32 = r
  BY ByteParts, SMT
<1>2. PICK m, n \in Int : /\ b = 64 * m + n /\ 0 <= n /\ n < 64
                          /\ b \div 64 = m /\ b % 64 = n
  BY ByteParts, SMT
<1>3. u = 64 * r + n
  BY <1>1, <1>2, SMT
<1>4. u \in Int /\ u \div 1 = u /\ u \div 64 = r /\ u % 64 = n
  BY <1>1, <1>2, <1>3, Sixes, SMT
<1>5. r \div 2 # 0 <=> r >= 2
  BY <1>1, SMT
<1>6. 0 <= u /\ u < 2048 /\ (u >= 128 <=> r >= 2)
  BY <1>1, <1>2, <1>3, SMT
<1>7. ScalarValue(u)
  BY <1>4, <1>6, SMT DEF ScalarValue
<1>8. (192 + r = a <=> q = 6) /\ (128 + n = b <=> m = 2)
  BY <1>1, <1>2, SMT
<1>9. (u >= 128 /\ 192 + u \div 64 = a /\ 128 + ((u \div 1) % 64) = b)
         <=> (r >= 2 /\ 192 + r = a /\ 128 + n = b)
  BY <1>4, <1>6, SMT
<1>10. (a \div 32 = 6 /\ b \div 64 = 2 /\ (a % 32) \div 2 # 0)
          <=> (q = 6 /\ m = 2 /\ r \div 2 # 0)
  BY <1>1, <1>2, SMT
<1> QED
  BY <1>4, <1>5, <1>6, <1>7, <1>8, <1>9, <1>10, SMT

LEMMA ThreeBytes ==
    ASSUME NEW a \in Byte, NEW b \in Byte, NEW c \in Byte,
           NEW u, u = (a % 16) * 4096 + (b % 64) * 64 + (c % 64)
    PROVE  /\ u \in Int /\ 0 <= u /\ u < 65536
           /\ /\ u >= 2048 /\ ScalarValue(u)
              /\ 224 + u \div 4096 = a /\ 128 + ((u \div 64) % 64) = b
              /\ 128 + ((u \div 1) % 64) = c
              <=> /\ a \div 16 = 14 /\ b \div 64 = 2 /\ c \div 64 = 2
                  /\ a = 224 => b % 64 >= 32
                  /\ a = 237 => b % 64 < 32
<1>1. PICK q, r \in Int : /\ a = 16 * q + r /\ 0 <= r /\ r < 16
                          /\ a \div 16 = q /\ a % 16 = r
  BY ByteParts, SMT
<1>2. PICK m, n \in Int : /\ b = 64 * m + n /\ 0 <= n /\ n < 64
                          /\ b \div 64 = m /\ b % 64 = n
  BY ByteParts, SMT
<1>3. PICK k, l \in Int : /\ c = 64 * k + l /\ 0 <= l /\ l < 64
                          /\ c \div 64 = k /\ c % 64 = l
  BY ByteParts, SMT
<1>4. u = 64 * (64 * r + n) + l /\ u = 4096 * r + (64 * n + l)
  BY <1>1, <1>2, <1>3, SMT
<1>5. u \in Int /\ u \div 1 = u /\ u \div 4096 = r /\ u \div 64 = 64 * r + n /\ u % 64 = l
  <2>1. 0 <= 64 * n + l /\ 64 * n + l < 4096 /\ 64 * n + l \in Int /\ 64 * r + n \in Int
    BY <1>1, <1>2, <1>3, SMT
  <2>2. u \div 4096 = r
    BY <1>1, <1>4, <2>1, Twelves, SMT
  <2>3. u \div 64 = 64 * r + n /\ u % 64 = l
    BY <1>3, <1>4, <2>1, Sixes, SMT
  <2> QED
    BY <1>4, <2>1, <2>2, <2>3, SMT
<1>6. (u \div 64) % 64 = n
  BY <1>1, <1>2, <1>5, Sixes, SMT
<1>7. /\ 0 <= u /\ u < 65536
      /\ u >= 2048 <=> (r = 0 => n >= 32)
      /\ ScalarValue(u) <=> (r = 13 => n < 32)
  BY <1>1, <1>2, <1>3, <1>4, SMT DEF ScalarValue
<1>8. /\ 224 + r = a <=> q = 14
      /\ 128 + n = b <=> m = 2
      /\ 128 + l = c <=> k = 2
      /\ q = 14 => (a = 224 <=> r = 0) /\ (a = 237 <=> r = 13)
  BY <1>1, <1>2, <1>3, SMT
<1> DEFINE Left == /\ u >= 2048 /\ ScalarValue(u)
                   /\ 224 + u \div 4096 = a /\ 128 + ((u \div 64) % 64) = b
                   /\ 128 + ((u \div 1) % 64) = c
           Right == /\ a \div 16 = 14 /\ b \div 64 = 2 /\ c \div 64 = 2
                    /\ a = 224 => b % 64 >= 32
                    /\ a = 237 => b % 64 < 32
<1>9. Left <=> /\ r = 0 => n >= 32
               /\ r = 13 => n < 32
               /\ 224 + r = a /\ 128 + n = b /\ 128 + l = c
  BY <1>5, <1>6, <1>7, SMT
<1>10. Right <=> /\ q = 14 /\ m = 2 /\ k = 2
                 /\ a = 224 => n >= 32
                 /\ a = 237 => n < 32
  BY <1>1, <1>2, <1>3, SMT
<1>11. Left <=> Right
  <2> HIDE DEF Left, Right
  <2> QED
    BY <1>8, <1>9, <1>10, SMT
<1> QED
  BY <1>5, <1>7, <1>11, SMT

LEMMA FourBytes ==
    ASSUME NEW a \in Byte, NEW b \in Byte, NEW c \in Byte, NEW d \in Byte,
           NEW u, u = (a % 8) * 262144 + (b % 64) * 4096 + (c % 64) * 64 + (d % 64)
    PROVE  /\ u \in Int /\ 0 <= u
           /\ /\ u >= 65536 /\ ScalarValue(u)
              /\ 240 + u \div 262144 = a /\ 128 + ((u \div 4096) % 64) = b
              /\ 128 + ((u \div 64) % 64) = c /\ 128 + ((u \div 1) % 64) = d
              <=> /\ a \div 8 = 30 /\ b \div 64 = 2 /\ c \div 64 = 2 /\ d \div 64 = 2
                  /\ a = 240 => b % 64 >= 16
                  /\ a = 244 => b <= 143
                  /\ a <= 244
<1>1. PICK q, r \in Int : /\ a = 8 * q + r /\ 0 <= r /\ r < 8
                          /\ a \div 8 = q /\ a % 8 = r
  BY ByteParts, SMT
<1>2. PICK m, n \in Int : /\ b = 64 * m + n /\ 0 <= n /\ n < 64
                          /\ b \div 64 = m /\ b % 64 = n
  BY ByteParts, SMT
<1>3. PICK k, l \in Int : /\ c = 64 * k + l /\ 0 <= l /\ l < 64
                          /\ c \div 64 = k /\ c % 64 = l
  BY ByteParts, SMT
<1>4. PICK v, w \in Int : /\ d = 64 * v + w /\ 0 <= w /\ w < 64
                          /\ d \div 64 = v /\ d % 64 = w
  BY ByteParts, SMT
<1>5. /\ u = 64 * (64 * (64 * r + n) + l) + w
      /\ u = 4096 * (64 * r + n) + (64 * l + w)
      /\ u = 262144 * r + (4096 * n + 64 * l + w)
  BY <1>1, <1>2, <1>3, <1>4, SMT
<1>6. /\ u \in Int /\ u \div 1 = u /\ u \div 262144 = r /\ u \div 4096 = 64 * r + n
      /\ u \div 64 = 64 * (64 * r + n) + l /\ u % 64 = w
  <2>1. /\ 0 <= 64 * l + w /\ 64 * l + w < 4096 /\ 64 * l + w \in Int
        /\ 64 * r + n \in Int /\ 64 * (64 * r + n) + l \in Int
        /\ 0 <= 4096 * n + 64 * l + w /\ 4096 * n + 64 * l + w < 262144
        /\ 4096 * n + 64 * l + w \in Int
    BY <1>1, <1>2, <1>3, <1>4, SMT
  <2>2. u \div 262144 = r
    BY <1>1, <1>5, <2>1, Eighteens, SMT
  <2>3. u \div 4096 = 64 * r + n
    BY <1>5, <2>1, Twelves, SMT
  <2>4. u \div 64 = 64 * (64 * r + n) + l /\ u % 64 = w
    BY <1>4, <1>5, <2>1, Sixes, SMT
  <2>5. u \in Int /\ u \div 1 = u
    BY <1>4, <1>5, <2>1, SMT
  <2> QED
    BY <2>2, <2>3, <2>4, <2>5, SMT
<1>7. (u \div 4096) % 64 = n /\ (u \div 64) % 64 = l
  <2>1. 64 * r + n \in Int
    BY <1>1, <1>2, SMT
  <2> QED
    BY <1>1, <1>2, <1>3, <1>6, <2>1, Sixes, SMT
<1>8. /\ 0 <= u
      /\ u >= 65536 /\ ScalarValue(u)
            <=> (r = 0 => n >= 16) /\ (r < 4 \/ (r = 4 /\ n < 16))
  BY <1>1, <1>2, <1>3, <1>4, <1>5, SMT DEF ScalarValue
<1>9. /\ 240 + r = a <=> q = 30
      /\ 128 + n = b <=> m = 2
      /\ 128 + l = c <=> k = 2
      /\ 128 + w = d <=> v = 2
      /\ q = 30 => (a = 240 <=> r = 0) /\ (a = 244 <=> r = 4) /\ (a <= 244 <=> r <= 4)
      /\ m = 2 => (b <= 143 <=> n < 16)
  BY <1>1, <1>2, <1>3, <1>4, SMT
<1> DEFINE Left == /\ u >= 65536 /\ ScalarValue(u)
                   /\ 240 + u \div 262144 = a /\ 128 + ((u \div 4096) % 64) = b
                   /\ 128 + ((u \div 64) % 64) = c /\ 128 + ((u \div 1) % 64) = d
           Right == /\ a \div 8 = 30 /\ b \div 64 = 2 /\ c \div 64 = 2 /\ d \div 64 = 2
                    /\ a = 240 => b % 64 >= 16
                    /\ a = 244 => b <= 143
                    /\ a <= 244
<1>10. Left <=> /\ r = 0 => n >= 16
                /\ r < 4 \/ (r = 4 /\ n < 16)
                /\ 240 + r = a /\ 128 + n = b /\ 128 + l = c /\ 128 + w = d
  BY <1>6, <1>7, <1>8, SMT
<1>11. Right <=> /\ q = 30 /\ m = 2 /\ k = 2 /\ v = 2
                 /\ a = 240 => n >= 16
                 /\ a = 244 => b <= 143
                 /\ a <= 244
  BY <1>1, <1>2, <1>3, <1>4, SMT
<1>12. Left <=> Right
  <2> HIDE DEF Left, Right
  <2>1. r < 4 \/ (r = 4 /\ n < 16) <=> r <= 4 /\ (r = 4 => n < 16)
    BY <1>1, SMT
  <2> QED
    BY <1>9, <1>10, <1>11, <2>1, SMT
<1> QED
  BY <1>6, <1>8, <1>12, SMT

LEMMA Elements ==
    ASSUME NEW S, NEW s \in Seq(S), NEW k \in 1 .. Len(s)
    PROVE  s[k] \in S
  BY SMT

LEMMA ByteRange ==
    ASSUME NEW a \in Byte
    PROVE  a \in Int /\ a \in Nat /\ 0 <= a /\ a <= 255
  BY SMT DEF Byte

LEMMA EncodedForms ==
    ASSUME NEW u \in Int
    PROVE  /\ u < 128 => Encoded(u) = <<u>>
           /\ u >= 128 /\ u < 2048 =>
                 Encoded(u) = <<192 + u \div 64, 128 + ((u \div 1) % 64)>>
           /\ u >= 2048 /\ u < 65536 =>
                 Encoded(u) = <<224 + u \div 4096, 128 + ((u \div 64) % 64),
                                128 + ((u \div 1) % 64)>>
           /\ u >= 65536 =>
                 Encoded(u) = <<240 + u \div 262144, 128 + ((u \div 4096) % 64),
                                128 + ((u \div 64) % 64), 128 + ((u \div 1) % 64)>>
  BY SMT DEF Encoded

\* What the encoding of a value is, byte by byte.
LEMMA EncodedAs ==
    ASSUME NEW u \in Int, NEW piece \in Seq(Byte)
    PROVE  /\ u < 128 => (Encoded(u) = piece <=> Len(piece) = 1 /\ u = piece[1])
           /\ u >= 128 /\ u < 2048 =>
                 (Encoded(u) = piece <=>
                     /\ Len(piece) = 2
                     /\ 192 + u \div 64 = piece[1] /\ 128 + ((u \div 1) % 64) = piece[2])
           /\ u >= 2048 /\ u < 65536 =>
                 (Encoded(u) = piece <=>
                     /\ Len(piece) = 3
                     /\ 224 + u \div 4096 = piece[1] /\ 128 + ((u \div 64) % 64) = piece[2]
                     /\ 128 + ((u \div 1) % 64) = piece[3])
           /\ u >= 65536 =>
                 (Encoded(u) = piece <=>
                     /\ Len(piece) = 4
                     /\ 240 + u \div 262144 = piece[1] /\ 128 + ((u \div 4096) % 64) = piece[2]
                     /\ 128 + ((u \div 64) % 64) = piece[3]
                     /\ 128 + ((u \div 1) % 64) = piece[4])
<1> DEFINE A == 192 + u \div 64
           B == 224 + u \div 4096
           C == 240 + u \div 262144
           D == 128 + ((u \div 1) % 64)
           E == 128 + ((u \div 64) % 64)
           F == 128 + ((u \div 4096) % 64)
<1>1. /\ u < 128 => Encoded(u) = <<u>>
      /\ u >= 128 /\ u < 2048 => Encoded(u) = <<A, D>>
      /\ u >= 2048 /\ u < 65536 => Encoded(u) = <<B, E, D>>
      /\ u >= 65536 => Encoded(u) = <<C, F, E, D>>
  BY EncodedForms, SMT
<1> HIDE DEF A, B, C, D, E, F
<1>2. <<u>> = piece <=> Len(piece) = 1 /\ u = piece[1]
  BY SMT
<1>3. <<A, D>> = piece <=> Len(piece) = 2 /\ A = piece[1] /\ D = piece[2]
  BY SMT
<1>4. <<B, E, D>> = piece <=> Len(piece) = 3 /\ B = piece[1] /\ E = piece[2] /\ D = piece[3]
  BY SMT
<1>5. <<C, F, E, D>> = piece
         <=> Len(piece) = 4 /\ C = piece[1] /\ F = piece[2] /\ E = piece[3] /\ D = piece[4]
  BY SMT
<1>6. /\ u < 128 => (Encoded(u) = piece <=> Len(piece) = 1 /\ u = piece[1])
      /\ u >= 128 /\ u < 2048 =>
            (Encoded(u) = piece <=> Len(piece) = 2 /\ A = piece[1] /\ D = piece[2])
      /\ u >= 2048 /\ u < 65536 =>
            (Encoded(u) = piece <=>
                Len(piece) = 3 /\ B = piece[1] /\ E = piece[2] /\ D = piece[3])
      /\ u >= 65536 =>
            (Encoded(u) = piece <=>
                Len(piece) = 4 /\ C = piece[1] /\ F = piece[2] /\ E = piece[3] /\ D = piece[4])
  BY <1>1, <1>2, <1>3, <1>4, <1>5, SMT
<1> QED
  BY <1>6 DEF A, B, C, D, E, F

LEMMA EncodedInThree ==
    ASSUME NEW u \in Int, u >= 2048, u < 65536, NEW piece \in Seq(Byte), Encoded(u) = piece
    PROVE  Len(piece) = 3
  BY EncodedAs, SMT

\* The tests of WellFormed, on the bytes of a piece.
PieceTests(piece) ==
    LET lead == piece[1]
        n == Len(piece)
    IN  /\ Width(lead) = n
        /\ \A k \in 2 .. n : Continues(piece[k])
        /\ n = 2 => (lead % 32) \div 2 # 0
        /\ lead = 224 => piece[2] % 64 >= 32
        /\ lead = 237 => piece[2] % 64 < 32
        /\ lead = 240 => piece[2] % 64 >= 16
        /\ lead = 244 => piece[2] <= 143
        /\ lead <= 244

LEMMA WidthFacts ==
    ASSUME NEW a \in Byte
    PROVE  /\ Width(a) \in 0 .. 4
           /\ Width(a) = 1 <=> a < 128
           /\ Width(a) = 2 <=> a \div 32 = 6
           /\ Width(a) = 3 <=> a \div 16 = 14
           /\ Width(a) = 4 <=> a \div 8 = 30
           /\ Width(a) # 0 => ~Continues(a)
           /\ Width(a) = 1 => a <= 244
           /\ Width(a) = 2 => a < 224
           /\ Width(a) = 3 => a >= 224 /\ a < 240
           /\ Width(a) = 4 => a >= 240
<1>1. a \in Int /\ 0 <= a /\ a <= 255
  BY SMT DEF Byte
<1>2. /\ a < 128 => a \div 32 < 4 /\ a \div 16 < 8 /\ a \div 8 < 16 /\ a \div 64 < 2
      /\ a \div 32 = 6 => a >= 192 /\ a < 224 /\ a \div 16 < 14 /\ a \div 8 < 28 /\ a \div 64 = 3
      /\ a \div 16 = 14 => a >= 224 /\ a < 240 /\ a \div 8 < 30 /\ a \div 64 = 3
      /\ a \div 8 = 30 => a >= 240 /\ a \div 64 = 3
  BY <1>1, SMT
<1> QED
  BY <1>1, <1>2, SMT DEF Width, Continues

LEMMA OneByte ==
    ASSUME NEW piece \in Seq(Byte), Len(piece) = 1
    PROVE  IsCharacter(piece) <=> PieceTests(piece)
<1> DEFINE a == piece[1]
<1>1. a \in Byte /\ a \in Int /\ 0 <= a /\ a <= 255
  <2>1. 1 \in 1 .. 1
    BY SMT
  <2>2. a \in Byte
    BY <2>1, Elements
  <2> HIDE DEF a
  <2> QED
    BY <2>2, ByteRange
<1>2. Decoded(piece) = a
  BY SMT DEF Decoded
<1>4. Encoded(a) = piece <=> a < 128
  <2>1. a < 128 => (Encoded(a) = piece <=> Len(piece) = 1 /\ a = piece[1])
    BY <1>1, EncodedAs, SMT
  <2>2. a >= 128 => Encoded(a) # piece
    BY <1>1, EncodedAs, SMT
  <2> QED
    BY <1>1, <2>1, <2>2, SMT
<1>5. a < 128 => ScalarValue(a)
  BY <1>1, SMT DEF ScalarValue
<1>6. IsCharacter(piece) <=> a < 128
  BY <1>2, <1>4, <1>5, SMT DEF IsCharacter
<1>7. PieceTests(piece) <=> a < 128
  <2>1. 2 .. 1 = {}
    BY SMT
  <2> QED
    BY <1>1, <2>1, WidthFacts, SMT DEF PieceTests
<1> QED
  BY <1>6, <1>7

LEMMA TwoBytesPiece ==
    ASSUME NEW piece \in Seq(Byte), Len(piece) = 2
    PROVE  IsCharacter(piece) <=> PieceTests(piece)
<1> DEFINE a == piece[1]
           b == piece[2]
           u == (a % 32) * 64 + (b % 64)
<1>1. a \in Byte /\ b \in Byte
  <2>1. 1 \in 1 .. 2 /\ 2 \in 1 .. 2
    BY SMT
  <2> QED
    BY <2>1, Elements
<1>2. Decoded(piece) = u
  BY SMT DEF Decoded
<1> HIDE DEF u
<1>4. /\ u \in Int /\ 0 <= u /\ u < 2048 /\ ScalarValue(u)
      /\ (u >= 128 /\ 192 + u \div 64 = a /\ 128 + ((u \div 1) % 64) = b)
            <=> (a \div 32 = 6 /\ b \div 64 = 2 /\ (a % 32) \div 2 # 0)
  BY <1>1, TwoBytes, SMT DEF u
<1>5. Encoded(u) = piece
         <=> (u >= 128 /\ 192 + u \div 64 = a /\ 128 + ((u \div 1) % 64) = b)
  BY <1>4, EncodedAs, SMT
<1>6. IsCharacter(piece) <=> Encoded(u) = piece
  BY <1>2, <1>4, SMT DEF IsCharacter
<1>7. PieceTests(piece) <=> (a \div 32 = 6 /\ b \div 64 = 2 /\ (a % 32) \div 2 # 0)
  <2>1. 2 .. 2 = {2}
    BY SMT
  <2>2. Width(a) = 2 => a <= 244 /\ a # 224 /\ a # 237 /\ a # 240 /\ a # 244
    <3>1. a \in Int
      BY <1>1, ByteRange
    <3> QED
      BY <1>1, <3>1, WidthFacts, SMT
  <2>3. Width(a) = 2 <=> a \div 32 = 6
    BY <1>1, WidthFacts, SMT
  <2> QED
    BY <2>1, <2>2, <2>3, SMT DEF PieceTests, Continues
<1> QED
  BY <1>4, <1>5, <1>6, <1>7

LEMMA ThreeBytesPiece ==
    ASSUME NEW piece \in Seq(Byte), Len(piece) = 3
    PROVE  IsCharacter(piece) <=> PieceTests(piece)
<1> DEFINE a == piece[1]
           b == piece[2]
           c == piece[3]
           u == (a % 16) * 4096 + (b % 64) * 64 + (c % 64)
           Value == /\ u >= 2048 /\ ScalarValue(u)
                    /\ 224 + u \div 4096 = a /\ 128 + ((u \div 64) % 64) = b
                    /\ 128 + ((u \div 1) % 64) = c
           Tests == /\ a \div 16 = 14 /\ b \div 64 = 2 /\ c \div 64 = 2
                    /\ a = 224 => b % 64 >= 32
                    /\ a = 237 => b % 64 < 32
<1>1. a \in Byte /\ b \in Byte /\ c \in Byte
  <2>1. 1 \in 1 .. 3 /\ 2 \in 1 .. 3 /\ 3 \in 1 .. 3
    BY SMT
  <2> QED
    BY <2>1, Elements
<1>2. Decoded(piece) = u
  BY SMT DEF Decoded
<1> HIDE DEF u
<1>4. /\ u \in Int /\ 0 <= u /\ u < 65536
      /\ Value <=> Tests
  BY <1>1, ThreeBytes, SMT DEF u
<1>5. ScalarValue(u) /\ Encoded(u) = piece <=> Value
  <2>1. u < 2048 => Encoded(u) # piece
    <3>1. u \in Int
      BY <1>4
    <3>2. u < 128 => Encoded(u) # piece
      BY <3>1, EncodedAs, SMT
    <3>3. u >= 128 /\ u < 2048 => Encoded(u) # piece
      BY <3>1, EncodedAs, SMT
    <3> QED
      BY <3>1, <3>2, <3>3, SMT
  <2>2. u >= 2048 =>
          (Encoded(u) = piece <=>
              /\ 224 + u \div 4096 = a /\ 128 + ((u \div 64) % 64) = b
              /\ 128 + ((u \div 1) % 64) = c)
    BY <1>4, EncodedAs, SMT
  <2> QED
    BY <1>4, <2>1, <2>2, SMT
<1>6. IsCharacter(piece) <=> ScalarValue(u) /\ Encoded(u) = piece
  BY <1>2, SMT DEF IsCharacter
<1>7. PieceTests(piece) <=> Tests
  <2>1. 2 .. 3 = {2, 3}
    BY SMT
  <2>2. Width(a) = 3 => a <= 244 /\ a # 240 /\ a # 244
    <3>1. a \in Int
      BY <1>1, ByteRange
    <3> QED
      BY <1>1, <3>1, WidthFacts, SMT
  <2>3. Width(a) = 3 <=> a \div 16 = 14
    BY <1>1, WidthFacts, SMT
  <2> QED
    BY <2>1, <2>2, <2>3, SMT DEF PieceTests, Continues
<1> HIDE DEF Value, Tests
<1> QED
  BY <1>4, <1>5, <1>6, <1>7, SMT

LEMMA FourBytesPiece ==
    ASSUME NEW piece \in Seq(Byte), Len(piece) = 4
    PROVE  IsCharacter(piece) <=> PieceTests(piece)
<1> DEFINE a == piece[1]
           b == piece[2]
           c == piece[3]
           d == piece[4]
           u == (a % 8) * 262144 + (b % 64) * 4096 + (c % 64) * 64 + (d % 64)
           Value == /\ u >= 65536 /\ ScalarValue(u)
                    /\ 240 + u \div 262144 = a /\ 128 + ((u \div 4096) % 64) = b
                    /\ 128 + ((u \div 64) % 64) = c /\ 128 + ((u \div 1) % 64) = d
           Tests == /\ a \div 8 = 30 /\ b \div 64 = 2 /\ c \div 64 = 2 /\ d \div 64 = 2
                    /\ a = 240 => b % 64 >= 16
                    /\ a = 244 => b <= 143
                    /\ a <= 244
<1>1. a \in Byte /\ b \in Byte /\ c \in Byte /\ d \in Byte
  <2>1. 1 \in 1 .. 4 /\ 2 \in 1 .. 4 /\ 3 \in 1 .. 4 /\ 4 \in 1 .. 4
    BY SMT
  <2> QED
    BY <2>1, Elements
<1>2. Decoded(piece) = u
  BY SMT DEF Decoded
<1> HIDE DEF u
<1>4. /\ u \in Int /\ 0 <= u
      /\ Value <=> Tests
  BY <1>1, FourBytes, SMT DEF u
<1>5. ScalarValue(u) /\ Encoded(u) = piece <=> Value
  <2>1. u < 65536 => Encoded(u) # piece
    <3>1. u \in Int
      BY <1>4
    <3>2. u < 128 => Encoded(u) # piece
      BY <3>1, EncodedAs, SMT
    <3>3. u >= 128 /\ u < 2048 => Encoded(u) # piece
      BY <3>1, EncodedAs, SMT
    <3>4. u >= 2048 /\ u < 65536 => Encoded(u) # piece
      <4> SUFFICES ASSUME u >= 2048, u < 65536, Encoded(u) = piece
                   PROVE  FALSE
        OBVIOUS
      <4>1. Len(piece) = 3
        BY ONLY <3>1, u >= 2048, u < 65536, Encoded(u) = piece, piece \in Seq(Byte),
           EncodedInThree
      <4> QED
        BY ONLY <4>1, Len(piece) = 4
    <3> QED
      BY <3>1, <3>2, <3>3, <3>4, SMT
  <2>2. u >= 65536 =>
          (Encoded(u) = piece <=>
              /\ 240 + u \div 262144 = a /\ 128 + ((u \div 4096) % 64) = b
              /\ 128 + ((u \div 64) % 64) = c /\ 128 + ((u \div 1) % 64) = d)
    BY <1>4, EncodedAs, SMT
  <2> QED
    BY <1>4, <2>1, <2>2, SMT
<1>6. IsCharacter(piece) <=> ScalarValue(u) /\ Encoded(u) = piece
  BY <1>2, SMT DEF IsCharacter
<1>7. PieceTests(piece) <=> Tests
  <2>1. 2 .. 4 = {2, 3, 4}
    BY SMT
  <2>2. Width(a) = 4 => a # 224 /\ a # 237
    <3>1. a \in Int
      BY <1>1, ByteRange
    <3> QED
      BY <1>1, <3>1, WidthFacts, SMT
  <2>3. Width(a) = 4 <=> a \div 8 = 30
    BY <1>1, WidthFacts, SMT
  <2> QED
    BY <2>1, <2>2, <2>3, SMT DEF PieceTests, Continues
<1> HIDE DEF Value, Tests
<1> QED
  BY <1>4, <1>5, <1>6, <1>7, SMT

\* A piece of text is a character if and only if it passes the tests of the code.
LEMMA CharacterTests ==
    ASSUME NEW piece \in Seq(Byte), Len(piece) >= 1
    PROVE  IsCharacter(piece) <=> PieceTests(piece)
<1>1. Len(piece) \in Nat /\ piece[1] \in Byte
  BY SMT
<1>2. Len(piece) \in 1 .. 4 => (IsCharacter(piece) <=> PieceTests(piece))
  BY <1>1, OneByte, TwoBytesPiece, ThreeBytesPiece, FourBytesPiece, SMT
<1>3. IsCharacter(piece) => Len(piece) \in 1 .. 4
  BY DEF IsCharacter
<1>4. PieceTests(piece) => Len(piece) \in 1 .. 4
  <2>1. PieceTests(piece) => Width(piece[1]) = Len(piece)
    BY DEF PieceTests
  <2>2. Width(piece[1]) \in 0 .. 4
    BY <1>1, WidthFacts
  <2>3. \A w : w \in 0 .. 4 /\ w = Len(piece) => w \in 1 .. 4
    BY SMT
  <2> QED
    BY <2>1, <2>2, <2>3
<1> QED
  BY <1>2, <1>3, <1>4

-----------------------------------------------------------------------------
(* Readings of a text as characters.                                       *)

\* Where the character that starts at p ends, if the characters start at S.
EndOf(S, p) ==
    LET next == {q \in S : q > p} \cup {Len(text) + 1}
    IN  CHOOSE q \in next : \A r \in next : q <= r

LEMMA EndIsNext ==
    ASSUME text \in Seq(Byte), NEW S \in SUBSET DOMAIN text, NEW p \in S
    PROVE  /\ p \in 1 .. Len(text) /\ Len(text) \in Nat
           /\ EndOf(S, p) \in S \cup {Len(text) + 1}
           /\ EndOf(S, p) \in p + 1 .. Len(text) + 1
           /\ \A r \in S : r > p => r >= EndOf(S, p)
           /\ CharacterAt(S, p) = SubSeq(text, p, EndOf(S, p) - 1)
<1> DEFINE next == {q \in S : q > p} \cup {Len(text) + 1}
<1>1. Len(text) \in Nat /\ DOMAIN text = 1 .. Len(text)
  BY SMT
<1>2. p \in 1 .. Len(text) /\ \A r \in S : r \in 1 .. Len(text)
  BY <1>1
<1>3. next \in SUBSET Nat /\ next # {} /\ \A r \in next : r \in p + 1 .. Len(text) + 1
  BY <1>1, <1>2, SMT
<1>4. \E q \in next : \A r \in next : q <= r
  BY <1>3, LeastNatural
<1>5. EndOf(S, p) \in next /\ \A r \in next : EndOf(S, p) <= r
  BY <1>4 DEF EndOf
<1>6. \A r \in S : r > p => r >= EndOf(S, p)
  BY <1>2, <1>3, <1>5, SMT
<1>7. CharacterAt(S, p) = SubSeq(text, p, EndOf(S, p) - 1)
  BY DEF CharacterAt, EndOf
<1> QED
  BY <1>1, <1>2, <1>3, <1>5, <1>6, <1>7

LEMMA PieceMeaning ==
    ASSUME text \in Seq(Byte), NEW p \in 1 .. Len(text), NEW e \in p + 1 .. Len(text) + 1
    PROVE  IsCharacter(SubSeq(text, p, e - 1)) <=> e = p + Width(text[p]) /\ WellFormed(p)
<1> DEFINE piece == SubSeq(text, p, e - 1)
           n == Width(text[p])
<1>1. Len(text) \in Nat /\ p \in Nat /\ e \in Nat /\ p < e /\ e <= Len(text) + 1 /\ p >= 1
  BY SMT
<1>2. /\ piece \in Seq(Byte) /\ Len(piece) = e - p
      /\ \A k \in 1 .. e - p : piece[k] = text[p + k - 1]
  <2>1. p \in 1 .. Len(text) + 1 /\ e - 1 \in p - 1 .. Len(text)
    BY <1>1, SMT
  <2>2. /\ piece \in Seq(Byte)
        /\ Len(piece) = IF p <= e - 1 THEN e - 1 - p + 1 ELSE 0
        /\ \A i \in 1 .. e - 1 - p + 1 : piece[i] = text[p + i - 1]
    BY <2>1, SubSeqProperties
  <2>3. e - 1 - p + 1 = e - p /\ p <= e - 1
    BY <1>1, SMT
  <2> QED
    BY <2>2, <2>3
<1>3. piece[1] = text[p] /\ (e - p >= 2 => piece[2] = text[p + 1])
  <2>1. 1 \in 1 .. e - p /\ p + 1 - 1 = p /\ p + 2 - 1 = p + 1 /\ (e - p >= 2 => 2 \in 1 .. e - p)
    BY <1>1, SMT
  <2> QED
    BY <1>2, <2>1, SMT
<1>4. IsCharacter(piece) <=> PieceTests(piece)
  <2>1. Len(piece) >= 1
    BY <1>1, <1>2, SMT
  <2> QED
    BY <1>2, <2>1, CharacterTests
<1>5. e = p + n <=> n = Len(piece)
  <2>1. n \in Nat
    BY SMT DEF Width
  <2> QED
    BY <1>1, <1>2, <2>1, SMT
<1>6. ASSUME n = e - p
      PROVE  (\A k \in 2 .. n : Continues(piece[k])) <=> (\A k \in 1 .. n - 1 : Continues(text[p + k]))
  <2>1. ASSUME \A k \in 2 .. n : Continues(piece[k]), NEW k \in 1 .. n - 1
        PROVE  Continues(text[p + k])
    <3>1. k + 1 \in 2 .. n /\ k + 1 \in 1 .. e - p /\ p + (k + 1) - 1 = p + k
      BY <1>1, <1>6, SMT
    <3> QED
      BY <1>2, <2>1, <3>1
  <2>2. ASSUME \A k \in 1 .. n - 1 : Continues(text[p + k]), NEW k \in 2 .. n
        PROVE  Continues(piece[k])
    <3>1. k - 1 \in 1 .. n - 1 /\ k \in 1 .. e - p /\ p + (k - 1) = p + k - 1
      BY <1>1, <1>6, SMT
    <3> QED
      BY <1>2, <2>2, <3>1
  <2> QED
    BY <2>1, <2>2
<1>7. ASSUME n = e - p
      PROVE  n # 0 /\ p + n - 1 <= Len(text)
  BY <1>1, <1>7, SMT
<1>8. text[p] \in Byte
  BY Elements
<1>9. text[p] \in {224, 237, 240, 244} => n >= 2
  <2> DEFINE b == text[p]
  <2> HIDE DEF b
  <2>1. Width(224) = 3 /\ Width(237) = 3 /\ Width(240) = 4 /\ Width(244) = 4
    BY SMT DEF Width
  <2> QED
    BY <2>1, SMT DEF b
<1>10. ASSUME n = e - p
       PROVE  PieceTests(piece) <=> WellFormed(p)
  <2>1. n = Len(piece)
    BY <1>2, <1>10
  <2>2. text[p] \in {224, 237, 240, 244} => piece[2] = text[p + 1]
    BY <1>3, <1>9, <1>10
  <2> DEFINE lead == text[p]
             x == piece[2]
             y == text[p + 1]
             A == \A k \in 2 .. n : Continues(piece[k])
             B == \A k \in 1 .. n - 1 : Continues(text[p + k])
             C == n = 2 => (lead % 32) \div 2 # 0
             T(z) == /\ lead = 224 => z % 64 >= 32
                     /\ lead = 237 => z % 64 < 32
                     /\ lead = 240 => z % 64 >= 16
                     /\ lead = 244 => z <= 143
             D == lead <= 244
  <2>3. PieceTests(piece) <=> A /\ C /\ T(x) /\ D
    <3>1. PieceTests(piece) <=>
             /\ Width(piece[1]) = Len(piece)
             /\ \A k \in 2 .. Len(piece) : Continues(piece[k])
             /\ Len(piece) = 2 => (piece[1] % 32) \div 2 # 0
             /\ piece[1] = 224 => x % 64 >= 32
             /\ piece[1] = 237 => x % 64 < 32
             /\ piece[1] = 240 => x % 64 >= 16
             /\ piece[1] = 244 => x <= 143
             /\ piece[1] <= 244
      BY DEF PieceTests
    <3>2. Width(lead) = n
      OBVIOUS
    <3>3. piece[1] = lead
      BY <1>3
    <3> HIDE DEF piece, n, lead, x
    <3> QED
      BY <3>1, <3>2, <3>3, <2>1, Zenon
  <2>4. WellFormed(p) <=> B /\ C /\ T(y) /\ D
    BY <1>7, <1>10, Zenon DEF WellFormed
  <2>5. A <=> B
    BY <1>6, <1>10
  <2>6. T(x) <=> T(y)
    BY <2>2, Zenon
  <2> HIDE DEF A, B, C, T, D, x, y
  <2> QED
    BY <2>3, <2>4, <2>5, <2>6
<1>11. PieceTests(piece) => n = Len(piece)
  BY <1>3 DEF PieceTests
<1> QED
  BY <1>2, <1>4, <1>5, <1>10, <1>11

\* In a reading every start passes the tests, and the next start, or the end of
\* the text, is as far away as the lead byte says.
LEMMA ReadingFacts ==
    ASSUME text \in Seq(Byte), NEW S \in Readings, NEW p \in S
    PROVE  /\ p \in 1 .. Len(text) /\ Len(text) \in Nat
           /\ WellFormed(p) /\ Width(text[p]) \in 1 .. 4
           /\ p + Width(text[p]) \in S \cup {Len(text) + 1}
           /\ \A r \in S : r > p => r >= p + Width(text[p])
<1>1. S \in SUBSET DOMAIN text /\ IsCharacter(CharacterAt(S, p))
  BY DEF Readings
<1>2. /\ p \in 1 .. Len(text) /\ Len(text) \in Nat
      /\ EndOf(S, p) \in S \cup {Len(text) + 1}
      /\ EndOf(S, p) \in p + 1 .. Len(text) + 1
      /\ \A r \in S : r > p => r >= EndOf(S, p)
      /\ CharacterAt(S, p) = SubSeq(text, p, EndOf(S, p) - 1)
  BY <1>1, EndIsNext
<1>3. EndOf(S, p) = p + Width(text[p]) /\ WellFormed(p)
  <2> DEFINE e == EndOf(S, p)
  <2>1. IsCharacter(SubSeq(text, p, e - 1))
    BY <1>1, <1>2
  <2>2. e \in p + 1 .. Len(text) + 1
    BY <1>2
  <2> HIDE DEF e
  <2>3. e = p + Width(text[p]) /\ WellFormed(p)
    BY <1>2, <2>1, <2>2, PieceMeaning
  <2> QED
    BY <2>3 DEF e
<1>4. Width(text[p]) \in 1 .. 4
  <2>1. Width(text[p]) \in 0 .. 4
    <3>1. text[p] \in Byte
      BY <1>2, Elements
    <3> QED
      BY <3>1, WidthFacts
  <2>2. Width(text[p]) # 0
    BY <1>3 DEF WellFormed
  <2> QED
    BY <2>1, <2>2, SMT
<1>5. /\ p + Width(text[p]) \in S \cup {Len(text) + 1}
      /\ \A r \in S : r > p => r >= p + Width(text[p])
  <2> DEFINE e == EndOf(S, p)
             f == p + Width(text[p])
  <2>1. e = f
    BY <1>3
  <2>2. e \in S \cup {Len(text) + 1} /\ \A r \in S : r > p => r >= e
    BY <1>2
  <2> HIDE DEF e, f
  <2>3. f \in S \cup {Len(text) + 1} /\ \A r \in S : r > p => r >= f
    BY <2>1, <2>2
  <2> QED
    BY <2>3 DEF f
<1> QED
  BY <1>2, <1>3, <1>4, <1>5

LEMMA ReadingMade ==
    ASSUME text \in Seq(Byte), NEW S \in SUBSET DOMAIN text,
           text # <<>> => 1 \in S,
           \A p \in S : /\ WellFormed(p)
                        /\ p + Width(text[p]) \in S \cup {Len(text) + 1}
                        /\ \A r \in S : r > p => r >= p + Width(text[p])
    PROVE  S \in Readings
<1>1. ASSUME NEW p \in S
      PROVE  IsCharacter(CharacterAt(S, p))
  <2> DEFINE e == EndOf(S, p)
             f == p + Width(text[p])
  <2>1. /\ p \in 1 .. Len(text) /\ Len(text) \in Nat
        /\ e \in S \cup {Len(text) + 1} /\ e \in p + 1 .. Len(text) + 1
        /\ \A r \in S : r > p => r >= e
        /\ CharacterAt(S, p) = SubSeq(text, p, e - 1)
    BY <1>1, EndIsNext
  <2>2. /\ WellFormed(p) /\ f \in S \cup {Len(text) + 1}
        /\ \A r \in S : r > p => r >= f
    BY <1>1
  <2>3. f \in Nat /\ f > p /\ f <= Len(text) + 1
    <3>1. text[p] \in Byte
      BY <2>1, Elements
    <3>2. Width(text[p]) # 0 /\ p + Width(text[p]) - 1 <= Len(text) /\ Width(text[p]) \in 0 .. 4
      BY <2>2, <3>1, WidthFacts DEF WellFormed
    <3> QED
      BY <2>1, <3>2, SMT
  <2> HIDE DEF e, f
  <2>4. e = f
    <3>1. e \in Nat /\ e > p /\ e <= Len(text) + 1
      BY <2>1, SMT
    <3>2. e \in S => e >= f
      BY <2>2, <3>1
    <3>3. f \in S => f >= e
      BY <2>1, <2>3
    <3> QED
      BY <2>1, <2>2, <2>3, <3>1, <3>2, <3>3, SMT
  <2> QED
    BY <2>1, <2>2, <2>4, PieceMeaning DEF f
<1> QED
  BY <1>1 DEF Readings

\* A start is a byte that does not continue another.
LEMMA LeadsAreStarts ==
    ASSUME text \in Seq(Byte), NEW S \in Readings, NEW q \in 1 .. Len(text)
    PROVE  q \in S <=> ~Continues(text[q])
<1>1. ASSUME q \in S
      PROVE  ~Continues(text[q])
  <2>1. text[q] \in Byte
    BY Elements
  <2>2. Width(text[q]) # 0
    <3>1. Width(text[q]) \in 1 .. 4
      BY <1>1, ReadingFacts
    <3> QED
      BY <3>1, SMT
  <2> QED
    BY <2>1, <2>2, WidthFacts
<1>2. ASSUME q \notin S
      PROVE  Continues(text[q])
  <2> DEFINE back == {k \in 1 .. q : q - k \in S}
  <2>1. /\ Len(text) \in Nat /\ text # <<>> /\ S \in SUBSET (1 .. Len(text)) /\ 1 \in S
    <3>1. Len(text) \in Nat /\ text # <<>> /\ DOMAIN text = 1 .. Len(text)
      BY SMT
    <3> QED
      BY <3>1 DEF Readings
  <2>2. q - 1 \in back
    <3>1. q # 1
      BY <1>2, <2>1
    <3>2. q - 1 \in 1 .. q /\ q - (q - 1) = 1
      BY <2>1, <3>1, SMT
    <3> QED
      BY <2>1, <3>2
  <2>3. PICK k \in back : \A r \in back : k <= r
    <3>1. back \in SUBSET Nat
      BY <2>1, SMT
    <3> QED
      BY <2>2, <3>1, LeastNatural
  <2> DEFINE p == q - k
             f == p + Width(text[p])
  <2>4. p \in S /\ k \in 1 .. q
    BY <2>3
  <2>5. /\ p \in 1 .. Len(text) /\ WellFormed(p) /\ Width(text[p]) \in 1 .. 4
        /\ f \in S \cup {Len(text) + 1}
    BY <2>4, ReadingFacts
  <2>6. p < q /\ p + k = q /\ p \in Nat /\ k \in Nat /\ k >= 1
    BY <2>1, <2>4, <2>5, SMT
  <2>7. f > q
    <3>1. f \in Nat /\ f > p
      BY <2>5, <2>6, SMT
    <3>2. CASE f = Len(text) + 1
      BY <2>1, <3>1, <3>2, SMT
    <3>3. CASE f \in S
      <4>1. f # q
        BY <1>2, <3>3
      <4>2. f < q => q - f \in back
        <5>1. f < q => q - f \in 1 .. q /\ q - (q - f) = f
          BY <3>1, <2>1, SMT
        <5> QED
          BY <3>3, <5>1
      <4>3. f < q => k <= q - f
        BY <2>3, <4>2
      <4> HIDE DEF f
      <4> QED
        BY <2>6, <3>1, <4>1, <4>3, SMT
    <3> QED
      BY <2>5, <3>2, <3>3
  <2>8. k \in 1 .. Width(text[p]) - 1
    BY <2>5, <2>6, <2>7, SMT
  <2>9. Continues(text[p + k])
    BY <2>5, <2>8 DEF WellFormed
  <2> QED
    BY <2>6, <2>9
<1> QED
  BY <1>1, <1>2

-----------------------------------------------------------------------------
(* The calls.                                                              *)

\* W are the starts of the characters before p.
ReadBefore(W, p) ==
    /\ W \subseteq 1 .. p - 1
    /\ p > 1 => 1 \in W
    /\ \A q \in W : /\ WellFormed(q)
                    /\ q + Width(text[q]) \in W \cup {p}
                    /\ \A r \in W : r > q => r >= q + Width(text[q])

TextType ==
    /\ textCall \in TextCalls
    /\ text \in Texts
    /\ at \in 1 .. Len(text) + 1
    /\ count \in Nat
    /\ step \in {"validating", "walking", "scanning", "counting", "done"}

\* The bytes passed are characters, and no reading could disagree.
Validated ==
    step = "validating" =>
        /\ textCall.name \in CharRules
        /\ \E W : ReadBefore(W, at)
        /\ \A S \in Readings : at \in S \cup {Len(text) + 1}

\* The text can be read, and every reading passes where the pointer stands.
Walked ==
    step = "walking" =>
        /\ textCall.name \in CharRules
        /\ Readings # {}
        /\ \A S \in Readings :
              /\ at \in S \cup {Len(text) + 1}
              /\ \A p \in S : p < at => WalksOver(text[p])

Scanned ==
    step = "scanning" =>
        /\ textCall.name \in CaseRules
        /\ \A q \in 1 .. at - 1 : text[q] \notin WrongCase[textCall.name]

Leads(t, n) == {q \in 1 .. n : ~Continues(t[q])}

Counted ==
    step = "counting" =>
        /\ textCall.name \in {"strlen", "offset"}
        /\ count = Cardinality(Leads(text, at - 1))
        /\ textCall.name = "offset" =>
              /\ count <= textCall.position
              /\ textCall.position = 0 => at = 1
              /\ count = textCall.position /\ count # 0 =>
                    at > 1 /\ ~Continues(text[at - 1])

\* The answers, exactly: beyond ASCII a rule looks for lead bytes, and at nothing else.
TextAnswers ==
    step = "done" =>
        /\ textCall.name \in CharRules =>
              (textAccepted <=>
                  Decodable /\ \A p \in Starts :
                      text[p] >= 128 \/ text[p] \in Allowed[textCall.name])
        /\ textCall.name \in CaseRules =>
              (textAccepted <=>
                  \A p \in DOMAIN text : text[p] \notin WrongCase[textCall.name])
        /\ textCall.name = "strlen" /\ Decodable => count = Cardinality(Starts)
        /\ textCall.name = "offset" /\ Decodable =>
              /\ textCall.position = 0 => at = 1
              /\ \A p \in Starts :
                    Cardinality({q \in Starts : q <= p}) = textCall.position => at = p + 1
              /\ textCall.position > Cardinality(Starts) => at = Len(text) + 1

TextInv == TextType /\ Validated /\ Walked /\ Scanned /\ Counted /\ TextAnswers

LEMMA TextIsBytes ==
    ASSUME NEW t \in Texts
    PROVE  /\ t \in Seq(Byte) /\ Len(t) \in Nat
           /\ DOMAIN t = 1 .. Len(t) /\ (t = <<>> <=> Len(t) = 0)
<1>1. t \in Seq(Byte)
  BY TextAssumption DEF Byte
<1> QED
  BY <1>1, SMT

LEMMA TextCallFacts ==
    ASSUME NEW c \in TextCalls
    PROVE  /\ c.name \in CharRules \cup CaseRules \cup {"strlen", "offset"}
           /\ c.position \in Nat
<1>1. CASE c \in [name : CharRules \cup CaseRules \cup {"strlen"}, position : {0}]
  <2>1. c.name \in CharRules \cup CaseRules \cup {"strlen"} /\ c.position = 0
    BY <1>1
  <2> QED
    BY <2>1
<1>2. CASE c \in [name : {"offset"}, position : CharPositions]
  <2>1. c.name = "offset" /\ c.position \in CharPositions
    BY <1>2
  <2> QED
    BY <2>1, PositionAssumption
<1> QED
  BY <1>1, <1>2 DEF TextCalls

LEMMA StepFacts ==
    ASSUME NEW c \in TextCalls
    PROVE  /\ FirstStep(c.name) \in {"validating", "scanning", "counting"}
           /\ FirstStep(c.name) = "validating" => c.name \in CharRules
           /\ FirstStep(c.name) = "scanning" => c.name \in CaseRules
           /\ FirstStep(c.name) = "counting" => c.name \in {"strlen", "offset"}
  BY TextCallFacts DEF FirstStep

LEMMA TextKept ==
    ASSUME text' = text
    PROVE  /\ Readings' = Readings /\ Starts' = Starts /\ (Decodable' <=> Decodable)
           /\ \A q : WellFormed(q)' <=> WellFormed(q)
<1>1. Readings' = Readings
  BY DEF Readings, CharacterAt
<1>2. Starts' = Starts /\ (Decodable' <=> Decodable)
  BY <1>1 DEF Starts, Decodable
<1>3. \A q : WellFormed(q)' <=> WellFormed(q)
  BY DEF WellFormed
<1> QED
  BY <1>1, <1>2, <1>3

\* One more character.
LEMMA ReadOn ==
    ASSUME text \in Seq(Byte), NEW p \in 1 .. Len(text), NEW W,
           ReadBefore(W, p), WellFormed(p)
    PROVE  /\ p + Width(text[p]) \in p + 1 .. Len(text) + 1
           /\ ReadBefore(W \cup {p}, p + Width(text[p]))
<1> DEFINE e == p + Width(text[p])
<1>1. p \in Nat /\ Len(text) \in Nat /\ p >= 1 /\ p <= Len(text)
  BY SMT
<1>2. e \in p + 1 .. Len(text) + 1
  <2>1. text[p] \in Byte
    BY Elements
  <2>2. Width(text[p]) # 0 /\ p + Width(text[p]) - 1 <= Len(text) /\ Width(text[p]) \in 0 .. 4
    BY <2>1, WidthFacts DEF WellFormed
  <2> QED
    BY <1>1, <2>2, SMT
<1>3. /\ W \subseteq 1 .. p - 1
      /\ p > 1 => 1 \in W
      /\ \A q \in W : /\ WellFormed(q)
                      /\ q + Width(text[q]) \in W \cup {p}
                      /\ \A r \in W : r > q => r >= q + Width(text[q])
  BY DEF ReadBefore
<1>4. W \cup {p} \subseteq 1 .. e - 1
  <2> HIDE DEF e
  <2> QED
    BY <1>1, <1>2, <1>3, SMT
<1>5. 1 \in W \cup {p}
  BY <1>1, <1>3, SMT
<1>6. ASSUME NEW q \in W \cup {p}
      PROVE  /\ WellFormed(q)
             /\ q + Width(text[q]) \in (W \cup {p}) \cup {e}
             /\ \A r \in W \cup {p} : r > q => r >= q + Width(text[q])
  <2>1. CASE q = p
    <3>1. \A r \in W \cup {p} : ~(r > p)
      BY <1>1, <1>3, SMT
    <3> QED
      BY <2>1, <3>1
  <2>2. CASE q \in W
    <3> DEFINE f == q + Width(text[q])
    <3>1. f \in W \cup {p} /\ \A r \in W : r > q => r >= f
      BY <1>3, <2>2
    <3> HIDE DEF f
    <3>2. p >= f
      BY <1>1, <1>3, <3>1, SMT
    <3> QED
      BY <1>3, <2>2, <3>1, <3>2 DEF f
  <2> QED
    BY <2>1, <2>2
<1> QED
  <2> HIDE DEF e
  <2>1. ReadBefore(W \cup {p}, e)
    BY <1>4, <1>5, <1>6 DEF ReadBefore, e
  <2> QED
    BY <1>2, <2>1 DEF e

LEMMA ReadWhole ==
    ASSUME text \in Seq(Byte), NEW W, ReadBefore(W, Len(text) + 1)
    PROVE  W \in Readings
<1>1. Len(text) \in Nat /\ DOMAIN text = 1 .. Len(text) /\ (text # <<>> => Len(text) > 0)
      /\ Len(text) + 1 - 1 = Len(text)
  BY SMT
<1>2. W \in SUBSET DOMAIN text /\ (text # <<>> => 1 \in W)
  BY <1>1, SMT DEF ReadBefore
<1>3. \A p \in W : /\ WellFormed(p)
                   /\ p + Width(text[p]) \in W \cup {Len(text) + 1}
                   /\ \A r \in W : r > p => r >= p + Width(text[p])
  BY DEF ReadBefore
<1> QED
  BY <1>2, <1>3, ReadingMade

LEMMA TextStarts == TextInit => TextInv
<1> SUFFICES ASSUME TextInit PROVE TextInv
  OBVIOUS
<1>1. /\ textCall \in TextCalls /\ text \in Texts /\ at = 1 /\ count = 0
      /\ step = FirstStep(textCall.name)
  BY DEF TextInit
<1>2. text \in Seq(Byte) /\ Len(text) \in Nat /\ (text # <<>> => Len(text) >= 1)
      /\ (text = <<>> => Len(text) = 0)
  BY <1>1, TextIsBytes, SMT
<1>3. /\ step \in {"validating", "scanning", "counting"}
      /\ step = "validating" => textCall.name \in CharRules
      /\ step = "scanning" => textCall.name \in CaseRules
      /\ step = "counting" => textCall.name \in {"strlen", "offset"}
  BY <1>1, StepFacts
<1>4. TextType
  BY <1>1, <1>2, <1>3, SMT DEF TextType
<1>5. Validated
  <2>1. ReadBefore({}, 1)
    BY SMT DEF ReadBefore
  <2>2. \A S \in Readings : 1 \in S \cup {Len(text) + 1}
    BY <1>2, SMT DEF Readings
  <2> QED
    BY <1>1, <1>3, <2>1, <2>2 DEF Validated
<1>6. Walked /\ TextAnswers
  BY <1>3 DEF Walked, TextAnswers
<1>7. Scanned /\ Counted
  <2>1. 1 .. 1 - 1 = {}
    BY SMT
  <2>2. Leads(text, 1 - 1) = {}
    BY <2>1 DEF Leads
  <2>3. textCall.position \in Nat
    BY <1>1, TextCallFacts
  <2>4. 0 <= textCall.position
    BY <2>3, SMT
  <2>5. count = Cardinality(Leads(text, at - 1)) /\ ~(count # 0)
    BY <1>1, <2>2, FS_EmptySet
  <2>6. Counted
    BY <1>1, <1>3, <2>4, <2>5 DEF Counted
  <2> QED
    BY <1>1, <1>3, <2>1, <2>6 DEF Scanned
<1> QED
  BY <1>4, <1>5, <1>6, <1>7 DEF TextInv

\* A step that answers leaves every other part of the invariant empty.
LEMMA TextReturns ==
    ASSUME TextInv, NEW answer, ReturnText(answer), TextAnswers'
    PROVE  TextInv'
<1>1. step' = "done" /\ UNCHANGED <<textCall, text, at, count>>
  BY DEF ReturnText
<1>2. TextType'
  BY <1>1 DEF TextInv, TextType
<1> QED
  BY <1>1, <1>2 DEF TextInv, Validated, Walked, Scanned, Counted

LEMMA ValidatesOn ==
    ASSUME TextInv, ValidateCharacter
    PROVE  TextInv'
<1>1. /\ step = "validating" /\ at <= Len(text) /\ WellFormed(at)
      /\ at' = at + Width(text[at])
      /\ textCall' = textCall /\ text' = text /\ step' = step /\ count' = count
  BY DEF ValidateCharacter, Advance, More
<1>2. TextType /\ Validated
  BY DEF TextInv
<1>3. text \in Seq(Byte) /\ Len(text) \in Nat
  BY <1>2, TextIsBytes DEF TextType
<1>4. at \in 1 .. Len(text)
  BY <1>1, <1>2, <1>3, SMT DEF TextType
<1>5. PICK W : ReadBefore(W, at)
  BY <1>1, <1>2 DEF Validated
<1> DEFINE e == at + Width(text[at])
<1>6. e \in at + 1 .. Len(text) + 1 /\ ReadBefore(W \cup {at}, e)
  BY <1>1, <1>3, <1>4, <1>5, ReadOn
<1>7. at' = e
  BY <1>1
<1>8. TextType'
  <2>1. e \in 1 .. Len(text) + 1
    <3> HIDE DEF e
    <3> QED
      BY <1>3, <1>4, <1>6, SMT
  <2> QED
    BY <1>1, <1>2, <2>1 DEF TextType
<1>9. Validated'
  <2>1. \E V : ReadBefore(V, at)'
    <3> DEFINE V == W \cup {at}
    <3>1. /\ V \subseteq 1 .. e - 1
          /\ e > 1 => 1 \in V
          /\ \A q \in V : /\ WellFormed(q)
                          /\ q + Width(text[q]) \in V \cup {e}
                          /\ \A r \in V : r > q => r >= q + Width(text[q])
      BY <1>6 DEF ReadBefore
    <3>2. \E U : U = V
      OBVIOUS
    <3>3. PICK U : U = V
      BY <3>2
    <3> HIDE DEF V, e
    <3>4. ReadBefore(U, at)'
      BY <1>1, <1>7, <3>1, <3>3, TextKept DEF ReadBefore
    <3> QED
      BY <3>4
  <2>2. \A S \in Readings : e \in S \cup {Len(text) + 1}
    <3> SUFFICES ASSUME NEW S \in Readings PROVE e \in S \cup {Len(text) + 1}
      OBVIOUS
    <3>1. at \in S \cup {Len(text) + 1}
      BY <1>1, <1>2 DEF Validated
    <3>2. at \in S
      BY <1>3, <1>4, <3>1, SMT
    <3> QED
      BY <1>3, <3>2, ReadingFacts
  <2>3. textCall.name \in CharRules
    BY <1>1, <1>2 DEF Validated
  <2> HIDE DEF e
  <2> QED
    BY <1>1, <1>7, <2>1, <2>2, <2>3, TextKept DEF Validated
<1> QED
  BY <1>1, <1>8, <1>9 DEF TextInv, Walked, Scanned, Counted, TextAnswers

LEMMA RefusesText ==
    ASSUME TextInv, InvalidText
    PROVE  TextInv'
<1>1. /\ step = "validating" /\ at <= Len(text) /\ ~WellFormed(at)
      /\ ReturnText(FALSE)
  BY DEF InvalidText, More
<1>2. TextType /\ Validated
  BY DEF TextInv
<1>3. text \in Seq(Byte) /\ Len(text) \in Nat
  BY <1>2, TextIsBytes DEF TextType
<1>4. at \in 1 .. Len(text)
  BY <1>1, <1>2, <1>3, SMT DEF TextType
<1>5. ASSUME NEW S \in Readings PROVE FALSE
  <2>1. at \in S \cup {Len(text) + 1}
    BY <1>1, <1>2, <1>5 DEF Validated
  <2>2. at \in S
    BY <1>3, <1>4, <2>1, SMT
  <2> QED
    BY <1>1, <1>3, <1>5, <2>2, ReadingFacts
<1>6. ~Decodable
  BY <1>5 DEF Decodable
<1>7. /\ textCall' = textCall /\ text' = text /\ ~textAccepted' /\ step' = "done"
  BY <1>1 DEF ReturnText
<1>8. ~Decodable'
  BY <1>6, <1>7, TextKept
<1>9. textCall.name \in CharRules /\ textCall.name \notin CaseRules \cup {"strlen", "offset"}
  BY <1>1, <1>2 DEF Validated, CharRules, CaseRules
<1>10. TextAnswers'
  BY <1>7, <1>8, <1>9 DEF TextAnswers
<1> QED
  BY <1>1, <1>10, TextReturns

LEMMA StartsWalk ==
    ASSUME TextInv, StartWalk
    PROVE  TextInv'
<1>1. /\ step = "validating" /\ ~(at <= Len(text)) /\ step' = "walking" /\ at' = 1
      /\ textCall' = textCall /\ text' = text /\ count' = count
  BY DEF StartWalk, More
<1>2. TextType /\ Validated
  BY DEF TextInv
<1>3. text \in Seq(Byte) /\ Len(text) \in Nat
  BY <1>2, TextIsBytes DEF TextType
<1>4. at = Len(text) + 1
  BY <1>1, <1>2, <1>3, SMT DEF TextType
<1>5. Readings # {}
  <2>1. PICK W : ReadBefore(W, at)
    BY <1>1, <1>2 DEF Validated
  <2> QED
    BY <1>3, <1>4, <2>1, ReadWhole
<1>6. \A S \in Readings : 1 \in S \cup {Len(text) + 1} /\ \A p \in S : ~(p < 1)
  <2> SUFFICES ASSUME NEW S \in Readings
               PROVE  1 \in S \cup {Len(text) + 1} /\ \A p \in S : ~(p < 1)
    OBVIOUS
  <2>1. \A p \in S : p \in 1 .. Len(text)
    BY <1>3, ReadingFacts
  <2>2. text # <<>> => 1 \in S
    BY DEF Readings
  <2>3. text = <<>> => Len(text) = 0
    BY SMT
  <2> QED
    BY <1>3, <2>1, <2>2, <2>3, SMT
<1>7. Walked'
  <2>1. textCall.name \in CharRules
    BY <1>1, <1>2 DEF Validated
  <2> QED
    BY <1>1, <1>5, <1>6, <2>1, TextKept DEF Walked
<1>8. TextType'
  <2>1. 1 \in 1 .. Len(text) + 1
    BY <1>3, SMT
  <2> QED
    BY <1>1, <1>2, <2>1 DEF TextType
<1> QED
  BY <1>1, <1>7, <1>8 DEF TextInv, Validated, Scanned, Counted, TextAnswers

LEMMA WalksOn ==
    ASSUME TextInv, WalkCharacter
    PROVE  TextInv'
<1>1. /\ step = "walking" /\ at <= Len(text) /\ WalksOver(text[at])
      /\ at' = at + Width(text[at])
      /\ textCall' = textCall /\ text' = text /\ step' = step /\ count' = count
  BY DEF WalkCharacter, Advance, More
<1>2. TextType /\ Walked
  BY DEF TextInv
<1>3. text \in Seq(Byte) /\ Len(text) \in Nat
  BY <1>2, TextIsBytes DEF TextType
<1>4. at \in 1 .. Len(text)
  BY <1>1, <1>2, <1>3, SMT DEF TextType
<1> DEFINE e == at + Width(text[at])
<1>5. ASSUME NEW S \in Readings
      PROVE  /\ e \in S \cup {Len(text) + 1} /\ e \in 1 .. Len(text) + 1
             /\ \A p \in S : p < e => WalksOver(text[p])
  <2>1. at \in S \cup {Len(text) + 1} /\ \A p \in S : p < at => WalksOver(text[p])
    BY <1>1, <1>2 DEF Walked
  <2>2. at \in S
    BY <1>3, <1>4, <2>1, SMT
  <2>3. e \in S \cup {Len(text) + 1} /\ \A r \in S : r > at => r >= e
    BY <1>3, <2>2, ReadingFacts
  <2>4. \A p \in S : p \in 1 .. Len(text)
    BY <1>3, ReadingFacts
  <2> HIDE DEF e
  <2>5. e \in 1 .. Len(text) + 1
    BY <1>3, <2>3, <2>4, SMT
  <2>6. ASSUME NEW p \in S, p < e
        PROVE  WalksOver(text[p])
    <3>1. p < at \/ p = at
      BY <1>4, <2>3, <2>4, <2>5, <2>6, SMT
    <3> QED
      BY <1>1, <2>1, <3>1
  <2> QED
    BY <2>3, <2>5, <2>6
<1>6. at' = e
  BY <1>1
<1>7. textCall.name \in CharRules /\ Readings # {}
  BY <1>1, <1>2 DEF Walked
<1> HIDE DEF e
<1>8. TextType'
  BY <1>1, <1>2, <1>5, <1>6, <1>7 DEF TextType
<1>9. Walked'
  <2>1. \A b : WalksOver(b)' <=> WalksOver(b)
    BY <1>1 DEF WalksOver
  <2> QED
    BY <1>1, <1>5, <1>6, <1>7, <2>1, TextKept DEF Walked
<1> QED
  BY <1>1, <1>8, <1>9 DEF TextInv, Validated, Scanned, Counted, TextAnswers

\* The starts chosen are a reading.
LEMMA StartsRead ==
    ASSUME Readings # {}
    PROVE  Starts \in Readings
  BY DEF Starts

LEMMA RefusesWalk ==
    ASSUME TextInv, WalkRefuses
    PROVE  TextInv'
<1>1. /\ step = "walking" /\ at <= Len(text) /\ ~WalksOver(text[at])
      /\ ReturnText(FALSE)
  BY DEF WalkRefuses, More
<1>2. TextType /\ Walked
  BY DEF TextInv
<1>3. text \in Seq(Byte) /\ Len(text) \in Nat
  BY <1>2, TextIsBytes DEF TextType
<1>4. at \in 1 .. Len(text)
  BY <1>1, <1>2, <1>3, SMT DEF TextType
<1>5. Readings # {} /\ textCall.name \in CharRules
  BY <1>1, <1>2 DEF Walked
<1>6. at \in Starts
  <2>1. at \in Starts \cup {Len(text) + 1}
    BY <1>1, <1>2, <1>5, StartsRead DEF Walked
  <2> QED
    BY <1>3, <1>4, <2>1, SMT
<1>7. ~(text[at] >= 128) /\ text[at] \notin Allowed[textCall.name]
  <2>1. text[at] \in Byte
    BY <1>3, <1>4, Elements
  <2>2. Width(text[at]) \in 1 .. 4
    BY <1>3, <1>5, <1>6, StartsRead, ReadingFacts
  <2>3. Width(text[at]) # 0
    BY <2>2, SMT
  <2>4. text[at] < 128 /\ text[at] \notin Allowed[textCall.name]
    BY <1>1, <2>3, Zenon DEF WalksOver
  <2>5. \A b \in Byte : b < 128 => ~(b >= 128)
    BY SMT DEF Byte
  <2> QED
    BY <2>1, <2>4, <2>5
<1>8. /\ textCall' = textCall /\ text' = text /\ ~textAccepted' /\ step' = "done"
  BY <1>1 DEF ReturnText
<1>9. textCall.name \notin CaseRules \cup {"strlen", "offset"}
  BY <1>5 DEF CharRules, CaseRules
<1>10. TextAnswers'
  BY <1>6, <1>7, <1>8, <1>9, TextKept DEF TextAnswers
<1> QED
  BY <1>1, <1>10, TextReturns

LEMMA EndsWalk ==
    ASSUME TextInv, WalkEnds
    PROVE  TextInv'
<1>1. /\ step = "walking" /\ ~(at <= Len(text)) /\ ReturnText(TRUE)
  BY DEF WalkEnds, More
<1>2. TextType /\ Walked
  BY DEF TextInv
<1>3. text \in Seq(Byte) /\ Len(text) \in Nat
  BY <1>2, TextIsBytes DEF TextType
<1>4. at = Len(text) + 1
  BY <1>1, <1>2, <1>3, SMT DEF TextType
<1>5. Readings # {} /\ textCall.name \in CharRules
  BY <1>1, <1>2 DEF Walked
<1>6. ASSUME NEW p \in Starts
      PROVE  text[p] >= 128 \/ text[p] \in Allowed[textCall.name]
  <2>1. p \in 1 .. Len(text)
    BY <1>3, <1>5, StartsRead, ReadingFacts
  <2>2. p < at
    BY <1>3, <1>4, <2>1, SMT
  <2>3. WalksOver(text[p])
    BY <1>1, <1>2, <1>5, <2>2, StartsRead DEF Walked
  <2>4. text[p] \in Byte
    BY <1>3, <2>1, Elements
  <2>5. \A b \in Byte : b < 128 \/ b >= 128
    BY SMT DEF Byte
  <2> QED
    BY <2>3, <2>4, <2>5 DEF WalksOver
<1>7. Decodable
  BY <1>5 DEF Decodable
<1>8. /\ textCall' = textCall /\ text' = text /\ textAccepted' /\ step' = "done"
  BY <1>1 DEF ReturnText
<1>9. textCall.name \notin CaseRules \cup {"strlen", "offset"}
  BY <1>5 DEF CharRules, CaseRules
<1>10. TextAnswers'
  BY <1>6, <1>7, <1>8, <1>9, TextKept DEF TextAnswers
<1> QED
  BY <1>1, <1>10, TextReturns

LEMMA ScansOn ==
    ASSUME TextInv, ScanByte
    PROVE  TextInv'
<1>1. /\ step = "scanning" /\ at <= Len(text) /\ text[at] \notin WrongCase[textCall.name]
      /\ at' = at + 1
      /\ textCall' = textCall /\ text' = text /\ step' = step /\ count' = count
  BY DEF ScanByte, Advance, More
<1>2. TextType /\ Scanned
  BY DEF TextInv
<1>3. Len(text) \in Nat
  BY <1>2, TextIsBytes DEF TextType
<1>4. at \in 1 .. Len(text) /\ at \in Nat
  BY <1>1, <1>2, <1>3, SMT DEF TextType
<1>5. /\ at + 1 \in 1 .. Len(text) + 1
      /\ \A q \in 1 .. (at + 1) - 1 : q = at \/ q \in 1 .. at - 1
  BY <1>3, <1>4, SMT
<1>6. TextType'
  BY <1>1, <1>2, <1>5 DEF TextType
<1>7. Scanned'
  BY <1>1, <1>2, <1>5 DEF Scanned
<1> QED
  BY <1>1, <1>6, <1>7 DEF TextInv, Validated, Walked, Counted, TextAnswers

LEMMA RefusesScan ==
    ASSUME TextInv, ScanRefuses
    PROVE  TextInv'
<1>1. /\ step = "scanning" /\ at <= Len(text) /\ text[at] \in WrongCase[textCall.name]
      /\ ReturnText(FALSE)
  BY DEF ScanRefuses, More
<1>2. TextType /\ Scanned
  BY DEF TextInv
<1>3. Len(text) \in Nat /\ DOMAIN text = 1 .. Len(text)
  BY <1>2, TextIsBytes DEF TextType
<1>4. at \in DOMAIN text
  BY <1>1, <1>2, <1>3, SMT DEF TextType
<1>5. /\ textCall' = textCall /\ text' = text /\ ~textAccepted' /\ step' = "done"
  BY <1>1 DEF ReturnText
<1>6. textCall.name \in CaseRules /\ textCall.name \notin CharRules \cup {"strlen", "offset"}
  BY <1>1, <1>2 DEF Scanned, CharRules, CaseRules
<1>7. TextAnswers'
  BY <1>1, <1>4, <1>5, <1>6 DEF TextAnswers
<1> QED
  BY <1>1, <1>7, TextReturns

LEMMA EndsScan ==
    ASSUME TextInv, ScanEnds
    PROVE  TextInv'
<1>1. /\ step = "scanning" /\ ~(at <= Len(text)) /\ ReturnText(TRUE)
  BY DEF ScanEnds, More
<1>2. TextType /\ Scanned
  BY DEF TextInv
<1>3. Len(text) \in Nat /\ DOMAIN text = 1 .. Len(text)
  BY <1>2, TextIsBytes DEF TextType
<1>4. 1 .. at - 1 = DOMAIN text
  <2>1. at = Len(text) + 1
    BY <1>1, <1>2, <1>3, SMT DEF TextType
  <2> QED
    BY <1>3, <2>1, SMT
<1>5. /\ textCall' = textCall /\ text' = text /\ textAccepted' /\ step' = "done"
  BY <1>1 DEF ReturnText
<1>6. textCall.name \in CaseRules /\ textCall.name \notin CharRules \cup {"strlen", "offset"}
  BY <1>1, <1>2 DEF Scanned, CharRules, CaseRules
<1>7. TextAnswers'
  BY <1>1, <1>2, <1>4, <1>5, <1>6 DEF TextAnswers, Scanned
<1> QED
  BY <1>1, <1>7, TextReturns

LEMMA LeadsFinite ==
    ASSUME NEW t, NEW n \in Nat
    PROVE  /\ Leads(t, n) \subseteq 1 .. n /\ IsFiniteSet(Leads(t, n))
           /\ Cardinality(Leads(t, n)) \in Nat
<1>1. Leads(t, n) \subseteq 1 .. n
  BY DEF Leads
<1>2. IsFiniteSet(1 .. n)
  BY FS_Interval
<1> QED
  BY <1>1, <1>2, FS_Subset, FS_CardinalityType

LEMMA LeadsGrow ==
    ASSUME NEW t, NEW n \in Nat
    PROVE  Cardinality(Leads(t, n + 1)) =
               IF Continues(t[n + 1]) THEN Cardinality(Leads(t, n))
                                      ELSE Cardinality(Leads(t, n)) + 1
<1>1. /\ \A q : q \in 1 .. n + 1 <=> q \in 1 .. n \/ q = n + 1
      /\ n + 1 \notin 1 .. n
  BY SMT
<1>2. CASE Continues(t[n + 1])
  <2>1. Leads(t, n + 1) = Leads(t, n)
    BY <1>1, <1>2 DEF Leads
  <2> QED
    BY <1>2, <2>1
<1>3. CASE ~Continues(t[n + 1])
  <2>1. Leads(t, n + 1) = Leads(t, n) \cup {n + 1} /\ n + 1 \notin Leads(t, n)
    BY <1>1, <1>3 DEF Leads
  <2>2. IsFiniteSet(Leads(t, n))
    BY LeadsFinite
  <2> QED
    BY <1>3, <2>1, <2>2, FS_AddElement
<1> QED
  BY <1>2, <1>3

LEMMA CountsOn ==
    ASSUME TextInv, CountByte
    PROVE  TextInv'
<1>1. /\ step = "counting" /\ at <= Len(text)
      /\ textCall.name = "offset" => count < textCall.position
      /\ count' = (IF Continues(text[at]) THEN count ELSE count + 1)
      /\ at' = at + 1
      /\ textCall' = textCall /\ text' = text /\ step' = step
  BY DEF CountByte, Counting, More
<1>2. TextType /\ Counted
  BY DEF TextInv
<1>3. Len(text) \in Nat
  BY <1>2, TextIsBytes DEF TextType
<1>4. at \in Nat /\ at - 1 \in Nat /\ (at - 1) + 1 = at /\ (at + 1) - 1 = at
      /\ at + 1 \in 1 .. Len(text) + 1
  BY <1>1, <1>2, <1>3, SMT DEF TextType
<1>5. textCall.position \in Nat /\ count \in Nat
  BY <1>2, TextCallFacts DEF TextType
<1>6. count' = Cardinality(Leads(text, at))
  <2>1. count = Cardinality(Leads(text, at - 1))
    BY <1>1, <1>2 DEF Counted
  <2> QED
    BY <1>1, <1>4, <2>1, LeadsGrow
<1>7. /\ count' \in Nat
      /\ textCall.name = "offset" =>
            /\ count' <= textCall.position /\ textCall.position # 0
            /\ count' = textCall.position => ~Continues(text[at])
  BY <1>1, <1>5, SMT
<1>8. TextType'
  BY <1>1, <1>2, <1>4, <1>7 DEF TextType
<1>9. Counted'
  <2>1. textCall.name \in {"strlen", "offset"}
    BY <1>1, <1>2 DEF Counted
  <2>2. Leads(text, at)' = Leads(text, at + 1)
    BY <1>1 DEF Leads
  <2>3. at' - 1 = at /\ at' > 1
    BY <1>1, <1>4, SMT
  <2>4. count' = Cardinality(Leads(text, at' - 1))
    BY <1>6, <2>3
  <2> QED
    BY <1>1, <1>7, <2>1, <2>3, <2>4 DEF Counted, Leads, Continues
<1> QED
  BY <1>1, <1>8, <1>9 DEF TextInv, Validated, Walked, Scanned, TextAnswers

\* The characters before a start are the bytes before it that do not continue.
LEMMA StartsBefore ==
    ASSUME text \in Seq(Byte), NEW S \in Readings, NEW n \in 0 .. Len(text)
    PROVE  {q \in S : q <= n} = Leads(text, n)
<1>1. \A q \in S : q \in 1 .. Len(text)
  BY ReadingFacts
<1>2. Len(text) \in Nat
  BY SMT
<1>3. ASSUME NEW q \in 1 .. Len(text)
      PROVE  q \in S <=> ~Continues(text[q])
  BY LeadsAreStarts
<1>4. \A q : q \in 1 .. n <=> q \in 1 .. Len(text) /\ q <= n
  BY <1>2, SMT
<1> QED
  BY <1>1, <1>3, <1>4 DEF Leads

LEMMA LeadsInside ==
    ASSUME NEW t, NEW n \in Nat, NEW m \in Nat, n <= m
    PROVE  Cardinality(Leads(t, n)) <= Cardinality(Leads(t, m))
<1>1. \A q : q \in 1 .. n => q \in 1 .. m
  BY SMT
<1>2. Leads(t, n) \subseteq Leads(t, m)
  BY <1>1 DEF Leads
<1> QED
  BY <1>2, LeadsFinite, FS_Subset

\* An offset is one byte behind the start of its character.
LEMMA OffsetIsStart ==
    ASSUME TextType, Counted, step = "counting", textCall.name = "offset",
           ~Counting, NEW S \in Readings, NEW p \in S,
           Cardinality({q \in S : q <= p}) = textCall.position
    PROVE  at = p + 1
<1> DEFINE L(n) == Cardinality(Leads(text, n))
<1>1. text \in Seq(Byte) /\ Len(text) \in Nat
  BY TextIsBytes DEF TextType
<1>2. p \in 1 .. Len(text)
  BY <1>1, ReadingFacts
<1>3. /\ p \in Nat /\ p - 1 \in Nat /\ p \in 0 .. Len(text) /\ (p - 1) + 1 = p
      /\ at \in Nat /\ at - 1 \in Nat /\ (at - 1) + 1 = at
      /\ (at <= Len(text) \/ at = Len(text) + 1)
  BY <1>1, <1>2, SMT DEF TextType
<1>4. L(p) = textCall.position /\ L(p) = L(p - 1) + 1
  <2>1. ~Continues(text[p])
    BY <1>1, <1>2, LeadsAreStarts
  <2>2. Cardinality(Leads(text, p)) = Cardinality(Leads(text, p - 1)) + 1
    BY <1>3, <2>1, LeadsGrow
  <2>3. {q \in S : q <= p} = Leads(text, p)
    BY <1>1, <1>3, StartsBefore
  <2> QED
    BY <2>2, <2>3
<1>5. /\ L(at - 1) = count /\ count <= textCall.position
      /\ count = textCall.position /\ count # 0 => at > 1 /\ ~Continues(text[at - 1])
  BY DEF Counted
<1>6. L(p) \in Nat /\ L(p - 1) \in Nat /\ L(at - 1) \in Nat
  BY <1>3, LeadsFinite
<1>7. L(p) # 0 /\ textCall.position # 0
  BY <1>4, <1>6, SMT
<1>8. count = textCall.position
  <2>1. SUFFICES ASSUME count # textCall.position PROVE FALSE
    OBVIOUS
  <2>2. count < textCall.position
    BY <1>4, <1>5, <1>6, <2>1, SMT
  <2>3. at = Len(text) + 1
    BY <1>3, <2>2 DEF Counting, More
  <2>4. p <= at - 1
    BY <1>1, <1>2, <2>3, SMT
  <2>5. L(p) <= L(at - 1)
    BY <1>3, <2>4, LeadsInside
  <2> QED
    BY <1>4, <1>5, <1>6, <2>2, <2>5, SMT
<1>9. at > 1 /\ ~Continues(text[at - 1])
  BY <1>5, <1>7, <1>8
<1>10. ~(at - 1 < p)
  <2>1. SUFFICES ASSUME at - 1 < p PROVE FALSE
    OBVIOUS
  <2>2. at - 1 <= p - 1
    BY <1>3, <2>1, SMT
  <2>3. L(at - 1) <= L(p - 1)
    BY <1>3, <2>2, LeadsInside
  <2>4. L(at - 1) = L(p)
    BY <1>4, <1>5, <1>8
  <2>5. L(p) = L(p - 1) + 1
    BY <1>4
  <2> DEFINE x == L(p - 1)
             y == L(p)
  <2>6. x \in Nat /\ y = x + 1 /\ y <= x
    BY <1>6, <2>3, <2>4, <2>5
  <2> HIDE DEF x, y
  <2> QED
    BY <2>6, SMT
<1>11. ~(at - 1 > p)
  <2>1. SUFFICES ASSUME at - 1 > p PROVE FALSE
    OBVIOUS
  <2> DEFINE n == at - 2
  <2>2. n \in Nat /\ n + 1 = at - 1 /\ p <= n
    BY <1>3, <2>1, SMT
  <2> HIDE DEF n
  <2>3. Cardinality(Leads(text, n + 1)) = Cardinality(Leads(text, n)) + 1
    BY <1>9, <2>2, LeadsGrow
  <2>4. Cardinality(Leads(text, p)) <= Cardinality(Leads(text, n))
    BY <1>3, <2>2, LeadsInside
  <2>5. Cardinality(Leads(text, n)) \in Nat
    BY <2>2, LeadsFinite
  <2>6. L(at - 1) = L(n) + 1 /\ L(p) <= L(n) /\ L(n) \in Nat
    BY <2>2, <2>3, <2>4, <2>5
  <2> HIDE DEF L
  <2> QED
    BY <1>4, <1>5, <1>6, <1>8, <2>6, SMT
<1> QED
  BY <1>3, <1>10, <1>11, SMT

\* All the characters of a text, counted by their first bytes.
LEMMA AllStarts ==
    ASSUME text \in Seq(Byte), NEW S \in Readings
    PROVE  S = Leads(text, Len(text))
<1>1. Len(text) \in Nat /\ Len(text) \in 0 .. Len(text)
  BY SMT
<1>2. {q \in S : q <= Len(text)} = Leads(text, Len(text))
  BY <1>1, StartsBefore
<1>3. \A q \in S : q <= Len(text)
  <2>1. \A q \in S : q \in 1 .. Len(text)
    BY ReadingFacts
  <2> QED
    BY <1>1, <2>1, SMT
<1>4. {q \in S : q <= Len(text)} = S
  BY <1>3
<1> QED
  BY <1>2, <1>4

\* An offset asked for a character there is none of is the end.
LEMMA OffsetIsEnd ==
    ASSUME TextType, Counted, step = "counting", textCall.name = "offset",
           ~Counting, NEW S \in Readings, textCall.position > Cardinality(S)
    PROVE  at = Len(text) + 1
<1>1. text \in Seq(Byte) /\ Len(text) \in Nat
  BY TextIsBytes DEF TextType
<1>2. at - 1 \in Nat /\ at - 1 <= Len(text) /\ (at <= Len(text) \/ at = Len(text) + 1)
  BY <1>1, SMT DEF TextType
<1>3. Cardinality(Leads(text, at - 1)) <= Cardinality(S)
  BY <1>1, <1>2, AllStarts, LeadsInside
<1>4. count = Cardinality(Leads(text, at - 1)) /\ count \in Nat
  BY DEF Counted, TextType
<1>5. textCall.position \in Nat /\ Cardinality(S) \in Nat
  BY <1>1, AllStarts, LeadsFinite, TextCallFacts DEF TextType
<1>6. count < textCall.position
  BY <1>3, <1>4, <1>5, SMT
<1> QED
  BY <1>2, <1>6 DEF Counting, More

LEMMA EndsCount ==
    ASSUME TextInv, CountEnds
    PROVE  TextInv'
<1>1. /\ step = "counting" /\ ~Counting /\ ReturnText(TRUE)
  BY DEF CountEnds
<1>2. TextType /\ Counted
  BY DEF TextInv
<1>3. text \in Seq(Byte) /\ Len(text) \in Nat
  BY <1>2, TextIsBytes DEF TextType
<1>4. textCall.name \in {"strlen", "offset"} /\ textCall.name \notin CharRules \cup CaseRules
  BY <1>1, <1>2 DEF Counted, CharRules, CaseRules
<1>5. ASSUME textCall.name = "strlen", Decodable
      PROVE  count = Cardinality(Starts)
  <2>1. Starts \in Readings
    BY <1>5, StartsRead DEF Decodable
  <2>2. at = Len(text) + 1
    BY <1>1, <1>2, <1>3, <1>5, SMT DEF Counting, More, TextType
  <2>3. at - 1 = Len(text)
    BY <1>3, <2>2, SMT
  <2>4. Starts = Leads(text, Len(text))
    BY <1>3, <2>1, AllStarts
  <2> QED
    BY <1>1, <1>2, <2>3, <2>4 DEF Counted
<1>6. ASSUME textCall.name = "offset", Decodable
      PROVE  /\ textCall.position = 0 => at = 1
             /\ \A p \in Starts :
                   Cardinality({q \in Starts : q <= p}) = textCall.position => at = p + 1
             /\ textCall.position > Cardinality(Starts) => at = Len(text) + 1
  <2>1. Starts \in Readings
    BY <1>6, StartsRead DEF Decodable
  <2>2. textCall.position = 0 => at = 1
    BY <1>1, <1>2, <1>6 DEF Counted
  <2> QED
    BY <1>1, <1>2, <1>6, <2>1, <2>2, OffsetIsStart, OffsetIsEnd
<1>7. /\ textCall' = textCall /\ text' = text /\ at' = at /\ count' = count
  BY <1>1 DEF ReturnText
<1>8. TextAnswers'
  BY <1>4, <1>5, <1>6, <1>7, TextKept DEF TextAnswers
<1> QED
  BY <1>1, <1>8, TextReturns

LEMMA TextStill == TextInv /\ UNCHANGED textVars => TextInv'
<1> SUFFICES ASSUME TextInv, UNCHANGED textVars PROVE TextInv'
  OBVIOUS
<1>1. /\ textCall' = textCall /\ text' = text /\ step' = step /\ at' = at
      /\ count' = count /\ textAccepted' = textAccepted
  BY DEF textVars
<1>2. TextType' /\ Scanned' /\ Counted'
  BY <1>1 DEF TextInv, TextType, Scanned, Counted
<1>3. Validated'
  <2>1. \A W : ReadBefore(W, at)' <=> ReadBefore(W, at)
    BY <1>1, TextKept DEF ReadBefore
  <2> QED
    BY <1>1, <2>1, TextKept DEF TextInv, Validated
<1>4. Walked'
  <2>1. \A b : WalksOver(b)' <=> WalksOver(b)
    BY <1>1 DEF WalksOver
  <2> QED
    BY <1>1, <2>1, TextKept DEF TextInv, Walked
<1>5. TextAnswers'
  BY <1>1, TextKept DEF TextInv, TextAnswers
<1> QED
  BY <1>2, <1>3, <1>4, <1>5 DEF TextInv

\* The inductive invariant of a walk through a text: what the bytes passed are, in
\* every reading of the text as UTF-8 characters.
THEOREM TextInvariant == TextSpec => []TextInv
<1>1. TextInv /\ [TextNext]_textVars => TextInv'
  BY TextStill, ValidatesOn, RefusesText, StartsWalk, WalksOn, RefusesWalk, EndsWalk,
     ScansOn, RefusesScan, EndsScan, CountsOn, EndsCount DEF TextNext
<1> QED
  BY TextStarts, <1>1, PTL DEF TextSpec

\* For every text: alpha, alpha_num and alpha_dash accept nothing but UTF-8 whose ASCII
\* characters are allowed, and refuse no text of allowed characters and letters;
\* lowercase and uppercase look for a wrong letter, sf_utf8_strlen counts the characters
\* and sf_utf8_char_to_byte_offset ends one byte behind the start of its character.
THEOREM TextsRight == TextSpec => []TextVerdict
<1>1. TextInv => TextVerdict
  <2>1. (\A p \in Starts : Proper(p)) =>
            \A p \in Starts : text[p] >= 128 \/ text[p] \in Allowed[textCall.name]
    BY DEF Proper
  <2> QED
    BY <2>1 DEF TextInv, TextAnswers, TextVerdict
<1> QED
  BY TextInvariant, <1>1, PTL

\* For every text: after sf_utf8_is_valid the loop of alpha, alpha_num and alpha_dash
\* stands on the first byte of a character at every turn, and never meets the byte
\* its last branch is for.
THEOREM WalkTrusts == TextSpec => []WalkOnCharacters
<1>1. TextInv => WalkOnCharacters
  <2> SUFFICES ASSUME TextInv, step = "walking"
               PROVE  /\ Decodable
                      /\ at \in Starts \cup {Len(text) + 1}
                      /\ More /\ ~WalksOver(text[at]) => text[at] < 128
    BY DEF WalkOnCharacters
  <2>1. TextType /\ Walked
    BY DEF TextInv
  <2>2. Decodable /\ Starts \in Readings /\ at \in Starts \cup {Len(text) + 1}
    BY <2>1, StartsRead DEF Walked, Decodable
  <2>3. ASSUME at <= Len(text), ~WalksOver(text[at])
        PROVE  text[at] < 128
    <3>1. text \in Seq(Byte) /\ Len(text) \in Nat
      BY <2>1, TextIsBytes DEF TextType
    <3>2. at \in Starts
      BY <2>1, <2>2, <2>3, <3>1, SMT DEF TextType
    <3>3. Width(text[at]) # 0
      <4>1. Width(text[at]) \in 1 .. 4
        BY <2>2, <3>1, <3>2, ReadingFacts
      <4> QED
        BY <4>1, SMT
    <3> QED
      BY <2>3, <3>3, Zenon DEF WalksOver
  <2> QED
    BY <2>2, <2>3 DEF More
<1> QED
  BY TextInvariant, <1>1, PTL

=============================================================================
