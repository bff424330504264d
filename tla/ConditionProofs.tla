-------------------------- MODULE ConditionProofs --------------------------
(***************************************************************************)
(* Theorems about Condition: what the parser lets through is no deeper     *)
(* than its limit, and the evaluation of it answers what the condition     *)
(* means, for every condition, value and data array, and any two limits.   *)
(*                                                                         *)
(* A parsed condition is a tree, and the properties speak of its levels.   *)
(* What is inductive is said of each node by itself: a node of a tree that *)
(* was begun at some depth keeps the parts that are conditions at all, as  *)
(* long as the parser may still go deeper (Built).  The evaluation stands  *)
(* in such a tree, and no part it has left behind decided its connective.  *)
(***************************************************************************)
EXTENDS Condition, NaturalSets, SequenceTheorems, TLAPS

-----------------------------------------------------------------------------
\* The levels of a parsed condition.

PartsOf(level) == UNION {ToSet(c.subs) : c \in level}

\* f holds the first n + 1 levels of cond.
Levels(f, cond, n) ==
    /\ f[0] = {cond}
    /\ \A m \in 0 .. n - 1 : f[m + 1] = PartsOf(f[m])

\* The levels of a condition can be listed as far as one likes, in one way only.
LEMMA LevelsExist ==
  ASSUME NEW cond
  PROVE  \A n \in Nat : \E f : Levels(f, cond, n)
<1> DEFINE S == {n \in Nat : \E f : Levels(f, cond, n)}
<1>1. 0 \in S
  <2> DEFINE f == [m \in {0} |-> {cond}]
  <2>1. f[0] = {cond} /\ 0 .. 0 - 1 = {}
    OBVIOUS
  <2> HIDE DEF f
  <2>2. Levels(f, cond, 0)
    BY <2>1 DEF Levels
  <2> QED
    BY <2>2
<1>2. \A n \in Nat : n \in S => n + 1 \in S
  <2> SUFFICES ASSUME NEW n \in Nat, n \in S PROVE n + 1 \in S
    OBVIOUS
  <2>1. PICK f : Levels(f, cond, n)
    OBVIOUS
  <2> DEFINE g == [m \in 0 .. n + 1 |-> IF m <= n THEN f[m] ELSE PartsOf(f[n])]
  <2>2. g[0] = {cond}
    BY <2>1 DEF Levels
  <2>3. \A m \in 0 .. n : g[m + 1] = PartsOf(g[m])
    BY <2>1 DEF Levels
  <2>4. n + 1 \in Nat /\ (n + 1) - 1 = n
    OBVIOUS
  <2> HIDE DEF g
  <2>5. Levels(g, cond, n + 1)
    BY <2>2, <2>3, <2>4 DEF Levels
  <2> QED
    BY <2>4, <2>5
<1>3. \A n \in Nat : n \in S
  <2> HIDE DEF S
  <2> QED
    BY <1>1, <1>2, AllNaturals
<1> QED
  BY <1>3

LEMMA LevelsAgree ==
  ASSUME NEW cond, NEW f, NEW g, NEW n \in Nat, NEW k \in Nat,
         Levels(f, cond, n), Levels(g, cond, k)
  PROVE  \A m \in Nat : m <= n /\ m <= k => f[m] = g[m]
<1> DEFINE S == {m \in Nat : m <= n /\ m <= k => f[m] = g[m]}
<1>1. 0 \in S
  BY DEF Levels
<1>2. \A m \in Nat : m \in S => m + 1 \in S
  BY DEF Levels
<1>3. \A m \in Nat : m \in S
  <2> HIDE DEF S
  <2> QED
    BY <1>1, <1>2, AllNaturals
<1> QED
  BY <1>3

\* The recursive function in Nested is what its equation says.
LEMMA NestedLevels ==
  ASSUME NEW cond
  PROVE  /\ Nested(cond)[0] = {cond}
         /\ \A n \in Nat : Nested(cond)[n + 1] = PartsOf(Nested(cond)[n])
<1> DEFINE Least(n) == CHOOSE f : Levels(f, cond, n)
           h == [n \in Nat |-> Least(n)[n]]
<1>1. \A n \in Nat : Levels(Least(n), cond, n)
  BY LevelsExist
<1> HIDE DEF Least
<1>2. h[0] = {cond}
  BY <1>1 DEF Levels
<1>3. \A n \in Nat : h[n + 1] = PartsOf(h[n])
  <2> SUFFICES ASSUME NEW n \in Nat PROVE h[n + 1] = PartsOf(h[n])
    OBVIOUS
  <2>1. Levels(Least(n), cond, n) /\ Levels(Least(n + 1), cond, n + 1)
    BY <1>1
  <2>2. Least(n)[n] = Least(n + 1)[n]
    BY <2>1, LevelsAgree
  <2>3. Least(n + 1)[n + 1] = PartsOf(Least(n + 1)[n])
    BY <2>1 DEF Levels
  <2> QED
    BY <2>2, <2>3
<1> DEFINE Is(f) == f = [n \in Nat |-> IF n = 0 THEN {cond} ELSE PartsOf(f[n - 1])]
<1>4. Is(h)
  <2>1. \A n \in Nat : h[n] = IF n = 0 THEN {cond} ELSE PartsOf(h[n - 1])
    <3> SUFFICES ASSUME NEW n \in Nat, n # 0 PROVE h[n] = PartsOf(h[n - 1])
      BY <1>2
    <3>1. n - 1 \in Nat /\ n = (n - 1) + 1
      OBVIOUS
    <3> HIDE DEF h
    <3> QED
      BY <3>1, <1>3
  <2> QED
    BY <2>1
<1>5. Nested(cond) = CHOOSE f : Is(f)
  BY DEF Nested, PartsOf
<1> HIDE DEF Is
<1>6. Is(Nested(cond))
  BY <1>4, <1>5
<1> DEFINE F == Nested(cond)
<1>7. F = [n \in Nat |-> IF n = 0 THEN {cond} ELSE PartsOf(F[n - 1])]
  BY <1>6 DEF Is
<1> HIDE DEF F
<1>8. F[0] = {cond} /\ \A n \in Nat \ {0} : F[n] = PartsOf(F[n - 1])
  BY <1>7
<1>9. \A n \in Nat : n + 1 \in Nat \ {0} /\ (n + 1) - 1 = n
  OBVIOUS
<1>10. F[0] = {cond} /\ \A n \in Nat : F[n + 1] = PartsOf(F[n])
  BY <1>8, <1>9
<1> QED
  BY <1>10 DEF F

-----------------------------------------------------------------------------
\* What a condition means.

Sensible == {c \in Given : Form[c] # "malformed"}

\* What conditions with n levels below them mean, from what those below mean.
Judged(n, below) ==
    [g \in Sensible |->
        /\ MAX_CONDITION_PARSE_DEPTH - n <= MAX_CONDITION_EVAL_DEPTH
        /\ \/ Form[g] = "simple" /\ Simple(g)
           \/ Form[g] = "and" /\ \A c \in Sound(g) : n > 0 => below[c]
           \/ Form[g] = "or"  /\ \E c \in Sound(g) : n > 0 /\ below[c]]

LEMMA LowestJudged ==
  ASSUME NEW x, NEW y
  PROVE  Judged(0, x) = Judged(0, y)
<1>1. \A g \in Sensible :
         /\ (\A c \in Sound(g) : 0 > 0 => x[c]) <=> (\A c \in Sound(g) : 0 > 0 => y[c])
         /\ (\E c \in Sound(g) : 0 > 0 /\ x[c]) <=> (\E c \in Sound(g) : 0 > 0 /\ y[c])
  OBVIOUS
<1> QED
  BY <1>1 DEF Judged

\* f holds what conditions with up to n levels mean.
Meanings(f, n) == \A m \in 0 .. n : f[m] = Judged(m, f[m - 1])

LEMMA MeaningsExist == \A n \in Nat : \E f : Meanings(f, n)
<1> DEFINE S == {n \in Nat : \E f : Meanings(f, n)}
<1>1. 0 \in S
  <2> DEFINE f == [m \in {0} |-> Judged(0, 0)]
  <2>1. f[0] = Judged(0, f[0 - 1])
    BY LowestJudged
  <2>2. \A m \in 0 .. 0 : m = 0
    OBVIOUS
  <2> HIDE DEF f
  <2>3. Meanings(f, 0)
    BY <2>1, <2>2 DEF Meanings
  <2> QED
    BY <2>3
<1>2. \A n \in Nat : n \in S => n + 1 \in S
  <2> SUFFICES ASSUME NEW n \in Nat, n \in S PROVE n + 1 \in S
    OBVIOUS
  <2>1. PICK f : Meanings(f, n)
    OBVIOUS
  <2> DEFINE g == [m \in 0 .. n + 1 |-> IF m <= n THEN f[m] ELSE Judged(n + 1, f[n])]
  <2>2. \A m \in 0 .. n + 1 : g[m] = Judged(m, g[m - 1])
    <3> SUFFICES ASSUME NEW m \in 0 .. n + 1 PROVE g[m] = Judged(m, g[m - 1])
      OBVIOUS
    <3>1. CASE m = 0
      <4>1. g[0] = Judged(0, f[0 - 1])
        BY <2>1 DEF Meanings
      <4> HIDE DEF g
      <4> QED
        BY <3>1, <4>1, LowestJudged
    <3>2. CASE m \in 1 .. n
      <4>1. g[m] = f[m] /\ g[m - 1] = f[m - 1]
        BY <3>2
      <4>2. f[m] = Judged(m, f[m - 1])
        BY <2>1, <3>2 DEF Meanings
      <4> QED
        BY <4>1, <4>2
    <3>3. CASE m = n + 1
      <4>1. g[m] = Judged(n + 1, f[n]) /\ g[m - 1] = f[n]
        BY <3>3
      <4> QED
        BY <3>3, <4>1
    <3> QED
      BY <3>1, <3>2, <3>3
  <2>3. n + 1 \in Nat
    OBVIOUS
  <2> HIDE DEF g
  <2>4. Meanings(g, n + 1)
    BY <2>2 DEF Meanings
  <2> QED
    BY <2>3, <2>4
<1>3. \A n \in Nat : n \in S
  <2> HIDE DEF S
  <2> QED
    BY <1>1, <1>2, AllNaturals
<1> QED
  BY <1>3

LEMMA MeaningsAgree ==
  ASSUME NEW f, NEW g, NEW n \in Nat, NEW k \in Nat, Meanings(f, n), Meanings(g, k)
  PROVE  \A m \in Nat : m <= n /\ m <= k => f[m] = g[m]
<1> DEFINE S == {m \in Nat : m <= n /\ m <= k => f[m] = g[m]}
<1>1. 0 \in S
  <2>1. f[0] = Judged(0, f[0 - 1]) /\ g[0] = Judged(0, g[0 - 1])
    BY DEF Meanings
  <2>2. f[0] = g[0]
    BY <2>1, LowestJudged
  <2> QED
    BY <2>2
<1>2. \A m \in Nat : m \in S => m + 1 \in S
  <2> SUFFICES ASSUME NEW m \in Nat, m \in S, m + 1 <= n, m + 1 <= k
               PROVE  f[m + 1] = g[m + 1]
    OBVIOUS
  <2>1. m + 1 \in 0 .. n /\ m + 1 \in 0 .. k /\ (m + 1) - 1 = m
    OBVIOUS
  <2>2. f[m + 1] = Judged(m + 1, f[m]) /\ g[m + 1] = Judged(m + 1, g[m])
    BY <2>1 DEF Meanings
  <2> QED
    BY <2>2
<1>3. \A m \in Nat : m \in S
  <2> HIDE DEF S
  <2> QED
    BY <1>1, <1>2, AllNaturals
<1> QED
  BY <1>3

\* The recursive function Meaning is what its equation says.
LEMMA MeaningJudges == \A n \in Nat : Meaning[n] = Judged(n, Meaning[n - 1])
<1> DEFINE Least(n) == CHOOSE f : Meanings(f, n)
           h == [n \in Nat |-> Least(n)[n]]
           Is(f) == f = [n \in Nat |-> Judged(n, f[n - 1])]
<1>1. \A n \in Nat : Meanings(Least(n), n)
  BY MeaningsExist
<1> HIDE DEF Least
<1>2. \A n \in Nat : h[n] = Judged(n, h[n - 1])
  <2> SUFFICES ASSUME NEW n \in Nat PROVE h[n] = Judged(n, h[n - 1])
    OBVIOUS
  <2>1. Least(n)[n] = Judged(n, Least(n)[n - 1])
    BY <1>1 DEF Meanings
  <2>2. CASE n = 0
    <3>1. h[0] = Judged(0, Least(0)[0 - 1])
      BY <2>1, <2>2
    <3> HIDE DEF h
    <3> QED
      BY <2>2, <3>1, LowestJudged
  <2>3. CASE n # 0
    <3>1. n - 1 \in Nat /\ n - 1 <= n
      BY <2>3
    <3>2. Least(n - 1)[n - 1] = Least(n)[n - 1]
      BY <1>1, <3>1, MeaningsAgree
    <3> QED
      BY <2>1, <3>1, <3>2
  <2> QED
    BY <2>2, <2>3
<1>3. Is(h)
  BY <1>2
<1>4. Meaning = CHOOSE f : Is(f)
  BY DEF Meaning, Judged, Sensible
<1> HIDE DEF Is
<1>5. Is(Meaning)
  BY <1>3, <1>4
<1> DEFINE F == Meaning
<1>6. F = [n \in Nat |-> Judged(n, F[n - 1])]
  BY <1>5 DEF Is
<1> HIDE DEF F
<1>7. \A n \in Nat : F[n] = Judged(n, F[n - 1])
  BY <1>6
<1> QED
  BY <1>7 DEF F

\* Values and data stay, and with them what a condition means.
LEMMA MeaningStays ==
  ASSUME context' = context
  PROVE  Meaning' = Meaning
BY DEF Meaning, Simple, SubjectValue, Apply, OfAbsent, OfValue, IsEmpty

-----------------------------------------------------------------------------
\* Sequences, whatever they are of.

IsSeq(s) == \E S : s \in Seq(S)

LEMMA Sequence ==
  ASSUME NEW s, IsSeq(s)
  PROVE  Len(s) \in Nat /\ DOMAIN s = 1 .. Len(s) /\ (s = <<>> <=> Len(s) = 0)
BY DEF IsSeq

LEMMA Pushed ==
  ASSUME NEW s, IsSeq(s), NEW x
  PROVE  /\ IsSeq(Append(s, x))
         /\ Len(Append(s, x)) = Len(s) + 1
         /\ \A k \in 1 .. Len(s) : Append(s, x)[k] = s[k]
         /\ Append(s, x)[Len(s) + 1] = x
         /\ ToSet(Append(s, x)) = ToSet(s) \cup {x}
<1>1. PICK S : s \in Seq(S)
  BY DEF IsSeq
<1>2. s \in Seq(S \cup {x}) /\ x \in S \cup {x}
  BY <1>1
<1>3. Append(s, x) \in Seq(S \cup {x})
  BY <1>2
<1>4. /\ Len(Append(s, x)) = Len(s) + 1
      /\ \A k \in 1 .. Len(s) : Append(s, x)[k] = s[k]
      /\ Append(s, x)[Len(s) + 1] = x
  BY <1>2
<1>5. Len(s) \in Nat /\ DOMAIN s = 1 .. Len(s) /\ DOMAIN Append(s, x) = 1 .. Len(s) + 1
  BY <1>2, <1>3, <1>4
<1>6. \A k : k \in DOMAIN Append(s, x) <=> k \in DOMAIN s \/ k = Len(s) + 1
  BY <1>5
<1>7. ToSet(Append(s, x)) = ToSet(s) \cup {x}
  BY <1>4, <1>5, <1>6 DEF ToSet
<1> QED
  BY <1>3, <1>4, <1>7 DEF IsSeq

LEMMA Popped ==
  ASSUME NEW s, IsSeq(s), s # <<>>
  PROVE  /\ IsSeq(Front(s))
         /\ Len(Front(s)) = Len(s) - 1
         /\ Len(s) \in Nat \ {0}
         /\ \A k \in 1 .. Len(s) - 1 : Front(s)[k] = s[k]
<1>1. PICK S : s \in Seq(S)
  BY DEF IsSeq
<1>2. Front(s) = [k \in 1 .. Len(s) - 1 |-> s[k]]
  BY DEF Front
<1>3. /\ [k \in 1 .. Len(s) - 1 |-> s[k]] \in Seq(S)
      /\ Len([k \in 1 .. Len(s) - 1 |-> s[k]]) = Len(s) - 1
      /\ Len(s) \in Nat \ {0}
  BY <1>1
<1> QED
  BY <1>2, <1>3 DEF IsSeq

\* The last element in place of another.
LEMMA Replaced ==
  ASSUME NEW s, IsSeq(s), s # <<>>, NEW x
  PROVE  /\ IsSeq(Append(Front(s), x))
         /\ Len(Append(Front(s), x)) = Len(s)
         /\ Len(s) \in Nat \ {0}
         /\ \A k \in 1 .. Len(s) - 1 : Append(Front(s), x)[k] = s[k]
         /\ Append(Front(s), x)[Len(s)] = x
<1>1. /\ IsSeq(Front(s))
      /\ Len(Front(s)) = Len(s) - 1
      /\ Len(s) \in Nat \ {0}
      /\ \A k \in 1 .. Len(s) - 1 : Front(s)[k] = s[k]
  BY Popped
<1> DEFINE f == Front(s)
<1> HIDE DEF f
<1>2. /\ IsSeq(Append(f, x))
      /\ Len(Append(f, x)) = Len(f) + 1
      /\ \A k \in 1 .. Len(f) : Append(f, x)[k] = f[k]
      /\ Append(f, x)[Len(f) + 1] = x
  BY <1>1, Pushed DEF f
<1>3. Len(f) = Len(s) - 1 /\ (Len(s) - 1) + 1 = Len(s)
  BY <1>1 DEF f
<1> QED
  BY <1>1, <1>2, <1>3 DEF f

-----------------------------------------------------------------------------
\* Trees of conditions.

Limit == MAX_CONDITION_PARSE_DEPTH

\* The parts that a condition keeps which the parser met at a depth.
Kept(g, depth) == IF depth < Limit /\ Form[g] # "simple" THEN Sound(g) ELSE {}

\* A node as the parser makes it at a depth.
Built(cond, depth) ==
    /\ depth <= Limit
    /\ cond.of \in Sensible
    /\ IsSeq(cond.subs)
    /\ {c.of : c \in ToSet(cond.subs)} = Kept(cond.of, depth)

\* A parsed condition that was begun at a depth.
Tree(cond, depth) == \A n \in Nat : \A c \in Nested(cond)[n] : Built(c, depth + n)

LEMMA TreeRoot ==
  ASSUME NEW cond, NEW depth \in Nat, Tree(cond, depth)
  PROVE  Built(cond, depth)
<1>1. cond \in Nested(cond)[0] /\ depth + 0 = depth
  BY NestedLevels
<1> QED
  BY <1>1 DEF Tree

\* The levels of a part are among those of the whole, one further down.
LEMMA PartBelow ==
  ASSUME NEW cond, NEW part \in ToSet(cond.subs)
  PROVE  \A n \in Nat : Nested(part)[n] \subseteq Nested(cond)[n + 1]
<1> DEFINE S == {n \in Nat : Nested(part)[n] \subseteq Nested(cond)[n + 1]}
<1>1. 0 \in S
  <2>1. Nested(part)[0] = {part} /\ Nested(cond)[0] = {cond}
    BY NestedLevels
  <2>2. Nested(cond)[0 + 1] = PartsOf(Nested(cond)[0])
    BY NestedLevels
  <2>3. part \in PartsOf({cond})
    BY DEF PartsOf
  <2> QED
    BY <2>1, <2>2, <2>3
<1>2. \A n \in Nat : n \in S => n + 1 \in S
  <2> SUFFICES ASSUME NEW n \in Nat, n \in S
               PROVE  Nested(part)[n + 1] \subseteq Nested(cond)[(n + 1) + 1]
    OBVIOUS
  <2>1. Nested(part)[n + 1] = PartsOf(Nested(part)[n])
    BY NestedLevels
  <2>2. Nested(cond)[(n + 1) + 1] = PartsOf(Nested(cond)[n + 1])
    BY NestedLevels
  <2>3. \A A, B : A \subseteq B => PartsOf(A) \subseteq PartsOf(B)
    BY DEF PartsOf
  <2> QED
    BY <2>1, <2>2, <2>3
<1>3. \A n \in Nat : n \in S
  <2> HIDE DEF S
  <2> QED
    BY <1>1, <1>2, AllNaturals
<1> QED
  BY <1>3

\* And nothing else is there.
LEMMA BelowPart ==
  ASSUME NEW cond
  PROVE  \A n \in Nat : \A c \in Nested(cond)[n + 1] :
            \E part \in ToSet(cond.subs) : c \in Nested(part)[n]
<1> DEFINE S == {n \in Nat : \A c \in Nested(cond)[n + 1] :
                    \E part \in ToSet(cond.subs) : c \in Nested(part)[n]}
<1>1. 0 \in S
  <2>1. Nested(cond)[0] = {cond} /\ Nested(cond)[0 + 1] = PartsOf(Nested(cond)[0])
    BY NestedLevels
  <2>2. PartsOf({cond}) = ToSet(cond.subs)
    BY DEF PartsOf
  <2>3. \A part : Nested(part)[0] = {part}
    BY NestedLevels
  <2> QED
    BY <2>1, <2>2, <2>3
<1>2. \A n \in Nat : n \in S => n + 1 \in S
  <2> SUFFICES ASSUME NEW n \in Nat, n \in S, NEW c \in Nested(cond)[(n + 1) + 1]
               PROVE  \E part \in ToSet(cond.subs) : c \in Nested(part)[n + 1]
    OBVIOUS
  <2>1. Nested(cond)[(n + 1) + 1] = PartsOf(Nested(cond)[n + 1])
    BY NestedLevels
  <2>2. PICK d \in Nested(cond)[n + 1] : c \in ToSet(d.subs)
    BY <2>1 DEF PartsOf
  <2>3. PICK part \in ToSet(cond.subs) : d \in Nested(part)[n]
    BY <2>2
  <2>4. Nested(part)[n + 1] = PartsOf(Nested(part)[n])
    BY NestedLevels
  <2>5. c \in PartsOf(Nested(part)[n])
    BY <2>2, <2>3 DEF PartsOf
  <2> QED
    BY <2>4, <2>5
<1>3. \A n \in Nat : n \in S
  <2> HIDE DEF S
  <2> QED
    BY <1>1, <1>2, AllNaturals
<1> QED
  BY <1>3

LEMMA TreePart ==
  ASSUME NEW cond, NEW depth \in Nat, Tree(cond, depth), NEW part \in ToSet(cond.subs)
  PROVE  Tree(part, depth + 1)
<1> SUFFICES ASSUME NEW n \in Nat, NEW c \in Nested(part)[n]
             PROVE  Built(c, (depth + 1) + n)
  BY DEF Tree
<1>1. c \in Nested(cond)[n + 1]
  BY PartBelow
<1>2. (depth + 1) + n = depth + (n + 1) /\ n + 1 \in Nat
  OBVIOUS
<1> QED
  BY <1>1, <1>2 DEF Tree

LEMMA TreeMade ==
  ASSUME NEW cond, NEW depth \in Nat, Built(cond, depth),
         \A part \in ToSet(cond.subs) : Tree(part, depth + 1)
  PROVE  Tree(cond, depth)
<1> SUFFICES ASSUME NEW n \in Nat, NEW c \in Nested(cond)[n]
             PROVE  Built(c, depth + n)
  BY DEF Tree
<1>1. CASE n = 0
  <2>1. c = cond /\ depth + n = depth
    BY <1>1, NestedLevels
  <2> QED
    BY <2>1
<1>2. CASE n # 0
  <2>1. n - 1 \in Nat /\ (n - 1) + 1 = n
    BY <1>2
  <2>2. PICK part \in ToSet(cond.subs) : c \in Nested(part)[n - 1]
    BY <2>1, BelowPart
  <2>3. Built(c, (depth + 1) + (n - 1))
    BY <2>1, <2>2 DEF Tree
  <2>4. (depth + 1) + (n - 1) = depth + n
    OBVIOUS
  <2> QED
    BY <2>3, <2>4
<1> QED
  BY <1>1, <1>2

LEMMA TreeFits ==
  ASSUME NEW cond, Tree(cond, 0)
  PROVE  Nested(cond)[Limit + 1] = {}
<1>1. Limit + 1 \in Nat /\ ~(0 + (Limit + 1) <= Limit)
  BY ConditionAssumption DEF Limit
<1> QED
  BY <1>1 DEF Tree, Built

-----------------------------------------------------------------------------
\* The inductive invariant: the parser.

PartAt(frame) == Parts[frame.of][frame.next]

\* The k-th compound condition being parsed: it has kept what it should of the
\* parts before the next.
Opened(frame, k) ==
    /\ frame = [of |-> frame.of, next |-> frame.next, subs |-> frame.subs]
    /\ k - 1 <= Limit
    /\ frame.of \in Given /\ Form[frame.of] \in {"and", "or"}
    /\ frame.next \in Nat \ {0}
    /\ IsSeq(frame.subs)
    /\ \A c \in ToSet(frame.subs) : Tree(c, k)
    /\ {c.of : c \in ToSet(frame.subs)} =
           {c \in Kept(frame.of, k - 1) : \E j \in 1 .. frame.next - 1 : Parts[frame.of][j] = c}

\* A part of it is being parsed.
Parting(frame) == frame.next \in DOMAIN Parts[frame.of]

\* What is parsed above a stack of compound conditions that stands in g.
ParsedAbove(g, s) == IF s = <<>> THEN g ELSE PartAt(s[Len(s)])

\* What the parser returns of g at a depth.
Outcome(cond, g, depth) ==
    IF depth <= Limit /\ g \in Sensible THEN Tree(cond, depth) /\ cond.of = g
                                        ELSE cond = NoCondition

OpenedChain(s, g) ==
    /\ IsSeq(s)
    /\ g \in Given
    /\ \A k \in 1 .. Len(s) : Opened(s[k], k)
    /\ \A k \in 1 .. Len(s) - 1 : Parting(s[k]) /\ s[k + 1].of = PartAt(s[k])
    /\ s # <<>> => s[1].of = g

Parsing ==
    pc \in {"parse", "parts", "parsed"} =>
        /\ OpenedChain(stack, given)
        /\ parsed = NoCondition
        /\ pc = "parts" => stack # <<>>
        /\ pc # "parts" => /\ stack # <<>> => Parting(Top)
                           /\ ParsedAbove(given, stack) \in Given
        /\ pc = "parse" => call = ParsedAbove(given, stack)
        /\ pc = "parsed" => Outcome(ret, ParsedAbove(given, stack), Len(stack))

-----------------------------------------------------------------------------
\* The inductive invariant: the evaluation.

SubAt(frame) == frame.cond.subs[frame.next - 1]

\* What a parsed condition means at a depth, by the meaning of the given ones.
MeaningAt(means, cond, depth) == means[Limit - depth][cond.of]

\* The k-th compound condition being evaluated.
Walked(frame, k) ==
    /\ frame = [cond |-> frame.cond, next |-> frame.next]
    /\ Tree(frame.cond, k - 1)
    /\ Kind(frame.cond) \in {"and", "or"}
    /\ k - 1 <= MAX_CONDITION_EVAL_DEPTH
    /\ frame.next \in 1 .. Len(frame.cond.subs) + 1

\* None of its first n parts decides it.
Undecided(means, frame, k, n) ==
    \A i \in 1 .. n : MeaningAt(means, frame.cond.subs[i], k) = (Kind(frame.cond) = "and")

\* A part of it is being evaluated.
Within(means, frame, k) ==
    frame.next \in Nat \ {0, 1} /\ Undecided(means, frame, k, frame.next - 2)

EvaluatedAbove(p, s) == IF s = <<>> THEN p ELSE SubAt(s[Len(s)])

WalkedChain(means, s, p, g) ==
    /\ IsSeq(s)
    /\ p = NoCondition => s = <<>>
    /\ p # NoCondition => Tree(p, 0) /\ p.of = g
    /\ \A k \in 1 .. Len(s) : Walked(s[k], k)
    /\ \A k \in 1 .. Len(s) - 1 : Within(means, s[k], k) /\ s[k + 1].cond = SubAt(s[k])
    /\ s # <<>> => s[1].cond = p

Evaluating ==
    pc \in {"evaluate", "subs", "evaluated"} =>
        /\ WalkedChain(Meaning, stack, parsed, given)
        /\ pc # "subs" /\ stack # <<>> => Within(Meaning, Top, Len(stack))
        /\ pc = "subs" => stack # <<>> /\ Undecided(Meaning, Top, Len(stack), Top.next - 1)
        /\ pc = "evaluate" => call = EvaluatedAbove(parsed, stack)
        /\ pc = "evaluated" /\ parsed # NoCondition =>
              holds = MeaningAt(Meaning, EvaluatedAbove(parsed, stack), Len(stack))

Evaluated ==
    pc = "done" /\ parsed # NoCondition =>
        Tree(parsed, 0) /\ parsed.of = given /\ holds = MeaningAt(Meaning, parsed, 0)

ConditionInv ==
    /\ given \in Given \cup {NoCondition}
    /\ context \in Contexts
    /\ pc \in {"parse", "parts", "parsed", "evaluate", "subs", "evaluated", "done"}
    /\ Parsing
    /\ Evaluating
    /\ Evaluated

-----------------------------------------------------------------------------
\* The parser keeps it.

LEMMA PushOpened ==
  ASSUME NEW s, NEW g, NEW frame, OpenedChain(s, g), Opened(frame, Len(s) + 1),
         s # <<>> => Parting(s[Len(s)]), frame.of = ParsedAbove(g, s)
  PROVE  OpenedChain(Append(s, frame), g)
<1> DEFINE t == Append(s, frame)
<1>1. /\ IsSeq(t) /\ Len(t) = Len(s) + 1
      /\ \A k \in 1 .. Len(s) : t[k] = s[k]
      /\ t[Len(s) + 1] = frame
  BY Pushed DEF OpenedChain
<1>2. Len(s) \in Nat /\ (s = <<>> <=> Len(s) = 0)
  BY Sequence DEF OpenedChain
<1> HIDE DEF t
<1>3. \A k \in 1 .. Len(t) : Opened(t[k], k)
  <2> SUFFICES ASSUME NEW k \in 1 .. Len(t) PROVE Opened(t[k], k)
    OBVIOUS
  <2>1. k \in 1 .. Len(s) \/ k = Len(s) + 1
    BY <1>1, <1>2
  <2> QED
    BY <2>1, <1>1 DEF OpenedChain
<1>4. \A k \in 1 .. Len(t) - 1 : Parting(t[k]) /\ t[k + 1].of = PartAt(t[k])
  <2> SUFFICES ASSUME NEW k \in 1 .. Len(s)
               PROVE  Parting(t[k]) /\ t[k + 1].of = PartAt(t[k])
    BY <1>1, <1>2
  <2>1. CASE k = Len(s)
    <3>1. s # <<>>
      BY <1>2, <2>1
    <3> QED
      BY <3>1, <2>1, <1>1 DEF ParsedAbove
  <2>2. CASE k # Len(s)
    <3>1. k \in 1 .. Len(s) - 1 /\ k + 1 \in 1 .. Len(s)
      BY <1>2, <2>2
    <3> QED
      BY <3>1, <1>1 DEF OpenedChain
  <2> QED
    BY <2>1, <2>2
<1>5. t[1].of = g
  <2>1. CASE s = <<>>
    BY <2>1, <1>1, <1>2 DEF ParsedAbove
  <2>2. CASE s # <<>>
    <3>1. 1 \in 1 .. Len(s)
      BY <1>2, <2>2
    <3> QED
      BY <3>1, <2>2, <1>1 DEF OpenedChain
  <2> QED
    BY <2>1, <2>2
<1>6. OpenedChain(t, g)
  BY <1>1, <1>3, <1>4, <1>5 DEF OpenedChain
<1> QED
  BY <1>6 DEF t

LEMMA ReplaceOpened ==
  ASSUME NEW s, NEW g, NEW frame, OpenedChain(s, g), s # <<>>,
         Opened(frame, Len(s)), frame.of = s[Len(s)].of
  PROVE  OpenedChain(Append(Front(s), frame), g)
<1> DEFINE t == Append(Front(s), frame)
<1>1. /\ IsSeq(t) /\ Len(t) = Len(s) /\ Len(s) \in Nat \ {0}
      /\ \A k \in 1 .. Len(s) - 1 : t[k] = s[k]
      /\ t[Len(s)] = frame
  BY Replaced DEF OpenedChain
<1> HIDE DEF t
<1>2. \A k \in 1 .. Len(s) : t[k].of = s[k].of
  <2> SUFFICES ASSUME NEW k \in 1 .. Len(s) PROVE t[k].of = s[k].of
    OBVIOUS
  <2>1. k \in 1 .. Len(s) - 1 \/ k = Len(s)
    BY <1>1
  <2> QED
    BY <2>1, <1>1
<1>3. \A k \in 1 .. Len(t) : Opened(t[k], k)
  <2> SUFFICES ASSUME NEW k \in 1 .. Len(s) PROVE Opened(t[k], k)
    BY <1>1
  <2>1. k \in 1 .. Len(s) - 1 \/ k = Len(s)
    BY <1>1
  <2> QED
    BY <2>1, <1>1 DEF OpenedChain
<1>4. \A k \in 1 .. Len(t) - 1 : Parting(t[k]) /\ t[k + 1].of = PartAt(t[k])
  <2> SUFFICES ASSUME NEW k \in 1 .. Len(s) - 1
               PROVE  Parting(t[k]) /\ t[k + 1].of = PartAt(t[k])
    BY <1>1
  <2>1. k + 1 \in 1 .. Len(s)
    BY <1>1
  <2> QED
    BY <2>1, <1>1, <1>2 DEF OpenedChain
<1>5. t[1].of = g
  <2>1. 1 \in 1 .. Len(s)
    BY <1>1
  <2> QED
    BY <2>1, <1>2 DEF OpenedChain
<1>6. OpenedChain(t, g)
  BY <1>1, <1>3, <1>4, <1>5 DEF OpenedChain
<1> QED
  BY <1>6 DEF t

LEMMA PopOpened ==
  ASSUME NEW s, NEW g, OpenedChain(s, g), s # <<>>
  PROVE  /\ OpenedChain(Front(s), g)
         /\ Front(s) # <<>> => Parting(Front(s)[Len(Front(s))])
         /\ ParsedAbove(g, Front(s)) = s[Len(s)].of
         /\ Len(Front(s)) = Len(s) - 1
<1> DEFINE t == Front(s)
<1>1. /\ IsSeq(t) /\ Len(t) = Len(s) - 1 /\ Len(s) \in Nat \ {0}
      /\ \A k \in 1 .. Len(s) - 1 : t[k] = s[k]
  BY Popped DEF OpenedChain
<1> HIDE DEF t
<1>2. t = <<>> <=> Len(t) = 0
  BY <1>1, Sequence
<1>3. \A k \in 1 .. Len(t) : Opened(t[k], k)
  <2> SUFFICES ASSUME NEW k \in 1 .. Len(s) - 1 PROVE Opened(t[k], k)
    BY <1>1
  <2> QED
    BY <1>1 DEF OpenedChain
<1>4. \A k \in 1 .. Len(t) - 1 : Parting(t[k]) /\ t[k + 1].of = PartAt(t[k])
  <2> SUFFICES ASSUME NEW k \in 1 .. Len(t) - 1
               PROVE  Parting(t[k]) /\ t[k + 1].of = PartAt(t[k])
    OBVIOUS
  <2>1. k \in 1 .. Len(s) - 1 /\ k + 1 \in 1 .. Len(s) - 1
    BY <1>1
  <2> QED
    BY <2>1, <1>1 DEF OpenedChain
<1>5. t # <<>> => t[1].of = g
  <2> SUFFICES ASSUME t # <<>> PROVE t[1].of = g
    OBVIOUS
  <2>1. 1 \in 1 .. Len(s) - 1
    BY <1>1, <1>2
  <2> QED
    BY <2>1, <1>1 DEF OpenedChain
<1>6. t # <<>> => Parting(t[Len(t)]) /\ PartAt(t[Len(t)]) = s[Len(s)].of
  <2> SUFFICES ASSUME t # <<>>
               PROVE  Parting(t[Len(t)]) /\ PartAt(t[Len(t)]) = s[Len(s)].of
    OBVIOUS
  <2>1. Len(s) - 1 \in 1 .. Len(s) - 1 /\ (Len(s) - 1) + 1 = Len(s)
    BY <1>1, <1>2
  <2>2. Parting(s[Len(s) - 1]) /\ s[Len(s)].of = PartAt(s[Len(s) - 1])
    BY <2>1 DEF OpenedChain
  <2> QED
    BY <2>1, <2>2, <1>1
<1>7. t = <<>> => s[Len(s)].of = g
  <2> SUFFICES ASSUME t = <<>> PROVE s[Len(s)].of = g
    OBVIOUS
  <2>1. Len(s) = 1
    BY <1>1, <1>2
  <2> QED
    BY <2>1 DEF OpenedChain
<1>8. OpenedChain(t, g)
  BY <1>1, <1>3, <1>4, <1>5 DEF OpenedChain
<1> QED
  BY <1>1, <1>6, <1>7, <1>8 DEF ParsedAbove, t

\* The part at which a condition stands is one of its parts.
LEMMA PartAmong ==
  ASSUME NEW g \in Given, NEW j \in DOMAIN Parts[g]
  PROVE  Parts[g][j] \in ToSet(Parts[g]) /\ Parts[g][j] \in Given \cup {NoPart}
BY ConditionAssumption DEF ToSet

LEMMA NoConditionApart ==
  ASSUME NEW cond, cond.of \in Given
  PROVE  cond # NoCondition
BY ConditionAssumption DEF NoCondition, Cond

\* A part that is passed over counts for nothing.
LEMMA SkipOpened ==
  ASSUME NEW frame, NEW k \in Nat, Opened(frame, k), Parting(frame),
         PartAt(frame) \notin Kept(frame.of, k - 1)
  PROVE  Opened([frame EXCEPT !.next = @ + 1], k)
<1> DEFINE f == [frame EXCEPT !.next = @ + 1]
<1>1. f = [of |-> frame.of, next |-> frame.next + 1, subs |-> frame.subs]
  BY DEF Opened
<1>2. /\ f = [of |-> f.of, next |-> f.next, subs |-> f.subs]
      /\ f.of = frame.of /\ f.next = frame.next + 1 /\ f.subs = frame.subs
  BY <1>1
<1> HIDE DEF f
<1>3. f.next - 1 = frame.next /\ f.next \in Nat \ {0} /\ frame.next \in Nat \ {0}
  BY <1>2 DEF Opened
<1>4. \A j : j \in 1 .. frame.next <=> j \in 1 .. frame.next - 1 \/ j = frame.next
  BY <1>3
<1>5. {c \in Kept(f.of, k - 1) : \E j \in 1 .. f.next - 1 : Parts[f.of][j] = c}
         = {c \in Kept(frame.of, k - 1) : \E j \in 1 .. frame.next - 1 : Parts[frame.of][j] = c}
  BY <1>2, <1>3, <1>4 DEF PartAt
<1>6. Opened(f, k)
  BY <1>2, <1>3, <1>5 DEF Opened
<1> QED
  BY <1>6 DEF f

\* A part that parsed is kept.
LEMMA KeepOpened ==
  ASSUME NEW frame, NEW k \in Nat, NEW cond, Opened(frame, k), Parting(frame),
         PartAt(frame) \in Kept(frame.of, k - 1), Tree(cond, k), cond.of = PartAt(frame)
  PROVE  Opened([frame EXCEPT !.next = @ + 1, !.subs = Append(@, cond)], k)
<1> DEFINE f == [frame EXCEPT !.next = @ + 1, !.subs = Append(@, cond)]
<1>1. f = [of |-> frame.of, next |-> frame.next + 1, subs |-> Append(frame.subs, cond)]
  <2>1. PICK g, n, subs : frame = [of |-> g, next |-> n, subs |-> subs]
    BY DEF Opened
  <2> DEFINE x == n + 1
             y == Append(subs, cond)
             h == [frame EXCEPT !.next = x]
  <2> HIDE DEF x, y
  <2>2. h = [of |-> g, next |-> x, subs |-> subs]
    BY <2>1
  <2>3. frame.next = n /\ frame.subs = subs
    BY <2>1
  <2>4. f = [frame EXCEPT !.next = x, !.subs = y]
    BY <2>3 DEF x, y
  <2>5. [frame EXCEPT !.next = x, !.subs = y] = [h EXCEPT !.subs = y]
    BY <2>1
  <2> HIDE DEF f, h
  <2>6. [h EXCEPT !.subs = y] = [of |-> g, next |-> x, subs |-> y]
    BY <2>2
  <2>7. f = [of |-> g, next |-> n + 1, subs |-> Append(subs, cond)]
    BY <2>4, <2>5, <2>6 DEF x, y
  <2> QED
    BY <2>1, <2>7
<1>2. /\ f = [of |-> f.of, next |-> f.next, subs |-> f.subs]
      /\ f.of = frame.of /\ f.next = frame.next + 1 /\ f.subs = Append(frame.subs, cond)
  BY <1>1
<1> HIDE DEF f
<1>3. f.next - 1 = frame.next /\ f.next \in Nat \ {0} /\ frame.next \in Nat \ {0}
  <2>1. frame.next \in Nat \ {0} /\ f.next = frame.next + 1
    BY <1>2 DEF Opened
  <2> QED
    BY <2>1
<1>4. \A j : j \in 1 .. frame.next <=> j \in 1 .. frame.next - 1 \/ j = frame.next
  BY <1>3
<1>5. IsSeq(f.subs) /\ ToSet(f.subs) = ToSet(frame.subs) \cup {cond}
  BY <1>2, Pushed DEF Opened
<1>6. {c \in Kept(f.of, k - 1) : \E j \in 1 .. f.next - 1 : Parts[f.of][j] = c}
         = {c \in Kept(frame.of, k - 1) : \E j \in 1 .. frame.next - 1 : Parts[frame.of][j] = c}
               \cup {PartAt(frame)}
  BY <1>2, <1>3, <1>4 DEF PartAt
<1>7. {c.of : c \in ToSet(f.subs)} = {c.of : c \in ToSet(frame.subs)} \cup {PartAt(frame)}
  BY <1>5
<1>8. \A c \in ToSet(f.subs) : Tree(c, k)
  BY <1>5 DEF Opened
<1>9. {c.of : c \in ToSet(f.subs)} =
         {c \in Kept(f.of, k - 1) : \E j \in 1 .. f.next - 1 : Parts[f.of][j] = c}
  BY <1>6, <1>7 DEF Opened
<1>10. Opened(f, k)
  BY <1>2, <1>3, <1>5, <1>8, <1>9 DEF Opened
<1> QED
  BY <1>10 DEF f

\* A compound condition that is closed has kept all it should.
LEMMA CloseOpened ==
  ASSUME NEW frame, NEW k \in Nat \ {0}, Opened(frame, k), ~Parting(frame)
  PROVE  Outcome(Cond(frame.of, frame.subs), frame.of, k - 1)
<1> DEFINE c == Cond(frame.of, frame.subs)
<1>1. c.of = frame.of /\ c.subs = frame.subs
  BY DEF Cond
<1> HIDE DEF c
<1>2. frame.of \in Given /\ frame.of \in Sensible /\ frame.next \in Nat \ {0}
  BY DEF Opened, Sensible
<1>3. Parts[frame.of] \in Seq(Given \cup {NoPart})
  BY <1>2, ConditionAssumption
<1>4. 1 .. Len(Parts[frame.of]) \subseteq 1 .. frame.next - 1
  BY <1>2, <1>3 DEF Parting
<1>5. \A d \in Kept(frame.of, k - 1) : \E j \in 1 .. frame.next - 1 : Parts[frame.of][j] = d
  BY <1>3, <1>4 DEF Kept, Sound, ToSet
<1>6. {d.of : d \in ToSet(c.subs)} = Kept(c.of, k - 1)
  BY <1>1, <1>5 DEF Opened
<1>7. Built(c, k - 1)
  BY <1>1, <1>2, <1>6 DEF Built, Opened
<1>8. \A part \in ToSet(c.subs) : Tree(part, (k - 1) + 1)
  BY <1>1 DEF Opened
<1>9. Tree(c, k - 1)
  BY <1>7, <1>8, TreeMade
<1>10. k - 1 <= Limit
  BY DEF Opened
<1> QED
  BY <1>1, <1>2, <1>9, <1>10 DEF Outcome, c

-----------------------------------------------------------------------------

\* In the parser, what is said of the evaluation says nothing.
LEMMA StillParsing ==
  ASSUME ConditionInv, UNCHANGED task, pc' \in {"parse", "parts", "parsed"}, Parsing'
  PROVE  ConditionInv'
BY DEF ConditionInv, Evaluating, Evaluated, task

LEMMA RefuseConditionKeeps ==
  ASSUME ConditionInv, RefuseCondition
  PROVE  ConditionInv'
<1>1. /\ OpenedChain(stack, given) /\ parsed = NoCondition
      /\ stack # <<>> => Parting(Top)
      /\ ParsedAbove(given, stack) \in Given
      /\ call = ParsedAbove(given, stack)
  BY DEF ConditionInv, Parsing, RefuseCondition
<1>2. Len(stack) \in Nat /\ Limit \in Nat
  BY <1>1, Sequence, ConditionAssumption DEF OpenedChain, Limit
<1>3. ~(Len(stack) <= Limit /\ call \in Sensible)
  BY <1>2 DEF RefuseCondition, TooDeep, Depth, Limit, Sensible
<1>4. Parsing'
  BY <1>1, <1>3 DEF RefuseCondition, Returns, Parsing, Outcome, task, Top
<1> QED
  BY <1>4, StillParsing DEF RefuseCondition, Returns

LEMMA ParseSimpleKeeps ==
  ASSUME ConditionInv, ParseSimple
  PROVE  ConditionInv'
<1>1. /\ OpenedChain(stack, given) /\ parsed = NoCondition
      /\ stack # <<>> => Parting(Top)
      /\ ParsedAbove(given, stack) \in Given
      /\ call = ParsedAbove(given, stack)
  BY DEF ConditionInv, Parsing, ParseSimple, Accepted
<1>2. Len(stack) \in Nat /\ Limit \in Nat
  BY <1>1, Sequence, ConditionAssumption DEF OpenedChain, Limit
<1>3. Len(stack) <= Limit /\ call \in Sensible /\ Form[call] = "simple"
  BY <1>1, <1>2 DEF ParseSimple, Accepted, TooDeep, Depth, Limit, Sensible
<1> DEFINE c == Cond(call, <<>>)
<1>4. c.of = call /\ c.subs = <<>>
  BY DEF Cond
<1> HIDE DEF c
<1>5. ToSet(c.subs) = {} /\ IsSeq(c.subs)
  BY <1>4 DEF ToSet, IsSeq
<1>6. Built(c, Len(stack))
  BY <1>3, <1>4, <1>5 DEF Built, Kept
<1>7. Tree(c, Len(stack))
  BY <1>2, <1>5, <1>6, TreeMade
<1>8. Outcome(c, call, Len(stack))
  BY <1>3, <1>4, <1>7 DEF Outcome
<1>9. ret' = c /\ pc' = "parsed" /\ UNCHANGED <<given, context, stack, parsed>>
  BY DEF ParseSimple, Returns, task, c
<1>10. Parsing'
  BY <1>1, <1>8, <1>9 DEF Parsing, Top
<1> QED
  BY <1>9, <1>10, StillParsing DEF task

LEMMA OpenCompoundKeeps ==
  ASSUME ConditionInv, OpenCompound
  PROVE  ConditionInv'
<1>1. /\ OpenedChain(stack, given) /\ parsed = NoCondition
      /\ stack # <<>> => Parting(Top)
      /\ ParsedAbove(given, stack) \in Given
      /\ call = ParsedAbove(given, stack)
  BY DEF ConditionInv, Parsing, OpenCompound, Accepted
<1>2. Len(stack) \in Nat /\ Limit \in Nat
  BY <1>1, Sequence, ConditionAssumption DEF OpenedChain, Limit
<1>3. Len(stack) <= Limit /\ Form[call] \in {"and", "or"}
  BY <1>1, <1>2 DEF OpenCompound, Accepted, TooDeep, Depth, Limit
<1> DEFINE f == [of |-> call, next |-> 1, subs |-> <<>>]
<1>4. /\ f = [of |-> f.of, next |-> f.next, subs |-> f.subs]
      /\ f.of = call /\ f.next = 1 /\ f.subs = <<>>
  OBVIOUS
<1> HIDE DEF f
<1>5. ToSet(f.subs) = {} /\ IsSeq(f.subs) /\ 1 .. f.next - 1 = {}
  BY <1>4 DEF ToSet, IsSeq
<1>6. (Len(stack) + 1) - 1 <= Limit
  BY <1>2, <1>3
<1>7. Opened(f, Len(stack) + 1)
  BY <1>1, <1>3, <1>4, <1>5, <1>6 DEF Opened
<1>8. OpenedChain(Append(stack, f), given)
  BY <1>1, <1>4, <1>7, PushOpened DEF Top
<1>9. /\ stack' = Append(stack, f) /\ pc' = "parts"
      /\ UNCHANGED <<given, context, parsed>>
  BY DEF OpenCompound, task, f
<1>10. IsSeq(Append(stack, f)) /\ Len(Append(stack, f)) = Len(stack) + 1
  BY <1>1, Pushed DEF OpenedChain
<1>11. Append(stack, f) # <<>>
  BY <1>2, <1>10, Sequence
<1>12. Parsing'
  BY <1>1, <1>8, <1>9, <1>11 DEF Parsing
<1> QED
  BY <1>9, <1>12, StillParsing DEF task

LEMMA ParsePartKeeps ==
  ASSUME ConditionInv, ParsePart
  PROVE  ConditionInv'
<1>1. OpenedChain(stack, given) /\ parsed = NoCondition /\ stack # <<>>
  BY DEF ConditionInv, Parsing, ParsePart
<1>2. Len(stack) \in 1 .. Len(stack)
  BY <1>1, Sequence DEF OpenedChain
<1>3. Opened(Top, Len(stack))
  BY <1>1, <1>2 DEF OpenedChain, Top
<1>4. Parting(Top) /\ PartAt(Top) # NoPart
  BY DEF ParsePart, Parting, PartAt
<1>5. PartAt(Top) \in Given
  BY <1>3, <1>4, PartAmong DEF Opened, Parting, PartAt
<1>6. /\ pc' = "parse" /\ call' = PartAt(Top)
      /\ UNCHANGED <<given, context, stack, parsed>>
  BY DEF ParsePart, PartAt, task
<1>7. Parsing'
  BY <1>1, <1>4, <1>5, <1>6 DEF Parsing, ParsedAbove, Top
<1> QED
  BY <1>6, <1>7, StillParsing DEF task

LEMMA SkipPartKeeps ==
  ASSUME ConditionInv, SkipPart
  PROVE  ConditionInv'
<1>1. OpenedChain(stack, given) /\ parsed = NoCondition /\ stack # <<>> /\ pc = "parts"
  BY DEF ConditionInv, Parsing, SkipPart
<1>2. Len(stack) \in 1 .. Len(stack) /\ Len(stack) \in Nat
  BY <1>1, Sequence DEF OpenedChain
<1>3. Opened(Top, Len(stack))
  BY <1>1, <1>2 DEF OpenedChain, Top
<1>4. Parting(Top) /\ PartAt(Top) = NoPart
  BY DEF SkipPart, Parting, PartAt
<1>5. PartAt(Top) \notin Kept(Top.of, Len(stack) - 1)
  BY <1>4 DEF Kept, Sound
<1> DEFINE f == [Top EXCEPT !.next = @ + 1]
<1>6. Opened(f, Len(stack))
  BY <1>2, <1>3, <1>4, <1>5, SkipOpened
<1>7. f.of = Top.of
  BY <1>3 DEF Opened
<1>8. /\ stack' = Append(Front(stack), f)
      /\ UNCHANGED <<given, context, pc, parsed>>
  BY DEF SkipPart, Below, task
<1> HIDE DEF f
<1>9. OpenedChain(Append(Front(stack), f), given)
  BY <1>1, <1>6, <1>7, ReplaceOpened DEF Top
<1>10. IsSeq(Append(Front(stack), f)) /\ Len(Append(Front(stack), f)) = Len(stack)
  BY <1>1, Replaced DEF OpenedChain
<1>11. Append(Front(stack), f) # <<>>
  BY <1>2, <1>10, Sequence
<1>12. Parsing'
  BY <1>1, <1>8, <1>9, <1>11 DEF Parsing
<1> QED
  BY <1>1, <1>8, <1>12, StillParsing DEF task

LEMMA StorePartKeeps ==
  ASSUME ConditionInv, StorePart
  PROVE  ConditionInv'
<1>1. /\ OpenedChain(stack, given) /\ parsed = NoCondition /\ stack # <<>>
      /\ Parting(Top) /\ PartAt(Top) \in Given
      /\ Outcome(ret, PartAt(Top), Len(stack))
  BY DEF ConditionInv, Parsing, StorePart, ParsedAbove, Top
<1>2. Len(stack) \in 1 .. Len(stack) /\ Len(stack) \in Nat /\ Limit \in Nat
  BY <1>1, Sequence, ConditionAssumption DEF OpenedChain, Limit
<1>3. Opened(Top, Len(stack))
  BY <1>1, <1>2 DEF OpenedChain, Top
<1> DEFINE f == [Top EXCEPT !.next = @ + 1,
                            !.subs = IF ret = NoCondition THEN @ ELSE Append(@, ret)]
<1>4. Opened(f, Len(stack)) /\ f.of = Top.of
  <2>1. CASE Len(stack) <= Limit /\ PartAt(Top) \in Sensible
    <3>1. Tree(ret, Len(stack)) /\ ret.of = PartAt(Top)
      BY <1>1, <2>1 DEF Outcome
    <3>2. ret # NoCondition
      BY <1>1, <3>1, NoConditionApart
    <3>3. Len(stack) - 1 < Limit /\ Form[Top.of] # "simple" /\ Top.of \in Given
      BY <1>2, <1>3, <2>1 DEF Opened
    <3>4. PartAt(Top) \in Sound(Top.of)
      BY <1>1, <2>1, <3>3, PartAmong, ConditionAssumption
         DEF Sound, Sensible, Parting, PartAt
    <3>5. PartAt(Top) \in Kept(Top.of, Len(stack) - 1)
      BY <3>3, <3>4 DEF Kept
    <3>6. f = [Top EXCEPT !.next = @ + 1, !.subs = Append(@, ret)]
      BY <3>2
    <3>7. f.of = Top.of
      BY <1>3, <3>6 DEF Opened
    <3> QED
      BY <1>1, <1>2, <1>3, <3>1, <3>5, <3>6, <3>7, KeepOpened
  <2>2. CASE ~(Len(stack) <= Limit /\ PartAt(Top) \in Sensible)
    <3>1. ret = NoCondition
      BY <1>1, <2>2 DEF Outcome
    <3>2. PartAt(Top) \notin Kept(Top.of, Len(stack) - 1)
      BY <1>1, <1>2, <2>2 DEF Kept, Sound, Sensible
    <3>3. f = [Top EXCEPT !.next = @ + 1]
      BY <1>3, <3>1 DEF Opened
    <3>4. f.of = Top.of
      BY <1>3, <3>3 DEF Opened
    <3> QED
      BY <1>1, <1>2, <1>3, <3>2, <3>3, <3>4, SkipOpened
  <2> QED
    BY <2>1, <2>2
<1>5. /\ stack' = Append(Front(stack), f) /\ pc' = "parts"
      /\ UNCHANGED <<given, context, parsed>>
  BY DEF StorePart, Below, task
<1> HIDE DEF f
<1>6. OpenedChain(Append(Front(stack), f), given)
  BY <1>1, <1>4, ReplaceOpened DEF Top
<1>7. IsSeq(Append(Front(stack), f)) /\ Len(Append(Front(stack), f)) = Len(stack)
  BY <1>1, Replaced DEF OpenedChain
<1>8. Append(Front(stack), f) # <<>>
  BY <1>2, <1>7, Sequence
<1>9. Parsing'
  BY <1>1, <1>5, <1>6, <1>8 DEF Parsing
<1> QED
  BY <1>5, <1>9, StillParsing DEF task

LEMMA CloseCompoundKeeps ==
  ASSUME ConditionInv, CloseCompound
  PROVE  ConditionInv'
<1>1. OpenedChain(stack, given) /\ parsed = NoCondition /\ stack # <<>>
  BY DEF ConditionInv, Parsing, CloseCompound
<1>2. Len(stack) \in 1 .. Len(stack) /\ Len(stack) \in Nat \ {0}
  BY <1>1, Sequence DEF OpenedChain
<1>3. Opened(Top, Len(stack)) /\ ~Parting(Top)
  BY <1>1, <1>2 DEF OpenedChain, Top, CloseCompound, Parting
<1>4. Outcome(Cond(Top.of, Top.subs), Top.of, Len(stack) - 1)
  BY <1>2, <1>3, CloseOpened
<1>5. /\ OpenedChain(Front(stack), given)
      /\ Front(stack) # <<>> => Parting(Front(stack)[Len(Front(stack))])
      /\ ParsedAbove(given, Front(stack)) = Top.of
      /\ Len(Front(stack)) = Len(stack) - 1
  BY <1>1, PopOpened DEF Top
<1>6. Top.of \in Given
  BY <1>3 DEF Opened
<1>7. /\ ret' = Cond(Top.of, Top.subs) /\ stack' = Front(stack) /\ pc' = "parsed"
      /\ UNCHANGED <<given, context, parsed>>
  BY DEF CloseCompound, Below, task
<1> DEFINE c == Cond(Top.of, Top.subs)
           g == Top.of
           t == Front(stack)
<1>8. /\ ret' = c /\ stack' = t /\ pc' = "parsed"
      /\ OpenedChain(t, given) /\ (t # <<>> => Parting(t[Len(t)]))
      /\ ParsedAbove(given, t) = g /\ g \in Given /\ Outcome(c, g, Len(t))
  BY <1>4, <1>5, <1>6, <1>7
<1> HIDE DEF c, g, t
<1>9. Parsing'
  BY <1>1, <1>7, <1>8 DEF Parsing, Top
<1> QED
  BY <1>7, <1>9, StillParsing DEF task

-----------------------------------------------------------------------------
\* What the steps of the evaluation mean.

LEMMA SimpleBoolean ==
  ASSUME context \in Contexts, NEW g \in Given
  PROVE  Simple(g) \in BOOLEAN
<1>1. IsEmpty(context.value) \in BOOLEAN
  BY DEF IsEmpty
<1>2. (context.value # Absent /\ Matches[Operand[g], context.value]) \in BOOLEAN
  OBVIOUS
<1>3. \A op, operand : OfAbsent(op, operand) \in BOOLEAN
  BY DEF OfAbsent
<1>4. \A op, v, operand : OfValue(op, v, operand) \in BOOLEAN
  BY DEF OfValue
<1>5. \A op, v, operand : Apply(op, v, operand) \in BOOLEAN
  BY <1>3, <1>4 DEF Apply
<1> QED
  BY <1>1, <1>2, <1>5 DEF Simple

\* The meaning of a condition that the parser made at a depth.
LEMMA MeaningOfTree ==
  ASSUME NEW cond, NEW depth \in Nat, Tree(cond, depth)
  PROVE  /\ Limit - depth \in Nat /\ cond.of \in Given /\ cond.of \in Sensible
         /\ MeaningAt(Meaning, cond, depth) =
              (/\ depth <= MAX_CONDITION_EVAL_DEPTH
               /\ \/ Form[cond.of] = "simple" /\ Simple(cond.of)
                  \/ /\ Form[cond.of] = "and"
                     /\ \A c \in Sound(cond.of) :
                           Limit - depth > 0 => Meaning[(Limit - depth) - 1][c]
                  \/ /\ Form[cond.of] = "or"
                     /\ \E c \in Sound(cond.of) :
                           Limit - depth > 0 /\ Meaning[(Limit - depth) - 1][c])
<1>1. Built(cond, depth)
  BY TreeRoot
<1>2. Limit \in Nat
  BY ConditionAssumption DEF Limit
<1>3. Limit - depth \in Nat /\ cond.of \in Sensible /\ cond.of \in Given
  BY <1>1, <1>2 DEF Built, Sensible
<1>4. Limit - (Limit - depth) = depth
  BY <1>2
<1> DEFINE n == Limit - depth
<1>5. Meaning[n] = Judged(n, Meaning[n - 1])
  BY <1>3, MeaningJudges
<1>6. Limit - n = depth /\ n \in Nat
  BY <1>3, <1>4
<1> HIDE DEF n
<1>7. Meaning[n][cond.of] =
        (/\ Limit - n <= MAX_CONDITION_EVAL_DEPTH
         /\ \/ Form[cond.of] = "simple" /\ Simple(cond.of)
            \/ Form[cond.of] = "and" /\ \A c \in Sound(cond.of) : n > 0 => Meaning[n - 1][c]
            \/ Form[cond.of] = "or"  /\ \E c \in Sound(cond.of) : n > 0 /\ Meaning[n - 1][c])
  BY <1>3, <1>5 DEF Judged, Limit
<1> QED
  BY <1>3, <1>6, <1>7 DEF n, MeaningAt

LEMMA MeaningBoolean ==
  ASSUME NEW cond, NEW depth \in Nat, Tree(cond, depth)
  PROVE  MeaningAt(Meaning, cond, depth) \in BOOLEAN
BY MeaningOfTree

LEMMA TooDeepMeant ==
  ASSUME NEW cond, NEW depth \in Nat, Tree(cond, depth), depth > MAX_CONDITION_EVAL_DEPTH
  PROVE  MeaningAt(Meaning, cond, depth) = FALSE
<1>1. ~(depth <= MAX_CONDITION_EVAL_DEPTH)
  BY ConditionAssumption
<1> QED
  BY <1>1, MeaningOfTree

LEMMA SimpleMeant ==
  ASSUME context \in Contexts, NEW cond, NEW depth \in Nat, Tree(cond, depth),
         depth <= MAX_CONDITION_EVAL_DEPTH, Form[cond.of] = "simple"
  PROVE  MeaningAt(Meaning, cond, depth) = Simple(cond.of)
<1>1. Simple(cond.of) \in BOOLEAN
  BY MeaningOfTree, SimpleBoolean
<1>2. MeaningAt(Meaning, cond, depth) = (Simple(cond.of) /\ TRUE)
  BY MeaningOfTree
<1> QED
  BY <1>1, <1>2

\* The parts of a compound condition that is evaluated.
LEMMA WalkedParts ==
  ASSUME NEW frame, NEW k \in Nat \ {0}, Walked(frame, k)
  PROVE  /\ Len(frame.cond.subs) \in Nat
         /\ \A i \in 1 .. Len(frame.cond.subs) :
              /\ Tree(frame.cond.subs[i], k)
              /\ frame.cond.subs[i].of \in Sound(frame.cond.of)
              /\ k <= Limit
         /\ k <= Limit => \A c \in Sound(frame.cond.of) :
              \E i \in 1 .. Len(frame.cond.subs) : frame.cond.subs[i].of = c
<1> DEFINE c == frame.cond
<1>1. Tree(c, k - 1) /\ Form[c.of] \in {"and", "or"} /\ k - 1 \in Nat /\ (k - 1) + 1 = k
  BY DEF Walked, Kind
<1> HIDE DEF c
<1>2. Built(c, k - 1)
  BY <1>1, TreeRoot
<1>3. Len(c.subs) \in Nat /\ DOMAIN c.subs = 1 .. Len(c.subs)
  BY <1>2, Sequence DEF Built
<1>4. ToSet(c.subs) = {c.subs[i] : i \in 1 .. Len(c.subs)}
  BY <1>3 DEF ToSet
<1>5. {d.of : d \in ToSet(c.subs)} = Kept(c.of, k - 1)
  BY <1>2 DEF Built
<1>6. k - 1 < Limit <=> k <= Limit
  BY ConditionAssumption DEF Limit
<1>7. Kept(c.of, k - 1) = IF k <= Limit THEN Sound(c.of) ELSE {}
  BY <1>1, <1>6 DEF Kept
<1>8. \A i \in 1 .. Len(c.subs) : /\ Tree(c.subs[i], k)
                                  /\ c.subs[i].of \in Sound(c.of) /\ k <= Limit
  <2> SUFFICES ASSUME NEW i \in 1 .. Len(c.subs)
               PROVE  Tree(c.subs[i], k) /\ c.subs[i].of \in Sound(c.of) /\ k <= Limit
    OBVIOUS
  <2>1. c.subs[i] \in ToSet(c.subs)
    BY <1>4
  <2>2. Tree(c.subs[i], (k - 1) + 1)
    BY <1>1, <2>1, TreePart
  <2>3. c.subs[i].of \in Kept(c.of, k - 1)
    BY <1>5, <2>1
  <2> QED
    BY <1>1, <1>7, <2>2, <2>3
<1>9. k <= Limit => \A d \in Sound(c.of) : \E i \in 1 .. Len(c.subs) : c.subs[i].of = d
  <2> SUFFICES ASSUME k <= Limit, NEW d \in Sound(c.of)
               PROVE  \E i \in 1 .. Len(c.subs) : c.subs[i].of = d
    OBVIOUS
  <2>1. d \in {e.of : e \in ToSet(c.subs)}
    BY <1>5, <1>7
  <2> QED
    BY <1>4, <2>1
<1> QED
  BY <1>3, <1>8, <1>9 DEF c

\* A part that decides gives its answer to the whole.
LEMMA DecidedMeant ==
  ASSUME NEW frame, NEW k \in Nat \ {0}, Walked(frame, k),
         NEW i \in 1 .. Len(frame.cond.subs),
         MeaningAt(Meaning, frame.cond.subs[i], k) = (Kind(frame.cond) = "or")
  PROVE  MeaningAt(Meaning, frame.cond, k - 1) = (Kind(frame.cond) = "or")
<1> DEFINE c == frame.cond
           d == frame.cond.subs[i]
<1>1. Tree(c, k - 1) /\ k - 1 \in Nat /\ Form[c.of] \in {"and", "or"}
      /\ k - 1 <= MAX_CONDITION_EVAL_DEPTH
  BY DEF Walked, Kind
<1>2. Tree(d, k) /\ d.of \in Sound(c.of) /\ k <= Limit
  BY WalkedParts
<1>3. Meaning[Limit - k][d.of] = (Form[c.of] = "or")
  BY DEF MeaningAt, Kind
<1>4. Limit - (k - 1) > 0 /\ (Limit - (k - 1)) - 1 = Limit - k
  BY <1>2, ConditionAssumption DEF Limit
<1> HIDE DEF c, d
<1>5. CASE Form[c.of] = "or"
  <2>1. Meaning[Limit - k][d.of]
    BY <1>3, <1>5
  <2>2. MeaningAt(Meaning, c, k - 1) = TRUE
    BY <1>1, <1>2, <1>4, <1>5, <2>1, MeaningOfTree
  <2> QED
    BY <1>5, <2>2 DEF Kind, c
<1>6. CASE Form[c.of] = "and"
  <2>1. ~Meaning[Limit - k][d.of]
    BY <1>3, <1>6
  <2>2. MeaningAt(Meaning, c, k - 1) = FALSE
    BY <1>1, <1>2, <1>4, <1>6, <2>1, MeaningOfTree
  <2> QED
    BY <1>6, <2>2 DEF Kind, c
<1> QED
  BY <1>1, <1>5, <1>6

\* Parts of which none decides leave the answer to the connective.
LEMMA UndecidedMeant ==
  ASSUME NEW frame, NEW k \in Nat \ {0}, Walked(frame, k),
         Undecided(Meaning, frame, k, Len(frame.cond.subs))
  PROVE  MeaningAt(Meaning, frame.cond, k - 1) = (Kind(frame.cond) = "and")
<1> DEFINE c == frame.cond
<1>1. Tree(c, k - 1) /\ k - 1 \in Nat /\ Form[c.of] \in {"and", "or"}
      /\ k - 1 <= MAX_CONDITION_EVAL_DEPTH
  BY DEF Walked, Kind
<1>2. \A i \in 1 .. Len(c.subs) : Meaning[Limit - k][c.subs[i].of] = (Form[c.of] = "and")
  BY DEF Undecided, MeaningAt, Kind
<1>3. k <= Limit => \A d \in Sound(c.of) : \E i \in 1 .. Len(c.subs) : c.subs[i].of = d
  BY WalkedParts
<1>4. (Limit - (k - 1) > 0 <=> k <= Limit) /\ (Limit - (k - 1)) - 1 = Limit - k
  BY ConditionAssumption DEF Limit
<1> HIDE DEF c
<1>5. k <= Limit => \A d \in Sound(c.of) : Meaning[Limit - k][d] = (Form[c.of] = "and")
  BY <1>2, <1>3
<1>6. CASE Form[c.of] = "and"
  <2>1. \A d \in Sound(c.of) : Limit - (k - 1) > 0 => Meaning[(Limit - (k - 1)) - 1][d]
    BY <1>4, <1>5, <1>6
  <2>2. MeaningAt(Meaning, c, k - 1) = TRUE
    BY <1>1, <1>6, <2>1, MeaningOfTree
  <2> QED
    BY <1>6, <2>2 DEF Kind, c
<1>7. CASE Form[c.of] = "or"
  <2>1. ~ \E d \in Sound(c.of) : Limit - (k - 1) > 0 /\ Meaning[(Limit - (k - 1)) - 1][d]
    BY <1>4, <1>5, <1>7
  <2>2. MeaningAt(Meaning, c, k - 1) = FALSE
    BY <1>1, <1>7, <2>1, MeaningOfTree
  <2> QED
    BY <1>7, <2>2 DEF Kind, c
<1> QED
  BY <1>1, <1>6, <1>7

-----------------------------------------------------------------------------
\* The evaluation keeps the invariant.

LEMMA PushWalked ==
  ASSUME NEW means, NEW s, NEW p, NEW g, NEW frame, WalkedChain(means, s, p, g),
         p # NoCondition, Walked(frame, Len(s) + 1),
         s # <<>> => Within(means, s[Len(s)], Len(s)), frame.cond = EvaluatedAbove(p, s)
  PROVE  WalkedChain(means, Append(s, frame), p, g)
<1> DEFINE t == Append(s, frame)
<1>1. /\ IsSeq(t) /\ Len(t) = Len(s) + 1
      /\ \A k \in 1 .. Len(s) : t[k] = s[k]
      /\ t[Len(s) + 1] = frame
  BY Pushed DEF WalkedChain
<1>2. Len(s) \in Nat /\ (s = <<>> <=> Len(s) = 0)
  BY Sequence DEF WalkedChain
<1> HIDE DEF t
<1>3. \A k \in 1 .. Len(t) : Walked(t[k], k)
  <2> SUFFICES ASSUME NEW k \in 1 .. Len(t) PROVE Walked(t[k], k)
    OBVIOUS
  <2>1. k \in 1 .. Len(s) \/ k = Len(s) + 1
    BY <1>1, <1>2
  <2> QED
    BY <2>1, <1>1 DEF WalkedChain
<1>4. \A k \in 1 .. Len(t) - 1 : Within(means, t[k], k) /\ t[k + 1].cond = SubAt(t[k])
  <2> SUFFICES ASSUME NEW k \in 1 .. Len(s)
               PROVE  Within(means, t[k], k) /\ t[k + 1].cond = SubAt(t[k])
    BY <1>1, <1>2
  <2>1. CASE k = Len(s)
    <3>1. s # <<>>
      BY <1>2, <2>1
    <3> QED
      BY <3>1, <2>1, <1>1 DEF EvaluatedAbove
  <2>2. CASE k # Len(s)
    <3>1. k \in 1 .. Len(s) - 1 /\ k + 1 \in 1 .. Len(s)
      BY <1>2, <2>2
    <3> QED
      BY <3>1, <1>1 DEF WalkedChain
  <2> QED
    BY <2>1, <2>2
<1>5. t[1].cond = p
  <2>1. CASE s = <<>>
    BY <2>1, <1>1, <1>2 DEF EvaluatedAbove
  <2>2. CASE s # <<>>
    <3>1. 1 \in 1 .. Len(s)
      BY <1>2, <2>2
    <3> QED
      BY <3>1, <2>2, <1>1 DEF WalkedChain
  <2> QED
    BY <2>1, <2>2
<1>6. WalkedChain(means, t, p, g)
  BY <1>1, <1>3, <1>4, <1>5 DEF WalkedChain
<1> QED
  BY <1>6 DEF t

LEMMA ReplaceWalked ==
  ASSUME NEW means, NEW s, NEW p, NEW g, NEW frame, WalkedChain(means, s, p, g), s # <<>>,
         Walked(frame, Len(s)), frame.cond = s[Len(s)].cond
  PROVE  /\ WalkedChain(means, Append(Front(s), frame), p, g)
         /\ Len(Append(Front(s), frame)) = Len(s)
         /\ Append(Front(s), frame)[Len(s)] = frame
<1> DEFINE t == Append(Front(s), frame)
<1>1. /\ IsSeq(t) /\ Len(t) = Len(s) /\ Len(s) \in Nat \ {0}
      /\ \A k \in 1 .. Len(s) - 1 : t[k] = s[k]
      /\ t[Len(s)] = frame
  BY Replaced DEF WalkedChain
<1> HIDE DEF t
<1>2. \A k \in 1 .. Len(s) : t[k].cond = s[k].cond
  <2> SUFFICES ASSUME NEW k \in 1 .. Len(s) PROVE t[k].cond = s[k].cond
    OBVIOUS
  <2>1. k \in 1 .. Len(s) - 1 \/ k = Len(s)
    BY <1>1
  <2> QED
    BY <2>1, <1>1
<1>3. \A k \in 1 .. Len(t) : Walked(t[k], k)
  <2> SUFFICES ASSUME NEW k \in 1 .. Len(s) PROVE Walked(t[k], k)
    BY <1>1
  <2>1. k \in 1 .. Len(s) - 1 \/ k = Len(s)
    BY <1>1
  <2> QED
    BY <2>1, <1>1 DEF WalkedChain
<1>4. \A k \in 1 .. Len(t) - 1 : Within(means, t[k], k) /\ t[k + 1].cond = SubAt(t[k])
  <2> SUFFICES ASSUME NEW k \in 1 .. Len(s) - 1
               PROVE  Within(means, t[k], k) /\ t[k + 1].cond = SubAt(t[k])
    BY <1>1
  <2>1. k + 1 \in 1 .. Len(s)
    BY <1>1
  <2> QED
    BY <2>1, <1>1, <1>2 DEF WalkedChain
<1>5. t[1].cond = p
  <2>1. 1 \in 1 .. Len(s)
    BY <1>1
  <2> QED
    BY <2>1, <1>2 DEF WalkedChain
<1>6. WalkedChain(means, t, p, g)
  BY <1>1, <1>3, <1>4, <1>5 DEF WalkedChain
<1> QED
  BY <1>1, <1>6 DEF t

LEMMA PopWalked ==
  ASSUME NEW means, NEW s, NEW p, NEW g, WalkedChain(means, s, p, g), s # <<>>
  PROVE  /\ WalkedChain(means, Front(s), p, g)
         /\ Front(s) # <<>> => Within(means, Front(s)[Len(Front(s))], Len(Front(s)))
         /\ EvaluatedAbove(p, Front(s)) = s[Len(s)].cond
         /\ Len(Front(s)) = Len(s) - 1
<1> DEFINE t == Front(s)
<1>1. /\ IsSeq(t) /\ Len(t) = Len(s) - 1 /\ Len(s) \in Nat \ {0}
      /\ \A k \in 1 .. Len(s) - 1 : t[k] = s[k]
  BY Popped DEF WalkedChain
<1> HIDE DEF t
<1>2. t = <<>> <=> Len(t) = 0
  BY <1>1, Sequence
<1>3. \A k \in 1 .. Len(t) : Walked(t[k], k)
  <2> SUFFICES ASSUME NEW k \in 1 .. Len(s) - 1 PROVE Walked(t[k], k)
    BY <1>1
  <2> QED
    BY <1>1 DEF WalkedChain
<1>4. \A k \in 1 .. Len(t) - 1 : Within(means, t[k], k) /\ t[k + 1].cond = SubAt(t[k])
  <2> SUFFICES ASSUME NEW k \in 1 .. Len(t) - 1
               PROVE  Within(means, t[k], k) /\ t[k + 1].cond = SubAt(t[k])
    OBVIOUS
  <2>1. k \in 1 .. Len(s) - 1 /\ k + 1 \in 1 .. Len(s) - 1
    BY <1>1
  <2> QED
    BY <2>1, <1>1 DEF WalkedChain
<1>5. t # <<>> => t[1].cond = p
  <2> SUFFICES ASSUME t # <<>> PROVE t[1].cond = p
    OBVIOUS
  <2>1. 1 \in 1 .. Len(s) - 1
    BY <1>1, <1>2
  <2> QED
    BY <2>1, <1>1 DEF WalkedChain
<1>6. t # <<>> => Within(means, t[Len(t)], Len(t)) /\ SubAt(t[Len(t)]) = s[Len(s)].cond
  <2> SUFFICES ASSUME t # <<>>
               PROVE  Within(means, t[Len(t)], Len(t)) /\ SubAt(t[Len(t)]) = s[Len(s)].cond
    OBVIOUS
  <2>1. Len(s) - 1 \in 1 .. Len(s) - 1 /\ (Len(s) - 1) + 1 = Len(s)
    BY <1>1, <1>2
  <2>2. Within(means, s[Len(s) - 1], Len(s) - 1) /\ s[Len(s)].cond = SubAt(s[Len(s) - 1])
    BY <2>1 DEF WalkedChain
  <2> QED
    BY <2>1, <2>2, <1>1
<1>7. t = <<>> => s[Len(s)].cond = p
  <2> SUFFICES ASSUME t = <<>> PROVE s[Len(s)].cond = p
    OBVIOUS
  <2>1. Len(s) = 1
    BY <1>1, <1>2
  <2> QED
    BY <2>1 DEF WalkedChain
<1>8. WalkedChain(means, t, p, g)
  BY <1>1, <1>3, <1>4, <1>5 DEF WalkedChain
<1> QED
  BY <1>1, <1>6, <1>7, <1>8 DEF EvaluatedAbove, t

\* What is evaluated is a tree of the depth it is met at.
LEMMA EvaluatedTree ==
  ASSUME NEW means, NEW s, NEW p, NEW g, WalkedChain(means, s, p, g), p # NoCondition,
         s # <<>> => Within(means, s[Len(s)], Len(s))
  PROVE  Tree(EvaluatedAbove(p, s), Len(s)) /\ Len(s) \in Nat
<1>1. Len(s) \in Nat /\ (s = <<>> <=> Len(s) = 0)
  BY Sequence DEF WalkedChain
<1>2. CASE s = <<>>
  BY <1>1, <1>2 DEF WalkedChain, EvaluatedAbove
<1>3. CASE s # <<>>
  <2> DEFINE f == s[Len(s)]
  <2>1. Len(s) \in 1 .. Len(s) /\ Len(s) \in Nat \ {0}
    BY <1>1, <1>3
  <2>2. Walked(f, Len(s)) /\ Within(means, f, Len(s))
    BY <1>3, <2>1 DEF WalkedChain
  <2> HIDE DEF f
  <2>3. f.next \in 1 .. Len(f.cond.subs) + 1 /\ f.next \in Nat \ {0, 1}
    BY <2>2 DEF Walked, Within
  <2>4. Len(f.cond.subs) \in Nat
    BY <2>1, <2>2, WalkedParts
  <2>5. f.next - 1 \in 1 .. Len(f.cond.subs)
    BY <2>3, <2>4
  <2>6. Tree(SubAt(f), Len(s))
    BY <2>1, <2>2, <2>5, WalkedParts DEF SubAt
  <2> QED
    BY <1>1, <1>3, <2>6 DEF EvaluatedAbove, f
<1> QED
  BY <1>2, <1>3

-----------------------------------------------------------------------------

\* In the evaluation, what is said of the parser says nothing.
LEMMA StillEvaluating ==
  ASSUME ConditionInv, UNCHANGED task, pc' \in {"evaluate", "subs", "evaluated"}, Evaluating'
  PROVE  ConditionInv'
BY DEF ConditionInv, Parsing, Evaluated, task

LEMMA ExecuteKeeps ==
  ASSUME ConditionInv, Execute
  PROVE  ConditionInv'
<1>1. /\ OpenedChain(stack, given) /\ stack = <<>> /\ given \in Given
      /\ Outcome(ret, given, Len(stack))
  BY DEF ConditionInv, Parsing, Execute, ParsedAbove, OpenedChain
<1>2. Len(stack) = 0
  BY <1>1
<1>3. /\ parsed' = ret /\ call' = ret
      /\ pc' = (IF ret = NoCondition THEN "done" ELSE "evaluate")
      /\ UNCHANGED <<given, context, stack>>
  BY DEF Execute, task
<1>4. CASE ret = NoCondition
  <2>1. pc' = "done" /\ parsed' = NoCondition
    BY <1>3, <1>4
  <2>2. Parsing' /\ Evaluating' /\ Evaluated'
    BY <2>1 DEF Parsing, Evaluating, Evaluated
  <2> QED
    BY <1>3, <2>1, <2>2 DEF ConditionInv
<1>5. CASE ret # NoCondition
  <2>1. Tree(ret, 0) /\ ret.of = given
    BY <1>1, <1>2, <1>5 DEF Outcome
  <2>2. IsSeq(<<>>) /\ Len(<<>>) = 0
    BY <1>1, <1>2 DEF OpenedChain
  <2>3. \A means : WalkedChain(means, <<>>, ret, given)
    BY <1>5, <2>1, <2>2 DEF WalkedChain
  <2>4. WalkedChain(Meaning', stack', parsed', given')
    BY <1>1, <1>3, <2>3
  <2>5. pc' = "evaluate" /\ call' = EvaluatedAbove(parsed', stack') /\ stack' = <<>>
    BY <1>1, <1>3, <1>5 DEF EvaluatedAbove
  <2>6. Evaluating'
    BY <2>4, <2>5 DEF Evaluating
  <2> QED
    BY <1>3, <2>5, <2>6, StillEvaluating DEF task
<1> QED
  BY <1>4, <1>5

\* A call of the evaluation that answers what the condition means.
LEMMA AnswersKeep ==
  ASSUME ConditionInv, pc = "evaluate", pc' = "evaluated",
         UNCHANGED <<given, context, stack, parsed>>,
         parsed # NoCondition => holds' = MeaningAt(Meaning, EvaluatedAbove(parsed, stack), Len(stack))
  PROVE  ConditionInv'
<1>1. /\ WalkedChain(Meaning, stack, parsed, given)
      /\ stack # <<>> => Within(Meaning, Top, Len(stack))
  BY DEF ConditionInv, Evaluating
<1>2. Meaning' = Meaning
  BY MeaningStays
<1>3. Evaluating'
  BY <1>1, <1>2 DEF Evaluating, Top
<1> QED
  BY <1>3, StillEvaluating DEF task

\* What is at hand when a condition is evaluated.
LEMMA EvaluateStands ==
  ASSUME ConditionInv, pc = "evaluate"
  PROVE  /\ WalkedChain(Meaning, stack, parsed, given)
         /\ stack # <<>> => Within(Meaning, Top, Len(stack))
         /\ call = EvaluatedAbove(parsed, stack)
         /\ call # NoCondition <=> parsed # NoCondition
         /\ parsed # NoCondition => Tree(call, Len(stack)) /\ Len(stack) \in Nat
<1>1. /\ WalkedChain(Meaning, stack, parsed, given)
      /\ stack # <<>> => Within(Meaning, Top, Len(stack))
      /\ call = EvaluatedAbove(parsed, stack)
  BY DEF ConditionInv, Evaluating
<1>2. CASE parsed = NoCondition
  <2>1. call = NoCondition
    BY <1>1, <1>2 DEF WalkedChain, EvaluatedAbove
  <2> QED
    BY <1>1, <1>2, <2>1
<1>3. CASE parsed # NoCondition
  <2>1. Tree(call, Len(stack)) /\ Len(stack) \in Nat
    BY <1>1, <1>3, EvaluatedTree DEF Top
  <2>2. call.of \in Given
    BY <2>1, TreeRoot DEF Built, Sensible
  <2>3. call # NoCondition
    BY <2>2, NoConditionApart
  <2> QED
    BY <1>1, <1>3, <2>1, <2>3
<1> QED
  BY <1>2, <1>3

LEMMA EvaluateNothingKeeps ==
  ASSUME ConditionInv, EvaluateNothing
  PROVE  ConditionInv'
<1>1. parsed = NoCondition
  BY EvaluateStands DEF EvaluateNothing
<1> QED
  BY <1>1, AnswersKeep DEF EvaluateNothing, Answers, task

LEMMA EvaluateTooDeepKeeps ==
  ASSUME ConditionInv, EvaluateTooDeep
  PROVE  ConditionInv'
<1>1. /\ pc = "evaluate" /\ pc' = "evaluated" /\ holds' = FALSE
      /\ Len(stack) > MAX_CONDITION_EVAL_DEPTH
      /\ UNCHANGED <<given, context, stack, parsed>>
  BY DEF EvaluateTooDeep, Answers, task, Depth
<1>2. /\ Tree(call, Len(stack)) /\ Len(stack) \in Nat
      /\ call = EvaluatedAbove(parsed, stack)
  BY EvaluateStands DEF EvaluateTooDeep
<1>3. MeaningAt(Meaning, call, Len(stack)) = FALSE
  BY <1>1, <1>2, TooDeepMeant
<1> QED
  BY <1>1, <1>2, <1>3, AnswersKeep

LEMMA EvaluateSimpleKeeps ==
  ASSUME ConditionInv, EvaluateSimple
  PROVE  ConditionInv'
<1>1. /\ pc = "evaluate" /\ pc' = "evaluated" /\ holds' = Simple(call.of)
      /\ Len(stack) <= MAX_CONDITION_EVAL_DEPTH /\ Form[call.of] = "simple"
      /\ UNCHANGED <<given, context, stack, parsed>>
  BY DEF EvaluateSimple, Entered, Answers, task, Depth, Kind
<1>2. /\ Tree(call, Len(stack)) /\ Len(stack) \in Nat
      /\ call = EvaluatedAbove(parsed, stack)
  BY EvaluateStands DEF EvaluateSimple, Entered
<1>3. context \in Contexts
  BY DEF ConditionInv
<1>4. MeaningAt(Meaning, call, Len(stack)) = Simple(call.of)
  BY <1>1, <1>2, <1>3, SimpleMeant
<1> QED
  BY <1>1, <1>2, <1>4, AnswersKeep

LEMMA EnterCompoundKeeps ==
  ASSUME ConditionInv, EnterCompound
  PROVE  ConditionInv'
<1>1. /\ pc = "evaluate" /\ call # NoCondition
      /\ Len(stack) <= MAX_CONDITION_EVAL_DEPTH /\ Kind(call) \in {"and", "or"}
      /\ stack' = Append(stack, [cond |-> call, next |-> 1]) /\ pc' = "subs"
      /\ UNCHANGED <<given, context, parsed>>
  BY DEF EnterCompound, Entered, task, Depth
<1>2. /\ WalkedChain(Meaning, stack, parsed, given) /\ parsed # NoCondition
      /\ stack # <<>> => Within(Meaning, Top, Len(stack))
      /\ call = EvaluatedAbove(parsed, stack)
      /\ Tree(call, Len(stack)) /\ Len(stack) \in Nat
  BY <1>1, EvaluateStands
<1> DEFINE f == [cond |-> call, next |-> 1]
<1>3. f = [cond |-> f.cond, next |-> f.next] /\ f.cond = call /\ f.next = 1
  OBVIOUS
<1> HIDE DEF f
<1>4. (Len(stack) + 1) - 1 = Len(stack)
  BY <1>2
<1>5. Len(f.cond.subs) \in Nat
  BY <1>2, <1>3, TreeRoot, Sequence DEF Built
<1>6. Walked(f, Len(stack) + 1)
  BY <1>1, <1>2, <1>3, <1>4, <1>5 DEF Walked
<1>7. WalkedChain(Meaning, Append(stack, f), parsed, given)
  BY <1>2, <1>3, <1>6, PushWalked DEF Top
<1>8. /\ Len(Append(stack, f)) = Len(stack) + 1 /\ Append(stack, f)[Len(stack) + 1] = f
      /\ IsSeq(Append(stack, f))
  BY <1>2, Pushed DEF WalkedChain
<1>9. Append(stack, f) # <<>>
  BY <1>2, <1>8, Sequence
<1>10. 1 .. f.next - 1 = {}
  BY <1>3
<1>11. Undecided(Meaning, f, Len(stack) + 1, f.next - 1)
  BY <1>10 DEF Undecided
<1>12. Meaning' = Meaning /\ stack' = Append(stack, f)
  BY <1>1, MeaningStays DEF f
<1>13. Top' = f /\ Len(stack') = Len(stack) + 1
  BY <1>8, <1>12 DEF Top
<1>14. Evaluating'
  BY <1>1, <1>7, <1>9, <1>11, <1>12, <1>13 DEF Evaluating
<1> QED
  BY <1>1, <1>14, StillEvaluating DEF task

\* What is at hand in the loop of a connective.
LEMMA SubsStands ==
  ASSUME ConditionInv, pc = "subs"
  PROVE  /\ WalkedChain(Meaning, stack, parsed, given) /\ stack # <<>>
         /\ parsed # NoCondition
         /\ Len(stack) \in Nat \ {0}
         /\ Walked(Top, Len(stack))
         /\ Undecided(Meaning, Top, Len(stack), Top.next - 1)
         /\ IsSeq(Top.cond.subs) /\ Len(Top.cond.subs) \in Nat
         /\ Top.next \in 1 .. Len(Top.cond.subs) + 1
<1>1. /\ WalkedChain(Meaning, stack, parsed, given) /\ stack # <<>>
      /\ Undecided(Meaning, Top, Len(stack), Top.next - 1)
  BY DEF ConditionInv, Evaluating
<1>2. Len(stack) \in Nat \ {0} /\ Len(stack) \in 1 .. Len(stack)
  BY <1>1, Sequence DEF WalkedChain
<1>3. Walked(Top, Len(stack)) /\ parsed # NoCondition
  BY <1>1, <1>2 DEF WalkedChain, Top
<1>4. Tree(Top.cond, Len(stack) - 1) /\ Len(stack) - 1 \in Nat
  BY <1>2, <1>3 DEF Walked
<1>5. IsSeq(Top.cond.subs)
  BY <1>4, TreeRoot DEF Built
<1>6. Len(Top.cond.subs) \in Nat
  BY <1>5, Sequence
<1> QED
  BY <1>1, <1>2, <1>3, <1>5, <1>6 DEF Walked

LEMMA EvaluateSubKeeps ==
  ASSUME ConditionInv, EvaluateSub
  PROVE  ConditionInv'
<1>1. /\ pc = "subs" /\ Top.next \in DOMAIN Top.cond.subs
      /\ call' = Top.cond.subs[Top.next] /\ pc' = "evaluate"
      /\ stack' = Append(Front(stack), [Top EXCEPT !.next = @ + 1])
      /\ UNCHANGED <<given, context, parsed>>
  BY DEF EvaluateSub, task, Below
<1>2. /\ WalkedChain(Meaning, stack, parsed, given) /\ stack # <<>>
      /\ Len(stack) \in Nat \ {0}
      /\ Walked(Top, Len(stack))
      /\ Undecided(Meaning, Top, Len(stack), Top.next - 1)
      /\ IsSeq(Top.cond.subs) /\ Len(Top.cond.subs) \in Nat
  BY <1>1, SubsStands
<1>3. Top.next \in 1 .. Len(Top.cond.subs)
  BY <1>1, <1>2, Sequence
<1> DEFINE f == [Top EXCEPT !.next = @ + 1]
<1>4. f = [cond |-> Top.cond, next |-> Top.next + 1]
  BY <1>2 DEF Walked
<1>5. f = [cond |-> f.cond, next |-> f.next] /\ f.cond = Top.cond /\ f.next = Top.next + 1
  BY <1>4
<1>6. stack' = Append(Front(stack), f)
  BY <1>1
<1> HIDE DEF f
<1>7. /\ f.next \in 1 .. Len(Top.cond.subs) + 1 /\ f.next \in Nat \ {0, 1}
      /\ f.next - 1 = Top.next /\ f.next - 2 = Top.next - 1
  BY <1>2, <1>3, <1>5
<1>8. Walked(f, Len(stack))
  BY <1>2, <1>5, <1>7 DEF Walked
<1>9. Within(Meaning, f, Len(stack)) /\ SubAt(f) = Top.cond.subs[Top.next]
  BY <1>2, <1>5, <1>7 DEF Within, Undecided, SubAt
<1>10. /\ WalkedChain(Meaning, Append(Front(stack), f), parsed, given)
       /\ Len(Append(Front(stack), f)) = Len(stack)
       /\ Append(Front(stack), f)[Len(stack)] = f
  <2>1. f.cond = stack[Len(stack)].cond
    BY <1>5 DEF Top
  <2> QED
    BY <1>2, <1>8, <2>1, ReplaceWalked
<1>11. Append(Front(stack), f) # <<>>
  BY <1>2, <1>10, Sequence DEF WalkedChain
<1>12. Meaning' = Meaning
  BY <1>1, MeaningStays
<1>13. Top' = f /\ Len(stack') = Len(stack) /\ stack' # <<>>
  BY <1>6, <1>10, <1>11 DEF Top
<1>14. WalkedChain(Meaning', stack', parsed', given')
  BY <1>1, <1>6, <1>10, <1>12
<1>15. call' = EvaluatedAbove(parsed', stack')
  BY <1>1, <1>9, <1>13 DEF EvaluatedAbove, Top
<1>16. Evaluating'
  BY <1>1, <1>9, <1>12, <1>13, <1>14, <1>15 DEF Evaluating
<1> QED
  BY <1>1, <1>16, StillEvaluating DEF task

LEMMA TakeSubKeeps ==
  ASSUME ConditionInv, TakeSub
  PROVE  ConditionInv'
<1>1. /\ pc = "evaluated" /\ stack # <<>>
      /\ UNCHANGED <<given, context, parsed, holds>>
  BY DEF TakeSub, task
<1>2. /\ WalkedChain(Meaning, stack, parsed, given) /\ parsed # NoCondition
      /\ Within(Meaning, Top, Len(stack))
      /\ holds = MeaningAt(Meaning, SubAt(Top), Len(stack))
  BY <1>1 DEF ConditionInv, Evaluating, EvaluatedAbove, Top, WalkedChain
<1>3. Len(stack) \in Nat \ {0} /\ Len(stack) \in 1 .. Len(stack)
  BY <1>1, <1>2, Sequence DEF WalkedChain
<1>4. Walked(Top, Len(stack))
  BY <1>2, <1>3 DEF WalkedChain, Top
<1>5. Len(Top.cond.subs) \in Nat
  BY <1>3, <1>4, WalkedParts
<1>6. Top.next - 1 \in 1 .. Len(Top.cond.subs) /\ Top.next \in Nat \ {0, 1}
  BY <1>2, <1>4, <1>5 DEF Walked, Within
<1>7. Tree(SubAt(Top), Len(stack))
  BY <1>3, <1>4, <1>6, WalkedParts DEF SubAt
<1>8. holds \in BOOLEAN
  BY <1>2, <1>3, <1>7, MeaningBoolean
<1>9. Kind(Top.cond) \in {"and", "or"}
  BY <1>4 DEF Walked
<1>10. Meaning' = Meaning
  BY <1>1, MeaningStays
<1>11. CASE Decides(Kind(Top.cond), holds)
  <2>1. stack' = Front(stack) /\ pc' = "evaluated"
    BY <1>1, <1>11 DEF TakeSub, Below
  <2>2. holds = (Kind(Top.cond) = "or")
    BY <1>11 DEF Decides
  <2>3. holds = MeaningAt(Meaning, Top.cond, Len(stack) - 1)
    BY <1>2, <1>3, <1>4, <1>6, <2>2, DecidedMeant DEF SubAt
  <2> DEFINE t == Front(stack)
  <2>4. /\ WalkedChain(Meaning, t, parsed, given)
        /\ t # <<>> => Within(Meaning, t[Len(t)], Len(t))
        /\ EvaluatedAbove(parsed, t) = Top.cond /\ Len(t) = Len(stack) - 1
    BY <1>1, <1>2, PopWalked DEF Top
  <2>5. holds = MeaningAt(Meaning, EvaluatedAbove(parsed, t), Len(t))
    BY <2>3, <2>4
  <2>6. stack' = t
    BY <2>1
  <2> HIDE DEF t
  <2>7. Evaluating'
    BY <1>1, <1>10, <2>1, <2>4, <2>5, <2>6 DEF Evaluating, Top
  <2> QED
    BY <1>1, <2>1, <2>7, StillEvaluating DEF task
<1>12. CASE ~Decides(Kind(Top.cond), holds)
  <2>1. pc' = "subs" /\ stack' = stack
    BY <1>1, <1>12 DEF TakeSub
  <2>2. holds = (Kind(Top.cond) = "and")
    BY <1>8, <1>9, <1>12 DEF Decides
  <2>3. \A i \in 1 .. Top.next - 1 : i \in 1 .. Top.next - 2 \/ i = Top.next - 1
    BY <1>6
  <2>4. Undecided(Meaning, Top, Len(stack), Top.next - 1)
    BY <1>2, <2>2, <2>3 DEF Undecided, Within, SubAt
  <2>5. Evaluating'
    BY <1>1, <1>2, <1>10, <2>1, <2>4 DEF Evaluating, Top
  <2> QED
    BY <1>1, <2>1, <2>5, StillEvaluating DEF task
<1> QED
  BY <1>11, <1>12

LEMMA LeaveCompoundKeeps ==
  ASSUME ConditionInv, LeaveCompound
  PROVE  ConditionInv'
<1>1. /\ pc = "subs" /\ Top.next \notin DOMAIN Top.cond.subs
      /\ holds' = (Kind(Top.cond) = "and") /\ pc' = "evaluated" /\ stack' = Front(stack)
      /\ UNCHANGED <<given, context, parsed>>
  BY DEF LeaveCompound, Answers, task, Below
<1>2. /\ WalkedChain(Meaning, stack, parsed, given) /\ stack # <<>>
      /\ Len(stack) \in Nat \ {0}
      /\ Walked(Top, Len(stack))
      /\ Undecided(Meaning, Top, Len(stack), Top.next - 1)
      /\ IsSeq(Top.cond.subs) /\ Len(Top.cond.subs) \in Nat
      /\ Top.next \in 1 .. Len(Top.cond.subs) + 1
  BY <1>1, SubsStands
<1>3. DOMAIN Top.cond.subs = 1 .. Len(Top.cond.subs)
  BY <1>2, Sequence
<1>4. Top.next - 1 = Len(Top.cond.subs)
  BY <1>1, <1>2, <1>3
<1>5. holds' = MeaningAt(Meaning, Top.cond, Len(stack) - 1)
  BY <1>1, <1>2, <1>4, UndecidedMeant
<1> DEFINE t == Front(stack)
<1>6. /\ WalkedChain(Meaning, t, parsed, given)
      /\ t # <<>> => Within(Meaning, t[Len(t)], Len(t))
      /\ EvaluatedAbove(parsed, t) = Top.cond /\ Len(t) = Len(stack) - 1
  BY <1>2, PopWalked DEF Top
<1>7. holds' = MeaningAt(Meaning, EvaluatedAbove(parsed, t), Len(t))
  BY <1>5, <1>6
<1>8. stack' = t /\ Meaning' = Meaning
  BY <1>1, MeaningStays
<1> HIDE DEF t
<1>9. Evaluating'
  BY <1>1, <1>6, <1>7, <1>8 DEF Evaluating, Top
<1> QED
  BY <1>1, <1>9, StillEvaluating DEF task

LEMMA AnswerKeeps ==
  ASSUME ConditionInv, Answer
  PROVE  ConditionInv'
<1>1. /\ pc = "evaluated" /\ stack = <<>> /\ pc' = "done"
      /\ UNCHANGED <<given, context, parsed, holds>>
  BY DEF Answer, task
<1>2. /\ WalkedChain(Meaning, stack, parsed, given)
      /\ parsed # NoCondition => holds = MeaningAt(Meaning, parsed, Len(stack))
  BY <1>1 DEF ConditionInv, Evaluating, EvaluatedAbove
<1>3. Len(stack) = 0
  BY <1>1
<1>4. Meaning' = Meaning
  BY <1>1, MeaningStays
<1>5. Evaluated'
  BY <1>1, <1>2, <1>3, <1>4 DEF Evaluated, WalkedChain
<1>6. Parsing' /\ Evaluating'
  BY <1>1 DEF Parsing, Evaluating
<1> QED
  BY <1>1, <1>5, <1>6 DEF ConditionInv

-----------------------------------------------------------------------------
\* The theorems.

LEMMA InitInv ==
  ASSUME Init
  PROVE  ConditionInv
<1>1. /\ context \in Contexts /\ stack = <<>> /\ parsed = NoCondition /\ call = given
      /\ \/ given \in Given /\ pc = "parse"
         \/ given = NoCondition /\ pc = "evaluate"
  BY DEF Init
<1>2. IsSeq(<<>>) /\ Len(<<>>) = 0
  <2>1. <<>> \in Seq({})
    OBVIOUS
  <2> QED
    BY <2>1 DEF IsSeq
<1>3. CASE given \in Given /\ pc = "parse"
  <2>1. OpenedChain(stack, given)
    BY <1>1, <1>2, <1>3 DEF OpenedChain
  <2>2. Parsing
    BY <1>1, <1>3, <2>1 DEF Parsing, ParsedAbove
  <2> QED
    BY <1>1, <1>3, <2>2 DEF ConditionInv, Evaluating, Evaluated
<1>4. CASE given = NoCondition /\ pc = "evaluate"
  <2>1. WalkedChain(Meaning, stack, parsed, given)
    BY <1>1, <1>2, <1>4 DEF WalkedChain
  <2>2. Evaluating
    BY <1>1, <1>4, <2>1 DEF Evaluating, EvaluatedAbove
  <2> QED
    BY <1>1, <1>4, <2>2 DEF ConditionInv, Parsing, Evaluated
<1> QED
  BY <1>1, <1>3, <1>4

LEMMA StutterKeeps ==
  ASSUME ConditionInv, UNCHANGED vars
  PROVE  ConditionInv'
<1>1. UNCHANGED <<given, context, pc, call, stack, ret, parsed, holds>>
  BY DEF vars
<1>2. Meaning' = Meaning
  BY <1>1, MeaningStays
<1>3. Parsing'
  BY <1>1 DEF ConditionInv, Parsing, Top
<1>4. Evaluating'
  BY <1>1, <1>2 DEF ConditionInv, Evaluating, Top
<1>5. Evaluated'
  BY <1>1, <1>2 DEF ConditionInv, Evaluated
<1> QED
  BY <1>1, <1>3, <1>4, <1>5 DEF ConditionInv

LEMMA NextInv ==
  ASSUME ConditionInv, [Next]_vars
  PROVE  ConditionInv'
<1>1. CASE RefuseCondition
  BY <1>1, RefuseConditionKeeps
<1>2. CASE ParseSimple
  BY <1>2, ParseSimpleKeeps
<1>3. CASE OpenCompound
  BY <1>3, OpenCompoundKeeps
<1>4. CASE ParsePart
  BY <1>4, ParsePartKeeps
<1>5. CASE SkipPart
  BY <1>5, SkipPartKeeps
<1>6. CASE StorePart
  BY <1>6, StorePartKeeps
<1>7. CASE CloseCompound
  BY <1>7, CloseCompoundKeeps
<1>8. CASE Execute
  BY <1>8, ExecuteKeeps
<1>9. CASE EvaluateNothing
  BY <1>9, EvaluateNothingKeeps
<1>10. CASE EvaluateTooDeep
  BY <1>10, EvaluateTooDeepKeeps
<1>11. CASE EvaluateSimple
  BY <1>11, EvaluateSimpleKeeps
<1>12. CASE EnterCompound
  BY <1>12, EnterCompoundKeeps
<1>13. CASE EvaluateSub
  BY <1>13, EvaluateSubKeeps
<1>14. CASE TakeSub
  BY <1>14, TakeSubKeeps
<1>15. CASE LeaveCompound
  BY <1>15, LeaveCompoundKeeps
<1>16. CASE Answer
  BY <1>16, AnswerKeeps
<1>17. CASE UNCHANGED vars
  BY <1>17, StutterKeeps
<1> QED
  BY <1>1, <1>2, <1>3, <1>4, <1>5, <1>6, <1>7, <1>8, <1>9, <1>10, <1>11, <1>12, <1>13,
     <1>14, <1>15, <1>16, <1>17 DEF Next, Step, Returned

\* The conditions in progress, of the parser and of the evaluation, are as the
\* depths and parts they were met with demand: for any conditions, limits, values.
THEOREM ConditionInvariant == Spec => []ConditionInv
BY InitInv, NextInv, PTL DEF Spec

\* A condition that the rule owns is the tree its limit allows.
LEMMA OwnedTree ==
  ASSUME ConditionInv, parsed # NoCondition
  PROVE  Tree(parsed, 0)
<1>1. pc \in {"evaluate", "subs", "evaluated", "done"}
  BY DEF ConditionInv, Parsing
<1> QED
  BY <1>1 DEF ConditionInv, Evaluating, Evaluated, WalkedChain

\* ParsedFits: sf_parse_condition lets nothing through that is deeper than
\* MAX_CONDITION_PARSE_DEPTH, whatever array it is given.
THEOREM FitsLimit == Spec => []ParsedFits
<1>1. ConditionInv => ParsedFits
  BY OwnedTree, TreeFits DEF ParsedFits, Limit
<1> QED
  BY <1>1, ConditionInvariant, PTL

\* EvaluatesMeaning: parser and evaluation together, with their limits, dropped
\* parts and short cuts, answer what the given condition means.
THEOREM AnswersMeaning == Spec => []EvaluatesMeaning
<1>1. ConditionInv => EvaluatesMeaning
  <2> SUFFICES ASSUME ConditionInv, pc = "done", parsed # NoCondition
               PROVE  holds = Meaning[MAX_CONDITION_PARSE_DEPTH][given]
    BY DEF EvaluatesMeaning
  <2>1. holds = Meaning[Limit - 0][parsed.of] /\ parsed.of = given
    BY DEF ConditionInv, Evaluated, MeaningAt
  <2>2. Limit - 0 = MAX_CONDITION_PARSE_DEPTH
    BY ConditionAssumption DEF Limit
  <2> QED
    BY <2>1, <2>2
<1> QED
  BY <1>1, ConditionInvariant, PTL

-----------------------------------------------------------------------------
\* The operators.

LEMMA OfValueEach ==
  ASSUME NEW v, NEW o
  PROVE  /\ OfValue("eq", v, o)  <=> Compare[v, o] = 0
         /\ OfValue("neq", v, o) <=> Compare[v, o] # 0
         /\ OfValue("gt", v, o)  <=> Compare[v, o] > 0
         /\ OfValue("gte", v, o) <=> Compare[v, o] >= 0
         /\ OfValue("lt", v, o)  <=> Compare[v, o] < 0
         /\ OfValue("lte", v, o) <=> Compare[v, o] <= 0
         /\ OfValue("in", v, o)  <=> \E m \in Members[o] : Compare[v, m] = 0
         /\ OfValue("not_in", v, o) <=> \A m \in Members[o] : Compare[v, m] # 0
         /\ OfValue("filled", v, o) <=> ~IsEmpty(v)
         /\ OfValue("empty", v, o)  <=> IsEmpty(v)
<1> DEFINE C(m) == Compare[v, m]
<1>1. \A op : OfValue(op, v, o) <=>
         \/ op = "eq"     /\ C(o) = 0
         \/ op = "neq"    /\ C(o) # 0
         \/ op = "gt"     /\ C(o) > 0
         \/ op = "gte"    /\ C(o) >= 0
         \/ op = "lt"     /\ C(o) < 0
         \/ op = "lte"    /\ C(o) <= 0
         \/ op = "in"     /\ \E m \in Members[o] : C(m) = 0
         \/ op = "not_in" /\ \A m \in Members[o] : C(m) # 0
         \/ op = "filled" /\ ~IsEmpty(v)
         \/ op = "empty"  /\ IsEmpty(v)
  BY DEF OfValue
<1> HIDE DEF C
<1>2. /\ OfValue("eq", v, o)  <=> C(o) = 0
      /\ OfValue("neq", v, o) <=> C(o) # 0
      /\ OfValue("gt", v, o)  <=> C(o) > 0
      /\ OfValue("gte", v, o) <=> C(o) >= 0
      /\ OfValue("lt", v, o)  <=> C(o) < 0
      /\ OfValue("lte", v, o) <=> C(o) <= 0
      /\ OfValue("in", v, o)  <=> \E m \in Members[o] : C(m) = 0
      /\ OfValue("not_in", v, o) <=> \A m \in Members[o] : C(m) # 0
      /\ OfValue("filled", v, o) <=> ~IsEmpty(v)
      /\ OfValue("empty", v, o)  <=> IsEmpty(v)
  BY <1>1
<1> QED
  BY <1>2 DEF C

LEMMA OppositesOfValue ==
  ASSUME NEW v \in Value, NEW o \in Value
  PROVE  /\ \A pair \in Opposites : OfValue(pair[1], v, o) = ~OfValue(pair[2], v, o)
         /\ OfValue("gte", v, o) = (OfValue("gt", v, o) \/ OfValue("eq", v, o))
<1> DEFINE c == Compare[v, o]
<1>1. c \in {-1, 0, 1}
  <2>1. <<v, o>> \in Value \X Value
    OBVIOUS
  <2>2. Compare[<<v, o>>] \in {-1, 0, 1}
    BY <2>1, ConditionAssumption
  <2> QED
    BY <2>2
<1>2. \A op : OfValue(op, v, o) \in BOOLEAN
  BY DEF OfValue
<1>3. /\ OfValue("eq", v, o)  <=> c = 0
      /\ OfValue("neq", v, o) <=> c # 0
      /\ OfValue("gt", v, o)  <=> c > 0
      /\ OfValue("gte", v, o) <=> c >= 0
      /\ OfValue("lt", v, o)  <=> c < 0
      /\ OfValue("lte", v, o) <=> c <= 0
  BY OfValueEach
<1> HIDE DEF c
<1>4. /\ OfValue("eq", v, o) <=> ~OfValue("neq", v, o)
      /\ OfValue("gt", v, o) <=> ~OfValue("lte", v, o)
      /\ OfValue("gte", v, o) <=> ~OfValue("lt", v, o)
      /\ OfValue("gte", v, o) <=> OfValue("gt", v, o) \/ OfValue("eq", v, o)
  BY <1>1, <1>3
<1>5. /\ OfValue("in", v, o) <=> ~OfValue("not_in", v, o)
      /\ OfValue("empty", v, o) <=> ~OfValue("filled", v, o)
  BY OfValueEach
<1>6. \A pair \in Opposites : OfValue(pair[1], v, o) <=> ~OfValue(pair[2], v, o)
  BY <1>4, <1>5 DEF Opposites
<1> QED
  BY <1>2, <1>4, <1>6

LEMMA OppositesOfAbsent ==
  ASSUME NEW o
  PROVE  /\ \A pair \in Opposites : OfAbsent(pair[1], o) = ~OfAbsent(pair[2], o)
         /\ OfAbsent("gte", o) = (OfAbsent("gt", o) \/ OfAbsent("eq", o))
<1>1. \A op : OfAbsent(op, o) \in BOOLEAN
  BY DEF OfAbsent
<1>2. /\ OfAbsent("eq", o) <=> ~OfAbsent("neq", o)
      /\ OfAbsent("gt", o) <=> ~OfAbsent("lte", o)
      /\ OfAbsent("gte", o) <=> ~OfAbsent("lt", o)
      /\ OfAbsent("in", o) <=> ~OfAbsent("not_in", o)
      /\ OfAbsent("empty", o) <=> ~OfAbsent("filled", o)
      /\ OfAbsent("gte", o) <=> OfAbsent("gt", o) \/ OfAbsent("eq", o)
  BY DEF OfAbsent
<1>3. \A pair \in Opposites : OfAbsent(pair[1], o) <=> ~OfAbsent(pair[2], o)
  BY <1>2 DEF Opposites
<1> QED
  BY <1>1, <1>2, <1>3

\* OperatorsCoherent: of a comparison and its opposite exactly one holds, of a
\* value as of a missing one; evaluate_simple_condition treats the two apart.
THEOREM Coherent == Spec => []OperatorsCoherent
<1>1. ConditionInv => OperatorsCoherent
  <2> SUFFICES ASSUME ConditionInv, NEW g \in Given,
                      Subject[g] \notin {"@empty", "@filled", "@matches"}
               PROVE  /\ \A pair \in Opposites :
                            Apply(pair[1], SubjectValue(g), Operand[g])
                              = ~Apply(pair[2], SubjectValue(g), Operand[g])
                      /\ Apply("gte", SubjectValue(g), Operand[g])
                           = \/ Apply("gt", SubjectValue(g), Operand[g])
                             \/ Apply("eq", SubjectValue(g), Operand[g])
    BY DEF OperatorsCoherent
  <2>1. /\ context.value \in Value \cup {Absent}
        /\ context.all \in [FieldName -> Value \cup {Absent}]
    BY ConditionAssumption DEF ConditionInv
  <2>2. Operand[g] \in Value /\ Subject[g] \in {"@length", "@value", "@type"} \cup FieldName
    BY ConditionAssumption DEF SelfSubjects
  <2> DEFINE v == SubjectValue(g)
             o == Operand[g]
  <2>3. v \in Value \cup {Absent}
    BY <2>1, <2>2, ConditionAssumption DEF SubjectValue
  <2> HIDE DEF v
  <2>4. CASE v = Absent
    <3>1. \A op : Apply(op, v, o) = OfAbsent(op, o)
      BY <2>4 DEF Apply
    <3> QED
      BY <3>1, OppositesOfAbsent DEF v
  <2>5. CASE v # Absent
    <3>1. \A op : Apply(op, v, o) = OfValue(op, v, o)
      BY <2>5 DEF Apply
    <3>2. v \in Value /\ o \in Value
      BY <2>2, <2>3, <2>5
    <3> QED
      BY <3>1, <3>2, OppositesOfValue DEF v
  <2> QED
    BY <2>4, <2>5
<1> QED
  BY <1>1, ConditionInvariant, PTL
=============================================================================
