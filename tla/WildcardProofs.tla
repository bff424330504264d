--------------------------- MODULE WildcardProofs ---------------------------
(***************************************************************************)
(* Theorems about Wildcard: what an expansion finds is what the pattern    *)
(* means, all of it unless a limit is met, what is allocated for it is the *)
(* table's, and each path of an element reads that element, for any data,  *)
(* patterns and limits.                                                    *)
(*                                                                         *)
(* The lookup, the lengths and the walk over an array are folds; the first *)
(* part shows that a fold over a sequence is computed element by element.  *)
(***************************************************************************)
EXTENDS Wildcard, NaturalSets, SequenceTheorems, TLAPS

-----------------------------------------------------------------------------
\* Folds over sequences.

\* The greatest of some positions is one of them.
LEMMA GreatestPosition ==
  ASSUME NEW n \in Nat
  PROVE  \A S \in SUBSET (1 .. n) : S # {} =>
            Max(S) \in S /\ \A y \in S : Max(S) >= y
<1> DEFINE Has(m) == \A S \in SUBSET (1 .. m) : S # {} => \E x \in S : \A y \in S : x >= y
           N == {m \in Nat : Has(m)}
<1>1. 0 \in N
  <2>1. 1 .. 0 = {}
    OBVIOUS
  <2>2. Has(0)
    BY <2>1
  <2> QED
    BY <2>2
<1>2. \A m \in Nat : m \in N => m + 1 \in N
  <2> SUFFICES ASSUME NEW m \in Nat, Has(m), NEW S \in SUBSET (1 .. m + 1), S # {}
               PROVE  \E x \in S : \A y \in S : x >= y
    OBVIOUS
  <2>1. CASE m + 1 \in S
    <3>1. \A y \in S : m + 1 >= y
      OBVIOUS
    <3> QED
      BY <2>1, <3>1
  <2>2. CASE m + 1 \notin S
    <3>1. \A y \in S : y \in 1 .. m
      BY <2>2
    <3> QED
      BY <3>1
  <2> QED
    BY <2>1, <2>2
<1>3. n \in N
  <2> HIDE DEF N
  <2> QED
    BY <1>1, <1>2, AllNaturals
<1> QED
  BY <1>3 DEF Max

\* One step of a fold, over all sets of positions: what MapThenFoldSet defines.
Folds(g, n, base, step) ==
    g = [S \in SUBSET (1 .. n) |->
            IF S = {} THEN base ELSE step[<<g[S \ {Max(S)}], Max(S)>>]]

LEMMA FoldsExist ==
  ASSUME NEW V, NEW base \in V, NEW N \in Nat, NEW step \in [V \X (1 .. N) -> V]
  PROVE  \E g \in [SUBSET (1 .. N) -> V] : Folds(g, N, base, step)
<1> DEFINE Good(g, n) == g \in [SUBSET (1 .. n) -> V] /\ Folds(g, n, base, step)
           M == {n \in Nat : n <= N => \E g : Good(g, n)}
<1>1. 0 \in M
  <2> DEFINE g == [S \in SUBSET (1 .. 0) |-> base]
  <2>1. SUBSET (1 .. 0) = {{}}
    OBVIOUS
  <2>2. g \in [SUBSET (1 .. 0) -> V]
    OBVIOUS
  <2>3. Folds(g, 0, base, step)
    BY <2>1 DEF Folds
  <2> QED
    BY <2>2, <2>3
<1>2. \A n \in Nat : n \in M => n + 1 \in M
  <2> SUFFICES ASSUME NEW n \in Nat, n \in M, n + 1 <= N
               PROVE  \E g : Good(g, n + 1)
    <3> HIDE DEF Good
    <3> QED
      OBVIOUS
  <2>0. n <= N /\ \E g : Good(g, n)
    <3> HIDE DEF Good
    <3> QED
      OBVIOUS
  <2>1. PICK g : Good(g, n)
    BY <2>0
  <2> DEFINE h == [S \in SUBSET (1 .. n + 1) |->
                     IF n + 1 \in S THEN step[<<g[S \ {n + 1}], n + 1>>] ELSE g[S]]
  <2>a. \A i : i \in 1 .. n + 1 <=> i \in 1 .. n \/ i = n + 1
    OBVIOUS
  <2>2. \A S \in SUBSET (1 .. n + 1) : S \ {n + 1} \in SUBSET (1 .. n)
    BY <2>a
  <2>3. \A S \in SUBSET (1 .. n + 1) : n + 1 \notin S => S \in SUBSET (1 .. n)
    BY <2>a
  <2>4. h \in [SUBSET (1 .. n + 1) -> V]
    <3>1. n + 1 \in 1 .. N
      OBVIOUS
    <3>2. \A S \in SUBSET (1 .. n + 1) : g[S \ {n + 1}] \in V
      BY <2>1, <2>2
    <3>3. \A S \in SUBSET (1 .. n + 1) : n + 1 \notin S => g[S] \in V
      BY <2>1, <2>3
    <3>4. \A v \in V : step[<<v, n + 1>>] \in V
      BY <3>1
    <3> QED
      BY <3>2, <3>3, <3>4
  <2>5. \A S \in SUBSET (1 .. n + 1) :
           h[S] = IF S = {} THEN base ELSE step[<<h[S \ {Max(S)}], Max(S)>>]
    <3> SUFFICES ASSUME NEW S \in SUBSET (1 .. n + 1)
                 PROVE  h[S] = IF S = {} THEN base ELSE step[<<h[S \ {Max(S)}], Max(S)>>]
      OBVIOUS
    <3>1. CASE n + 1 \in S
      <4>1. n + 1 \in Nat /\ S # {}
        BY <3>1
      <4>2. Max(S) = n + 1
        <5>1. Max(S) \in S /\ Max(S) >= n + 1
          BY <3>1, <4>1, GreatestPosition
        <5>2. Max(S) \in 1 .. n + 1
          BY <5>1
        <5> QED
          BY <5>1, <5>2
      <4>3. h[S] = step[<<g[S \ {n + 1}], n + 1>>]
        BY <3>1
      <4>4. h[S \ {n + 1}] = g[S \ {n + 1}]
        <5>1. S \ {n + 1} \in SUBSET (1 .. n + 1) /\ n + 1 \notin S \ {n + 1}
          OBVIOUS
        <5> QED
          BY <5>1
      <4> HIDE DEF h
      <4> QED
        BY <3>1, <4>2, <4>3, <4>4
    <3>2. CASE n + 1 \notin S
      <4>1. S \in SUBSET (1 .. n)
        BY <2>3, <3>2
      <4>2. h[S] = g[S]
        BY <3>2
      <4>3. g[S] = IF S = {} THEN base ELSE step[<<g[S \ {Max(S)}], Max(S)>>]
        BY <2>1, <4>1 DEF Folds
      <4>4. S # {} => h[S \ {Max(S)}] = g[S \ {Max(S)}]
        <5>1. S \ {Max(S)} \in SUBSET (1 .. n + 1) /\ n + 1 \notin S \ {Max(S)}
          BY <3>2
        <5> QED
          BY <5>1
      <4> HIDE DEF h
      <4> QED
        BY <4>2, <4>3, <4>4
    <3> QED
      BY <3>1, <3>2
  <2>6. Folds(h, n + 1, base, step)
    BY <2>5 DEF Folds
  <2> HIDE DEF h
  <2> QED
    BY <2>4, <2>6
<1>3. N \in M
  <2> HIDE DEF M
  <2> QED
    BY <1>1, <1>2, AllNaturals
<1>4. \E g : Good(g, N)
  <2> HIDE DEF Good
  <2> QED
    BY <1>3
<1> QED
  BY <1>4

\* The last of the first positions.
LEMMA LastPosition ==
  ASSUME NEW n \in Nat, NEW i \in 0 .. n - 1
  PROVE  /\ (1 .. i + 1) \in SUBSET (1 .. n) /\ 1 .. i + 1 # {}
         /\ Max(1 .. i + 1) = i + 1
         /\ (1 .. i + 1) \ {i + 1} = 1 .. i
<1> DEFINE S == 1 .. i + 1
<1>1. \A j : j \in S <=> j \in 1 .. i \/ j = i + 1
  OBVIOUS
<1>2. i + 1 \in 1 .. n /\ i \in Nat /\ i + 1 \notin 1 .. i
  OBVIOUS
<1>3. \A j \in 1 .. i : j \in 1 .. n
  BY <1>2
<1>4. S \in SUBSET (1 .. n) /\ i + 1 \in S /\ S # {}
  BY <1>1, <1>2, <1>3
<1>5. Max(S) \in S /\ Max(S) >= i + 1
  BY <1>4, GreatestPosition
<1>6. Max(S) = i + 1
  BY <1>2, <1>5
<1>7. S \ {i + 1} = 1 .. i
  BY <1>1, <1>2
<1> QED
  BY <1>4, <1>6, <1>7

-----------------------------------------------------------------------------
\* The lookup, segment by segment, in given data.

ChildIn(d, loc, s) ==
    IF loc = Missing \/ loc \notin d.arrays THEN Missing
    ELSE IF s \in DOMAIN StringKey /\ Append(loc, StringKey[s]) \in d.places
         THEN Append(loc, StringKey[s])
    ELSE IF s \in DOMAIN IndexKey /\ Append(loc, IndexKey[s]) \in d.places
         THEN Append(loc, IndexKey[s])
    ELSE Missing

ReachedIn(d, path) == FoldLeft(LAMBDA loc, s : ChildIn(d, loc, s), <<>>, path)

\* F computes the lookup of a path of n segments.
LookupWalks(F, d, path, n) ==
    /\ F[1 .. 0] = <<>>
    /\ \A i \in 0 .. n - 1 : F[1 .. i + 1] = ChildIn(d, F[1 .. i], path[i + 1])
    /\ ReachedIn(d, path) = F[1 .. n]

\* The lookup of a path is a walk that takes one segment after the other.
LEMMA LookupWalk ==
  ASSUME NEW d, NEW n \in Nat, NEW path, DOMAIN path = 1 .. n
  PROVE  \E F : LookupWalks(F, d, path, n)
<1> DEFINE V == d.places \cup {Missing, <<>>}
           step == [q \in V \X (1 .. n) |-> ChildIn(d, q[1], path[q[2]])]
           Is(F) == F = [S \in SUBSET (1 .. n) |->
                           IF S = {} THEN <<>> ELSE ChildIn(d, F[S \ {Max(S)}], path[Max(S)])]
<1>1. \A loc, s : ChildIn(d, loc, s) \in V
  BY DEF ChildIn
<1>2. step \in [V \X (1 .. n) -> V]
  BY <1>1
<1>3. <<>> \in V
  OBVIOUS
<1>4. \A q \in V \X (1 .. n) : step[q] = ChildIn(d, q[1], path[q[2]])
  OBVIOUS
<1> HIDE DEF V, step
<1>5. PICK F \in [SUBSET (1 .. n) -> V] : Folds(F, n, <<>>, step)
  BY <1>2, <1>3, FoldsExist
<1>6. Is(F)
  <2>1. \A S \in SUBSET (1 .. n) : S # {} =>
           step[<<F[S \ {Max(S)}], Max(S)>>] = ChildIn(d, F[S \ {Max(S)}], path[Max(S)])
    <3> SUFFICES ASSUME NEW S \in SUBSET (1 .. n), S # {}
                 PROVE  step[<<F[S \ {Max(S)}], Max(S)>>]
                          = ChildIn(d, F[S \ {Max(S)}], path[Max(S)])
      OBVIOUS
    <3>1. Max(S) \in 1 .. n
      BY GreatestPosition
    <3>2. F[S \ {Max(S)}] \in V
      BY <1>5
    <3> QED
      BY <1>4, <3>1, <3>2
  <2>2. F = [S \in SUBSET (1 .. n) |-> F[S]]
    BY <1>5
  <2>3. \A S \in SUBSET (1 .. n) : F[S] =
           IF S = {} THEN <<>> ELSE ChildIn(d, F[S \ {Max(S)}], path[Max(S)])
    BY <1>5, <2>1 DEF Folds
  <2> QED
    BY <2>2, <2>3
<1>7. ReachedIn(d, path) = (CHOOSE G : Is(G))[1 .. n]
  BY DEF ReachedIn, FoldLeft, MapThenFoldSet
<1> DEFINE G == CHOOSE G : Is(G)
<1>8. Is(G)
  <2>1. \E H : Is(H)
    BY <1>6
  <2> HIDE DEF Is
  <2> QED
    BY <2>1
<1>9. G[1 .. 0] = <<>>
  <2>1. 1 .. 0 = {} /\ {} \in SUBSET (1 .. n)
    OBVIOUS
  <2> HIDE DEF G
  <2> QED
    BY <1>8, <2>1
<1>10. \A i \in 0 .. n - 1 : G[1 .. i + 1] = ChildIn(d, G[1 .. i], path[i + 1])
  <2> HIDE DEF G
  <2> SUFFICES ASSUME NEW i \in 0 .. n - 1
               PROVE  G[1 .. i + 1] = ChildIn(d, G[1 .. i], path[i + 1])
    OBVIOUS
  <2> DEFINE S == 1 .. i + 1
  <2>1. S \in SUBSET (1 .. n) /\ S # {} /\ Max(S) = i + 1 /\ S \ {i + 1} = 1 .. i
    BY LastPosition
  <2> HIDE DEF S
  <2>2. G[S] = ChildIn(d, G[S \ {Max(S)}], path[Max(S)])
    BY <1>8, <2>1
  <2> QED
    BY <2>1, <2>2 DEF S
<1>11. LookupWalks(G, d, path, n)
  <2> HIDE DEF G
  <2> QED
    BY <1>7, <1>9, <1>10 DEF LookupWalks, G
<1> QED
  BY <1>11

LEMMA ReachedRoot ==
  ASSUME NEW d
  PROVE  ReachedIn(d, <<>>) = <<>>
<1>1. DOMAIN <<>> = 1 .. 0
  <2>1. DOMAIN <<>> = 1 .. Len(<<>>) /\ Len(<<>>) = 0
    OBVIOUS
  <2> QED
    BY <2>1
<1>2. PICK F : LookupWalks(F, d, <<>>, 0)
  BY <1>1, LookupWalk
<1> QED
  BY <1>2 DEF LookupWalks

\* One segment more is one child deeper.
LEMMA ReachedChild ==
  ASSUME NEW d, NEW T, NEW path \in Seq(T), NEW s \in T
  PROVE  ReachedIn(d, Append(path, s)) = ChildIn(d, ReachedIn(d, path), s)
<1> DEFINE n == Len(path)
           longer == Append(path, s)
<1>1. /\ n \in Nat /\ n + 1 \in Nat /\ DOMAIN path = 1 .. n /\ DOMAIN longer = 1 .. n + 1
      /\ \A i \in 1 .. n : longer[i] = path[i]
      /\ longer[n + 1] = s
  OBVIOUS
<1> HIDE DEF longer, n
<1>2. PICK F : LookupWalks(F, d, path, n)
  BY <1>1, LookupWalk
<1>3. PICK G : LookupWalks(G, d, longer, n + 1)
  BY <1>1, LookupWalk
<1> DEFINE S == {i \in Nat : i <= n => F[1 .. i] = G[1 .. i]}
<1>4. 0 \in S
  BY <1>2, <1>3 DEF LookupWalks
<1>5. \A i \in Nat : i \in S => i + 1 \in S
  <2> SUFFICES ASSUME NEW i \in Nat, i <= n => F[1 .. i] = G[1 .. i], i + 1 <= n
               PROVE  F[1 .. i + 1] = G[1 .. i + 1]
    OBVIOUS
  <2>1. i \in 0 .. n - 1 /\ i \in 0 .. (n + 1) - 1 /\ i + 1 \in 1 .. n /\ i <= n
    BY <1>1
  <2> QED
    BY <1>1, <1>2, <1>3, <2>1 DEF LookupWalks
<1>6. F[1 .. n] = G[1 .. n]
  <2>1. n \in S
    <3> HIDE DEF S
    <3> QED
      BY <1>1, <1>4, <1>5, AllNaturals
  <2> QED
    BY <1>1, <2>1
<1>7. n \in 0 .. (n + 1) - 1
  BY <1>1
<1> QED
  BY <1>1, <1>2, <1>3, <1>6, <1>7 DEF LookupWalks, longer

-----------------------------------------------------------------------------
\* The length of a path.

Total(path) == FoldLeft(LAMBDA n, s : n + SegSize[s], 0, path)

\* F computes the length of a path of n segments.
TotalWalks(F, path, n) ==
    /\ F[1 .. 0] = 0
    /\ \A i \in 0 .. n - 1 : F[1 .. i + 1] = F[1 .. i] + SegSize[path[i + 1]]
    /\ Total(path) = F[1 .. n]

LEMMA TotalWalk ==
  ASSUME NEW n \in Nat, NEW path, DOMAIN path = 1 .. n, \A i \in 1 .. n : path[i] \in Seg
  PROVE  \E F : TotalWalks(F, path, n)
<1> DEFINE step == [q \in Nat \X (1 .. n) |-> q[1] + SegSize[path[q[2]]]]
           Is(F) == F = [S \in SUBSET (1 .. n) |->
                           IF S = {} THEN 0 ELSE F[S \ {Max(S)}] + SegSize[path[Max(S)]]]
<1>1. \A s \in Seg : SegSize[s] \in Nat
  BY WildcardAssumption
<1>2. step \in [Nat \X (1 .. n) -> Nat]
  <2>1. \A q \in Nat \X (1 .. n) : q[1] + SegSize[path[q[2]]] \in Nat
    BY <1>1
  <2> QED
    BY <2>1
<1>4. \A q \in Nat \X (1 .. n) : step[q] = q[1] + SegSize[path[q[2]]]
  OBVIOUS
<1> HIDE DEF step
<1>5. PICK F \in [SUBSET (1 .. n) -> Nat] : Folds(F, n, 0, step)
  BY <1>2, FoldsExist
<1>6. Is(F)
  <2>1. \A S \in SUBSET (1 .. n) : S # {} =>
           step[<<F[S \ {Max(S)}], Max(S)>>] = F[S \ {Max(S)}] + SegSize[path[Max(S)]]
    <3> SUFFICES ASSUME NEW S \in SUBSET (1 .. n), S # {}
                 PROVE  step[<<F[S \ {Max(S)}], Max(S)>>]
                          = F[S \ {Max(S)}] + SegSize[path[Max(S)]]
      OBVIOUS
    <3>1. Max(S) \in 1 .. n
      BY GreatestPosition
    <3>2. F[S \ {Max(S)}] \in Nat
      BY <1>5
    <3> QED
      BY <1>4, <3>1, <3>2
  <2>2. F = [S \in SUBSET (1 .. n) |-> F[S]]
    BY <1>5
  <2>3. \A S \in SUBSET (1 .. n) : F[S] =
           IF S = {} THEN 0 ELSE F[S \ {Max(S)}] + SegSize[path[Max(S)]]
    BY <1>5, <2>1 DEF Folds
  <2> QED
    BY <2>2, <2>3
<1>7. Total(path) = (CHOOSE G : Is(G))[1 .. n]
  BY DEF Total, FoldLeft, MapThenFoldSet
<1> DEFINE G == CHOOSE G : Is(G)
<1>8. Is(G)
  <2>1. \E H : Is(H)
    BY <1>6
  <2> HIDE DEF Is
  <2> QED
    BY <2>1
<1>9. G[1 .. 0] = 0
  <2>1. 1 .. 0 = {} /\ {} \in SUBSET (1 .. n)
    OBVIOUS
  <2> HIDE DEF G
  <2> QED
    BY <1>8, <2>1
<1>10. \A i \in 0 .. n - 1 : G[1 .. i + 1] = G[1 .. i] + SegSize[path[i + 1]]
  <2> HIDE DEF G
  <2> SUFFICES ASSUME NEW i \in 0 .. n - 1
               PROVE  G[1 .. i + 1] = G[1 .. i] + SegSize[path[i + 1]]
    OBVIOUS
  <2> DEFINE S == 1 .. i + 1
  <2>1. S \in SUBSET (1 .. n) /\ S # {} /\ Max(S) = i + 1 /\ S \ {i + 1} = 1 .. i
    BY LastPosition
  <2> HIDE DEF S
  <2>2. G[S] = G[S \ {Max(S)}] + SegSize[path[Max(S)]]
    BY <1>8, <2>1
  <2> QED
    BY <2>1, <2>2 DEF S
<1>11. TotalWalks(G, path, n)
  <2> HIDE DEF G
  <2> QED
    BY <1>7, <1>9, <1>10 DEF TotalWalks, G
<1> QED
  BY <1>11

LEMMA TotalNone == Total(<<>>) = 0
<1>1. DOMAIN <<>> = 1 .. 0 /\ 1 .. 0 = {}
  <2>1. DOMAIN <<>> = 1 .. Len(<<>>) /\ Len(<<>>) = 0
    OBVIOUS
  <2> QED
    BY <2>1
<1>2. PICK F : TotalWalks(F, <<>>, 0)
  BY <1>1, TotalWalk
<1> QED
  BY <1>2 DEF TotalWalks

LEMMA TotalMore ==
  ASSUME NEW path \in Seq(Seg), NEW s \in Seg
  PROVE  Total(Append(path, s)) = Total(path) + SegSize[s]
<1> DEFINE n == Len(path)
           longer == Append(path, s)
<1>1. /\ n \in Nat /\ n + 1 \in Nat /\ DOMAIN path = 1 .. n /\ DOMAIN longer = 1 .. n + 1
      /\ \A i \in 1 .. n : longer[i] = path[i] /\ path[i] \in Seg
      /\ longer[n + 1] = s
      /\ \A i \in 1 .. n + 1 : longer[i] \in Seg
  OBVIOUS
<1> HIDE DEF longer, n
<1>2. PICK F : TotalWalks(F, path, n)
  BY <1>1, TotalWalk
<1>3. PICK G : TotalWalks(G, longer, n + 1)
  BY <1>1, TotalWalk
<1> DEFINE S == {i \in Nat : i <= n => F[1 .. i] = G[1 .. i]}
<1>4. 0 \in S
  BY <1>2, <1>3 DEF TotalWalks
<1>5. \A i \in Nat : i \in S => i + 1 \in S
  <2> SUFFICES ASSUME NEW i \in Nat, i <= n => F[1 .. i] = G[1 .. i], i + 1 <= n
               PROVE  F[1 .. i + 1] = G[1 .. i + 1]
    OBVIOUS
  <2>1. i \in 0 .. n - 1 /\ i \in 0 .. (n + 1) - 1 /\ i + 1 \in 1 .. n /\ i <= n
    BY <1>1
  <2> QED
    BY <1>1, <1>2, <1>3, <2>1 DEF TotalWalks
<1>6. F[1 .. n] = G[1 .. n]
  <2>1. n \in S
    <3> HIDE DEF S
    <3> QED
      BY <1>1, <1>4, <1>5, AllNaturals
  <2> QED
    BY <1>1, <2>1
<1>7. n \in 0 .. (n + 1) - 1
  BY <1>1
<1> QED
  BY <1>1, <1>2, <1>3, <1>6, <1>7 DEF TotalWalks, longer

-----------------------------------------------------------------------------
\* Beginnings of sequences.

LEMMA Beginning ==
  ASSUME NEW T, NEW p \in Seq(T), NEW i \in 0 .. Len(p)
  PROVE  /\ SubSeq(p, 1, i) \in Seq(T) /\ Len(SubSeq(p, 1, i)) = i
         /\ \A j \in 1 .. i : SubSeq(p, 1, i)[j] = p[j]
<1>1. i \in Nat /\ Len(p) \in Nat /\ i <= Len(p)
  OBVIOUS
<1>2. \A j \in 1 .. i : j \in 1 .. Len(p) /\ p[j] \in T
  BY <1>1
<1> QED
  BY <1>1, <1>2

LEMMA BeginningEnds ==
  ASSUME NEW T, NEW p \in Seq(T)
  PROVE  SubSeq(p, 1, 0) = <<>> /\ SubSeq(p, 1, Len(p)) = p
<1>1. SubSeq(p, 1, Len(p)) = p
  <2>1. Len(p) \in 0 .. Len(p)
    OBVIOUS
  <2> DEFINE q == SubSeq(p, 1, Len(p))
  <2>2. q \in Seq(T) /\ Len(q) = Len(p) /\ \A j \in 1 .. Len(p) : q[j] = p[j]
    BY <2>1, Beginning
  <2> HIDE DEF q
  <2>3. q = p
    BY <2>2, SeqEqual
  <2> QED
    BY <2>3 DEF q
<1>2. SubSeq(p, 1, 0) = <<>>
  <2>1. 0 \in 0 .. Len(p)
    OBVIOUS
  <2>2. SubSeq(p, 1, 0) \in Seq(T) /\ Len(SubSeq(p, 1, 0)) = 0
    BY <2>1, Beginning
  <2> QED
    BY <2>2
<1> QED
  BY <1>1, <1>2

LEMMA BeginningGrows ==
  ASSUME NEW T, NEW p \in Seq(T), NEW i \in 0 .. Len(p) - 1
  PROVE  SubSeq(p, 1, i + 1) = Append(SubSeq(p, 1, i), p[i + 1])
<1> DEFINE q == SubSeq(p, 1, i)
           r == SubSeq(p, 1, i + 1)
<1>1. i \in 0 .. Len(p) /\ i + 1 \in 0 .. Len(p) /\ i + 1 \in 1 .. Len(p) /\ i \in Nat
  OBVIOUS
<1>2. q \in Seq(T) /\ Len(q) = i /\ \A j \in 1 .. i : q[j] = p[j]
  BY <1>1, Beginning
<1>3. r \in Seq(T) /\ Len(r) = i + 1 /\ \A j \in 1 .. i + 1 : r[j] = p[j]
  BY <1>1, Beginning
<1>4. p[i + 1] \in T
  BY <1>1
<1> HIDE DEF q, r
<1>5. Append(q, p[i + 1]) \in Seq(T) /\ Len(Append(q, p[i + 1])) = i + 1
  BY <1>2, <1>4
<1>6. \A j \in 1 .. i + 1 : Append(q, p[i + 1])[j] = r[j]
  BY <1>1, <1>2, <1>3
<1>7. r = Append(q, p[i + 1])
  BY <1>3, <1>5, <1>6, SeqEqual
<1> QED
  BY <1>7 DEF q, r

\* The parts of a path are no longer than it.
LEMMA TotalGrows ==
  ASSUME NEW p \in Seq(Seg)
  PROVE  /\ Total(p) \in Nat
         /\ \A i \in 0 .. Len(p) :
               Total(SubSeq(p, 1, i)) \in Nat /\ Total(SubSeq(p, 1, i)) <= Total(p)
<1> DEFINE At(i) == Total(SubSeq(p, 1, i))
           S == {n \in Nat : n <= Len(p) => At(n) \in Nat /\ \A i \in 0 .. n : At(i) \in Nat /\ At(i) <= At(n)}
<1>0. At(0) = 0 /\ At(Len(p)) = Total(p)
  BY BeginningEnds, TotalNone
<1>a. \A s \in Seg : SegSize[s] \in Nat
  BY WildcardAssumption
<1>1. 0 \in S
  <2>1. \A i \in 0 .. 0 : i = 0
    OBVIOUS
  <2> HIDE DEF At
  <2> QED
    BY <1>0, <2>1
<1>2. \A n \in Nat : n \in S => n + 1 \in S
  <2> SUFFICES ASSUME NEW n \in Nat, n \in S, n + 1 <= Len(p)
               PROVE  /\ At(n + 1) \in Nat
                      /\ \A i \in 0 .. n + 1 : At(i) \in Nat /\ At(i) <= At(n + 1)
    <3> HIDE DEF At
    <3> QED
      OBVIOUS
  <2>1. n \in 0 .. Len(p) /\ n \in 0 .. Len(p) - 1 /\ n + 1 \in 1 .. Len(p) /\ n <= Len(p)
    OBVIOUS
  <2>2. p[n + 1] \in Seg /\ SubSeq(p, 1, n) \in Seq(Seg)
    BY <2>1, Beginning
  <2>3. At(n + 1) = At(n) + SegSize[p[n + 1]]
    BY <2>1, <2>2, BeginningGrows, TotalMore
  <2>4. At(n) \in Nat /\ \A i \in 0 .. n : At(i) \in Nat /\ At(i) <= At(n)
    <3> HIDE DEF At
    <3> QED
      BY <2>1
  <2>5. \A i \in 0 .. n + 1 : i \in 0 .. n \/ i = n + 1
    OBVIOUS
  <2> HIDE DEF At
  <2> QED
    BY <1>a, <2>2, <2>3, <2>4, <2>5
<1>3. Len(p) \in S
  <2> HIDE DEF S
  <2> QED
    BY <1>1, <1>2, AllNaturals
<1>4. At(Len(p)) \in Nat /\ \A i \in 0 .. Len(p) : At(i) \in Nat /\ At(i) <= At(Len(p))
  <2> HIDE DEF At
  <2> QED
    BY <1>3
<1> QED
  BY <1>0, <1>4

-----------------------------------------------------------------------------
\* The keys of an array.

LEMMA KeyOrderHolds ==
  /\ KeyOrder \in Seq(Key)
  /\ \A i \in 1 .. Len(KeyOrder) : KeyOrder[i] \in Key
  /\ \A k \in Key : \E i \in 1 .. Len(KeyOrder) : KeyOrder[i] = k
<1>1. KeyOrder \in Seq(Key) /\ ToSet(KeyOrder) = Key
  BY WildcardAssumption
<1>2. DOMAIN KeyOrder = 1 .. Len(KeyOrder)
  BY <1>1
<1>3. \A k \in Key : \E i \in 1 .. Len(KeyOrder) : KeyOrder[i] = k
  BY <1>1, <1>2 DEF ToSet
<1>4. \A i \in 1 .. Len(KeyOrder) : KeyOrder[i] \in Key
  BY <1>1
<1> QED
  BY <1>1, <1>3, <1>4

KeysIn(d, loc) ==
    FoldLeft(LAMBDA keys, k : IF Append(loc, k) \in d.places THEN Append(keys, k) ELSE keys,
             <<>>, KeyOrder)

\* F computes the keys of loc among the first n of the order.
KeysWalk(F, d, loc, n) ==
    /\ F[1 .. 0] = <<>>
    /\ \A i \in 0 .. n - 1 : F[1 .. i + 1] =
          IF Append(loc, KeyOrder[i + 1]) \in d.places
          THEN Append(F[1 .. i], KeyOrder[i + 1]) ELSE F[1 .. i]
    /\ KeysIn(d, loc) = F[1 .. n]

LEMMA KeysWalked ==
  ASSUME NEW d, NEW loc, NEW n \in Nat, n = Len(KeyOrder)
  PROVE  \E F : KeysWalk(F, d, loc, n)
<1> DEFINE V == Seq(Key)
           Turn(v, i) == IF Append(loc, KeyOrder[i]) \in d.places
                         THEN Append(v, KeyOrder[i]) ELSE v
           step == [q \in V \X (1 .. n) |-> Turn(q[1], q[2])]
           Is(F) == F = [S \in SUBSET (1 .. n) |->
                           IF S = {} THEN <<>> ELSE Turn(F[S \ {Max(S)}], Max(S))]
<1>0. DOMAIN KeyOrder = 1 .. n /\ \A i \in 1 .. n : KeyOrder[i] \in Key
  BY KeyOrderHolds
<1>1. \A v \in V, i \in 1 .. n : Turn(v, i) \in V
  BY <1>0
<1>2. <<>> \in V
  OBVIOUS
<1>a. \A q \in V \X (1 .. n) : q[1] \in V /\ q[2] \in 1 .. n
  OBVIOUS
<1>b. \A v \in V, i \in 1 .. n : <<v, i>> \in V \X (1 .. n) /\ <<v, i>>[1] = v /\ <<v, i>>[2] = i
  OBVIOUS
<1>3. step \in [V \X (1 .. n) -> V]
  <2> HIDE DEF V, Turn
  <2> QED
    BY <1>1, <1>a
<1>4. \A v \in V, i \in 1 .. n : step[<<v, i>>] = Turn(v, i)
  <2> HIDE DEF V, Turn
  <2> QED
    BY <1>b
<1>5. PICK F \in [SUBSET (1 .. n) -> V] : Folds(F, n, <<>>, step)
  <2> HIDE DEF V, step
  <2> QED
    BY <1>2, <1>3, FoldsExist
<1>6. Is(F)
  <2> HIDE DEF V, Turn, step
  <2>1. \A S \in SUBSET (1 .. n) : S # {} =>
           step[<<F[S \ {Max(S)}], Max(S)>>] = Turn(F[S \ {Max(S)}], Max(S))
    <3> SUFFICES ASSUME NEW S \in SUBSET (1 .. n), S # {}
                 PROVE  step[<<F[S \ {Max(S)}], Max(S)>>] = Turn(F[S \ {Max(S)}], Max(S))
      OBVIOUS
    <3>1. Max(S) \in 1 .. n
      BY GreatestPosition
    <3>2. F[S \ {Max(S)}] \in V
      BY <1>5
    <3> QED
      BY <1>4, <3>1, <3>2
  <2>2. F = [S \in SUBSET (1 .. n) |-> F[S]]
    BY <1>5
  <2>3. \A S \in SUBSET (1 .. n) : F[S] =
           IF S = {} THEN <<>> ELSE Turn(F[S \ {Max(S)}], Max(S))
    BY <1>5, <2>1 DEF Folds
  <2> QED
    BY <2>2, <2>3
<1>7. KeysIn(d, loc) = (CHOOSE G : Is(G))[1 .. n]
  BY <1>0 DEF KeysIn, FoldLeft, MapThenFoldSet
<1> DEFINE G == CHOOSE G : Is(G)
<1>8. Is(G)
  <2>1. \E H : Is(H)
    BY <1>6
  <2> HIDE DEF Is
  <2> QED
    BY <2>1
<1>9. G[1 .. 0] = <<>>
  <2>1. 1 .. 0 = {} /\ {} \in SUBSET (1 .. n)
    OBVIOUS
  <2> HIDE DEF G, Turn
  <2> QED
    BY <1>8, <2>1
<1>10. \A i \in 0 .. n - 1 : G[1 .. i + 1] = Turn(G[1 .. i], i + 1)
  <2> HIDE DEF G, Turn
  <2> SUFFICES ASSUME NEW i \in 0 .. n - 1
               PROVE  G[1 .. i + 1] = Turn(G[1 .. i], i + 1)
    OBVIOUS
  <2> DEFINE S == 1 .. i + 1
  <2>1. S \in SUBSET (1 .. n) /\ S # {} /\ Max(S) = i + 1 /\ S \ {i + 1} = 1 .. i
    BY LastPosition
  <2> HIDE DEF S
  <2>2. G[S] = Turn(G[S \ {Max(S)}], Max(S))
    BY <1>8, <2>1
  <2> QED
    BY <2>1, <2>2 DEF S
<1>11. KeysWalk(G, d, loc, n)
  <2> HIDE DEF G
  <2> QED
    BY <1>7, <1>9, <1>10 DEF KeysWalk, G
<1> QED
  BY <1>11

\* The walk over an array meets its keys, and nothing else.
LEMMA KeysFound ==
  ASSUME NEW d, NEW loc
  PROVE  /\ KeysIn(d, loc) \in Seq(Key)
         /\ ToSet(KeysIn(d, loc)) = {k \in Key : Append(loc, k) \in d.places}
<1> DEFINE n == Len(KeyOrder)
<1>1. /\ n \in Nat /\ KeyOrder \in Seq(Key)
      /\ \A i \in 1 .. n : KeyOrder[i] \in Key
      /\ \A k \in Key : \E i \in 1 .. n : KeyOrder[i] = k
  BY KeyOrderHolds
<1> HIDE DEF n
<1>2. PICK F : KeysWalk(F, d, loc, n)
  BY <1>1, KeysWalked DEF n
<1> DEFINE Right(keys, i) ==
              /\ keys \in Seq(Key)
              /\ \A j \in 1 .. Len(keys) : Append(loc, keys[j]) \in d.places
              /\ \A j \in 1 .. i : Append(loc, KeyOrder[j]) \in d.places =>
                    \E l \in 1 .. Len(keys) : keys[l] = KeyOrder[j]
           S == {i \in Nat : i <= n => Right(F[1 .. i], i)}
<1>3. 0 \in S
  <2>1. F[1 .. 0] = <<>>
    BY <1>2 DEF KeysWalk
  <2>2. Right(<<>>, 0)
    OBVIOUS
  <2> HIDE DEF Right
  <2> QED
    BY <2>1, <2>2
<1>4. \A i \in Nat : i \in S => i + 1 \in S
  <2> SUFFICES ASSUME NEW i \in Nat, i \in S, i + 1 <= n
               PROVE  Right(F[1 .. i + 1], i + 1)
    <3> HIDE DEF Right
    <3> QED
      OBVIOUS
  <2>1. i \in 0 .. n - 1 /\ i + 1 \in 1 .. n /\ i <= n
    BY <1>1
  <2>2. Right(F[1 .. i], i)
    <3> HIDE DEF Right
    <3> QED
      BY <2>1
  <2> DEFINE keys == F[1 .. i]
             k == KeyOrder[i + 1]
  <2>3. \A j \in 1 .. i + 1 : j \in 1 .. i \/ j = i + 1
    OBVIOUS
  <2>4. k \in Key
    BY <1>1, <2>1
  <2>5. CASE Append(loc, k) \in d.places
    <3>1. F[1 .. i + 1] = Append(keys, k)
      BY <1>2, <2>1, <2>5 DEF KeysWalk
    <3>2. Right(keys, i)
      BY <2>2
    <3> DEFINE more == Append(keys, k)
    <3> HIDE DEF keys, k
    <3>3. /\ more \in Seq(Key) /\ Len(more) = Len(keys) + 1 /\ Len(keys) \in Nat
          /\ \A j \in 1 .. Len(keys) : more[j] = keys[j]
          /\ more[Len(keys) + 1] = k
      BY <2>4, <3>2
    <3> HIDE DEF more
    <3>4. \A j \in 1 .. Len(more) : Append(loc, more[j]) \in d.places
      <4>1. \A j \in 1 .. Len(more) : j \in 1 .. Len(keys) \/ j = Len(keys) + 1
        BY <3>3
      <4> QED
        BY <2>5, <3>2, <3>3, <4>1
    <3>5. \A j \in 1 .. i + 1 : Append(loc, KeyOrder[j]) \in d.places =>
             \E l \in 1 .. Len(more) : more[l] = KeyOrder[j]
      <4>1. \A j \in 1 .. i : Append(loc, KeyOrder[j]) \in d.places =>
               \E l \in 1 .. Len(keys) : keys[l] = KeyOrder[j]
        BY <3>2
      <4>2. \A l \in 1 .. Len(keys) : l \in 1 .. Len(more)
        BY <3>3
      <4>3. Len(keys) + 1 \in 1 .. Len(more)
        BY <3>3
      <4>4. \A j \in 1 .. i : Append(loc, KeyOrder[j]) \in d.places =>
               \E l \in 1 .. Len(more) : more[l] = KeyOrder[j]
        BY <3>3, <4>1, <4>2
      <4>5. \E l \in 1 .. Len(more) : more[l] = KeyOrder[i + 1]
        BY <3>3, <4>3 DEF k
      <4> QED
        BY <2>3, <4>4, <4>5
    <3>6. Right(more, i + 1)
      BY <3>3, <3>4, <3>5
    <3> HIDE DEF Right
    <3> QED
      BY <3>1, <3>6 DEF more
  <2>6. CASE Append(loc, k) \notin d.places
    <3>1. F[1 .. i + 1] = keys
      BY <1>2, <2>1, <2>6 DEF KeysWalk
    <3>2. Right(keys, i)
      BY <2>2
    <3> HIDE DEF keys
    <3>3. Right(keys, i + 1)
      BY <2>3, <2>6, <3>2
    <3> HIDE DEF Right
    <3> QED
      BY <3>1, <3>3
  <2> QED
    BY <2>5, <2>6
<1>5. n \in S
  <2> HIDE DEF S
  <2> QED
    BY <1>1, <1>3, <1>4, AllNaturals
<1>6. Right(F[1 .. n], n)
  <2> HIDE DEF Right
  <2> QED
    BY <1>1, <1>5
<1> DEFINE keys == KeysIn(d, loc)
<1>7. Right(keys, n)
  <2>1. keys = F[1 .. n]
    BY <1>2 DEF KeysWalk
  <2> HIDE DEF Right, keys
  <2> QED
    BY <1>6, <2>1
<1> HIDE DEF keys
<1>8. \A k \in ToSet(keys) : k \in Key /\ Append(loc, k) \in d.places
  BY <1>7 DEF ToSet
<1>9. \A k \in Key : Append(loc, k) \in d.places => k \in ToSet(keys)
  <2> SUFFICES ASSUME NEW k \in Key, Append(loc, k) \in d.places
               PROVE  k \in ToSet(keys)
    OBVIOUS
  <2>1. PICK j \in 1 .. n : KeyOrder[j] = k
    BY <1>1
  <2>2. PICK l \in 1 .. Len(keys) : keys[l] = k
    BY <1>7, <2>1
  <2>3. l \in DOMAIN keys
    BY <1>7
  <2> QED
    BY <2>2, <2>3 DEF ToSet
<1>10. keys \in Seq(Key) /\ ToSet(keys) = {k \in Key : Append(loc, k) \in d.places}
  <2>1. keys \in Seq(Key)
    BY <1>7
  <2> QED
    BY <1>8, <1>9, <2>1
<1> QED
  BY <1>10 DEF keys

-----------------------------------------------------------------------------
\* The operators of the model in given data: their values then only change
\* when the data does, and it never does.

GetIn(d, path) ==
    IF path = EmptyText THEN Missing ELSE ReachedIn(d, Segments(path))

ArrayIn(d, prefix) ==
    LET loc == IF prefix = EmptyText THEN <<>> ELSE GetIn(d, prefix)
    IN  IF loc \in d.arrays THEN loc ELSE Missing

PlainIn(d) == \A loc \in d.places : loc # <<>> => PlainKey(Last(loc))

\* The segments a prefix holds, and the prefix that holds some segments.
Taken(prefix) == IF prefix = EmptyText THEN <<>> ELSE prefix

Shown(taken) == IF taken = <<>> THEN EmptyText ELSE taken

\* Segment i of p is what the pattern means there, in an array that is there.
Agrees(d, pat, p, i) ==
    LET place == ArrayIn(d, Shown(SubSeq(p, 1, i - 1))) IN
    /\ place # Missing
    /\ IF pat[i] = "*"
       THEN \E k \in Key : Append(place, k) \in d.places /\ Text[k] = <<p[i]>>
       ELSE p[i] = pat[i]

MeantIn(d, pat, p) ==
    Len(p) = Len(pat) /\ \A i \in 1 .. Len(pat) : Agrees(d, pat, p, i)

LEMMA GetIsIn ==
  ASSUME NEW path
  PROVE  GetNestedValue(path) = GetIn(data, path)
BY DEF GetNestedValue, GetIn, ReachedIn, Child, ChildIn

LEMMA GetIsInNext == (\A path : GetNestedValue(path) = GetIn(data, path))'
<1>1. \A path : GetNestedValue(path) = GetIn(data, path)
  BY GetIsIn
<1> QED
  BY <1>1, PTL

LEMMA ArrayIsIn ==
  ASSUME NEW prefix
  PROVE  ArrayAt(prefix) = ArrayIn(data, prefix)
BY GetIsIn DEF ArrayAt, ArrayIn

LEMMA ArrayIsInNext == (\A prefix : ArrayAt(prefix) = ArrayIn(data, prefix))'
<1>1. \A prefix : ArrayAt(prefix) = ArrayIn(data, prefix)
  BY ArrayIsIn
<1> QED
  BY <1>1, PTL

LEMMA KeysIsIn ==
  ASSUME NEW loc
  PROVE  KeysOf(loc) = KeysIn(data, loc)
BY DEF KeysOf, KeysIn

LEMMA KeysIsInNext == (\A loc : KeysOf(loc) = KeysIn(data, loc))'
<1>1. \A loc : KeysOf(loc) = KeysIn(data, loc)
  BY KeysIsIn
<1> QED
  BY <1>1, PTL

-----------------------------------------------------------------------------
\* What the assumption on the constants says, part by part.

LEMMA TreesHold ==
  ASSUME NEW d \in Trees
  PROVE  /\ d.places \subseteq Seq(Key) /\ d.arrays \subseteq d.places /\ <<>> \in d.arrays
BY WildcardAssumption

LEMMA LimitsHold ==
  /\ MAX_PATH_LENGTH \in Nat /\ MAX_WILDCARD_DEPTH \in Nat /\ MAX_EXPANDED_FIELDS \in Nat
  /\ \A s \in Seg : SegSize[s] \in Nat
  /\ \A k \in Key : KeySize[k] \in Nat
  /\ SegSize[EmptySeg] = 0 /\ EmptySeg \in Seg
<1>1. {MAX_PATH_LENGTH, MAX_WILDCARD_DEPTH, MAX_EXPANDED_FIELDS} \subseteq Nat
  BY WildcardAssumption
<1>2. SegSize \in [Seg -> Nat] /\ KeySize \in [Key -> Nat] /\ SegSize[EmptySeg] = 0 /\ EmptySeg \in Seg
  BY WildcardAssumption
<1> QED
  BY <1>1, <1>2

LEMMA TextHolds ==
  ASSUME NEW k \in Key
  PROVE  Text[k] \in Seq(Seg) /\ Text[k] # <<>>
<1>1. Text \in [Key -> Seq(Seg) \ {<<>>}]
  BY WildcardAssumption
<1> QED
  BY <1>1

LEMMA PatternHolds ==
  ASSUME NEW pat \in Patterns
  PROVE  /\ pat \in Seq(Seg) /\ Len(pat) \in Nat /\ Len(pat) >= 1
         /\ \A i \in 1 .. Len(pat) : pat[i] \in Seg /\ pat[i] # EmptySeg
         /\ Segments(pat) = pat
<1>1. FieldName(pat)
  BY WildcardAssumption
<1>2. pat \in Seq(Seg) /\ pat # <<>> /\ EmptySeg \notin ToSet(pat)
  BY <1>1 DEF FieldName
<1>3. Len(pat) \in Nat /\ Len(pat) >= 1 /\ DOMAIN pat = 1 .. Len(pat)
  BY <1>2
<1>4. \A i \in 1 .. Len(pat) : pat[i] \in Seg /\ pat[i] # EmptySeg
  BY <1>2, <1>3 DEF ToSet
<1>5. Last(pat) # EmptySeg
  BY <1>3, <1>4 DEF Last
<1> QED
  BY <1>2, <1>3, <1>4, <1>5 DEF Segments

-----------------------------------------------------------------------------
\* One segment more, in the pattern and in a prefix.

LEMMA RestMoves ==
  ASSUME NEW T, NEW p \in Seq(T), NEW i \in 0 .. Len(p)
  PROVE  LET rest == SubSeq(p, i + 1, Len(p)) IN
         /\ rest \in Seq(T)
         /\ rest = <<>> <=> i = Len(p)
         /\ i < Len(p) => /\ Head(rest) = p[i + 1] /\ i + 1 \in 1 .. Len(p)
                          /\ Tail(rest) = SubSeq(p, i + 2, Len(p))
<1> DEFINE rest == SubSeq(p, i + 1, Len(p))
<1>1. i \in Nat /\ Len(p) \in Nat /\ i <= Len(p)
  OBVIOUS
<1>2. rest \in Seq(T)
  BY <1>1
<1>3. CASE i = Len(p)
  <2>1. rest = <<>>
    BY <1>1, <1>3, SubSeqEmpty
  <2> QED
    BY <1>1, <1>2, <1>3, <2>1
<1>4. CASE i < Len(p)
  <2>1. i + 1 \in 1 .. Len(p) /\ Len(p) \in i + 1 .. Len(p) /\ (i + 1) + 1 = i + 2
    BY <1>1, <1>4
  <2>2. Head(rest) = p[i + 1] /\ Tail(rest) = SubSeq(p, (i + 1) + 1, Len(p))
    BY <2>1, HeadTailOfSubSeq
  <2>3. Len(rest) = Len(p) - i
    <3>1. \A j \in i + 1 .. Len(p) : p[j] \in T
      BY <1>1
    <3>2. Len(rest) = IF i + 1 <= Len(p) THEN Len(p) - (i + 1) + 1 ELSE 0
      <4>1. i + 1 \in Int /\ Len(p) \in Int
        BY <1>1
      <4> QED
        BY <3>1, <4>1, SubSeqProperties
    <3> HIDE DEF rest
    <3> QED
      BY <1>1, <1>4, <3>2
  <2>4. rest # <<>>
    <3> HIDE DEF rest
    <3> QED
      BY <1>1, <1>4, <2>3
  <2> HIDE DEF rest
  <2> QED
    BY <1>2, <1>4, <2>1, <2>2, <2>4 DEF rest
<1> QED
  BY <1>1, <1>3, <1>4

LEMMA EmptyIs ==
  /\ EmptyText \in Seq(Seg) /\ EmptyText # <<>> /\ Len(EmptyText) = 1
  /\ EmptyText[1] = EmptySeg
BY LimitsHold DEF EmptyText

LEMMA JoinIs ==
  ASSUME NEW prefix \in Seq(Seg) \ {<<>>}, NEW text \in Seq(Seg) \ {<<>>}
  PROVE  Join(prefix, text) \in Seq(Seg) \ {<<>>}
<1>1. prefix \o text \in Seq(Seg) /\ Len(prefix \o text) = Len(prefix) + Len(text)
  BY ConcatProperties
<1>2. Len(prefix) \in Nat \ {0} /\ Len(text) \in Nat \ {0}
  OBVIOUS
<1>3. prefix \o text # <<>>
  BY <1>1, <1>2
<1> QED
  BY <1>1, <1>3 DEF Join

\* The prefixes the invariant speaks of: their segments are not empty.
Clean(t) == t \in Seq(Seg) /\ \A i \in 1 .. Len(t) : t[i] # EmptySeg

LEMMA ShownTaken ==
  ASSUME NEW prefix \in Seq(Seg) \ {<<>>}
  PROVE  Shown(Taken(prefix)) = prefix
BY DEF Shown, Taken

LEMMA TakenShown ==
  ASSUME NEW t, Clean(t)
  PROVE  Taken(Shown(t)) = t
<1>1. t # EmptyText
  BY EmptyIs DEF Clean
<1> QED
  BY <1>1 DEF Shown, Taken

LEMMA AppendClean ==
  ASSUME NEW t, Clean(t), NEW s \in Seg, s # EmptySeg
  PROVE  /\ Clean(Append(t, s)) /\ Len(Append(t, s)) = Len(t) + 1 /\ Len(t) \in Nat
         /\ Append(t, s)[Len(t) + 1] = s
         /\ \A i \in 1 .. Len(t) : Append(t, s)[i] = t[i]
<1>1. t \in Seq(Seg) /\ Len(t) \in Nat
  BY DEF Clean
<1> DEFINE q == Append(t, s)
<1>2. /\ q \in Seq(Seg) /\ Len(q) = Len(t) + 1 /\ q[Len(t) + 1] = s
      /\ \A i \in 1 .. Len(t) : q[i] = t[i]
  BY <1>1
<1>3. \A i \in 1 .. Len(t) + 1 : i \in 1 .. Len(t) \/ i = Len(t) + 1
  BY <1>1
<1> HIDE DEF q
<1>4. Clean(q)
  BY <1>2, <1>3 DEF Clean
<1> QED
  BY <1>1, <1>2, <1>4 DEF q

LEMMA JoinOne ==
  ASSUME NEW t, Clean(t), NEW s \in Seg
  PROVE  Join(Shown(t), <<s>>) = Append(t, s)
<1>1. t \in Seq(Seg)
  BY DEF Clean
<1>2. CASE t = <<>>
  BY <1>2 DEF Join, Shown
<1>3. CASE t # <<>>
  <2>1. t # EmptyText
    BY EmptyIs DEF Clean
  <2>2. t \o <<s>> = Append(t, s)
    BY <1>1
  <2> QED
    BY <1>3, <2>1, <2>2 DEF Join, Shown
<1> QED
  BY <1>2, <1>3

LEMMA AppendShown ==
  ASSUME NEW t, Clean(t), NEW s \in Seg
  PROVE  Shown(Append(t, s)) = Append(t, s)
<1>1. t \in Seq(Seg)
  BY DEF Clean
<1>2. Len(Append(t, s)) = Len(t) + 1 /\ Len(t) \in Nat /\ Len(<<>>) = 0
  BY <1>1
<1>3. Append(t, s) # <<>>
  BY <1>2
<1> QED
  BY <1>3 DEF Shown

\* No segment of a clean path is lost, so its lookup takes all of them.
LEMMA CleanGet ==
  ASSUME NEW d, NEW t, Clean(t), t # <<>>
  PROVE  GetIn(d, t) = ReachedIn(d, t)
<1>1. t \in Seq(Seg) /\ Len(t) \in 1 .. Len(t)
  BY DEF Clean
<1>2. Last(t) # EmptySeg
  BY <1>1 DEF Clean, Last
<1>3. t # EmptyText
  BY EmptyIs DEF Clean
<1> QED
  BY <1>2, <1>3 DEF GetIn, Segments

LEMMA CleanArray ==
  ASSUME NEW d, NEW t, Clean(t)
  PROVE  ArrayIn(d, Shown(t)) =
            IF ReachedIn(d, t) \in d.arrays THEN ReachedIn(d, t) ELSE Missing
<1>1. CASE t = <<>>
  <2>1. Shown(t) = EmptyText /\ ReachedIn(d, t) = <<>>
    BY <1>1, ReachedRoot DEF Shown
  <2> QED
    BY <2>1 DEF ArrayIn
<1>2. CASE t # <<>>
  <2>1. Shown(t) = t /\ t # EmptyText
    BY <1>2, EmptyIs DEF Shown, Clean
  <2>2. GetIn(d, t) = ReachedIn(d, t)
    BY <1>2, CleanGet
  <2> QED
    BY <2>1, <2>2 DEF ArrayIn
<1> QED
  BY <1>1, <1>2

\* One segment below an array is a child of it.
LEMMA GetChild ==
  ASSUME NEW d, NEW t, Clean(t), NEW s \in Seg, s # EmptySeg,
         ArrayIn(d, Shown(t)) # Missing
  PROVE  GetIn(d, Append(t, s)) = ChildIn(d, ArrayIn(d, Shown(t)), s)
<1>1. ReachedIn(d, t) = ArrayIn(d, Shown(t))
  BY CleanArray
<1>2. t \in Seq(Seg)
  BY DEF Clean
<1>3. ReachedIn(d, Append(t, s)) = ChildIn(d, ReachedIn(d, t), s)
  BY <1>2, ReachedChild
<1>4. Clean(Append(t, s)) /\ Append(t, s) # <<>>
  BY <1>2, AppendClean
<1>5. GetIn(d, Append(t, s)) = ReachedIn(d, Append(t, s))
  BY <1>4, CleanGet
<1> QED
  BY <1>1, <1>3, <1>5

\* The text of a plain key is a segment that leads to it.
LEMMA PlainChild ==
  ASSUME NEW d \in Trees, PlainIn(d), NEW place \in d.arrays, place # Missing,
         NEW k \in Key, Append(place, k) \in d.places
  PROVE  \E s \in Seg : /\ s # EmptySeg /\ Text[k] = <<s>>
                        /\ ChildIn(d, place, s) = Append(place, k)
<1>1. place \in Seq(Key)
  BY TreesHold
<1> DEFINE loc == Append(place, k)
<1>2. loc # <<>> /\ Last(loc) = k
  <2>1. loc \in Seq(Key) /\ Len(loc) = Len(place) + 1 /\ Len(place) \in Nat
        /\ loc[Len(place) + 1] = k
    BY <1>1
  <2> HIDE DEF loc
  <2>2. loc # <<>>
    <3>1. Len(<<>>) = 0
      OBVIOUS
    <3> QED
      BY <2>1, <3>1
  <2> QED
    BY <2>1, <2>2 DEF Last
<1>3. PlainKey(k)
  BY <1>2 DEF PlainIn
<1> DEFINE s == Text[k][1]
<1>4. Text[k] \in Seq(Seg) /\ Len(Text[k]) = 1
  BY <1>3, TextHolds DEF PlainKey
<1>5. s \in Seg /\ Text[k] = <<s>>
  <2>1. s \in Seg
    BY <1>4
  <2> DEFINE one == <<s>>
  <2>2. one \in Seq(Seg) /\ Len(one) = 1 /\ one[1] = s
    BY <2>1
  <2>3. \A i \in 1 .. 1 : i = 1
    OBVIOUS
  <2> HIDE DEF one
  <2>4. \A i \in 1 .. Len(Text[k]) : Text[k][i] = one[i]
    BY <1>4, <2>2, <2>3
  <2>5. Text[k] = one
    BY <1>4, <2>2, <2>4, SeqEqual
  <2> QED
    BY <2>1, <2>5 DEF one
<1>6. s # EmptySeg
  BY <1>3, <1>5 DEF PlainKey, EmptyText
<1>7. IF s \in DOMAIN StringKey THEN StringKey[s] = k
      ELSE s \in DOMAIN IndexKey /\ IndexKey[s] = k
  BY <1>3 DEF PlainKey
<1>8. ChildIn(d, place, s) = loc
  <2> HIDE DEF s
  <2> QED
    BY <1>7 DEF ChildIn
<1> QED
  BY <1>5, <1>6, <1>8

\* A prefix that agrees with the pattern agrees when it takes a segment more.
LEMMA AgreesMore ==
  ASSUME NEW d, NEW pat, NEW t, Clean(t), NEW s \in Seg, s # EmptySeg,
         \A i \in 1 .. Len(t) : Agrees(d, pat, t, i),
         ArrayIn(d, Shown(t)) # Missing,
         IF pat[Len(t) + 1] = "*"
         THEN \E k \in Key : Append(ArrayIn(d, Shown(t)), k) \in d.places /\ Text[k] = <<s>>
         ELSE s = pat[Len(t) + 1]
  PROVE  \A i \in 1 .. Len(Append(t, s)) : Agrees(d, pat, Append(t, s), i)
<1> DEFINE q == Append(t, s)
           n == Len(t)
<1>1. /\ t \in Seq(Seg) /\ n \in Nat /\ Len(q) = n + 1 /\ q[n + 1] = s
      /\ q \in Seq(Seg)
      /\ \A i \in 1 .. n : q[i] = t[i]
  BY AppendClean DEF Clean
<1>2. \A i \in 0 .. n : SubSeq(q, 1, i) = SubSeq(t, 1, i)
  <2> SUFFICES ASSUME NEW i \in 0 .. n
               PROVE  SubSeq(q, 1, i) = SubSeq(t, 1, i)
    OBVIOUS
  <2> HIDE DEF q, n
  <2>1. i \in 0 .. Len(q) /\ i \in 0 .. Len(t) /\ \A j \in 1 .. i : j \in 1 .. n
    BY <1>1 DEF n
  <2> DEFINE a == SubSeq(q, 1, i)
             b == SubSeq(t, 1, i)
  <2>2. a \in Seq(Seg) /\ Len(a) = i /\ \A j \in 1 .. i : a[j] = q[j]
    BY <1>1, <2>1, Beginning
  <2>3. b \in Seq(Seg) /\ Len(b) = i /\ \A j \in 1 .. i : b[j] = t[j]
    BY <1>1, <2>1, Beginning
  <2> HIDE DEF a, b
  <2>4. \A j \in 1 .. i : a[j] = b[j]
    BY <1>1, <2>1, <2>2, <2>3
  <2>5. a = b
    BY <2>2, <2>3, <2>4, SeqEqual
  <2> QED
    BY <2>5 DEF a, b
<1>3. SubSeq(t, 1, n) = t
  BY <1>1, BeginningEnds
<1> SUFFICES ASSUME NEW i \in 1 .. n + 1
             PROVE  Agrees(d, pat, q, i)
  <2> HIDE DEF q
  <2> QED
    BY <1>1 DEF q
<1>4. i - 1 \in 0 .. n
  BY <1>1
<1>5. SubSeq(q, 1, i - 1) = SubSeq(t, 1, i - 1)
  <2> HIDE DEF q, n
  <2> QED
    BY <1>2, <1>4
<1> HIDE DEF q, n
<1>6. CASE i \in 1 .. n
  <2>1. Agrees(d, pat, t, i)
    BY <1>6 DEF n
  <2>2. q[i] = t[i]
    BY <1>1, <1>6
  <2> QED
    BY <1>5, <2>1, <2>2 DEF Agrees
<1>7. CASE i = n + 1
  <2>1. i - 1 = n
    BY <1>1, <1>7
  <2>2. SubSeq(q, 1, i - 1) = t
    BY <1>3, <1>5, <2>1
  <2>3. q[i] = s /\ pat[i] = pat[Len(t) + 1]
    BY <1>1, <1>7 DEF n
  <2> QED
    BY <2>2, <2>3 DEF Agrees
<1> QED
  BY <1>1, <1>6, <1>7

-----------------------------------------------------------------------------
\* The length checks.

LEMMA SizeIs ==
  ASSUME NEW path \in Seq(Seg)
  PROVE  Size(path) = Total(path) + Len(path) - 1
BY DEF Size, Total

LEMMA Fits ==
  ASSUME NEW prefix, NEW size \in Nat, Size(prefix) \in Nat,
         Size(prefix) + size + 2 <= MAX_PATH_LENGTH
  PROVE  ~TooLong(prefix, size)
<1> DEFINE n == Size(prefix)
<1>1. n \in Nat /\ n + size + 2 <= MAX_PATH_LENGTH /\ MAX_PATH_LENGTH \in Nat
  BY LimitsHold
<1> HIDE DEF n
<1>2. ~(n > MAX_PATH_LENGTH - size - 2)
  BY <1>1
<1>3. ~(n + (IF prefix = EmptyText THEN 0 ELSE 1) + size > MAX_PATH_LENGTH)
  <2>1. PICK dot \in {0, 1} : dot = IF prefix = EmptyText THEN 0 ELSE 1
    OBVIOUS
  <2>2. ~(n + dot + size > MAX_PATH_LENGTH)
    BY <1>1
  <2> QED
    BY <2>1, <2>2
<1> QED
  BY <1>2, <1>3 DEF TooLong, n

\* The length of the first segments of a path, and with one more.
LEMMA SizeOfPart ==
  ASSUME NEW p \in Seq(Seg), NEW i \in 0 .. Len(p) - 1
  PROVE  /\ Size(p) \in Int /\ SegSize[p[i + 1]] \in Nat
         /\ Size(Shown(SubSeq(p, 1, i))) \in Nat
         /\ Size(Shown(SubSeq(p, 1, i))) <= Size(p)
         /\ Size(Shown(SubSeq(p, 1, i))) + SegSize[p[i + 1]] <= Size(p)
<1> DEFINE t == SubSeq(p, 1, i)
           q == SubSeq(p, 1, i + 1)
           m == SegSize[p[i + 1]]
<1>1. i \in Nat /\ i \in 0 .. Len(p) /\ i + 1 \in 0 .. Len(p) /\ Len(p) \in Nat /\ i < Len(p)
      /\ i + 1 \in 1 .. Len(p)
  OBVIOUS
<1>2. t \in Seq(Seg) /\ Len(t) = i
  BY <1>1, Beginning
<1>3. Total(p) \in Nat /\ Total(t) \in Nat /\ Total(q) <= Total(p)
  BY <1>1, TotalGrows
<1>4. Size(p) = Total(p) + Len(p) - 1
  BY SizeIs
<1>5. m \in Nat /\ Total(q) = Total(t) + m
  <2>1. p[i + 1] \in Seg
    BY <1>1
  <2>2. q = Append(t, p[i + 1])
    BY BeginningGrows
  <2> HIDE DEF q, t
  <2> QED
    BY <1>2, <2>1, <2>2, LimitsHold, TotalMore
<1> HIDE DEF m, q
<1>6. CASE t = <<>>
  <2>1. Shown(t) = EmptyText
    BY <1>6 DEF Shown
  <2>2. Total(EmptyText) = 0
    <3>1. EmptyText = Append(<<>>, EmptySeg) /\ <<>> \in Seq(Seg)
      BY DEF EmptyText
    <3>2. Total(EmptyText) = Total(<<>>) + SegSize[EmptySeg]
      BY <3>1, LimitsHold, TotalMore
    <3> QED
      BY <3>2, LimitsHold, TotalNone
  <2>3. Size(EmptyText) = 0 + 1 - 1
    BY <2>2, EmptyIs, SizeIs
  <2>4. Total(t) = 0
    BY <1>6, TotalNone
  <2> HIDE DEF t
  <2> QED
    BY <1>1, <1>3, <1>4, <1>5, <2>1, <2>3, <2>4 DEF m, t
<1>7. CASE t # <<>>
  <2>1. Shown(t) = t
    BY <1>7 DEF Shown
  <2>2. Size(t) = Total(t) + i - 1
    BY <1>2, SizeIs
  <2>3. i >= 1
    <3> HIDE DEF t
    <3> QED
      BY <1>1, <1>2, <1>7
  <2> DEFINE a == Total(t)
             b == Total(p)
             l == Len(p)
  <2>4. a \in Nat /\ b \in Nat /\ l \in Nat /\ m \in Nat /\ i \in Nat /\ i < l /\ i >= 1 /\ a + m <= b
    BY <1>1, <1>3, <1>5, <2>3
  <2>5. Size(Shown(t)) = a + i - 1 /\ Size(p) = b + l - 1
    BY <1>4, <2>1, <2>2
  <2> HIDE DEF a, b, l
  <2>6. /\ b + l - 1 \in Int /\ a + i - 1 \in Nat
        /\ a + i - 1 <= b + l - 1 /\ (a + i - 1) + m <= b + l - 1
    BY <2>4
  <2>7. /\ Size(p) \in Int /\ m \in Nat /\ Size(Shown(t)) \in Nat
        /\ Size(Shown(t)) <= Size(p) /\ Size(Shown(t)) + m <= Size(p)
    BY <2>4, <2>5, <2>6
  <2> QED
    BY <2>7 DEF m
<1> QED
  BY <1>6, <1>7

-----------------------------------------------------------------------------
\* The invariant: every call in progress holds the part of the pattern it has
\* still to expand and a prefix that agrees with the part it has expanded.

Frame(d) ==
    [at : {"start", "loop"}, rest : Seq(Seg), prefix : Seq(Seg) \ {<<>>}, depth : Nat,
     place : d.arrays \cup {Missing}, keys : Seq(Key)]

InLoop(d, f) ==
    /\ f.place = ArrayIn(d, f.prefix) /\ f.place # Missing /\ f.place \in d.arrays
    /\ f.rest # <<>> /\ Head(f.rest) = "*"
    /\ \A k \in ToSet(f.keys) : Append(f.place, k) \in d.places

\* On data with plain keys the prefix holds what was taken of the pattern.
Taking(d, pat, f) ==
    /\ Clean(Taken(f.prefix)) /\ Len(Taken(f.prefix)) = f.depth
    /\ \A i \in 1 .. f.depth : Agrees(d, pat, Taken(f.prefix), i)

Frames(d, pat) ==
    {f \in Frame(d) :
        /\ f.depth <= Len(pat)
        /\ f.rest = SubSeq(pat, f.depth + 1, Len(pat))
        /\ f.at = "loop" => InLoop(d, f)
        /\ PlainIn(d) => Taking(d, pat, f)}

\* A call that waits for a deeper one is in a loop that does not add paths itself.
Waiting(d, pat) == {f \in Frames(d, pat) : f.at = "loop" /\ Tail(f.rest) # <<>>}

Stacks(d, pat) ==
    {s \in Seq(Frames(d, pat)) : s # <<>> => Front(s) \in Seq(Waiting(d, pat))}

\* A path that was found: it is meant, and reads its element.
Entries(d, pat) ==
    {e \in [path : Seq(Seg), element : d.places \cup {Missing}] :
        /\ PlainIn(d) /\ e.element # Missing => GetIn(d, e.path) = e.element
        /\ PlainIn(d) /\ HasWildcard(pat) => MeantIn(d, pat, e.path)}

\* The number of paths, and those a last loop may still add.
AddsPaths == stack # <<>> /\ Top.at = "loop" /\ Tail(Top.rest) = <<>>

Overshoot(d, n) ==
    \/ n <= MAX_EXPANDED_FIELDS
    \/ \E loc \in d.arrays : n < MAX_EXPANDED_FIELDS + Len(KeysIn(d, loc))

RoomLeft ==
    HasWildcard(pattern) =>
        /\ Overshoot(data, Len(result))
        /\ AddsPaths => Len(result) + Len(Top.keys)
                            < MAX_EXPANDED_FIELDS + Len(KeysIn(data, Top.place))

WildcardInv ==
    /\ data \in Trees /\ pattern \in Patterns
    /\ stack \in Stacks(data, pattern)
    /\ result \in Seq(Entries(data, pattern))
    /\ RoomLeft

-----------------------------------------------------------------------------
\* Stacks.

LEMMA FrontOfMore ==
  ASSUME NEW T, NEW s \in Seq(T), NEW f
  PROVE  /\ Append(s, f) # <<>> /\ Front(Append(s, f)) = s
         /\ Append(s, f)[Len(Append(s, f))] = f
<1> DEFINE U == T \cup {f}
           q == Append(s, f)
<1>1. s \in Seq(U) /\ f \in U
  BY SeqMonotonic
<1> HIDE DEF U
<1>2. /\ q \in Seq(U) /\ Len(q) = Len(s) + 1 /\ Len(s) \in Nat
      /\ \A i \in 1 .. Len(s) : q[i] = s[i]
      /\ q[Len(s) + 1] = f
  BY <1>1
<1>3. Len(<<>>) = 0
  OBVIOUS
<1> HIDE DEF q
<1>4. q # <<>>
  BY <1>2, <1>3
<1>5. Len(q) - 1 = Len(s) /\ Len(s) \in 0 .. Len(q)
  BY <1>2
<1> DEFINE r == SubSeq(q, 1, Len(s))
<1>6. r \in Seq(U) /\ Len(r) = Len(s) /\ \A i \in 1 .. Len(s) : r[i] = q[i]
  BY <1>2, <1>5, Beginning
<1> HIDE DEF r
<1>7. r = s
  BY <1>1, <1>2, <1>6, SeqEqual
<1>8. Front(q) = s
  BY <1>5, <1>7 DEF Front, r
<1> QED
  BY <1>2, <1>4, <1>8 DEF q

LEMMA FrontAndTop ==
  ASSUME NEW T, NEW s \in Seq(T), s # <<>>
  PROVE  /\ s[Len(s)] \in T /\ Front(s) \in Seq(T)
         /\ s = Append(Front(s), s[Len(s)])
         /\ Len(Front(s)) = Len(s) - 1
<1>1. Len(s) \in Nat \ {0}
  BY EmptySeq
<1> DEFINE n == Len(s) - 1
<1>2. n \in 0 .. Len(s) - 1 /\ n \in 0 .. Len(s) /\ n + 1 = Len(s) /\ Len(s) \in 1 .. Len(s)
  BY <1>1
<1> HIDE DEF n
<1>3. SubSeq(s, 1, n + 1) = Append(SubSeq(s, 1, n), s[n + 1])
  BY <1>2, BeginningGrows
<1>4. SubSeq(s, 1, n + 1) = s
  BY <1>2, BeginningEnds
<1>5. SubSeq(s, 1, n) \in Seq(T) /\ Len(SubSeq(s, 1, n)) = n
  BY <1>2, Beginning
<1>6. Front(s) = SubSeq(s, 1, n)
  BY DEF Front, n
<1>7. s[Len(s)] \in T
  BY <1>2
<1>8. n = Len(s) - 1
  BY DEF n
<1> QED
  BY <1>2, <1>3, <1>4, <1>5, <1>6, <1>7, <1>8

LEMMA StackTop ==
  ASSUME NEW d, NEW pat, NEW s \in Stacks(d, pat), s # <<>>
  PROVE  /\ s[Len(s)] \in Frames(d, pat)
         /\ Front(s) \in Seq(Waiting(d, pat))
         /\ s = Append(Front(s), s[Len(s)])
<1>1. s \in Seq(Frames(d, pat)) /\ Front(s) \in Seq(Waiting(d, pat))
  BY DEF Stacks
<1> QED
  BY <1>1, FrontAndTop

LEMMA StackMore ==
  ASSUME NEW d, NEW pat, NEW s \in Seq(Waiting(d, pat)), NEW f \in Frames(d, pat)
  PROVE  Append(s, f) \in Stacks(d, pat)
<1>1. s \in Seq(Frames(d, pat))
  <2>1. Waiting(d, pat) \subseteq Frames(d, pat)
    BY DEF Waiting
  <2> QED
    BY <2>1, SeqMonotonic
<1>2. Append(s, f) \in Seq(Frames(d, pat))
  BY <1>1
<1>3. Front(Append(s, f)) = s
  BY FrontOfMore
<1> QED
  BY <1>2, <1>3 DEF Stacks

LEMMA StackLess ==
  ASSUME NEW d, NEW pat, NEW s \in Seq(Waiting(d, pat))
  PROVE  /\ s \in Stacks(d, pat)
         /\ s # <<>> => s[Len(s)] \in Waiting(d, pat)
<1>1. s \in Seq(Frames(d, pat))
  <2>1. Waiting(d, pat) \subseteq Frames(d, pat)
    BY DEF Waiting
  <2> QED
    BY <2>1, SeqMonotonic
<1>2. s # <<>> => Front(s) \in Seq(Waiting(d, pat)) /\ s[Len(s)] \in Waiting(d, pat)
  BY FrontAndTop
<1> QED
  BY <1>1, <1>2 DEF Stacks

-----------------------------------------------------------------------------
\* Calls, and what they do with a segment.

LEMMA FrameHolds ==
  ASSUME NEW d, NEW pat \in Patterns, NEW f \in Frames(d, pat)
  PROVE  /\ f.depth \in Nat /\ f.depth \in 0 .. Len(pat) /\ Len(pat) \in Nat
         /\ f.prefix \in Seq(Seg) \ {<<>>} /\ f.rest \in Seq(Seg) /\ f.keys \in Seq(Key)
         /\ f.rest = <<>> <=> f.depth = Len(pat)
         /\ f.rest # <<>> => /\ Head(f.rest) = pat[f.depth + 1] /\ f.depth + 1 <= Len(pat)
                             /\ pat[f.depth + 1] \in Seg /\ pat[f.depth + 1] # EmptySeg
                             /\ Tail(f.rest) = SubSeq(pat, f.depth + 2, Len(pat))
                             /\ Tail(f.rest) \in Seq(Seg)
<1>1. /\ f \in Frame(d) /\ f.depth <= Len(pat)
      /\ f.rest = SubSeq(pat, f.depth + 1, Len(pat))
  BY DEF Frames
<1>2. /\ f.depth \in Nat /\ f.prefix \in Seq(Seg) \ {<<>>} /\ f.rest \in Seq(Seg)
      /\ f.keys \in Seq(Key)
  BY <1>1 DEF Frame
<1>3. pat \in Seq(Seg) /\ Len(pat) \in Nat
      /\ \A i \in 1 .. Len(pat) : pat[i] \in Seg /\ pat[i] # EmptySeg
  BY PatternHolds
<1>4. f.depth \in 0 .. Len(pat)
  BY <1>1, <1>2, <1>3
<1>5. /\ f.rest = <<>> <=> f.depth = Len(pat)
      /\ f.depth < Len(pat) =>
            /\ Head(f.rest) = pat[f.depth + 1] /\ f.depth + 1 \in 1 .. Len(pat)
            /\ Tail(f.rest) = SubSeq(pat, f.depth + 2, Len(pat))
  BY <1>1, <1>3, <1>4, RestMoves
<1>6. f.rest # <<>> => f.depth < Len(pat) /\ Tail(f.rest) \in Seq(Seg)
  BY <1>2, <1>3, <1>4, <1>5
<1>7. f.depth < Len(pat) => /\ pat[f.depth + 1] \in Seg /\ pat[f.depth + 1] # EmptySeg
                            /\ f.depth + 1 <= Len(pat)
  BY <1>2, <1>3
<1> QED
  BY <1>2, <1>3, <1>4, <1>5, <1>6, <1>7

LEMMA CallIsFrame ==
  ASSUME NEW d, NEW pat, NEW rest \in Seq(Seg), NEW prefix \in Seq(Seg) \ {<<>>},
         NEW depth \in Nat, depth <= Len(pat), rest = SubSeq(pat, depth + 1, Len(pat)),
         PlainIn(d) => /\ Clean(Taken(prefix)) /\ Len(Taken(prefix)) = depth
                       /\ \A i \in 1 .. depth : Agrees(d, pat, Taken(prefix), i)
  PROVE  Call(rest, prefix, depth) \in Frames(d, pat)
<1> DEFINE f == Call(rest, prefix, depth)
<1>1. /\ f.at = "start" /\ f.rest = rest /\ f.prefix = prefix /\ f.depth = depth
      /\ f.place = Missing /\ f.keys = <<>>
  BY DEF Call
<1>2. f \in Frame(d)
  BY DEF Call, Frame
<1> HIDE DEF f
<1>3. PlainIn(d) => Taking(d, pat, f)
  BY <1>1 DEF Taking
<1>4. f \in Frames(d, pat)
  BY <1>1, <1>2, <1>3 DEF Frames
<1> QED
  BY <1>4 DEF f

\* What a call takes of the pattern when it takes the segment s.
Takes(d, pat, f, s) ==
    /\ s # EmptySeg
    /\ ArrayIn(d, f.prefix) # Missing
    /\ IF pat[f.depth + 1] = "*"
       THEN \E k \in Key : Append(ArrayIn(d, f.prefix), k) \in d.places /\ Text[k] = <<s>>
       ELSE s = pat[f.depth + 1]

LEMMA TakesMore ==
  ASSUME NEW d, NEW pat \in Patterns, NEW f \in Frames(d, pat), PlainIn(d),
         NEW s \in Seg, Takes(d, pat, f, s)
  PROVE  LET q == Append(Taken(f.prefix), s) IN
         /\ Clean(q) /\ Len(q) = f.depth + 1 /\ Taken(q) = q /\ q = Join(f.prefix, <<s>>)
         /\ \A i \in 1 .. f.depth + 1 : Agrees(d, pat, q, i)
<1> DEFINE t == Taken(f.prefix)
           q == Append(t, s)
<1>1. /\ Clean(t) /\ Len(t) = f.depth
      /\ \A i \in 1 .. f.depth : Agrees(d, pat, t, i)
  BY DEF Frames, Taking
<1>2. Shown(t) = f.prefix
  BY FrameHolds, ShownTaken
<1>3. s # EmptySeg
  BY DEF Takes
<1> HIDE DEF t
<1>4. Clean(q) /\ Len(q) = f.depth + 1
  BY <1>1, <1>3, AppendClean
<1>5. q = Join(f.prefix, <<s>>)
  BY <1>1, <1>2, JoinOne
<1>6. \A i \in 1 .. Len(q) : Agrees(d, pat, q, i)
  BY <1>1, <1>2, <1>3, AgreesMore DEF Takes
<1>7. Taken(q) = q
  <2>1. Shown(q) = q
    BY <1>1, AppendShown
  <2>2. Taken(Shown(q)) = q
    BY <1>4, TakenShown
  <2> QED
    BY <2>1, <2>2
<1> HIDE DEF q
<1>8. \A i \in 1 .. f.depth + 1 : Agrees(d, pat, q, i)
  BY <1>4, <1>6
<1> QED
  BY <1>4, <1>5, <1>7, <1>8 DEF t, q

\* A deeper call for a segment that was taken.
LEMMA DeeperCall ==
  ASSUME NEW d, NEW pat \in Patterns, NEW f \in Frames(d, pat), f.rest # <<>>,
         NEW prefix \in Seq(Seg) \ {<<>>},
         PlainIn(d) => \E s \in Seg : Takes(d, pat, f, s) /\ prefix = Join(f.prefix, <<s>>)
  PROVE  Call(Tail(f.rest), prefix, f.depth + 1) \in Frames(d, pat)
<1>1. /\ f.depth \in Nat /\ f.depth + 1 <= Len(pat)
      /\ Tail(f.rest) = SubSeq(pat, f.depth + 2, Len(pat)) /\ Tail(f.rest) \in Seq(Seg)
  BY FrameHolds
<1>2. f.depth + 1 \in Nat /\ (f.depth + 1) + 1 = f.depth + 2
  BY <1>1
<1>3. PlainIn(d) => /\ Clean(Taken(prefix)) /\ Len(Taken(prefix)) = f.depth + 1
                    /\ \A i \in 1 .. f.depth + 1 : Agrees(d, pat, Taken(prefix), i)
  BY TakesMore
<1> QED
  BY <1>1, <1>2, <1>3, CallIsFrame

\* A key of a plain array is taken as one segment, which reads its element.
LEMMA KeyTakes ==
  ASSUME NEW d \in Trees, NEW pat \in Patterns, NEW f \in Frames(d, pat), PlainIn(d),
         f.at = "loop", NEW k \in Key, Append(f.place, k) \in d.places
  PROVE  \E s \in Seg : /\ Takes(d, pat, f, s) /\ Text[k] = <<s>>
                        /\ GetIn(d, Join(f.prefix, <<s>>)) = Append(f.place, k)
<1>1. InLoop(d, f)
  BY DEF Frames
<1>2. /\ f.place = ArrayIn(d, f.prefix) /\ f.place # Missing /\ f.place \in d.arrays
      /\ f.rest # <<>> /\ Head(f.rest) = "*"
  BY <1>1 DEF InLoop
<1>3. pat[f.depth + 1] = "*"
  BY <1>2, FrameHolds
<1>4. PICK s \in Seg : /\ s # EmptySeg /\ Text[k] = <<s>>
                       /\ ChildIn(d, f.place, s) = Append(f.place, k)
  BY <1>2, PlainChild
<1>5. Takes(d, pat, f, s)
  BY <1>2, <1>3, <1>4 DEF Takes
<1> DEFINE t == Taken(f.prefix)
<1>6. Clean(t) /\ Shown(t) = f.prefix
  BY FrameHolds, ShownTaken DEF Frames, Taking
<1> HIDE DEF t
<1>7. Join(f.prefix, <<s>>) = Append(t, s)
  BY <1>6, JoinOne
<1>8. GetIn(d, Append(t, s)) = ChildIn(d, f.place, s)
  BY <1>2, <1>4, <1>6, GetChild
<1> QED
  BY <1>4, <1>5, <1>7, <1>8

LEMMA LoopFrame ==
  ASSUME NEW d, NEW pat, NEW f \in Frames(d, pat), NEW g, NEW keys \in Seq(Key),
         f.place = ArrayIn(d, f.prefix), f.place # Missing, f.place \in d.arrays,
         f.rest # <<>>, Head(f.rest) = "*",
         \A k \in ToSet(keys) : Append(f.place, k) \in d.places,
         g = [f EXCEPT !.keys = keys], f.at = "loop"
  PROVE  /\ g \in Frames(d, pat) /\ g.at = "loop" /\ g.rest = f.rest /\ g.keys = keys
         /\ g.place = f.place /\ g.prefix = f.prefix /\ g.depth = f.depth
         /\ Tail(f.rest) # <<>> => g \in Waiting(d, pat)
<1>1. f \in Frame(d)
  BY DEF Frames
<1>2. /\ g \in Frame(d) /\ g.at = f.at /\ g.rest = f.rest /\ g.keys = keys
      /\ g.place = f.place /\ g.prefix = f.prefix /\ g.depth = f.depth
  BY <1>1 DEF Frame
<1>3. InLoop(d, g)
  BY <1>2 DEF InLoop
<1>4. PlainIn(d) => Taking(d, pat, g)
  BY <1>2 DEF Frames, Taking
<1>5. g \in Frames(d, pat)
  BY <1>2, <1>3, <1>4 DEF Frames
<1> QED
  BY <1>2, <1>5 DEF Waiting

\* A call whose loop over the keys of an array starts.
LoopOf(d, f) ==
    [f EXCEPT !.at = "loop", !.place = ArrayIn(d, f.prefix),
              !.keys = KeysIn(d, ArrayIn(d, f.prefix))]

LEMMA LoopStarts ==
  ASSUME NEW d \in Trees, NEW pat, NEW f \in Frames(d, pat), NEW g,
         f.rest # <<>>, Head(f.rest) = "*", ArrayIn(d, f.prefix) # Missing,
         g = LoopOf(d, f)
  PROVE  /\ g \in Frames(d, pat) /\ g.at = "loop" /\ g.rest = f.rest
         /\ g.keys = KeysIn(d, g.place) /\ g.place = ArrayIn(d, f.prefix)
         /\ g.prefix = f.prefix /\ g.depth = f.depth
<1> DEFINE place == ArrayIn(d, f.prefix)
           keys == KeysIn(d, place)
<1>1. f \in Frame(d)
  BY DEF Frames
<1>2. place \in d.arrays
  BY DEF ArrayIn
<1>3. keys \in Seq(Key) /\ \A k \in ToSet(keys) : Append(place, k) \in d.places
  <2> HIDE DEF place
  <2> QED
    BY KeysFound
<1>4. place # Missing /\ place = ArrayIn(d, f.prefix)
  OBVIOUS
<1>5. g = [f EXCEPT !.at = "loop", !.place = place, !.keys = keys]
  BY DEF LoopOf
<1> HIDE DEF place, keys
<1>6. /\ g \in Frame(d) /\ g.at = "loop" /\ g.rest = f.rest /\ g.keys = keys
      /\ g.place = place /\ g.prefix = f.prefix /\ g.depth = f.depth
  BY <1>1, <1>2, <1>3, <1>5 DEF Frame
<1>7. InLoop(d, g)
  BY <1>2, <1>3, <1>4, <1>6 DEF InLoop
<1>8. PlainIn(d) => Taking(d, pat, g)
  BY <1>6 DEF Frames, Taking
<1>9. g \in Frames(d, pat)
  BY <1>6, <1>7, <1>8 DEF Frames
<1> QED
  BY <1>4, <1>6, <1>9 DEF keys

-----------------------------------------------------------------------------
\* The paths that were found.

LEMMA PathAdded ==
  ASSUME NEW d, NEW pat, result \in Seq(Entries(d, pat)),
         NEW path, NEW element, [path |-> path, element |-> element] \in Entries(d, pat),
         result' = AddPath(path, element)
  PROVE  /\ result' \in Seq(Entries(d, pat))
         /\ Len(result) \in Nat /\ Len(result') \in Nat
         /\ Len(result) <= Len(result') /\ Len(result') <= Len(result) + 1
<1>1. CASE path \in Paths
  BY <1>1 DEF AddPath
<1>2. CASE path \notin Paths
  <2> DEFINE e == [path |-> path, element |-> element]
             n == Len(result)
  <2>1. e \in Entries(d, pat)
    OBVIOUS
  <2>2. result' = Append(result, e)
    BY <1>2 DEF AddPath
  <2> HIDE DEF e
  <2>3. result' \in Seq(Entries(d, pat)) /\ n \in Nat /\ Len(result') = n + 1
    BY <2>1, <2>2
  <2> HIDE DEF n
  <2>4. n <= n + 1 /\ n + 1 \in Nat
    BY <2>3
  <2> QED
    BY <2>3, <2>4 DEF n
<1> QED
  BY <1>1, <1>2

-----------------------------------------------------------------------------
\* Every step keeps the invariant.

\* A call returns to the one that waits for it.
LEMMA CallReturns ==
  ASSUME WildcardInv, stack # <<>>, stack' = Below, UNCHANGED <<data, pattern>>,
         result' \in Seq(Entries(data, pattern)),
         HasWildcard(pattern) => Overshoot(data, Len(result'))
  PROVE  WildcardInv'
<1>1. stack \in Stacks(data, pattern) /\ data \in Trees /\ pattern \in Patterns
  BY DEF WildcardInv
<1>2. Below \in Seq(Waiting(data, pattern))
  BY <1>1, StackTop DEF Below
<1>3. /\ stack' \in Stacks(data, pattern)
      /\ stack' # <<>> => stack'[Len(stack')] \in Waiting(data, pattern)
  BY <1>2, StackLess
<1>4. ~AddsPaths'
  BY <1>3 DEF AddsPaths, Top, Waiting
<1>5. RoomLeft'
  BY <1>4 DEF RoomLeft
<1> QED
  BY <1>1, <1>3, <1>5 DEF WildcardInv

\* A call goes on, in a loop, in a deeper call or in the place of the last one.
LEMMA CallGoesOn ==
  ASSUME WildcardInv, NEW b \in Seq(Waiting(data, pattern)),
         NEW f \in Frames(data, pattern), stack' = Append(b, f),
         UNCHANGED <<data, pattern>>,
         result' \in Seq(Entries(data, pattern)),
         HasWildcard(pattern) =>
             /\ Overshoot(data, Len(result'))
             /\ f.at = "loop" /\ Tail(f.rest) = <<>> =>
                   Len(result') + Len(f.keys) < MAX_EXPANDED_FIELDS + Len(KeysIn(data, f.place))
  PROVE  WildcardInv'
<1>1. data \in Trees /\ pattern \in Patterns
  BY DEF WildcardInv
<1>2. stack' \in Stacks(data, pattern)
  BY StackMore
<1>3. Top' = f
  <2>1. stack'[Len(stack')] = f
    BY FrontOfMore
  <2> QED
    BY <2>1 DEF Top
<1>4. RoomLeft'
  BY <1>3 DEF RoomLeft, AddsPaths
<1> QED
  BY <1>1, <1>2, <1>4 DEF WildcardInv

LEMMA InitHolds == Init => WildcardInv
<1> SUFFICES ASSUME Init PROVE WildcardInv
  OBVIOUS
<1>1. /\ data \in Trees /\ pattern \in Patterns /\ result = <<>>
      /\ stack = <<Call(Segments(pattern), EmptyText, 0)>>
  BY DEF Init
<1>2. /\ pattern \in Seq(Seg) /\ Len(pattern) \in Nat /\ Segments(pattern) = pattern
  BY <1>1, PatternHolds
<1> DEFINE f == Call(pattern, EmptyText, 0)
<1>3. f \in Frames(data, pattern)
  <2>1. pattern = SubSeq(pattern, 0 + 1, Len(pattern))
    <3>1. 0 + 1 = 1
      OBVIOUS
    <3> QED
      BY <1>2, <3>1, BeginningEnds
  <2>2. Taken(EmptyText) = <<>> /\ Len(<<>>) = 0 /\ <<>> \in Seq(Seg)
    BY DEF Taken
  <2>3. 1 .. 0 = {}
    OBVIOUS
  <2>4. Clean(<<>>)
    BY <2>2, <2>3 DEF Clean
  <2>5. EmptyText \in Seq(Seg) \ {<<>>}
    BY EmptyIs
  <2>6. 0 \in Nat /\ 0 <= Len(pattern)
    BY <1>2
  <2> QED
    BY <1>2, <2>1, <2>2, <2>3, <2>4, <2>5, <2>6, CallIsFrame
<1>4. stack = Append(<<>>, f)
  BY <1>1, <1>2
<1> HIDE DEF f
<1>5. <<>> \in Seq(Waiting(data, pattern))
  OBVIOUS
<1>6. stack \in Stacks(data, pattern)
  BY <1>3, <1>4, <1>5, StackMore
<1>7. result \in Seq(Entries(data, pattern)) /\ Len(result) = 0
  BY <1>1
<1>8. RoomLeft
  <2>1. Top = f
    BY <1>4, <1>5, FrontOfMore DEF Top
  <2>2. f.at = "start"
    BY DEF f, Call
  <2>3. Overshoot(data, Len(result))
    BY <1>7, LimitsHold DEF Overshoot
  <2> QED
    BY <2>1, <2>2, <2>3 DEF RoomLeft, AddsPaths
<1> QED
  BY <1>1, <1>6, <1>7, <1>8 DEF WildcardInv

\* What a step on the call on top starts from.
LEMMA TopHolds ==
  ASSUME WildcardInv, stack # <<>>
  PROVE  /\ data \in Trees /\ pattern \in Patterns
         /\ Top \in Frames(data, pattern) /\ Below \in Seq(Waiting(data, pattern))
         /\ stack = Append(Below, Top)
         /\ result \in Seq(Entries(data, pattern))
         /\ HasWildcard(pattern) => Overshoot(data, Len(result))
<1>1. stack \in Stacks(data, pattern) /\ data \in Trees /\ pattern \in Patterns
  BY DEF WildcardInv
<1>2. /\ Top \in Frames(data, pattern) /\ Below \in Seq(Waiting(data, pattern))
      /\ stack = Append(Below, Top)
  BY <1>1, StackTop DEF Top, Below
<1> QED
  BY <1>1, <1>2 DEF WildcardInv, RoomLeft

LEMMA NoWildcardHolds == WildcardInv /\ NoWildcard => WildcardInv'
<1> SUFFICES ASSUME WildcardInv, NoWildcard PROVE WildcardInv'
  OBVIOUS
<1>1. /\ ~HasWildcard(pattern) /\ stack' = <<>> /\ UNCHANGED <<data, pattern>>
      /\ result' = <<[path |-> pattern, element |-> Missing]>>
  BY DEF NoWildcard
<1>2. data \in Trees /\ pattern \in Patterns
  BY DEF WildcardInv
<1> DEFINE e == [path |-> pattern, element |-> Missing]
<1>3. e \in Entries(data, pattern)
  <2>1. pattern \in Seq(Seg)
    BY <1>2, PatternHolds
  <2> QED
    BY <1>1, <2>1 DEF Entries
<1> HIDE DEF e
<1>4. result' \in Seq(Entries(data, pattern)) /\ DOMAIN result' = {1}
  <2>1. result' = <<e>>
    BY <1>1 DEF e
  <2> QED
    BY <1>3, <2>1
<1>6. stack' \in Stacks(data, pattern)
  BY <1>1 DEF Stacks
<1>7. RoomLeft'
  BY <1>1 DEF RoomLeft
<1> QED
  BY <1>1, <1>2, <1>4, <1>6, <1>7 DEF WildcardInv

LEMMA RefuseHolds == WildcardInv /\ Refuse => WildcardInv'
<1> SUFFICES ASSUME WildcardInv, Refuse PROVE WildcardInv'
  OBVIOUS
<1>1. stack # <<>> /\ stack' = Below /\ UNCHANGED <<data, pattern, result>>
  BY DEF Refuse, Return, Starting
<1>2. /\ result \in Seq(Entries(data, pattern))
      /\ HasWildcard(pattern) => Overshoot(data, Len(result))
  BY <1>1, TopHolds
<1> QED
  BY <1>1, <1>2, CallReturns

LEMMA EndLoopHolds == WildcardInv /\ EndLoop => WildcardInv'
<1> SUFFICES ASSUME WildcardInv, EndLoop PROVE WildcardInv'
  OBVIOUS
<1>1. stack # <<>> /\ stack' = Below /\ UNCHANGED <<data, pattern, result>>
  BY DEF EndLoop, Return
<1>2. /\ result \in Seq(Entries(data, pattern))
      /\ HasWildcard(pattern) => Overshoot(data, Len(result))
  BY <1>1, TopHolds
<1> QED
  BY <1>1, <1>2, CallReturns

\* A call that was not refused.
LEMMA Accepted ==
  ASSUME WildcardInv, Starting, ~Refused
  PROVE  /\ Len(result) < MAX_EXPANDED_FIELDS /\ Len(result) \in Nat
         /\ MAX_EXPANDED_FIELDS \in Nat
         /\ Top.rest # <<>> => ArrayIn(data, Top.prefix) # Missing
<1>1. result \in Seq(Entries(data, pattern))
  BY DEF WildcardInv
<1>2. Len(result) \in Nat
  BY <1>1
<1> DEFINE n == Len(result)
<1>3. ~(n >= MAX_EXPANDED_FIELDS)
  BY DEF Refused
<1>4. MAX_EXPANDED_FIELDS \in Nat
  BY LimitsHold
<1>5. Top.rest # <<>> => ArrayAt(Top.prefix) # Missing
  BY DEF Refused
<1>6. Top.rest # <<>> => ArrayIn(data, Top.prefix) # Missing
  BY <1>5, ArrayIsIn
<1> HIDE DEF n
<1>7. n < MAX_EXPANDED_FIELDS
  BY <1>2, <1>3, <1>4 DEF n
<1> QED
  BY <1>2, <1>4, <1>6, <1>7 DEF n

LEMMA EndOfPatternHolds == WildcardInv /\ EndOfPattern => WildcardInv'
<1> SUFFICES ASSUME WildcardInv, EndOfPattern PROVE WildcardInv'
  OBVIOUS
<1>1. /\ stack # <<>> /\ Starting /\ ~Refused /\ Top.rest = <<>> /\ stack' = Below
      /\ result' = AddPath(Top.prefix, Missing) /\ UNCHANGED <<data, pattern>>
  BY DEF EndOfPattern, Starting
<1>2. /\ data \in Trees /\ pattern \in Patterns /\ Top \in Frames(data, pattern)
      /\ result \in Seq(Entries(data, pattern))
  BY <1>1, TopHolds
<1>3. /\ Top.depth = Len(pattern) /\ Top.prefix \in Seq(Seg) \ {<<>>}
      /\ Top.prefix = Shown(Taken(Top.prefix))
      /\ Len(pattern) \in Nat /\ Len(pattern) >= 1
  BY <1>1, <1>2, FrameHolds, ShownTaken, PatternHolds
<1>4. PlainIn(data) => MeantIn(data, pattern, Top.prefix)
  <2> SUFFICES ASSUME PlainIn(data) PROVE MeantIn(data, pattern, Top.prefix)
    OBVIOUS
  <2> DEFINE t == Taken(Top.prefix)
  <2>1. Taking(data, pattern, Top)
    BY <1>2 DEF Frames
  <2>2. /\ Len(t) = Len(pattern)
        /\ \A i \in 1 .. Len(pattern) : Agrees(data, pattern, t, i)
    BY <1>3, <2>1 DEF Taking
  <2>3. MeantIn(data, pattern, t)
    BY <2>2 DEF MeantIn
  <2>4. t # <<>>
    <3>1. Len(<<>>) = 0
      OBVIOUS
    <3> QED
      BY <1>3, <2>2, <3>1
  <2>5. t = Top.prefix
    BY <1>3, <2>4 DEF Shown
  <2> QED
    BY <2>3, <2>5
<1> DEFINE path == Top.prefix
           e == [path |-> path, element |-> Missing]
<1>5. e \in Entries(data, pattern)
  <2>1. path \in Seq(Seg) /\ (PlainIn(data) => MeantIn(data, pattern, path))
    BY <1>3, <1>4
  <2> HIDE DEF path
  <2> QED
    BY <2>1 DEF Entries
<1>6. /\ result' \in Seq(Entries(data, pattern))
      /\ Len(result') \in Nat /\ Len(result') <= Len(result) + 1
  BY <1>1, <1>2, <1>5, PathAdded
<1>7. Overshoot(data, Len(result'))
  <2>1. Len(result') <= MAX_EXPANDED_FIELDS
    BY <1>1, <1>6, Accepted
  <2> QED
    BY <2>1 DEF Overshoot
<1> QED
  BY <1>1, <1>6, <1>7, CallReturns

LEMMA PlainSegmentHolds == WildcardInv /\ PlainSegment => WildcardInv'
<1> SUFFICES ASSUME WildcardInv, PlainSegment PROVE WildcardInv'
  OBVIOUS
<1> DEFINE s == Head(Top.rest)
           f == Call(Tail(Top.rest), Join(Top.prefix, <<s>>), Top.depth + 1)
<1>1. /\ stack # <<>> /\ Starting /\ ~Refused /\ Top.rest # <<>> /\ s # "*"
      /\ UNCHANGED <<data, pattern, result>>
      /\ stack' = Below \/ stack' = Append(Below, f)
  BY DEF PlainSegment, Return, Starting
<1>2. /\ data \in Trees /\ pattern \in Patterns /\ Top \in Frames(data, pattern)
      /\ Below \in Seq(Waiting(data, pattern))
      /\ result \in Seq(Entries(data, pattern))
      /\ HasWildcard(pattern) => Overshoot(data, Len(result))
  BY <1>1, TopHolds
<1>4. /\ s = pattern[Top.depth + 1] /\ s \in Seg /\ s # EmptySeg
      /\ Top.prefix \in Seq(Seg) \ {<<>>}
  BY <1>1, <1>2, FrameHolds
<1>5. Takes(data, pattern, Top, s)
  BY <1>1, <1>4, Accepted DEF Takes
<1>6. Join(Top.prefix, <<s>>) \in Seq(Seg) \ {<<>>}
  <2>1. <<s>> \in Seq(Seg) \ {<<>>}
    BY <1>4
  <2> HIDE DEF s
  <2> QED
    BY <1>4, <2>1, JoinIs
<1>7. f \in Frames(data, pattern)
  <2>1. \E x \in Seg : Takes(data, pattern, Top, x) /\ Join(Top.prefix, <<s>>) = Join(Top.prefix, <<x>>)
    BY <1>4, <1>5
  <2> DEFINE prefix == Join(Top.prefix, <<s>>)
  <2>2. /\ prefix \in Seq(Seg) \ {<<>>}
        /\ \E x \in Seg : Takes(data, pattern, Top, x) /\ prefix = Join(Top.prefix, <<x>>)
    BY <1>6, <2>1
  <2> HIDE DEF prefix
  <2>3. Call(Tail(Top.rest), prefix, Top.depth + 1) \in Frames(data, pattern)
    BY <1>1, <1>2, <2>2, DeeperCall
  <2> QED
    BY <2>3 DEF prefix
<1>8. f.at = "start"
  BY DEF Call
<1> HIDE DEF f
<1>9. CASE stack' = Below
  BY <1>1, <1>2, <1>9, CallReturns
<1>10. CASE stack' = Append(Below, f)
  BY <1>1, <1>2, <1>7, <1>8, <1>10, CallGoesOn
<1> QED
  BY <1>1, <1>9, <1>10

LEMMA StartLoopHolds == WildcardInv /\ StartLoop => WildcardInv'
<1> SUFFICES ASSUME WildcardInv, StartLoop PROVE WildcardInv'
  OBVIOUS
<1> DEFINE g == LoopOf(data, Top)
<1>1. /\ stack # <<>> /\ Starting /\ ~Refused /\ Top.rest # <<>> /\ Head(Top.rest) = "*"
      /\ UNCHANGED <<data, pattern, result>>
      /\ stack' = Append(Below, [Top EXCEPT !.at = "loop", !.place = ArrayAt(Top.prefix),
                                            !.keys = KeysOf(ArrayAt(Top.prefix))])
  BY DEF StartLoop, Starting
<1>2. /\ data \in Trees /\ pattern \in Patterns /\ Top \in Frames(data, pattern)
      /\ Below \in Seq(Waiting(data, pattern))
      /\ result \in Seq(Entries(data, pattern))
      /\ HasWildcard(pattern) => Overshoot(data, Len(result))
  BY <1>1, TopHolds
<1>4. stack' = Append(Below, g)
  BY <1>1, ArrayIsIn, KeysIsIn DEF LoopOf
<1>5. /\ ArrayIn(data, Top.prefix) # Missing /\ Len(result) \in Nat
      /\ Len(result) < MAX_EXPANDED_FIELDS /\ MAX_EXPANDED_FIELDS \in Nat
  BY <1>1, Accepted
<1>6. g \in Frames(data, pattern) /\ g.keys = KeysIn(data, g.place)
  BY <1>1, <1>2, <1>5, LoopStarts
<1> HIDE DEF g
<1>7. KeysIn(data, g.place) \in Seq(Key)
  BY KeysFound
<1>8. Len(result) + Len(g.keys) < MAX_EXPANDED_FIELDS + Len(KeysIn(data, g.place))
  <2> DEFINE n == Len(KeysIn(data, g.place))
             r == Len(result)
  <2>1. n \in Nat /\ Len(g.keys) = n /\ r \in Nat /\ r < MAX_EXPANDED_FIELDS
    BY <1>5, <1>6, <1>7
  <2> HIDE DEF n, r
  <2>2. r + n < MAX_EXPANDED_FIELDS + n
    BY <1>5, <2>1
  <2> QED
    BY <2>1, <2>2 DEF n, r
<1>9. HasWildcard(pattern) =>
         /\ Overshoot(data, Len(result'))
         /\ g.at = "loop" /\ Tail(g.rest) = <<>> =>
               Len(result') + Len(g.keys) < MAX_EXPANDED_FIELDS + Len(KeysIn(data, g.place))
  BY <1>1, <1>2, <1>8
<1>10. result' \in Seq(Entries(data, pattern))
  BY <1>1, <1>2
<1> QED
  BY <1>1, <1>2, <1>4, <1>6, <1>9, <1>10, CallGoesOn

\* What a loop starts its turn for a key from.
LEMMA TurnHolds ==
  ASSUME WildcardInv, stack # <<>>, Top.at = "loop", Top.keys # <<>>,
         NEW g, g = [Top EXCEPT !.keys = Tail(@)]
  PROVE  LET k == Head(Top.keys) IN
         /\ InLoop(data, Top) /\ k \in Key /\ k \in ToSet(Top.keys)
         /\ Append(Top.place, k) \in data.places
         /\ g \in Frames(data, pattern) /\ g.at = "loop" /\ g.rest = Top.rest
         /\ g.place = Top.place /\ g.prefix = Top.prefix /\ g.depth = Top.depth
         /\ g.keys = Tail(Top.keys) /\ Tail(Top.keys) \in Seq(Key)
         /\ Tail(Top.rest) # <<>> => g \in Waiting(data, pattern)
         /\ Len(Top.keys) \in Nat /\ Len(g.keys) = Len(Top.keys) - 1
         /\ \A x \in ToSet(Top.keys) : x = k \/ x \in ToSet(g.keys)
<1> DEFINE f == Top
           k == Head(f.keys)
           rest == Tail(f.keys)
<1>1. /\ f \in Frames(data, pattern) /\ f.at = "loop" /\ f.keys # <<>>
      /\ g = [f EXCEPT !.keys = Tail(f.keys)]
  BY TopHolds
<1> HIDE DEF f
<1>2. f \in Frame(data) /\ InLoop(data, f)
  BY <1>1 DEF Frames
<1>3. /\ f.place = ArrayIn(data, f.prefix) /\ f.place # Missing /\ f.place \in data.arrays
      /\ f.rest # <<>> /\ Head(f.rest) = "*"
      /\ \A x \in ToSet(f.keys) : Append(f.place, x) \in data.places
  BY <1>2 DEF InLoop
<1>4. f.keys \in Seq(Key)
  BY <1>2 DEF Frame
<1>5. /\ k \in Key /\ rest \in Seq(Key) /\ Len(rest) = Len(f.keys) - 1 /\ Len(f.keys) \in Nat
      /\ k = f.keys[1] /\ 1 \in DOMAIN f.keys /\ DOMAIN f.keys = 1 .. Len(f.keys)
      /\ DOMAIN rest = 1 .. Len(f.keys) - 1
      /\ \A i \in 1 .. Len(f.keys) - 1 : rest[i] = f.keys[i + 1]
  BY <1>1, <1>4, HeadTailProperties
<1> HIDE DEF k, rest
<1>6. k \in ToSet(f.keys)
  BY <1>5 DEF ToSet
<1>7. \A x \in ToSet(rest) : x \in ToSet(f.keys)
  <2>1. \A i \in 1 .. Len(f.keys) - 1 : i + 1 \in 1 .. Len(f.keys)
    BY <1>5
  <2> QED
    BY <1>5, <2>1 DEF ToSet
<1>8. \A x \in ToSet(f.keys) : x = k \/ x \in ToSet(rest)
  <2> SUFFICES ASSUME NEW i \in 1 .. Len(f.keys), i # 1
               PROVE  f.keys[i] \in ToSet(rest)
    BY <1>5 DEF ToSet
  <2>1. i - 1 \in 1 .. Len(f.keys) - 1 /\ (i - 1) + 1 = i
    BY <1>5
  <2>2. rest[i - 1] = f.keys[i] /\ i - 1 \in DOMAIN rest
    BY <1>5, <2>1
  <2> QED
    BY <2>2 DEF ToSet
<1>9. \A x \in ToSet(rest) : Append(f.place, x) \in data.places
  BY <1>3, <1>7
<1>10. /\ g \in Frames(data, pattern) /\ g.at = "loop" /\ g.rest = f.rest /\ g.keys = rest
       /\ g.place = f.place /\ g.prefix = f.prefix /\ g.depth = f.depth
       /\ Tail(f.rest) # <<>> => g \in Waiting(data, pattern)
  <2>1. g = [f EXCEPT !.keys = rest]
    BY <1>1 DEF rest
  <2> QED
    BY <1>1, <1>3, <1>5, <1>9, <2>1, LoopFrame
<1> QED
  BY <1>2, <1>3, <1>5, <1>6, <1>8, <1>10 DEF f, k, rest

\* The last segment is taken where the rest has none after it.
LEMMA LastTaken ==
  ASSUME NEW d, NEW pat \in Patterns, NEW f \in Frames(d, pat), f.rest # <<>>
  PROVE  Tail(f.rest) = <<>> <=> f.depth + 1 = Len(pat)
<1>1. /\ f.depth \in Nat /\ f.depth + 1 <= Len(pat) /\ Len(pat) \in Nat
      /\ Tail(f.rest) = SubSeq(pat, f.depth + 2, Len(pat))
  BY FrameHolds
<1>2. f.depth + 1 \in 0 .. Len(pat) /\ (f.depth + 1) + 1 = f.depth + 2
  BY <1>1
<1>3. pat \in Seq(Seg)
  BY PatternHolds
<1>4. SubSeq(pat, (f.depth + 1) + 1, Len(pat)) = <<>> <=> f.depth + 1 = Len(pat)
  BY <1>2, <1>3, RestMoves
<1> QED
  BY <1>1, <1>2, <1>4

\* The path a last loop adds for a key.
LEMMA KeyEntry ==
  ASSUME NEW d \in Trees, NEW pat \in Patterns, NEW f \in Frames(d, pat),
         f.at = "loop", InLoop(d, f), Tail(f.rest) = <<>>,
         NEW k \in Key, Append(f.place, k) \in d.places
  PROVE  [path |-> Join(f.prefix, Text[k]), element |-> Append(f.place, k)] \in Entries(d, pat)
<1> DEFINE path == Join(f.prefix, Text[k])
           element == Append(f.place, k)
<1>1. path \in Seq(Seg)
  BY FrameHolds, TextHolds, JoinIs
<1>2. f.rest # <<>>
  BY DEF InLoop
<1>3. f.depth + 1 = Len(pat)
  BY <1>2, LastTaken
<1>4. ASSUME PlainIn(d)
      PROVE  GetIn(d, path) = element /\ MeantIn(d, pat, path)
  <2>1. PICK s \in Seg : /\ Takes(d, pat, f, s) /\ Text[k] = <<s>>
                         /\ GetIn(d, Join(f.prefix, <<s>>)) = Append(f.place, k)
    BY <1>4, KeyTakes
  <2>2. path = Join(f.prefix, <<s>>)
    BY <2>1
  <2> DEFINE q == Append(Taken(f.prefix), s)
  <2>3. /\ q = path /\ Len(q) = f.depth + 1
        /\ \A i \in 1 .. f.depth + 1 : Agrees(d, pat, q, i)
    <3> HIDE DEF path
    <3> QED
      BY <1>4, <2>1, <2>2, TakesMore
  <2> HIDE DEF q, path
  <2>4. MeantIn(d, pat, path)
    BY <1>3, <2>3 DEF MeantIn
  <2> QED
    BY <2>1, <2>2, <2>4
<1> DEFINE e == [path |-> path, element |-> element]
<1>5. element \in d.places
  OBVIOUS
<1> HIDE DEF path, element
<1>6. e \in Entries(d, pat)
  BY <1>1, <1>4, <1>5 DEF Entries
<1> QED
  BY <1>6 DEF path, element

LEMMA LoopKeyHolds == WildcardInv /\ LoopKey => WildcardInv'
<1> SUFFICES ASSUME WildcardInv, LoopKey PROVE WildcardInv'
  OBVIOUS
<1> DEFINE key == Head(Top.keys)
           path == Join(Top.prefix, Text[key])
           g == [Top EXCEPT !.keys = Tail(@)]
           loop == Append(Below, g)
           f == Call(Tail(Top.rest), path, Top.depth + 1)
           left == MAX_EXPANDED_FIELDS + Len(KeysIn(data, g.place))
<1>1. /\ stack # <<>> /\ Top.at = "loop" /\ Top.keys # <<>>
      /\ UNCHANGED <<data, pattern>>
      /\ \/ stack' = loop /\ UNCHANGED result
         \/ /\ Tail(Top.rest) = <<>>
            /\ result' = AddPath(path, Append(Top.place, key)) /\ stack' = loop
         \/ Tail(Top.rest) # <<>> /\ stack' = Append(loop, f) /\ UNCHANGED result
  BY DEF LoopKey
<1>2. /\ data \in Trees /\ pattern \in Patterns /\ Top \in Frames(data, pattern)
      /\ Below \in Seq(Waiting(data, pattern))
      /\ result \in Seq(Entries(data, pattern))
      /\ HasWildcard(pattern) => Overshoot(data, Len(result))
  BY <1>1, TopHolds
<1>3. /\ InLoop(data, Top) /\ key \in Key /\ Append(Top.place, key) \in data.places
      /\ g \in Frames(data, pattern) /\ g.at = "loop" /\ g.rest = Top.rest
      /\ g.place = Top.place /\ Len(Top.keys) \in Nat /\ Len(g.keys) = Len(Top.keys) - 1
      /\ Tail(Top.rest) # <<>> => g \in Waiting(data, pattern)
  BY <1>1, TurnHolds
<1>4. KeysIn(data, g.place) \in Seq(Key)
  BY KeysFound
<1> HIDE DEF g
<1>5. left \in Nat /\ Len(result) \in Nat
  BY <1>2, <1>4, LimitsHold
<1>6. HasWildcard(pattern) /\ Tail(g.rest) = <<>> => Len(result) + Len(Top.keys) < left
  BY <1>1, <1>3 DEF WildcardInv, RoomLeft, AddsPaths
<1>7. Top.rest # <<>> /\ Top.place \in data.arrays /\ Top.prefix \in Seq(Seg) \ {<<>>}
  BY <1>2, <1>3, FrameHolds DEF InLoop
<1> HIDE DEF key, left
<1>8. CASE stack' = loop /\ UNCHANGED result
  <2>1. result' \in Seq(Entries(data, pattern))
    BY <1>2, <1>8
  <2>2. HasWildcard(pattern) =>
           /\ Overshoot(data, Len(result'))
           /\ g.at = "loop" /\ Tail(g.rest) = <<>> => Len(result') + Len(g.keys) < left
    BY <1>2, <1>3, <1>5, <1>6, <1>8
  <2> QED
    BY <1>1, <1>2, <1>3, <1>8, <2>1, <2>2, CallGoesOn DEF left
<1>9. CASE /\ Tail(Top.rest) = <<>> /\ stack' = loop
           /\ result' = AddPath(path, Append(Top.place, key))
  <2>1. [path |-> path, element |-> Append(Top.place, key)] \in Entries(data, pattern)
    BY <1>1, <1>2, <1>3, <1>9, KeyEntry
  <2> HIDE DEF path
  <2>2. /\ result' \in Seq(Entries(data, pattern))
        /\ Len(result') \in Nat /\ Len(result') <= Len(result) + 1
    BY <1>2, <1>9, <2>1, PathAdded
  <2>3. Len(Top.keys) >= 1
    <3>1. Top.keys \in Seq(Key)
      BY <1>2, FrameHolds
    <3> QED
      BY <1>1, <3>1, EmptySeq
  <2>4. HasWildcard(pattern) => Len(result') < left /\ Len(result') + Len(g.keys) < left
    <3> DEFINE n == Len(result)
               m == Len(result')
               k == Len(Top.keys)
    <3>1. /\ n \in Nat /\ m \in Nat /\ k \in Nat /\ left \in Nat /\ m <= n + 1 /\ k >= 1
          /\ Len(g.keys) = k - 1
      BY <1>3, <1>5, <2>2, <2>3
    <3>2. HasWildcard(pattern) => n + k < left
      BY <1>3, <1>6, <1>9
    <3> HIDE DEF n, m, k
    <3>3. n + k < left => m < left /\ m + (k - 1) < left
      BY <3>1
    <3> QED
      BY <3>1, <3>2, <3>3 DEF m
  <2>5. HasWildcard(pattern) => Overshoot(data, Len(result'))
    BY <1>3, <1>7, <2>4 DEF Overshoot, left
  <2>6. HasWildcard(pattern) =>
           /\ Overshoot(data, Len(result'))
           /\ g.at = "loop" /\ Tail(g.rest) = <<>> => Len(result') + Len(g.keys) < left
    BY <2>4, <2>5
  <2> QED
    BY <1>1, <1>2, <1>3, <1>9, <2>2, <2>6, CallGoesOn DEF left
<1>10. CASE Tail(Top.rest) # <<>> /\ stack' = Append(loop, f) /\ UNCHANGED result
  <2>1. path \in Seq(Seg) \ {<<>>}
    BY <1>3, <1>7, TextHolds, JoinIs
  <2>2. PlainIn(data) => \E s \in Seg : Takes(data, pattern, Top, s) /\ path = Join(Top.prefix, <<s>>)
    BY <1>1, <1>2, <1>3, KeyTakes
  <2> HIDE DEF path
  <2>3. f \in Frames(data, pattern)
    BY <1>2, <1>7, <2>1, <2>2, DeeperCall
  <2>4. f.at = "start"
    BY DEF Call
  <2>5. loop \in Seq(Waiting(data, pattern))
    BY <1>2, <1>3, <1>10
  <2>6. result' \in Seq(Entries(data, pattern))
    BY <1>2, <1>10
  <2> HIDE DEF f, loop
  <2> QED
    BY <1>1, <1>2, <1>10, <2>3, <2>4, <2>5, <2>6, CallGoesOn
<1> QED
  BY <1>1, <1>8, <1>9, <1>10

-----------------------------------------------------------------------------
\* The invariant of an expansion: the calls in progress hold the rest of the
\* pattern and a prefix that agrees with what was taken of it, each path found
\* is meant and reads its element, and the limit on paths is passed by less than the keys of one array.
THEOREM ExpansionInvariant == Spec => []WildcardInv
<1>1. Init => WildcardInv
  BY InitHolds
<1>2. WildcardInv /\ [Next]_vars => WildcardInv'
  <2> SUFFICES ASSUME WildcardInv, [Next]_vars PROVE WildcardInv'
    OBVIOUS
  <2>1. CASE UNCHANGED vars
    <3>1. UNCHANGED <<data, pattern, stack, result>>
      BY <2>1 DEF vars
    <3>3. RoomLeft'
      BY <3>1 DEF WildcardInv, RoomLeft, AddsPaths, Top
    <3> QED
      BY <3>1, <3>3 DEF WildcardInv
  <2>2. CASE Step
    BY <2>2, NoWildcardHolds, RefuseHolds, EndOfPatternHolds, PlainSegmentHolds,
       StartLoopHolds, LoopKeyHolds, EndLoopHolds DEF Step
  <2> QED
    BY <2>1, <2>2 DEF Next, Returned
<1> QED
  BY <1>1, <1>2, PTL DEF Spec

\* What the pattern means, in given data.
LEMMA MeantIsIn ==
  ASSUME pattern \in Patterns, NEW p \in Seq(Seg)
  PROVE  Meant(p) <=> MeantIn(data, pattern, p)
<1> DEFINE Prefix(i) == IF i = 0 THEN EmptyText ELSE SubSeq(p, 1, i)
           n == Len(pattern)
<1>1. pattern \in Seq(Seg) /\ n \in Nat /\ Segments(pattern) = pattern /\ DOMAIN pattern = 1 .. n
  BY PatternHolds
<1>2. ASSUME Len(p) = n
      PROVE  \A i \in 1 .. n : Prefix(i - 1) = Shown(SubSeq(p, 1, i - 1))
  <2> SUFFICES ASSUME NEW i \in 1 .. n
               PROVE  Prefix(i - 1) = Shown(SubSeq(p, 1, i - 1))
    OBVIOUS
  <2> HIDE DEF n
  <2>1. i - 1 \in 0 .. Len(p)
    BY <1>1, <1>2
  <2>2. Len(SubSeq(p, 1, i - 1)) = i - 1
    BY <2>1, Beginning
  <2>3. CASE i - 1 = 0
    <3>1. SubSeq(p, 1, i - 1) = <<>>
      BY <2>3, BeginningEnds
    <3> QED
      BY <2>3, <3>1 DEF Shown
  <2>4. CASE i - 1 # 0
    <3>1. Len(<<>>) = 0
      OBVIOUS
    <3>2. SubSeq(p, 1, i - 1) # <<>>
      BY <2>2, <2>4, <3>1
    <3> QED
      BY <2>4, <3>2 DEF Shown
  <2> QED
    BY <2>3, <2>4
<1>3. Meant(p) <=>
        /\ Len(p) = n
        /\ \A i \in 1 .. n :
              /\ ArrayAt(Prefix(i - 1)) # Missing
              /\ IF pattern[i] = "*"
                 THEN \E k \in Key : /\ Append(ArrayAt(Prefix(i - 1)), k) \in data.places
                                     /\ Text[k] = <<p[i]>>
                 ELSE p[i] = pattern[i]
  BY <1>1 DEF Meant
<1> HIDE DEF Prefix, n
<1>4. \A prefix : ArrayAt(prefix) = ArrayIn(data, prefix)
  BY ArrayIsIn
<1>5. Meant(p) <=> Len(p) = n /\ \A i \in 1 .. n : Agrees(data, pattern, p, i)
  BY <1>2, <1>3, <1>4 DEF Agrees
<1> QED
  BY <1>5 DEF MeantIn, n

LEMMA PathsHold ==
  ASSUME WildcardInv, NEW i \in DOMAIN result
  PROVE  result[i] \in Entries(data, pattern) /\ result[i].path \in Seq(Seg)
<1>1. result \in Seq(Entries(data, pattern))
  BY DEF WildcardInv
<1>2. result[i] \in Entries(data, pattern)
  BY <1>1
<1> QED
  BY <1>2 DEF Entries

\* The type invariant: the stack holds calls for a part of the pattern, and
\* every path has a value of the data, or none, that its loop stood at.
THEOREM TypeInvariant == Spec => []TypeOK
<1>1. WildcardInv => TypeOK
  <2> SUFFICES ASSUME WildcardInv PROVE TypeOK
    OBVIOUS
  <2>1. data \in Trees /\ pattern \in Patterns /\ stack \in Stacks(data, pattern)
    BY DEF WildcardInv
  <2>2. <<>> \in data.arrays
    BY <2>1, TreesHold
  <2>3. \A i \in DOMAIN result :
           /\ result[i].path \in Seq(Seg)
           /\ result[i].element \in data.places \cup {Missing}
    BY PathsHold DEF Entries
  <2>4. ASSUME NEW i \in DOMAIN stack
        PROVE  /\ stack[i].at \in {"start", "loop"}
               /\ stack[i].prefix \in Seq(Seg) \ {<<>>}
               /\ stack[i].depth \in 0 .. Len(pattern)
               /\ stack[i].keys \in Seq(Key)
               /\ stack[i].at = "loop" => stack[i].place \in data.arrays
    <3>1. stack \in Seq(Frames(data, pattern))
      BY <2>1 DEF Stacks
    <3>2. stack[i] \in Frames(data, pattern)
      BY <3>1
    <3> DEFINE f == stack[i]
    <3> HIDE DEF f
    <3>3. f \in Frames(data, pattern)
      BY <3>2 DEF f
    <3>4. f.at \in {"start", "loop"} /\ (f.at = "loop" => f.place \in data.arrays)
      BY <3>3 DEF Frames, Frame, InLoop
    <3>5. /\ f.prefix \in Seq(Seg) \ {<<>>} /\ f.depth \in 0 .. Len(pattern)
          /\ f.keys \in Seq(Key)
      BY <2>1, <3>3, FrameHolds
    <3> QED
      BY <3>4, <3>5 DEF f
  <2> QED
    BY <2>1, <2>2, <2>3, <2>4 DEF TypeOK
<1> QED
  BY <1>1, ExpansionInvariant, PTL

\* The prefixes that wait to be freed, one for each segment behind the call on top.
Held(s) == IF s = <<>> THEN 0 ELSE s[Len(s)].depth

\* The inductive part of TableOwnsAll: what is not in the table is held by a call.
\* Without a wildcard there is one call, which has made nothing yet.
BlocksCounted ==
    /\ blocks = 2 * Len(result) + Held(stack)
    /\ ~HasWildcard(pattern) /\ stack # <<>> => Starting /\ result = <<>> /\ Top.depth = 0

LEMMA HeldByTop ==
  ASSUME WildcardInv, stack # <<>>
  PROVE  /\ Held(stack) = Top.depth /\ Top.depth \in Nat
         /\ Held(Below) \in Nat /\ Released = Top.depth - Held(Below)
         /\ Len(result) \in Nat
<1>1. /\ Top \in Frames(data, pattern) /\ Below \in Seq(Waiting(data, pattern))
      /\ result \in Seq(Entries(data, pattern))
  BY TopHolds
<1>2. Below # <<>> => Below[Len(Below)] \in Waiting(data, pattern)
  BY <1>1, StackLess
<1>3. Below # <<>> => Below[Len(Below)].depth \in Nat
  BY <1>2 DEF Waiting, Frames, Frame
<1>4. Top.depth \in Nat
  BY <1>1 DEF Frames, Frame
<1>5. Held(stack) = Top.depth
  BY DEF Held, Top
<1>6. Released = Top.depth - Held(Below)
  BY DEF Released, Held, Last
<1>7. Held(Below) \in Nat
  BY <1>3 DEF Held
<1>8. Len(result) \in Nat
  BY <1>1
<1> QED
  BY <1>4, <1>5, <1>6, <1>7, <1>8

LEMMA HeldByNew ==
  ASSUME NEW T, NEW b \in Seq(T), NEW f
  PROVE  Held(Append(b, f)) = f.depth
BY FrontOfMore DEF Held

\* A call returns, and one goes on or starts.
LEMMA BlocksFreed ==
  ASSUME WildcardInv, BlocksCounted, stack # <<>>, HasWildcard(pattern),
         stack' = Below, blocks' = blocks + (2 * Len(result') - 2 * Len(result)) - Released,
         Len(result') \in Nat, pattern' = pattern
  PROVE  BlocksCounted'
<1> DEFINE h == Held(Below)
           n == Len(result)
           m == Len(result')
           d == Top.depth
<1>1. h \in Nat /\ n \in Nat /\ m \in Nat /\ d \in Nat /\ Released = d - h /\ Held(stack) = d
  BY HeldByTop
<1>2. blocks = 2 * n + d
  BY <1>1 DEF BlocksCounted
<1>3. blocks' = blocks + (2 * m - 2 * n) - (d - h)
  BY <1>1
<1>4. Held(stack') = h
  OBVIOUS
<1> HIDE DEF h, n, m, d
<1>5. blocks' = 2 * m + h
  BY <1>1, <1>2, <1>3
<1>6. blocks' = 2 * Len(result') + Held(stack')
  BY <1>4, <1>5 DEF m
<1>7. HasWildcard(pattern')
  OBVIOUS
<1> QED
  BY <1>6, <1>7 DEF BlocksCounted

LEMMA BlocksHeld ==
  ASSUME WildcardInv, BlocksCounted, stack # <<>>, HasWildcard(pattern),
         NEW T, NEW b \in Seq(T), NEW f, stack' = Append(b, f), f.depth \in Nat,
         blocks' = blocks + (2 * Len(result') - 2 * Len(result)) + (f.depth - Top.depth),
         Len(result') \in Nat, pattern' = pattern
  PROVE  BlocksCounted'
<1> DEFINE n == Len(result)
           m == Len(result')
           d == Top.depth
           e == f.depth
<1>1. e \in Nat /\ n \in Nat /\ m \in Nat /\ d \in Nat /\ Held(stack) = d
  BY HeldByTop
<1>2. blocks = 2 * n + d
  BY <1>1 DEF BlocksCounted
<1>3. blocks' = blocks + (2 * m - 2 * n) + (e - d)
  OBVIOUS
<1>4. Held(stack') = e
  BY HeldByNew
<1> HIDE DEF n, m, d, e
<1>5. blocks' = 2 * m + e
  <2>1. 2 * n + d + (2 * m - 2 * n) + (e - d) = 2 * m + e
    BY <1>1
  <2> QED
    BY <1>2, <1>3, <2>1
<1>6. blocks' = 2 * Len(result') + Held(stack')
  BY <1>4, <1>5 DEF m
<1>7. HasWildcard(pattern')
  OBVIOUS
<1> QED
  BY <1>6, <1>7 DEF BlocksCounted

\* The two ways in which a call goes on without a path.
LEMMA NoneHeld ==
  ASSUME WildcardInv, BlocksCounted, stack # <<>>, HasWildcard(pattern),
         NEW f, stack' = Append(Below, f), f.depth = Top.depth,
         UNCHANGED <<pattern, result, blocks>>
  PROVE  BlocksCounted'
<1>1. /\ Len(result) \in Nat /\ Top.depth \in Nat /\ Held(stack) = Top.depth
      /\ Below \in Seq(Waiting(data, pattern))
  BY HeldByTop, TopHolds
<1> DEFINE n == Len(result)
           d == Top.depth
<1>2. n \in Nat /\ d \in Nat /\ blocks = 2 * n + d
  BY <1>1 DEF BlocksCounted
<1>3. blocks = blocks + (2 * n - 2 * n) + (d - d)
  <2> HIDE DEF n, d
  <2> QED
    BY <1>2
<1>4. blocks' = blocks + (2 * Len(result') - 2 * Len(result)) + (f.depth - Top.depth)
  BY <1>3
<1> HIDE DEF n, d
<1> QED
  BY <1>1, <1>4, BlocksHeld

LEMMA OneHeld ==
  ASSUME WildcardInv, BlocksCounted, stack # <<>>, HasWildcard(pattern),
         NEW T, NEW b \in Seq(T), NEW f, stack' = Append(b, f), f.depth = Top.depth + 1,
         blocks' = blocks + 1, UNCHANGED <<pattern, result>>
  PROVE  BlocksCounted'
<1>1. Len(result) \in Nat /\ Top.depth \in Nat /\ Held(stack) = Top.depth
  BY HeldByTop
<1> DEFINE n == Len(result)
           d == Top.depth
<1>2. n \in Nat /\ d \in Nat /\ blocks = 2 * n + d
  BY <1>1 DEF BlocksCounted
<1>3. blocks + 1 = blocks + (2 * n - 2 * n) + ((d + 1) - d) /\ d + 1 \in Nat
  <2> HIDE DEF n, d
  <2> QED
    BY <1>2
<1>4. blocks' = blocks + (2 * Len(result') - 2 * Len(result)) + (f.depth - Top.depth)
  BY <1>3
<1> HIDE DEF n, d
<1>5. f.depth \in Nat
  BY <1>1
<1> QED
  BY <1>1, <1>4, <1>5, BlocksHeld

LEMMA PathCounted ==
  ASSUME NEW T, result \in Seq(T), NEW path, NEW element, result' = AddPath(path, element)
  PROVE  /\ Len(result) \in Nat /\ Len(result') \in Nat /\ Stored(path) \in Nat
         /\ 2 * Len(result') = 2 * Len(result) + Stored(path)
<1> DEFINE e == [path |-> path, element |-> element]
           n == Len(result)
<1>1. n \in Nat /\ result \in Seq(T \cup {e}) /\ e \in T \cup {e}
  BY SeqMonotonic
<1>2. CASE path \in Paths
  <2>1. result' = result /\ Stored(path) = 0
    BY <1>2 DEF AddPath, Stored
  <2> QED
    BY <1>1, <2>1
<1>3. CASE path \notin Paths
  <2>1. result' = Append(result, e) /\ Stored(path) = 2
    BY <1>3 DEF AddPath, Stored
  <2> HIDE DEF e
  <2>2. Len(result') = n + 1
    BY <1>1, <2>1
  <2> HIDE DEF n
  <2> QED
    BY <1>1, <2>1, <2>2 DEF n
<1> QED
  BY <1>2, <1>3
LEMMA BlocksStep ==
  ASSUME WildcardInv, BlocksCounted, [Next]_vars
  PROVE  BlocksCounted'
<1>1. CASE UNCHANGED vars
  BY <1>1 DEF vars, BlocksCounted, Starting, Top
<1>2. CASE NoWildcard
  <2>1. /\ stack # <<>> /\ ~HasWildcard(pattern) /\ stack' = <<>>
        /\ result' = <<[path |-> pattern, element |-> Missing]>>
        /\ blocks' = blocks + Stored(pattern) /\ pattern' = pattern
    BY <1>2 DEF NoWildcard, Starting
  <2>2. result = <<>> /\ Top.depth = 0 /\ blocks = 2 * Len(result) + Held(stack)
    BY <2>1 DEF BlocksCounted
  <2>3. Stored(pattern) = 2
    BY <2>2 DEF Stored, Paths
  <2>4. Held(stack) = 0
    BY <2>1, <2>2, HeldByTop
  <2>5. Len(result) = 0 /\ Len(result') = 1 /\ Held(stack') = 0
    BY <2>1, <2>2 DEF Held
  <2>6. blocks' = 2 * Len(result') + Held(stack')
    BY <2>1, <2>2, <2>3, <2>4, <2>5
  <2> QED
    BY <2>1, <2>6 DEF BlocksCounted
<1>3. CASE Refuse \/ EndLoop \/ (PlainSegment /\ stack' = Below)
  <2>0. stack # <<>>
    BY <1>3 DEF Refuse, EndLoop, PlainSegment, Starting
  <2>1. HasWildcard(pattern)
    BY <1>3, <2>0 DEF Refuse, EndLoop, PlainSegment, Starting, BlocksCounted
  <2>2. stack' = Below /\ blocks' = blocks - Released /\ UNCHANGED <<pattern, result>>
    <3>1. CASE Refuse \/ EndLoop
      BY <3>1 DEF Refuse, EndLoop, Return
    <3>2. CASE PlainSegment /\ stack' = Below
      <4>1. \/ Return
            \/ \E f : stack' = Append(Below, f)
        BY <3>2 DEF PlainSegment
      <4>2. \A f : Append(Below, f) # Below
        BY <2>0, TopHolds
      <4> QED
        BY <3>2, <4>1, <4>2 DEF PlainSegment, Return
    <3> QED
      BY <1>3, <3>1, <3>2
  <2>3. Len(result) \in Nat /\ Held(Below) \in Nat /\ Top.depth \in Nat
        /\ Released = Top.depth - Held(Below) /\ Held(stack) = Top.depth
    BY <2>0, HeldByTop
  <2>4. blocks \in Nat
    BY <2>3 DEF BlocksCounted
  <2> DEFINE n == Len(result)
  <2>5. n \in Nat /\ Released \in Int
    BY <2>3
  <2>6. blocks - Released = blocks + (2 * n - 2 * n) - Released
    <3> HIDE DEF n
    <3> QED
      BY <2>4, <2>5
  <2>7. blocks' = blocks + (2 * Len(result') - 2 * Len(result)) - Released
    BY <2>2, <2>6
  <2> HIDE DEF n
  <2> QED
    BY <2>0, <2>1, <2>2, <2>3, <2>7, BlocksFreed
<1>4. CASE EndOfPattern
  <2>1. /\ stack # <<>> /\ HasWildcard(pattern) /\ stack' = Below /\ Starting
        /\ result' = AddPath(Top.prefix, Missing) /\ UNCHANGED <<data, pattern>>
        /\ blocks' = blocks + Stored(Top.prefix) - Released
    BY <1>4 DEF EndOfPattern, Starting
  <2>2. /\ Len(result) \in Nat /\ Len(result') \in Nat /\ Stored(Top.prefix) \in Nat
        /\ 2 * Len(result') = 2 * Len(result) + Stored(Top.prefix)
    BY <2>1, TopHolds, PathCounted
  <2> DEFINE n == Len(result)
             m == Len(result')
             k == Stored(Top.prefix)
  <2>4. n \in Nat /\ m \in Nat /\ k \in Nat /\ 2 * m = 2 * n + k
    BY <2>2
  <2>5. k = 2 * m - 2 * n
    <3> HIDE DEF n, m, k
    <3> QED
      BY <2>4
  <2>6. blocks' = blocks + (2 * Len(result') - 2 * Len(result)) - Released
    BY <2>1, <2>5
  <2> HIDE DEF n, m, k
  <2> QED
    BY <2>1, <2>2, <2>6, BlocksFreed
<1>5. CASE PlainSegment /\ stack' # Below
  <2> DEFINE f == Call(Tail(Top.rest), Join(Top.prefix, <<Head(Top.rest)>>), Top.depth + 1)
  <2>1. /\ stack # <<>> /\ HasWildcard(pattern) /\ UNCHANGED <<pattern, result>>
        /\ stack' = Append(Below, f) /\ blocks' = blocks + 1
    BY <1>5 DEF PlainSegment, Starting, Return
  <2>2. f.depth = Top.depth + 1 /\ Below \in Seq(Waiting(data, pattern))
    BY <2>1, TopHolds DEF Call
  <2> HIDE DEF f
  <2> QED
    BY <2>1, <2>2, OneHeld
<1>6. CASE StartLoop
  <2> DEFINE f == [Top EXCEPT !.at = "loop", !.place = ArrayAt(Top.prefix),
                              !.keys = KeysOf(ArrayAt(Top.prefix))]
  <2>1. /\ stack # <<>> /\ HasWildcard(pattern) /\ UNCHANGED <<pattern, result, blocks>>
        /\ stack' = Append(Below, f)
    BY <1>6 DEF StartLoop, Starting
  <2>2. f.depth = Top.depth
    BY <2>1, TopHolds DEF Frames, Frame
  <2> HIDE DEF f
  <2> QED
    BY <2>1, <2>2, NoneHeld
<1>7. CASE LoopKey
  <2> DEFINE key == Head(Top.keys)
             path == Join(Top.prefix, Text[key])
             g == [Top EXCEPT !.keys = Tail(@)]
             loop == Append(Below, g)
             f == Call(Tail(Top.rest), path, Top.depth + 1)
  <2>1. /\ stack # <<>> /\ Top.at = "loop" /\ Top.keys # <<>> /\ UNCHANGED <<data, pattern>>
        /\ \/ stack' = loop /\ UNCHANGED <<result, blocks>>
           \/ /\ Tail(Top.rest) = <<>> /\ stack' = loop
              /\ result' = AddPath(path, Append(Top.place, key))
              /\ blocks' = blocks + Stored(path)
           \/ stack' = Append(loop, f) /\ blocks' = blocks + 1 /\ UNCHANGED result
    BY <1>7 DEF LoopKey
  <2>2. HasWildcard(pattern)
    BY <2>1 DEF BlocksCounted, Starting
  <2>3. /\ g.depth = Top.depth /\ f.depth = Top.depth + 1
        /\ Below \in Seq(Waiting(data, pattern)) /\ Top.depth \in Nat
        /\ result \in Seq(Entries(data, pattern))
    BY <2>1, TopHolds, HeldByTop DEF Frames, Frame, Call
  <2> HIDE DEF g, f, path, key
  <2>5. CASE stack' = loop /\ UNCHANGED <<result, blocks>>
    BY <2>1, <2>2, <2>3, <2>5, NoneHeld
  <2>6. CASE /\ Tail(Top.rest) = <<>> /\ stack' = loop
             /\ result' = AddPath(path, Append(Top.place, key))
             /\ blocks' = blocks + Stored(path)
    <3>1. /\ Len(result) \in Nat /\ Len(result') \in Nat
          /\ 2 * Len(result') = 2 * Len(result) + Stored(path)
      BY <2>3, <2>6, PathCounted
    <3>2. Stored(path) \in Nat /\ blocks \in Nat
      <4>1. blocks = 2 * Len(result) + Top.depth
        BY <2>1, HeldByTop DEF BlocksCounted
      <4> QED
        BY <2>3, <3>1, <4>1 DEF Stored
    <3> DEFINE n == Len(result)
               m == Len(result')
               k == Stored(path)
               d == Top.depth
    <3>3. n \in Nat /\ m \in Nat /\ k \in Nat /\ d \in Nat /\ 2 * m = 2 * n + k
      BY <2>3, <3>1, <3>2
    <3>4. blocks + k = blocks + (2 * m - 2 * n) + (d - d)
      <4> HIDE DEF n, m, k, d
      <4> QED
        BY <3>2, <3>3
    <3>5. blocks' = blocks + (2 * Len(result') - 2 * Len(result)) + (g.depth - Top.depth)
      BY <2>3, <2>6, <3>4
    <3> HIDE DEF n, m, k, d
    <3> QED
      BY <2>1, <2>2, <2>3, <2>6, <3>1, <3>5, BlocksHeld
  <2>7. CASE stack' = Append(loop, f) /\ blocks' = blocks + 1 /\ UNCHANGED result
    <3>1. loop \in Seq(Waiting(data, pattern) \cup {g})
      <4>1. Below \in Seq(Waiting(data, pattern) \cup {g})
        BY <2>3, SeqMonotonic
      <4> QED
        BY <4>1
    <3> HIDE DEF loop
    <3> QED
      BY <2>1, <2>2, <2>3, <2>7, <3>1, OneHeld
  <2> QED
    BY <2>1, <2>5, <2>6, <2>7
<1> QED
  BY <1>1, <1>2, <1>3, <1>4, <1>5, <1>6, <1>7 DEF Next, Step, Returned

LEMMA BlocksInit == Init => BlocksCounted
<1> SUFFICES ASSUME Init PROVE BlocksCounted
  OBVIOUS
<1> DEFINE f == Call(Segments(pattern), EmptyText, 0)
<1>1. f.depth = 0 /\ f.at = "start"
  BY DEF Call
<1>2. stack = <<f>> /\ result = <<>> /\ blocks = 0
  BY DEF Init
<1> HIDE DEF f
<1>3. stack[Len(stack)] = f /\ stack # <<>>
  BY <1>2
<1> QED
  BY <1>1, <1>2, <1>3 DEF BlocksCounted, Held, Starting, Top

\* Nothing is lost and nothing is left: in the end every block that the expansion
\* made is in the table, also where two elements give the same path.
THEOREM TableOwns == Spec => []TableOwnsAll
<1>1. BlocksCounted /\ WildcardInv => TableOwnsAll
  <2> SUFFICES ASSUME BlocksCounted, WildcardInv, stack = <<>>
               PROVE  blocks = 2 * Len(result)
    BY DEF TableOwnsAll
  <2>1. Len(result) \in Nat
    BY DEF WildcardInv
  <2> QED
    BY <2>1 DEF BlocksCounted, Held
<1>2. Spec => []BlocksCounted
  BY BlocksInit, BlocksStep, ExpansionInvariant, PTL DEF Spec
<1> QED
  BY <1>1, <1>2, ExpansionInvariant, PTL

\* The limit on the number of paths is passed by less than the keys of one array.
THEOREM OvershootBounded == Spec => []CapOvershoot
<1>1. WildcardInv => CapOvershoot
  <2> SUFFICES ASSUME WildcardInv, Wild, Len(result) > MAX_EXPANDED_FIELDS
               PROVE  \E loc \in data.arrays : Len(result) < MAX_EXPANDED_FIELDS + Len(KeysOf(loc))
    BY DEF CapOvershoot
  <2>1. Overshoot(data, Len(result)) /\ result \in Seq(Entries(data, pattern))
    BY DEF WildcardInv, RoomLeft, Wild
  <2> DEFINE n == Len(result)
  <2>2. n \in Nat /\ MAX_EXPANDED_FIELDS \in Nat /\ n > MAX_EXPANDED_FIELDS
    BY <2>1, LimitsHold
  <2> HIDE DEF n
  <2>3. ~(n <= MAX_EXPANDED_FIELDS)
    BY <2>2
  <2>4. \E loc \in data.arrays : n < MAX_EXPANDED_FIELDS + Len(KeysIn(data, loc))
    BY <2>1, <2>3 DEF Overshoot, n
  <2> QED
    BY <2>4, KeysIsIn DEF n
<1> QED
  BY <1>1, ExpansionInvariant, PTL

\* On data whose keys print as themselves, every path found is meant.
THEOREM PathsMeant == Spec => []ExpansionSound
<1>1. WildcardInv => ExpansionSound
  <2> SUFFICES ASSUME WildcardInv, Wild, PlainData, NEW i \in DOMAIN result
               PROVE  Meant(result[i].path)
    BY DEF ExpansionSound, Paths
  <2>1. result[i] \in Entries(data, pattern) /\ result[i].path \in Seq(Seg)
    BY PathsHold
  <2>2. PlainIn(data) /\ HasWildcard(pattern)
    BY DEF PlainData, PlainIn, Wild
  <2>3. MeantIn(data, pattern, result[i].path)
    BY <2>1, <2>2 DEF Entries
  <2>4. pattern \in Patterns
    BY DEF WildcardInv
  <2> QED
    BY <2>1, <2>3, <2>4, MeantIsIn
<1> QED
  BY <1>1, ExpansionInvariant, PTL

\* On such data the path made for an element reads that element back.
THEOREM ElementsRead == Spec => []PlainSameElement
<1>1. WildcardInv => PlainSameElement
  <2> SUFFICES ASSUME WildcardInv, PlainData, NEW i \in DOMAIN result,
                      result[i].element # Missing
               PROVE  GetNestedValue(result[i].path) = result[i].element
    BY DEF PlainSameElement, SameElement
  <2>1. result[i] \in Entries(data, pattern)
    BY PathsHold
  <2>2. PlainIn(data)
    BY DEF PlainData, PlainIn
  <2>3. GetIn(data, result[i].path) = result[i].element
    BY <2>1, <2>2 DEF Entries
  <2> QED
    BY <2>3, GetIsIn
<1> QED
  BY <1>1, ExpansionInvariant, PTL

-----------------------------------------------------------------------------
\* No path is lost: until it is found, a path the pattern means lies ahead of
\* one of the calls in progress.

\* The call holds a beginning of p, and its loop has still to come to the key
\* that p goes on with.
Ahead(p, f) ==
    /\ SubSeq(p, 1, f.depth) = Taken(f.prefix)
    /\ f.at = "loop" => \E k \in ToSet(f.keys) : Text[k] = <<p[f.depth + 1]>>

AheadOf(p, s) == \E i \in 1 .. Len(s) : Ahead(p, s[i])

\* The length limit leaves room for the path.
Roomy(p) ==
    \A size \in {0} \cup {KeySize[k] : k \in Key} : Size(p) + size + 2 <= MAX_PATH_LENGTH

NoneLost ==
    /\ HasWildcard(pattern) /\ PlainIn(data)
    /\ Len(pattern) <= MAX_WILDCARD_DEPTH /\ Len(result) < MAX_EXPANDED_FIELDS
    =>
    \A p \in Seq(Seg) : MeantIn(data, pattern, p) /\ Roomy(p) => p \in Paths \/ AheadOf(p, stack)

LEMMA AheadMore ==
  ASSUME NEW T, NEW s \in Seq(T), NEW f \in T, NEW p
  PROVE  AheadOf(p, Append(s, f)) <=> AheadOf(p, s) \/ Ahead(p, f)
<1> DEFINE q == Append(s, f)
           n == Len(s)
<1>1. /\ n \in Nat /\ Len(q) = n + 1 /\ q[n + 1] = f
      /\ \A i \in 1 .. n : q[i] = s[i]
  OBVIOUS
<1>2. \A i : i \in 1 .. n + 1 <=> i \in 1 .. n \/ i = n + 1
  BY <1>1
<1> HIDE DEF q, n
<1>3. AheadOf(p, q) <=> (\E i \in 1 .. n : Ahead(p, s[i])) \/ Ahead(p, f)
  BY <1>1, <1>2 DEF AheadOf
<1> QED
  BY <1>3 DEF q, n, AheadOf

\* What lies ahead of a call is what it takes next.
LEMMA AheadTakes ==
  ASSUME NEW d \in Trees, NEW pat \in Patterns, NEW f \in Frames(d, pat), PlainIn(d),
         NEW p \in Seq(Seg), MeantIn(d, pat, p), f.rest # <<>>,
         SubSeq(p, 1, f.depth) = Taken(f.prefix)
  PROVE  LET s == p[f.depth + 1] IN
         /\ s \in Seg /\ Takes(d, pat, f, s)
         /\ SubSeq(p, 1, f.depth + 1) = Taken(Join(f.prefix, <<s>>))
         /\ SubSeq(p, 1, f.depth + 1) = Join(f.prefix, <<s>>)
<1> DEFINE i == f.depth
           s == p[i + 1]
<1>1. /\ i \in Nat /\ i + 1 <= Len(pat) /\ Len(p) = Len(pat) /\ Len(pat) \in Nat
      /\ pat[i + 1] \in Seg /\ pat[i + 1] # EmptySeg
      /\ f.prefix = Shown(SubSeq(p, 1, i))
  BY FrameHolds, ShownTaken DEF MeantIn
<1> HIDE DEF i
<1>2. i + 1 \in 1 .. Len(pat) /\ (i + 1) - 1 = i /\ i \in 0 .. Len(p) - 1
  BY <1>1
<1>3. s \in Seg
  BY <1>1, <1>2
<1>4. Agrees(d, pat, p, i + 1)
  BY <1>2 DEF MeantIn
<1> DEFINE place == ArrayIn(d, f.prefix)
<1>5. /\ place # Missing
      /\ IF pat[i + 1] = "*"
         THEN \E k \in Key : Append(place, k) \in d.places /\ Text[k] = <<s>>
         ELSE s = pat[i + 1]
  BY <1>1, <1>2, <1>4 DEF Agrees
<1>6. s # EmptySeg
  <2>1. CASE pat[i + 1] = "*"
    <3>1. PICK k \in Key : Append(place, k) \in d.places /\ Text[k] = <<s>>
      BY <1>5, <2>1
    <3>2. place \in d.arrays
      BY <1>5 DEF ArrayIn
    <3> HIDE DEF place, s
    <3>3. PICK x \in Seg : x # EmptySeg /\ Text[k] = <<x>>
      BY <1>5, <3>1, <3>2, PlainChild
    <3>4. <<s>>[1] = <<x>>[1]
      BY <3>1, <3>3
    <3> QED
      BY <3>3, <3>4
  <2>2. CASE pat[i + 1] # "*"
    BY <1>1, <1>5, <2>2
  <2> QED
    BY <2>1, <2>2
<1>7. Takes(d, pat, f, s)
  BY <1>5, <1>6 DEF Takes, i
<1> HIDE DEF s
<1>8. LET q == Append(Taken(f.prefix), s) IN Taken(q) = q /\ q = Join(f.prefix, <<s>>)
  BY <1>3, <1>7, TakesMore
<1>9. SubSeq(p, 1, i + 1) = Append(Taken(f.prefix), s)
  BY <1>2, BeginningGrows DEF i, s
<1> QED
  BY <1>3, <1>7, <1>8, <1>9 DEF i, s

\* A path that fits is not refused for its length on the way.
LEMMA AheadFits ==
  ASSUME NEW d \in Trees, NEW pat \in Patterns, NEW f \in Frames(d, pat),
         NEW p \in Seq(Seg), MeantIn(d, pat, p), Roomy(p), f.rest # <<>>,
         SubSeq(p, 1, f.depth) = Taken(f.prefix)
  PROVE  /\ \A k \in Key : ~TooLong(f.prefix, KeySize[k])
         /\ ~TooLong(f.prefix, SegSize[p[f.depth + 1]])
<1>1. /\ f.depth \in Nat /\ f.depth + 1 <= Len(pat) /\ Len(p) = Len(pat) /\ Len(pat) \in Nat
      /\ f.prefix = Shown(SubSeq(p, 1, f.depth))
  BY FrameHolds, ShownTaken DEF MeantIn
<1> DEFINE whole == Size(p)
           part == Size(f.prefix)
           m == SegSize[p[f.depth + 1]]
<1>2. f.depth \in 0 .. Len(p) - 1
  BY <1>1
<1>3. whole \in Int /\ m \in Nat /\ part \in Nat /\ part <= whole /\ part + m <= whole
  BY <1>1, <1>2, SizeOfPart
<1>4. MAX_PATH_LENGTH \in Nat /\ \A k \in Key : KeySize[k] \in Nat
  BY LimitsHold
<1>5. /\ whole + 0 + 2 <= MAX_PATH_LENGTH
      /\ \A k \in Key : whole + KeySize[k] + 2 <= MAX_PATH_LENGTH
  BY DEF Roomy
<1> HIDE DEF whole, part, m
<1>6. part + m + 2 <= MAX_PATH_LENGTH
  BY <1>3, <1>4, <1>5
<1>7. \A k \in Key : part + KeySize[k] + 2 <= MAX_PATH_LENGTH
  <2> SUFFICES ASSUME NEW k \in Key PROVE part + KeySize[k] + 2 <= MAX_PATH_LENGTH
    OBVIOUS
  <2> DEFINE size == KeySize[k]
  <2>1. size \in Nat /\ whole + size + 2 <= MAX_PATH_LENGTH
    BY <1>4, <1>5
  <2> HIDE DEF size
  <2>2. part + size + 2 <= MAX_PATH_LENGTH
    BY <1>3, <1>4, <2>1
  <2> QED
    BY <2>2 DEF size
<1>8. ~TooLong(f.prefix, m)
  BY <1>3, <1>6, Fits DEF part
<1>9. \A k \in Key : ~TooLong(f.prefix, KeySize[k])
  BY <1>3, <1>4, <1>7, Fits DEF part
<1> QED
  BY <1>8, <1>9 DEF m

\* A path that is not found yet is ahead of the call on top, or of one below.
LEMMA StillAhead ==
  ASSUME WildcardInv, stack # <<>>, NEW p, p \in Paths \/ AheadOf(p, stack)
  PROVE  p \in Paths \/ AheadOf(p, Below) \/ Ahead(p, Top)
<1>1. /\ Top \in Frames(data, pattern) /\ Below \in Seq(Waiting(data, pattern))
      /\ stack = Append(Below, Top)
  BY TopHolds
<1> DEFINE f == Top
           b == Below
<1>2. b \in Seq(Frames(data, pattern)) /\ f \in Frames(data, pattern)
  <2>1. Waiting(data, pattern) \subseteq Frames(data, pattern)
    BY DEF Waiting
  <2> QED
    BY <1>1, <2>1, SeqMonotonic
<1>3. stack = Append(b, f)
  BY <1>1
<1> HIDE DEF f, b
<1>4. AheadOf(p, stack) <=> AheadOf(p, b) \/ Ahead(p, f)
  BY <1>2, <1>3, AheadMore
<1> QED
  BY <1>4 DEF f, b

\* One call more keeps ahead what is ahead.
LEMMA AheadOfMore ==
  ASSUME NEW b \in Seq(Frames(data, pattern)), NEW f \in Frames(data, pattern), NEW p,
         AheadOf(p, b) \/ Ahead(p, f)
  PROVE  AheadOf(p, Append(b, f))
BY AheadMore

\* A path that is to be found and that no limit stands against.
Sought(p) ==
    /\ HasWildcard(pattern) /\ PlainIn(data)
    /\ Len(pattern) <= MAX_WILDCARD_DEPTH /\ Len(result) < MAX_EXPANDED_FIELDS
    /\ p \in Seq(Seg) /\ MeantIn(data, pattern, p) /\ Roomy(p)
    /\ p \in Paths \/ AheadOf(p, stack)

LEMMA SoughtHolds ==
  ASSUME WildcardInv, stack # <<>>, NEW p, Sought(p)
  PROVE  /\ data \in Trees /\ pattern \in Patterns /\ p \in Seq(Seg)
         /\ Top \in Frames(data, pattern) /\ PlainIn(data)
         /\ Below \in Seq(Frames(data, pattern)) /\ Below \in Seq(Waiting(data, pattern))
         /\ MeantIn(data, pattern, p) /\ Roomy(p) /\ Len(p) = Len(pattern)
         /\ p \in Paths \/ AheadOf(p, Below) \/ Ahead(p, Top)
<1>1. /\ data \in Trees /\ pattern \in Patterns /\ Top \in Frames(data, pattern)
      /\ Below \in Seq(Waiting(data, pattern))
  BY TopHolds
<1>2. Below \in Seq(Frames(data, pattern))
  <2>1. Waiting(data, pattern) \subseteq Frames(data, pattern)
    BY DEF Waiting
  <2> QED
    BY <1>1, <2>1, SeqMonotonic
<1>3. /\ p \in Seq(Seg) /\ MeantIn(data, pattern, p) /\ Roomy(p) /\ PlainIn(data)
      /\ p \in Paths \/ AheadOf(p, stack)
  BY DEF Sought
<1> QED
  BY <1>1, <1>2, <1>3, StillAhead DEF MeantIn

LEMMA RefuseFinds ==
  ASSUME WildcardInv, Refuse, NEW p, Sought(p)
  PROVE  p \in Paths' \/ AheadOf(p, stack')
<1>1. stack # <<>> /\ stack' = Below /\ UNCHANGED <<data, pattern, result>> /\ Refused
  BY DEF Refuse, Return, Starting
<1>2. Paths' = Paths
  BY <1>1 DEF Paths
<1>3. ASSUME Ahead(p, Top) PROVE FALSE
  <2>1. SubSeq(p, 1, Top.depth) = Taken(Top.prefix)
    BY <1>3 DEF Ahead
  <2>2. Top.rest # <<>> => ArrayIn(data, Top.prefix) # Missing
    BY <1>1, <2>1, SoughtHolds, AheadTakes DEF Takes
  <2>3. Top.rest # <<>> => ArrayAt(Top.prefix) # Missing
    BY <2>2, ArrayIsIn
  <2> DEFINE n == Len(result)
             depth == Top.depth
             len == Len(pattern)
  <2>4. n < MAX_EXPANDED_FIELDS /\ n \in Nat /\ MAX_EXPANDED_FIELDS \in Nat
    <3>1. result \in Seq(Entries(data, pattern))
      BY DEF WildcardInv
    <3> QED
      BY <3>1, LimitsHold DEF Sought
  <2>5. /\ depth \in Nat /\ depth <= len /\ len <= MAX_WILDCARD_DEPTH /\ len \in Nat
        /\ MAX_WILDCARD_DEPTH \in Nat
    BY <1>1, SoughtHolds, FrameHolds, LimitsHold DEF Sought
  <2> HIDE DEF n, depth, len
  <2>6. ~(n >= MAX_EXPANDED_FIELDS) /\ ~(depth > MAX_WILDCARD_DEPTH)
    BY <2>4, <2>5
  <2> QED
    BY <1>1, <2>3, <2>6 DEF Refused, n, depth
<1> QED
  BY <1>1, <1>2, <1>3, SoughtHolds

LEMMA EndLoopFinds ==
  ASSUME WildcardInv, EndLoop, NEW p, Sought(p)
  PROVE  p \in Paths' \/ AheadOf(p, stack')
<1>1. /\ stack # <<>> /\ stack' = Below /\ UNCHANGED <<data, pattern, result>>
      /\ Top.at = "loop" /\ Top.keys = <<>>
  BY DEF EndLoop, Return
<1>2. Paths' = Paths
  BY <1>1 DEF Paths
<1>3. ~Ahead(p, Top)
  <2>1. ToSet(Top.keys) = {}
    BY <1>1 DEF ToSet
  <2> QED
    BY <1>1, <2>1 DEF Ahead
<1> QED
  BY <1>1, <1>2, <1>3, SoughtHolds

LEMMA PathThere ==
  ASSUME NEW T, result \in Seq(T), NEW path, NEW element, result' = AddPath(path, element)
  PROVE  path \in Paths' /\ Paths \subseteq Paths'
<1>1. CASE path \in Paths
  BY <1>1 DEF AddPath, Paths
<1>2. CASE path \notin Paths
  <2> DEFINE e == [path |-> path, element |-> element]
             n == Len(result)
  <2>1. result' = Append(result, e) /\ e.path = path
    BY <1>2 DEF AddPath
  <2> HIDE DEF e
  <2>2. /\ n \in Nat /\ DOMAIN result = 1 .. n /\ DOMAIN result' = 1 .. n + 1
        /\ \A i \in 1 .. n : result'[i] = result[i] /\ i \in 1 .. n + 1
        /\ result'[n + 1] = e /\ n + 1 \in 1 .. n + 1
    BY <2>1
  <2> QED
    BY <2>1, <2>2 DEF Paths
<1> QED
  BY <1>1, <1>2

LEMMA EndOfPatternFinds ==
  ASSUME WildcardInv, EndOfPattern, NEW p, Sought(p)
  PROVE  p \in Paths' \/ AheadOf(p, stack')
<1>1. /\ stack # <<>> /\ stack' = Below /\ Top.rest = <<>>
      /\ result' = AddPath(Top.prefix, Missing)
  BY DEF EndOfPattern, Starting
<1>2. Top.prefix \in Paths' /\ Paths \subseteq Paths'
  BY <1>1, PathThere DEF WildcardInv
<1>3. ASSUME Ahead(p, Top) PROVE p = Top.prefix
  <2>1. /\ Top.depth = Len(p) /\ Len(p) >= 1 /\ p \in Seq(Seg)
        /\ Top.prefix = Shown(Taken(Top.prefix))
    BY <1>1, SoughtHolds, FrameHolds, ShownTaken, PatternHolds
  <2>2. Taken(Top.prefix) = p
    BY <1>3, <2>1, BeginningEnds DEF Ahead
  <2>3. p # <<>>
    <3>1. Len(<<>>) = 0
      OBVIOUS
    <3> QED
      BY <2>1, <3>1
  <2> QED
    BY <2>1, <2>2, <2>3 DEF Shown
<1> QED
  BY <1>1, <1>2, <1>3, SoughtHolds

LEMMA PlainSegmentFinds ==
  ASSUME WildcardInv, PlainSegment, NEW p, Sought(p)
  PROVE  p \in Paths' \/ AheadOf(p, stack')
<1> DEFINE s == Head(Top.rest)
           f == Call(Tail(Top.rest), Join(Top.prefix, <<s>>), Top.depth + 1)
           b == Below
<1>1. /\ stack # <<>> /\ UNCHANGED <<data, pattern, result>> /\ Top.rest # <<>> /\ s # "*"
      /\ \/ TooLong(Top.prefix, SegSize[s]) /\ stack' = Below
         \/ stack' = Append(Below, f)
  BY DEF PlainSegment, Return, Starting
<1>2. Paths' = Paths
  BY <1>1 DEF Paths
<1>3. s = pattern[Top.depth + 1]
  BY <1>1, SoughtHolds, FrameHolds
<1>4. /\ f.at = "start" /\ f.prefix = Join(Top.prefix, <<s>>) /\ f.depth = Top.depth + 1
  BY DEF Call
<1> HIDE DEF s, f
<1>5. ASSUME Ahead(p, Top) PROVE Ahead(p, f) /\ ~TooLong(Top.prefix, SegSize[s])
  <2>1. SubSeq(p, 1, Top.depth) = Taken(Top.prefix)
    BY <1>5 DEF Ahead
  <2>2. Takes(data, pattern, Top, p[Top.depth + 1])
    BY <1>1, <2>1, SoughtHolds, AheadTakes
  <2>3. p[Top.depth + 1] = s
    BY <1>1, <1>3, <2>2 DEF Takes
  <2>4. SubSeq(p, 1, Top.depth + 1) = Taken(Join(Top.prefix, <<s>>))
    BY <1>1, <2>1, <2>3, SoughtHolds, AheadTakes
  <2>5. ~TooLong(Top.prefix, SegSize[s])
    BY <1>1, <2>1, <2>3, SoughtHolds, AheadFits
  <2> QED
    BY <1>4, <2>4, <2>5 DEF Ahead
<1>6. CASE p \in Paths
  BY <1>2, <1>6
<1>7. CASE p \notin Paths
  <2>1. AheadOf(p, Below) \/ Ahead(p, Top)
    BY <1>1, <1>7, SoughtHolds
  <2>2. CASE stack' = Below
    <3>1. AheadOf(p, Below) \/ stack' = Append(Below, f)
      BY <1>1, <1>5, <2>1
    <3>2. CASE AheadOf(p, Below)
      BY <2>2, <3>2
    <3>3. CASE Ahead(p, Top)
      BY <1>1, <1>5, <2>2, <3>3, FrontOfMore, SoughtHolds
    <3> QED
      BY <2>1, <3>2, <3>3
  <2>3. CASE stack' = Append(Below, f)
    <3>1. Below \in Seq(Frames(data, pattern) \cup {f})
      <4>1. Below \in Seq(Frames(data, pattern))
        BY <1>1, SoughtHolds
      <4> QED
        BY <4>1, SeqMonotonic
    <3>2. AheadOf(p, Below) \/ Ahead(p, f)
      BY <1>5, <2>1
    <3>3. f \in Frames(data, pattern) \cup {f}
      OBVIOUS
    <3>4. AheadOf(p, Append(b, f))
      <4>1. b \in Seq(Frames(data, pattern) \cup {f}) /\ (AheadOf(p, b) \/ Ahead(p, f))
        BY <3>1, <3>2
      <4> HIDE DEF b
      <4> QED
        BY <3>3, <4>1, AheadMore
    <3> QED
      BY <2>3, <3>4
  <2> QED
    BY <1>1, <2>2, <2>3
<1> QED
  BY <1>6, <1>7

LEMMA StartLoopFinds ==
  ASSUME WildcardInv, StartLoop, NEW p, Sought(p)
  PROVE  p \in Paths' \/ AheadOf(p, stack')
<1> DEFINE g == LoopOf(data, Top)
           b == Below
<1>1. /\ stack # <<>> /\ Starting /\ ~Refused /\ Top.rest # <<>> /\ Head(Top.rest) = "*"
      /\ UNCHANGED <<data, pattern, result>>
      /\ stack' = Append(Below, [Top EXCEPT !.at = "loop", !.place = ArrayAt(Top.prefix),
                                            !.keys = KeysOf(ArrayAt(Top.prefix))])
  BY DEF StartLoop, Starting
<1>2. Paths' = Paths
  BY <1>1 DEF Paths
<1>3. stack' = Append(b, g)
  BY <1>1, ArrayIsIn, KeysIsIn DEF LoopOf
<1>4. /\ data \in Trees /\ pattern \in Patterns /\ Top \in Frames(data, pattern)
      /\ b \in Seq(Frames(data, pattern))
  BY <1>1, SoughtHolds
<1>5. ArrayIn(data, Top.prefix) # Missing
  BY <1>1, Accepted
<1>6. /\ g \in Frames(data, pattern) /\ g.at = "loop"
      /\ g.keys = KeysIn(data, g.place) /\ g.place = ArrayIn(data, Top.prefix)
      /\ g.prefix = Top.prefix /\ g.depth = Top.depth
  BY <1>1, <1>4, <1>5, LoopStarts
<1> HIDE DEF g, b
<1>7. ASSUME Ahead(p, Top) PROVE Ahead(p, g)
  <2>1. SubSeq(p, 1, Top.depth) = Taken(Top.prefix)
    BY <1>7 DEF Ahead
  <2>2. Takes(data, pattern, Top, p[Top.depth + 1])
    BY <1>1, <2>1, SoughtHolds, AheadTakes
  <2>3. pattern[Top.depth + 1] = "*"
    BY <1>1, <1>4, FrameHolds
  <2>4. PICK k \in Key : /\ Append(ArrayIn(data, Top.prefix), k) \in data.places
                         /\ Text[k] = <<p[Top.depth + 1]>>
    BY <2>2, <2>3 DEF Takes
  <2>5. k \in ToSet(g.keys)
    <3>1. ToSet(KeysIn(data, g.place)) = {x \in Key : Append(g.place, x) \in data.places}
      BY KeysFound
    <3> QED
      BY <1>6, <2>4, <3>1
  <2> QED
    BY <1>6, <2>1, <2>4, <2>5 DEF Ahead
<1>8. p \in Paths \/ AheadOf(p, b) \/ Ahead(p, g)
  BY <1>1, <1>7, SoughtHolds DEF b
<1>9. AheadOf(p, b) \/ Ahead(p, g) => AheadOf(p, Append(b, g))
  BY <1>4, <1>6, AheadMore
<1> QED
  BY <1>2, <1>3, <1>8, <1>9

LEMMA LoopKeyFinds ==
  ASSUME WildcardInv, LoopKey, NEW p, Sought(p)
  PROVE  p \in Paths' \/ AheadOf(p, stack')
<1> DEFINE key == Head(Top.keys)
           path == Join(Top.prefix, Text[key])
           g == [Top EXCEPT !.keys = Tail(@)]
           b == Below
           loop == Append(b, g)
           f == Call(Tail(Top.rest), path, Top.depth + 1)
           T == Frames(data, pattern) \cup {f}
<1>1. /\ stack # <<>> /\ Top.at = "loop" /\ Top.keys # <<>>
      /\ \/ TooLong(Top.prefix, KeySize[key]) /\ stack' = loop /\ UNCHANGED result
         \/ /\ Tail(Top.rest) = <<>>
            /\ result' = AddPath(path, Append(Top.place, key)) /\ stack' = loop
         \/ Tail(Top.rest) # <<>> /\ stack' = Append(loop, f) /\ UNCHANGED result
  BY DEF LoopKey
<1>2. /\ data \in Trees /\ pattern \in Patterns /\ Top \in Frames(data, pattern)
      /\ b \in Seq(Frames(data, pattern)) /\ p \in Seq(Seg) /\ Len(p) = Len(pattern)
  BY <1>1, SoughtHolds
<1>3. /\ InLoop(data, Top) /\ key \in Key
      /\ g \in Frames(data, pattern) /\ g.at = "loop"
      /\ g.prefix = Top.prefix /\ g.depth = Top.depth
      /\ \A x \in ToSet(Top.keys) : x = key \/ x \in ToSet(g.keys)
  BY <1>1, TurnHolds
<1>4. Top.rest # <<>>
  BY <1>3 DEF InLoop
<1>5. f.at = "start" /\ f.prefix = path /\ f.depth = Top.depth + 1
  BY DEF Call
<1>6. Paths \subseteq Paths'
  <2>1. CASE UNCHANGED result
    BY <2>1 DEF Paths
  <2>2. CASE result' = AddPath(path, Append(Top.place, key))
    BY <2>2, PathThere DEF WildcardInv
  <2> QED
    BY <1>1, <2>1, <2>2
<1> HIDE DEF g, f, b, key
<1>7. b \in Seq(T) /\ g \in T /\ f \in T /\ loop \in Seq(T)
  <2>1. b \in Seq(T)
    <3>1. Frames(data, pattern) \subseteq T
      OBVIOUS
    <3> HIDE DEF T
    <3> QED
      BY <1>2, <3>1, SeqMonotonic
  <2>2. g \in T /\ f \in T
    BY <1>3
  <2> HIDE DEF T
  <2> QED
    BY <2>1, <2>2
<1>8. /\ AheadOf(p, loop) <=> AheadOf(p, b) \/ Ahead(p, g)
      /\ AheadOf(p, Append(loop, f)) <=> AheadOf(p, loop) \/ Ahead(p, f)
  <2>1. AheadOf(p, loop) <=> AheadOf(p, b) \/ Ahead(p, g)
    <3> HIDE DEF T
    <3> QED
      BY <1>7, AheadMore
  <2> DEFINE l == loop
  <2>2. l \in Seq(T)
    BY <1>7
  <2> HIDE DEF l, T
  <2>3. AheadOf(p, Append(l, f)) <=> AheadOf(p, l) \/ Ahead(p, f)
    BY <1>7, <2>2, AheadMore
  <2> QED
    BY <2>1, <2>3 DEF l
<1>9. AheadOf(p, loop) => AheadOf(p, stack')
  BY <1>1, <1>8
<1> HIDE DEF loop, path, T
<1>10. ASSUME Ahead(p, Top), ~Ahead(p, g)
       PROVE  /\ ~TooLong(Top.prefix, KeySize[key])
              /\ SubSeq(p, 1, Top.depth + 1) = Taken(path)
              /\ SubSeq(p, 1, Top.depth + 1) = path
  <2>1. SubSeq(p, 1, Top.depth) = Taken(Top.prefix)
    BY <1>10 DEF Ahead
  <2>2. PICK k \in ToSet(Top.keys) : Text[k] = <<p[Top.depth + 1]>>
    BY <1>1, <1>10 DEF Ahead
  <2>3. k \notin ToSet(g.keys)
    BY <1>3, <1>10, <2>1, <2>2 DEF Ahead
  <2>4. Text[key] = <<p[Top.depth + 1]>>
    BY <1>3, <2>2, <2>3
  <2>5. path = Join(Top.prefix, <<p[Top.depth + 1]>>)
    BY <2>4 DEF path
  <2>6. /\ SubSeq(p, 1, Top.depth + 1) = Taken(Join(Top.prefix, <<p[Top.depth + 1]>>))
        /\ SubSeq(p, 1, Top.depth + 1) = Join(Top.prefix, <<p[Top.depth + 1]>>)
    BY <1>1, <1>4, <2>1, SoughtHolds, AheadTakes
  <2>7. ~TooLong(Top.prefix, KeySize[key])
    BY <1>1, <1>3, <1>4, <2>1, SoughtHolds, AheadFits
  <2> QED
    BY <2>5, <2>6, <2>7
<1>11. ASSUME Ahead(p, Top), ~Ahead(p, g), Tail(Top.rest) = <<>>
       PROVE  p \in Paths'
  <2>1. Top.depth + 1 = Len(p)
    BY <1>2, <1>4, <1>11, LastTaken
  <2>2. path = p
    BY <1>2, <1>10, <1>11, <2>1, BeginningEnds
  <2>3. result' = AddPath(path, Append(Top.place, key))
    BY <1>1, <1>10, <1>11
  <2> QED
    BY <2>2, <2>3, PathThere DEF WildcardInv
<1>12. ASSUME Ahead(p, Top), ~Ahead(p, g), Tail(Top.rest) # <<>>
       PROVE  AheadOf(p, stack')
  <2>1. stack' = Append(loop, f)
    BY <1>1, <1>10, <1>12
  <2>2. Ahead(p, f)
    BY <1>5, <1>10, <1>12 DEF Ahead
  <2> QED
    BY <1>8, <2>1, <2>2
<1>13. p \in Paths \/ AheadOf(p, b) \/ Ahead(p, Top)
  BY <1>1, SoughtHolds DEF b
<1> QED
  BY <1>6, <1>8, <1>9, <1>11, <1>12, <1>13

\* A path that the pattern means and that no limit stands against is found, or
\* lies ahead of a call in progress: no early return and no step of a loop loses it.
THEOREM NothingLost == Spec => []NoneLost
<1>1. Init => NoneLost
  <2> SUFFICES ASSUME Init, NEW p \in Seq(Seg) PROVE AheadOf(p, stack)
    BY DEF NoneLost
  <2> DEFINE f == Call(Segments(pattern), EmptyText, 0)
  <2>1. stack = <<f>> /\ f.at = "start" /\ f.depth = 0 /\ f.prefix = EmptyText
    BY DEF Init, Call
  <2>2. SubSeq(p, 1, 0) = <<>>
    BY BeginningEnds
  <2> HIDE DEF f
  <2>3. Ahead(p, f)
    BY <2>1, <2>2 DEF Ahead, Taken
  <2>4. Len(stack) = 1 /\ stack[1] = f
    BY <2>1
  <2> QED
    BY <2>3, <2>4 DEF AheadOf
<1>2. WildcardInv /\ WildcardInv' /\ NoneLost /\ [Next]_vars => NoneLost'
  <2> SUFFICES ASSUME WildcardInv, WildcardInv', NoneLost, [Next]_vars,
                      HasWildcard(pattern)', PlainIn(data)',
                      Len(pattern)' <= MAX_WILDCARD_DEPTH, Len(result)' < MAX_EXPANDED_FIELDS,
                      NEW p \in Seq(Seg), MeantIn(data, pattern, p)', Roomy(p)
               PROVE  p \in Paths' \/ AheadOf(p, stack')
    BY DEF NoneLost
  <2>1. data' = data /\ pattern' = pattern
    BY DEF Next, Step, Returned, vars, NoWildcard, Refuse, EndOfPattern, PlainSegment,
           StartLoop, LoopKey, EndLoop
  <2>2. ~NoWildcard
    BY <2>1 DEF NoWildcard
  <2>3. Len(result) <= Len(result') /\ Len(result) \in Nat /\ Len(result') \in Nat
    <3>0. Len(result) \in Nat /\ Len(result') \in Nat
      BY DEF WildcardInv
    <3>1. CASE UNCHANGED result
      BY <3>0, <3>1
    <3>2. ASSUME NEW path, NEW element, result' = AddPath(path, element)
          PROVE  Len(result) <= Len(result')
      <4>1. result \in Seq(Entries(data, pattern))
        BY DEF WildcardInv
      <4>2. result' = result \/ result' = Append(result, [path |-> path, element |-> element])
        BY <3>2 DEF AddPath
      <4> QED
        BY <3>0, <4>1, <4>2
    <3>3. \/ UNCHANGED result
          \/ \E path, element : result' = AddPath(path, element)
      BY <2>2 DEF Next, Step, Returned, vars, Refuse, EndOfPattern, PlainSegment,
                  StartLoop, LoopKey, EndLoop
    <3> QED
      BY <3>0, <3>1, <3>2, <3>3
  <2>4. Sought(p)
    <3>1. Len(result) < MAX_EXPANDED_FIELDS
      BY <2>3, LimitsHold
    <3> QED
      BY <2>1, <3>1 DEF NoneLost, Sought
  <2>5. CASE UNCHANGED vars
    <3>1. UNCHANGED <<stack, result>>
      BY <2>5 DEF vars
    <3> QED
      BY <2>4, <3>1 DEF Sought, Paths
  <2>6. CASE Step
    BY <2>2, <2>4, <2>6, RefuseFinds, EndOfPatternFinds, PlainSegmentFinds, StartLoopFinds,
       LoopKeyFinds, EndLoopFinds DEF Step
  <2> QED
    BY <2>5, <2>6 DEF Next, Returned
<1> QED
  BY <1>1, <1>2, ExpansionInvariant, PTL DEF Spec

\* On data whose keys print as themselves, an expansion that meets no limit has
\* found every path the pattern means when it returns.
THEOREM AllFound == Spec => []ExpansionComplete
<1>1. WildcardInv /\ NoneLost => ExpansionComplete
  <2> SUFFICES ASSUME WildcardInv, NoneLost, stack = <<>>, Wild, PlainData, WithinLimits,
                      NEW p \in Expected
               PROVE  p \in Paths
    BY DEF ExpansionComplete
  <2>1. /\ pattern \in Patterns /\ pattern \in Seq(Seg) /\ Segments(pattern) = pattern
        /\ DOMAIN pattern = 1 .. Len(pattern) /\ Len(pattern) \in Nat
    BY PatternHolds DEF WildcardInv
  <2>2. p \in Seq(Seg) /\ Meant(p)
    <3> DEFINE Printed == {s \in Seg : \E k \in Key : Text[k] = <<s>>}
               V == Printed \cup ToSet(pattern)
    <3>1. p \in [1 .. Len(pattern) -> V] /\ Meant(p)
      BY <2>1 DEF Expected
    <3>2. V \subseteq Seg
      BY <2>1 DEF ToSet
    <3> HIDE DEF V
    <3>3. p \in Seq(Seg)
      <4>1. p \in [1 .. Len(pattern) -> Seg]
        BY <3>1, <3>2
      <4> QED
        BY <2>1, <4>1
    <3> QED
      BY <3>1, <3>3
  <2>3. MeantIn(data, pattern, p)
    BY <2>1, <2>2, MeantIsIn
  <2>4. /\ HasWildcard(pattern) /\ PlainIn(data)
        /\ Len(pattern) <= MAX_WILDCARD_DEPTH /\ Len(result) < MAX_EXPANDED_FIELDS
    BY <2>1 DEF Wild, PlainData, PlainIn, WithinLimits
  <2>5. Roomy(p)
    BY DEF WithinLimits, Roomy
  <2>6. p \in Paths \/ AheadOf(p, stack)
    BY <2>2, <2>3, <2>4, <2>5 DEF NoneLost
  <2>7. ~AheadOf(p, stack)
    <3>1. Len(<<>>) = 0 /\ 1 .. 0 = {}
      OBVIOUS
    <3> QED
      BY <3>1 DEF AheadOf
  <2> QED
    BY <2>6, <2>7
<1> QED
  BY <1>1, ExpansionInvariant, NothingLost, PTL
=============================================================================
