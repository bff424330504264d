---------------------------- MODULE ResultProofs ----------------------------
(***************************************************************************)
(* The reference counts of result objects, for any memory, any results and *)
(* any contents: nothing is freed while a table holds it, nothing is kept  *)
(* that nobody holds, and what a result says does not change.              *)
(***************************************************************************)
EXTENDS Results, FiniteSetTheorems, TLAPS

-----------------------------------------------------------------------------
(* A heap and its holders. *)

Values == Content \cup {Messages, Nothing}
Boxes == [kind : {"free", "value", "ref"}, content : Values, refs : Nat]

HoldersOf(hd, b) == {h \in Holder : hd[h] = b}
Turn(hd, h, b) == [hd EXCEPT ![h] = b]
Less(hp, b) == Counted(hp, b, -1)

Counting(hp, hd) ==
    /\ hp \in [Box -> Boxes]
    /\ hd \in [Holder -> Box \cup {Nothing}]
    /\ \A b \in Box : /\ IsFiniteSet(HoldersOf(hd, b))
                      /\ hp[b].refs = Cardinality(HoldersOf(hd, b))
                      /\ hp[b].kind = "free" <=> hp[b].refs = 0

\* What happens to a box that holds something: nothing but its count, or it is
\* freed.
Steady(hp, hp2) ==
    \A b \in Box : hp[b].kind # "free" =>
        \/ hp2[b].kind = "free"
        \/ hp2[b].kind = hp[b].kind /\ hp2[b].content = hp[b].content

\* One holder turns to another box.
LEMMA Turned ==
    ASSUME NEW hd \in [Holder -> Box \cup {Nothing}], NEW h \in Holder, NEW to,
           NEW c, IsFiniteSet(HoldersOf(hd, c))
    PROVE  /\ IsFiniteSet(HoldersOf(Turn(hd, h, to), c))
           /\ c # to /\ c # hd[h] => HoldersOf(Turn(hd, h, to), c) = HoldersOf(hd, c)
           /\ c = to /\ c # hd[h] => Cardinality(HoldersOf(Turn(hd, h, to), c))
                                        = Cardinality(HoldersOf(hd, c)) + 1
           /\ c # to /\ c = hd[h] => Cardinality(HoldersOf(Turn(hd, h, to), c))
                                        = Cardinality(HoldersOf(hd, c)) - 1
<1> DEFINE before == HoldersOf(hd, c)
           after == HoldersOf(Turn(hd, h, to), c)
<1>1. c = to => after = before \cup {h}
  BY DEF HoldersOf, Turn
<1>2. c # to => after = before \ {h}
  BY DEF HoldersOf, Turn
<1>3. h \in before <=> c = hd[h]
  BY DEF HoldersOf, Turn
<1> HIDE DEF before, after
<1>4. IsFiniteSet(before)
  BY DEF before
<1>5. /\ IsFiniteSet(before \cup {h}) /\ IsFiniteSet(before \ {h})
      /\ Cardinality(before \cup {h}) = IF h \in before THEN Cardinality(before)
                                                        ELSE Cardinality(before) + 1
      /\ Cardinality(before \ {h}) = IF h \in before THEN Cardinality(before) - 1
                                                     ELSE Cardinality(before)
  BY <1>4, FS_AddElement, FS_RemoveElement
<1>6. /\ IsFiniteSet(after)
      /\ c # to /\ c # hd[h] => after = before
      /\ c = to /\ c # hd[h] => Cardinality(after) = Cardinality(before) + 1
      /\ c # to /\ c = hd[h] => Cardinality(after) = Cardinality(before) - 1
  BY <1>1, <1>2, <1>3, <1>5
<1> QED
  BY <1>6 DEF before, after

\* What somebody holds is not free.
LEMMA Held ==
    ASSUME NEW hp, NEW hd, Counting(hp, hd), NEW h \in Holder, hd[h] # Nothing
    PROVE  hd[h] \in Box /\ hp[hd[h]] \in Boxes /\ hp[hd[h]].refs \in Nat \ {0}
           /\ hp[hd[h]].kind # "free"
<1>1. hd[h] \in Box /\ hp[hd[h]] \in Boxes
  BY DEF Counting
<1>2. h \in HoldersOf(hd, hd[h])
  BY DEF HoldersOf
<1>3. Cardinality(HoldersOf(hd, hd[h])) # 0
  BY <1>1, <1>2, FS_EmptySet DEF Counting
<1>4. hp[hd[h]].refs \in Nat
  BY <1>1 DEF Boxes
<1> QED
  BY <1>1, <1>3, <1>4 DEF Counting

\* A box that two hold has two references at least.
LEMMA HeldTwice ==
    ASSUME NEW hp, NEW hd, Counting(hp, hd), NEW g \in Holder, NEW h \in Holder, g # h,
           hd[g] # Nothing, hd[h] = hd[g]
    PROVE  hp[hd[g]].refs # 1
<1> DEFINE b == hd[g]
<1>1. b \in Box /\ g \in HoldersOf(hd, b) /\ h \in HoldersOf(hd, b)
  BY Held DEF HoldersOf
<1>2. IsFiniteSet(HoldersOf(hd, b)) /\ hp[b].refs = Cardinality(HoldersOf(hd, b))
  BY <1>1 DEF Counting
<1>3. ~\E x : HoldersOf(hd, b) = {x}
  BY <1>1
<1>4. Cardinality(HoldersOf(hd, b)) # 1
  BY <1>2, <1>3, FS_Singleton
<1> QED
  BY <1>2, <1>4

\* A holder without a box takes one that is held.
LEMMA Gained ==
    ASSUME NEW hp, NEW hd, Counting(hp, hd), NEW h \in Holder, hd[h] = Nothing,
           NEW b \in Box, hp[b].kind # "free",
           NEW hp2, hp2 = Counted(hp, b, 1), NEW hd2, hd2 = [hd EXCEPT ![h] = b]
    PROVE  Counting(hp2, hd2) /\ Steady(hp, hp2)
<1>0. b # Nothing
  BY ResultAssumption DEF ResultAssumption
<1>1. hp \in [Box -> Boxes] /\ hp[b] \in Boxes /\ hp[b].refs \in Nat
  BY DEF Counting, Boxes
<1>2. hp2 = [hp EXCEPT ![b].refs = @ + 1]
  BY <1>0, <1>1 DEF Counted
<1>3. /\ hp2[b] = [hp[b] EXCEPT !.refs = @ + 1] /\ hp2[b] \in Boxes
      /\ hp2[b].kind = hp[b].kind /\ hp2[b].content = hp[b].content
      /\ hp2[b].refs = hp[b].refs + 1
      /\ \A c \in Box : c # b => hp2[c] = hp[c]
  BY <1>1, <1>2 DEF Boxes
<1>4. hp2 \in [Box -> Boxes]
  BY <1>1, <1>2, <1>3
<1>5. hd2 \in [Holder -> Box \cup {Nothing}]
  BY DEF Counting
<1>6. ASSUME NEW c \in Box
      PROVE  /\ IsFiniteSet(HoldersOf(hd2, c))
             /\ hp2[c].refs = Cardinality(HoldersOf(hd2, c))
             /\ hp2[c].kind = "free" <=> hp2[c].refs = 0
  <2>1. IsFiniteSet(HoldersOf(hd, c)) /\ hd \in [Holder -> Box \cup {Nothing}]
    BY DEF Counting
  <2>2. c # hd[h]
    BY ResultAssumption DEF ResultAssumption
  <2>3. /\ hp[c].refs = Cardinality(HoldersOf(hd, c))
        /\ hp[c].kind = "free" <=> hp[c].refs = 0
    BY DEF Counting
  <2>4. /\ IsFiniteSet(HoldersOf(hd2, c))
        /\ c # b => HoldersOf(hd2, c) = HoldersOf(hd, c)
        /\ c = b => Cardinality(HoldersOf(hd2, c)) = Cardinality(HoldersOf(hd, c)) + 1
    <3> DEFINE turned == Turn(hd, h, b)
    <3>1. /\ IsFiniteSet(HoldersOf(turned, c))
          /\ c # b => HoldersOf(turned, c) = HoldersOf(hd, c)
          /\ c = b => Cardinality(HoldersOf(turned, c)) = Cardinality(HoldersOf(hd, c)) + 1
      BY <2>1, <2>2, Turned
    <3>2. hd2 = turned
      BY DEF Turn
    <3> HIDE DEF turned
    <3> QED
      BY <3>1, <3>2
  <2>5. CASE c = b
    BY <1>1, <1>3, <2>3, <2>4, <2>5
  <2>6. CASE c # b
    BY <1>3, <2>3, <2>4, <2>6
  <2> QED
    BY <2>5, <2>6
<1>7. Steady(hp, hp2)
  BY <1>3 DEF Steady
<1> QED
  BY <1>4, <1>5, <1>6, <1>7 DEF Counting

\* A holder lets go of its box, if it has one: the last one frees it.
LEMMA Dropped ==
    ASSUME NEW hp, NEW hd, Counting(hp, hd), NEW h \in Holder
    PROVE  /\ Counting(Less(hp, hd[h]), Turn(hd, h, Nothing))
           /\ Steady(hp, Less(hp, hd[h]))
           /\ \A b \in Box : b # hd[h] => Less(hp, hd[h])[b] = hp[b]
<1> DEFINE b == hd[h]
           hp2 == Less(hp, b)
           hd2 == Turn(hd, h, Nothing)
<1> SUFFICES /\ Counting(hp2, hd2) /\ Steady(hp, hp2)
             /\ \A c \in Box : c # b => hp2[c] = hp[c]
  OBVIOUS
<1>a. hp2 = Counted(hp, b, -1) /\ hd2 = [hd EXCEPT ![h] = Nothing]
  BY DEF Less, Turn
<1> HIDE DEF hp2, hd2
<1>0. hp \in [Box -> Boxes] /\ hd \in [Holder -> Box \cup {Nothing}]
  BY DEF Counting
<1>1. CASE b = Nothing
  <2>1. hp2 = hp /\ hd2 = hd
    BY <1>0, <1>1, <1>a DEF Counted
  <2> QED
    BY <1>1, <2>1 DEF Steady
<1>2. CASE b # Nothing
  <2>1. b \in Box /\ hp[b] \in Boxes /\ hp[b].refs \in Nat \ {0} /\ hp[b].kind # "free"
    BY <1>2, Held
  <2>2. hp2 = IF hp[b].refs = 1 THEN [hp EXCEPT ![b] = Free] ELSE [hp EXCEPT ![b].refs = @ + -1]
    BY <1>2, <1>a, <2>1 DEF Counted
  <2>3. Free \in Boxes /\ Free.kind = "free" /\ Free.refs = 0
    BY DEF Free, Boxes, Values
  <2>4. /\ hp2[b] \in Boxes /\ hp2[b].refs = hp[b].refs - 1
        /\ hp2[b].kind = "free" <=> hp2[b].refs = 0
        /\ hp2[b].kind # "free" => hp2[b].kind = hp[b].kind /\ hp2[b].content = hp[b].content
        /\ \A c \in Box : c # b => hp2[c] = hp[c]
        /\ hp2 \in [Box -> Boxes]
    <3>1. CASE hp[b].refs = 1
      <4>1. hp2 = [hp EXCEPT ![b] = Free]
        BY <2>2, <3>1
      <4> QED
        BY <1>0, <2>1, <2>3, <3>1, <4>1
    <3>2. CASE hp[b].refs # 1
      <4>1. hp[b].refs - 1 \in Nat \ {0} /\ hp[b].refs + -1 = hp[b].refs - 1
        BY <2>1, <3>2
      <4>2. hp2 = [hp EXCEPT ![b] = [hp[b] EXCEPT !.refs = hp[b].refs - 1]]
        BY <1>0, <2>1, <2>2, <3>2, <4>1
      <4>3. /\ hp2[b] = [hp[b] EXCEPT !.refs = hp[b].refs - 1]
            /\ \A c \in Box : c # b => hp2[c] = hp[c]
        BY <1>0, <2>1, <4>2
      <4>4. /\ hp2[b] \in Boxes /\ hp2[b].refs = hp[b].refs - 1
            /\ hp2[b].kind = hp[b].kind /\ hp2[b].content = hp[b].content
        BY <2>1, <4>1, <4>3 DEF Boxes
      <4> QED
        BY <1>0, <2>1, <4>1, <4>2, <4>3, <4>4
    <3> QED
      BY <3>1, <3>2
  <2>5. hd2 \in [Holder -> Box \cup {Nothing}]
    BY <1>0, <1>a
  <2>6. ASSUME NEW c \in Box
        PROVE  /\ IsFiniteSet(HoldersOf(hd2, c))
               /\ hp2[c].refs = Cardinality(HoldersOf(hd2, c))
               /\ hp2[c].kind = "free" <=> hp2[c].refs = 0
    <3>1. /\ IsFiniteSet(HoldersOf(hd, c)) /\ hp[c].refs = Cardinality(HoldersOf(hd, c))
          /\ hp[c].kind = "free" <=> hp[c].refs = 0
      BY DEF Counting
    <3>2. c # Nothing
      BY ResultAssumption DEF ResultAssumption
    <3>3. /\ IsFiniteSet(HoldersOf(hd2, c))
          /\ c # b => HoldersOf(hd2, c) = HoldersOf(hd, c)
          /\ c = b => Cardinality(HoldersOf(hd2, c)) = Cardinality(HoldersOf(hd, c)) - 1
      BY <1>0, <3>1, <3>2, Turned DEF hd2
    <3>4. CASE c = b
      BY <2>4, <3>1, <3>3, <3>4
    <3>5. CASE c # b
      BY <2>4, <3>1, <3>3, <3>5
    <3> QED
      BY <3>4, <3>5
  <2>7. Steady(hp, hp2)
    BY <2>4 DEF Steady
  <2> QED
    BY <2>4, <2>5, <2>6, <2>7 DEF Counting
<1> QED
  BY <1>1, <1>2

\* A holder without a box gets a new one.
LEMMA Filled ==
    ASSUME NEW hp, NEW hd, Counting(hp, hd), NEW h \in Holder, hd[h] = Nothing,
           NEW b \in Box, hp[b].kind = "free",
           NEW box \in Boxes, box.kind # "free", box.refs = 1,
           NEW hp2, hp2 = [hp EXCEPT ![b] = box], NEW hd2, hd2 = [hd EXCEPT ![h] = b]
    PROVE  Counting(hp2, hd2) /\ Steady(hp, hp2)
<1>1. hp \in [Box -> Boxes] /\ hd \in [Holder -> Box \cup {Nothing}]
  BY DEF Counting
<1>2. hp2 \in [Box -> Boxes] /\ hp2[b] = box /\ \A c \in Box : c # b => hp2[c] = hp[c]
  BY <1>1
<1>3. hd2 \in [Holder -> Box \cup {Nothing}]
  BY <1>1
<1>4. ASSUME NEW c \in Box
      PROVE  /\ IsFiniteSet(HoldersOf(hd2, c))
             /\ hp2[c].refs = Cardinality(HoldersOf(hd2, c))
             /\ hp2[c].kind = "free" <=> hp2[c].refs = 0
  <2>1. /\ IsFiniteSet(HoldersOf(hd, c)) /\ hp[c].refs = Cardinality(HoldersOf(hd, c))
        /\ hp[c].kind = "free" <=> hp[c].refs = 0
    BY DEF Counting
  <2>2. c # hd[h]
    BY ResultAssumption DEF ResultAssumption
  <2>3. /\ IsFiniteSet(HoldersOf(hd2, c))
        /\ c # b => HoldersOf(hd2, c) = HoldersOf(hd, c)
        /\ c = b => Cardinality(HoldersOf(hd2, c)) = Cardinality(HoldersOf(hd, c)) + 1
    <3> DEFINE turned == Turn(hd, h, b)
    <3>1. /\ IsFiniteSet(HoldersOf(turned, c))
          /\ c # b => HoldersOf(turned, c) = HoldersOf(hd, c)
          /\ c = b => Cardinality(HoldersOf(turned, c)) = Cardinality(HoldersOf(hd, c)) + 1
      BY <1>1, <2>1, <2>2, Turned
    <3>2. hd2 = turned
      BY DEF Turn
    <3> HIDE DEF turned
    <3> QED
      BY <3>1, <3>2
  <2>4. CASE c = b
    BY <1>2, <2>1, <2>3, <2>4
  <2>5. CASE c # b
    BY <1>2, <2>1, <2>3, <2>5
  <2> QED
    BY <2>4, <2>5
<1>5. Steady(hp, hp2)
  BY <1>2 DEF Steady
<1> QED
  BY <1>2, <1>3, <1>4, <1>5 DEF Counting

\* A write in place counts nothing.
LEMMA Written ==
    ASSUME NEW hp, NEW hd, Counting(hp, hd), NEW b \in Box, NEW c \in Values,
           NEW hp2, hp2 = [hp EXCEPT ![b].content = c]
    PROVE  Counting(hp2, hd)
<1>1. hp \in [Box -> Boxes] /\ hp[b] \in Boxes
  BY DEF Counting
<1>2. /\ hp2 = [hp EXCEPT ![b] = [hp[b] EXCEPT !.content = c]]
      /\ [hp[b] EXCEPT !.content = c] \in Boxes
  BY <1>1 DEF Boxes
<1>3. \A a \in Box : hp2[a].kind = hp[a].kind /\ hp2[a].refs = hp[a].refs
  BY <1>1, <1>2 DEF Boxes
<1>4. hp2 \in [Box -> Boxes]
  BY <1>1, <1>2
<1> QED
  BY <1>3, <1>4 DEF Counting

\* zval_add_ref and zend_array_dup for a holder without a box.
LEMMA Taking ==
    ASSUME NEW hp, NEW hd, Counting(hp, hd), NEW h \in Holder, hd[h] = Nothing,
           NEW b \in Box \cup {Nothing}, b # Nothing => hp[b].kind # "free",
           NEW w \in Taken(hp, b)
    PROVE  /\ Counting(w[1], [hd EXCEPT ![h] = w[2]]) /\ Steady(hp, w[1])
           /\ w[2] \in Box \cup {Nothing}
           /\ b # Nothing /\ hp[b].kind = "value" => w[2] = b
           /\ b = Nothing => w[2] = Nothing
<1> DEFINE hp2 == w[1]
           hd2 == [hd EXCEPT ![h] = w[2]]
<1>0. hp \in [Box -> Boxes] /\ hd \in [Holder -> Box \cup {Nothing}]
  BY DEF Counting
<1>1. CASE b = Nothing
  <2>1. w = <<hp, Nothing>>
    BY <1>1 DEF Taken, Counted
  <2>2. hp2 = hp /\ hd2 = hd /\ w[2] = Nothing
    BY <1>0, <2>1
  <2> QED
    BY <1>1, <2>2 DEF Steady
<1>2. CASE b # Nothing /\ hp[b].kind = "ref" /\ hp[b].refs = 1
  <2>1. PICK new \in Unused(hp) : w = <<[hp EXCEPT ![new] = NewValue(hp[b].content)], new>>
    BY <1>2 DEF Taken
  <2>2. new \in Box /\ hp[new].kind = "free"
    BY DEF Unused
  <2> DEFINE box == NewValue(hp[b].content)
  <2>3. box \in Boxes /\ box.kind # "free" /\ box.refs = 1
    <3>1. hp[b] \in Boxes
      BY <1>0, <1>2
    <3>2. hp[b].content \in Values
      BY <3>1 DEF Boxes
    <3> QED
      BY <3>2 DEF NewValue, Boxes
  <2>4. hp2 = [hp EXCEPT ![new] = box] /\ hd2 = [hd EXCEPT ![h] = new] /\ w[2] = new
    BY <2>1
  <2> HIDE DEF box, hp2, hd2
  <2>5. Counting(hp2, hd2) /\ Steady(hp, hp2)
    BY <2>2, <2>3, <2>4, Filled
  <2> QED
    BY <1>2, <2>2, <2>4, <2>5 DEF hp2, hd2
<1>3. CASE b # Nothing /\ ~(hp[b].kind = "ref" /\ hp[b].refs = 1)
  <2>1. w = <<Counted(hp, b, 1), b>>
    BY <1>3 DEF Taken
  <2>2. hp2 = Counted(hp, b, 1) /\ hd2 = [hd EXCEPT ![h] = b] /\ w[2] = b /\ b \in Box
    BY <1>3, <2>1
  <2> HIDE DEF hp2, hd2
  <2>3. Counting(hp2, hd2) /\ Steady(hp, hp2)
    BY <1>3, <2>2, Gained
  <2> QED
    BY <1>3, <2>2, <2>3 DEF hp2, hd2
<1> QED
  BY <1>1, <1>2, <1>3

LEMMA SteadyThen ==
    ASSUME NEW hp \in [Box -> Boxes], NEW hp2, NEW hp3, Steady(hp, hp2), Steady(hp2, hp3),
           \A b \in Box : hp[b].kind # "free" /\ hp2[b].kind = "free" => hp3[b].kind = "free"
    PROVE  Steady(hp, hp3)
  BY DEF Steady

-----------------------------------------------------------------------------
(* The results. *)

Standings == {"none", "valid", "failed"}

\* A result that does not exist holds nothing, and the messages of one that does
\* never stand in a PHP reference.
TablesOK(r) ==
    /\ standing[r] = "none" => ~Present(Table(r, "validated")) /\ ~Present(Table(r, "errors"))
    /\ Present(Table(r, "errors")) => heap[holds[Table(r, "errors")]].kind = "value"

ResultInv ==
    /\ Counting(heap, holds)
    /\ standing \in [ResultId -> Standings]
    /\ \A r \in ResultId : TablesOK(r)

\* A step leaves a result as it is.
Same(r) ==
    /\ standing'[r] = standing[r]
    /\ \A t \in {"validated", "errors"} : holds'[Table(r, t)] = holds[Table(r, t)]

\* What a step does that writes into no box somebody else holds.
Quiet ==
    /\ Counting(heap', holds')
    /\ Steady(heap, heap')
    /\ standing' \in [ResultId -> Standings]
    /\ \A r \in ResultId :
          \/ Same(r)
          \/ (standing[r] = "none" \/ standing'[r] = "none") /\ TablesOK(r)'

LEMMA HolderNames ==
    /\ \A t \in {"data", "variable", "array"} : <<0, t>> \in Holder
    /\ Mine \subseteq Holder
    /\ \A r \in ResultId, t \in {"validated", "errors"} :
          Table(r, t) \in Holder /\ Table(r, t) \notin Mine
    /\ \A r, q \in ResultId, t, u \in {"validated", "errors"} :
          Table(r, t) = Table(q, u) => r = q /\ t = u
<1>1. \A r \in ResultId : r # 0
  BY ResultAssumption DEF ResultAssumption
<1> QED
  BY <1>1 DEF Holder, Mine, Tables, Table

\* The caller has changed what he holds and nothing else.
LEMMA OwnHolders ==
    ASSUME UNCHANGED standing,
           \A r \in ResultId, t \in {"validated", "errors"} : holds'[Table(r, t)] = holds[Table(r, t)]
    PROVE  \A r \in ResultId : Same(r)
  BY DEF Same

LEMMA InitResults == ResultInit => ResultInv
<1> SUFFICES ASSUME ResultInit PROVE ResultInv
  OBVIOUS
<1>1. Free \in Boxes /\ Free.kind = "free" /\ Free.refs = 0
  BY DEF Free, Boxes, Values
<1>2. heap = [b \in Box |-> Free] /\ holds = [h \in Holder |-> Nothing]
  BY DEF ResultInit
<1>3. heap \in [Box -> Boxes] /\ holds \in [Holder -> Box \cup {Nothing}]
  BY <1>1, <1>2
<1>4. ASSUME NEW b \in Box PROVE HoldersOf(holds, b) = {}
  BY <1>2, ResultAssumption DEF HoldersOf, ResultAssumption
<1>5. Counting(heap, holds)
  BY <1>1, <1>2, <1>3, <1>4, FS_EmptySet DEF Counting
<1>6. standing \in [ResultId -> Standings]
  BY DEF ResultInit, Standings
<1>7. \A r \in ResultId : TablesOK(r)
  BY <1>2, HolderNames DEF TablesOK, Present
<1> QED
  BY <1>5, <1>6, <1>7 DEF ResultInv

\* The box the allocator hands out for a value.
LEMMA NewBox ==
    ASSUME NEW c \in Values
    PROVE  NewValue(c) \in Boxes /\ NewValue(c).kind = "value" /\ NewValue(c).refs = 1
  BY DEF NewValue, Boxes

\* The caller assigns to something he does not hold alone: he gets a new box.
LEMMA WriteAway ==
    ASSUME ResultInv, NEW h \in Mine, NEW c \in Content, CallerWrites(h, c),
           ~(Present(h) /\ (heap[holds[h]].kind = "ref" \/ heap[holds[h]].refs = 1))
    PROVE  Quiet
<1>1. PICK b \in Unused(heap) : /\ heap' = [Counted(heap, holds[h], -1) EXCEPT ![b] = NewValue(c)]
                                /\ holds' = [holds EXCEPT ![h] = b]
  BY DEF CallerWrites
<1>2. UNCHANGED standing /\ h \in Holder /\ b \in Box /\ heap[b].kind = "free"
  BY HolderNames DEF CallerWrites, Unused
<1> DEFINE hp == Counted(heap, holds[h], -1)
           hd == [holds EXCEPT ![h] = Nothing]
           box == NewValue(c)
<1>3. Counting(heap, holds)
  BY DEF ResultInv
<1>4. heap \in [Box -> Boxes] /\ holds \in [Holder -> Box \cup {Nothing}]
  BY <1>3 DEF Counting
<1>5. holds[h] # Nothing => heap[holds[h]].kind # "free"
  BY <1>2, <1>3, Held
<1>6. /\ Counting(hp, hd) /\ Steady(heap, hp) /\ hp[b].kind = "free"
  <2>1. /\ Counting(hp, hd) /\ Steady(heap, hp)
        /\ \A a \in Box : a # holds[h] => hp[a] = heap[a]
    <3>1. /\ Counting(Less(heap, holds[h]), Turn(holds, h, Nothing))
          /\ Steady(heap, Less(heap, holds[h]))
          /\ \A a \in Box : a # holds[h] => Less(heap, holds[h])[a] = heap[a]
      BY <1>2, <1>3, Dropped
    <3> QED
      BY <3>1 DEF Less, Turn
  <2>2. b # holds[h]
    BY <1>2, <1>5, ResultAssumption DEF ResultAssumption
  <2> QED
    BY <1>2, <2>1, <2>2
<1>7. box \in Boxes /\ box.kind # "free" /\ box.refs = 1
  BY NewBox DEF Values
<1>8. heap' = [hp EXCEPT ![b] = box] /\ holds' = [hd EXCEPT ![h] = b] /\ hd[h] = Nothing
  BY <1>1, <1>2, <1>4
<1>9. \A a \in Box : heap[a].kind # "free" /\ hp[a].kind = "free" => heap'[a].kind = "free"
  <2>1. hp \in [Box -> Boxes]
    BY <1>6 DEF Counting
  <2> HIDE DEF hp, box
  <2> QED
    BY <1>2, <1>8, <2>1
<1> HIDE DEF hp, hd, box
<1>10. Counting(heap', holds') /\ Steady(hp, heap')
  BY <1>2, <1>6, <1>7, <1>8, Filled
<1>11. Steady(heap, heap')
  BY <1>4, <1>6, <1>9, <1>10, SteadyThen
<1>12. \A r \in ResultId : Same(r)
  BY <1>1, <1>2, <1>4, HolderNames, OwnHolders
<1> QED
  BY <1>2, <1>10, <1>11, <1>12 DEF Quiet, ResultInv

LEMMA UnsetStep ==
    ASSUME ResultInv, NEW h \in Mine, CallerUnsets(h)
    PROVE  Quiet
<1>1. /\ heap' = Counted(heap, holds[h], -1) /\ holds' = [holds EXCEPT ![h] = Nothing]
      /\ UNCHANGED standing /\ h \in Holder /\ Counting(heap, holds)
  BY HolderNames DEF CallerUnsets, ResultInv
<1>2. Counting(heap', holds') /\ Steady(heap, heap')
  <2>1. /\ Counting(Less(heap, holds[h]), Turn(holds, h, Nothing))
        /\ Steady(heap, Less(heap, holds[h]))
        /\ \A a \in Box : a # holds[h] => Less(heap, holds[h])[a] = heap[a]
    <3>1. /\ Counting(Less(heap, holds[h]), Turn(holds, h, Nothing))
          /\ Steady(heap, Less(heap, holds[h]))
          /\ \A a \in Box : a # holds[h] => Less(heap, holds[h])[a] = heap[a]
      BY <1>1, Dropped
    <3> QED
      BY <3>1 DEF Less, Turn
  <2> QED
    BY <2>1, <1>1 DEF Less, Turn
<1>3. \A r \in ResultId : Same(r)
  BY <1>1, HolderNames, OwnHolders DEF Counting
<1> QED
  BY <1>1, <1>2, <1>3 DEF Quiet, ResultInv

LEMMA ReferStep ==
    ASSUME ResultInv, NEW h \in {<<0, "data">>, <<0, "array">>}, CallerRefers(h)
    PROVE  Quiet
<1> DEFINE b == holds[h]
           v == <<0, "variable">>
<1>1. /\ h \in Holder /\ v \in Holder /\ h # v /\ h \in Mine /\ v \in Mine
      /\ UNCHANGED standing /\ Counting(heap, holds)
      /\ b # Nothing /\ holds[v] = Nothing
  BY HolderNames DEF CallerRefers, ResultInv, Present, Mine
<1>2. b \in Box /\ heap[b] \in Boxes /\ heap[b].kind # "free" /\ heap[b].content \in Values
  BY <1>1, Held DEF Boxes
<1>3. holds \in [Holder -> Box \cup {Nothing}] /\ heap \in [Box -> Boxes]
  BY <1>1 DEF Counting
<1>4. CASE heap[b].kind = "ref"
  <2>1. heap' = Counted(heap, b, 1) /\ holds' = [holds EXCEPT ![v] = b]
    BY <1>4 DEF CallerRefers
  <2> HIDE DEF b, v
  <2>2. Counting(heap', holds') /\ Steady(heap, heap')
    BY <1>1, <1>2, <2>1, Gained
  <2>3. \A r \in ResultId : Same(r)
    BY <1>1, <1>3, <2>1, HolderNames, OwnHolders
  <2> QED
    BY <1>1, <2>2, <2>3 DEF Quiet, ResultInv
<1>5. CASE heap[b].kind # "ref"
  <2>1. PICK new \in Unused(heap) :
          /\ heap' = [Counted(heap, b, -1) EXCEPT
                         ![new] = [kind |-> "ref", content |-> heap[b].content, refs |-> 2]]
          /\ holds' = [holds EXCEPT ![h] = new, ![v] = new]
    BY <1>5 DEF CallerRefers
  <2> DEFINE box == [kind |-> "ref", content |-> heap[b].content, refs |-> 1]
             hp1 == Counted(heap, b, -1)
             hd1 == [holds EXCEPT ![h] = Nothing]
             hp2 == [hp1 EXCEPT ![new] = box]
             hd2 == [hd1 EXCEPT ![h] = new]
  <2>2. new \in Box /\ heap[new].kind = "free" /\ new # b /\ new # Nothing
    BY <1>2, ResultAssumption DEF Unused, ResultAssumption
  <2>3. /\ Counting(hp1, hd1) /\ Steady(heap, hp1)
        /\ \A a \in Box : a # b => hp1[a] = heap[a]
    <3>1. /\ Counting(Less(heap, holds[h]), Turn(holds, h, Nothing))
          /\ Steady(heap, Less(heap, holds[h]))
          /\ \A a \in Box : a # holds[h] => Less(heap, holds[h])[a] = heap[a]
      BY <1>1, Dropped
    <3> QED
      BY <3>1 DEF Less, Turn
  <2>4. box \in Boxes /\ box.kind # "free" /\ box.refs = 1
    BY <1>2 DEF Boxes
  <2>5. hp1[new].kind = "free" /\ hd1[h] = Nothing /\ hp1 \in [Box -> Boxes]
    BY <1>1, <1>3, <2>2, <2>3 DEF Counting
  <2>6. Counting(hp2, hd2) /\ Steady(hp1, hp2)
    <3>1. hp2 = [hp1 EXCEPT ![new] = box] /\ hd2 = [hd1 EXCEPT ![h] = new]
      OBVIOUS
    <3> HIDE DEF box, hp1, hd1, hp2, hd2
    <3> QED
      BY <1>1, <2>2, <2>3, <2>4, <2>5, <3>1, Filled
  <2>7. hp2[new] = box /\ hd2[v] = Nothing /\ \A a \in Box : a # new => hp2[a] = hp1[a]
    BY <1>1, <1>3, <2>2, <2>5
  <2>8. holds' = [hd2 EXCEPT ![v] = new]
    BY <1>1, <1>3, <2>1
  <2>9. heap' = Counted(hp2, new, 1)
    <3> DEFINE two == [kind |-> "ref", content |-> heap[b].content, refs |-> 2]
    <3>1. heap' = [hp1 EXCEPT ![new] = two]
      BY <2>1
    <3>2. [box EXCEPT !.refs = 2] = two /\ box.refs = 1
      OBVIOUS
    <3> HIDE DEF box, two, hp1
    <3>3. hp2[new].refs + 1 = 2 /\ hp2[new].refs + 1 # 0
      BY <2>7, <3>2
    <3>4. Counted(hp2, new, 1) = [hp2 EXCEPT ![new].refs = @ + 1]
      BY <2>2, <3>3 DEF Counted
    <3>5. [hp2 EXCEPT ![new].refs = @ + 1] = [hp2 EXCEPT ![new] = [box EXCEPT !.refs = 2]]
      BY <2>7, <3>3
    <3>6. [hp2 EXCEPT ![new] = two] = [hp1 EXCEPT ![new] = two]
      BY <2>2, <2>5
    <3> QED
      BY <3>1, <3>2, <3>4, <3>5, <3>6
  <2> HIDE DEF box, hp1, hd1, hp2, hd2, b, v
  <2>10. Counting(heap', holds') /\ Steady(hp2, heap')
    BY <1>1, <2>2, <2>4, <2>6, <2>7, <2>8, <2>9, Gained
  <2>11. Steady(heap, heap')
    <3>1. ASSUME NEW a \in Box, heap[a].kind # "free"
          PROVE  \/ heap'[a].kind = "free"
                 \/ heap'[a].kind = heap[a].kind /\ heap'[a].content = heap[a].content
      <4>1. a # new /\ hp2[a] = hp1[a]
        BY <2>2, <2>7, <3>1
      <4>2. \/ hp1[a].kind = "free"
            \/ hp1[a].kind = heap[a].kind /\ hp1[a].content = heap[a].content
        BY <2>3, <3>1 DEF Steady
      <4>3. CASE hp1[a].kind = "free"
        <5>1. heap'[a] = hp1[a]
          BY <1>3, <2>1, <2>5, <4>1 DEF hp1
        <5> QED
          BY <4>3, <5>1
      <4>4. CASE hp1[a].kind # "free"
        BY <2>10, <4>1, <4>2, <4>4 DEF Steady
      <4> QED
        BY <4>3, <4>4
    <3> QED
      BY <3>1 DEF Steady
  <2>12. \A r \in ResultId : Same(r)
    <3>1. \A g \in Holder : g \notin Mine => holds'[g] = holds[g]
      BY <1>1, <1>3, <2>1
    <3> QED
      BY <1>1, <3>1, HolderNames, OwnHolders
  <2> QED
    BY <1>1, <2>10, <2>11, <2>12 DEF Quiet, ResultInv
<1> QED
  BY <1>4, <1>5

\* What a result that holds nothing turns to when it gets one table.
LEMMA OneTable ==
    ASSUME ResultInv, NEW r \in ResultId, NEW t \in {"validated", "errors"}, NEW b,
           holds' = [holds EXCEPT ![Table(r, t)] = b],
           NEW s \in {"valid", "failed"}, standing[r] = "none",
           standing' = [standing EXCEPT ![r] = s],
           t = "errors" => heap'[b].kind = "value"
    PROVE  /\ standing' \in [ResultId -> Standings]
           /\ \A q \in ResultId :
                 \/ Same(q)
                 \/ (standing[q] = "none" \/ standing'[q] = "none") /\ TablesOK(q)'
<1>1. /\ standing \in [ResultId -> Standings] /\ holds \in [Holder -> Box \cup {Nothing}]
      /\ TablesOK(r)
  BY DEF ResultInv, Counting
<1>2. standing' \in [ResultId -> Standings] /\ standing'[r] # "none"
  BY <1>1 DEF Standings
<1>3. ASSUME NEW q \in ResultId, q # r PROVE Same(q)
  BY <1>1, <1>3, HolderNames DEF Same
<1>4. TablesOK(r)'
  <2>1. CASE t = "validated"
    <3>1. holds'[Table(r, "errors")] = Nothing
      BY <1>1, <2>1, HolderNames DEF TablesOK, Present
    <3> QED
      BY <1>2, <3>1 DEF TablesOK, Present, Table
  <2>2. CASE t = "errors"
    <3>1. holds'[Table(r, "errors")] = b
      BY <1>1, <2>2, HolderNames
    <3> QED
      BY <1>2, <2>2, <3>1 DEF TablesOK, Table
  <2> QED
    BY <2>1, <2>2
<1> QED
  BY <1>2, <1>3, <1>4

LEMMA ValidateStep ==
    ASSUME ResultInv, NEW r \in ResultId, ValidateAccepts(r) \/ ValidateRefuses(r)
    PROVE  Quiet
<1>1. /\ Counting(heap, holds) /\ standing[r] = "none"
      /\ Table(r, "validated") \in Holder /\ Table(r, "errors") \in Holder
      /\ holds[Table(r, "validated")] = Nothing /\ holds[Table(r, "errors")] = Nothing
  BY HolderNames DEF ResultInv, TablesOK, Present, ValidateAccepts, ValidateRefuses
<1>2. CASE ValidateAccepts(r)
  <2> DEFINE b == holds[<<0, "data">>]
             h == Table(r, "validated")
  <2>1. /\ heap' = Counted(heap, b, 1) /\ holds' = [holds EXCEPT ![h] = b]
        /\ standing' = [standing EXCEPT ![r] = "valid"]
    BY <1>2 DEF ValidateAccepts, Shared
  <2>2. b # Nothing => b \in Box /\ heap[b].kind # "free"
    BY <1>1, HolderNames, Held
  <2>3. /\ standing' \in [ResultId -> Standings]
        /\ \A q \in ResultId :
              \/ Same(q)
              \/ (standing[q] = "none" \/ standing'[q] = "none") /\ TablesOK(q)'
    BY <1>1, <2>1, OneTable
  <2>4. Counting(heap', holds') /\ Steady(heap, heap')
    <3>1. CASE b = Nothing
      <4>1. heap' = heap /\ holds' = holds
        BY <1>1, <2>1, <3>1 DEF Counted, Counting
      <4> QED
        BY <1>1, <4>1 DEF Steady
    <3>2. CASE b # Nothing
      <4> HIDE DEF b, h
      <4>1. h \in Holder /\ holds[h] = Nothing
        BY <1>1 DEF h
      <4> QED
        BY <1>1, <2>1, <2>2, <3>2, <4>1, Gained
    <3> QED
      BY <3>1, <3>2
  <2> QED
    BY <2>3, <2>4 DEF Quiet
<1>3. CASE ValidateRefuses(r)
  <2> DEFINE h == Table(r, "errors")
             box == NewValue(Messages)
  <2>1. PICK e \in Unused(heap) : heap' = [heap EXCEPT ![e] = box] /\ holds' = [holds EXCEPT ![h] = e]
    BY <1>3 DEF ValidateRefuses
  <2>2. standing' = [standing EXCEPT ![r] = "failed"] /\ e \in Box /\ heap[e].kind = "free"
    BY <1>3 DEF ValidateRefuses, Unused
  <2>3. box \in Boxes /\ box.kind = "value" /\ box.refs = 1
    BY NewBox DEF Values
  <2>4. heap'[e].kind = "value"
    BY <1>1, <2>1, <2>2, <2>3 DEF Counting
  <2>5. /\ standing' \in [ResultId -> Standings]
        /\ \A q \in ResultId :
              \/ Same(q)
              \/ (standing[q] = "none" \/ standing'[q] = "none") /\ TablesOK(q)'
    BY <1>1, <2>1, <2>2, <2>4, OneTable
  <2>6. h \in Holder /\ holds[h] = Nothing
    BY <1>1
  <2> HIDE DEF h, box
  <2>7. Counting(heap', holds') /\ Steady(heap, heap')
    BY <1>1, <2>1, <2>2, <2>3, <2>6, Filled
  <2> QED
    BY <2>5, <2>7 DEF Quiet
<1> QED
  BY <1>2, <1>3

LEMMA CreateStep ==
    ASSUME ResultInv, NEW r \in ResultId, CreateResult(r)
    PROVE  Quiet
<1>1. /\ standing[r] = "none" /\ standing' = [standing EXCEPT ![r] = "valid"]
      /\ heap' = heap /\ holds' = holds /\ standing \in [ResultId -> Standings] /\ TablesOK(r)
  BY DEF CreateResult, ResultInv
<1>2. standing' \in [ResultId -> Standings] /\ standing'[r] = "valid"
  BY <1>1 DEF Standings
<1>3. \A q \in ResultId : q # r => Same(q)
  BY <1>1 DEF Same
<1>4. TablesOK(r)'
  BY <1>1, <1>2 DEF TablesOK, Present, Table
<1>5. Steady(heap, heap')
  BY <1>1 DEF Steady
<1> QED
  BY <1>1, <1>2, <1>3, <1>4, <1>5 DEF Quiet, ResultInv

LEMMA GetStep ==
    ASSUME ResultInv, NEW r \in ResultId, NEW t \in {"validated", "errors"}, GetTable(r, t)
    PROVE  Quiet
<1> DEFINE b == holds[Table(r, t)]
           h == <<0, "array">>
<1>1. PICK w \in Taken(heap, b) : heap' = w[1] /\ holds' = [holds EXCEPT ![h] = w[2]]
  BY DEF GetTable
<1>2. /\ UNCHANGED standing /\ holds[h] = Nothing /\ h \in Holder /\ h \in Mine
      /\ Counting(heap, holds) /\ Table(r, t) \in Holder
  BY HolderNames DEF GetTable, Present, ResultInv, Mine
<1>3. b \in Box \cup {Nothing} /\ (b # Nothing => heap[b].kind # "free")
  BY <1>2, Held
<1>4. Counting(heap', holds') /\ Steady(heap, heap')
  <2> HIDE DEF b, h
  <2>1. Counting(w[1], [holds EXCEPT ![h] = w[2]]) /\ Steady(heap, w[1])
    BY <1>2, <1>3, Taking
  <2> QED
    BY <1>1, <2>1
<1>5. \A q \in ResultId : Same(q)
  <2>1. \A g \in Holder : g \notin Mine => holds'[g] = holds[g]
    BY <1>1, <1>2 DEF Counting
  <2> QED
    BY <1>2, <2>1, HolderNames, OwnHolders
<1> QED
  BY <1>2, <1>4, <1>5 DEF Quiet, ResultInv

\* What is not free has a holder.
LEMMA SomeHolder ==
    ASSUME NEW hp, NEW hd, Counting(hp, hd), NEW b \in Box, hp[b].kind # "free"
    PROVE  \E h \in Holder : hd[h] = b
<1>1. Cardinality(HoldersOf(hd, b)) # 0
  BY DEF Counting
<1>2. HoldersOf(hd, b) # {}
  BY <1>1, FS_EmptySet
<1> QED
  BY <1>2 DEF HoldersOf

LEMMA CloneStep ==
    ASSUME ResultInv, NEW old \in ResultId, NEW new \in ResultId, CloneResult(old, new)
    PROVE  Quiet
<1> DEFINE h1 == Table(new, "errors")
           h2 == Table(new, "validated")
           b1 == holds[Table(old, "errors")]
           b2 == holds[Table(old, "validated")]
<1>1. PICK e \in Taken(heap, b1) : \E w \in Taken(e[1], b2) :
          heap' = w[1] /\ holds' = [holds EXCEPT ![h1] = e[2], ![h2] = w[2]]
  BY DEF CloneResult, ErrorsTaken
<1>2. PICK w \in Taken(e[1], b2) :
          heap' = w[1] /\ holds' = [holds EXCEPT ![h1] = e[2], ![h2] = w[2]]
  BY <1>1
<1>3. /\ Counting(heap, holds) /\ standing \in [ResultId -> Standings]
      /\ standing[old] # "none" /\ standing[new] = "none" /\ old # new
      /\ standing' = [standing EXCEPT ![new] = standing[old]]
      /\ TablesOK(old) /\ TablesOK(new)
  BY DEF CloneResult, ResultInv
<1>4. /\ h1 \in Holder /\ h2 \in Holder /\ h1 # h2
      /\ Table(old, "errors") \in Holder /\ Table(old, "validated") \in Holder
      /\ Table(old, "validated") # h1
      /\ holds[h1] = Nothing /\ holds[h2] = Nothing
  BY <1>3, HolderNames DEF TablesOK, Present
<1>5. holds \in [Holder -> Box \cup {Nothing}] /\ heap \in [Box -> Boxes]
  BY <1>3 DEF Counting
<1>6. /\ b1 \in Box \cup {Nothing} /\ (b1 # Nothing => heap[b1].kind = "value")
      /\ b2 \in Box \cup {Nothing}
  BY <1>3, <1>4, <1>5 DEF TablesOK, Present
<1> DEFINE hd1 == [holds EXCEPT ![h1] = e[2]]
<1>7. /\ Counting(e[1], hd1) /\ Steady(heap, e[1])
      /\ e[2] \in Box \cup {Nothing} /\ (b1 # Nothing => e[2] = b1)
      /\ (b1 = Nothing => e[2] = Nothing)
  <2>1. b1 # Nothing => heap[b1].kind # "free"
    BY <1>6
  <2> HIDE DEF b1, h1
  <2> QED
    BY <1>3, <1>4, <1>6, <2>1, Taking
<1>8. hd1[h2] = Nothing /\ hd1[Table(old, "validated")] = b2 /\ hd1[h1] = e[2]
  BY <1>4, <1>5
<1>9. holds' = [hd1 EXCEPT ![h2] = w[2]]
  BY <1>2, <1>4, <1>5
<1>10. Counting(heap', holds') /\ Steady(e[1], heap')
  <2>1. b2 # Nothing => e[1][b2].kind # "free"
    <3> HIDE DEF b2, hd1
    <3> QED
      BY <1>4, <1>7, <1>8, Held
  <2> DEFINE hp1 == e[1]
  <2>2. w \in Taken(hp1, b2) /\ Counting(hp1, hd1)
    BY <1>2, <1>7
  <2> HIDE DEF b2, h2, hd1, hp1
  <2>3. Counting(w[1], [hd1 EXCEPT ![h2] = w[2]]) /\ Steady(hp1, w[1])
    BY <1>4, <1>6, <1>8, <2>1, <2>2, Taking DEF hp1
  <2> QED
    BY <1>2, <1>9, <2>3 DEF hp1
<1>11. Steady(heap, heap')
  <2>1. ASSUME NEW a \in Box, heap[a].kind # "free" PROVE e[1][a].kind # "free"
    <3>1. PICK g \in Holder : holds[g] = a
      BY <1>3, <2>1, SomeHolder
    <3>2. a # Nothing
      BY ResultAssumption DEF ResultAssumption
    <3>3. hd1[g] = a
      BY <1>4, <1>5, <3>1, <3>2
    <3> HIDE DEF hd1
    <3> QED
      BY <1>7, <3>2, <3>3, Held
  <2> QED
    BY <1>7, <1>10, <2>1 DEF Steady
<1>12. standing' \in [ResultId -> Standings] /\ standing'[new] # "none"
  BY <1>3
<1>13. ASSUME NEW q \in ResultId, q # new PROVE Same(q)
  <2>1. ASSUME NEW t \in {"validated", "errors"} PROVE holds'[Table(q, t)] = holds[Table(q, t)]
    <3>1. Table(q, t) \in Holder /\ Table(q, t) # h1 /\ Table(q, t) # h2
      BY <1>13, HolderNames
    <3> HIDE DEF h1, h2
    <3> QED
      BY <1>2, <1>5, <3>1
  <2>2. standing'[q] = standing[q]
    BY <1>3, <1>13
  <2> QED
    BY <2>1, <2>2 DEF Same
<1>14. TablesOK(new)'
  <2>1. holds'[h1] = e[2]
    BY <1>2, <1>4, <1>5
  <2>2. ASSUME e[2] # Nothing PROVE heap'[e[2]].kind = "value"
    <3>1. b1 # Nothing /\ e[2] = b1 /\ heap[b1].kind = "value" /\ b1 \in Box
      BY <1>6, <1>7, <2>2
    <3>2. heap'[e[2]].kind # "free"
      <4> HIDE DEF h1
      <4> QED
        BY <1>4, <1>10, <2>1, <2>2, Held
    <3> QED
      BY <1>11, <3>1, <3>2 DEF Steady
  <2> QED
    BY <1>12, <2>1, <2>2 DEF TablesOK, Present, Table
<1> QED
  BY <1>3, <1>10, <1>11, <1>12, <1>13, <1>14 DEF Quiet

LEMMA FreeStep ==
    ASSUME ResultInv, NEW r \in ResultId, FreeResult(r)
    PROVE  Quiet
<1> DEFINE h1 == Table(r, "errors")
           h2 == Table(r, "validated")
           hp1 == Counted(heap, holds[h1], -1)
           hd1 == [holds EXCEPT ![h1] = Nothing]
<1>1. /\ heap' = Counted(hp1, holds[h2], -1)
      /\ holds' = [holds EXCEPT ![h1] = Nothing, ![h2] = Nothing]
      /\ standing' = [standing EXCEPT ![r] = "none"]
      /\ Counting(heap, holds) /\ standing \in [ResultId -> Standings]
  BY DEF FreeResult, ResultInv
<1>2. h1 \in Holder /\ h2 \in Holder /\ h1 # h2
  BY HolderNames
<1>3. holds \in [Holder -> Box \cup {Nothing}] /\ heap \in [Box -> Boxes]
  BY <1>1 DEF Counting
<1>4. Counting(hp1, hd1) /\ Steady(heap, hp1)
  <2>1. /\ Counting(Less(heap, holds[h1]), Turn(holds, h1, Nothing))
        /\ Steady(heap, Less(heap, holds[h1]))
        /\ \A a \in Box : a # holds[h1] => Less(heap, holds[h1])[a] = heap[a]
    BY <1>1, <1>2, Dropped
  <2> QED
    BY <2>1 DEF Less, Turn
<1>5. hd1[h2] = holds[h2] /\ holds' = [hd1 EXCEPT ![h2] = Nothing]
  BY <1>1, <1>2, <1>3
<1> HIDE DEF h1, h2, hp1, hd1
<1>6. heap' = Counted(hp1, hd1[h2], -1)
  BY <1>1, <1>5
<1>7. /\ Counting(heap', holds') /\ Steady(hp1, heap')
      /\ \A b \in Box : b # hd1[h2] => heap'[b] = hp1[b]
  <2>1. /\ Counting(Less(hp1, hd1[h2]), Turn(hd1, h2, Nothing))
        /\ Steady(hp1, Less(hp1, hd1[h2]))
        /\ \A b \in Box : b # hd1[h2] => Less(hp1, hd1[h2])[b] = hp1[b]
    BY <1>2, <1>4, Dropped
  <2> QED
    BY <1>5, <1>6, <2>1 DEF Less, Turn
<1>8. Steady(heap, heap')
  <2>1. ASSUME NEW b \in Box, hp1[b].kind = "free" PROVE heap'[b].kind = "free"
    <3>1. b # Nothing
      BY ResultAssumption DEF ResultAssumption
    <3>2. b # hd1[h2]
      BY <1>2, <1>4, <2>1, <3>1, Held
    <3> QED
      BY <1>7, <2>1, <3>2
  <2> QED
    BY <1>3, <1>4, <1>7, <2>1, SteadyThen
<1>9. standing' \in [ResultId -> Standings] /\ standing'[r] = "none"
  BY <1>1 DEF Standings
<1>10. ASSUME NEW q \in ResultId, q # r PROVE Same(q)
  <2>1. ASSUME NEW t \in {"validated", "errors"} PROVE holds'[Table(q, t)] = holds[Table(q, t)]
    <3>1. Table(q, t) \in Holder /\ Table(q, t) # h1 /\ Table(q, t) # h2
      BY <1>10, HolderNames DEF h1, h2
    <3> QED
      BY <1>1, <1>3, <3>1
  <2>2. standing'[q] = standing[q]
    BY <1>1, <1>10
  <2> QED
    BY <2>1, <2>2 DEF Same
<1>11. TablesOK(r)'
  <2>1. holds'[Table(r, "errors")] = Nothing /\ holds'[Table(r, "validated")] = Nothing
    BY <1>1, <1>2, <1>3 DEF h1, h2
  <2> QED
    BY <2>1 DEF TablesOK, Present, Table
<1> QED
  BY <1>7, <1>8, <1>9, <1>10, <1>11 DEF Quiet

\* The caller writes into a PHP reference, or into what he alone holds.
WritesInPlace ==
    \E h \in Mine, c \in Content :
        /\ Present(h) /\ (heap[holds[h]].kind = "ref" \/ heap[holds[h]].refs = 1)
        /\ heap' = [heap EXCEPT ![holds[h]].content = c]
        /\ UNCHANGED <<holds, standing>>

LEMMA EveryStep ==
    ASSUME ResultInv, [ResultNext]_resultVars
    PROVE  Quiet \/ WritesInPlace \/ UNCHANGED resultVars
<1>1. ASSUME NEW h \in Mine, CallerUnsets(h) PROVE Quiet
  BY <1>1, UnsetStep
<1>2. ASSUME NEW h \in Mine, NEW c \in Content, CallerWrites(h, c) PROVE Quiet \/ WritesInPlace
  <2>1. CASE Present(h) /\ (heap[holds[h]].kind = "ref" \/ heap[holds[h]].refs = 1)
    BY <1>2, <2>1 DEF CallerWrites, WritesInPlace
  <2>2. CASE ~(Present(h) /\ (heap[holds[h]].kind = "ref" \/ heap[holds[h]].refs = 1))
    BY <1>2, <2>2, WriteAway
  <2> QED
    BY <2>1, <2>2
<1>3. ASSUME NEW h \in {<<0, "data">>, <<0, "array">>}, CallerRefers(h) PROVE Quiet
  BY <1>3, ReferStep
<1>4. ASSUME NEW r \in ResultId,
             \/ ValidateAccepts(r)
             \/ ValidateRefuses(r)
             \/ CreateResult(r)
             \/ FreeResult(r)
      PROVE  Quiet
  BY <1>4, ValidateStep, CreateStep, FreeStep
<1>5. ASSUME NEW old \in ResultId, NEW new \in ResultId, CloneResult(old, new) PROVE Quiet
  BY <1>5, CloneStep
<1>6. ASSUME NEW r \in ResultId, NEW t \in {"validated", "errors"}, GetTable(r, t) PROVE Quiet
  BY <1>6, GetStep
<1> QED
  BY <1>1, <1>2, <1>3, <1>4, <1>5, <1>6 DEF ResultNext

LEMMA QuietStep == ResultInv /\ Quiet => ResultInv'
<1> SUFFICES ASSUME ResultInv, Quiet PROVE ResultInv'
  OBVIOUS
<1>1. ASSUME NEW r \in ResultId, Same(r) PROVE TablesOK(r)'
  <2> DEFINE h1 == Table(r, "errors")
             b == holds[h1]
  <2>1. /\ TablesOK(r) /\ h1 \in Holder /\ holds'[h1] = b
        /\ Counting(heap, holds) /\ Counting(heap', holds') /\ Steady(heap, heap')
    BY <1>1, HolderNames DEF ResultInv, Quiet, Same
  <2>2. ASSUME b # Nothing PROVE heap'[b].kind = "value"
    <3>1. b \in Box /\ heap[b].kind = "value"
      BY <2>1, <2>2, Held DEF TablesOK, Present
    <3>2. heap'[b].kind # "free"
      <4> HIDE DEF h1, b
      <4> QED
        BY <2>1, <2>2, Held
    <3> QED
      BY <2>1, <3>1, <3>2 DEF Steady
  <2> QED
    BY <1>1, <2>1, <2>2 DEF TablesOK, Same, Present, Table
<1> QED
  BY <1>1 DEF ResultInv, Quiet

LEMMA InPlaceStep == ResultInv /\ WritesInPlace => ResultInv'
<1> SUFFICES ASSUME ResultInv, WritesInPlace PROVE ResultInv'
  OBVIOUS
<1>1. PICK h \in Mine, c \in Content :
          /\ Present(h) /\ (heap[holds[h]].kind = "ref" \/ heap[holds[h]].refs = 1)
          /\ heap' = [heap EXCEPT ![holds[h]].content = c]
          /\ UNCHANGED <<holds, standing>>
  BY DEF WritesInPlace
<1> DEFINE b == holds[h]
<1>2. Counting(heap, holds) /\ h \in Holder /\ b \in Box /\ c \in Values
  BY <1>1, HolderNames, Held DEF ResultInv, Present, Values
<1>3. Counting(heap', holds')
  <2>1. heap' = [heap EXCEPT ![b].content = c] /\ holds' = holds
    BY <1>1
  <2> HIDE DEF b
  <2> QED
    BY <1>2, <2>1, Written
<1>4. \A a \in Box : heap'[a].kind = heap[a].kind
  BY <1>1, <1>2 DEF Counting, Boxes
<1>5. ASSUME NEW r \in ResultId PROVE TablesOK(r)'
  <2>1. Present(Table(r, "errors")) => holds[Table(r, "errors")] \in Box
    BY <1>2, HolderNames, Held DEF Present
  <2> QED
    BY <1>1, <1>4, <2>1 DEF TablesOK, Present, Table, ResultInv
<1> QED
  BY <1>1, <1>3, <1>5 DEF ResultInv

LEMMA ResultStep == ResultInv /\ [ResultNext]_resultVars => ResultInv'
<1>1. ResultInv /\ UNCHANGED resultVars => ResultInv'
  BY DEF resultVars, ResultInv, TablesOK, Present, Table
<1> QED
  BY <1>1, EveryStep, QuietStep, InPlaceStep

-----------------------------------------------------------------------------
(* The theorems. *)

\* Whatever the caller, validate(), clone and the destructors do and in whatever
\* order, every box has the references of its holders.
THEOREM ResultInvariant == ResultSpec => []ResultInv
  BY InitResults, ResultStep, PTL DEF ResultSpec

\* No table of a result, of a clone or of the caller outlives what it holds, and
\* nothing is kept that nobody holds.
THEOREM CountsRight == ResultSpec => []CountsHolders
<1>1. ResultInv => CountsHolders
  BY DEF ResultInv, Counting, CountsHolders, HoldersOf
<1> QED
  BY <1>1, ResultInvariant, PTL

\* What a live result says after a step that writes into no shared box.
LEMMA QuietSays ==
    ASSUME ResultInv, Quiet, NEW r \in ResultId, standing[r] # "none", standing'[r] # "none"
    PROVE  Says(r)' = Says(r)
<1>1. Same(r) /\ Counting(heap, holds) /\ Counting(heap', holds') /\ Steady(heap, heap')
  BY DEF Quiet, ResultInv
<1>2. ASSUME NEW t \in {"validated", "errors"}, holds[Table(r, t)] # Nothing
      PROVE  heap'[holds[Table(r, t)]].content = heap[holds[Table(r, t)]].content
  <2> DEFINE h == Table(r, t)
             b == holds[h]
  <2>1. h \in Holder /\ holds'[h] = b
    BY <1>1, HolderNames DEF Same
  <2>2. b \in Box /\ heap[b].kind # "free"
    BY <1>1, <1>2, <2>1, Held
  <2>3. heap'[b].kind # "free"
    <3>1. b # Nothing
      BY <1>2
    <3> HIDE DEF h, b
    <3> QED
      BY <1>1, <2>1, <3>1, Held
  <2> QED
    BY <1>1, <2>2, <2>3 DEF Steady
<1> QED
  BY <1>1, <1>2 DEF Says, Same, Table

\* What a live result says after a write in place: the caller holds a box that a
\* table holds too, so it is a PHP reference.
LEMMA InPlaceSays ==
    ASSUME ResultInv, WritesInPlace, NEW r \in ResultId
    PROVE  \/ Says(r)' = Says(r)
           \/ /\ Present(Table(r, "validated"))
              /\ heap[holds[Table(r, "validated")]].kind = "ref"
              /\ standing'[r] = standing[r]
              /\ Says(r).tables["errors"] = Says(r)'.tables["errors"]
<1>1. PICK h \in Mine, c \in Content :
          /\ Present(h) /\ (heap[holds[h]].kind = "ref" \/ heap[holds[h]].refs = 1)
          /\ heap' = [heap EXCEPT ![holds[h]].content = c]
          /\ UNCHANGED <<holds, standing>>
  BY DEF WritesInPlace
<1> DEFINE b == holds[h]
           same(t) == holds[Table(r, t)] # Nothing =>
                        heap'[holds[Table(r, t)]].content = heap[holds[Table(r, t)]].content
<1>2. /\ Counting(heap, holds) /\ h \in Holder /\ b \in Box /\ b # Nothing /\ heap \in [Box -> Boxes]
      /\ TablesOK(r)
  BY <1>1, HolderNames, Held DEF ResultInv, Present, Counting
<1>3. ASSUME NEW t \in {"validated", "errors"}
      PROVE  /\ holds[Table(r, t)] # b => same(t)
             /\ holds[Table(r, t)] = b => heap[b].kind = "ref"
  <2>1. Table(r, t) \in Holder /\ Table(r, t) # h
    BY HolderNames
  <2>2. holds[Table(r, t)] # b => same(t)
    <3>1. holds[Table(r, t)] # Nothing => holds[Table(r, t)] \in Box
      BY <1>2, <2>1, Held
    <3> QED
      BY <1>1, <1>2, <3>1
  <2>3. holds[Table(r, t)] = b => heap[b].refs # 1
    <3> DEFINE g == Table(r, t)
    <3>1. g \in Holder /\ g # h
      BY <2>1
    <3> HIDE DEF g
    <3>2. holds[g] = holds[h] => heap[holds[h]].refs # 1
      BY <1>2, <3>1, HeldTwice
    <3> QED
      BY <3>2 DEF g
  <2> QED
    BY <1>1, <2>2, <2>3
<1>4. same("errors")
  BY <1>2, <1>3 DEF TablesOK, Present
<1>5. Says(r).tables["errors"] = Says(r)'.tables["errors"]
  BY <1>1, <1>4 DEF Says, Table
<1>6. CASE holds[Table(r, "validated")] = b
  BY <1>1, <1>2, <1>3, <1>5, <1>6 DEF Present
<1>7. CASE holds[Table(r, "validated")] # b
  <2>1. same("validated")
    BY <1>3, <1>7
  <2>2. \A t \in {"validated", "errors"} : same(t)
    BY <1>4, <2>1
  <2> QED
    BY <1>1, <2>2 DEF Says, Table
<1> QED
  BY <1>6, <1>7

\* A result says the same for as long as it lives, unless the data held a PHP
\* reference, through which the caller still writes into validated().
THEOREM ResultsKept == ResultSpec => ResultKeeps
<1>1. ResultInv /\ [ResultNext]_resultVars =>
        [\A r \in ResultId :
          standing[r] # "none" /\ standing'[r] # "none" =>
             \/ Says(r)' = Says(r)
             \/ /\ Present(Table(r, "validated"))
                /\ heap[holds[Table(r, "validated")]].kind = "ref"
                /\ standing'[r] = standing[r]
                /\ Says(r).tables["errors"] = Says(r)'.tables["errors"]]_resultVars
  BY EveryStep, QuietSays, InPlaceSays
<1> QED
  BY <1>1, ResultInvariant, PTL DEF ResultSpec, ResultKeeps

=============================================================================
