---------------------------- MODULE ParserProofs ----------------------------
(***************************************************************************)
(* sf_parse_rules, for any rules arrays and any limit.  Who owns what while *)
(* it runs: nothing the parser allocates is freed twice or left without an *)
(* owner, whatever fails in whatever conditional.  What it answers: a table*)
(* for the arrays that are acceptable, NULL for all others.  And what the  *)
(* table holds: every rule that was given, at its place.                   *)
(***************************************************************************)
EXTENDS Parser, NaturalSets, SequenceTheorems, TLAPS

Slots == [slot : {"field", "rule", "then", "else"}, index : Nat]
Places == Seq(Slots)
Frames == [at : Places, given : Given, depth : Nat, branch : {"then", "else"}, next : Nat \ {0}]

-----------------------------------------------------------------------------
(* Sequences of slots and of frames. *)

\* A prefix, element by element.
LEMMA PrefixMeans ==
    ASSUME NEW s \in Places, NEW t \in Places
    PROVE  IsPrefix(s, t) <=> Len(s) <= Len(t) /\ \A i \in 1 .. Len(s) : s[i] = t[i]
<1>1. Len(s) \in Nat /\ Len(t) \in Nat
  BY DEF Places
<1>2. SubSeq(s, 1, Len(s)) = s
  BY SubSeqFull DEF Places
<1>3. ASSUME Len(s) <= Len(t)
      PROVE  (SubSeq(t, 1, Len(s)) = s) <=> \A i \in 1 .. Len(s) : s[i] = t[i]
  <2>1. \A i \in 1 .. Len(s) : t[i] \in Slots
    BY <1>1, <1>3, ElementOfSeq DEF Places
  <2> DEFINE u == SubSeq(t, 1, Len(s))
  <2>2. u \in Seq(Slots) /\ Len(u) = Len(s) /\ \A i \in 1 .. Len(s) : u[i] = t[i]
    <3>1. /\ u \in Seq(Slots) /\ Len(u) = IF 1 <= Len(s) THEN Len(s) - 1 + 1 ELSE 0
          /\ \A i \in 1 .. Len(s) - 1 + 1 : u[i] = t[1 + i - 1]
      BY <1>1, <2>1, SubSeqProperties, 1 \in Int
    <3> HIDE DEF u
    <3> QED
      BY <1>1, <3>1
  <2> HIDE DEF u
  <2>3. (\A i \in 1 .. Len(s) : s[i] = t[i]) => u = s
    BY <2>2, SeqEqual DEF Places
  <2> QED
    BY <2>2, <2>3 DEF u
<1> QED
  BY <1>2, <1>3 DEF IsPrefix

\* The prefix of a length, element by element.
LEMMA PrefixOfLength ==
    ASSUME NEW t \in Places, NEW n \in 0 .. Len(t)
    PROVE  /\ SubSeq(t, 1, n) \in Places /\ Len(SubSeq(t, 1, n)) = n
           /\ \A i \in 1 .. n : SubSeq(t, 1, n)[i] = t[i]
<1>1. Len(t) \in Nat /\ n \in Nat
  BY DEF Places
<1>2. \A i \in 1 .. n : t[i] \in Slots
  BY <1>1, ElementOfSeq DEF Places
<1> DEFINE u == SubSeq(t, 1, n)
<1>3. /\ u \in Seq(Slots) /\ Len(u) = IF 1 <= n THEN n - 1 + 1 ELSE 0
      /\ \A i \in 1 .. n - 1 + 1 : u[i] = t[1 + i - 1]
  BY <1>1, <1>2, SubSeqProperties, 1 \in Int
<1> HIDE DEF u
<1>4. u \in Places /\ Len(u) = n /\ \A i \in 1 .. n : u[i] = t[i]
  BY <1>1, <1>3 DEF Places
<1> QED
  BY <1>4 DEF u

\* The prefix of q's length of what q is a prefix of is q.
LEMMA PrefixIs ==
    ASSUME NEW q \in Places, NEW t \in Places, IsPrefix(q, t)
    PROVE  SubSeq(t, 1, Len(q)) = q
  BY SubSeqFull DEF IsPrefix, Places

LEMMA PrefixTransitive ==
    ASSUME NEW q \in Places, NEW s \in Places, NEW t \in Places, IsPrefix(q, s), IsPrefix(s, t)
    PROVE  IsPrefix(q, t)
<1>1. Len(q) \in Nat /\ Len(s) \in Nat /\ Len(t) \in Nat
  BY DEF Places
<1>2. Len(q) <= Len(s) /\ \A i \in 1 .. Len(q) : q[i] = s[i]
  BY PrefixMeans
<1>3. Len(s) <= Len(t) /\ \A i \in 1 .. Len(s) : s[i] = t[i]
  BY PrefixMeans
<1>4. Len(q) <= Len(t) /\ \A i \in 1 .. Len(q) : q[i] = t[i]
  BY <1>1, <1>2, <1>3
<1> QED
  BY <1>4, PrefixMeans

LEMMA AppendedPlace ==
    ASSUME NEW s \in Places, NEW x \in Slots
    PROVE  /\ Append(s, x) \in Places /\ Len(Append(s, x)) = Len(s) + 1
           /\ \A i \in 1 .. Len(s) : Append(s, x)[i] = s[i]
           /\ Append(s, x)[Len(s) + 1] = x
  BY AppendProperties DEF Places

LEMMA FrontFrames ==
    ASSUME NEW s \in Seq(Frames), s # <<>>
    PROVE  /\ Front(s) \in Seq(Frames) /\ Len(Front(s)) = Len(s) - 1
           /\ \A k \in 1 .. Len(s) - 1 : Front(s)[k] = s[k]
           /\ Len(s) \in Nat \ {0} /\ s[Len(s)] \in Frames
<1>1. Front(s) = [k \in 1 .. Len(s) - 1 |-> s[k]]
  BY DEF Front
<1>2. /\ [k \in 1 .. Len(s) - 1 |-> s[k]] \in Seq(Frames)
      /\ Len([k \in 1 .. Len(s) - 1 |-> s[k]]) = Len(s) - 1
  OBVIOUS
<1>3. Len(s) \in Nat \ {0} /\ s[Len(s)] \in Frames
  OBVIOUS
<1> QED
  BY <1>1, <1>2, <1>3

LEMMA AppendFrame ==
    ASSUME NEW s \in Seq(Frames), NEW f \in Frames
    PROVE  /\ Append(s, f) \in Seq(Frames) /\ Len(Append(s, f)) = Len(s) + 1
           /\ \A k \in 1 .. Len(s) : Append(s, f)[k] = s[k]
           /\ Append(s, f)[Len(s) + 1] = f
           /\ Append(s, f) # <<>> /\ Len(s) \in Nat
  BY AppendProperties

LEMMA ReplaceTop ==
    ASSUME NEW s \in Seq(Frames), s # <<>>, NEW f \in Frames
    PROVE  /\ Append(Front(s), f) \in Seq(Frames) /\ Len(Append(Front(s), f)) = Len(s)
           /\ \A k \in 1 .. Len(s) - 1 : Append(Front(s), f)[k] = s[k]
           /\ Append(Front(s), f)[Len(s)] = f
           /\ Append(Front(s), f) # <<>> /\ Len(s) \in Nat \ {0}
<1>1. /\ Front(s) \in Seq(Frames) /\ Len(Front(s)) = Len(s) - 1
      /\ \A k \in 1 .. Len(s) - 1 : Front(s)[k] = s[k]
      /\ Len(s) \in Nat \ {0}
  BY FrontFrames
<1> QED
  BY <1>1, AppendFrame

-----------------------------------------------------------------------------
(* The inductive invariant. *)

InField == pc \in {"rules", "call", "branch", "return"}
Calling == pc \in {"call", "return"}

Shaped ==
    /\ rules \in Seq(Entry)
    /\ pc \in {"fields", "rules", "call", "branch", "return", "done"}
    /\ field \in Nat \ {0} /\ next \in Nat \ {0}
    /\ stack \in Seq(Frames)
    /\ InField => field \in DOMAIN rules
    /\ pc = "branch" => stack # <<>>
    /\ pc \in {"fields", "rules", "done"} => stack = <<>>
    /\ Calling => call.at \in Places
    /\ pc = "call" => call.given \in Given /\ call.depth \in Nat
    /\ linked \subseteq Places
    /\ \A b \in made : b.at \in Places
    /\ result = "none" <=> pc # "done"

\* The place of the k-th conditional in progress is where the loops stand: the
\* field, its rule, and the slot of every conditional around it.
StandsAt(at, k, frames, f, i) ==
    /\ at \in Places /\ Len(at) = k + 1
    /\ at[1] = Slot("field", f) /\ at[2] = Slot("rule", i)
    /\ \A j \in 1 .. k - 1 : at[j + 2] = Slot(frames[j].branch, frames[j].next)

Chain ==
    /\ \A k \in DOMAIN stack : StandsAt(stack[k].at, k, stack, field, next)
    /\ Calling => StandsAt(call.at, Len(stack) + 1, stack, field, next)

\* A slot of a frame that its loops have passed.
Earlier(slot, frame) ==
    \/ slot.slot = frame.branch /\ slot.index < frame.next
    \/ slot.slot = "then" /\ frame.branch = "else"

\* What is stored lies behind: in an earlier field, in an earlier rule of the
\* field, in an earlier slot of a conditional in progress, or below the rule that
\* is just returned.
EarlierField(at) == at # <<>> /\ at[1].index < field
EarlierRule(at) ==
    InField /\ Len(at) > 1 /\ at[1] = Slot("field", field) /\ at[2].index < next
EarlierSlot(at) ==
    \E k \in DOMAIN stack :
        Len(at) > k + 1 /\ IsPrefix(stack[k].at, at) /\ Earlier(at[k + 2], stack[k])
BelowCall(at) == pc = "return" /\ Len(at) > Len(call.at) /\ IsPrefix(call.at, at)

Behind(at) == EarlierField(at) \/ EarlierRule(at) \/ EarlierSlot(at) \/ BelowCall(at)

Stored == pc # "done" => \A at \in linked : Behind(at)

\* Nothing is freed before something fails, and then the calls only return.
Failing == pc = "return" /\ ~ok
Owned ==
    /\ pc # "done" => OwnedMeanwhile
    /\ pc # "done" /\ ~Failing => freed = {}
    /\ result = "NULL" => live = {}
    /\ result = "table" => live = Tree(Table) /\ freed = {}
    /\ result \in {"none", "NULL", "table"}
    /\ twice = {}

OwnerInv == Shaped /\ Chain /\ Stored /\ Owned

-----------------------------------------------------------------------------
(* What is being parsed is not stored. *)

LEMMA NotStored ==
    ASSUME Shaped, Chain, Stored
    PROVE  /\ InField => FieldAt(field) \notin linked
           /\ \A k \in DOMAIN stack : stack[k].at \notin linked
           /\ Calling => call.at \notin linked
           /\ pc # "done" => <<>> \notin linked
<1>0. stack \in Seq(Frames) /\ Len(stack) \in Nat /\ field \in Nat /\ next \in Nat
  BY DEF Shaped
<1>1. ASSUME InField, FieldAt(field) \in linked PROVE FALSE
  <2> DEFINE at == FieldAt(field)
  <2>1. at # <<>> /\ Len(at) = 1 /\ at[1].index = field
    BY DEF FieldAt, Slot
  <2>2. Behind(at)
    BY <1>1 DEF Stored, InField
  <2>3. Calling => Len(call.at) = Len(stack) + 2
    BY DEF Chain, StandsAt
  <2> HIDE DEF at
  <2> QED
    BY <1>0, <2>1, <2>2, <2>3 DEF Behind, EarlierField, EarlierRule, EarlierSlot, BelowCall, Calling
\* A place as deep as the k-th conditional, where the loops stand, is not behind.
<1>2. ASSUME NEW k \in 1 .. Len(stack) + 1, NEW at, StandsAt(at, k, stack, field, next), pc # "done"
      PROVE  ~Behind(at)
  <2>1. /\ at # <<>> /\ Len(at) = k + 1
        /\ at[1].index = field /\ at[2].index = next
    BY <1>0, <1>2 DEF StandsAt, Slot, Places
  <2>2. ASSUME NEW j \in DOMAIN stack, Len(at) > j + 1 PROVE ~Earlier(at[j + 2], stack[j])
    <3>1. at[j + 2] = Slot(stack[j].branch, stack[j].next) /\ stack[j] \in Frames
      BY <1>0, <1>2, <2>1, <2>2 DEF StandsAt
    <3> QED
      BY <3>1 DEF Earlier, Slot, Frames
  <2>3. Calling => Len(call.at) = Len(stack) + 2
    BY DEF Chain, StandsAt
  <2> QED
    BY <1>0, <2>1, <2>2, <2>3 DEF Behind, EarlierField, EarlierRule, EarlierSlot, BelowCall, Calling
<1>3. \A k \in DOMAIN stack : stack[k].at \notin linked
  <2>1. pc = "done" => stack = <<>>
    BY DEF Shaped
  <2> QED
    BY <1>0, <1>2, <2>1 DEF Chain, Stored
<1>4. Calling => call.at \notin linked
  BY <1>0, <1>2 DEF Chain, Stored, Calling
<1>5. pc # "done" => <<>> \notin linked
  <2> SUFFICES ASSUME pc # "done" PROVE ~Behind(<<>>)
    BY DEF Stored
  <2>1. Calling => Len(call.at) = Len(stack) + 2
    BY DEF Chain, StandsAt
  <2> QED
    BY <1>0, <2>1 DEF Behind, EarlierField, EarlierRule, EarlierSlot, BelowCall, Calling
<1> QED
  BY <1>1, <1>3, <1>4, <1>5

\* Two owners of which the lower is not stored share nothing.
LEMMA ApartTrees ==
    ASSUME Shaped, NEW r \in Places, NEW q \in Places,
           IsPrefix(r, q), Len(r) < Len(q), q \notin linked
    PROVE  Tree(r) \cap Tree(q) = {}
<1> SUFFICES ASSUME NEW b \in Tree(r), b \in Tree(q) PROVE FALSE
  OBVIOUS
<1>1. b \in made /\ b.at \in Places /\ IsPrefix(q, b.at)
  BY DEF Tree, Shaped
<1>2. Len(q) \in Len(r) + 1 .. Len(b.at)
  <2>1. Len(q) <= Len(b.at)
    BY <1>1 DEF IsPrefix
  <2> QED
    BY <1>1, <2>1 DEF Places
<1>3. SubSeq(b.at, 1, Len(q)) \in linked
  BY <1>2 DEF Tree
<1> QED
  BY <1>1, <1>3, PrefixIs

\* What is stored under an owner brings its tree along.
LEMMA JoinedTrees ==
    ASSUME Shaped, NEW r \in Places, NEW x \in Slots, NEW l, l = Append(r, x),
           linked' = linked \cup {l}, made' = made
    PROVE  /\ \A q : Tree(q) \subseteq Tree(q)'
           /\ Tree(l) \subseteq Tree(r)'
<1>1. \A q : Tree(q) \subseteq Tree(q)'
  BY DEF Tree
<1>2. ASSUME NEW b \in Tree(l) PROVE b \in Tree(r)'
  <2>1. /\ l \in Places /\ Len(l) = Len(r) + 1 /\ Len(r) \in Nat
        /\ \A i \in 1 .. Len(r) : l[i] = r[i]
    BY AppendedPlace DEF Places
  <2>2. b \in made /\ b.at \in Places /\ IsPrefix(l, b.at)
    BY DEF Tree, Shaped
  <2>3. IsPrefix(r, b.at)
    <3>1. Len(l) <= Len(b.at) /\ \A i \in 1 .. Len(l) : l[i] = b.at[i]
      BY <2>1, <2>2, PrefixMeans
    <3>2. Len(r) <= Len(b.at) /\ \A i \in 1 .. Len(r) : r[i] = b.at[i]
      BY <2>1, <3>1
    <3> QED
      BY <2>2, <3>2, PrefixMeans
  <2>4. ASSUME NEW n \in Len(r) + 1 .. Len(b.at) PROVE SubSeq(b.at, 1, n) \in linked'
    <3>1. CASE n = Len(l)
      BY <2>1, <2>2, <3>1, PrefixIs
    <3>2. CASE n # Len(l)
      <4>1. n \in Len(l) + 1 .. Len(b.at)
        BY <2>1, <2>2, <3>2 DEF Places
      <4> QED
        BY <4>1 DEF Tree
    <3> QED
      BY <3>1, <3>2
  <2> QED
    BY <2>2, <2>3, <2>4 DEF Tree
<1> QED
  BY <1>1, <1>2

\* A block is in the tree of the place it is named by.
LEMMA OwnTree ==
    ASSUME NEW at \in Places, NEW part, Block(at, part) \in made'
    PROVE  Block(at, part) \in Tree(at)'
<1>1. Block(at, part).at = at
  BY DEF Block
<1>2. IsPrefix(at, at) /\ Len(at) \in Nat
  BY DEF IsPrefix, Places
<1> QED
  BY <1>1, <1>2 DEF Tree

-----------------------------------------------------------------------------
(* The steps keep the shape of the state. *)

LEMMA InitInv == Init => OwnerInv
<1> SUFFICES ASSUME Init PROVE OwnerInv
  OBVIOUS
<1>1. Shaped
  <2>1. rules \in Seq(Entry)
    BY ParserAssumption DEF Init, ParserAssumption
  <2>2. Table \in Places /\ stack \in Seq(Frames)
    BY DEF Init, Table, Places
  <2> QED
    BY <2>1, <2>2 DEF Init, Shaped, InField, Calling, Block
<1>2. Chain /\ Stored
  BY DEF Init, Chain, Stored, Calling
<1>3. Owned
  <2>1. made = {Block(Table, "table")} /\ freed = {} /\ pc = "fields" /\ stack = <<>>
    BY DEF Init
  <2>2. Block(Table, "table") \in Tree(Table)
    <3>1. Block(Table, "table").at = <<>>
      BY DEF Block, Table
    <3> QED
      BY <2>1, <3>1 DEF Tree, Table, IsPrefix
  <2>3. Tree(Table) \subseteq made
    BY DEF Tree
  <2>4. OwnedMeanwhile
    BY <2>1, <2>2, <2>3 DEF OwnedMeanwhile, live
  <2> QED
    BY <2>1, <2>4 DEF Owned, Init
<1> QED
  BY <1>1, <1>2, <1>3 DEF OwnerInv

\* The frame of a conditional that is opened, and the frame of the innermost one
\* with its loop one further or in the other branch.
LEMMA FrameTypes ==
    ASSUME Shaped
    PROVE  /\ pc = "call" => [at |-> call.at, given |-> call.given, depth |-> call.depth,
                              branch |-> "then", next |-> 1] \in Frames
           /\ stack # <<>> => /\ [Top EXCEPT !.next = @ + 1] \in Frames
                              /\ [Top EXCEPT !.branch = "else", !.next = 1] \in Frames
                              /\ Top \in Frames
<1>1. pc = "call" => call.at \in Places /\ call.given \in Given /\ call.depth \in Nat
  BY DEF Shaped, Calling
<1>2. ASSUME stack # <<>> PROVE Top \in Frames
  BY <1>2, FrontFrames DEF Top, Shaped
<1>3. ASSUME NEW f \in Frames
      PROVE  /\ [f EXCEPT !.next = @ + 1] \in Frames
             /\ [f EXCEPT !.branch = "else", !.next = 1] \in Frames
  <2>1. f.next \in Nat \ {0}
    BY DEF Frames
  <2>2. f.next + 1 \in Nat \ {0}
    BY <2>1
  <2>3. \A g \in Frames : \A n \in Nat \ {0} : [g EXCEPT !.next = n] \in Frames
    BY DEF Frames
  <2>4. [f EXCEPT !.branch = "else", !.next = 1] \in Frames
    <3> DEFINE g == [f EXCEPT !.branch = "else"]
    <3>1. g \in Frames
      BY DEF Frames
    <3>2. [f EXCEPT !.branch = "else", !.next = 1] = [g EXCEPT !.next = 1]
      OBVIOUS
    <3> HIDE DEF g
    <3> QED
      BY <2>3, <3>1, <3>2
  <2> QED
    BY <2>2, <2>3, <2>4
<1>4. pc = "call" => [at |-> call.at, given |-> call.given, depth |-> call.depth,
                      branch |-> "then", next |-> 1] \in Frames
  BY <1>1 DEF Frames
<1>5. ASSUME stack # <<>>
      PROVE  /\ [Top EXCEPT !.next = @ + 1] \in Frames
             /\ [Top EXCEPT !.branch = "else", !.next = 1] \in Frames
  BY <1>2, <1>3, <1>5
<1> QED
  BY <1>2, <1>4, <1>5

\* What the calls made for the next rule are of.
LEMMA CallTypes ==
    ASSUME Shaped
    PROVE  /\ NextRule => call'.at \in Places /\ call'.given \in Given /\ call'.depth \in Nat
           /\ NextInner => call'.at \in Places /\ call'.given \in Given /\ call'.depth \in Nat
<1>1. ASSUME NextRule
      PROVE  call'.at \in Places /\ call'.given \in Given /\ call'.depth \in Nat
  <2>1. call' = [at |-> RuleAt(field, next), given |-> rules[field].rules[next], depth |-> 0]
    BY <1>1 DEF NextRule
  <2>2. RuleAt(field, next) \in Places
    BY DEF RuleAt, Slot, Places, Slots, Shaped
  <2>3. rules[field].rules[next] \in Given
    <3>1. rules[field] \in Entry /\ next \in DOMAIN rules[field].rules
      BY <1>1 DEF NextRule, Shaped, InField
    <3> QED
      BY <3>1 DEF Entry
  <2> QED
    BY <2>1, <2>2, <2>3
<1>2. ASSUME NextInner
      PROVE  call'.at \in Places /\ call'.given \in Given /\ call'.depth \in Nat
  <2>1. call' = [at |-> Append(Top.at, Slot(Top.branch, Top.next)),
                 given |-> Branch(Top)[Top.next], depth |-> Top.depth + 1]
    BY <1>2 DEF NextInner
  <2>2. Top \in Frames
    BY <1>2, FrameTypes DEF NextInner, Shaped
  <2>3. Append(Top.at, Slot(Top.branch, Top.next)) \in Places
    <3>1. Slot(Top.branch, Top.next) \in Slots /\ Top.at \in Places
      BY <2>2 DEF Frames, Slots, Slot
    <3> QED
      BY <3>1, AppendedPlace
  <2>4. Branch(Top)[Top.next] \in Given
    <3>1. Branch(Top) \in Seq(Given) /\ Top.next \in DOMAIN Branch(Top)
      BY <1>2, <2>2, ParserAssumption DEF NextInner, ParserAssumption, Frames, Branch
    <3> QED
      BY <3>1
  <2>5. Top.depth + 1 \in Nat
    BY <2>2 DEF Frames
  <2> QED
    BY <2>1, <2>3, <2>4, <2>5
<1> QED
  BY <1>1, <1>2

\* Returning from a conditional gives the call its place back.
LEMMA ClosedCall ==
    ASSUME Shaped, stack # <<>>,
           call' = [at |-> Top.at, given |-> Top.given, depth |-> Top.depth]
    PROVE  call'.at = Top.at /\ call'.at \in Places
  BY FrameTypes DEF Frames

LEMMA ShapedStep == Shaped /\ [Next]_vars => Shaped'
<1> SUFFICES ASSUME Shaped, [Next]_vars PROVE Shaped'
  OBVIOUS
<1> USE DEF Shaped, InField, Calling
<1>1. CASE RejectField
  BY <1>1 DEF RejectField, Free, loops
<1>2. CASE StartField
  <2>1. FieldAt(field) \in Places
    BY DEF FieldAt, Slot, Places, Slots
  <2>2. \A b \in FieldBlocks(field) : b.at \in Places
    BY <2>1 DEF FieldBlocks, Block
  <2> QED
    BY <1>2, <2>2 DEF StartField, Allocate
<1>3. CASE NextRule
  BY <1>3, CallTypes DEF NextRule, loops, memory
<1>4. CASE StoreField
  <2>1. FieldAt(field) \in Places
    BY DEF FieldAt, Slot, Places, Slots
  <2> QED
    BY <1>4, <2>1 DEF StoreField, memory
<1>5. CASE StoreRule
  BY <1>5 DEF StoreRule, memory
<1>6. CASE AbandonField
  BY <1>6 DEF AbandonField, Free, loops
<1>7. CASE Finish
  BY <1>7 DEF Finish, loops, memory
<1>8. CASE RejectDepth \/ RejectRule \/ RejectCondition
  BY <1>8 DEF RejectDepth, RejectRule, RejectCondition, TooDeep, Parses, Returns, loops, memory
<1>9. CASE ParseLeaf
  <2> DEFINE blocks == {Block(call.at, "struct")}
                    \cup (IF Shape[call.given] = "owning" THEN {Block(call.at, "param")} ELSE {})
  <2>1. pc = "call" /\ made' = made \cup blocks
    BY <1>9 DEF ParseLeaf, Parses, Allocate
  <2>2. \A b \in blocks : b.at = call.at
    BY DEF Block
  <2>3. \A b \in made' : b.at \in Places
    BY <2>1, <2>2
  <2> QED
    BY <1>9, <2>1, <2>3 DEF ParseLeaf, Returns, loops
<1>10. CASE OpenConditional
  <2> DEFINE blocks == {Block(call.at, part) : part \in {"struct", "condition", "then"}}
             frame == [at |-> call.at, given |-> call.given, depth |-> call.depth,
                       branch |-> "then", next |-> 1]
  <2>1. pc = "call" /\ made' = made \cup blocks /\ stack' = Append(stack, frame)
    BY <1>10 DEF OpenConditional, Parses, Allocate
  <2>2. frame \in Frames
    BY <2>1, FrameTypes
  <2>3. \A b \in blocks : b.at = call.at
    BY DEF Block
  <2>4. \A b \in made' : b.at \in Places
    BY <2>1, <2>3
  <2> HIDE DEF frame
  <2>5. stack' \in Seq(Frames) /\ stack' # <<>>
    BY <2>1, <2>2, AppendFrame
  <2> QED
    BY <1>10, <2>1, <2>4, <2>5 DEF OpenConditional, loops
<1>11. CASE NextInner
  BY <1>11, CallTypes DEF NextInner, loops, memory
<1>12. CASE OpenElse
  <2> DEFINE frame == [Top EXCEPT !.branch = "else", !.next = 1]
  <2>1. pc = "branch" /\ made' = made \cup {Block(Top.at, "else")} /\ stack' = Append(Below, frame)
    BY <1>12 DEF OpenElse, BranchDone, Allocate
  <2>2. frame \in Frames /\ Top \in Frames
    BY <2>1, FrameTypes
  <2>3. \A b \in made' : b.at \in Places
    BY <2>1, <2>2 DEF Block, Frames
  <2> HIDE DEF frame
  <2>4. stack' \in Seq(Frames) /\ stack' # <<>>
    BY <2>1, <2>2, ReplaceTop DEF Below
  <2> QED
    BY <1>12, <2>1, <2>3, <2>4 DEF OpenElse, loops
<1>13. CASE CloseConditional
  <2>1. /\ pc = "branch" /\ stack # <<>> /\ stack' = Front(stack)
        /\ call' = [at |-> Top.at, given |-> Top.given, depth |-> Top.depth]
    BY <1>13 DEF CloseConditional, BranchDone, Below
  <2>2. stack' \in Seq(Frames) /\ call'.at \in Places
    BY <2>1, FrontFrames, ClosedCall
  <2> QED
    BY <1>13, <2>1, <2>2 DEF CloseConditional, Returns, loops, memory
<1>14. CASE StoreInner
  <2> DEFINE frame == [Top EXCEPT !.next = @ + 1]
  <2>1. pc = "return" /\ stack # <<>> /\ stack' = Append(Below, frame)
    BY <1>14 DEF StoreInner
  <2>2. frame \in Frames
    BY <2>1, FrameTypes
  <2> HIDE DEF frame
  <2>3. stack' \in Seq(Frames) /\ stack' # <<>>
    BY <2>1, <2>2, ReplaceTop DEF Below
  <2> QED
    BY <1>14, <2>1, <2>3 DEF StoreInner, loops, memory
<1>15. CASE AbandonConditional
  <2>1. /\ pc = "return" /\ stack # <<>> /\ stack' = Front(stack)
        /\ call' = [at |-> Top.at, given |-> Top.given, depth |-> Top.depth]
    BY <1>15 DEF AbandonConditional, Below
  <2>2. stack' \in Seq(Frames) /\ call'.at \in Places
    BY <2>1, FrontFrames, ClosedCall
  <2> QED
    BY <1>15, <2>1, <2>2 DEF AbandonConditional, Returns, Free, loops
<1>16. CASE Returned \/ UNCHANGED vars
  BY <1>16 DEF Returned, vars
<1> QED
  BY <1>1, <1>2, <1>3, <1>4, <1>5, <1>6, <1>7, <1>8, <1>9, <1>10, <1>11, <1>12, <1>13,
     <1>14, <1>15, <1>16 DEF Next, Step

-----------------------------------------------------------------------------
(* Places follow the loops. *)

\* The innermost frame is replaced by one of the same place.
LEMMA ReplacedChain ==
    ASSUME Shaped, Chain, stack # <<>>, UNCHANGED loops, ~Calling',
           NEW f \in Frames, f.at = Top.at, stack' = Append(Below, f)
    PROVE  Chain'
<1>1. /\ Len(stack) \in Nat \ {0} /\ Len(stack') = Len(stack) /\ stack' \in Seq(Frames)
      /\ stack'[Len(stack)] = f
      /\ \A k \in 1 .. Len(stack) - 1 : stack'[k] = stack[k]
  BY ReplaceTop DEF Shaped, Below
<1>2. ASSUME NEW k \in DOMAIN stack' PROVE StandsAt(stack'[k].at, k, stack', field', next')
  <2>1. k \in 1 .. Len(stack) /\ k \in DOMAIN stack /\ k \in Nat
    BY <1>1, <1>2 DEF Shaped
  <2>2. stack'[k].at = stack[k].at
    BY <1>1, <2>1 DEF Top
  <2>3. StandsAt(stack[k].at, k, stack, field, next)
    BY <2>1 DEF Chain
  <2>4. ASSUME NEW j \in 1 .. k - 1 PROVE stack'[j] = stack[j]
    <3>1. j \in 1 .. Len(stack) - 1
      BY <2>1
    <3> QED
      BY <1>1, <3>1
  <2> QED
    BY <2>1, <2>2, <2>3, <2>4 DEF StandsAt, loops
<1> QED
  BY <1>2 DEF Chain

\* The innermost frame is left and the call is at its place again.
LEMMA ClosedChain ==
    ASSUME Shaped, Chain, stack # <<>>, UNCHANGED loops,
           stack' = Below, call'.at = Top.at
    PROVE  Chain'
<1>1. /\ Len(stack) \in Nat \ {0} /\ Len(stack') = Len(stack) - 1 /\ stack' \in Seq(Frames)
      /\ \A k \in 1 .. Len(stack) - 1 : stack'[k] = stack[k]
  BY FrontFrames DEF Shaped, Below
<1>2. ASSUME NEW k \in DOMAIN stack' PROVE StandsAt(stack'[k].at, k, stack', field', next')
  <2>1. k \in 1 .. Len(stack) - 1 /\ k \in DOMAIN stack /\ k \in Nat
    BY <1>1, <1>2 DEF Shaped
  <2>2. stack'[k].at = stack[k].at
    BY <1>1, <2>1
  <2>3. StandsAt(stack[k].at, k, stack, field, next)
    BY <2>1 DEF Chain
  <2>4. \A j \in 1 .. k - 1 : stack'[j] = stack[j]
    BY <1>1, <2>1
  <2> QED
    BY <2>1, <2>2, <2>3, <2>4 DEF StandsAt, loops
<1>3. StandsAt(call'.at, Len(stack') + 1, stack', field', next')
  <2>1. Len(stack) \in DOMAIN stack
    BY <1>1 DEF Shaped
  <2>2. StandsAt(Top.at, Len(stack), stack, field, next)
    BY <2>1 DEF Chain, Top
  <2>3. Len(stack') + 1 = Len(stack)
    BY <1>1
  <2> QED
    BY <1>1, <2>2, <2>3 DEF StandsAt, loops
<1> QED
  BY <1>2, <1>3 DEF Chain

LEMMA ChainStep == Shaped /\ Chain /\ [Next]_vars => Chain'
<1> SUFFICES ASSUME Shaped, Chain, [Next]_vars PROVE Chain'
  OBVIOUS
<1>0. stack \in Seq(Frames) /\ Len(stack) \in Nat
  BY DEF Shaped
<1>1. CASE RejectField \/ StartField \/ StoreField \/ StoreRule \/ AbandonField \/ Finish
  <2>1. stack = <<>> /\ stack' = stack /\ pc' \in {"fields", "rules", "done"}
    BY <1>1 DEF RejectField, StartField, StoreField, StoreRule, AbandonField, Finish, Shaped
  <2> QED
    BY <2>1 DEF Chain, Calling
<1>2. CASE NextRule
  <2>1. stack = <<>> /\ stack' = stack /\ UNCHANGED loops /\ call'.at = RuleAt(field, next)
    BY <1>2 DEF NextRule, Shaped
  <2>2. call'.at \in Places
    BY <1>2, CallTypes
  <2>3. StandsAt(call'.at, Len(stack') + 1, stack', field', next')
    BY <2>1, <2>2 DEF StandsAt, RuleAt, loops
  <2> QED
    BY <2>1, <2>3 DEF Chain
<1>3. CASE RejectDepth \/ RejectRule \/ RejectCondition \/ ParseLeaf
  <2>1. Calling /\ UNCHANGED <<loops, stack, call>>
    BY <1>3 DEF RejectDepth, RejectRule, RejectCondition, ParseLeaf, TooDeep, Parses, Calling
  <2> QED
    BY <2>1 DEF Chain, StandsAt, loops
<1>4. CASE OpenConditional
  <2> DEFINE frame == [at |-> call.at, given |-> call.given, depth |-> call.depth,
                       branch |-> "then", next |-> 1]
  <2>1. pc = "call" /\ pc' = "branch" /\ stack' = Append(stack, frame) /\ UNCHANGED loops
    BY <1>4 DEF OpenConditional, Parses
  <2>2. frame \in Frames /\ frame.at = call.at
    BY <2>1, FrameTypes
  <2> HIDE DEF frame
  <2>3. /\ Len(stack') = Len(stack) + 1 /\ stack' \in Seq(Frames)
        /\ stack'[Len(stack) + 1] = frame
        /\ \A k \in 1 .. Len(stack) : stack'[k] = stack[k]
    BY <2>1, <2>2, AppendFrame, <1>0
  <2>4. ASSUME NEW k \in DOMAIN stack' PROVE StandsAt(stack'[k].at, k, stack', field', next')
    <3>1. k \in 1 .. Len(stack) + 1 /\ \A j \in 1 .. k - 1 : stack'[j] = stack[j]
      BY <1>0, <2>3, <2>4
    <3>2. StandsAt(stack'[k].at, k, stack, field, next)
      <4>1. CASE k = Len(stack) + 1
        BY <2>1, <2>2, <2>3, <4>1 DEF Chain, Calling
      <4>2. CASE k \in DOMAIN stack
        BY <1>0, <2>3, <4>2 DEF Chain
      <4> QED
        BY <1>0, <3>1, <4>1, <4>2
    <3> QED
      BY <1>0, <2>1, <3>1, <3>2 DEF StandsAt, loops
  <2> QED
    BY <2>1, <2>4 DEF Chain, Calling
<1>5. CASE NextInner
  <2>1. /\ pc = "branch" /\ stack # <<>> /\ stack' = stack /\ UNCHANGED loops
        /\ call'.at = Append(Top.at, Slot(Top.branch, Top.next))
    BY <1>5 DEF NextInner, Shaped
  <2>2. Top \in Frames /\ Len(stack) \in DOMAIN stack /\ Len(stack) \in Nat \ {0}
    BY <2>1, <1>0, FrameTypes
  <2>3. StandsAt(Top.at, Len(stack), stack, field, next)
    BY <2>2 DEF Chain, Top
  <2>4. Top.at \in Places /\ Slot(Top.branch, Top.next) \in Slots
    BY <2>2 DEF Frames, Slots, Slot
  <2>5. /\ call'.at \in Places /\ Len(call'.at) = Len(stack) + 2
        /\ \A i \in 1 .. Len(stack) + 1 : call'.at[i] = Top.at[i]
        /\ call'.at[Len(stack) + 2] = Slot(Top.branch, Top.next)
    BY <2>1, <2>2, <2>3, <2>4, AppendedPlace DEF StandsAt
  <2>6. ASSUME NEW j \in 1 .. Len(stack)
        PROVE  call'.at[j + 2] = Slot(stack[j].branch, stack[j].next)
    BY <2>2, <2>3, <2>5 DEF StandsAt, Top
  <2>7. StandsAt(call'.at, Len(stack') + 1, stack', field', next')
    BY <2>1, <2>2, <2>3, <2>5, <2>6 DEF StandsAt, loops
  <2> QED
    BY <2>1, <2>7 DEF Chain, StandsAt, loops
<1>6. CASE OpenElse
  <2> DEFINE f == [Top EXCEPT !.branch = "else", !.next = 1]
  <2>1. pc = "branch" /\ pc' = pc /\ stack # <<>> /\ UNCHANGED loops /\ stack' = Append(Below, f)
    BY <1>6 DEF OpenElse, BranchDone, Shaped
  <2>2. f \in Frames /\ Top \in Frames
    BY <2>1, FrameTypes
  <2>3. f.at = Top.at
    BY <2>2 DEF Frames
  <2> HIDE DEF f
  <2> QED
    BY <2>1, <2>2, <2>3, ReplacedChain DEF Calling
<1>7. CASE StoreInner
  <2> DEFINE f == [Top EXCEPT !.next = @ + 1]
  <2>1. pc' = "branch" /\ stack # <<>> /\ UNCHANGED loops /\ stack' = Append(Below, f)
    BY <1>7 DEF StoreInner
  <2>2. f \in Frames /\ Top \in Frames
    BY <2>1, FrameTypes
  <2>3. f.at = Top.at
    BY <2>2 DEF Frames
  <2> HIDE DEF f
  <2> QED
    BY <2>1, <2>2, <2>3, ReplacedChain DEF Calling
<1>8. CASE CloseConditional \/ AbandonConditional
  <2>1. /\ stack # <<>> /\ stack' = Below /\ UNCHANGED loops
        /\ call' = [at |-> Top.at, given |-> Top.given, depth |-> Top.depth]
    BY <1>8 DEF CloseConditional, AbandonConditional, BranchDone, Shaped
  <2> QED
    BY <2>1, ClosedCall, ClosedChain
<1>9. CASE Returned \/ UNCHANGED vars
  BY <1>9 DEF Returned, vars, Chain, StandsAt, Calling
<1> QED
  BY <1>1, <1>2, <1>3, <1>4, <1>5, <1>6, <1>7, <1>8, <1>9 DEF Next, Step

-----------------------------------------------------------------------------
(* What is stored stays behind. *)

\* The rule called for is a slot of the innermost conditional, or of the field.
LEMMA CallUnder ==
    ASSUME Shaped, Chain, Calling
    PROVE  /\ stack = <<>> => /\ call.at = Append(FieldAt(field), Slot("rule", next))
                             /\ FieldAt(field) \in Places /\ Slot("rule", next) \in Slots
                             /\ Len(call.at) = 2
                             /\ call.at[1] = Slot("field", field)
                             /\ call.at[2] = Slot("rule", next)
           /\ stack # <<>> => /\ call.at = Append(Top.at, Slot(Top.branch, Top.next))
                             /\ Top.at \in Places /\ Slot(Top.branch, Top.next) \in Slots
                             /\ Len(Top.at) = Len(stack) + 1 /\ Len(call.at) = Len(stack) + 2
                             /\ IsPrefix(Top.at, call.at)
                             /\ call.at[Len(stack) + 2] = Slot(Top.branch, Top.next)
<1>0. stack \in Seq(Frames) /\ Len(stack) \in Nat /\ field \in Nat /\ next \in Nat
  BY DEF Shaped
<1>1. StandsAt(call.at, Len(stack) + 1, stack, field, next)
  BY DEF Chain
<1>2. call.at \in Places /\ Len(call.at) = Len(stack) + 2
  BY <1>0, <1>1 DEF StandsAt
<1>3. ASSUME stack = <<>>
      PROVE  /\ call.at = Append(FieldAt(field), Slot("rule", next))
             /\ FieldAt(field) \in Places /\ Slot("rule", next) \in Slots
             /\ Len(call.at) = 2
             /\ call.at[1] = Slot("field", field)
             /\ call.at[2] = Slot("rule", next)
  <2> DEFINE at == FieldAt(field)
             x == Slot("rule", next)
  <2>1. at \in Places /\ x \in Slots /\ Len(at) = 1 /\ at[1] = Slot("field", field)
    BY <1>0 DEF FieldAt, Slot, Slots, Places
  <2>2. Len(call.at) = 2 /\ call.at[1] = Slot("field", field) /\ call.at[2] = x
    BY <1>1, <1>2, <1>3 DEF StandsAt
  <2> HIDE DEF at, x
  <2>3. /\ Append(at, x) \in Places /\ Len(Append(at, x)) = 2
        /\ Append(at, x)[1] = at[1] /\ Append(at, x)[2] = x
    <3>1. /\ Append(at, x) \in Places /\ Len(Append(at, x)) = Len(at) + 1
          /\ \A i \in 1 .. Len(at) : Append(at, x)[i] = at[i]
          /\ Append(at, x)[Len(at) + 1] = x
      BY <2>1, AppendedPlace
    <3>2. Len(at) + 1 = 2 /\ 1 \in 1 .. Len(at)
      BY <2>1
    <3> QED
      BY <3>1, <3>2
  <2>4. call.at = Append(at, x)
    <3>1. \A i \in 1 .. 2 : call.at[i] = Append(at, x)[i]
      BY <2>1, <2>2, <2>3
    <3> QED
      BY <1>2, <2>2, <2>3, <3>1, SeqEqual DEF Places
  <2> QED
    BY <2>1, <2>2, <2>4 DEF at, x
<1>4. ASSUME stack # <<>>
      PROVE  /\ call.at = Append(Top.at, Slot(Top.branch, Top.next))
             /\ Top.at \in Places /\ Slot(Top.branch, Top.next) \in Slots
             /\ Len(Top.at) = Len(stack) + 1 /\ Len(call.at) = Len(stack) + 2
             /\ IsPrefix(Top.at, call.at)
             /\ call.at[Len(stack) + 2] = Slot(Top.branch, Top.next)
  <2> DEFINE at == Top.at
             x == Slot(Top.branch, Top.next)
             n == Len(stack)
  <2>1. Top \in Frames /\ n \in Nat \ {0}
    BY <1>4, FrontFrames DEF Shaped, Top
  <2>2. StandsAt(at, n, stack, field, next)
    BY <2>1 DEF Chain, Top
  <2>3. at \in Places /\ x \in Slots /\ Len(at) = n + 1
    BY <2>1, <2>2 DEF StandsAt, Frames, Slot, Slots
  <2>4. call.at[n + 2] = x
    BY <1>1, <2>1 DEF StandsAt, Top
  <2>5. ASSUME NEW i \in 1 .. n + 1 PROVE call.at[i] = at[i]
    <3>1. CASE i \in {1, 2}
      BY <1>1, <2>2, <3>1 DEF StandsAt
    <3>2. CASE i \notin {1, 2}
      <4> DEFINE j == i - 2
      <4>1. j \in 1 .. n - 1 /\ j \in 1 .. n + 1 - 1 /\ i = j + 2
        BY <2>1, <3>2
      <4> HIDE DEF j
      <4>2. call.at[j + 2] = Slot(stack[j].branch, stack[j].next)
        BY <1>1, <4>1 DEF StandsAt
      <4>3. at[j + 2] = Slot(stack[j].branch, stack[j].next)
        BY <2>2, <4>1 DEF StandsAt
      <4> QED
        BY <4>1, <4>2, <4>3
    <3> QED
      BY <3>1, <3>2
  <2>6. Len(call.at) = n + 2
    BY <1>2
  <2> HIDE DEF at, x, n
  <2>7. /\ Append(at, x) \in Places /\ Len(Append(at, x)) = n + 2
        /\ \A i \in 1 .. n + 1 : Append(at, x)[i] = at[i]
        /\ Append(at, x)[n + 2] = x
    BY <2>1, <2>3, AppendedPlace
  <2>8. call.at = Append(at, x)
    <3>1. \A i \in 1 .. n + 2 : call.at[i] = Append(at, x)[i]
      BY <2>1, <2>4, <2>5, <2>7
    <3> QED
      BY <1>2, <2>6, <2>7, <3>1, SeqEqual DEF Places
  <2>9. IsPrefix(at, call.at)
    BY <1>2, <2>1, <2>3, <2>5, <2>6, PrefixMeans
  <2> QED
    BY <2>3, <2>4, <2>6, <2>8, <2>9 DEF at, x, n
<1> QED
  BY <1>3, <1>4

\* A loop of the innermost conditional moves on.
LEMMA ReplacedSlots ==
    ASSUME Shaped, stack # <<>>, NEW f \in Frames, f.at = Top.at, stack' = Append(Below, f),
           NEW at \in Places, EarlierSlot(at),
           \A slot \in Slots : Earlier(slot, Top) => Earlier(slot, f)
    PROVE  EarlierSlot(at)'
<1>1. /\ Len(stack) \in Nat \ {0} /\ Len(stack') = Len(stack) /\ stack' \in Seq(Frames)
      /\ stack'[Len(stack)] = f
      /\ \A k \in 1 .. Len(stack) - 1 : stack'[k] = stack[k]
  BY ReplaceTop DEF Shaped, Below
<1>2. PICK k \in DOMAIN stack :
          Len(at) > k + 1 /\ IsPrefix(stack[k].at, at) /\ Earlier(at[k + 2], stack[k])
  BY DEF EarlierSlot
<1>3. k \in DOMAIN stack' /\ k \in 1 .. Len(stack)
  BY <1>1 DEF Shaped
<1>4. stack'[k].at = stack[k].at /\ Earlier(at[k + 2], stack'[k])
  <2>1. CASE k = Len(stack)
    <3>1. at[k + 2] \in Slots
      BY <1>2, <1>3 DEF Places
    <3> QED
      BY <1>1, <1>2, <2>1, <3>1 DEF Top
  <2>2. CASE k # Len(stack)
    <3>1. k \in 1 .. Len(stack) - 1
      BY <1>1, <1>3, <2>2
    <3> QED
      BY <1>1, <1>2, <3>1
  <2> QED
    BY <2>1, <2>2
<1> QED
  BY <1>2, <1>3, <1>4 DEF EarlierSlot

\* The innermost conditional is left: what it stored is below the place returned.
LEMMA LeftSlots ==
    ASSUME Shaped, Chain, stack # <<>>, stack' = Below, call'.at = Top.at, pc' = "return",
           NEW at \in Places, EarlierSlot(at)
    PROVE  EarlierSlot(at)' \/ BelowCall(at)'
<1>1. /\ Len(stack) \in Nat \ {0} /\ Len(stack') = Len(stack) - 1 /\ stack' \in Seq(Frames)
      /\ \A k \in 1 .. Len(stack) - 1 : stack'[k] = stack[k]
  BY FrontFrames DEF Shaped, Below
<1>2. PICK k \in DOMAIN stack :
          Len(at) > k + 1 /\ IsPrefix(stack[k].at, at) /\ Earlier(at[k + 2], stack[k])
  BY DEF EarlierSlot
<1>3. k \in 1 .. Len(stack)
  BY DEF Shaped
<1>4. CASE k = Len(stack)
  <2>1. Len(Top.at) = k + 1 /\ IsPrefix(Top.at, at)
    BY <1>2, <1>4 DEF Chain, StandsAt, Top
  <2> QED
    BY <1>2, <2>1 DEF BelowCall
<1>5. CASE k # Len(stack)
  <2>1. k \in 1 .. Len(stack) - 1 /\ k \in DOMAIN stack'
    BY <1>1, <1>3, <1>5
  <2> QED
    BY <1>1, <1>2, <2>1 DEF EarlierSlot
<1> QED
  BY <1>4, <1>5

LEMMA StoredStep == Shaped /\ Chain /\ Stored /\ [Next]_vars => Stored'
<1> SUFFICES ASSUME Shaped, Chain, Stored, [Next]_vars, pc' # "done", NEW at \in linked'
             PROVE  Behind(at)'
  BY DEF Stored
<1>0. /\ stack \in Seq(Frames) /\ Len(stack) \in Nat
      /\ field \in Nat \ {0} /\ next \in Nat \ {0}
      /\ linked \subseteq Places
  BY DEF Shaped
<1>a. at \in Places
  BY ShapedStep DEF Shaped
<1>b. /\ at # <<>> => at[1].index \in Nat
      /\ Len(at) > 1 => at[2].index \in Nat /\ at # <<>>
  <2>1. at \in Seq(Slots) /\ Len(at) \in Nat /\ \A x \in Slots : x.index \in Nat
    BY <1>a DEF Places, Slots
  <2>2. at # <<>> => at[1] \in Slots
    BY <2>1
  <2>3. Len(at) > 1 => at[2] \in Slots /\ at # <<>>
    BY <2>1
  <2> QED
    BY <2>1, <2>2, <2>3
<1>c. ASSUME stack = <<>> PROVE ~EarlierSlot(at)
  BY <1>c DEF EarlierSlot
<1>d. ASSUME at \in linked, pc # "done" PROVE Behind(at)
  BY <1>d DEF Stored
<1>1. CASE RejectField \/ AbandonField \/ Finish
  BY <1>1 DEF RejectField, AbandonField, Finish
<1>2. CASE StartField
  <2>1. pc = "fields" /\ stack = <<>> /\ linked' = linked /\ field' = field
    BY <1>2 DEF StartField, Shaped
  <2>2. EarlierField(at)
    BY <1>c, <1>d, <2>1 DEF Behind, EarlierRule, BelowCall, InField
  <2> QED
    BY <2>1, <2>2 DEF Behind, EarlierField
<1>3. CASE NextRule
  <2>1. /\ pc = "rules" /\ stack = <<>> /\ linked' = linked /\ UNCHANGED <<field, next>>
        /\ pc' = "call"
    BY <1>3 DEF NextRule, Shaped, loops
  <2>2. EarlierField(at) \/ EarlierRule(at)
    BY <1>c, <1>d, <2>1 DEF Behind, BelowCall
  <2> QED
    BY <2>1, <2>2 DEF Behind, EarlierField, EarlierRule, InField
<1>4. CASE StoreField
  <2>1. /\ pc = "rules" /\ stack = <<>> /\ linked' = linked \cup {FieldAt(field)}
        /\ field' = field + 1
    BY <1>4 DEF StoreField, Shaped
  <2>2. at # <<>> /\ at[1].index <= field
    <3>1. CASE at = FieldAt(field)
      BY <1>0, <3>1 DEF FieldAt, Slot
    <3>2. CASE at \in linked
      <4>1. EarlierField(at) \/ EarlierRule(at)
        BY <1>c, <1>d, <2>1, <3>2 DEF Behind, BelowCall
      <4> QED
        BY <1>0, <1>b, <4>1 DEF EarlierField, EarlierRule, Slot
    <3> QED
      BY <2>1, <3>1, <3>2
  <2>3. at[1].index < field + 1
    BY <1>0, <1>b, <2>2
  <2> QED
    BY <2>1, <2>2, <2>3 DEF Behind, EarlierField
<1>5. CASE StoreRule
  <2>1. /\ pc = "return" /\ stack = <<>> /\ linked' = linked \cup {call.at}
        /\ field' = field /\ next' = next + 1 /\ pc' = "rules" /\ Calling
    BY <1>5 DEF StoreRule, Calling
  <2>2. /\ Len(call.at) = 2 /\ call.at[1] = Slot("field", field)
        /\ call.at[2] = Slot("rule", next) /\ call.at \in Places
    BY <2>1, CallUnder DEF Shaped
  <2>3. EarlierField(at) \/ (Len(at) > 1 /\ at[1] = Slot("field", field) /\ at[2].index <= next)
    <3>1. CASE at = call.at
      BY <1>0, <2>2, <3>1 DEF Slot
    <3>2. CASE at \in linked /\ BelowCall(at)
      <4>1. Len(at) > 2 /\ IsPrefix(call.at, at)
        BY <2>2, <3>2 DEF BelowCall
      <4>2. \A i \in 1 .. 2 : call.at[i] = at[i]
        BY <1>a, <2>2, <4>1, PrefixMeans
      <4>3. at[1] = Slot("field", field) /\ at[2] = Slot("rule", next) /\ Len(at) > 1
        BY <1>a, <2>2, <4>1, <4>2 DEF Places
      <4> QED
        BY <1>0, <4>3 DEF Slot
    <3>3. CASE at \in linked /\ ~BelowCall(at)
      <4>1. EarlierField(at) \/ EarlierRule(at)
        BY <1>c, <1>d, <2>1, <3>3 DEF Behind
      <4> QED
        BY <1>0, <1>b, <4>1 DEF EarlierRule
    <3> QED
      BY <2>1, <3>1, <3>2, <3>3
  <2>4. EarlierField(at)' \/ EarlierRule(at)'
    BY <1>0, <1>b, <2>1, <2>3 DEF EarlierField, EarlierRule, InField
  <2> QED
    BY <2>4 DEF Behind
\* The loops and the frames stay, or a frame is added.
<1>6. ASSUME pc \in {"call", "branch"}, InField', linked' = linked, UNCHANGED <<field, next>>,
             \A k \in DOMAIN stack : k \in DOMAIN stack' /\ stack'[k] = stack[k]
      PROVE  Behind(at)'
  <2>1. EarlierField(at) \/ EarlierRule(at) \/ EarlierSlot(at)
    BY <1>d, <1>6 DEF Behind, BelowCall
  <2>2. EarlierSlot(at) => EarlierSlot(at)'
    BY <1>6 DEF EarlierSlot
  <2> QED
    BY <1>6, <2>1, <2>2 DEF Behind, EarlierField, EarlierRule, InField
<1>7. CASE RejectDepth \/ RejectRule \/ RejectCondition \/ ParseLeaf
  <2>1. /\ pc = "call" /\ pc' = "return" /\ linked' = linked /\ UNCHANGED <<field, next>>
        /\ stack' = stack
    BY <1>7 DEF RejectDepth, RejectRule, RejectCondition, ParseLeaf, TooDeep, Parses, Returns,
                loops
  <2> QED
    BY <1>6, <2>1 DEF InField
<1>8. CASE OpenConditional
  <2> DEFINE frame == [at |-> call.at, given |-> call.given, depth |-> call.depth,
                       branch |-> "then", next |-> 1]
  <2>1. /\ pc = "call" /\ pc' = "branch" /\ linked' = linked /\ UNCHANGED <<field, next>>
        /\ stack' = Append(stack, frame)
    BY <1>8 DEF OpenConditional, Parses, loops
  <2>2. frame \in Frames
    BY <2>1, FrameTypes
  <2> HIDE DEF frame
  <2>3. \A k \in DOMAIN stack : k \in DOMAIN stack' /\ stack'[k] = stack[k]
    <3>1. /\ Len(stack') = Len(stack) + 1 /\ stack' \in Seq(Frames)
          /\ \A k \in 1 .. Len(stack) : stack'[k] = stack[k]
      BY <1>0, <2>1, <2>2, AppendFrame
    <3> QED
      BY <1>0, <3>1
  <2> QED
    BY <1>6, <2>1, <2>3 DEF InField
<1>9. CASE NextInner
  <2>1. /\ pc = "branch" /\ pc' = "call" /\ linked' = linked /\ UNCHANGED <<field, next>>
        /\ stack' = stack
    BY <1>9 DEF NextInner, loops
  <2> QED
    BY <1>6, <2>1 DEF InField
<1>10. CASE OpenElse
  <2> DEFINE f == [Top EXCEPT !.branch = "else", !.next = 1]
  <2>1. /\ pc = "branch" /\ pc' = pc /\ linked' = linked /\ UNCHANGED <<field, next>>
        /\ stack # <<>> /\ Top.branch = "then" /\ stack' = Append(Below, f)
    BY <1>10 DEF OpenElse, BranchDone, Shaped, loops
  <2>2. f \in Frames /\ Top \in Frames
    BY <2>1, FrameTypes
  <2>3. f.at = Top.at /\ f.branch = "else"
    BY <2>2 DEF Frames
  <2> HIDE DEF f
  <2>4. \A slot \in Slots : Earlier(slot, Top) => Earlier(slot, f)
    BY <2>1, <2>3 DEF Earlier
  <2>5. EarlierSlot(at) => EarlierSlot(at)'
    BY <1>a, <2>1, <2>2, <2>3, <2>4, ReplacedSlots
  <2>6. EarlierField(at) \/ EarlierRule(at) \/ EarlierSlot(at)
    BY <1>d, <2>1 DEF Behind, BelowCall
  <2> QED
    BY <2>1, <2>5, <2>6 DEF Behind, EarlierField, EarlierRule, InField
<1>11. CASE StoreInner
  <2> DEFINE f == [Top EXCEPT !.next = @ + 1]
             n == Len(stack)
  <2>1. /\ pc = "return" /\ pc' = "branch" /\ linked' = linked \cup {call.at}
        /\ UNCHANGED <<field, next>> /\ Calling
        /\ stack # <<>> /\ stack' = Append(Below, f)
    BY <1>11 DEF StoreInner, Calling, loops
  <2>2. f \in Frames /\ Top \in Frames
    BY <2>1, FrameTypes
  <2>3. f.at = Top.at /\ f.branch = Top.branch /\ f.next = Top.next + 1 /\ Top.next \in Nat
    BY <2>2 DEF Frames
  <2> HIDE DEF f
  <2>4. \A slot \in Slots : Earlier(slot, Top) => Earlier(slot, f)
    <3> SUFFICES ASSUME NEW slot \in Slots, Earlier(slot, Top) PROVE Earlier(slot, f)
      OBVIOUS
    <3>1. slot.index \in Nat
      BY DEF Slots
    <3> QED
      BY <2>3, <3>1 DEF Earlier
  <2>5. /\ Len(Top.at) = n + 1 /\ Len(call.at) = n + 2 /\ IsPrefix(Top.at, call.at)
        /\ call.at[n + 2] = Slot(Top.branch, Top.next) /\ call.at \in Places /\ Top.at \in Places
    BY <2>1, CallUnder DEF Shaped
  <2>6. n \in Nat \ {0} /\ n \in DOMAIN stack' /\ stack'[n] = f
    BY <1>0, <2>1, <2>2, ReplaceTop DEF Below
  <2>7. CASE at = call.at \/ BelowCall(at)
    <3>1. IsPrefix(call.at, at) /\ Len(at) > n + 1 /\ at[n + 2] = call.at[n + 2]
      <4>1. CASE at = call.at
        BY <2>5, <2>6, <4>1 DEF IsPrefix, Places
      <4>2. CASE BelowCall(at)
        <5>1. IsPrefix(call.at, at) /\ Len(at) > Len(call.at)
          BY <4>2 DEF BelowCall
        <5>2. \A i \in 1 .. n + 2 : call.at[i] = at[i]
          BY <1>a, <2>5, <5>1, PrefixMeans
        <5>3. Len(at) > n + 2 /\ Len(at) \in Nat /\ n + 2 \in 1 .. n + 2
          BY <1>a, <2>5, <2>6, <5>1 DEF Places
        <5> QED
          BY <2>6, <5>1, <5>2, <5>3
      <4> QED
        BY <2>7, <4>1, <4>2
    <3>2. IsPrefix(f.at, at)
      BY <1>a, <2>3, <2>5, <3>1, PrefixTransitive
    <3>3. Earlier(at[n + 2], f)
      BY <2>3, <2>5, <3>1 DEF Earlier, Slot
    <3>4. EarlierSlot(at)'
      BY <2>6, <3>1, <3>2, <3>3 DEF EarlierSlot
    <3> QED
      BY <3>4 DEF Behind
  <2>8. CASE at \in linked /\ ~BelowCall(at)
    <3>1. EarlierField(at) \/ EarlierRule(at) \/ EarlierSlot(at)
      BY <1>d, <2>1, <2>8 DEF Behind
    <3>2. EarlierSlot(at) => EarlierSlot(at)'
      BY <1>a, <2>1, <2>2, <2>3, <2>4, ReplacedSlots
    <3> QED
      BY <2>1, <3>1, <3>2 DEF Behind, EarlierField, EarlierRule, InField
  <2> QED
    BY <2>1, <2>7, <2>8
<1>12. CASE CloseConditional \/ AbandonConditional
  <2>1. /\ pc \in {"branch", "return"} /\ pc' = "return" /\ linked' = linked
        /\ UNCHANGED <<field, next>> /\ stack # <<>> /\ stack' = Below
        /\ call' = [at |-> Top.at, given |-> Top.given, depth |-> Top.depth]
    BY <1>12 DEF CloseConditional, AbandonConditional, BranchDone, Shaped, Returns, loops
  <2>2. call'.at = Top.at
    BY <2>1, ClosedCall
  <2>3. EarlierSlot(at) => EarlierSlot(at)' \/ BelowCall(at)'
    BY <1>a, <2>1, <2>2, LeftSlots
  <2>4. ASSUME BelowCall(at) PROVE BelowCall(at)'
    <3>1. Calling /\ IsPrefix(call.at, at) /\ Len(at) > Len(call.at)
      BY <2>4 DEF BelowCall, Calling
    <3>2. /\ IsPrefix(Top.at, call.at) /\ Len(Top.at) < Len(call.at)
          /\ Top.at \in Places /\ call.at \in Places
      BY <1>0, <2>1, <3>1, CallUnder DEF Shaped
    <3>3. IsPrefix(Top.at, at)
      BY <1>a, <3>1, <3>2, PrefixTransitive
    <3>4. Len(at) > Len(Top.at)
      BY <1>a, <3>1, <3>2 DEF Places
    <3> QED
      BY <2>1, <2>2, <3>3, <3>4 DEF BelowCall
  <2> QED
    BY <1>d, <2>1, <2>3, <2>4 DEF Behind, EarlierField, EarlierRule, InField
<1>13. CASE Returned \/ UNCHANGED vars
  <2>1. UNCHANGED vars
    BY <1>13 DEF Returned
  <2> QED
    BY <1>d, <2>1 DEF vars, Behind, EarlierField, EarlierRule, EarlierSlot, BelowCall, InField
<1> QED
  BY <1>1, <1>2, <1>3, <1>4, <1>5, <1>7, <1>8, <1>9, <1>10, <1>11, <1>12, <1>13 DEF Next, Step

-----------------------------------------------------------------------------
(* Every block has an owner, and is freed with it. *)

\* The tree of a place, of given blocks and stored places.
TreeOf(at, blocks, stored) ==
    {b \in blocks : /\ IsPrefix(at, b.at)
                    /\ \A n \in Len(at) + 1 .. Len(b.at) : SubSeq(b.at, 1, n) \in stored}

LEMMA Trees ==
    /\ \A at : Tree(at) = TreeOf(at, made, linked)
    /\ \A at : Tree(at)' = TreeOf(at, made', linked')
  BY DEF Tree, TreeOf

HasOwner(b) ==
    \/ b \in TreeOf(Table, made, linked)
    \/ pc # "fields" /\ b \in TreeOf(FieldAt(field), made, linked)
    \/ \E k \in DOMAIN stack : b \in TreeOf(stack[k].at, made, linked)
    \/ pc = "return" /\ ok /\ b \in TreeOf(call.at, made, linked)

\* OwnedMeanwhile, block by block.
LEMMA Meanwhile == OwnedMeanwhile <=> \A b \in made : b \notin freed <=> HasOwner(b)
<1> DEFINE owned == Tree(Table)
           \cup (IF pc = "fields" THEN {} ELSE Tree(FieldAt(field)))
           \cup (UNION {Tree(stack[k].at) : k \in DOMAIN stack})
           \cup (IF pc = "return" /\ ok THEN Tree(call.at) ELSE {})
<1>1. ASSUME NEW b PROVE b \in owned <=> HasOwner(b)
  BY Trees DEF HasOwner
<1>2. ASSUME NEW b, HasOwner(b) PROVE b \in made
  BY <1>2 DEF HasOwner, TreeOf
<1>3. OwnedMeanwhile <=> live = owned
  BY DEF OwnedMeanwhile
<1> HIDE DEF owned
<1>4. live = owned <=> \A b \in made : b \notin freed <=> HasOwner(b)
  BY <1>1, <1>2 DEF live
<1> QED
  BY <1>3, <1>4

\* The tree of the innermost conditional is no part of any other owner's.
LEMMA InnermostApart ==
    ASSUME Shaped, Chain, Stored, stack # <<>>
    PROVE  /\ Tree(Table) \cap Tree(Top.at) = {}
           /\ Tree(FieldAt(field)) \cap Tree(Top.at) = {}
           /\ \A k \in 1 .. Len(stack) - 1 : Tree(stack[k].at) \cap Tree(Top.at) = {}
<1> DEFINE n == Len(stack)
<1>0. stack \in Seq(Frames) /\ n \in Nat \ {0} /\ field \in Nat /\ n \in DOMAIN stack
  BY DEF Shaped
<1>1. StandsAt(Top.at, n, stack, field, next)
  BY <1>0 DEF Chain, Top
<1>2. Top.at \in Places /\ Len(Top.at) = n + 1 /\ Top.at \notin linked
  BY <1>0, <1>1, NotStored DEF StandsAt, Top
<1>3. Tree(Table) \cap Tree(Top.at) = {}
  <2>1. Table \in Places /\ Len(Table) = 0
    BY DEF Table, Places
  <2>2. IsPrefix(Table, Top.at) /\ Len(Table) < Len(Top.at)
    BY <1>0, <1>2, <2>1, PrefixMeans
  <2> QED
    BY <1>2, <2>1, <2>2, ApartTrees
<1>4. Tree(FieldAt(field)) \cap Tree(Top.at) = {}
  <2> DEFINE at == FieldAt(field)
  <2>1. at \in Places /\ Len(at) = 1 /\ at[1] = Slot("field", field)
    BY <1>0 DEF FieldAt, Slot, Slots, Places
  <2>2. Top.at[1] = Slot("field", field)
    BY <1>1 DEF StandsAt
  <2> HIDE DEF at
  <2>3. IsPrefix(at, Top.at) /\ Len(at) < Len(Top.at)
    BY <1>0, <1>2, <2>1, <2>2, PrefixMeans
  <2>4. Tree(at) \cap Tree(Top.at) = {}
    BY <1>2, <2>1, <2>3, ApartTrees
  <2> QED
    BY <2>4 DEF at
<1>5. ASSUME NEW k \in 1 .. n - 1 PROVE Tree(stack[k].at) \cap Tree(Top.at) = {}
  <2> DEFINE at == stack[k].at
  <2>1. StandsAt(at, k, stack, field, next) /\ k \in Nat
    BY <1>0, <1>5 DEF Chain
  <2>2. at \in Places /\ Len(at) = k + 1
    BY <2>1 DEF StandsAt
  <2>3. ASSUME NEW i \in 1 .. k + 1 PROVE at[i] = Top.at[i]
    <3>1. CASE i \in {1, 2}
      BY <1>1, <2>1, <3>1 DEF StandsAt
    <3>2. CASE i \notin {1, 2}
      <4> DEFINE j == i - 2
      <4>1. j \in 1 .. n - 1 /\ j \in 1 .. k - 1 /\ i = j + 2
        BY <1>0, <1>5, <3>2
      <4> HIDE DEF j
      <4>2. at[j + 2] = Slot(stack[j].branch, stack[j].next)
        BY <2>1, <4>1 DEF StandsAt
      <4>3. Top.at[j + 2] = Slot(stack[j].branch, stack[j].next)
        BY <1>1, <4>1 DEF StandsAt
      <4> QED
        BY <4>1, <4>2, <4>3
    <3> QED
      BY <3>1, <3>2
  <2>4. Len(at) < Len(Top.at)
    BY <1>0, <1>2, <1>5, <2>2
  <2> HIDE DEF at
  <2>5. IsPrefix(at, Top.at)
    <3>1. Len(at) <= Len(Top.at)
      BY <1>0, <1>2, <2>2, <2>4
    <3> QED
      BY <1>2, <2>2, <2>3, <3>1, PrefixMeans
  <2>6. Tree(at) \cap Tree(Top.at) = {}
    BY <1>2, <2>2, <2>4, <2>5, ApartTrees
  <2> QED
    BY <2>6 DEF at
<1> QED
  BY <1>3, <1>4, <1>5

\* The steps that allocate: what is new has an owner, what was there keeps its own.
LEMMA AllocatingStep ==
    ASSUME Shaped, Chain, Stored, Owned,
           StartField \/ ParseLeaf \/ OpenConditional \/ OpenElse
    PROVE  freed' = {} /\ twice' = {} /\ \A b \in made' : HasOwner(b)'
<1>0. stack \in Seq(Frames) /\ Len(stack) \in Nat /\ field \in Nat
  BY DEF Shaped
<1>1. pc \in {"fields", "call", "branch"} /\ freed = {} /\ twice = {} /\ linked' = linked
  BY DEF StartField, ParseLeaf, OpenConditional, OpenElse, Parses, BranchDone, Owned, Failing
<1>2. freed' = freed /\ twice' = twice /\ made \subseteq made'
  BY DEF StartField, ParseLeaf, OpenConditional, OpenElse, Allocate
<1>3. \A q : TreeOf(q, made, linked) \subseteq TreeOf(q, made', linked')
  BY <1>1, <1>2 DEF TreeOf
<1>4. \A b \in made : HasOwner(b)
  BY <1>1, Meanwhile DEF Owned
<1>5. CASE StartField
  <2>1. /\ pc = "fields" /\ pc' = "rules" /\ field' = field /\ stack' = stack
        /\ made' = made \cup FieldBlocks(field)
    BY <1>5 DEF StartField, Allocate
  <2>2. FieldAt(field) \in Places
    BY <1>0 DEF FieldAt, Slot, Slots, Places
  <2>3. \A b \in FieldBlocks(field) : b \in TreeOf(FieldAt(field), made', linked')
    BY <2>1, <2>2, OwnTree, Trees DEF FieldBlocks
  <2>4. FieldAt(field)' = FieldAt(field)
    BY <2>1 DEF FieldAt
  <2>5. ASSUME NEW b \in made' PROVE HasOwner(b)'
    BY <1>3, <1>4, <2>1, <2>3, <2>4 DEF HasOwner, Table
  <2> QED
    BY <1>1, <1>2, <2>5
<1>6. CASE ParseLeaf
  <2> DEFINE blocks == {Block(call.at, "struct")}
                    \cup (IF Shape[call.given] = "owning" THEN {Block(call.at, "param")} ELSE {})
  <2>1. /\ pc = "call" /\ pc' = "return" /\ ok' /\ field' = field /\ stack' = stack
        /\ call' = call /\ made' = made \cup blocks
    BY <1>6 DEF ParseLeaf, Parses, Returns, Allocate, loops
  <2>2. call.at \in Places
    BY <2>1 DEF Shaped, Calling
  <2>3. \A b \in blocks : b \in TreeOf(call.at, made', linked')
    BY <2>1, <2>2, OwnTree, Trees
  <2>4. FieldAt(field)' = FieldAt(field)
    BY <2>1 DEF FieldAt
  <2> HIDE DEF blocks
  <2>5. ASSUME NEW b \in made' PROVE HasOwner(b)'
    BY <1>3, <1>4, <2>1, <2>3, <2>4 DEF HasOwner, Table
  <2> QED
    BY <1>1, <1>2, <2>5
<1>7. CASE OpenConditional
  <2> DEFINE blocks == {Block(call.at, part) : part \in {"struct", "condition", "then"}}
             frame == [at |-> call.at, given |-> call.given, depth |-> call.depth,
                       branch |-> "then", next |-> 1]
  <2>1. /\ pc = "call" /\ pc' = "branch" /\ field' = field /\ stack' = Append(stack, frame)
        /\ made' = made \cup blocks
    BY <1>7 DEF OpenConditional, Parses, Allocate, loops
  <2>2. call.at \in Places /\ frame \in Frames /\ frame.at = call.at
    BY <2>1, FrameTypes DEF Shaped, Calling
  <2>3. \A b \in blocks : b \in TreeOf(call.at, made', linked')
    BY <2>1, <2>2, OwnTree, Trees
  <2>4. FieldAt(field)' = FieldAt(field)
    BY <2>1 DEF FieldAt
  <2> HIDE DEF blocks, frame
  <2>5. /\ Len(stack) + 1 \in DOMAIN stack' /\ stack'[Len(stack) + 1].at = call.at
        /\ \A k \in DOMAIN stack : k \in DOMAIN stack' /\ stack'[k] = stack[k]
    <3>1. /\ Len(stack') = Len(stack) + 1 /\ stack' \in Seq(Frames)
          /\ stack'[Len(stack) + 1] = frame
          /\ \A k \in 1 .. Len(stack) : stack'[k] = stack[k]
      BY <1>0, <2>1, <2>2, AppendFrame
    <3> QED
      BY <1>0, <2>2, <3>1
  <2>6. ASSUME NEW b \in made' PROVE HasOwner(b)'
    <3>1. CASE b \in blocks
      <4>1. b \in TreeOf(stack'[Len(stack) + 1].at, made', linked')
        BY <2>3, <2>5, <3>1
      <4> QED
        BY <2>5, <4>1 DEF HasOwner
    <3>2. CASE b \in made
      <4>1. HasOwner(b)
        BY <1>4, <3>2
      <4>2. ASSUME NEW k \in DOMAIN stack, b \in TreeOf(stack[k].at, made, linked) PROVE HasOwner(b)'
        BY <1>3, <2>5, <4>2 DEF HasOwner
      <4> QED
        BY <1>3, <2>1, <2>4, <4>1, <4>2 DEF HasOwner
    <3> QED
      BY <2>1, <3>1, <3>2
  <2> QED
    BY <1>1, <1>2, <2>6
<1>8. CASE OpenElse
  <2> DEFINE f == [Top EXCEPT !.branch = "else", !.next = 1]
             n == Len(stack)
  <2>1. /\ pc = "branch" /\ pc' = pc /\ stack # <<>> /\ field' = field
        /\ stack' = Append(Below, f) /\ made' = made \cup {Block(Top.at, "else")}
    BY <1>8 DEF OpenElse, BranchDone, Shaped, Allocate, loops
  <2>2. f \in Frames /\ Top \in Frames
    BY <2>1, FrameTypes
  <2>3. f.at = Top.at /\ Top.at \in Places
    BY <2>2 DEF Frames
  <2>4. FieldAt(field)' = FieldAt(field)
    BY <2>1 DEF FieldAt
  <2> HIDE DEF f
  <2>5. /\ n \in DOMAIN stack'
        /\ \A k \in DOMAIN stack : k \in DOMAIN stack' /\ stack'[k].at = stack[k].at
    <3>1. /\ Len(stack') = n /\ stack' \in Seq(Frames) /\ n \in Nat \ {0}
          /\ stack'[n] = f
          /\ \A k \in 1 .. n - 1 : stack'[k] = stack[k]
      BY <1>0, <2>1, <2>2, ReplaceTop DEF Below
    <3>2. ASSUME NEW k \in DOMAIN stack PROVE k \in DOMAIN stack' /\ stack'[k].at = stack[k].at
      <4>1. k \in 1 .. n
        BY <1>0
      <4>2. k \in DOMAIN stack'
        BY <3>1, <4>1
      <4>3. CASE k = n
        BY <2>3, <3>1, <4>2, <4>3 DEF Top
      <4>4. CASE k # n
        <5>1. k \in 1 .. n - 1
          BY <3>1, <4>1, <4>4
        <5> QED
          BY <3>1, <4>2, <5>1
      <4> QED
        BY <4>3, <4>4
    <3> QED
      BY <1>0, <3>1, <3>2
  <2>6. Block(Top.at, "else") \in TreeOf(Top.at, made', linked')
    BY <2>1, <2>3, OwnTree, Trees
  <2>7. ASSUME NEW b \in made' PROVE HasOwner(b)'
    <3>1. CASE b = Block(Top.at, "else")
      <4>1. n \in DOMAIN stack /\ stack'[n].at = Top.at
        BY <1>0, <2>1, <2>5 DEF Top
      <4>2. b \in TreeOf(stack'[n].at, made', linked')
        BY <2>6, <3>1, <4>1
      <4> QED
        BY <2>5, <4>2 DEF HasOwner
    <3>2. CASE b \in made
      <4>1. HasOwner(b)
        BY <1>4, <3>2
      <4>2. ASSUME NEW k \in DOMAIN stack, b \in TreeOf(stack[k].at, made, linked) PROVE HasOwner(b)'
        <5>1. k \in DOMAIN stack' /\ stack'[k].at = stack[k].at
          BY <2>5
        <5>2. b \in TreeOf(stack'[k].at, made', linked')
          BY <1>3, <4>2, <5>1
        <5> QED
          BY <5>1, <5>2 DEF HasOwner
      <4> QED
        BY <1>3, <2>1, <2>4, <4>1, <4>2 DEF HasOwner
    <3> QED
      BY <2>1, <3>1, <3>2
  <2> QED
    BY <1>1, <1>2, <2>7
<1> QED
  BY <1>5, <1>6, <1>7, <1>8

\* The steps that store: what the stored place owns is its owner's now.
LEMMA StoringStep ==
    ASSUME Shaped, Chain, Owned, StoreField \/ StoreRule \/ StoreInner
    PROVE  freed' = {} /\ twice' = {} /\ \A b \in made' : HasOwner(b)'
<1>0. stack \in Seq(Frames) /\ Len(stack) \in Nat /\ field \in Nat
  BY DEF Shaped
<1>1. pc # "done" /\ ~Failing /\ UNCHANGED memory
  BY DEF StoreField, StoreRule, StoreInner, Failing
<1>2. freed' = {} /\ twice' = {} /\ made' = made
  BY <1>1 DEF Owned, memory
<1>3. \A b \in made : HasOwner(b)
  BY <1>1, Meanwhile DEF Owned
<1>4. ASSUME NEW r \in Places, NEW x \in Slots, linked' = linked \cup {Append(r, x)}
      PROVE  /\ \A q : TreeOf(q, made, linked) \subseteq TreeOf(q, made', linked')
             /\ TreeOf(Append(r, x), made, linked) \subseteq TreeOf(r, made', linked')
  <2> DEFINE l == Append(r, x)
  <2>1. linked' = linked \cup {l}
    BY <1>4
  <2> HIDE DEF l
  <2>2. l = Append(r, x)
    BY DEF l
  <2>3. (\A q : Tree(q) \subseteq Tree(q)') /\ Tree(l) \subseteq Tree(r)'
    BY <1>2, <2>1, <2>2, JoinedTrees
  <2> QED
    BY <2>2, <2>3, Trees
<1>5. CASE StoreField
  <2>1. /\ pc = "rules" /\ pc' = "fields" /\ stack = <<>> /\ stack' = stack
        /\ linked' = linked \cup {FieldAt(field)}
    BY <1>5 DEF StoreField, Shaped
  <2>2. Table \in Places /\ Slot("field", field) \in Slots
    BY <1>0 DEF Table, Places, Slots, Slot
  <2>3. FieldAt(field) = Append(Table, Slot("field", field))
    BY DEF FieldAt, Table
  <2>4. TreeOf(FieldAt(field), made, linked) \subseteq TreeOf(Table, made', linked')
    BY <1>4, <2>1, <2>2, <2>3
  <2>5. TreeOf(Table, made, linked) \subseteq TreeOf(Table, made', linked')
    BY <1>4, <2>1, <2>2, <2>3
  <2>6. ASSUME NEW b \in made' PROVE HasOwner(b)'
    <3>1. b \in TreeOf(Table, made, linked) \/ b \in TreeOf(FieldAt(field), made, linked)
      BY <1>2, <1>3, <2>1 DEF HasOwner
    <3>2. b \in TreeOf(Table, made', linked')
      BY <2>4, <2>5, <3>1
    <3> QED
      BY <3>2 DEF HasOwner, Table
  <2> QED
    BY <1>2, <2>6
<1>6. CASE StoreRule
  <2>1. /\ pc = "return" /\ pc' = "rules" /\ stack = <<>> /\ stack' = stack
        /\ linked' = linked \cup {call.at} /\ field' = field /\ Calling
    BY <1>6 DEF StoreRule, Calling
  <2>2. /\ call.at = Append(FieldAt(field), Slot("rule", next))
        /\ FieldAt(field) \in Places /\ Slot("rule", next) \in Slots
    BY <2>1, CallUnder
  <2>3. TreeOf(call.at, made, linked) \subseteq TreeOf(FieldAt(field), made', linked')
    BY <1>4, <2>1, <2>2
  <2>4. \A q : TreeOf(q, made, linked) \subseteq TreeOf(q, made', linked')
    BY <1>4, <2>1, <2>2
  <2>5. FieldAt(field)' = FieldAt(field)
    BY <2>1 DEF FieldAt
  <2>6. ASSUME NEW b \in made' PROVE HasOwner(b)'
    BY <1>2, <1>3, <2>1, <2>3, <2>4, <2>5 DEF HasOwner, Table
  <2> QED
    BY <1>2, <2>6
<1>7. CASE StoreInner
  <2> DEFINE f == [Top EXCEPT !.next = @ + 1]
             n == Len(stack)
  <2>1. /\ pc = "return" /\ pc' = "branch" /\ stack # <<>> /\ stack' = Append(Below, f)
        /\ linked' = linked \cup {call.at} /\ field' = field /\ Calling
    BY <1>7 DEF StoreInner, Calling, loops
  <2>2. f \in Frames /\ Top \in Frames
    BY <2>1, FrameTypes
  <2>3. f.at = Top.at
    BY <2>2 DEF Frames
  <2> HIDE DEF f
  <2>4. /\ call.at = Append(Top.at, Slot(Top.branch, Top.next))
        /\ Top.at \in Places /\ Slot(Top.branch, Top.next) \in Slots
    BY <2>1, CallUnder
  <2>5. TreeOf(call.at, made, linked) \subseteq TreeOf(Top.at, made', linked')
    BY <1>4, <2>1, <2>4
  <2>6. \A q : TreeOf(q, made, linked) \subseteq TreeOf(q, made', linked')
    BY <1>4, <2>1, <2>4
  <2>7. FieldAt(field)' = FieldAt(field)
    BY <2>1 DEF FieldAt
  <2>8. /\ n \in DOMAIN stack' /\ stack'[n].at = Top.at
        /\ \A k \in DOMAIN stack : k \in DOMAIN stack' /\ stack'[k].at = stack[k].at
    <3>1. /\ Len(stack') = n /\ stack' \in Seq(Frames) /\ n \in Nat \ {0}
          /\ stack'[n] = f
          /\ \A k \in 1 .. n - 1 : stack'[k] = stack[k]
      BY <1>0, <2>1, <2>2, ReplaceTop DEF Below
    <3>2. ASSUME NEW k \in DOMAIN stack PROVE k \in DOMAIN stack' /\ stack'[k].at = stack[k].at
      <4>1. k \in 1 .. n
        BY <1>0
      <4>2. k \in DOMAIN stack'
        BY <3>1, <4>1
      <4>3. CASE k = n
        BY <2>3, <3>1, <4>2, <4>3 DEF Top
      <4>4. CASE k # n
        <5>1. k \in 1 .. n - 1
          BY <3>1, <4>1, <4>4
        <5> QED
          BY <3>1, <4>2, <5>1
      <4> QED
        BY <4>3, <4>4
    <3> QED
      BY <1>0, <2>3, <3>1, <3>2
  <2>9. ASSUME NEW b \in made' PROVE HasOwner(b)'
    <3>1. HasOwner(b)
      BY <1>2, <1>3
    <3>2. ASSUME NEW k \in DOMAIN stack, b \in TreeOf(stack[k].at, made, linked)
          PROVE  HasOwner(b)'
      <4>1. k \in DOMAIN stack' /\ stack'[k].at = stack[k].at
        BY <2>8
      <4>2. b \in TreeOf(stack'[k].at, made', linked')
        BY <2>6, <3>2, <4>1
      <4> QED
        BY <4>1, <4>2 DEF HasOwner
    <3>3. ASSUME b \in TreeOf(call.at, made, linked) PROVE HasOwner(b)'
      <4>1. b \in TreeOf(stack'[n].at, made', linked')
        BY <2>5, <2>8, <3>3
      <4> QED
        BY <2>8, <4>1 DEF HasOwner
    <3> QED
      BY <2>1, <2>6, <2>7, <3>1, <3>2, <3>3 DEF HasOwner
  <2> QED
    BY <1>2, <2>9
<1> QED
  BY <1>5, <1>6, <1>7

\* The innermost conditional is left: returned whole, or freed whole.
LEMMA LeavingStep ==
    ASSUME Shaped, Chain, Stored, Owned, CloseConditional \/ AbandonConditional
    PROVE  /\ twice' = {}
           /\ CloseConditional => freed' = {}
           /\ \A b \in made' : b \notin freed' <=> HasOwner(b)'
<1> DEFINE n == Len(stack)
<1>1. /\ pc \in {"branch", "return"} /\ pc' = "return" /\ field' = field /\ linked' = linked
      /\ stack # <<>> /\ stack' = Below /\ made' = made
      /\ call' = [at |-> Top.at, given |-> Top.given, depth |-> Top.depth]
  BY DEF CloseConditional, AbandonConditional, BranchDone, Shaped, Returns, loops, memory, Free
<1>2. call'.at = Top.at /\ FieldAt(field)' = FieldAt(field)
  BY <1>1, ClosedCall DEF FieldAt
<1>3. /\ n \in Nat \ {0} /\ n \in DOMAIN stack /\ DOMAIN stack = 1 .. n
      /\ DOMAIN stack' = 1 .. n - 1
      /\ \A k \in 1 .. n - 1 : stack'[k] = stack[k]
  BY <1>1, FrontFrames DEF Shaped, Below
<1>4. \A b \in made : b \notin freed <=> HasOwner(b)
  BY <1>1, Meanwhile DEF Owned
\* The conditionals in progress are those below and the innermost.
<1>5. ASSUME NEW b
      PROVE  (\E k \in DOMAIN stack : b \in TreeOf(stack[k].at, made, linked)) <=>
                \/ \E k \in DOMAIN stack' : b \in TreeOf(stack'[k].at, made', linked')
                \/ b \in TreeOf(Top.at, made, linked)
  <2>1. ASSUME NEW k \in DOMAIN stack, b \in TreeOf(stack[k].at, made, linked)
        PROVE  \/ \E j \in DOMAIN stack' : b \in TreeOf(stack'[j].at, made', linked')
               \/ b \in TreeOf(Top.at, made, linked)
    <3>1. CASE k = n
      BY <2>1, <3>1 DEF Top
    <3>2. CASE k # n
      <4>1. k \in DOMAIN stack' /\ stack'[k] = stack[k]
        BY <1>3, <3>2
      <4> QED
        BY <1>1, <2>1, <4>1
    <3> QED
      BY <3>1, <3>2
  <2>2. ASSUME NEW k \in DOMAIN stack', b \in TreeOf(stack'[k].at, made', linked')
        PROVE  \E j \in DOMAIN stack : b \in TreeOf(stack[j].at, made, linked)
    <3>1. k \in DOMAIN stack /\ stack'[k] = stack[k]
      BY <1>3
    <3> QED
      BY <1>1, <2>2, <3>1
  <2>3. ASSUME b \in TreeOf(Top.at, made, linked)
        PROVE  \E j \in DOMAIN stack : b \in TreeOf(stack[j].at, made, linked)
    BY <1>3, <2>3 DEF Top
  <2> QED
    BY <2>1, <2>2, <2>3
<1>6. CASE CloseConditional
  <2>1. ok' /\ pc = "branch" /\ UNCHANGED memory
    BY <1>6 DEF CloseConditional, Returns, BranchDone
  <2>2. freed = {} /\ freed' = {} /\ twice' = {}
    BY <2>1 DEF Owned, Failing, memory
  <2>3. ASSUME NEW b \in made PROVE HasOwner(b)'
    <3>1. HasOwner(b)
      BY <1>4, <2>2
    <3> QED
      BY <1>1, <1>2, <1>5, <2>1, <3>1 DEF HasOwner
  <2> QED
    BY <1>1, <2>2, <2>3
<1>7. CASE AbandonConditional
  <2>1. /\ pc = "return" /\ ~ok /\ ~ok' /\ freed' = freed \cup TreeOf(Top.at, made, linked)
        /\ twice' = twice \cup (TreeOf(Top.at, made, linked) \cap freed)
    BY <1>7, Trees DEF AbandonConditional, Returns, Free
  <2>2. ASSUME NEW b \in made
        PROVE  HasOwner(b) <=> HasOwner(b)' \/ b \in TreeOf(Top.at, made, linked)
    BY <1>1, <1>2, <1>5, <2>1 DEF HasOwner
  <2>3. ASSUME NEW b \in TreeOf(Top.at, made, linked) PROVE ~HasOwner(b)'
    <3>1. /\ b \notin TreeOf(Table, made, linked)
          /\ b \notin TreeOf(FieldAt(field), made, linked)
          /\ \A k \in 1 .. n - 1 : b \notin TreeOf(stack[k].at, made, linked)
      <4>1. /\ TreeOf(Table, made, linked) \cap TreeOf(Top.at, made, linked) = {}
            /\ TreeOf(FieldAt(field), made, linked) \cap TreeOf(Top.at, made, linked) = {}
            /\ \A k \in 1 .. n - 1 :
                  TreeOf(stack[k].at, made, linked) \cap TreeOf(Top.at, made, linked) = {}
        BY <1>1, InnermostApart, Trees
      <4> QED
        BY <2>3, <4>1
    <3>2. ~\E k \in DOMAIN stack' : b \in TreeOf(stack'[k].at, made', linked')
      BY <1>1, <1>3, <3>1
    <3> QED
      BY <1>1, <1>2, <2>1, <3>1, <3>2 DEF HasOwner, Table
  <2>4. TreeOf(Top.at, made, linked) \subseteq made
    BY DEF TreeOf
  <2>5. twice' = {}
    BY <1>4, <2>1, <2>2, <2>4 DEF Owned
  <2>6. \A b \in made' : b \notin freed' <=> HasOwner(b)'
    BY <1>1, <1>4, <2>1, <2>2, <2>3
  <2>7. CloseConditional => FALSE
    BY <2>1 DEF CloseConditional, BranchDone
  <2> QED
    BY <2>5, <2>6, <2>7
<1> QED
  BY <1>6, <1>7

LEMMA OwnedStep == OwnerInv /\ [Next]_vars => Owned'
<1> SUFFICES ASSUME Shaped, Chain, Stored, Owned, [Next]_vars PROVE Owned'
  BY DEF OwnerInv
<1>0. /\ Shaped' /\ stack \in Seq(Frames)
      /\ pc \in {"fields", "rules", "call", "branch", "return", "done"}
  BY ShapedStep DEF Shaped
\* While the parse runs, only the blocks matter.
<1>1. ASSUME pc' # "done", twice' = {}, \A b \in made' : b \notin freed' <=> HasOwner(b)',
             ~Failing' => freed' = {}
      PROVE  Owned'
  <2>1. OwnedMeanwhile'
    <3>1. (OwnedMeanwhile <=> \A b \in made : b \notin freed <=> HasOwner(b))'
      BY Meanwhile, PTL
    <3> QED
      BY <1>1, <3>1
  <2>2. result' = "none"
    BY <1>0, <1>1 DEF Shaped
  <2> QED
    BY <1>1, <2>1, <2>2 DEF Owned
<1>2. pc # "done" => \A b \in made : b \notin freed <=> HasOwner(b)
  BY Meanwhile DEF Owned
<1>3. pc # "done" /\ ~Failing => freed = {} /\ twice = {}
  BY DEF Owned
<1>4. CASE StartField \/ ParseLeaf \/ OpenConditional \/ OpenElse
  <2>1. pc' # "done"
    BY <1>4 DEF StartField, ParseLeaf, OpenConditional, OpenElse, Returns, BranchDone
  <2> QED
    BY <1>1, <1>4, <2>1, AllocatingStep
<1>5. CASE StoreField \/ StoreRule \/ StoreInner
  <2>1. pc' # "done"
    BY <1>5 DEF StoreField, StoreRule, StoreInner
  <2> QED
    BY <1>1, <1>5, <2>1, StoringStep
<1>6. CASE CloseConditional \/ AbandonConditional
  <2>1. pc' # "done" /\ (~Failing' => CloseConditional)
    BY <1>6 DEF CloseConditional, AbandonConditional, Returns, Failing
  <2> QED
    BY <1>1, <1>6, <2>1, LeavingStep
<1>7. CASE NextRule \/ NextInner \/ RejectDepth \/ RejectRule \/ RejectCondition
  <2>1. /\ pc \in {"rules", "branch", "call"} /\ pc' # "done" /\ UNCHANGED <<field, stack, linked>>
        /\ UNCHANGED memory /\ pc' # "fields" /\ ~(pc' = "return" /\ ok')
    BY <1>7 DEF NextRule, NextInner, RejectDepth, RejectRule, RejectCondition, TooDeep, Parses,
                Returns, loops
  <2>2. freed' = {} /\ twice' = {} /\ made' = made
    BY <1>3, <2>1 DEF Failing, memory
  <2>3. ASSUME NEW b \in made PROVE HasOwner(b)'
    <3>1. HasOwner(b)
      BY <1>2, <1>3, <2>1 DEF Failing
    <3>2. FieldAt(field)' = FieldAt(field)
      BY <2>1 DEF FieldAt
    <3> QED
      BY <2>1, <2>2, <3>1, <3>2 DEF HasOwner, Table
  <2> QED
    BY <1>1, <2>1, <2>2, <2>3
<1>8. CASE RejectField
  <2>1. /\ pc = "fields" /\ stack = <<>> /\ freed = {} /\ twice = {}
        /\ pc' = "done" /\ result' = "NULL" /\ made' = made
        /\ freed' = freed \cup Tree(Table) /\ twice' = twice \cup (Tree(Table) \cap freed)
    BY <1>3, <1>8 DEF RejectField, Shaped, Failing, Free
  <2>2. \A b \in made : b \in Tree(Table)
    BY <1>2, <2>1, Trees DEF HasOwner
  <2> QED
    BY <2>1, <2>2 DEF Owned, live
<1>9. CASE AbandonField
  <2> DEFINE freeing == Tree(FieldAt(field)) \cup Tree(Table)
  <2>1. /\ pc = "return" /\ stack = <<>> /\ ~ok
        /\ pc' = "done" /\ result' = "NULL" /\ made' = made
        /\ freed' = freed \cup freeing /\ twice' = twice \cup (freeing \cap freed)
    BY <1>9 DEF AbandonField, Free
  <2>2. \A b \in made : b \notin freed <=> b \in freeing
    BY <1>2, <2>1, Trees DEF HasOwner
  <2>3. freeing \subseteq made /\ twice = {}
    BY DEF Tree, Owned
  <2> HIDE DEF freeing
  <2> QED
    BY <2>1, <2>2, <2>3 DEF Owned, live
<1>10. CASE Finish
  <2>1. /\ pc = "fields" /\ stack = <<>> /\ freed = {} /\ twice = {}
        /\ pc' = "done" /\ result' = "table" /\ linked' = linked /\ UNCHANGED memory
    BY <1>3, <1>10 DEF Finish, Shaped, Failing
  <2>2. \A b \in made : b \in TreeOf(Table, made, linked)
    BY <1>2, <2>1 DEF HasOwner
  <2>3. made' = made /\ freed' = {} /\ twice' = {} /\ Tree(Table)' = TreeOf(Table, made, linked)
    BY <2>1, Trees DEF memory, Table
  <2>4. TreeOf(Table, made, linked) \subseteq made
    BY DEF TreeOf
  <2> QED
    BY <2>1, <2>2, <2>3, <2>4 DEF Owned, live
<1>11. CASE Returned \/ UNCHANGED vars
  <2>1. UNCHANGED vars
    BY <1>11 DEF Returned
  <2> QED
    BY <2>1 DEF vars, Owned, OwnedMeanwhile, Failing, live, Tree, FieldAt, Table
<1> QED
  BY <1>4, <1>5, <1>6, <1>7, <1>8, <1>9, <1>10, <1>11 DEF Next, Step

-----------------------------------------------------------------------------
(* The theorems. *)

\* Whatever is given, sf_parse_rules keeps its loops, the places it has stored
\* and the owners of its blocks in step.
THEOREM OwnerInvariant == Spec => []OwnerInv
<1>1. OwnerInv /\ [Next]_vars => OwnerInv'
  BY ShapedStep, ChainStep, StoredStep, OwnedStep DEF OwnerInv
<1> QED
  BY <1>1, InitInv, PTL DEF Spec

\* sf_parse_rules frees no block twice, at whatever depth of whatever
\* conditionals a rule fails.
THEOREM FreedOnce == Spec => []NoDoubleFree
<1>1. OwnerInv => NoDoubleFree
  BY DEF OwnerInv, Owned, NoDoubleFree
<1> QED
  BY <1>1, OwnerInvariant, PTL

\* sf_parse_rules leaves no block without an owner: when it fails it has freed
\* everything it allocated, when it succeeds the table owns it all.
THEOREM AllOwned == Spec => []NothingLeaks
<1>1. OwnerInv => NothingLeaks
  <2> SUFFICES ASSUME Shaped, Owned PROVE NothingLeaks
    BY DEF OwnerInv
  <2>1. CASE result = "NULL"
    BY <2>1 DEF Owned, NothingLeaks
  <2>2. CASE result = "table"
    BY <2>2 DEF Owned, NothingLeaks
  <2>3. CASE result = "none"
    BY <2>3 DEF Owned, Shaped, NothingLeaks
  <2> QED
    BY <2>1, <2>2, <2>3 DEF Owned
<1> QED
  BY <1>1, OwnerInvariant, PTL

-----------------------------------------------------------------------------
(* What is accepted, rule by rule. *)

Known(g) == Shape[g] \in {"plain", "owning", "when"}
Inner(g) == ToSet(Then[g]) \cup ToSet(Else[g])

\* A chain of rules, each in a branch of the one before.
Descends(chain, n) ==
    \A k \in 1 .. n - 1 : Shape[chain[k]] = "when" /\ chain[k + 1] \in Inner(chain[k])

\* A rule that is accepted at a depth: every rule below it, down any chain, is
\* known and no deeper than the limit.
Fine(g, d) ==
    \A n \in Nat \ {0} : \A chain \in [1 .. n -> Given] :
        chain[1] = g /\ Descends(chain, n) =>
            Known(chain[n]) /\ d + n - 1 <= MAX_RULE_PARSE_DEPTH

LEMMA InnerGiven ==
    ASSUME NEW g \in Given
    PROVE  /\ Then[g] \in Seq(Given) /\ Else[g] \in Seq(Given)
           /\ Inner(g) \subseteq Given
           /\ \A i \in DOMAIN Then[g] : Then[g][i] \in Inner(g)
           /\ \A i \in DOMAIN Else[g] : Else[g][i] \in Inner(g)
           /\ \A h \in Inner(g) : \/ \E i \in DOMAIN Then[g] : h = Then[g][i]
                                  \/ \E i \in DOMAIN Else[g] : h = Else[g][i]
<1>1. Then[g] \in Seq(Given) /\ Else[g] \in Seq(Given)
  BY ParserAssumption DEF ParserAssumption
<1> QED
  BY <1>1 DEF Inner, ToSet

\* The chains below a rule are the chains below the rules in its branches.
LEMMA FineHere ==
    ASSUME NEW g \in Given, NEW d \in Nat
    PROVE  Fine(g, d) <=> /\ Known(g) /\ d <= MAX_RULE_PARSE_DEPTH
                          /\ Shape[g] = "when" => \A h \in Inner(g) : Fine(h, d + 1)
<1>0. MAX_RULE_PARSE_DEPTH \in Nat
  BY ParserAssumption DEF ParserAssumption
<1>1. ASSUME Fine(g, d) PROVE Known(g) /\ d <= MAX_RULE_PARSE_DEPTH
  <2> DEFINE chain == [k \in 1 .. 1 |-> g]
  <2>1. chain \in [1 .. 1 -> Given] /\ chain[1] = g
    OBVIOUS
  <2>2. Descends(chain, 1)
    BY DEF Descends
  <2> HIDE DEF chain
  <2>3. 1 \in Nat \ {0}
    OBVIOUS
  <2>4. Known(chain[1]) /\ d + 1 - 1 <= MAX_RULE_PARSE_DEPTH
    BY <1>1, <2>1, <2>2, <2>3, Zenon DEF Fine
  <2> QED
    BY <1>0, <2>1, <2>4
<1>2. ASSUME Fine(g, d), Shape[g] = "when", NEW h \in Inner(g) PROVE Fine(h, d + 1)
  <2> SUFFICES ASSUME NEW n \in Nat \ {0}, NEW chain \in [1 .. n -> Given],
                      chain[1] = h, Descends(chain, n)
               PROVE  Known(chain[n]) /\ d + 1 + n - 1 <= MAX_RULE_PARSE_DEPTH
    BY DEF Fine
  <2> DEFINE longer == [k \in 1 .. n + 1 |-> IF k = 1 THEN g ELSE chain[k - 1]]
  <2>1. longer \in [1 .. n + 1 -> Given]
    OBVIOUS
  <2>2. longer[1] = g /\ longer[2] = h /\ longer[n + 1] = chain[n]
    OBVIOUS
  <2>3. \A k \in 2 .. n + 1 : longer[k] = chain[k - 1]
    OBVIOUS
  <2> HIDE DEF longer
  <2>4. Descends(longer, n + 1)
    <3> SUFFICES ASSUME NEW k \in 1 .. n
                 PROVE  Shape[longer[k]] = "when" /\ longer[k + 1] \in Inner(longer[k])
      BY DEF Descends
    <3>1. CASE k = 1
      BY <1>2, <2>2, <3>1
    <3>2. CASE k # 1
      <4>1. k - 1 \in 1 .. n - 1 /\ k \in 2 .. n + 1 /\ k + 1 \in 2 .. n + 1 /\ k + 1 - 1 = (k - 1) + 1
        BY <3>2
      <4>2. longer[k] = chain[k - 1] /\ longer[k + 1] = chain[(k - 1) + 1]
        BY <2>3, <4>1
      <4> QED
        BY <4>1, <4>2 DEF Descends
    <3> QED
      BY <3>1, <3>2
  <2>5. n + 1 \in Nat \ {0}
    OBVIOUS
  <2>6. Known(longer[n + 1]) /\ d + (n + 1) - 1 <= MAX_RULE_PARSE_DEPTH
    BY <1>2, <2>1, <2>2, <2>4, <2>5 DEF Fine
  <2> QED
    BY <2>2, <2>6
<1>3. ASSUME Known(g), d <= MAX_RULE_PARSE_DEPTH,
             Shape[g] = "when" => \A h \in Inner(g) : Fine(h, d + 1)
      PROVE  Fine(g, d)
  <2> SUFFICES ASSUME NEW n \in Nat \ {0}, NEW chain \in [1 .. n -> Given],
                      chain[1] = g, Descends(chain, n)
               PROVE  Known(chain[n]) /\ d + n - 1 <= MAX_RULE_PARSE_DEPTH
    BY DEF Fine
  <2>1. CASE n = 1
    BY <1>0, <1>3, <2>1
  <2>2. CASE n # 1
    <3> DEFINE rest == [k \in 1 .. n - 1 |-> chain[k + 1]]
    <3>1. n - 1 \in Nat \ {0} /\ rest \in [1 .. n - 1 -> Given]
      BY <2>2
    <3>2. rest[1] = chain[2] /\ rest[n - 1] = chain[n]
      BY <2>2
    <3>3. \A k \in 1 .. n - 1 : rest[k] = chain[k + 1]
      OBVIOUS
    <3> HIDE DEF rest
    <3>4. Shape[g] = "when" /\ chain[2] \in Inner(g)
      <4>1. 1 \in 1 .. n - 1 /\ 1 + 1 = 2
        BY <2>2
      <4> QED
        BY <4>1 DEF Descends
    <3>5. Descends(rest, n - 1)
      <4> SUFFICES ASSUME NEW k \in 1 .. (n - 1) - 1
                   PROVE  Shape[rest[k]] = "when" /\ rest[k + 1] \in Inner(rest[k])
        BY DEF Descends
      <4>1. k \in 1 .. n - 1 /\ k + 1 \in 1 .. n - 1
        BY <3>1
      <4>2. rest[k] = chain[k + 1] /\ rest[k + 1] = chain[(k + 1) + 1]
        BY <3>3, <4>1
      <4> QED
        BY <4>1, <4>2 DEF Descends
    <3>6. Fine(chain[2], d + 1)
      BY <1>3, <3>4
    <3>7. Known(rest[n - 1]) /\ (d + 1) + (n - 1) - 1 <= MAX_RULE_PARSE_DEPTH
      BY <3>1, <3>2, <3>5, <3>6 DEF Fine
    <3> QED
      BY <1>0, <3>2, <3>7
  <2> QED
    BY <2>1, <2>2
<1> QED
  BY <1>1, <1>2, <1>3

FieldFine(f) ==
    /\ rules[f].named /\ rules[f].isArray
    /\ \A i \in DOMAIN rules[f].rules : Fine(rules[f].rules[i], 0)

AllFine == \A f \in DOMAIN rules : FieldFine(f)

\* Acceptable looks at chains up to one rule past the limit; longer ones begin
\* with such a chain.
LEMMA AcceptableMeans == rules \in Seq(Entry) => (Acceptable <=> AllFine)
<1> SUFFICES ASSUME rules \in Seq(Entry) PROVE Acceptable <=> AllFine
  OBVIOUS
<1> DEFINE Max2 == MAX_RULE_PARSE_DEPTH + 2
<1>0. MAX_RULE_PARSE_DEPTH \in Nat
  BY ParserAssumption DEF ParserAssumption
<1>1. \A f \in DOMAIN rules : rules[f].rules \in Seq(Given)
  <2>1. \A f \in DOMAIN rules : rules[f] \in Entry
    OBVIOUS
  <2>2. \A e \in Entry : e.rules \in Seq(Given)
    BY DEF Entry
  <2> QED
    BY <2>1, <2>2
<1>2. \A f \in DOMAIN rules : \A n \in Nat \ {0} : \A chain \in [1 .. n -> Given] :
         Nested(f, chain) <=> chain[1] \in ToSet(rules[f].rules) /\ Descends(chain, n)
  <2> SUFFICES ASSUME NEW f \in DOMAIN rules, NEW n \in Nat \ {0}, NEW chain \in [1 .. n -> Given]
               PROVE  Nested(f, chain) <=> chain[1] \in ToSet(rules[f].rules) /\ Descends(chain, n)
    OBVIOUS
  <2>1. Len(chain) = n
    OBVIOUS
  <2> QED
    BY <2>1 DEF Nested, Descends, Inner
<1>3. ASSUME AllFine PROVE Acceptable
  <2> SUFFICES ASSUME NEW f \in DOMAIN rules,
                      NEW n \in 1 .. MAX_RULE_PARSE_DEPTH + 2, NEW chain \in [1 .. n -> Given],
                      Nested(f, chain)
               PROVE  /\ Shape[chain[n]] \in {"plain", "owning", "when"}
                      /\ n - 1 <= MAX_RULE_PARSE_DEPTH
    BY <1>3 DEF Acceptable, AllFine, FieldFine
  <2>1. n \in Nat \ {0} /\ chain[1] \in ToSet(rules[f].rules) /\ Descends(chain, n)
    BY <1>0, <1>2
  <2>2. PICK i \in DOMAIN rules[f].rules : chain[1] = rules[f].rules[i]
    BY <2>1 DEF ToSet
  <2>3. Fine(chain[1], 0)
    BY <1>3, <2>2 DEF AllFine, FieldFine
  <2>4. Known(chain[n]) /\ 0 + n - 1 <= MAX_RULE_PARSE_DEPTH
    BY <2>1, <2>3 DEF Fine
  <2> QED
    BY <2>1, <2>4 DEF Known
<1>4. ASSUME Acceptable PROVE AllFine
  <2> SUFFICES ASSUME NEW f \in DOMAIN rules, NEW i \in DOMAIN rules[f].rules
               PROVE  Fine(rules[f].rules[i], 0)
    BY <1>4 DEF Acceptable, AllFine, FieldFine
  <2> SUFFICES ASSUME NEW n \in Nat \ {0}, NEW chain \in [1 .. n -> Given],
                      chain[1] = rules[f].rules[i], Descends(chain, n)
               PROVE  Known(chain[n]) /\ 0 + n - 1 <= MAX_RULE_PARSE_DEPTH
    BY DEF Fine
  <2>1. chain[1] \in ToSet(rules[f].rules)
    BY <1>1 DEF ToSet
  <2>2. CASE n <= Max2
    <3>1. n \in 1 .. MAX_RULE_PARSE_DEPTH + 2
      BY <1>0, <2>2
    <3>2. Nested(f, chain)
      BY <1>2, <2>1
    <3>3. Shape[chain[n]] \in {"plain", "owning", "when"} /\ n - 1 <= MAX_RULE_PARSE_DEPTH
      BY <1>4, <3>1, <3>2 DEF Acceptable
    <3> QED
      BY <1>0, <3>3 DEF Known
  <2>3. CASE n > Max2
    <3> DEFINE first == [k \in 1 .. Max2 |-> chain[k]]
    <3>1. Max2 \in Nat \ {0} /\ Max2 \in 1 .. MAX_RULE_PARSE_DEPTH + 2
      BY <1>0
    <3>2. \A k \in 1 .. Max2 : k \in 1 .. n
      BY <1>0, <2>3
    <3>3. first \in [1 .. Max2 -> Given] /\ first[1] = chain[1]
      BY <3>1, <3>2
    <3>4. Descends(first, Max2)
      <4>1. \A k \in 1 .. Max2 - 1 : /\ k \in 1 .. n - 1 /\ k \in 1 .. Max2 /\ k + 1 \in 1 .. Max2
        BY <1>0, <2>3
      <4>2. \A k \in 1 .. Max2 - 1 : first[k] = chain[k] /\ first[k + 1] = chain[k + 1]
        BY <4>1
      <4> HIDE DEF first, Max2
      <4> QED
        BY <4>1, <4>2 DEF Descends
    <3>5. Nested(f, first)
      <4> HIDE DEF first, Max2
      <4> QED
        BY <1>2, <2>1, <3>1, <3>3, <3>4
    <3>6. Max2 - 1 <= MAX_RULE_PARSE_DEPTH
      <4> HIDE DEF first
      <4> QED
        BY <1>4, <3>1, <3>3, <3>5 DEF Acceptable
    <3> QED
      BY <1>0, <3>6
  <2> QED
    BY <1>0, <2>2, <2>3
<1> QED
  BY <1>3, <1>4

-----------------------------------------------------------------------------
(* The answers given so far are right. *)

\* The rule the loop of the k-th conditional is at; the field's own loop is the
\* zeroth.
AwaitedAt(frames, k) ==
    IF k = 0 THEN rules[field].rules[next] ELSE Branch(frames[k])[frames[k].next]

WaitsAt(frames, k) ==
    IF k = 0 THEN next \in DOMAIN rules[field].rules
             ELSE frames[k].next \in DOMAIN Branch(frames[k])

\* Every conditional in progress, and the rule that is called for, is the one
\* that the loop below it is at.
Levels ==
    /\ \A k \in DOMAIN stack :
          /\ Shape[stack[k].given] = "when"
          /\ stack[k].depth = k - 1 /\ k - 1 <= MAX_RULE_PARSE_DEPTH
          /\ WaitsAt(stack, k - 1) /\ stack[k].given = AwaitedAt(stack, k - 1)
    /\ Calling => /\ call.depth = Len(stack)
                  /\ WaitsAt(stack, Len(stack)) /\ call.given = AwaitedAt(stack, Len(stack))

\* The rules a conditional has left behind, one level below it.
PassedFine(f, k) ==
    /\ \A i \in DOMAIN Branch(f) : i < f.next => Fine(Branch(f)[i], k)
    /\ f.branch = "else" => \A i \in DOMAIN Then[f.given] : Fine(Then[f.given][i], k)

AnswersRight ==
    /\ pc # "done" => \A f \in DOMAIN rules : f < field => FieldFine(f)
    /\ InField => /\ rules[field].named /\ rules[field].isArray
                  /\ \A i \in DOMAIN rules[field].rules :
                        i < next => Fine(rules[field].rules[i], 0)
    /\ \A k \in DOMAIN stack : PassedFine(stack[k], k)
    /\ pc = "return" => call.given \in Given /\ (ok <=> Fine(call.given, call.depth))
    /\ result = "NULL" => ~AllFine
    /\ result = "table" => AllFine
    /\ result \in {"none", "NULL", "table"}

LEMMA AnswersInit == Init => Levels /\ AnswersRight
<1> SUFFICES ASSUME Init PROVE Levels /\ AnswersRight
  OBVIOUS
<1>1. /\ pc = "fields" /\ field = 1 /\ stack = <<>> /\ result = "none"
      /\ DOMAIN stack = {}
  BY DEF Init
<1>2. rules \in Seq(Entry)
  BY ParserAssumption DEF Init, ParserAssumption
<1>3. \A f \in DOMAIN rules : ~(f < 1)
  BY <1>2
<1> QED
  BY <1>1, <1>3 DEF Levels, AnswersRight, Calling, InField

LEMMA LevelsStep == Shaped /\ Levels /\ [Next]_vars => Levels'
<1> SUFFICES ASSUME Shaped, Levels, [Next]_vars PROVE Levels'
  OBVIOUS
<1>0. /\ stack \in Seq(Frames) /\ Len(stack) \in Nat /\ DOMAIN stack = 1 .. Len(stack)
      /\ MAX_RULE_PARSE_DEPTH \in Nat
  BY ParserAssumption DEF Shaped, ParserAssumption
\* The stack is left alone, and so are the loops if anything is in progress.
<1>1. ASSUME UNCHANGED <<rules, stack>>, stack # <<>> \/ Calling' => UNCHANGED <<field, next>>,
             Calling' => /\ call'.depth = Len(stack) /\ WaitsAt(stack, Len(stack))
                         /\ call'.given = AwaitedAt(stack, Len(stack))
      PROVE  Levels'
  <2>1. \A k \in DOMAIN stack : /\ WaitsAt(stack, k - 1)' <=> WaitsAt(stack, k - 1)
                                /\ AwaitedAt(stack, k - 1)' = AwaitedAt(stack, k - 1)
    BY <1>1 DEF WaitsAt, AwaitedAt
  <2>2. Calling' => /\ WaitsAt(stack, Len(stack))' <=> WaitsAt(stack, Len(stack))
                    /\ AwaitedAt(stack, Len(stack))' = AwaitedAt(stack, Len(stack))
    BY <1>1 DEF WaitsAt, AwaitedAt
  <2> QED
    BY <1>1, <2>1, <2>2 DEF Levels
<1>2. CASE RejectField
  BY <1>1, <1>2 DEF RejectField, Calling, loops
<1>3. CASE StartField
  BY <1>1, <1>3 DEF StartField, Calling, Shaped
<1>4. CASE NextRule
  <2>1. stack = <<>> /\ Len(stack) = 0
    BY <1>4 DEF NextRule, Shaped
  <2>2. call'.depth = 0 /\ call'.given = rules[field].rules[next] /\ next \in DOMAIN rules[field].rules
    BY <1>4 DEF NextRule
  <2> QED
    BY <1>1, <1>4, <2>1, <2>2 DEF NextRule, loops, WaitsAt, AwaitedAt
<1>5. CASE StoreField
  BY <1>1, <1>5 DEF StoreField, Calling, Shaped
<1>6. CASE StoreRule
  BY <1>1, <1>6 DEF StoreRule, Calling, Shaped
<1>7. CASE AbandonField \/ Finish
  BY <1>1, <1>7 DEF AbandonField, Finish, Calling, loops
<1>8. CASE RejectDepth \/ RejectRule \/ RejectCondition \/ ParseLeaf
  <2>1. pc = "call" /\ UNCHANGED <<rules, stack, field, next, call>>
    BY <1>8 DEF RejectDepth, RejectRule, RejectCondition, ParseLeaf, TooDeep, Parses, loops
  <2> QED
    BY <1>1, <2>1 DEF Levels, Calling
<1>9. CASE OpenConditional
  <2> DEFINE f == [at |-> call.at, given |-> call.given, depth |-> call.depth,
                   branch |-> "then", next |-> 1]
  <2>1. /\ pc = "call" /\ pc' = "branch" /\ stack' = Append(stack, f) /\ UNCHANGED <<rules, field, next>>
        /\ Shape[call.given] = "when" /\ ~(call.depth > MAX_RULE_PARSE_DEPTH)
    BY <1>9 DEF OpenConditional, Parses, TooDeep, loops
  <2>2. f \in Frames
    BY <2>1, FrameTypes
  <2>3. f.given = call.given /\ f.depth = call.depth
    OBVIOUS
  <2> HIDE DEF f
  <2>4. /\ Len(stack') = Len(stack) + 1 /\ stack'[Len(stack) + 1] = f
        /\ \A k \in 1 .. Len(stack) : stack'[k] = stack[k]
        /\ DOMAIN stack' = 1 .. Len(stack) + 1
    BY <2>1, <2>2, AppendFrame
  <2>5. \A k \in 0 .. Len(stack) : /\ WaitsAt(stack, k)' <=> WaitsAt(stack, k)
                                   /\ AwaitedAt(stack, k)' = AwaitedAt(stack, k)
    BY <1>0, <2>1, <2>4 DEF WaitsAt, AwaitedAt, Branch
  <2>6. /\ call.depth = Len(stack) /\ WaitsAt(stack, Len(stack))
        /\ call.given = AwaitedAt(stack, Len(stack))
    BY <2>1 DEF Levels, Calling
  <2>7. ASSUME NEW k \in 1 .. Len(stack) + 1
        PROVE  /\ Shape[stack'[k].given] = "when"
               /\ stack'[k].depth = k - 1 /\ k - 1 <= MAX_RULE_PARSE_DEPTH
               /\ WaitsAt(stack, k - 1)' /\ stack'[k].given = AwaitedAt(stack, k - 1)'
    <3>1. k - 1 \in 0 .. Len(stack)
      BY <1>0
    <3>2. CASE k = Len(stack) + 1
      BY <1>0, <2>1, <2>3, <2>4, <2>5, <2>6, <3>1, <3>2
    <3>3. CASE k # Len(stack) + 1
      <4>1. k \in DOMAIN stack
        BY <1>0, <3>3
      <4> QED
        BY <1>0, <2>4, <2>5, <3>1, <4>1 DEF Levels
    <3> QED
      BY <3>2, <3>3
  <2>8. ~Calling'
    BY <2>1 DEF Calling
  <2> QED
    BY <2>4, <2>7, <2>8 DEF Levels
<1>10. CASE NextInner
  <2>1. /\ Len(stack) # 0 /\ Top = stack[Len(stack)] /\ Len(stack) \in DOMAIN stack
    BY <1>0, <1>10 DEF NextInner, Shaped, Top
  <2>2. /\ call'.depth = Top.depth + 1 /\ call'.given = Branch(Top)[Top.next]
        /\ Top.next \in DOMAIN Branch(Top) /\ UNCHANGED <<rules, stack, field, next>>
    BY <1>10 DEF NextInner, loops
  <2>3. Top.depth = Len(stack) - 1
    BY <2>1 DEF Levels
  <2> QED
    BY <1>0, <1>1, <2>1, <2>2, <2>3 DEF WaitsAt, AwaitedAt
\* The loop of the innermost conditional moves on.
<1>11. ASSUME NEW f \in Frames, stack # <<>>, stack' = Append(Below, f),
              f.given = Top.given, f.depth = Top.depth, pc' = "branch",
              UNCHANGED <<rules, field, next>>
       PROVE  Levels'
  <2>1. /\ Len(stack') = Len(stack) /\ stack'[Len(stack)] = f
        /\ \A k \in 1 .. Len(stack) - 1 : stack'[k] = stack[k]
        /\ DOMAIN stack' = 1 .. Len(stack)
    <3>1. /\ stack' \in Seq(Frames) /\ Len(stack') = Len(stack) /\ stack'[Len(stack)] = f
          /\ \A k \in 1 .. Len(stack) - 1 : stack'[k] = stack[k]
      <4>1. stack' = Append(Front(stack), f) /\ stack # <<>>
        BY <1>11 DEF Below
      <4> QED
        BY <1>0, <4>1, ReplaceTop
    <3>2. DOMAIN stack' = 1 .. Len(stack')
      BY <3>1
    <3> QED
      BY <3>1, <3>2
  <2>2. ASSUME NEW k \in 0 .. Len(stack) - 1
        PROVE  /\ WaitsAt(stack, k)' <=> WaitsAt(stack, k)
               /\ AwaitedAt(stack, k)' = AwaitedAt(stack, k)
    <3>1. CASE k = 0
      BY <1>11, <3>1 DEF WaitsAt, AwaitedAt
    <3>2. CASE k # 0
      <4>1. stack'[k] = stack[k]
        BY <1>0, <2>1, <3>2
      <4> QED
        BY <3>2, <4>1 DEF WaitsAt, AwaitedAt, Branch
    <3> QED
      BY <3>1, <3>2
  <2>a. \A k \in 1 .. Len(stack) : k # Len(stack) => k \in 1 .. Len(stack) - 1
    <3>1. \A n \in Nat : \A k \in 1 .. n : k # n => k \in 1 .. n - 1
      OBVIOUS
    <3> QED
      BY <1>0, <3>1
  <2>3. ASSUME NEW k \in 1 .. Len(stack)
        PROVE  /\ Shape[stack'[k].given] = "when"
               /\ stack'[k].depth = k - 1 /\ k - 1 <= MAX_RULE_PARSE_DEPTH
               /\ WaitsAt(stack, k - 1)' /\ stack'[k].given = AwaitedAt(stack, k - 1)'
    <3>1. k - 1 \in 0 .. Len(stack) - 1 /\ k \in DOMAIN stack
      BY <1>0
    <3>2. stack'[k].given = stack[k].given /\ stack'[k].depth = stack[k].depth
      <4>1. CASE k = Len(stack)
        BY <1>11, <2>1, <4>1 DEF Top
      <4>2. CASE k # Len(stack)
        <5>1. k \in 1 .. Len(stack) - 1
          BY <2>a, <4>2
        <5>2. stack'[k] = stack[k]
          BY <2>1, <5>1
        <5> QED
          BY <5>2
      <4> QED
        BY <4>1, <4>2
    <3> QED
      BY <2>2, <3>1, <3>2 DEF Levels
  <2>4. ~Calling'
    BY <1>11 DEF Calling
  <2> QED
    BY <2>1, <2>3, <2>4 DEF Levels
<1>12. CASE OpenElse
  <2>1. /\ stack # <<>> /\ pc' = "branch" /\ UNCHANGED <<rules, field, next>>
        /\ stack' = Append(Below, [Top EXCEPT !.branch = "else", !.next = 1])
    BY <1>12 DEF OpenElse, BranchDone, Shaped, loops
  <2>2. Top \in Frames /\ [Top EXCEPT !.branch = "else", !.next = 1] \in Frames
    BY <2>1, FrameTypes
  <2>3. /\ [Top EXCEPT !.branch = "else", !.next = 1].given = Top.given
        /\ [Top EXCEPT !.branch = "else", !.next = 1].depth = Top.depth
    BY <2>2 DEF Frames
  <2> QED
    BY <1>11, <2>1, <2>2, <2>3
<1>13. CASE StoreInner
  <2>1. /\ stack # <<>> /\ pc' = "branch" /\ UNCHANGED <<rules, field, next>>
        /\ stack' = Append(Below, [Top EXCEPT !.next = @ + 1])
    BY <1>13 DEF StoreInner, loops
  <2>2. Top \in Frames /\ [Top EXCEPT !.next = @ + 1] \in Frames
    BY <2>1, FrameTypes
  <2>3. /\ [Top EXCEPT !.next = @ + 1].given = Top.given
        /\ [Top EXCEPT !.next = @ + 1].depth = Top.depth
    BY <2>2 DEF Frames
  <2> QED
    BY <1>11, <2>1, <2>2, <2>3
\* The innermost conditional returns.
<1>14. CASE CloseConditional \/ AbandonConditional
  <2>1. /\ stack # <<>> /\ stack' = Front(stack) /\ UNCHANGED <<rules, field, next>>
        /\ call' = [at |-> Top.at, given |-> Top.given, depth |-> Top.depth]
    BY <1>14 DEF CloseConditional, AbandonConditional, BranchDone, Shaped, loops, Below
  <2>2. /\ Len(stack') = Len(stack) - 1 /\ Len(stack) \in Nat \ {0}
        /\ \A k \in 1 .. Len(stack) - 1 : stack'[k] = stack[k]
        /\ DOMAIN stack' = 1 .. Len(stack) - 1
    <3>1. /\ stack' \in Seq(Frames) /\ Len(stack') = Len(stack) - 1 /\ Len(stack) \in Nat \ {0}
          /\ \A k \in 1 .. Len(stack) - 1 : stack'[k] = stack[k]
      BY <1>0, <2>1, FrontFrames
    <3>2. DOMAIN stack' = 1 .. Len(stack')
      BY <3>1
    <3> QED
      BY <3>1, <3>2
  <2>3. \A k \in 0 .. Len(stack) - 1 : /\ WaitsAt(stack, k)' <=> WaitsAt(stack, k)
                                       /\ AwaitedAt(stack, k)' = AwaitedAt(stack, k)
    BY <1>0, <2>1, <2>2 DEF WaitsAt, AwaitedAt, Branch
  <2>4. \A k \in 1 .. Len(stack) - 1 :
               /\ Shape[stack'[k].given] = "when"
               /\ stack'[k].depth = k - 1 /\ k - 1 <= MAX_RULE_PARSE_DEPTH
               /\ WaitsAt(stack, k - 1)' /\ stack'[k].given = AwaitedAt(stack, k - 1)'
    <3> SUFFICES ASSUME NEW k \in 1 .. Len(stack) - 1
                 PROVE  /\ Shape[stack[k].given] = "when"
                        /\ stack[k].depth = k - 1 /\ k - 1 <= MAX_RULE_PARSE_DEPTH
                        /\ WaitsAt(stack, k - 1)' /\ stack[k].given = AwaitedAt(stack, k - 1)'
      BY <2>2
    <3>1. k - 1 \in 0 .. Len(stack) - 1 /\ k \in DOMAIN stack
      BY <1>0
    <3> QED
      BY <2>3, <3>1 DEF Levels
  <2>5. call'.given = stack[Len(stack)].given /\ call'.depth = stack[Len(stack)].depth
    BY <2>1 DEF Top
  <2>6. /\ call'.depth = Len(stack) - 1
        /\ WaitsAt(stack, Len(stack) - 1) /\ call'.given = AwaitedAt(stack, Len(stack) - 1)
    BY <1>0, <2>2, <2>5 DEF Levels
  <2>7. Len(stack') \in 0 .. Len(stack) - 1 /\ Len(stack') = Len(stack) - 1
    BY <2>2
  <2>8. /\ call'.depth = Len(stack')
        /\ WaitsAt(stack, Len(stack))' /\ call'.given = AwaitedAt(stack, Len(stack))'
    BY <2>3, <2>6, <2>7
  <2> QED
    BY <2>2, <2>4, <2>8 DEF Levels
<1>15. CASE Returned \/ UNCHANGED vars
  BY <1>1, <1>15 DEF Returned, vars, Levels, Calling
<1> QED
  BY <1>2, <1>3, <1>4, <1>5, <1>6, <1>7, <1>8, <1>9, <1>10, <1>12, <1>13, <1>14, <1>15
     DEF Next, Step

\* What the innermost conditional left behind and is at makes up the answer for it.
LEMMA TopFine ==
    ASSUME Shaped, Levels, AnswersRight, stack # <<>>
    PROVE  /\ Top.given \in Given /\ Top.depth \in Nat /\ Top.depth + 1 = Len(stack)
           /\ pc = "return" /\ ~ok => ~Fine(Top.given, Top.depth)
           /\ BranchDone /\ (Top.branch = "else" \/ Top.given \notin HasElse)
                 => Fine(Top.given, Top.depth)
           /\ pc = "return" /\ ok => Fine(Branch(Top)[Top.next], Len(stack))
           /\ BranchDone => \A i \in DOMAIN Branch(Top) : Fine(Branch(Top)[i], Len(stack))
<1>1. /\ Top \in Frames /\ Top = stack[Len(stack)] /\ Len(stack) \in DOMAIN stack
      /\ Len(stack) \in Nat \ {0}
  BY FrameTypes DEF Shaped, Top
<1>2. /\ Shape[Top.given] = "when" /\ Top.depth + 1 = Len(stack) /\ Top.depth \in Nat
      /\ Top.depth <= MAX_RULE_PARSE_DEPTH /\ Top.given \in Given
  BY <1>1, ParserAssumption DEF Levels, Frames, ParserAssumption
<1>3. PassedFine(Top, Len(stack))
  BY <1>1 DEF AnswersRight
<1>4. Branch(Top) \in Seq(Given) /\ \A i \in DOMAIN Branch(Top) : Branch(Top)[i] \in Inner(Top.given)
  BY <1>2, InnerGiven DEF Branch
<1>5. Fine(Top.given, Top.depth) <=> \A h \in Inner(Top.given) : Fine(h, Len(stack))
  BY <1>2, FineHere DEF Known
<1>6. pc = "return" => /\ Top.next \in DOMAIN Branch(Top)
                       /\ call.given = Branch(Top)[Top.next] /\ call.depth = Len(stack)
                       /\ ok <=> Fine(call.given, call.depth)
  BY <1>1 DEF Levels, Calling, WaitsAt, AwaitedAt, AnswersRight
<1>7. BranchDone => \A i \in DOMAIN Branch(Top) : i < Top.next
  <2> SUFFICES ASSUME BranchDone, NEW i \in DOMAIN Branch(Top) PROVE i < Top.next
    OBVIOUS
  <2>1. Top.next \in Nat \ {0} /\ Top.next \notin 1 .. Len(Branch(Top)) /\ Len(Branch(Top)) \in Nat
    BY <1>1, <1>4 DEF BranchDone, Frames
  <2>2. i \in 1 .. Len(Branch(Top))
    BY <1>4
  <2> QED
    BY <2>1, <2>2
<1>8. BranchDone => \A i \in DOMAIN Branch(Top) : Fine(Branch(Top)[i], Len(stack))
  BY <1>3, <1>7 DEF PassedFine
<1>9. ASSUME BranchDone, Top.branch = "else" \/ Top.given \notin HasElse,
             NEW h \in Inner(Top.given)
      PROVE  Fine(h, Len(stack))
  <2>1. \A i \in DOMAIN Then[Top.given] : Fine(Then[Top.given][i], Len(stack))
    <3>1. CASE Top.branch = "else"
      BY <1>3, <3>1 DEF PassedFine
    <3>2. CASE Top.branch # "else"
      <4>1. Branch(Top) = Then[Top.given]
        BY <1>1, <3>2 DEF Frames, Branch
      <4> QED
        BY <1>8, <1>9, <4>1
    <3> QED
      BY <3>1, <3>2
  <2>2. \A i \in DOMAIN Else[Top.given] : Fine(Else[Top.given][i], Len(stack))
    <3>1. CASE Top.branch = "else"
      <4>1. Branch(Top) = Else[Top.given]
        BY <3>1 DEF Branch
      <4> QED
        BY <1>8, <1>9, <4>1
    <3>2. CASE Top.branch # "else"
      <4>1. Else[Top.given] = <<>>
        BY <1>2, <1>9, <3>2, ParserAssumption DEF ParserAssumption
      <4> QED
        BY <4>1
    <3> QED
      BY <3>1, <3>2
  <2> QED
    BY <1>2, <2>1, <2>2, InnerGiven
<1>10. ASSUME pc = "return", ~ok PROVE ~Fine(Top.given, Top.depth)
  BY <1>4, <1>5, <1>6, <1>10
<1> QED
  BY <1>2, <1>5, <1>6, <1>8, <1>9, <1>10

\* What a call of parse_single_rule_with_depth may answer at once.
LEMMA CallFine ==
    ASSUME Shaped, pc = "call"
    PROVE  /\ call.given \in Given
           /\ TooDeep => ~Fine(call.given, call.depth)
           /\ Shape[call.given] \in {"invalid", "unconditioned"} => ~Fine(call.given, call.depth)
           /\ ~TooDeep /\ Shape[call.given] \in {"plain", "owning"} => Fine(call.given, call.depth)
<1>1. call.given \in Given /\ call.depth \in Nat /\ MAX_RULE_PARSE_DEPTH \in Nat
  BY ParserAssumption DEF Shaped, ParserAssumption
<1>2. Fine(call.given, call.depth)
        <=> /\ Known(call.given) /\ call.depth <= MAX_RULE_PARSE_DEPTH
            /\ Shape[call.given] = "when" => \A h \in Inner(call.given) : Fine(h, call.depth + 1)
  BY <1>1, FineHere
<1> QED
  BY <1>1, <1>2 DEF TooDeep, Known

\* A step that touches neither the loops nor the stack keeps what they left behind.
LEMMA QuietAnswers ==
    ASSUME Shaped, AnswersRight, UNCHANGED <<rules, field, next, stack>>, pc # "done", pc' # "done",
           InField' => InField, result' = "none",
           pc' = "return" => call'.given \in Given /\ (ok' <=> Fine(call'.given, call'.depth))
    PROVE  AnswersRight'
  BY DEF AnswersRight, FieldFine, PassedFine, Branch

LEMMA AnswersStep == Shaped /\ Levels /\ AnswersRight /\ [Next]_vars => AnswersRight'
<1> SUFFICES ASSUME Shaped, Levels, AnswersRight, [Next]_vars PROVE AnswersRight'
  OBVIOUS
<1>0. /\ stack \in Seq(Frames) /\ Len(stack) \in Nat /\ DOMAIN stack = 1 .. Len(stack)
      /\ rules \in Seq(Entry) /\ DOMAIN rules = 1 .. Len(rules) /\ Len(rules) \in Nat
      /\ field \in Nat /\ next \in Nat
  BY DEF Shaped
<1>1. \A f \in DOMAIN rules : /\ rules[f].rules \in Seq(Given)
                              /\ DOMAIN rules[f].rules = 1 .. Len(rules[f].rules)
                              /\ Len(rules[f].rules) \in Nat
  <2>1. \A f \in DOMAIN rules : rules[f] \in Entry
    BY <1>0
  <2>2. \A e \in Entry : e.rules \in Seq(Given)
    BY DEF Entry
  <2> QED
    BY <2>1, <2>2
<1>2. CASE RejectField
  <2>1. /\ field \in DOMAIN rules /\ ~(rules[field].named /\ rules[field].isArray)
        /\ pc' = "done" /\ result' = "NULL" /\ stack' = stack /\ rules' = rules /\ stack = <<>>
    BY <1>2 DEF RejectField, Shaped
  <2>2. ~AllFine'
    BY <2>1 DEF AllFine, FieldFine
  <2> QED
    BY <2>1, <2>2 DEF AnswersRight, InField
<1>3. CASE StartField
  <2>1. /\ field \in DOMAIN rules /\ rules[field].named /\ rules[field].isArray
        /\ pc = "fields" /\ pc' = "rules" /\ next' = 1 /\ stack = <<>>
        /\ UNCHANGED <<rules, field, stack, result>>
    BY <1>3 DEF StartField, Shaped
  <2>2. \A i \in DOMAIN rules[field].rules : ~(i < 1)
    BY <1>1, <2>1
  <2>3. result = "none"
    BY <2>1 DEF Shaped
  <2> QED
    BY <2>1, <2>2, <2>3 DEF AnswersRight, InField, FieldFine
<1>4. CASE NextRule
  <2>1. pc = "rules" /\ pc' = "call" /\ UNCHANGED <<rules, field, next, stack, result>>
    BY <1>4 DEF NextRule, loops
  <2> QED
    BY <2>1, QuietAnswers DEF InField, Shaped
<1>5. CASE StoreField
  <2>1. /\ pc = "rules" /\ pc' = "fields" /\ field' = field + 1 /\ stack = <<>>
        /\ next \notin DOMAIN rules[field].rules
        /\ UNCHANGED <<rules, next, stack, result>>
    BY <1>5 DEF StoreField, Shaped
  <2>2. field \in DOMAIN rules /\ next \in Nat \ {0} /\ result = "none"
    BY <2>1 DEF Shaped, InField
  <2>3. \A i \in DOMAIN rules[field].rules : i < next
    BY <1>1, <2>1, <2>2
  <2>4. FieldFine(field)
    BY <2>1, <2>3 DEF AnswersRight, InField, FieldFine
  <2>5. \A f \in DOMAIN rules : f < field + 1 => FieldFine(f)
    <3>1. \A f \in DOMAIN rules : f < field + 1 => f < field \/ f = field
      BY <1>0
    <3> QED
      BY <2>1, <2>4, <3>1 DEF AnswersRight
  <2> QED
    BY <2>1, <2>2, <2>5 DEF AnswersRight, InField, FieldFine
<1>6. CASE StoreRule
  <2>1. /\ pc = "return" /\ pc' = "rules" /\ ok /\ stack = <<>> /\ next' = next + 1
        /\ UNCHANGED <<rules, field, stack, result>>
    BY <1>6 DEF StoreRule
  <2>2. /\ call.given = rules[field].rules[next] /\ call.depth = 0
        /\ Fine(call.given, call.depth) /\ result = "none"
    BY <2>1 DEF Levels, AwaitedAt, Calling, AnswersRight, Shaped
  <2>3. \A i \in DOMAIN rules[field].rules : i < next + 1 => i < next \/ i = next
    <3>1. field \in DOMAIN rules
      BY <2>1 DEF Shaped, InField
    <3> QED
      BY <1>0, <1>1, <3>1
  <2>4. \A i \in DOMAIN rules[field].rules : i < next' => Fine(rules[field].rules[i], 0)
    BY <2>1, <2>2, <2>3 DEF AnswersRight, InField
  <2> QED
    BY <2>1, <2>2, <2>4 DEF AnswersRight, InField, FieldFine
<1>7. CASE AbandonField
  <2>1. /\ pc = "return" /\ pc' = "done" /\ ~ok /\ stack = <<>> /\ result' = "NULL"
        /\ UNCHANGED <<rules, stack>>
    BY <1>7 DEF AbandonField
  <2>2. /\ call.given = rules[field].rules[next] /\ call.depth = 0
        /\ next \in DOMAIN rules[field].rules
        /\ ~Fine(call.given, call.depth) /\ field \in DOMAIN rules
    BY <2>1 DEF Levels, WaitsAt, AwaitedAt, Calling, AnswersRight, Shaped, InField
  <2>3. ~AllFine'
    BY <2>1, <2>2 DEF AllFine, FieldFine
  <2> QED
    BY <2>1, <2>3 DEF AnswersRight, InField
<1>8. CASE Finish
  <2>1. /\ pc = "fields" /\ pc' = "done" /\ stack = <<>> /\ result' = "table"
        /\ field \notin DOMAIN rules /\ UNCHANGED <<rules, stack>>
    BY <1>8 DEF Finish, Shaped
  <2>2. \A f \in DOMAIN rules : f < field
    <3>1. field \in Nat \ {0}
      BY DEF Shaped
    <3> QED
      BY <1>0, <2>1, <3>1
  <2>3. AllFine'
    BY <2>1, <2>2 DEF AnswersRight, AllFine, FieldFine
  <2> QED
    BY <2>1, <2>3 DEF AnswersRight, InField
<1>9. CASE RejectDepth \/ RejectRule \/ RejectCondition
  <2>1. /\ pc = "call" /\ pc' = "return" /\ ok' = FALSE /\ UNCHANGED <<rules, field, next, stack, call, result>>
        /\ TooDeep \/ Shape[call.given] \in {"invalid", "unconditioned"}
    BY <1>9 DEF RejectDepth, RejectRule, RejectCondition, TooDeep, Parses, Returns, loops
  <2>2. call'.given \in Given /\ (ok' <=> Fine(call'.given, call'.depth)) /\ result = "none"
    BY <2>1, CallFine DEF Shaped
  <2> QED
    BY <2>1, <2>2, QuietAnswers DEF InField
<1>10. CASE ParseLeaf
  <2>1. /\ pc = "call" /\ pc' = "return" /\ ok' = TRUE /\ UNCHANGED <<rules, field, next, stack, call, result>>
        /\ ~TooDeep /\ Shape[call.given] \in {"plain", "owning"}
    BY <1>10 DEF ParseLeaf, Parses, Returns, loops
  <2>2. call'.given \in Given /\ (ok' <=> Fine(call'.given, call'.depth)) /\ result = "none"
    BY <2>1, CallFine DEF Shaped
  <2> QED
    BY <2>1, <2>2, QuietAnswers DEF InField
<1>11. CASE OpenConditional
  <2> DEFINE f == [at |-> call.at, given |-> call.given, depth |-> call.depth,
                   branch |-> "then", next |-> 1]
  <2>1. /\ pc = "call" /\ pc' = "branch" /\ stack' = Append(stack, f)
        /\ UNCHANGED <<rules, field, next, result>>
    BY <1>11 DEF OpenConditional, Parses, loops
  <2>2. f \in Frames
    BY <2>1, FrameTypes
  <2>3. PassedFine(f, Len(stack) + 1)
    <3>1. f.branch = "then" /\ f.next = 1 /\ f.given = call.given /\ call.given \in Given
      BY <2>1 DEF Shaped
    <3> HIDE DEF f
    <3>2. Branch(f) \in Seq(Given)
      BY <3>1, InnerGiven DEF Branch
    <3>3. \A i \in DOMAIN Branch(f) : ~(i < 1)
      BY <3>2
    <3> QED
      BY <3>1, <3>3 DEF PassedFine
  <2> HIDE DEF f
  <2>4. /\ stack' \in Seq(Frames) /\ Len(stack') = Len(stack) + 1 /\ stack'[Len(stack) + 1] = f
        /\ \A k \in 1 .. Len(stack) : stack'[k] = stack[k]
    BY <2>1, <2>2, <1>0, AppendFrame
  <2>5. \A k \in DOMAIN stack' : PassedFine(stack'[k], k)
    <3>1. \A k \in DOMAIN stack' : k \in DOMAIN stack \/ k = Len(stack) + 1
      BY <1>0, <2>4
    <3> QED
      BY <1>0, <2>3, <2>4, <3>1 DEF AnswersRight
  <2>6. result = "none"
    BY <2>1 DEF Shaped
  <2> QED
    BY <2>1, <2>5, <2>6 DEF AnswersRight, InField, FieldFine, PassedFine, Branch
<1>12. CASE NextInner
  <2>1. pc = "branch" /\ pc' = "call" /\ UNCHANGED <<rules, field, next, stack, result>>
    BY <1>12 DEF NextInner, loops
  <2> QED
    BY <2>1, QuietAnswers DEF InField, Shaped
\* The innermost conditional moves on to what it has answers for.
<1>13. ASSUME NEW f \in Frames, stack # <<>>, stack' = Append(Below, f),
              PassedFine(f, Len(stack)), pc \in {"branch", "return"}, pc' = "branch",
              UNCHANGED <<rules, field, next, result>>
       PROVE  AnswersRight'
  <2>1. /\ stack' \in Seq(Frames) /\ Len(stack') = Len(stack) /\ stack'[Len(stack)] = f
        /\ \A k \in 1 .. Len(stack) - 1 : stack'[k] = stack[k]
    <3>1. stack' = Append(Front(stack), f) /\ stack # <<>>
      BY <1>13 DEF Below
    <3> QED
      BY <1>0, <3>1, ReplaceTop
  <2>2. \A k \in DOMAIN stack' : PassedFine(stack'[k], k)
    <3>1. DOMAIN stack' = 1 .. Len(stack')
      BY <2>1
    <3>2. DOMAIN stack' = 1 .. Len(stack)
      BY <2>1, <3>1
    <3>3. \A k \in DOMAIN stack' : k \in DOMAIN stack /\ (k \in 1 .. Len(stack) - 1 \/ k = Len(stack))
      BY <1>0, <3>2
    <3> QED
      BY <1>13, <2>1, <3>3 DEF AnswersRight
  <2>3. result = "none"
    BY <1>13 DEF Shaped
  <2> QED
    BY <1>13, <2>2, <2>3 DEF AnswersRight, InField, FieldFine, PassedFine, Branch
<1>14. CASE OpenElse
  <2> DEFINE f == [Top EXCEPT !.branch = "else", !.next = 1]
  <2>1. /\ BranchDone /\ stack # <<>> /\ pc = "branch" /\ pc' = "branch" /\ Top.branch = "then"
        /\ UNCHANGED <<rules, field, next, result>> /\ stack' = Append(Below, f)
    BY <1>14 DEF OpenElse, BranchDone, Shaped, loops
  <2>2. Top \in Frames /\ f \in Frames
    BY <2>1, FrameTypes
  <2>3. f.branch = "else" /\ f.next = 1 /\ f.given = Top.given
    BY <2>2 DEF Frames
  <2> HIDE DEF f
  <2>4. Top.given \in Given /\ \A i \in DOMAIN Branch(Top) : Fine(Branch(Top)[i], Len(stack))
    BY <2>1, TopFine
  <2>5. \A i \in DOMAIN Then[Top.given] : Fine(Then[Top.given][i], Len(stack))
    BY <2>1, <2>4 DEF Branch
  <2>6. \A i \in DOMAIN Branch(f) : ~(i < 1)
    <3>1. Branch(f) \in Seq(Given)
      BY <2>3, <2>4, InnerGiven DEF Branch
    <3> QED
      BY <3>1
  <2>7. PassedFine(f, Len(stack))
    BY <2>3, <2>5, <2>6 DEF PassedFine
  <2> QED
    BY <1>13, <2>1, <2>2, <2>7
<1>15. CASE StoreInner
  <2> DEFINE f == [Top EXCEPT !.next = @ + 1]
  <2>1. /\ stack # <<>> /\ pc = "return" /\ ok /\ pc' = "branch"
        /\ UNCHANGED <<rules, field, next, result>> /\ stack' = Append(Below, f)
    BY <1>15 DEF StoreInner, loops
  <2>2. Top \in Frames /\ f \in Frames
    BY <2>1, FrameTypes
  <2>3. f.branch = Top.branch /\ f.next = Top.next + 1 /\ f.given = Top.given /\ Top.next \in Nat
    BY <2>2 DEF Frames
  <2> HIDE DEF f
  <2>4. Branch(f) = Branch(Top) /\ Top.given \in Given
    BY <2>1, <2>3, TopFine DEF Branch
  <2>5. Fine(Branch(Top)[Top.next], Len(stack))
    BY <2>1, TopFine
  <2>6. PassedFine(Top, Len(stack))
    <3>1. Top = stack[Len(stack)] /\ Len(stack) \in DOMAIN stack
      BY <1>0, <2>1 DEF Top
    <3> QED
      BY <3>1 DEF AnswersRight
  <2>7. \A i \in DOMAIN Branch(Top) : i < Top.next + 1 => i < Top.next \/ i = Top.next
    <3>1. Branch(Top) \in Seq(Given)
      BY <2>4, InnerGiven DEF Branch
    <3>2. DOMAIN Branch(Top) \subseteq Nat
      BY <3>1
    <3> QED
      BY <2>3, <3>2
  <2>8. PassedFine(f, Len(stack))
    BY <2>3, <2>4, <2>5, <2>6, <2>7 DEF PassedFine
  <2> QED
    BY <1>13, <2>1, <2>2, <2>8
<1>16. CASE CloseConditional \/ AbandonConditional
  <2>1. /\ stack # <<>> /\ stack' = Front(stack) /\ UNCHANGED <<rules, field, next, result>>
        /\ call' = [at |-> Top.at, given |-> Top.given, depth |-> Top.depth]
        /\ pc \in {"branch", "return"} /\ pc' = "return"
    BY <1>16 DEF CloseConditional, AbandonConditional, BranchDone, Shaped, loops, Below, Returns
  <2>2. call'.given \in Given /\ (ok' <=> Fine(call'.given, call'.depth))
    <3>1. call'.given = Top.given /\ call'.depth = Top.depth
      BY <2>1
    <3>2. CASE CloseConditional
      <4>1. BranchDone /\ (Top.branch = "else" \/ Top.given \notin HasElse) /\ ok' = TRUE
        BY <3>2 DEF CloseConditional, Returns
      <4> QED
        BY <2>1, <3>1, <4>1, TopFine
    <3>3. CASE AbandonConditional
      <4>1. pc = "return" /\ ~ok /\ ok' = FALSE
        BY <3>3 DEF AbandonConditional, Returns
      <4> QED
        BY <2>1, <3>1, <4>1, TopFine
    <3> QED
      BY <1>16, <3>2, <3>3
  <2>3. \A k \in DOMAIN stack' : k \in DOMAIN stack /\ stack'[k] = stack[k]
    <3>1. /\ stack' \in Seq(Frames) /\ Len(stack') = Len(stack) - 1 /\ Len(stack) \in Nat \ {0}
          /\ \A k \in 1 .. Len(stack) - 1 : stack'[k] = stack[k]
      BY <1>0, <2>1, FrontFrames
    <3>2. DOMAIN stack' = 1 .. Len(stack')
      BY <3>1
    <3> QED
      BY <1>0, <3>1, <3>2
  <2>4. result = "none"
    BY <2>1 DEF Shaped
  <2> QED
    BY <2>1, <2>2, <2>3, <2>4 DEF AnswersRight, InField, FieldFine, PassedFine, Branch
<1>17. CASE Returned \/ UNCHANGED vars
  <2>1. UNCHANGED vars
    BY <1>17 DEF Returned
  <2> QED
    BY <2>1 DEF vars, AnswersRight, AllFine, InField, FieldFine, PassedFine, Branch
<1> QED
  BY <1>2, <1>3, <1>4, <1>5, <1>6, <1>7, <1>8, <1>9, <1>10, <1>11, <1>12, <1>14, <1>15, <1>16, <1>17
     DEF Next, Step

\* sf_parse_rules returns a table for the rules arrays that are acceptable, of
\* any size and nested to any depth, and NULL for all others.
THEOREM AcceptsRight == Spec => []AcceptsExactly
<1> DEFINE Inv == Levels /\ AnswersRight
<1>1. Init => Inv
  BY AnswersInit
<1>2. Shaped /\ Inv /\ [Next]_vars => Inv'
  BY LevelsStep, AnswersStep
<1>3. Shaped /\ Inv => AcceptsExactly
  <2> SUFFICES ASSUME Shaped, AnswersRight, pc = "done" PROVE result = "table" <=> Acceptable
    BY DEF AcceptsExactly
  <2>1. Acceptable <=> AllFine
    BY AcceptableMeans DEF Shaped
  <2>2. result # "none"
    BY DEF Shaped
  <2> QED
    BY <2>1, <2>2 DEF AnswersRight
<1>4. Spec => []Shaped
  <2>1. OwnerInv => Shaped
    BY DEF OwnerInv
  <2> QED
    BY <2>1, OwnerInvariant, PTL
<1> HIDE DEF Inv
<1> QED
  BY <1>1, <1>2, <1>3, <1>4, PTL DEF Spec

-----------------------------------------------------------------------------
(* The rule given at a place, slot by slot. *)

\* The walk to a place, as far as its n-th slot.
WalkIs(w, m, first, at) ==
    w = [n \in 2 .. m |-> IF n = 2 THEN first ELSE InSlot(w[n - 1], at[n])]

LEMMA WalkExists ==
    ASSUME NEW first, NEW at, NEW m \in Nat
    PROVE  \E w : WalkIs(w, m, first, at)
<1> DEFINE S == {n \in Nat : \E w : WalkIs(w, n, first, at)}
<1>1. 0 \in S
  <2> DEFINE w == [n \in 2 .. 0 |-> first]
  <2>1. 2 .. 0 = {}
    OBVIOUS
  <2>2. WalkIs(w, 0, first, at)
    BY <2>1 DEF WalkIs
  <2> QED
    BY <2>2
<1>2. ASSUME NEW n \in Nat, n \in S PROVE n + 1 \in S
  <2> SUFFICES \E h : WalkIs(h, n + 1, first, at)
    OBVIOUS
  <2>1. PICK w : WalkIs(w, n, first, at)
    BY <1>2
  <2> DEFINE Next1(i) == IF i = 2 THEN first ELSE InSlot(w[i - 1], at[i])
             h == [i \in 2 .. n + 1 |-> Next1(i)]
  <2>2. \A i \in 2 .. n : w[i] = Next1(i)
    BY <2>1 DEF WalkIs
  <2>3. \A i \in 3 .. n + 1 : h[i - 1] = w[i - 1]
    <3> SUFFICES ASSUME NEW i \in 3 .. n + 1 PROVE h[i - 1] = w[i - 1]
      OBVIOUS
    <3>1. i - 1 \in 2 .. n /\ i - 1 \in 2 .. n + 1
      OBVIOUS
    <3>2. h[i - 1] = Next1(i - 1)
      BY <3>1
    <3> HIDE DEF h, Next1
    <3> QED
      BY <2>2, <3>1, <3>2
  <2>4. \A i \in 2 .. n + 1 :
           h[i] = IF i = 2 THEN first ELSE InSlot(h[i - 1], at[i])
    <3> SUFFICES ASSUME NEW i \in 2 .. n + 1
                 PROVE  h[i] = IF i = 2 THEN first ELSE InSlot(h[i - 1], at[i])
      OBVIOUS
    <3>1. CASE i = 2
      BY <3>1
    <3>2. CASE i # 2
      <4>1. i \in 3 .. n + 1 /\ h[i] = InSlot(w[i - 1], at[i])
        BY <3>2
      <4> HIDE DEF h
      <4> QED
        BY <2>3, <3>2, <4>1
    <3> QED
      BY <3>1, <3>2
  <2>5. h = [i \in 2 .. n + 1 |-> h[i]]
    OBVIOUS
  <2> HIDE DEF h
  <2>6. WalkIs(h, n + 1, first, at)
    BY <2>4, <2>5 DEF WalkIs
  <2> QED
    BY <2>6
<1> HIDE DEF S
<1>3. m \in S
  BY <1>1, <1>2, AllNaturals
<1> QED
  BY <1>3 DEF S

\* Two walks agree as far as both go, if their places do.
LEMMA WalksAgree ==
    ASSUME NEW first, NEW at, NEW bt, NEW m \in Nat, NEW n \in Nat, m <= n,
           \A i \in 2 .. m : at[i] = bt[i],
           NEW w, WalkIs(w, m, first, at), NEW v, WalkIs(v, n, first, bt)
    PROVE  \A i \in 2 .. m : w[i] = v[i]
<1> DEFINE S == {i \in Nat : i \in 2 .. m => w[i] = v[i]}
<1>0. /\ \A i \in 2 .. m : w[i] = IF i = 2 THEN first ELSE InSlot(w[i - 1], at[i])
      /\ \A i \in 2 .. n : v[i] = IF i = 2 THEN first ELSE InSlot(v[i - 1], bt[i])
  BY DEF WalkIs
<1>1. 0 \in S
  OBVIOUS
<1>2. ASSUME NEW i \in Nat, i \in S PROVE i + 1 \in S
  <2> SUFFICES ASSUME i + 1 \in 2 .. m PROVE w[i + 1] = v[i + 1]
    OBVIOUS
  <2>1. i + 1 \in 2 .. n /\ (i + 1) - 1 = i
    OBVIOUS
  <2>2. CASE i + 1 = 2
    BY <1>0, <2>1, <2>2
  <2>3. CASE i + 1 # 2
    <3>1. w[i] = v[i]
      BY <1>2, <2>3
    <3> QED
      BY <1>0, <2>1, <2>3, <3>1
  <2> QED
    BY <2>2, <2>3
<1> HIDE DEF S
<1>3. \A i \in Nat : i \in S
  BY <1>1, <1>2, AllNaturals
<1> QED
  BY <1>3 DEF S

\* GivenAt, of a rules array.
GivenIn(array, at) ==
    LET Walk[n \in 2 .. Len(at)] ==
            IF n = 2 THEN array[at[1].index].rules[at[2].index]
                     ELSE InSlot(Walk[n - 1], at[n])
    IN  Walk[Len(at)]

LEMMA GivenThere == ASSUME NEW at PROVE GivenAt(at) = GivenIn(rules, at)
  BY DEF GivenAt, GivenIn

\* It is such a walk.
LEMMA GivenWalk ==
    ASSUME NEW array, NEW at \in Places
    PROVE  \E w : /\ WalkIs(w, Len(at), array[at[1].index].rules[at[2].index], at)
                  /\ GivenIn(array, at) = w[Len(at)]
<1> DEFINE first == array[at[1].index].rules[at[2].index]
           w == CHOOSE w : WalkIs(w, Len(at), first, at)
<1>1. GivenIn(array, at) = w[Len(at)]
  BY DEF GivenIn, WalkIs
<1>2. \E v : WalkIs(v, Len(at), first, at)
  <2>1. Len(at) \in Nat
    BY DEF Places
  <2> QED
    BY <2>1, WalkExists
<1>3. WalkIs(w, Len(at), first, at)
  <2> HIDE DEF first
  <2> QED
    BY <1>2
<1> HIDE DEF w
<1> QED
  BY <1>1, <1>3

LEMMA GivenRule ==
    ASSUME NEW array, NEW f \in Nat, NEW i \in Nat
    PROVE  GivenIn(array, RuleAt(f, i)) = array[f].rules[i]
<1> DEFINE at == RuleAt(f, i)
<1>1. at \in Places /\ Len(at) = 2 /\ at[1].index = f /\ at[2].index = i
  BY DEF RuleAt, Slot, Places, Slots
<1> HIDE DEF at
<1>2. PICK w : /\ WalkIs(w, Len(at), array[at[1].index].rules[at[2].index], at)
               /\ GivenIn(array, at) = w[Len(at)]
  BY <1>1, GivenWalk
<1>3. w[2] = array[at[1].index].rules[at[2].index]
  <2>1. 2 \in 2 .. Len(at)
    BY <1>1
  <2> QED
    BY <1>2, <2>1 DEF WalkIs
<1> QED
  BY <1>1, <1>2, <1>3 DEF at

LEMMA GivenInner ==
    ASSUME NEW array, NEW at \in Places, Len(at) >= 2, NEW s \in Slots
    PROVE  GivenIn(array, Append(at, s)) = InSlot(GivenIn(array, at), s)
<1> DEFINE bt == Append(at, s)
           n == Len(at)
<1>1. /\ bt \in Places /\ Len(bt) = n + 1 /\ bt[n + 1] = s
      /\ \A i \in 1 .. n : bt[i] = at[i]
  BY AppendedPlace
<1>2. n \in Nat /\ n >= 2
  BY DEF Places
<1> HIDE DEF bt, n
<1> DEFINE first == array[at[1].index].rules[at[2].index]
<1>3. first = array[bt[1].index].rules[bt[2].index]
  <2>1. 1 \in 1 .. n /\ 2 \in 1 .. n
    BY <1>2
  <2> QED
    BY <1>1, <2>1
<1> HIDE DEF first
<1>4. PICK w : WalkIs(w, n, first, at) /\ GivenIn(array, at) = w[n]
  BY GivenWalk DEF first, n
<1>5. PICK v : WalkIs(v, n + 1, first, bt) /\ GivenIn(array, bt) = v[n + 1]
  BY <1>1, <1>3, GivenWalk DEF first
<1>6. v[n + 1] = InSlot(v[n], bt[n + 1])
  <2>1. n + 1 \in 2 .. n + 1 /\ n + 1 # 2 /\ (n + 1) - 1 = n
    BY <1>2
  <2> QED
    BY <1>5, <2>1 DEF WalkIs
<1>7. w[n] = v[n]
  <2>1. /\ n + 1 \in Nat /\ n <= n + 1 /\ n \in 2 .. n
        /\ \A i \in 2 .. n : i \in 1 .. n
    BY <1>2
  <2>2. \A i \in 2 .. n : at[i] = bt[i]
    BY <1>1, <2>1
  <2> QED
    BY <1>2, <1>4, <1>5, <2>1, <2>2, WalksAgree
<1> QED
  BY <1>1, <1>4, <1>5, <1>6, <1>7 DEF bt

-----------------------------------------------------------------------------
(* What is stored is all there. *)

Whole(places, at, g) ==
    Shape[g] = "when" => /\ \A i \in DOMAIN Then[g] : Append(at, Slot("then", i)) \in places
                         /\ \A i \in DOMAIN Else[g] : Append(at, Slot("else", i)) \in places

\* The rules a conditional has left behind are stored in it.
PassedKept(places, f) ==
    /\ \A i \in DOMAIN Branch(f) : i < f.next => Append(f.at, Slot(f.branch, i)) \in places
    /\ f.branch = "else" =>
          \A i \in DOMAIN Then[f.given] : Append(f.at, Slot("then", i)) \in places

FieldKept(f) == \A i \in DOMAIN rules[f].rules : RuleAt(f, i) \in linked

AllKept ==
    /\ pc # "done" => \A f \in DOMAIN rules : f < field => FieldKept(f)
    /\ result = "table" => \A f \in DOMAIN rules : FieldKept(f)
    /\ InField => \A i \in DOMAIN rules[field].rules : i < next => RuleAt(field, i) \in linked
    /\ \A k \in DOMAIN stack : PassedKept(linked, stack[k]) /\ GivenIn(rules, stack[k].at) = stack[k].given
    /\ Calling => GivenIn(rules, call.at) = call.given
    /\ pc = "return" /\ ok => Whole(linked, call.at, call.given)
    /\ \A at \in linked : Len(at) > 1 => Whole(linked, at, GivenIn(rules, at))

\* The innermost conditional, and the places in it.
LEMMA TopKept ==
    ASSUME Shaped, Levels, Chain, AllKept, stack # <<>>
    PROVE  /\ Top \in Frames /\ Top = stack[Len(stack)] /\ Len(stack) \in DOMAIN stack
           /\ PassedKept(linked, Top) /\ GivenIn(rules, Top.at) = Top.given /\ Len(Top.at) >= 2
           /\ Shape[Top.given] = "when" /\ Then[Top.given] \in Seq(Given) /\ Else[Top.given] \in Seq(Given)
           /\ BranchDone => \A i \in DOMAIN Branch(Top) : Append(Top.at, Slot(Top.branch, i)) \in linked
           /\ BranchDone /\ (Top.branch = "else" \/ Top.given \notin HasElse) => Whole(linked, Top.at, Top.given)
           /\ pc = "return" => call.at = Append(Top.at, Slot(Top.branch, Top.next))
<1>1. /\ Top \in Frames /\ Top = stack[Len(stack)] /\ Len(stack) \in DOMAIN stack
      /\ Len(stack) \in Nat \ {0}
  BY FrameTypes DEF Shaped, Top
<1>2. PassedKept(linked, Top) /\ GivenIn(rules, Top.at) = Top.given /\ Shape[Top.given] = "when"
  BY <1>1 DEF AllKept, Levels
<1>3. Top.given \in Given /\ Then[Top.given] \in Seq(Given) /\ Else[Top.given] \in Seq(Given)
  BY <1>1, InnerGiven DEF Frames
<1>4. StandsAt(Top.at, Len(stack), stack, field, next)
  BY <1>1 DEF Chain
<1>5. Len(Top.at) >= 2
  BY <1>1, <1>4 DEF StandsAt
<1>6. BranchDone => \A i \in DOMAIN Branch(Top) : Append(Top.at, Slot(Top.branch, i)) \in linked
  <2> SUFFICES ASSUME BranchDone, NEW i \in DOMAIN Branch(Top) PROVE i < Top.next
    BY <1>2 DEF PassedKept
  <2>1. Branch(Top) \in Seq(Given)
    BY <1>3 DEF Branch
  <2>2. Top.next \in Nat \ {0} /\ Top.next \notin 1 .. Len(Branch(Top)) /\ Len(Branch(Top)) \in Nat
    BY <1>1, <2>1 DEF BranchDone, Frames
  <2>3. i \in 1 .. Len(Branch(Top))
    BY <2>1
  <2> QED
    BY <2>2, <2>3
<1>7. ASSUME BranchDone, Top.branch = "else" \/ Top.given \notin HasElse PROVE Whole(linked, Top.at, Top.given)
  <2>1. CASE Top.branch = "else"
    BY <1>2, <1>6, <1>7, <2>1 DEF PassedKept, Whole, Branch
  <2>2. CASE Top.branch # "else"
    <3>1. Top.branch = "then"
      BY <1>1, <2>2 DEF Frames
    <3>2. DOMAIN Else[Top.given] = {}
      <4>1. Else[Top.given] = <<>>
        BY <1>3, <1>7, <2>2, ParserAssumption DEF ParserAssumption
      <4> QED
        BY <4>1
    <3> QED
      BY <1>6, <1>7, <3>1, <3>2 DEF Whole, Branch
  <2> QED
    BY <2>1, <2>2
<1>8. pc = "return" => call.at = Append(Top.at, Slot(Top.branch, Top.next))
  BY CallUnder DEF Calling
<1> QED
  BY <1>1, <1>2, <1>3, <1>5, <1>6, <1>7, <1>8

LEMMA KeptInit == Init => AllKept
<1> SUFFICES ASSUME Init PROVE AllKept
  OBVIOUS
<1>1. /\ pc = "fields" /\ field = 1 /\ stack = <<>> /\ result = "none" /\ linked = {}
      /\ DOMAIN stack = {}
  BY DEF Init
<1>2. rules \in Seq(Entry)
  BY ParserAssumption DEF Init, ParserAssumption
<1>3. \A f \in DOMAIN rules : ~(f < 1)
  BY <1>2
<1> QED
  BY <1>1, <1>3 DEF AllKept, Calling, InField

LEMMA ReplacedTop ==
    ASSUME NEW s \in Seq(Frames), s # <<>>, NEW f \in Frames, NEW t, t = Append(Front(s), f)
    PROVE  /\ t \in Seq(Frames) /\ Len(t) = Len(s) /\ t[Len(s)] = f
           /\ \A k \in 1 .. Len(s) - 1 : t[k] = s[k]
           /\ DOMAIN t = 1 .. Len(s)
<1>1. /\ t \in Seq(Frames) /\ Len(t) = Len(s) /\ t[Len(s)] = f
      /\ \A k \in 1 .. Len(s) - 1 : t[k] = s[k]
  BY ReplaceTop
<1>2. DOMAIN t = 1 .. Len(t)
  BY <1>1
<1> QED
  BY <1>1, <1>2

\* What is stored stays stored.
LEMMA KeptStays ==
    ASSUME NEW less, NEW more, less \subseteq more
    PROVE  /\ \A at, g : Whole(less, at, g) => Whole(more, at, g)
           /\ \A f : PassedKept(less, f) => PassedKept(more, f)
  BY DEF Whole, PassedKept

\* A step that touches neither the loops nor the stack.
LEMMA QuietKept ==
    ASSUME Shaped, AllKept, UNCHANGED <<rules, field, next, stack, linked>>,
           pc # "done", InField' => InField, result' # "table",
           Calling' => GivenIn(rules, call'.at) = call'.given,
           pc' = "return" /\ ok' => Whole(linked, call'.at, call'.given)
    PROVE  AllKept'
  BY DEF AllKept, FieldKept

\* The innermost conditional moves on to what it has stored.
LEMMA MovedKept ==
    ASSUME Shaped, AllKept, NEW f \in Frames, stack # <<>>, stack' = Append(Below, f),
           f.at = Top.at, f.given = Top.given, rules' = rules, linked \subseteq linked',
           PassedKept(linked', f), pc \in {"branch", "return"}, pc' = "branch",
           UNCHANGED <<field, next, result>>,
           \A at \in linked' \ linked : Whole(linked', at, GivenIn(rules, at))
    PROVE  AllKept'
<1>0. /\ stack \in Seq(Frames) /\ Len(stack) \in Nat /\ DOMAIN stack = 1 .. Len(stack)
      /\ stack' = Append(Front(stack), f) /\ stack # <<>>
  BY DEF Shaped, Below
<1>1. /\ \A at, g : Whole(linked, at, g) => Whole(linked', at, g)
      /\ \A g : PassedKept(linked, g) => PassedKept(linked', g)
  BY KeptStays
<1>2. /\ stack' \in Seq(Frames) /\ Len(stack') = Len(stack) /\ stack'[Len(stack)] = f
      /\ \A k \in 1 .. Len(stack) - 1 : stack'[k] = stack[k]
      /\ DOMAIN stack' = 1 .. Len(stack)
  BY <1>0, ReplacedTop, Zenon
<1>3. ASSUME NEW k \in DOMAIN stack'
      PROVE  PassedKept(linked', stack'[k]) /\ GivenIn(rules, stack'[k].at) = stack'[k].given
  <2>1. DOMAIN stack' = 1 .. Len(stack)
    BY <1>2
  <2>2. k \in DOMAIN stack /\ (k \in 1 .. Len(stack) - 1 \/ k = Len(stack))
    <3>1. \A n \in Nat : \A i \in 1 .. n : i \in 1 .. n - 1 \/ i = n
      OBVIOUS
    <3> QED
      BY <1>0, <2>1, <3>1
  <2>3. CASE k = Len(stack)
    <3>1. stack'[k] = f /\ stack[k] = Top
      BY <1>2, <2>3 DEF Top
    <3>2. GivenIn(rules, Top.at) = Top.given
      BY <2>2, <3>1 DEF AllKept
    <3> QED
      BY <3>1, <3>2
  <2>4. CASE k \in 1 .. Len(stack) - 1
    <3>1. stack'[k] = stack[k]
      BY <1>2, <2>4
    <3> QED
      BY <1>1, <2>2, <3>1 DEF AllKept
  <2> QED
    BY <2>2, <2>3, <2>4
<1>4. \A at \in linked' : Len(at) > 1 => Whole(linked', at, GivenIn(rules, at))
  BY <1>1 DEF AllKept
<1>5. result' = "none"
  BY DEF Shaped
<1>6. InField /\ pc # "done" /\ InField' /\ ~Calling'
  BY DEF InField, Calling
<1> QED
  BY <1>3, <1>4, <1>5, <1>6 DEF AllKept, FieldKept

LEMMA KeptStep == Shaped /\ Levels /\ Chain /\ AllKept /\ [Next]_vars => AllKept'
<1> SUFFICES ASSUME Shaped, Levels, Chain, AllKept, [Next]_vars PROVE AllKept'
  OBVIOUS
<1>0. /\ stack \in Seq(Frames) /\ Len(stack) \in Nat /\ DOMAIN stack = 1 .. Len(stack)
      /\ rules \in Seq(Entry) /\ DOMAIN rules = 1 .. Len(rules) /\ Len(rules) \in Nat
      /\ field \in Nat \ {0} /\ next \in Nat \ {0}
      /\ \A f \in DOMAIN rules : /\ DOMAIN rules[f].rules = 1 .. Len(rules[f].rules)
                                 /\ Len(rules[f].rules) \in Nat
  <2>1. rules \in Seq(Entry) /\ \A e \in Entry : e.rules \in Seq(Given)
    BY DEF Shaped, Entry
  <2>2. \A f \in DOMAIN rules : rules[f].rules \in Seq(Given)
    BY <2>1
  <2> QED
    BY <2>1, <2>2 DEF Shaped
<1>1. CASE RejectField
  BY <1>1 DEF RejectField, Shaped, AllKept, InField, Calling, loops
<1>2. CASE StartField
  <2>1. /\ field \in DOMAIN rules /\ pc = "fields" /\ pc' = "rules" /\ next' = 1 /\ stack = <<>>
        /\ UNCHANGED <<rules, field, stack, linked, result>>
    BY <1>2 DEF StartField, Shaped
  <2>2. \A i \in DOMAIN rules[field].rules : ~(i < 1)
    BY <1>0, <2>1
  <2>3. result = "none"
    BY <2>1 DEF Shaped
  <2> QED
    BY <2>1, <2>2, <2>3 DEF AllKept, InField, Calling, FieldKept
<1>3. CASE NextRule
  <2>1. /\ pc = "rules" /\ pc' = "call" /\ UNCHANGED <<rules, field, next, stack, linked, result>>
        /\ call' = [at |-> RuleAt(field, next), given |-> rules[field].rules[next], depth |-> 0]
    BY <1>3 DEF NextRule, loops
  <2>2. call'.at = RuleAt(field, next) /\ call'.given = rules[field].rules[next]
    BY <2>1
  <2>3. GivenIn(rules, call'.at) = call'.given
    BY <1>0, <2>2, GivenRule
  <2> QED
    BY <2>1, <2>3, QuietKept DEF InField, Shaped
<1>4. CASE StoreField
  <2>1. /\ pc = "rules" /\ pc' = "fields" /\ field' = field + 1 /\ stack = <<>>
        /\ next \notin DOMAIN rules[field].rules /\ linked' = linked \cup {FieldAt(field)}
        /\ UNCHANGED <<rules, next, stack, result>>
    BY <1>4 DEF StoreField, Shaped
  <2>2. field \in DOMAIN rules /\ result = "none"
    BY <2>1 DEF Shaped, InField
  <2>3. \A i \in DOMAIN rules[field].rules : i < next
    BY <1>0, <2>1, <2>2
  <2>4. \A f \in DOMAIN rules : f < field + 1 => FieldKept(f)
    <3>1. FieldKept(field)
      BY <2>1, <2>3 DEF AllKept, InField, FieldKept
    <3>2. \A f \in DOMAIN rules : f < field + 1 => f < field \/ f = field
      BY <1>0
    <3> QED
      BY <2>1, <3>1, <3>2 DEF AllKept
  <2>5. \A at \in linked' : Len(at) > 1 => Whole(linked', at, GivenIn(rules, at))
    <3>1. ~(Len(FieldAt(field)) > 1)
      BY DEF FieldAt
    <3> QED
      BY <2>1, <3>1, KeptStays DEF AllKept
  <2>6. \A f \in DOMAIN rules' : f < field' => FieldKept(f)'
    BY <2>1, <2>4 DEF FieldKept
  <2>7. \A k \in DOMAIN stack' : FALSE
    BY <2>1
  <2>8. ~InField' /\ ~Calling' /\ pc' # "return" /\ result' # "table" /\ rules' = rules
    BY <2>1, <2>2 DEF InField, Calling
  <2> QED
    BY <2>5, <2>6, <2>7, <2>8 DEF AllKept
<1>5. CASE StoreRule
  <2>1. /\ pc = "return" /\ pc' = "rules" /\ ok /\ stack = <<>> /\ next' = next + 1
        /\ linked' = linked \cup {call.at} /\ UNCHANGED <<rules, field, stack, result>>
    BY <1>5 DEF StoreRule
  <2>2. call.at = RuleAt(field, next)
    <3>1. /\ call.at \in Places /\ Len(call.at) = 2
          /\ call.at[1] = Slot("field", field) /\ call.at[2] = Slot("rule", next)
      BY <2>1, CallUnder DEF Calling, Shaped
    <3>2. /\ RuleAt(field, next) \in Places /\ Len(RuleAt(field, next)) = 2
          /\ RuleAt(field, next)[1] = Slot("field", field)
          /\ RuleAt(field, next)[2] = Slot("rule", next)
      BY <1>0 DEF RuleAt, Slot, Places, Slots
    <3> QED
      BY <3>1, <3>2, SeqEqual DEF Places
  <2>3. GivenIn(rules, call.at) = call.given /\ Whole(linked, call.at, call.given) /\ result = "none"
    BY <2>1 DEF AllKept, Calling, Shaped
  <2>4. \A at \in linked' : Len(at) > 1 => Whole(linked', at, GivenIn(rules, at))
    BY <2>1, <2>3, KeptStays DEF AllKept
  <2>5. \A i \in DOMAIN rules[field].rules : i < next + 1 => RuleAt(field, i) \in linked'
    <3>1. field \in DOMAIN rules
      BY <2>1 DEF Shaped, InField
    <3>2. \A i \in DOMAIN rules[field].rules : i < next + 1 => i < next \/ i = next
      BY <1>0, <3>1
    <3> QED
      BY <2>1, <2>2, <3>2 DEF AllKept, InField
  <2> QED
    BY <2>1, <2>3, <2>4, <2>5 DEF AllKept, InField, Calling, FieldKept
<1>6. CASE AbandonField
  BY <1>6 DEF AbandonField, AllKept, InField, Calling, loops
<1>7. CASE Finish
  <2>1. /\ pc = "fields" /\ pc' = "done" /\ stack = <<>> /\ field \notin DOMAIN rules
        /\ UNCHANGED <<rules, stack, linked>>
    BY <1>7 DEF Finish, Shaped
  <2>2. \A f \in DOMAIN rules : f < field
    BY <1>0, <2>1
  <2>3. \A f \in DOMAIN rules : FieldKept(f)
    BY <2>1, <2>2 DEF AllKept
  <2> QED
    BY <2>1, <2>3 DEF AllKept, FieldKept, InField, Calling
<1>8. CASE RejectDepth \/ RejectRule \/ RejectCondition \/ ParseLeaf
  <2>1. /\ pc = "call" /\ pc' = "return" /\ UNCHANGED <<rules, field, next, stack, linked, call, result>>
        /\ ok' => Shape[call.given] \in {"plain", "owning"}
    BY <1>8 DEF RejectDepth, RejectRule, RejectCondition, ParseLeaf, TooDeep, Parses, Returns, loops
  <2>2. GivenIn(rules, call'.at) = call'.given /\ result' # "table"
    BY <2>1 DEF AllKept, Calling, Shaped
  <2>3. ok' => Whole(linked, call'.at, call'.given)
    BY <2>1 DEF Whole
  <2> QED
    BY <2>1, <2>2, <2>3, QuietKept DEF InField
<1>9. CASE OpenConditional
  <2> DEFINE f == [at |-> call.at, given |-> call.given, depth |-> call.depth,
                   branch |-> "then", next |-> 1]
  <2>1. /\ pc = "call" /\ pc' = "branch" /\ stack' = Append(stack, f)
        /\ UNCHANGED <<rules, field, next, linked, result>>
    BY <1>9 DEF OpenConditional, Parses, loops
  <2>2. f \in Frames
    BY <2>1, FrameTypes
  <2>3. /\ f.branch = "then" /\ f.next = 1 /\ f.given = call.given /\ f.at = call.at
        /\ call.given \in Given /\ GivenIn(rules, call.at) = call.given
    BY <2>1 DEF AllKept, Calling, Shaped
  <2> HIDE DEF f
  <2>4. PassedKept(linked, f)
    <3>1. Branch(f) \in Seq(Given)
      BY <2>3, InnerGiven DEF Branch
    <3>2. \A i \in DOMAIN Branch(f) : ~(i < 1)
      BY <3>1
    <3> QED
      BY <2>3, <3>2 DEF PassedKept
  <2>5. /\ stack' \in Seq(Frames) /\ Len(stack') = Len(stack) + 1 /\ stack'[Len(stack) + 1] = f
        /\ \A k \in 1 .. Len(stack) : stack'[k] = stack[k]
    BY <1>0, <2>1, <2>2, AppendFrame
  <2>6. \A k \in DOMAIN stack' : /\ PassedKept(linked, stack'[k])
                                 /\ GivenIn(rules, stack'[k].at) = stack'[k].given
    <3>1. \A k \in DOMAIN stack' : k \in DOMAIN stack \/ k = Len(stack) + 1
      BY <1>0, <2>5
    <3> QED
      BY <1>0, <2>3, <2>4, <2>5, <3>1 DEF AllKept
  <2>7. result = "none"
    BY <2>1 DEF Shaped
  <2> QED
    BY <2>1, <2>6, <2>7 DEF AllKept, InField, Calling, FieldKept
<1>10. CASE NextInner
  <2>1. /\ pc = "branch" /\ pc' = "call" /\ stack # <<>>
        /\ UNCHANGED <<rules, field, next, stack, linked, result>>
        /\ call' = [at |-> Append(Top.at, Slot(Top.branch, Top.next)),
                    given |-> Branch(Top)[Top.next], depth |-> Top.depth + 1]
    BY <1>10 DEF NextInner, loops, Shaped
  <2>2. /\ call'.at = Append(Top.at, Slot(Top.branch, Top.next))
        /\ call'.given = Branch(Top)[Top.next]
    BY <2>1
  <2>3. Top \in Frames /\ Len(Top.at) >= 2 /\ GivenIn(rules, Top.at) = Top.given
    BY <2>1, TopKept
  <2>4. Top.at \in Places /\ Slot(Top.branch, Top.next) \in Slots
    BY <2>3 DEF Frames, Slots, Slot
  <2>5. GivenIn(rules, call'.at) = InSlot(Top.given, Slot(Top.branch, Top.next))
    BY <2>2, <2>3, <2>4, GivenInner
  <2>6. InSlot(Top.given, Slot(Top.branch, Top.next)) = Branch(Top)[Top.next]
    BY DEF InSlot, Slot, Branch
  <2> QED
    BY <2>1, <2>2, <2>5, <2>6, QuietKept DEF InField, Shaped
<1>11. CASE OpenElse
  <2> DEFINE f == [Top EXCEPT !.branch = "else", !.next = 1]
  <2>1. /\ BranchDone /\ stack # <<>> /\ pc = "branch" /\ pc' = "branch" /\ Top.branch = "then"
        /\ UNCHANGED <<rules, field, next, linked, result>> /\ stack' = Append(Below, f)
    BY <1>11 DEF OpenElse, BranchDone, Shaped, loops
  <2>2. Top \in Frames /\ f \in Frames
    BY <2>1, FrameTypes
  <2>3. f.branch = "else" /\ f.next = 1 /\ f.given = Top.given /\ f.at = Top.at
    BY <2>2 DEF Frames
  <2> HIDE DEF f
  <2>4. \A i \in DOMAIN Then[Top.given] : Append(Top.at, Slot("then", i)) \in linked
    <3>1. \A i \in DOMAIN Branch(Top) : Append(Top.at, Slot(Top.branch, i)) \in linked
      BY <2>1, TopKept
    <3> QED
      BY <2>1, <3>1 DEF Branch
  <2>5. PassedKept(linked', f)
    <3>1. Branch(f) \in Seq(Given)
      BY <2>1, <2>3, TopKept DEF Branch
    <3>2. \A i \in DOMAIN Branch(f) : ~(i < 1)
      BY <3>1
    <3> QED
      BY <2>1, <2>3, <2>4, <3>2 DEF PassedKept
  <2> QED
    BY <2>1, <2>2, <2>3, <2>5, MovedKept
<1>12. CASE StoreInner
  <2> DEFINE f == [Top EXCEPT !.next = @ + 1]
  <2>1. /\ stack # <<>> /\ pc = "return" /\ ok /\ pc' = "branch" /\ linked' = linked \cup {call.at}
        /\ UNCHANGED <<rules, field, next, result>> /\ stack' = Append(Below, f)
    BY <1>12 DEF StoreInner, loops
  <2>2. Top \in Frames /\ f \in Frames
    BY <2>1, FrameTypes
  <2>3. /\ f.branch = Top.branch /\ f.next = Top.next + 1 /\ f.given = Top.given /\ f.at = Top.at
        /\ Top.next \in Nat
    BY <2>2 DEF Frames
  <2> HIDE DEF f
  <2>4. PassedKept(linked, Top) /\ call.at = Append(Top.at, Slot(Top.branch, Top.next))
    BY <2>1, TopKept
  <2>5. PassedKept(linked', f)
    <3>1. Branch(f) = Branch(Top)
      BY <2>3 DEF Branch
    <3>2. \A i \in DOMAIN Branch(Top) : i < Top.next + 1 => i < Top.next \/ i = Top.next
      <4>1. Branch(Top) \in Seq(Given)
        BY <2>1, TopKept DEF Branch
      <4>2. DOMAIN Branch(Top) \subseteq Nat
        BY <4>1
      <4> QED
        BY <2>3, <4>2
    <3> QED
      BY <2>1, <2>3, <2>4, <3>1, <3>2 DEF PassedKept
  <2>6. GivenIn(rules, call.at) = call.given /\ Whole(linked, call.at, call.given)
    BY <2>1 DEF AllKept, Calling
  <2>7. linked \subseteq linked' /\ Whole(linked', call.at, GivenIn(rules, call.at))
    BY <2>1, <2>6, KeptStays
  <2>8. \A at \in linked' \ linked : Whole(linked', at, GivenIn(rules, at))
    BY <2>1, <2>7
  <2> QED
    BY <2>1, <2>2, <2>3, <2>5, <2>7, <2>8, MovedKept
<1>13. CASE CloseConditional \/ AbandonConditional
  <2>1. /\ stack # <<>> /\ stack' = Front(stack) /\ UNCHANGED <<rules, field, next, linked, result>>
        /\ call' = [at |-> Top.at, given |-> Top.given, depth |-> Top.depth]
        /\ pc \in {"branch", "return"} /\ pc' = "return"
        /\ ok' => BranchDone /\ (Top.branch = "else" \/ Top.given \notin HasElse)
    BY <1>13 DEF CloseConditional, AbandonConditional, BranchDone, Shaped, loops, Below, Returns
  <2>2. call'.at = Top.at /\ call'.given = Top.given
    BY <2>1
  <2>3. GivenIn(rules, call'.at) = call'.given /\ (ok' => Whole(linked, call'.at, call'.given))
    BY <2>1, <2>2, TopKept
  <2>4. \A k \in DOMAIN stack' : k \in DOMAIN stack /\ stack'[k] = stack[k]
    <3>1. /\ stack' \in Seq(Frames) /\ Len(stack') = Len(stack) - 1 /\ Len(stack) \in Nat \ {0}
          /\ \A k \in 1 .. Len(stack) - 1 : stack'[k] = stack[k]
      BY <1>0, <2>1, FrontFrames
    <3>2. DOMAIN stack' = 1 .. Len(stack')
      BY <3>1
    <3> QED
      BY <1>0, <3>1, <3>2
  <2>5. result = "none"
    BY <2>1 DEF Shaped
  <2> QED
    BY <2>1, <2>3, <2>4, <2>5 DEF AllKept, InField, Calling, FieldKept
<1>14. CASE Returned \/ UNCHANGED vars
  <2>1. UNCHANGED vars
    BY <1>14 DEF Returned
  <2> QED
    BY <2>1 DEF vars, AllKept, InField, Calling, FieldKept
<1> QED
  BY <1>1, <1>2, <1>3, <1>4, <1>5, <1>6, <1>7, <1>8, <1>9, <1>10, <1>11, <1>12, <1>13, <1>14
     DEF Next, Step

\* The table that sf_parse_rules returns holds every rule that was given, at its
\* place, the branches of conditionals at any depth included.
THEOREM KeepsAll == Spec => []NothingDropped
<1> DEFINE Inv == Levels /\ AllKept
<1>1. Init => Inv
  BY AnswersInit, KeptInit
<1>2. OwnerInv /\ Inv /\ [Next]_vars => Inv'
  BY LevelsStep, KeptStep DEF OwnerInv
<1>3. AllKept => NothingDropped
  <2> SUFFICES ASSUME AllKept, result = "table" PROVE NothingDropped
    BY DEF NothingDropped
  <2>1. \A at : GivenAt(at) = GivenIn(rules, at)
    BY GivenThere
  <2> QED
    BY <2>1 DEF AllKept, FieldKept, Whole, NothingDropped
<1>4. Inv => AllKept
  OBVIOUS
<1> HIDE DEF Inv
<1> QED
  BY <1>1, <1>2, <1>3, <1>4, OwnerInvariant, PTL DEF Spec

=============================================================================
