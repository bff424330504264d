-------------------------- MODULE LifecycleProofs --------------------------
(***************************************************************************)
(* Theorems about Lifecycle, for any objects, addresses, rules and depth   *)
(* of calls, whatever the PHP code called from a call does.                *)
(***************************************************************************)
EXTENDS Lifecycle, TLAPS

-----------------------------------------------------------------------------
(* The calls in progress. *)

Calls == [fn : Functions, obj : Obj \cup {None}, from : Obj \cup {None},
          table : Address \cup {None}, todo : SUBSET Pattern, user : BOOLEAN]

ObjectsOK ==
    /\ alive \subseteq born /\ born \subseteq Obj
    /\ rulesOf \in [Obj -> Address \cup {None}]
    /\ cache \in [Obj -> SUBSET Compiles]
    /\ content \in [Address -> RuleSet \cup {None}]
    /\ \A o \in Obj \ alive : rulesOf[o] = None /\ cache[o] = {}

CallsOK ==
    /\ frames \in Seq(Calls)
    /\ \A k \in DOMAIN frames :
          /\ frames[k].fn # "make" => frames[k].obj \in alive
          /\ frames[k].obj \in alive \cup {None}
          /\ frames[k].fn = "clone" => frames[k].from \in alive
          /\ k < Len(frames) => frames[k].user

\* TypeOK is not inductive without OneOwner: the patterns of a walk are those of
\* the table its object points to, which therefore has to hold rules.
StateOK == ObjectsOK /\ CallsOK /\ OneOwner

LEMMA StateTypes == StateOK => TypeOK /\ OneOwner
<1> SUFFICES ASSUME StateOK PROVE TypeOK
  BY DEF StateOK
<1>1. \A k \in DOMAIN frames : frames[k] \in Calls
  BY DEF StateOK, CallsOK
<1>2. QED
  BY <1>1 DEF StateOK, ObjectsOK, CallsOK, TypeOK, Calls

LEMMA FrontCalls ==
    ASSUME NEW s \in Seq(Calls), s # <<>>
    PROVE  /\ Front(s) \in Seq(Calls)
           /\ Len(Front(s)) = Len(s) - 1
           /\ \A k \in 1 .. Len(s) - 1 : Front(s)[k] = s[k]
<1>1. Front(s) = [k \in 1 .. Len(s) - 1 |-> s[k]]
  BY DEF Front
<1>2. /\ [k \in 1 .. Len(s) - 1 |-> s[k]] \in Seq(Calls)
      /\ Len([k \in 1 .. Len(s) - 1 |-> s[k]]) = Len(s) - 1
  OBVIOUS
<1>3. QED
  BY <1>1, <1>2

\* A call that returns leaves those below it as they are.
LEMMA LeaveCalls ==
    ASSUME frames \in Seq(Calls), frames # <<>>, Leave
    PROVE  /\ frames' \in Seq(Calls)
           /\ Len(frames') = Len(frames) - 1
           /\ \A k \in DOMAIN frames' : k \in DOMAIN frames /\ frames'[k] = frames[k]
<1>1. /\ Front(frames) \in Seq(Calls)
      /\ Len(Front(frames)) = Len(frames) - 1
      /\ \A k \in 1 .. Len(frames) - 1 : Front(frames)[k] = frames[k]
  BY FrontCalls
<1>2. QED
  BY <1>1 DEF Leave

LEMMA EnterCalls ==
    ASSUME NEW calls \in Seq(Calls), NEW f \in Calls, Enter(calls, f)
    PROVE  /\ frames' \in Seq(Calls)
           /\ Len(frames') = Len(calls) + 1
           /\ \A k \in DOMAIN calls : k \in DOMAIN frames' /\ frames'[k] = calls[k]
           /\ \A k \in DOMAIN frames' : k \in DOMAIN calls \/ k = Len(frames')
           /\ frames'[Len(frames')] = f
           /\ Len(frames') \notin DOMAIN calls
BY DEF Enter

\* The calls that remain when a table is freed: some walks are cut.
LEMMA CutCalls ==
    ASSUME frames \in Seq(Calls), NEW t
    PROVE  /\ CutWalks(t) \in Seq(Calls)
           /\ Len(CutWalks(t)) = Len(frames)
           /\ DOMAIN CutWalks(t) = DOMAIN frames
           /\ \A k \in DOMAIN frames :
                 /\ CutWalks(t)[k].fn = frames[k].fn
                 /\ CutWalks(t)[k].obj = frames[k].obj
                 /\ CutWalks(t)[k].from = frames[k].from
                 /\ CutWalks(t)[k].user = frames[k].user
                 /\ t # None /\ frames[k].table = t => CutWalks(t)[k].table = None
                 /\ t = None \/ frames[k].table # t => CutWalks(t)[k] = frames[k]
<1> DEFINE cut(f) == [f EXCEPT !.table = None, !.todo = Pattern]
<1>1. \A f \in Calls : /\ cut(f) \in Calls /\ cut(f).fn = f.fn /\ cut(f).obj = f.obj
                       /\ cut(f).from = f.from /\ cut(f).user = f.user
                       /\ cut(f).table = None
  BY DEF Calls
<1> DEFINE g(k) == IF t # None /\ frames[k].table = t THEN cut(frames[k]) ELSE frames[k]
<1>2. CutWalks(t) = [k \in DOMAIN frames |-> g(k)]
  BY DEF CutWalks
<1>3. \A k \in DOMAIN frames : frames[k] \in Calls
  OBVIOUS
<1> HIDE DEF cut
<1>4. \A k \in DOMAIN frames :
         /\ g(k) \in Calls /\ g(k).fn = frames[k].fn /\ g(k).obj = frames[k].obj
         /\ g(k).from = frames[k].from /\ g(k).user = frames[k].user
         /\ t # None /\ frames[k].table = t => g(k).table = None
         /\ t = None \/ frames[k].table # t => g(k) = frames[k]
  BY <1>1, <1>3
<1>5. DOMAIN frames = 1 .. Len(frames)
  OBVIOUS
<1> HIDE DEF g
<1>6. [k \in DOMAIN frames |-> g(k)] \in Seq(Calls)
  BY <1>4, <1>5
<1>7. Len([k \in DOMAIN frames |-> g(k)]) = Len(frames)
  BY <1>5
<1>8. QED
  BY <1>2, <1>4, <1>6, <1>7

\* What a call does to itself changes neither its function nor its objects.
LEMMA MarkCalls ==
    ASSUME frames \in Seq(Calls), frames # <<>>, NEW f \in Calls,
           f.fn = Top.fn, f.obj = Top.obj, f.from = Top.from, f.table = Top.table,
           frames' = [frames EXCEPT ![Len(frames)] = f]
    PROVE  /\ frames' \in Seq(Calls)
           /\ Len(frames') = Len(frames)
           /\ DOMAIN frames' = DOMAIN frames
           /\ \A k \in DOMAIN frames' :
                 /\ frames'[k].fn = frames[k].fn
                 /\ frames'[k].obj = frames[k].obj
                 /\ frames'[k].from = frames[k].from
                 /\ frames'[k].table = frames[k].table
                 /\ k < Len(frames) => frames'[k] = frames[k]
BY DEF Top

LEMMA TopCall ==
    ASSUME CallsOK, frames # <<>>
    PROVE  /\ Len(frames) \in DOMAIN frames
           /\ Top \in Calls
           /\ Top = frames[Len(frames)]
           /\ Top.fn # "make" => Top.obj \in alive
           /\ Top.fn = "clone" => Top.from \in alive
BY DEF CallsOK, Top

\* A call may be entered for live objects, from outside or from PHP code.
LEMMA EnterOK ==
    ASSUME CallsOK, NEW f \in Calls, NEW t, Enter(CutWalks(t), f),
           f.fn # "make" => f.obj \in alive',
           f.obj \in alive' \cup {None},
           f.fn = "clone" => f.from \in alive',
           frames # <<>> => Top.user,
           alive \subseteq alive'
    PROVE  CallsOK'
<1> DEFINE calls == CutWalks(t)
<1>1. /\ calls \in Seq(Calls) /\ DOMAIN calls = DOMAIN frames
      /\ \A k \in DOMAIN frames : /\ calls[k].fn = frames[k].fn
                                  /\ calls[k].obj = frames[k].obj
                                  /\ calls[k].from = frames[k].from
                                  /\ calls[k].user = frames[k].user
  BY CutCalls DEF CallsOK
<1>2. Enter(calls, f)
  OBVIOUS
<1> HIDE DEF calls
<1>3. /\ frames' \in Seq(Calls)
      /\ \A k \in DOMAIN calls : k \in DOMAIN frames' /\ frames'[k] = calls[k]
      /\ \A k \in DOMAIN frames' : k \in DOMAIN calls \/ k = Len(frames')
      /\ frames'[Len(frames')] = f
  BY <1>1, <1>2, EnterCalls
<1>4. \A k \in DOMAIN frames : frames[k].user
  BY DEF CallsOK, Top
<1>5. QED
  BY <1>1, <1>3, <1>4 DEF CallsOK

LEMMA NoCut == CutWalks(None) = [k \in DOMAIN frames |-> frames[k]]
BY DEF CutWalks

\* A call entered without freeing anything.
LEMMA PlainEnter ==
    ASSUME frames \in Seq(Calls), NEW f, Enter(frames, f)
    PROVE  Enter(CutWalks(None), f)
<1>1. CutWalks(None) = frames
  BY NoCut
<1>2. QED
  BY <1>1 DEF Enter

LEMMA LeaveOK ==
    ASSUME CallsOK, frames # <<>>, Leave, alive \subseteq alive'
    PROVE  CallsOK'
<1>1. /\ frames' \in Seq(Calls)
      /\ Len(frames') = Len(frames) - 1
      /\ \A k \in DOMAIN frames' : k \in DOMAIN frames /\ frames'[k] = frames[k]
  BY LeaveCalls DEF CallsOK
<1>2. QED
  BY <1>1 DEF CallsOK

LEMMA MarkOK ==
    ASSUME CallsOK, frames # <<>>, NEW f \in Calls,
           f.fn = Top.fn, f.obj = Top.obj, f.from = Top.from, f.table = Top.table,
           frames' = [frames EXCEPT ![Len(frames)] = f], alive' = alive
    PROVE  CallsOK'
<1>1. /\ frames' \in Seq(Calls)
      /\ Len(frames') = Len(frames)
      /\ DOMAIN frames' = DOMAIN frames
      /\ \A k \in DOMAIN frames' : /\ frames'[k].fn = frames[k].fn
                                   /\ frames'[k].obj = frames[k].obj
                                   /\ frames'[k].from = frames[k].from
                                   /\ k < Len(frames) => frames'[k] = frames[k]
  BY MarkCalls DEF CallsOK
<1>2. QED
  BY <1>1 DEF CallsOK

\* An object is freed that no call in progress is about.
LEMMA CutOK ==
    ASSUME CallsOK, NEW t, frames' = CutWalks(t), NEW o,
           ~Busy(o), alive' = alive \ {o}
    PROVE  CallsOK'
<1>1. /\ frames' \in Seq(Calls) /\ Len(frames') = Len(frames)
      /\ DOMAIN frames' = DOMAIN frames
      /\ \A k \in DOMAIN frames : /\ frames'[k].fn = frames[k].fn
                                  /\ frames'[k].obj = frames[k].obj
                                  /\ frames'[k].from = frames[k].from
                                  /\ frames'[k].user = frames[k].user
  BY CutCalls DEF CallsOK
<1>2. \A k \in DOMAIN frames : frames[k].obj # o /\ frames[k].from # o
  BY DEF Busy
<1>3. QED
  BY <1>1, <1>2 DEF CallsOK

-----------------------------------------------------------------------------
(* The tables. *)

\* What Dropped leaves: the tables of the others, each still with one owner.
LEMMA DroppedTables ==
    ASSUME ObjectsOK, OneOwner, NEW o \in Obj,
           rulesOf' = [rulesOf EXCEPT ![o] = None],
           content' = IF rulesOf[o] = None THEN content
                                           ELSE [content EXCEPT ![rulesOf[o]] = None]
    PROVE  /\ rulesOf' \in [Obj -> Address \cup {None}]
           /\ content' \in [Address -> RuleSet \cup {None}]
           /\ rulesOf'[o] = None
           /\ \A c \in Obj : c # o => /\ rulesOf'[c] = rulesOf[c]
                                      /\ rulesOf[c] # None =>
                                            /\ rulesOf[c] # rulesOf[o]
                                            /\ content'[rulesOf[c]] = content[rulesOf[c]]
           /\ OneOwner'
           /\ \A t \in Live' : t \in Live /\ (Owned(t) => Owned(t)')
<1>1. /\ rulesOf' \in [Obj -> Address \cup {None}]
      /\ content' \in [Address -> RuleSet \cup {None}]
      /\ rulesOf'[o] = None
      /\ \A c \in Obj : c # o => rulesOf'[c] = rulesOf[c]
      /\ \A t \in Address : t # rulesOf[o] => content'[t] = content[t]
      /\ rulesOf[o] # None => content'[rulesOf[o]] = None
  BY DEF ObjectsOK
<1>2. \A c \in Obj : c # o /\ rulesOf[c] # None =>
         rulesOf[c] # rulesOf[o] /\ rulesOf[c] \in Address /\ content[rulesOf[c]] # None
  BY DEF ObjectsOK, OneOwner, Live
<1>3. OneOwner'
  BY <1>1, <1>2 DEF OneOwner, Live
<1>4. ASSUME NEW t \in Live' PROVE t \in Live /\ (Owned(t) => Owned(t)')
  <2>1. t \in Address /\ content'[t] # None
    BY <1>4 DEF Live
  <2>2. t # rulesOf[o]
    BY <1>1, <2>1, LifecycleAssumption
  <2>3. QED
    BY <1>1, <2>1, <2>2 DEF Live, Owned
<1>5. QED
  BY <1>1, <1>2, <1>3, <1>4

\* A table is given to an object: no other one has it.  The one it had, if any,
\* is lost.
LEMMA GivenTables ==
    ASSUME ObjectsOK, OneOwner, NEW o \in Obj, NEW t \in Address \ Live, NEW r \in RuleSet,
           content' = [content EXCEPT ![t] = r],
           rulesOf' = [rulesOf EXCEPT ![o] = t]
    PROVE  /\ rulesOf' \in [Obj -> Address \cup {None}]
           /\ content' \in [Address -> RuleSet \cup {None}]
           /\ rulesOf'[o] = t /\ content'[t] = r
           /\ \A c \in Obj : c # o => /\ rulesOf'[c] = rulesOf[c]
                                      /\ rulesOf[c] # None =>
                                            content'[rulesOf[c]] = content[rulesOf[c]]
           /\ OneOwner'
           /\ \A u \in Live' : \/ Owned(u)'
                               \/ u \in Live /\ ~Owned(u)
                               \/ u = rulesOf[o]
<1>1. r # None /\ t # None /\ content[t] = None
  BY LifecycleAssumption DEF Live
<1>2. /\ rulesOf' \in [Obj -> Address \cup {None}]
      /\ content' \in [Address -> RuleSet \cup {None}]
      /\ rulesOf'[o] = t /\ content'[t] = r
      /\ \A c \in Obj : c # o => rulesOf'[c] = rulesOf[c]
      /\ \A u \in Address : u # t => content'[u] = content[u]
  BY DEF ObjectsOK
<1>3. \A c \in Obj : rulesOf[c] # None =>
         rulesOf[c] # t /\ rulesOf[c] \in Address /\ content[rulesOf[c]] # None
  BY <1>1 DEF ObjectsOK, OneOwner, Live
<1>4. OneOwner'
  BY <1>1, <1>2, <1>3 DEF OneOwner, Live
<1>5. ASSUME NEW u \in Live'
      PROVE  Owned(u)' \/ (u \in Live /\ ~Owned(u)) \/ u = rulesOf[o]
  <2>1. u \in Address /\ content'[u] # None
    BY <1>5 DEF Live
  <2>2. CASE u = t
    BY <1>2, <2>2 DEF Owned
  <2>3. CASE u # t
    BY <1>2, <2>1, <2>3 DEF Owned, Live
  <2>4. QED
    BY <2>2, <2>3
<1>6. QED
  BY <1>2, <1>3, <1>4, <1>5

-----------------------------------------------------------------------------
(* Type correctness and ownership. *)

\* The calls an operation starts, and those that go on.
LEMMA NewCall ==
    ASSUME NEW fn \in Functions, NEW o \in Obj \cup {None}, NEW from \in Obj \cup {None},
           NEW t \in Address \cup {None}, NEW todo \in SUBSET Pattern
    PROVE  /\ Frame(fn, o, from, t, todo) \in Calls
           /\ Frame(fn, o, from, t, todo).fn = fn
           /\ Frame(fn, o, from, t, todo).obj = o
           /\ Frame(fn, o, from, t, todo).from = from
           /\ Frame(fn, o, from, t, todo).table = t
BY DEF Frame, Calls

LEMMA EmptyCall ==
    ASSUME NEW fn \in Functions, NEW o \in Obj \cup {None}, NEW from \in Obj \cup {None}
    PROVE  /\ Frame(fn, o, from, None, {}) \in Calls
           /\ Frame(fn, o, from, None, {}).fn = fn
           /\ Frame(fn, o, from, None, {}).obj = o
           /\ Frame(fn, o, from, None, {}).from = from
           /\ Frame(fn, o, from, None, {}).table = None
BY DEF Frame, Calls

LEMMA ValidateCall ==
    ASSUME StateOK, NEW o \in Obj, Validate(o)
    PROVE  /\ Frame("validate", o, None, rulesOf[o], PatternsOf[content[rulesOf[o]]]) \in Calls
           /\ rulesOf[o] # None
<1>1. rulesOf[o] \in Address /\ content[rulesOf[o]] \in RuleSet /\ rulesOf[o] # None
  BY DEF Validate, StateOK, ObjectsOK, OneOwner, Live
<1>2. PatternsOf[content[rulesOf[o]]] \in SUBSET Pattern
  BY <1>1, LifecycleAssumption
<1>3. QED
  BY <1>1, <1>2, NewCall DEF Functions

LEMMA MarkedCall ==
    ASSUME CallsOK, frames # <<>>
    PROVE  /\ \A b \in BOOLEAN :
                 LET f == [Top EXCEPT !.user = b] IN
                 /\ f \in Calls /\ f.fn = Top.fn /\ f.obj = Top.obj
                 /\ f.from = Top.from /\ f.table = Top.table
                 /\ [frames EXCEPT ![Len(frames)].user = b]
                        = [frames EXCEPT ![Len(frames)] = f]
           /\ \A p :
                 LET f == [Top EXCEPT !.todo = @ \ {p}] IN
                 /\ f \in Calls /\ f.fn = Top.fn /\ f.obj = Top.obj
                 /\ f.from = Top.from /\ f.table = Top.table
                 /\ [frames EXCEPT ![Len(frames)].todo = @ \ {p}]
                        = [frames EXCEPT ![Len(frames)] = f]
BY TopCall DEF Calls

\* The three steps after which the same calls are in progress and no object has
\* changed.
LEMMA MarkStep ==
    ASSUME CallsOK, CallUser \/ UserReturns \/ UsePattern
    PROVE  /\ frames # <<>>
           /\ \E f \in Calls : /\ f.fn = Top.fn /\ f.obj = Top.obj
                              /\ f.from = Top.from /\ f.table = Top.table
                              /\ frames' = [frames EXCEPT ![Len(frames)] = f]
           /\ UNCHANGED <<born, alive, rulesOf, content>>
<1>1. CASE CallUser
  BY <1>1, MarkedCall DEF CallUser, objects
<1>2. CASE UserReturns
  BY <1>2, MarkedCall DEF UserReturns, objects
<1>3. CASE UsePattern
  BY <1>3, MarkedCall DEF UsePattern, InCall
<1>4. QED
  BY <1>1, <1>2, <1>3

\* Without a change of tables each still has its one owner.
LEMMA TablesKept ==
    ASSUME UNCHANGED <<rulesOf, content>>
    PROVE  /\ OneOwner => OneOwner'
           /\ \A t \in Live' : Owned(t)' \/ (t \in Live /\ ~Owned(t))
BY DEF OneOwner, Owned, Live

\* What a construction and a clone do when they end.
LEMMA EndSteps ==
    ASSUME StateOK, ConstructEnds \/ CloneEnds
    PROVE  /\ frames # <<>> /\ Leave /\ UNCHANGED <<born, alive, cache>>
           /\ InCall("construct") \/ InCall("clone")
           /\ Top.obj \in Obj /\ Top.obj \in alive
           /\ \/ UNCHANGED <<rulesOf, content>>
              \/ \E t \in Address \ Live, r \in RuleSet :
                    /\ content' = [content EXCEPT ![t] = r]
                    /\ rulesOf' = [rulesOf EXCEPT ![Top.obj] = t]
<1>1. CASE ConstructEnds
  BY <1>1, TopCall DEF ConstructEnds, InCall, StateOK, ObjectsOK
<1>2. CASE CloneEnds
  <2>1. /\ frames # <<>> /\ Leave /\ UNCHANGED <<born, alive, cache>>
        /\ InCall("clone") /\ Top.fn = "clone"
    BY <1>2 DEF CloneEnds, InCall
  <2>2. Top.obj \in alive /\ Top.from \in Obj /\ alive \subseteq Obj
    BY <2>1, TopCall DEF StateOK, ObjectsOK
  <2>3. ASSUME rulesOf[Top.from] # None PROVE content[rulesOf[Top.from]] \in RuleSet
    BY <2>2, <2>3 DEF StateOK, ObjectsOK, OneOwner, Live
  <2>4. QED
    BY <1>2, <2>1, <2>2, <2>3 DEF CloneEnds
<1>3. QED
  BY <1>1, <1>2

LEMMA StateInit == LifeInit => StateOK
<1>1. <<>> \in Seq(Calls)
  OBVIOUS
<1>2. QED
  BY <1>1, LifecycleAssumption DEF LifeInit, StateOK, ObjectsOK, CallsOK, OneOwner

\* An object comes into being: nothing in progress is about it.
LEMMA BirthCalls ==
    ASSUME CallsOK, alive \subseteq alive', frames' = frames
    PROVE  CallsOK'
BY DEF CallsOK

LEMMA StateStep ==
    ASSUME StateOK, [LifeNext]_lifeVars
    PROVE  StateOK'
<1> USE DEF StateOK
<1>1. ASSUME NEW o \in Obj, Create(o) PROVE StateOK'
  <2>1. CallsOK'
    BY <1>1, BirthCalls DEF Create
  <2>2. OneOwner'
    BY <1>1, TablesKept DEF Create
  <2>3. ObjectsOK'
    BY <1>1 DEF Create, ObjectsOK
  <2>4. QED
    BY <2>1, <2>2, <2>3
<1>2. ASSUME NEW o \in Obj, Construct(o) PROVE StateOK'
  <2> DEFINE f == Frame("construct", o, None, None, {})
  <2>1. f \in Calls /\ f.obj = o /\ f.fn = "construct"
    BY EmptyCall DEF Functions
  <2>2. CallsOK'
    <3>1. /\ Enter(CutWalks(rulesOf[o]), f) /\ o \in alive /\ alive' = alive
          /\ frames # <<>> => Top.user
      BY <1>2 DEF Construct, MayStart
    <3> HIDE DEF f
    <3>2. QED
      BY <2>1, <3>1, EnterOK
  <2>3. /\ rulesOf' \in [Obj -> Address \cup {None}]
        /\ content' \in [Address -> RuleSet \cup {None}]
        /\ rulesOf'[o] = None
        /\ \A c \in Obj : c # o => rulesOf'[c] = rulesOf[c]
        /\ OneOwner'
    BY <1>2, DroppedTables DEF Construct, Dropped
  <2>4. ObjectsOK'
    BY <1>2, <2>3 DEF Construct, ObjectsOK
  <2>5. QED
    BY <2>2, <2>3, <2>4
<1>3. ASSUME NEW o \in Obj, Release(o) PROVE StateOK'
  <2>1. CallsOK'
    BY <1>3, CutOK DEF Release
  <2>2. /\ rulesOf' \in [Obj -> Address \cup {None}]
        /\ content' \in [Address -> RuleSet \cup {None}]
        /\ rulesOf'[o] = None
        /\ \A c \in Obj : c # o => rulesOf'[c] = rulesOf[c]
        /\ OneOwner'
    BY <1>3, DroppedTables DEF Release, Dropped
  <2>3. ObjectsOK'
    <3>1. cache' \in [Obj -> SUBSET Compiles] /\ cache'[o] = {}
      BY <1>3 DEF Release, ObjectsOK
    <3>2. QED
      BY <1>3, <2>2, <3>1 DEF Release, ObjectsOK
  <2>4. QED
    BY <2>1, <2>2, <2>3
<1>4. ASSUME NEW o \in Obj, Validate(o) PROVE StateOK'
  <2> DEFINE f == Frame("validate", o, None, rulesOf[o], PatternsOf[content[rulesOf[o]]])
  <2>1. f \in Calls /\ f.obj = o /\ f.fn = "validate"
    BY <1>4, ValidateCall DEF Frame
  <2>2. /\ Enter(frames, f) /\ o \in alive /\ (frames # <<>> => Top.user)
        /\ UNCHANGED <<born, alive, rulesOf, cache, content>>
    BY <1>4 DEF Validate, MayStart, objects
  <2> HIDE DEF f
  <2>3. CallsOK'
    BY <2>1, <2>2, PlainEnter, EnterOK DEF CallsOK
  <2>4. ObjectsOK' /\ OneOwner'
    BY <2>2, TablesKept DEF ObjectsOK
  <2>5. QED
    BY <2>3, <2>4
<1>5. ASSUME NEW o \in Obj, NEW c \in Obj, Clone(o, c) PROVE StateOK'
  <2> DEFINE f == Frame("clone", c, o, None, {})
  <2>1. f \in Calls /\ f.obj = c /\ f.from = o /\ f.fn = "clone"
    BY EmptyCall DEF Functions
  <2>2. /\ Enter(frames, f) /\ o \in alive /\ (frames # <<>> => Top.user)
        /\ born' = born \cup {c} /\ alive' = alive \cup {c}
        /\ UNCHANGED <<rulesOf, cache, content>>
    BY <1>5 DEF Clone, MayStart
  <2> HIDE DEF f
  <2>3. CallsOK'
    BY <2>1, <2>2, PlainEnter, EnterOK DEF CallsOK
  <2>4. ObjectsOK' /\ OneOwner'
    BY <2>2, TablesKept DEF ObjectsOK
  <2>5. QED
    BY <2>3, <2>4
<1>6. CASE ConstructFails \/ MakeFails \/ ValidateEnds
  <2>1. /\ frames # <<>> /\ Leave
        /\ UNCHANGED <<born, alive, rulesOf, cache, content>>
    BY <1>6 DEF ConstructFails, MakeFails, ValidateEnds, InCall, objects
  <2>2. QED
    BY <2>1, LeaveOK, TablesKept DEF ObjectsOK
<1>7. CASE ConstructEnds \/ CloneEnds
  <2>1. /\ frames # <<>> /\ Leave /\ UNCHANGED <<born, alive, cache>>
        /\ Top.obj \in Obj /\ Top.obj \in alive
    BY <1>7, EndSteps
  <2>2. CallsOK'
    BY <2>1, LeaveOK
  <2>3. CASE UNCHANGED <<rulesOf, content>>
    BY <2>1, <2>2, <2>3, TablesKept DEF ObjectsOK
  <2>4. ASSUME NEW t \in Address \ Live, NEW r \in RuleSet,
               content' = [content EXCEPT ![t] = r],
               rulesOf' = [rulesOf EXCEPT ![Top.obj] = t]
        PROVE  StateOK'
    <3>1. /\ rulesOf' \in [Obj -> Address \cup {None}]
          /\ content' \in [Address -> RuleSet \cup {None}]
          /\ \A c \in Obj : c # Top.obj => rulesOf'[c] = rulesOf[c]
          /\ OneOwner'
      BY <2>1, <2>4, GivenTables
    <3>2. QED
      BY <2>1, <2>2, <3>1 DEF ObjectsOK
  <2>5. QED
    BY <1>7, <2>3, <2>4, EndSteps
<1>8. CASE Make
  <2> DEFINE f == Frame("make", None, None, None, {})
  <2>1. f \in Calls /\ f.fn = "make" /\ f.obj = None
    BY EmptyCall DEF Functions
  <2>2. /\ Enter(frames, f) /\ (frames # <<>> => Top.user)
        /\ UNCHANGED <<born, alive, rulesOf, cache, content>>
    BY <1>8 DEF Make, MayStart, objects
  <2> HIDE DEF f
  <2>3. QED
    BY <2>1, <2>2, PlainEnter, EnterOK, TablesKept DEF ObjectsOK, CallsOK
<1>9. CASE MakeEnds
  <2>1. frames # <<>> /\ Leave /\ UNCHANGED cache
    BY <1>9 DEF MakeEnds, InCall
  <2>2. PICK o \in Obj \ born, t \in Address \ Live, r \in RuleSet :
              /\ born' = born \cup {o} /\ alive' = alive \cup {o}
              /\ content' = [content EXCEPT ![t] = r]
              /\ rulesOf' = [rulesOf EXCEPT ![o] = t]
    BY <1>9 DEF MakeEnds
  <2>3. /\ rulesOf' \in [Obj -> Address \cup {None}]
        /\ content' \in [Address -> RuleSet \cup {None}]
        /\ \A c \in Obj : c # o => rulesOf'[c] = rulesOf[c]
        /\ OneOwner'
    BY <2>2, GivenTables
  <2>4. QED
    BY <2>1, <2>2, <2>3, LeaveOK DEF ObjectsOK
<1>10. CASE CallUser \/ UserReturns \/ UsePattern
  <2>1. CallsOK'
    BY <1>10, MarkStep, MarkOK
  <2>2. OneOwner' /\ UNCHANGED <<born, alive, rulesOf, content>>
    BY <1>10, MarkStep, TablesKept
  <2>3. cache' \in [Obj -> SUBSET Compiles] /\ \A o \in Obj \ alive : cache'[o] = {}
    <3>1. CASE UsePattern
      <4>1. Top.obj \in alive
        BY <3>1, TopCall DEF UsePattern, InCall
      <4>2. PICK p : cache' = [cache EXCEPT ![Top.obj] = Compiled(Top.obj, p)]
        BY <3>1 DEF UsePattern
      <4>3. Compiled(Top.obj, p) \in SUBSET Compiles
        BY <4>1 DEF Compiled, ObjectsOK
      <4>4. QED
        BY <4>1, <4>2, <4>3 DEF ObjectsOK
    <3>2. CASE CallUser \/ UserReturns
      BY <3>2 DEF CallUser, UserReturns, objects, ObjectsOK
    <3>3. QED
      BY <1>10, <3>1, <3>2
  <2>4. QED
    BY <2>1, <2>2, <2>3 DEF ObjectsOK
<1>11. CASE UNCHANGED lifeVars
  BY <1>11, BirthCalls, TablesKept DEF lifeVars, ObjectsOK
<1>12. ASSUME NEW o \in Obj, Refuse(o) PROVE StateOK'
  BY <1>11, <1>12 DEF Refuse
<1>13. QED
  BY <1>1, <1>2, <1>3, <1>4, <1>5, <1>6, <1>7, <1>8, <1>9, <1>10, <1>11, <1>12 DEF LifeNext

\* The state of the objects and of the calls in progress is of its type.
THEOREM TypeCorrect == LifeSpec => []TypeOK
<1>1. LifeSpec => []StateOK
  BY StateInit, StateStep, PTL DEF LifeSpec
<1>2. QED
  BY <1>1, StateTypes, PTL

\* Each rule table has one owner, whatever PHP code does between two steps of a
\* call, the construction of the object under construction included.
THEOREM Owners == LifeSpec => []OneOwner
<1>1. LifeSpec => []StateOK
  BY StateInit, StateStep, PTL DEF LifeSpec
<1>2. QED
  BY <1>1, StateTypes, PTL

-----------------------------------------------------------------------------
(* What is left behind. *)

\* The steps of LeaksByOverwriting.
LeakHere ==
    /\ \A t \in Live' :
          \/ Owned(t)'
          \/ t \in Live /\ ~Owned(t)
          \/ /\ InCall("construct") \/ InCall("clone")
             /\ Len(frames') < Len(frames)
             /\ t = rulesOf[Top.obj]
    /\ Len(frames') > Len(frames) /\ Last(frames').fn \in {"construct", "clone"}
          => rulesOf'[Last(frames').obj] = None

\* A step that is not the start of a construction or of a clone and that leaves
\* the tables and their owners alone.
LEMMA NothingLost ==
    ASSUME UNCHANGED <<rulesOf, content>>,
           Len(frames') > Len(frames) => Last(frames').fn \notin {"construct", "clone"}
    PROVE  LeakHere
BY TablesKept DEF LeakHere

\* The call just entered is the last one.
LEMMA Entered ==
    ASSUME frames \in Seq(Calls), NEW f \in Calls, NEW t, Enter(CutWalks(t), f)
    PROVE  Last(frames') = f /\ Len(frames') = Len(frames) + 1
<1> DEFINE calls == CutWalks(t)
<1>1. calls \in Seq(Calls) /\ Len(calls) = Len(frames)
  BY CutCalls
<1>2. Enter(calls, f)
  OBVIOUS
<1> HIDE DEF calls
<1>3. QED
  BY <1>1, <1>2, EnterCalls DEF Last

\* Calls that return and those that only mark themselves enter none.
LEMMA NotLonger ==
    ASSUME CallsOK, \/ frames # <<>> /\ Leave
                    \/ CallUser \/ UserReturns \/ UsePattern
                    \/ frames' = frames
    PROVE  ~(Len(frames') > Len(frames))
<1>1. Len(frames) \in Nat
  BY DEF CallsOK
<1>2. CASE frames # <<>> /\ Leave
  <2>1. Len(frames') = Len(frames) - 1
    BY <1>2, LeaveCalls DEF CallsOK
  <2>2. QED
    BY <1>1, <2>1
<1>3. CASE CallUser \/ UserReturns \/ UsePattern
  <2>1. Len(frames') = Len(frames)
    BY <1>3, MarkStep, MarkCalls DEF CallsOK
  <2>2. QED
    BY <1>1, <2>1
<1>4. CASE frames' = frames
  BY <1>1, <1>4
<1>5. QED
  BY <1>2, <1>3, <1>4

LEMMA LeakStep ==
    ASSUME StateOK, [LifeNext]_lifeVars
    PROVE  LeakHere
<1> USE DEF StateOK
<1>0. Len(frames) \in Nat
  BY DEF CallsOK
<1>1. ASSUME NEW o \in Obj, Create(o) \/ Refuse(o) PROVE LeakHere
  <2>1. UNCHANGED <<rulesOf, content>> /\ frames' = frames
    BY <1>1 DEF Create, Refuse, lifeVars
  <2>2. QED
    BY <2>1, NotLonger, NothingLost
<1>2. ASSUME NEW o \in Obj, Validate(o) PROVE LeakHere
  <2> DEFINE f == Frame("validate", o, None, rulesOf[o], PatternsOf[content[rulesOf[o]]])
  <2>1. f \in Calls /\ f.fn = "validate"
    BY <1>2, ValidateCall DEF Frame
  <2>2. Enter(frames, f) /\ UNCHANGED <<rulesOf, content>>
    BY <1>2 DEF Validate, objects
  <2> HIDE DEF f
  <2>3. Last(frames') = f
    BY <2>1, <2>2, PlainEnter, Entered DEF CallsOK
  <2>4. QED
    BY <2>1, <2>2, <2>3, NothingLost
<1>3. CASE Make
  <2> DEFINE f == Frame("make", None, None, None, {})
  <2>1. f \in Calls /\ f.fn = "make"
    BY EmptyCall DEF Functions
  <2>2. Enter(frames, f) /\ UNCHANGED <<rulesOf, content>>
    BY <1>3 DEF Make, objects
  <2> HIDE DEF f
  <2>3. Last(frames') = f
    BY <2>1, <2>2, PlainEnter, Entered DEF CallsOK
  <2>4. QED
    BY <2>1, <2>2, <2>3, NothingLost
<1>4. ASSUME NEW o \in Obj, Construct(o) PROVE LeakHere
  <2> DEFINE f == Frame("construct", o, None, None, {})
  <2>1. f \in Calls /\ f.obj = o
    BY EmptyCall DEF Functions
  <2>2. Enter(CutWalks(rulesOf[o]), f)
    BY <1>4 DEF Construct
  <2>3. rulesOf'[o] = None /\ \A t \in Live' : t \in Live /\ (Owned(t) => Owned(t)')
    BY <1>4, DroppedTables DEF Construct, Dropped
  <2> HIDE DEF f
  <2>4. Last(frames') = f
    BY <2>1, <2>2, Entered DEF CallsOK
  <2>5. QED
    BY <2>1, <2>3, <2>4 DEF LeakHere
<1>5. ASSUME NEW o \in Obj, Release(o) PROVE LeakHere
  <2>1. \A t \in Live' : t \in Live /\ (Owned(t) => Owned(t)')
    BY <1>5, DroppedTables DEF Release, Dropped
  <2>2. Len(frames') = Len(frames)
    BY <1>5, CutCalls DEF Release, CallsOK
  <2>3. QED
    BY <1>0, <2>1, <2>2 DEF LeakHere
<1>6. ASSUME NEW o \in Obj, NEW c \in Obj, Clone(o, c) PROVE LeakHere
  <2> DEFINE f == Frame("clone", c, o, None, {})
  <2>1. f \in Calls /\ f.obj = c
    BY EmptyCall DEF Functions
  <2>2. Enter(frames, f) /\ UNCHANGED <<rulesOf, content>> /\ c \notin alive
    BY <1>6 DEF Clone, ObjectsOK
  <2>3. rulesOf'[c] = None
    BY <2>2 DEF ObjectsOK
  <2> HIDE DEF f
  <2>4. Last(frames') = f
    BY <2>1, <2>2, PlainEnter, Entered DEF CallsOK
  <2>5. QED
    BY <2>1, <2>2, <2>3, <2>4, TablesKept DEF LeakHere
<1>7. CASE ConstructFails \/ MakeFails \/ ValidateEnds
  <2>1. UNCHANGED <<rulesOf, content>> /\ frames # <<>> /\ Leave
    BY <1>7 DEF ConstructFails, MakeFails, ValidateEnds, InCall, objects
  <2>2. QED
    BY <2>1, NotLonger, NothingLost
<1>8. CASE ConstructEnds \/ CloneEnds
  <2>1. /\ frames # <<>> /\ Leave /\ Top.obj \in Obj
        /\ InCall("construct") \/ InCall("clone")
    BY <1>8, EndSteps
  <2>2. ~(Len(frames') > Len(frames))
    BY <2>1, NotLonger
  <2>3. Len(frames') < Len(frames)
    BY <1>0, <2>1, LeaveCalls DEF CallsOK
  <2>4. CASE UNCHANGED <<rulesOf, content>>
    BY <2>2, <2>4, NothingLost
  <2>5. ASSUME NEW t \in Address \ Live, NEW r \in RuleSet,
               content' = [content EXCEPT ![t] = r],
               rulesOf' = [rulesOf EXCEPT ![Top.obj] = t]
        PROVE  LeakHere
    <3>1. \A u \in Live' : Owned(u)' \/ (u \in Live /\ ~Owned(u)) \/ u = rulesOf[Top.obj]
      BY <2>1, <2>5, GivenTables
    <3>2. QED
      BY <2>1, <2>2, <2>3, <3>1 DEF LeakHere
  <2>6. QED
    BY <1>8, <2>4, <2>5, EndSteps
<1>9. CASE MakeEnds
  <2>1. frames # <<>> /\ Leave
    BY <1>9 DEF MakeEnds, InCall
  <2>2. PICK o \in Obj \ born, t \in Address \ Live, r \in RuleSet :
              /\ content' = [content EXCEPT ![t] = r]
              /\ rulesOf' = [rulesOf EXCEPT ![o] = t]
    BY <1>9 DEF MakeEnds
  <2>3. \A u \in Live' : Owned(u)' \/ (u \in Live /\ ~Owned(u)) \/ u = rulesOf[o]
    BY <2>2, GivenTables
  <2>4. \A u \in Live' : u # rulesOf[o]
    <3>1. rulesOf[o] = None
      BY <2>2 DEF ObjectsOK
    <3>2. QED
      BY <3>1, LifecycleAssumption DEF Live
  <2>5. QED
    BY <2>1, <2>3, <2>4, NotLonger DEF LeakHere
<1>10. CASE CallUser \/ UserReturns \/ UsePattern
  BY <1>10, MarkStep, NotLonger, NothingLost
<1>11. CASE UNCHANGED lifeVars
  BY <1>11, NotLonger, NothingLost DEF lifeVars
<1>12. QED
  BY <1>1, <1>2, <1>3, <1>4, <1>5, <1>6, <1>7, <1>8, <1>9, <1>10, <1>11 DEF LifeNext

\* A table is left behind in one way only: a constructor or a clone assigns its
\* rules over those that PHP code gave the same object in the meantime.
THEOREM LeaksOnly == LifeSpec => LeaksByOverwriting
<1>1. LifeSpec => []StateOK
  BY StateInit, StateStep, PTL DEF LifeSpec
<1>2. StateOK /\ [LifeNext]_lifeVars => [LeakHere]_lifeVars
  BY LeakStep
<1>3. LifeSpec => [][LeakHere]_lifeVars
  BY <1>1, <1>2, PTL DEF LifeSpec
<1>4. QED
  BY <1>3 DEF LeaksByOverwriting, LeakHere

-----------------------------------------------------------------------------
(* The walks of validate(). *)

\* The inductive part.  A walk is in the table of its object or has lost it; and
\* a call that is still to assign a table to an object began after the walks
\* below it of that object were cut, or with an object that has no other call.
WalkInv ==
    /\ \A k \in DOMAIN frames : frames[k].fn = "validate" =>
          frames[k].table \in {None, rulesOf[frames[k].obj]}
    /\ \A j, k \in DOMAIN frames : j < k /\ frames[j].obj = frames[k].obj =>
          /\ frames[k].fn # "clone"
          /\ frames[k].fn = "construct" /\ frames[j].fn = "validate" =>
                frames[j].table = None

\* The steps of CutByConstructing.
CutHere ==
    \A k \in DOMAIN frames' : frames'[k].fn = "validate" =>
        \/ Walking(k)'
        \/ k \in DOMAIN frames /\ ~Walking(k)
        \/ /\ Len(frames') > Len(frames)
           /\ Last(frames').fn = "construct" /\ Last(frames').obj = frames'[k].obj

\* No new call, and the objects of the walks that go on keep their tables.
LEMMA FewerCalls ==
    ASSUME WalkInv,
           \A k \in DOMAIN frames' : /\ k \in DOMAIN frames
                                    /\ frames'[k].fn = frames[k].fn
                                    /\ frames'[k].obj = frames[k].obj
                                    /\ frames'[k].table = frames[k].table,
           \A k \in DOMAIN frames' :
               frames[k].fn = "validate" /\ frames[k].table # None
                   => rulesOf'[frames[k].obj] = rulesOf[frames[k].obj]
    PROVE  WalkInv' /\ CutHere
<1>1. WalkInv'
  BY DEF WalkInv
<1>2. CutHere
  BY DEF CutHere, Walking
<1>3. QED
  BY <1>1, <1>2

\* A new call: one of validate() starts in the table of its object, a clone is
\* about an object of no other call.
LEMMA OneMoreCall ==
    ASSUME CallsOK, WalkInv, NEW f \in Calls, Enter(frames, f), rulesOf' = rulesOf,
           f.fn = "validate" => f.table # None /\ f.table = rulesOf[f.obj],
           f.fn = "clone" => \A k \in DOMAIN frames : frames[k].obj # f.obj,
           f.fn # "construct"
    PROVE  WalkInv' /\ CutHere
<1>1. /\ frames' \in Seq(Calls)
      /\ \A k \in DOMAIN frames : k \in DOMAIN frames' /\ frames'[k] = frames[k]
      /\ \A k \in DOMAIN frames' : k \in DOMAIN frames \/ k = Len(frames')
      /\ frames'[Len(frames')] = f
      /\ Len(frames') \notin DOMAIN frames
  BY EnterCalls DEF CallsOK
<1>2. \A k \in DOMAIN frames' : k <= Len(frames')
  BY <1>1
<1>3. WalkInv'
  <2>1. \A k \in DOMAIN frames' : frames'[k].fn = "validate" =>
           frames'[k].table \in {None, rulesOf'[frames'[k].obj]}
    BY <1>1 DEF WalkInv
  <2>2. ASSUME NEW j \in DOMAIN frames', NEW k \in DOMAIN frames',
               j < k, frames'[j].obj = frames'[k].obj
        PROVE  /\ frames'[k].fn # "clone"
               /\ frames'[k].fn = "construct" /\ frames'[j].fn = "validate" =>
                     frames'[j].table = None
    <3>1. j \in DOMAIN frames
      BY <1>1, <1>2, <2>2
    <3>2. CASE k \in DOMAIN frames
      BY <1>1, <2>2, <3>1, <3>2 DEF WalkInv
    <3>3. CASE k = Len(frames')
      BY <1>1, <2>2, <3>1, <3>3
    <3>4. QED
      BY <1>1, <3>2, <3>3
  <2>3. QED
    BY <2>1, <2>2 DEF WalkInv
<1>4. CutHere
  BY <1>1 DEF CutHere, Walking
<1>5. QED
  BY <1>3, <1>4

\* A construction cuts the walks of its object and no others.
LEMMA ConstructWalks ==
    ASSUME StateOK, WalkInv, NEW o \in Obj, Construct(o)
    PROVE  WalkInv' /\ CutHere
<1> DEFINE f == Frame("construct", o, None, None, {})
<1> DEFINE calls == CutWalks(rulesOf[o])
<1>1. f \in Calls /\ f.obj = o /\ f.fn = "construct"
  BY EmptyCall DEF Functions
<1>2. /\ calls \in Seq(Calls) /\ DOMAIN calls = DOMAIN frames /\ Len(calls) = Len(frames)
      /\ \A k \in DOMAIN frames :
            /\ calls[k].fn = frames[k].fn /\ calls[k].obj = frames[k].obj
            /\ rulesOf[o] # None /\ frames[k].table = rulesOf[o] => calls[k].table = None
            /\ rulesOf[o] = None \/ frames[k].table # rulesOf[o] => calls[k] = frames[k]
  BY CutCalls DEF StateOK, CallsOK
<1>3. Enter(calls, f)
  BY DEF Construct
<1>4. /\ rulesOf'[o] = None
      /\ \A c \in Obj : c # o => rulesOf'[c] = rulesOf[c]
      /\ \A c \in Obj : c # o /\ rulesOf[c] # None => rulesOf[c] # rulesOf[o]
  BY DroppedTables DEF Construct, Dropped, StateOK
<1> HIDE DEF f, calls
<1>5. /\ frames' \in Seq(Calls) /\ Len(frames') = Len(frames) + 1
      /\ \A k \in DOMAIN frames : k \in DOMAIN frames' /\ frames'[k] = calls[k]
      /\ \A k \in DOMAIN frames' : k \in DOMAIN frames \/ k = Len(frames')
      /\ frames'[Len(frames')] = f
  BY <1>1, <1>2, <1>3, EnterCalls
<1>6. \A k \in DOMAIN frames : frames[k].fn = "validate" => frames[k].obj \in Obj
  BY DEF StateOK, CallsOK, ObjectsOK
\* The walks below, after the step.
<1>7. ASSUME NEW k \in DOMAIN frames, frames[k].fn = "validate"
      PROVE  /\ frames[k].obj = o => frames'[k].table = None
             /\ frames[k].obj # o => /\ frames'[k].table = frames[k].table
                                     /\ rulesOf'[frames[k].obj] = rulesOf[frames[k].obj]
  <2>1. frames[k].table \in {None, rulesOf[frames[k].obj]} /\ frames[k].obj \in Obj
    BY <1>6, <1>7 DEF WalkInv
  <2>2. frames'[k] = calls[k]
    BY <1>5
  <2>3. CASE frames[k].obj = o
    BY <1>2, <2>1, <2>2, <2>3
  <2>4. CASE frames[k].obj # o
    <3>1. rulesOf[o] = None \/ frames[k].table # rulesOf[o]
      BY <1>4, <2>1, <2>4
    <3>2. QED
      BY <1>2, <1>4, <2>1, <2>2, <2>4, <3>1
  <2>5. QED
    BY <2>3, <2>4
<1>8. /\ Len(frames) \in Nat
      /\ \A k \in DOMAIN frames : frames'[k].fn = frames[k].fn /\ frames'[k].obj = frames[k].obj
  BY <1>2, <1>5 DEF StateOK, CallsOK
<1>9. WalkInv'
  <2>1. ASSUME NEW k \in DOMAIN frames', frames'[k].fn = "validate"
        PROVE  frames'[k].table \in {None, rulesOf'[frames'[k].obj]}
    <3>1. k \in DOMAIN frames
      BY <1>1, <1>5, <2>1
    <3>2. frames[k].table \in {None, rulesOf[frames[k].obj]}
      BY <1>8, <2>1, <3>1 DEF WalkInv
    <3>3. QED
      BY <1>7, <1>8, <2>1, <3>1, <3>2
  <2>2. ASSUME NEW j \in DOMAIN frames', NEW k \in DOMAIN frames',
               j < k, frames'[j].obj = frames'[k].obj
        PROVE  /\ frames'[k].fn # "clone"
               /\ frames'[k].fn = "construct" /\ frames'[j].fn = "validate" =>
                     frames'[j].table = None
    <3>1. j \in DOMAIN frames
      BY <1>5, <2>2
    <3>2. CASE k \in DOMAIN frames
      <4>1. /\ frames[k].fn # "clone"
            /\ frames[k].fn = "construct" /\ frames[j].fn = "validate" =>
                  frames[j].table = None
        BY <1>8, <2>2, <3>1, <3>2 DEF WalkInv
      <4>2. QED
        BY <1>7, <1>8, <3>1, <3>2, <4>1
    <3>3. CASE k = Len(frames')
      BY <1>1, <1>5, <1>7, <1>8, <2>2, <3>1, <3>3
    <3>4. QED
      BY <1>5, <3>2, <3>3
  <2>3. QED
    BY <2>1, <2>2 DEF WalkInv
<1>10. CutHere
  <2>1. Last(frames') = f /\ Len(frames') > Len(frames)
    BY <1>5, <1>8 DEF Last
  <2>2. SUFFICES ASSUME NEW k \in DOMAIN frames', frames'[k].fn = "validate",
                        frames'[k].obj # o, k \in DOMAIN frames, Walking(k)
                 PROVE  Walking(k)'
    <3>1. \A k \in DOMAIN frames' : frames'[k].fn = "validate" => k \in DOMAIN frames
      BY <1>1, <1>5
    <3>2. QED
      BY <1>1, <2>1, <3>1 DEF CutHere
  <2>3. QED
    BY <1>7, <1>8, <2>2 DEF Walking
<1>11. QED
  BY <1>9, <1>10

LEMMA WalkStep ==
    ASSUME StateOK, WalkInv, [LifeNext]_lifeVars
    PROVE  WalkInv' /\ CutHere
<1>0. /\ \A k \in DOMAIN frames : frames[k].obj \in alive \cup {None}
      /\ \A k \in DOMAIN frames : frames[k].fn # "make" => frames[k].obj \in Obj
      /\ alive \subseteq born /\ born \subseteq Obj
      /\ None \notin Obj
  BY LifecycleAssumption DEF StateOK, CallsOK, ObjectsOK
<1>1. ASSUME UNCHANGED <<rulesOf, frames>> PROVE WalkInv' /\ CutHere
  BY <1>1, FewerCalls
<1>2. ASSUME NEW o \in Obj, Create(o) \/ Refuse(o) PROVE WalkInv' /\ CutHere
  BY <1>1, <1>2 DEF Create, Refuse, lifeVars
<1>3. ASSUME NEW o \in Obj, Construct(o) PROVE WalkInv' /\ CutHere
  BY <1>3, ConstructWalks
<1>4. ASSUME NEW o \in Obj, Release(o) PROVE WalkInv' /\ CutHere
  <2>1. \A k \in DOMAIN frames : frames[k].obj # o
    BY <1>4 DEF Release, Busy
  <2>2. /\ \A c \in Obj : c # o => rulesOf'[c] = rulesOf[c]
        /\ \A c \in Obj : c # o /\ rulesOf[c] # None => rulesOf[c] # rulesOf[o]
    BY <1>4, DroppedTables DEF Release, Dropped, StateOK
  <2>3. /\ DOMAIN frames' = DOMAIN frames
        /\ \A k \in DOMAIN frames :
              /\ frames'[k].fn = frames[k].fn /\ frames'[k].obj = frames[k].obj
              /\ rulesOf[o] = None \/ frames[k].table # rulesOf[o] => frames'[k] = frames[k]
    BY <1>4, CutCalls DEF Release, StateOK, CallsOK
  <2>4. ASSUME NEW k \in DOMAIN frames, frames[k].fn = "validate"
        PROVE  /\ frames'[k] = frames[k]
               /\ rulesOf'[frames[k].obj] = rulesOf[frames[k].obj]
    <3>1. frames[k].obj \in Obj /\ frames[k].obj # o
      BY <1>0, <2>1, <2>4
    <3>2. frames[k].table \in {None, rulesOf[frames[k].obj]}
      BY <2>4 DEF WalkInv
    <3>3. rulesOf[o] = None \/ frames[k].table # rulesOf[o]
      BY <2>2, <3>1, <3>2
    <3>4. QED
      BY <2>2, <2>3, <3>1, <3>3
  <2>5. WalkInv'
    BY <2>3, <2>4 DEF WalkInv
  <2>6. CutHere
    BY <2>3, <2>4 DEF CutHere, Walking
  <2>7. QED
    BY <2>5, <2>6
<1>5. ASSUME NEW o \in Obj, Validate(o) PROVE WalkInv' /\ CutHere
  <2> DEFINE f == Frame("validate", o, None, rulesOf[o], PatternsOf[content[rulesOf[o]]])
  <2>1. f \in Calls /\ f.obj = o /\ f.fn = "validate" /\ f.table = rulesOf[o]
    BY <1>5, ValidateCall DEF Frame
  <2>2. Enter(frames, f) /\ rulesOf[o] # None /\ rulesOf' = rulesOf
    BY <1>5 DEF Validate, objects
  <2> HIDE DEF f
  <2>3. QED
    BY <2>1, <2>2, OneMoreCall DEF StateOK
<1>6. ASSUME NEW o \in Obj, NEW c \in Obj, Clone(o, c) PROVE WalkInv' /\ CutHere
  <2> DEFINE f == Frame("clone", c, o, None, {})
  <2>1. f \in Calls /\ f.obj = c /\ f.fn = "clone"
    BY EmptyCall DEF Functions
  <2>2. Enter(frames, f) /\ rulesOf' = rulesOf /\ c \notin alive
    BY <1>0, <1>6 DEF Clone
  <2> HIDE DEF f
  <2>3. \A k \in DOMAIN frames : frames[k].obj # c
    BY <1>0, <2>2
  <2>4. QED
    BY <2>1, <2>2, <2>3, OneMoreCall DEF StateOK
<1>7. CASE ConstructFails \/ MakeFails \/ ValidateEnds
  <2>1. frames # <<>> /\ Leave /\ rulesOf' = rulesOf
    BY <1>7 DEF ConstructFails, MakeFails, ValidateEnds, InCall, objects
  <2>2. \A k \in DOMAIN frames' : k \in DOMAIN frames /\ frames'[k] = frames[k]
    BY <2>1, LeaveCalls DEF StateOK, CallsOK
  <2>3. QED
    BY <2>1, <2>2, FewerCalls
<1>8. CASE ConstructEnds \/ CloneEnds
  <2>1. /\ frames # <<>> /\ Leave /\ Top.obj \in Obj
        /\ Top.fn \in {"construct", "clone"}
    BY <1>8, EndSteps DEF InCall
  <2>2. /\ \A k \in DOMAIN frames' : k \in DOMAIN frames /\ frames'[k] = frames[k]
        /\ Len(frames') = Len(frames) - 1 /\ frames' \in Seq(Calls)
    BY <2>1, LeaveCalls DEF StateOK, CallsOK
  <2>3. Len(frames) \in DOMAIN frames /\ Top = frames[Len(frames)]
    BY <2>1, TopCall DEF StateOK
  <2>4. \A c \in Obj : c # Top.obj => rulesOf'[c] = rulesOf[c]
    BY <1>8, EndSteps DEF StateOK, ObjectsOK
  <2>5. ASSUME NEW k \in DOMAIN frames', frames[k].fn = "validate", frames[k].table # None
        PROVE  rulesOf'[frames[k].obj] = rulesOf[frames[k].obj]
    <3>1. k < Len(frames) /\ k \in DOMAIN frames
      BY <2>2
    <3>2. frames[k].obj # Top.obj
      BY <2>1, <2>3, <2>5, <3>1 DEF WalkInv
    <3>3. frames[k].obj \in Obj
      BY <1>0, <2>5, <3>1
    <3>4. QED
      BY <2>4, <3>2, <3>3
  <2>6. QED
    BY <2>2, <2>5, FewerCalls
<1>9. CASE Make
  <2> DEFINE f == Frame("make", None, None, None, {})
  <2>1. f \in Calls /\ f.fn = "make"
    BY EmptyCall DEF Functions
  <2>2. Enter(frames, f) /\ rulesOf' = rulesOf
    BY <1>9 DEF Make, objects
  <2> HIDE DEF f
  <2>3. QED
    BY <2>1, <2>2, OneMoreCall DEF StateOK
<1>10. CASE MakeEnds
  <2>1. frames # <<>> /\ Leave
    BY <1>10 DEF MakeEnds, InCall
  <2>2. \A k \in DOMAIN frames' : k \in DOMAIN frames /\ frames'[k] = frames[k]
    BY <2>1, LeaveCalls DEF StateOK, CallsOK
  <2>3. PICK o \in Obj \ born : \A c \in Obj : c # o => rulesOf'[c] = rulesOf[c]
    BY <1>10 DEF MakeEnds, StateOK, ObjectsOK
  <2>4. QED
    BY <1>0, <2>2, <2>3, FewerCalls
<1>11. CASE CallUser \/ UserReturns \/ UsePattern
  <2>1. frames # <<>> /\ rulesOf' = rulesOf
    BY <1>11, MarkStep DEF StateOK
  <2>2. \A k \in DOMAIN frames' : /\ k \in DOMAIN frames
                                 /\ frames'[k].fn = frames[k].fn
                                 /\ frames'[k].obj = frames[k].obj
                                 /\ frames'[k].table = frames[k].table
    BY <1>11, MarkStep, MarkCalls DEF StateOK, CallsOK
  <2>3. QED
    BY <2>1, <2>2, FewerCalls
<1>12. CASE UNCHANGED lifeVars
  BY <1>1, <1>12 DEF lifeVars
<1>13. QED
  BY <1>2, <1>3, <1>4, <1>5, <1>6, <1>7, <1>8, <1>9, <1>10, <1>11, <1>12 DEF LifeNext

LEMMA WalkInit == LifeInit => WalkInv
BY DEF LifeInit, WalkInv

\* A walk of validate() loses its table in one way only: PHP code that it called
\* constructs its own object again.
THEOREM CutsOnly == LifeSpec => CutByConstructing
<1>1. LifeSpec => [](StateOK /\ WalkInv)
  BY StateInit, WalkInit, StateStep, WalkStep, PTL DEF LifeSpec
<1>2. StateOK /\ WalkInv /\ [LifeNext]_lifeVars => [CutHere]_lifeVars
  BY WalkStep
<1>3. LifeSpec => [][CutHere]_lifeVars
  BY <1>1, <1>2, PTL DEF LifeSpec
<1>4. QED
  BY <1>3 DEF CutByConstructing, CutHere

-----------------------------------------------------------------------------
(* Lifecycle implements ValidatorObjects. *)

LEMMA SameHoldings ==
    ASSUME \A c \in Obj : Holding(c)' = Holding(c), Copying' = Copying
    PROVE  UNCHANGED Contract!vars
BY DEF Contract!vars

LEMMA OneHolding ==
    ASSUME NEW o \in Obj, NEW x, Holding(o)' = x,
           \A c \in Obj : c # o => Holding(c)' = Holding(c)
    PROVE  Contract!Become(o, x)
BY DEF Contract!Become

\* The clones in progress, without and with the one of a call that starts or
\* ends.
LEMMA CopiesKept ==
    ASSUME DOMAIN frames' = DOMAIN frames,
           \A k \in DOMAIN frames : /\ frames'[k].fn = frames[k].fn
                                    /\ frames'[k].obj = frames[k].obj
                                    /\ frames'[k].from = frames[k].from
    PROVE  Copying' = Copying
BY DEF Copying

LEMMA CopiesEntered ==
    ASSUME frames \in Seq(Calls), NEW f \in Calls, NEW t, Enter(CutWalks(t), f)
    PROVE  Copying' = IF f.fn = "clone" THEN Copying \cup {<<f.from, f.obj>>} ELSE Copying
<1> DEFINE calls == CutWalks(t)
<1>1. /\ calls \in Seq(Calls) /\ DOMAIN calls = DOMAIN frames
      /\ \A k \in DOMAIN frames : /\ calls[k].fn = frames[k].fn
                                  /\ calls[k].obj = frames[k].obj
                                  /\ calls[k].from = frames[k].from
  BY CutCalls
<1>2. Enter(calls, f)
  OBVIOUS
<1> HIDE DEF calls
<1>3. /\ \A k \in DOMAIN frames : /\ k \in DOMAIN frames'
                                  /\ frames'[k].fn = frames[k].fn
                                  /\ frames'[k].obj = frames[k].obj
                                  /\ frames'[k].from = frames[k].from
      /\ \A k \in DOMAIN frames' : k \in DOMAIN frames \/ k = Len(frames')
      /\ frames'[Len(frames')] = f
      /\ Len(frames') \in DOMAIN frames'
  BY <1>1, <1>2, EnterCalls
<1>4. QED
  BY <1>3 DEF Copying

LEMMA CopiesLeft ==
    ASSUME CallsOK, WalkInv, frames # <<>>, Leave
    PROVE  Copying' = IF Top.fn = "clone" THEN Copying \ {<<Top.from, Top.obj>>} ELSE Copying
<1>1. /\ frames' \in Seq(Calls) /\ Len(frames') = Len(frames) - 1
      /\ \A k \in DOMAIN frames' : k \in DOMAIN frames /\ frames'[k] = frames[k]
  BY LeaveCalls DEF CallsOK
<1>2. Len(frames) \in DOMAIN frames /\ Top = frames[Len(frames)] /\ frames \in Seq(Calls)
  BY TopCall DEF CallsOK
<1>3. /\ \A k \in DOMAIN frames : k \in DOMAIN frames' \/ k = Len(frames)
      /\ \A k \in DOMAIN frames' : k < Len(frames)
  BY <1>1, <1>2
<1>4. CASE Top.fn # "clone"
  BY <1>1, <1>2, <1>3, <1>4 DEF Copying
<1>5. CASE Top.fn = "clone"
  <2>1. \A k \in DOMAIN frames' : frames[k].obj # Top.obj
    BY <1>1, <1>2, <1>3, <1>5 DEF WalkInv
  <2>2. \A k \in DOMAIN frames' :
           <<frames[k].from, frames[k].obj>> # <<Top.from, Top.obj>>
    BY <2>1
  <2>3. QED
    BY <1>1, <1>2, <1>3, <1>5, <2>2 DEF Copying
<1>6. QED
  BY <1>4, <1>5

\* What an object holds tells whether it is alive.
LEMMA HoldingAlive ==
    ASSUME StateOK, NEW o \in Obj
    PROVE  /\ o \in alive <=> Contract!Alive(o)
           /\ o \in alive => Holding(o) \in RuleSet \cup {Bare}
           /\ o \notin born => Holding(o) = Unborn
           /\ o \in alive => (rulesOf[o] # None <=> Holding(o) \in RuleSet)
           /\ o \in alive /\ rulesOf[o] # None => Holding(o) = content[rulesOf[o]]
<1>1. /\ o \in alive => o \in born
      /\ rulesOf[o] # None => content[rulesOf[o]] \in RuleSet
  BY DEF StateOK, ObjectsOK, OneOwner, Live
<1>2. /\ o \notin born => Holding(o) = Unborn
      /\ o \in born /\ o \notin alive => Holding(o) = Gone
      /\ o \in alive => Holding(o) \in RuleSet \cup {Bare}
      /\ o \in alive /\ rulesOf[o] = None => Holding(o) = Bare
      /\ o \in alive /\ rulesOf[o] # None => Holding(o) = content[rulesOf[o]]
  BY <1>1 DEF Holding
<1>3. Contract!Alive(o) <=> Holding(o) \in RuleSet \cup {Bare}
  BY DEF Contract!Alive
<1>4. QED
  BY <1>1, <1>2, <1>3, LifecycleAssumption

\* An object is given a new table, and nothing else happens to objects.
LEMMA GivenHolding ==
    ASSUME StateOK, NEW o \in Obj, NEW t \in Address \ Live, NEW r \in RuleSet,
           content' = [content EXCEPT ![t] = r],
           rulesOf' = [rulesOf EXCEPT ![o] = t],
           born' = born \cup {o}, alive' = alive \cup {o}
    PROVE  Contract!Become(o, r)
<1>1. /\ rulesOf'[o] = t /\ content'[t] = r /\ t # None
      /\ \A c \in Obj : c # o => /\ rulesOf'[c] = rulesOf[c]
                                 /\ rulesOf[c] # None =>
                                       content'[rulesOf[c]] = content[rulesOf[c]]
  BY GivenTables, LifecycleAssumption DEF StateOK
<1>2. \A c \in Obj : c # o => Holding(c)' = Holding(c)
  BY <1>1 DEF Holding
<1>3. Holding(o)' = r
  BY <1>1 DEF Holding
<1>4. QED
  BY <1>2, <1>3, OneHolding

LEMMA ObjectsStep ==
    ASSUME StateOK, WalkInv, [LifeNext]_lifeVars
    PROVE  [Contract!Next]_(Contract!vars)
<1>0. frames \in Seq(Calls) /\ alive \subseteq born /\ born \subseteq Obj
  BY DEF StateOK, CallsOK, ObjectsOK
<1>1. ASSUME UNCHANGED <<born, alive, rulesOf, content>>, Copying' = Copying
      PROVE  UNCHANGED Contract!vars
  BY <1>1, SameHoldings DEF Holding
<1>2. ASSUME NEW o \in Obj, Create(o) PROVE Contract!Next
  <2>1. \A c \in Obj : c # o => Holding(c)' = Holding(c)
    BY <1>2 DEF Create, Holding
  <2>2. Holding(o)' = Bare
    BY <1>0, <1>2 DEF Create, Holding, StateOK, ObjectsOK
  <2>3. Contract!Become(o, Bare)
    BY <2>1, <2>2, OneHolding
  <2>4. [c \in Obj |-> Holding(c)][o] = Unborn /\ Copying' = Copying
    BY <1>2, HoldingAlive DEF Create, Copying
  <2>5. QED
    BY <2>3, <2>4 DEF Contract!Next, Contract!Create
<1>3. ASSUME NEW o \in Obj, Construct(o) PROVE Contract!Next
  <2>1. /\ rulesOf'[o] = None
        /\ \A c \in Obj : c # o => /\ rulesOf'[c] = rulesOf[c]
                                   /\ rulesOf[c] # None =>
                                         content'[rulesOf[c]] = content[rulesOf[c]]
    BY <1>3, DroppedTables DEF Construct, Dropped, StateOK
  <2>2. \A c \in Obj : c # o => Holding(c)' = Holding(c)
    BY <1>3, <2>1 DEF Construct, Holding
  <2>3. Holding(o)' = Bare
    BY <1>0, <1>3, <2>1 DEF Construct, Holding
  <2>4. Contract!Become(o, Bare) /\ Contract!Alive(o)
    BY <1>3, <2>2, <2>3, OneHolding, HoldingAlive DEF Construct
  <2> DEFINE f == Frame("construct", o, None, None, {})
  <2>5. f \in Calls /\ f.fn = "construct"
    BY EmptyCall DEF Functions
  <2>6. Enter(CutWalks(rulesOf[o]), f)
    BY <1>3 DEF Construct
  <2> HIDE DEF f
  <2>7. Copying' = Copying
    BY <1>0, <2>5, <2>6, CopiesEntered
  <2>8. QED
    BY <2>4, <2>7 DEF Contract!Next, Contract!Drop
<1>4. ASSUME NEW o \in Obj, Release(o) PROVE Contract!Next
  <2>1. \A c \in Obj : c # o => /\ rulesOf'[c] = rulesOf[c]
                                /\ rulesOf[c] # None =>
                                      content'[rulesOf[c]] = content[rulesOf[c]]
    BY <1>4, DroppedTables DEF Release, Dropped, StateOK
  <2>2. \A c \in Obj : c # o => Holding(c)' = Holding(c)
    BY <1>4, <2>1 DEF Release, Holding
  <2>3. Holding(o)' = Gone
    BY <1>0, <1>4 DEF Release, Holding
  <2>4. Contract!Become(o, Gone) /\ Contract!Alive(o)
    BY <1>4, <2>2, <2>3, OneHolding, HoldingAlive DEF Release
  <2>5. Copying' = Copying
    BY <1>0, <1>4, CutCalls, CopiesKept DEF Release
  <2>6. \A pair \in Copying : o \notin {pair[1], pair[2]}
    BY <1>4 DEF Release, Busy, Copying
  <2>7. QED
    BY <2>4, <2>5, <2>6 DEF Contract!Next, Contract!Release
<1>5. ASSUME NEW o \in Obj, NEW c \in Obj, Clone(o, c) PROVE Contract!Next
  <2>1. /\ o \in alive /\ c \notin born /\ c # o /\ rulesOf[c] = None
        /\ born' = born \cup {c} /\ alive' = alive \cup {c}
        /\ UNCHANGED <<rulesOf, content>>
    BY <1>0, <1>5 DEF Clone, StateOK, ObjectsOK
  <2>2. \A d \in Obj : d # c => Holding(d)' = Holding(d)
    BY <2>1 DEF Holding
  <2>3. Holding(c)' = Bare
    BY <2>1 DEF Holding
  <2>4. Contract!Become(c, Bare) /\ Contract!Alive(o)
    BY <2>1, <2>2, <2>3, OneHolding, HoldingAlive
  <2>5. [d \in Obj |-> Holding(d)][c] = Unborn
    BY <2>1, HoldingAlive
  <2> DEFINE f == Frame("clone", c, o, None, {})
  <2>6. f \in Calls /\ f.fn = "clone" /\ f.obj = c /\ f.from = o
    BY EmptyCall DEF Functions
  <2>7. Enter(frames, f)
    BY <1>5 DEF Clone
  <2> HIDE DEF f
  <2>8. Copying' = Copying \cup {<<o, c>>}
    BY <1>0, <2>6, <2>7, PlainEnter, CopiesEntered
  <2>9. QED
    BY <2>4, <2>5, <2>8 DEF Contract!Next, Contract!Clone
<1>6. CASE ConstructEnds
  <2>1. PICK o \in Obj : o = Top.obj /\ o \in alive /\ UNCHANGED <<born, alive>>
    BY <1>6, EndSteps
  <2>2. PICK t \in Address \ Live, r \in RuleSet :
              /\ content' = [content EXCEPT ![t] = r]
              /\ rulesOf' = [rulesOf EXCEPT ![o] = t]
    BY <1>6, <2>1 DEF ConstructEnds
  <2>3. born' = born \cup {o} /\ alive' = alive \cup {o}
    BY <1>0, <2>1
  <2>4. Contract!Become(o, r)
    BY <2>2, <2>3, GivenHolding
  <2>5. Contract!Alive(o)
    BY <2>1, HoldingAlive
  <2>6. Copying' = Copying
    BY <1>6, CopiesLeft DEF ConstructEnds, InCall, StateOK
  <2>7. QED
    BY <2>4, <2>5, <2>6 DEF Contract!Next, Contract!Set
<1>7. CASE MakeEnds
  <2>1. PICK o \in Obj \ born, t \in Address \ Live, r \in RuleSet :
              /\ born' = born \cup {o} /\ alive' = alive \cup {o}
              /\ content' = [content EXCEPT ![t] = r]
              /\ rulesOf' = [rulesOf EXCEPT ![o] = t]
    BY <1>7 DEF MakeEnds
  <2>2. Contract!Become(o, r)
    BY <2>1, GivenHolding
  <2>3. [c \in Obj |-> Holding(c)][o] = Unborn
    BY <2>1, HoldingAlive
  <2>4. Copying' = Copying
    BY <1>7, CopiesLeft DEF MakeEnds, InCall, StateOK
  <2>5. QED
    BY <2>2, <2>3, <2>4 DEF Contract!Next, Contract!Create
<1>8. CASE CloneEnds
  <2> DEFINE o == Top.from
             c == Top.obj
             held == [d \in Obj |-> Holding(d)]
  <2>1. /\ frames # <<>> /\ Top.fn = "clone" /\ Leave
        /\ UNCHANGED <<born, alive>>
    BY <1>8 DEF CloneEnds, InCall
  <2>2. /\ Len(frames) \in DOMAIN frames /\ Top = frames[Len(frames)]
        /\ o \in alive /\ c \in alive
    BY <2>1, TopCall DEF StateOK
  <2>3. o \in Obj /\ c \in Obj
    BY <1>0, <2>2
  <2>4. <<o, c>> \in Copying
    BY <2>1, <2>2 DEF Copying
  <2>5. Copying' = Copying \ {<<o, c>>}
    BY <2>1, CopiesLeft DEF StateOK
  <2>6. Contract!Become(c, IF held[o] \in RuleSet THEN held[o] ELSE held[c])
    <3>1. CASE rulesOf[o] = None
      <4>1. UNCHANGED <<rulesOf, content>>
        BY <1>8, <3>1 DEF CloneEnds
      <4>2. \A d \in Obj : Holding(d)' = Holding(d)
        BY <2>1, <4>1 DEF Holding
      <4>3. Contract!Become(c, Holding(c))
        BY <2>3, <4>2, OneHolding
      <4>4. Holding(o) \notin RuleSet
        BY <2>2, <2>3, <3>1, HoldingAlive
      <4>5. QED
        BY <2>3, <4>3, <4>4
    <3>2. CASE rulesOf[o] # None
      <4>1. PICK t \in Address \ Live :
                  /\ rulesOf' = [rulesOf EXCEPT ![c] = t]
                  /\ content' = [content EXCEPT ![t] = content[rulesOf[o]]]
        BY <1>8, <3>2 DEF CloneEnds
      <4>2. Holding(o) = content[rulesOf[o]] /\ Holding(o) \in RuleSet
        BY <2>2, <2>3, <3>2, HoldingAlive
      <4>3. content[rulesOf[o]] \in RuleSet /\ born' = born \cup {c} /\ alive' = alive \cup {c}
        BY <1>0, <2>1, <2>2, <4>2
      <4>4. Contract!Become(c, content[rulesOf[o]])
        BY <2>3, <4>1, <4>3, GivenHolding
      <4>5. QED
        BY <2>3, <4>2, <4>4
    <3>3. QED
      BY <3>1, <3>2
  <2> HIDE DEF o, c
  <2>7. Contract!CloneEnds(o, c)
    BY <2>4, <2>5, <2>6 DEF Contract!CloneEnds
  <2>8. QED
    BY <2>3, <2>7 DEF Contract!Next
<1>9. ASSUME NEW o \in Obj, Validate(o) PROVE UNCHANGED Contract!vars
  <2> DEFINE f == Frame("validate", o, None, rulesOf[o], PatternsOf[content[rulesOf[o]]])
  <2>1. f \in Calls /\ f.fn = "validate"
    BY <1>9, ValidateCall DEF Frame
  <2>2. Enter(frames, f) /\ UNCHANGED <<born, alive, rulesOf, content>>
    BY <1>9 DEF Validate, objects
  <2> HIDE DEF f
  <2>3. QED
    BY <1>0, <1>1, <2>1, <2>2, PlainEnter, CopiesEntered
<1>10. CASE Make
  <2> DEFINE f == Frame("make", None, None, None, {})
  <2>1. f \in Calls /\ f.fn = "make"
    BY EmptyCall DEF Functions
  <2>2. Enter(frames, f) /\ UNCHANGED <<born, alive, rulesOf, content>>
    BY <1>10 DEF Make, objects
  <2> HIDE DEF f
  <2>3. QED
    BY <1>0, <1>1, <2>1, <2>2, PlainEnter, CopiesEntered
<1>11. CASE ConstructFails \/ MakeFails \/ ValidateEnds
  <2>1. /\ frames # <<>> /\ Leave /\ Top.fn # "clone"
        /\ UNCHANGED <<born, alive, rulesOf, content>>
    BY <1>11 DEF ConstructFails, MakeFails, ValidateEnds, InCall, objects
  <2>2. QED
    BY <1>1, <2>1, CopiesLeft DEF StateOK
<1>12. CASE CallUser \/ UserReturns \/ UsePattern
  BY <1>0, <1>1, <1>12, MarkStep, MarkCalls, CopiesKept DEF StateOK
<1>13. CASE UNCHANGED lifeVars
  BY <1>1, <1>13 DEF lifeVars, Copying
<1>14. ASSUME NEW o \in Obj, Refuse(o) PROVE UNCHANGED Contract!vars
  BY <1>13, <1>14, SameHoldings DEF Refuse, lifeVars, Copying, Holding
<1>15. QED
  BY <1>2, <1>3, <1>4, <1>5, <1>6, <1>7, <1>8, <1>9, <1>10, <1>11, <1>12, <1>13, <1>14
     DEF LifeNext

\* Objects are independent: whatever is done to one, from outside or from PHP
\* code in the middle of a call, each other one keeps the rules it was given;
\* and a clone ends up with those its original has when it is finished.
THEOREM Independent == LifeSpec => ImplementsObjects
<1>1. LifeInit => Contract!Init
  BY DEF LifeInit, Contract!Init, Holding, Copying
<1>2. LifeSpec => [](StateOK /\ WalkInv)
  BY StateInit, WalkInit, StateStep, WalkStep, PTL DEF LifeSpec
<1>3. QED
  BY <1>1, <1>2, ObjectsStep, PTL DEF LifeSpec, ImplementsObjects, Contract!Spec
=============================================================================
