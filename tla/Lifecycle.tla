----------------------------- MODULE Lifecycle -----------------------------
(***************************************************************************)
(* Validator objects: created, constructed, constructed again, made,       *)
(* cloned, validated with and freed.  Each owns a table of parsed rules    *)
(* and a cache of compiled patterns.                                       *)
(*                                                                         *)
(* There is one thread, but a call into the extension can call PHP code    *)
(* in its turn: the parser and the conditions raise warnings, which an     *)
(* error handler receives, and comparing an object with a text asks it for *)
(* its text.  A call in progress is a frame; while its PHP code runs that  *)
(* code may start any operation on any object it can reach.                *)
(***************************************************************************)
EXTENDS Integers, SequencesExt

CONSTANTS
    Obj,            \* validator objects
    Address,        \* addresses of rule tables; a freed one is used again
    RuleSet,        \* the rules arrays that parse
    Pattern,        \* the patterns of regex rules and conditions
    PatternsOf,     \* those in each set of rules
    Compiles,       \* those that PCRE2 compiles
    Reentrant,      \* the operations the PHP code of each function may start
    MaxFrames,      \* bound: how many calls are in progress at once
    None, Unborn, Bare, Gone

Functions == {"construct", "make", "clone", "validate"}
Operations == {"create", "construct", "make", "clone", "validate", "release"}

ASSUME LifecycleAssumption ==
    /\ PatternsOf \in [RuleSet -> SUBSET Pattern]
    /\ Compiles \subseteq Pattern
    /\ Reentrant \subseteq Functions \X Operations
    /\ MaxFrames \in Nat
    /\ None \notin Address \cup RuleSet \cup Obj
    /\ {Unborn, Bare, Gone} \cap RuleSet = {}
    /\ Unborn # Bare /\ Gone # Bare /\ Unborn # Gone

VARIABLES
    born,       \* the objects that were created
    alive,      \* those not freed since
    rulesOf,    \* intern->rules of each object
    cache,      \* intern->regex_cache: the patterns compiled for each object
    content,    \* what each live table holds
    frames      \* the calls into the extension that are in progress

lifeVars == <<born, alive, rulesOf, cache, content, frames>>
objects == <<born, alive, rulesOf, cache>>

-----------------------------------------------------------------------------
Live == {t \in Address : content[t] # None}
Top == frames[Len(frames)]

\* A call that has started; from is the object a clone is made of, and user says
\* that the call is in PHP code.
Frame(fn, o, from, table, todo) ==
    [fn |-> fn, obj |-> o, from |-> from, table |-> table, todo |-> todo, user |-> FALSE]

\* A table is freed: a walk that is in it goes on over memory that may hold
\* anything.
CutWalks(table) ==
    [k \in DOMAIN frames |->
        IF table # None /\ frames[k].table = table
        THEN [frames[k] EXCEPT !.table = None, !.todo = Pattern] ELSE frames[k]]

\* Nothing is in progress, or PHP code that may start this operation.
MayStart(op) == frames # <<>> => Top.user /\ <<Top.fn, op>> \in Reentrant

\* A call in progress holds a reference to this object.
Busy(o) == \E k \in DOMAIN frames : o \in {frames[k].obj, frames[k].from}

Enter(calls, frame) == Len(frames) < MaxFrames /\ frames' = Append(calls, frame)
Leave == frames' = Front(frames)

InCall(fn) == frames # <<>> /\ Top.fn = fn /\ ~Top.user

LifeInit ==
    /\ born = {}
    /\ alive = {}
    /\ rulesOf = [o \in Obj |-> None]
    /\ cache = [o \in Obj |-> {}]
    /\ content = [t \in Address |-> None]
    /\ frames = <<>>

\* object_init_ex without a constructor, as a subclass can do.
Create(o) ==
    /\ MayStart("create")
    /\ o \notin born
    /\ born' = born \cup {o}
    /\ alive' = alive \cup {o}
    /\ UNCHANGED <<rulesOf, cache, content, frames>>

\* Mutant of Dropped: the old rules are freed only once the new ones parsed,
\* and nobody clears the pointer.
DroppedNotCleared(o) ==
    /\ content' = IF rulesOf[o] = None THEN content ELSE [content EXCEPT ![rulesOf[o]] = None]
    /\ UNCHANGED rulesOf

\* The rules an object owned are freed and forgotten.
Dropped(o) ==
    /\ content' = IF rulesOf[o] = None THEN content ELSE [content EXCEPT ![rulesOf[o]] = None]
    /\ rulesOf' = [rulesOf EXCEPT ![o] = None]

\* Mutant of Construct: the rules of an earlier construction are forgotten.
ConstructAgain(o) ==
    /\ MayStart("construct")
    /\ o \in alive
    /\ Enter(frames, Frame("construct", o, None, None, {}))
    /\ UNCHANGED <<objects, content>>

\* __construct frees the rules of an earlier construction, whoever is walking
\* over them, then parses.
Construct(o) ==
    /\ MayStart("construct")
    /\ o \in alive
    /\ Dropped(o)
    /\ Enter(CutWalks(rulesOf[o]), Frame("construct", o, None, None, {}))
    /\ UNCHANGED <<born, alive, cache>>

\* The parse failed, with or without an exception: the object has no rules.
ConstructFails ==
    /\ InCall("construct")
    /\ Leave
    /\ UNCHANGED <<objects, content>>

\* The parse returned a table, which is assigned whatever the object has now.
ConstructEnds ==
    /\ InCall("construct")
    /\ \E t \in Address \ Live, r \in RuleSet :
          /\ content' = [content EXCEPT ![t] = r]
          /\ rulesOf' = [rulesOf EXCEPT ![Top.obj] = t]
    /\ Leave
    /\ UNCHANGED <<born, alive, cache>>

\* make() parses first, and creates the object only for rules that parsed.
Make ==
    /\ MayStart("make")
    /\ Enter(frames, Frame("make", None, None, None, {}))
    /\ UNCHANGED <<objects, content>>

MakeFails ==
    /\ InCall("make")
    /\ Leave
    /\ UNCHANGED <<objects, content>>

MakeEnds ==
    /\ InCall("make")
    /\ \E o \in Obj \ born, t \in Address \ Live, r \in RuleSet :
          /\ born' = born \cup {o}
          /\ alive' = alive \cup {o}
          /\ content' = [content EXCEPT ![t] = r]
          /\ rulesOf' = [rulesOf EXCEPT ![o] = t]
    /\ Leave
    /\ UNCHANGED cache

\* The clone handler creates the object and copies its PHP properties, which
\* runs the __clone of a subclass.
Clone(o, c) ==
    /\ MayStart("clone")
    /\ o \in alive
    /\ c \notin born
    /\ born' = born \cup {c}
    /\ alive' = alive \cup {c}
    /\ Enter(frames, Frame("clone", c, o, None, {}))
    /\ UNCHANGED <<rulesOf, cache, content>>

\* Mutant of CloneEnds: the clone points to the rules of its original.
CloneShallow ==
    /\ InCall("clone")
    /\ rulesOf' = [rulesOf EXCEPT ![Top.obj] = rulesOf[Top.from]]
    /\ Leave
    /\ UNCHANGED <<born, alive, cache, content>>

\* It then assigns a new table with a deep copy of the rules its original has
\* now, if it has any, and does not look at what __clone gave the clone.
CloneEnds ==
    /\ InCall("clone")
    /\ \/ /\ rulesOf[Top.from] = None
          /\ UNCHANGED <<rulesOf, content>>
       \/ /\ rulesOf[Top.from] # None
          /\ \E t \in Address \ Live :
                /\ rulesOf' = [rulesOf EXCEPT ![Top.obj] = t]
                /\ content' = [content EXCEPT ![t] = content[rulesOf[Top.from]]]
    /\ Leave
    /\ UNCHANGED <<born, alive, cache>>

\* Mutant of Release: the rules stay behind.
ReleaseObject(o) ==
    /\ MayStart("release")
    /\ o \in alive
    /\ ~Busy(o)
    /\ alive' = alive \ {o}
    /\ rulesOf' = [rulesOf EXCEPT ![o] = None]
    /\ cache' = [cache EXCEPT ![o] = {}]
    /\ UNCHANGED <<born, content, frames>>

\* The last reference to an object is given up; a call in progress holds one.
Release(o) ==
    /\ MayStart("release")
    /\ o \in alive
    /\ ~Busy(o)
    /\ alive' = alive \ {o}
    /\ Dropped(o)
    /\ cache' = [cache EXCEPT ![o] = {}]
    /\ frames' = CutWalks(rulesOf[o])
    /\ UNCHANGED born

\* validate() throws for an object without rules.
Refuse(o) ==
    /\ MayStart("validate")
    /\ o \in alive
    /\ rulesOf[o] = None
    /\ UNCHANGED lifeVars

\* The loop of validate() takes the address of the table once.
Validate(o) ==
    /\ MayStart("validate")
    /\ o \in alive
    /\ rulesOf[o] # None
    /\ Enter(frames, Frame("validate", o, None, rulesOf[o], PatternsOf[content[rulesOf[o]]]))
    /\ UNCHANGED <<objects, content>>

\* Mutant of Compiled: a pattern that does not compile is cached as well.
CompiledAnyway(o, p) == cache[o] \cup {p}

\* sf_get_or_compile_regex: the cache is asked, then the compiler; a pattern
\* that does not compile is not remembered.
Compiled(o, p) == IF p \in cache[o] \/ p \notin Compiles THEN cache[o] ELSE cache[o] \cup {p}

UsePattern ==
    /\ InCall("validate")
    /\ \E p \in Top.todo :
          /\ cache' = [cache EXCEPT ![Top.obj] = Compiled(Top.obj, p)]
          /\ frames' = [frames EXCEPT ![Len(frames)].todo = @ \ {p}]
    /\ UNCHANGED <<born, alive, rulesOf, content>>

\* The walk is over; a rule that skips may have left patterns unused.
ValidateEnds ==
    /\ InCall("validate")
    /\ Leave
    /\ UNCHANGED <<objects, content>>

\* A call starts PHP code, which returns to it.
CallUser ==
    /\ frames # <<>>
    /\ ~Top.user
    /\ \E op \in Operations : <<Top.fn, op>> \in Reentrant
    /\ frames' = [frames EXCEPT ![Len(frames)].user = TRUE]
    /\ UNCHANGED <<objects, content>>

UserReturns ==
    /\ frames # <<>>
    /\ Top.user
    /\ frames' = [frames EXCEPT ![Len(frames)].user = FALSE]
    /\ UNCHANGED <<objects, content>>

LifeNext ==
    \/ \E o \in Obj : \/ Create(o) \/ Construct(o) \/ Release(o)
                      \/ Refuse(o) \/ Validate(o)
                      \/ \E c \in Obj : Clone(o, c)
    \/ ConstructFails \/ ConstructEnds \/ Make \/ MakeFails \/ MakeEnds \/ CloneEnds
    \/ UsePattern \/ ValidateEnds \/ CallUser \/ UserReturns

LifeSpec == LifeInit /\ [][LifeNext]_lifeVars

-----------------------------------------------------------------------------
\* The type invariant; an object that is gone owns nothing.
TypeOK ==
    /\ alive \subseteq born /\ born \subseteq Obj
    /\ rulesOf \in [Obj -> Address \cup {None}]
    /\ cache \in [Obj -> SUBSET Compiles]
    /\ content \in [Address -> RuleSet \cup {None}]
    /\ \A o \in Obj \ alive : rulesOf[o] = None /\ cache[o] = {}
    /\ \A k \in DOMAIN frames :
          /\ frames[k].fn \in Functions
          /\ frames[k].fn # "make" => frames[k].obj \in alive
          /\ k < Len(frames) => frames[k].user

\* Every table an object points to is live, and no two objects point to one:
\* each can be freed in any order.
OneOwner ==
    /\ \A o \in Obj : rulesOf[o] # None => rulesOf[o] \in Live
    /\ \A o, c \in Obj : rulesOf[o] # None /\ rulesOf[o] = rulesOf[c] => o = c

\* Every live table is owned by an object, so nothing is left behind.  Not so:
\* see the run nested_construct_leaks.
Owned(t) == \E o \in Obj : rulesOf[o] = t
NothingLeaks == \A t \in Live : Owned(t)

\* The one way to leave a table behind: a constructor, or a clone, comes to its
\* end and assigns its table over one that PHP code gave to the same object
\* since that call began, when the object had none.  Second constructions,
\* failed parses and frees lose nothing, from wherever they are called.
LeaksByOverwriting ==
    [][/\ \A t \in Live' :
             \/ Owned(t)'
             \/ t \in Live /\ ~Owned(t)
             \/ /\ InCall("construct") \/ InCall("clone")
                /\ Len(frames') < Len(frames)
                /\ t = rulesOf[Top.obj]
       /\ Len(frames') > Len(frames) /\ Last(frames').fn \in {"construct", "clone"}
             => rulesOf'[Last(frames').obj] = None]_lifeVars

\* A call of validate() walks the table its object owns, from its first rule to
\* its last; nothing else keeps that table alive.  Not so either: see the run
\* walked_table_freed.
Walking(k) == frames[k].table # None /\ frames[k].table = rulesOf[frames[k].obj]
WalksOwnTable == \A k \in DOMAIN frames : frames[k].fn = "validate" => Walking(k)

\* The one way a walk loses its table: its own object is constructed again from
\* the PHP code it called.  A walk starts in the table of its object and stays
\* there whatever happens to other objects, clones of this one among them.
CutByConstructing ==
    [][\A k \in DOMAIN frames' : frames'[k].fn = "validate" =>
          \/ Walking(k)'
          \/ k \in DOMAIN frames /\ ~Walking(k)
          \/ /\ Len(frames') > Len(frames)
             /\ Last(frames').fn = "construct" /\ Last(frames').obj = frames'[k].obj]_lifeVars

\* What an object has been given, as ValidatorObjects sees it.
Holding(o) ==
    CASE o \notin born                         -> Unborn
      [] o \in born \ alive                    -> Gone
      [] o \in alive /\ rulesOf[o] = None      -> Bare
      [] o \in alive /\ rulesOf[o] # None      -> content[rulesOf[o]]

\* The clones that are being made, each with its original.
Copying == {<<frames[k].from, frames[k].obj>> : k \in {j \in DOMAIN frames : frames[j].fn = "clone"}}

Contract == INSTANCE ValidatorObjects
                WITH holds <- [o \in Obj |-> Holding(o)], copies <- Copying

\* The objects are as independent as ValidatorObjects promises: no operation on
\* one changes the rules of another, and a clone has what its original has when
\* it is finished.
ImplementsObjects == Contract!Spec
=============================================================================
