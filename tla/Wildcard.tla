------------------------------ MODULE Wildcard ------------------------------
(***************************************************************************)
(* Dotted paths: reading a value at a path, and expanding a pattern with   *)
(* wildcards into the concrete paths of the data it is applied to.         *)
(*                                                                         *)
(* A path is text; it is modelled by its segments, the texts between its   *)
(* dots, so <<"">> is the empty text and <<"items", "">> is "items.".  An  *)
(* array is a set of keys; the text of a key may itself hold dots or be    *)
(* empty.  The data is a tree: the locations that exist, a location being  *)
(* the keys that lead to it, and those of them that are arrays.            *)
(***************************************************************************)
EXTENDS Integers, SequencesExt

CONSTANTS
    Seg,            \* the segments that occur
    SegSize,        \* their lengths
    Starred,        \* those with a star in them; "*" itself is the wildcard
    Key,            \* the array keys that occur
    KeyOrder,       \* the order arrays are walked in
    Text,           \* what a key is printed as
    KeySize,        \* the size reserved for a printed key
    StringKey,      \* the string key a segment is, for the segments that are one
    IndexKey,       \* the integer key strtol reads a segment as, where it does
    Trees,          \* the data arrays a call may be given
    Patterns,       \* the field names a call may be made for
    Missing,        \* no value (NULL)
    MAX_PATH_LENGTH, MAX_WILDCARD_DEPTH, MAX_EXPANDED_FIELDS

\* The text between two dots that follow each other.
EmptySeg == ""

\* What sf_parse_rules accepts as a field name: no empty segment, and a first
\* segment that starts with a letter or an underscore.
FieldName(p) ==
    /\ p \in Seq(Seg) /\ p # <<>>
    /\ EmptySeg \notin ToSet(p)
    /\ p[1] # "*" /\ p[1] \notin DOMAIN IndexKey

ASSUME WildcardAssumption ==
    /\ EmptySeg \in Seg
    /\ SegSize \in [Seg -> Nat] /\ SegSize[EmptySeg] = 0
    /\ Starred \subseteq Seg
    /\ KeyOrder \in Seq(Key) /\ ToSet(KeyOrder) = Key
    /\ Text \in [Key -> Seq(Seg) \ {<<>>}]
    /\ KeySize \in [Key -> Nat]
    /\ \A s \in DOMAIN StringKey : StringKey[s] \in Key /\ Text[StringKey[s]] = <<s>>
    /\ \A s \in DOMAIN IndexKey : IndexKey[s] \in Key
    /\ \A t \in Trees :
          /\ t.places \subseteq Seq(Key) /\ t.arrays \subseteq t.places /\ <<>> \in t.arrays
          /\ \A loc \in t.places : loc # <<>> => Front(loc) \in t.arrays
    /\ \A p \in Patterns : FieldName(p)
    /\ {MAX_PATH_LENGTH, MAX_WILDCARD_DEPTH, MAX_EXPANDED_FIELDS} \subseteq Nat

VARIABLES
    data,       \* the array given to validate()
    pattern,    \* the field name with wildcards
    stack,      \* the calls of expand_wildcards_recursive in progress
    result,     \* the paths found, each with the element the loop stood at
    blocks      \* the blocks of memory that were allocated and not yet freed

vars == <<data, pattern, stack, result, blocks>>

-----------------------------------------------------------------------------
\* The loops read segments while text remains: a trailing dot adds none.
Segments(path) == IF Last(path) = EmptySeg THEN Front(path) ELSE path

EmptyText == <<EmptySeg>>

\* Mutant of Child: only string keys are tried.
ChildByName(loc, s) ==
    IF loc = Missing \/ loc \notin data.arrays THEN Missing
    ELSE IF s \in DOMAIN StringKey /\ Append(loc, StringKey[s]) \in data.places
         THEN Append(loc, StringKey[s])
    ELSE Missing

\* One turn of sf_get_nested_value: the string key first, then the index.
Child(loc, s) ==
    IF loc = Missing \/ loc \notin data.arrays THEN Missing
    ELSE IF s \in DOMAIN StringKey /\ Append(loc, StringKey[s]) \in data.places
         THEN Append(loc, StringKey[s])
    ELSE IF s \in DOMAIN IndexKey /\ Append(loc, IndexKey[s]) \in data.places
         THEN Append(loc, IndexKey[s])
    ELSE Missing

GetNestedValue(path) ==
    IF path = EmptyText THEN Missing ELSE FoldLeft(Child, <<>>, Segments(path))

\* The array a prefix stands for; the empty prefix is the root.
ArrayAt(prefix) ==
    LET loc == IF prefix = EmptyText THEN <<>> ELSE GetNestedValue(prefix)
    IN  IF loc \in data.arrays THEN loc ELSE Missing

HasWildcard(path) == ToSet(path) \cap Starred # {}

Size(path) == FoldLeft(LAMBDA n, s : n + SegSize[s], 0, path) + Len(path) - 1

\* A dot is written only after a prefix that is not empty.
Join(prefix, text) == IF prefix = EmptyText THEN text ELSE prefix \o text

\* The two length checks; the first subtracts in size_t, so it says nothing
\* of an addition longer than the limit.
TooLong(prefix, size) ==
    \/ size + 2 <= MAX_PATH_LENGTH /\ Size(prefix) > MAX_PATH_LENGTH - size - 2
    \/ Size(prefix) + (IF prefix = EmptyText THEN 0 ELSE 1) + size > MAX_PATH_LENGTH

KeysOf(loc) ==
    FoldLeft(LAMBDA keys, k : IF Append(loc, k) \in data.places THEN Append(keys, k) ELSE keys,
             <<>>, KeyOrder)

Paths == {result[i].path : i \in DOMAIN result}

\* zend_hash_add_ptr: a path that is already there is not added again.
AddPath(path, element) ==
    IF path \in Paths THEN result
    ELSE Append(result, [path |-> path, element |-> element])

\* Mutant of Stored: the result of the insertion is not looked at.
StoredAlways(path) == 2

\* The blocks an insertion leaves: an entry and the text of its path, both freed
\* again if the table has the path.
Stored(path) == IF path \in Paths THEN 0 ELSE 2

\* Mutant of Call: a call counts itself twice.
CallDeeper(rest, prefix, depth) ==
    [at |-> "start", rest |-> rest, prefix |-> prefix, depth |-> depth + 1,
     place |-> Missing, keys |-> <<>>]

\* A call that starts, and one that is in its loop over the keys of an array.
Call(rest, prefix, depth) ==
    [at |-> "start", rest |-> rest, prefix |-> prefix, depth |-> depth,
     place |-> Missing, keys |-> <<>>]

Top == stack[Len(stack)]
Below == Front(stack)

\* The prefixes freed when the call at the top returns: the one made for it, and
\* those of the calls that appended a plain segment, which return with it.
Released == Top.depth - (IF Below = <<>> THEN 0 ELSE Last(Below).depth)

Return == stack' = Below /\ blocks' = blocks - Released

-----------------------------------------------------------------------------
Init ==
    /\ data \in Trees
    /\ pattern \in Patterns
    /\ result = <<>>
    /\ blocks = 0
    /\ stack = <<Call(Segments(pattern), EmptyText, 0)>>

Starting == stack # <<>> /\ Top.at = "start"

\* The pattern has no wildcard: it is the only path.
NoWildcard ==
    /\ Starting
    /\ ~HasWildcard(pattern)
    /\ result' = <<[path |-> pattern, element |-> Missing]>>
    /\ blocks' = blocks + Stored(pattern)
    /\ stack' = <<>>
    /\ UNCHANGED <<data, pattern>>

\* Mutants of Refused: no limit on the paths; every prefix must be an array;
\* only a wildcard needs an array.
RefusedUncapped ==
    \/ Top.depth > MAX_WILDCARD_DEPTH
    \/ Top.rest # <<>> /\ ArrayAt(Top.prefix) = Missing
RefusedAbsent ==
    \/ Top.depth > MAX_WILDCARD_DEPTH
    \/ Len(result) >= MAX_EXPANDED_FIELDS
    \/ ArrayAt(Top.prefix) = Missing
RefusedUnchecked ==
    \/ Top.depth > MAX_WILDCARD_DEPTH
    \/ Len(result) >= MAX_EXPANDED_FIELDS
    \/ Top.rest # <<>> /\ Head(Top.rest) = "*" /\ ArrayAt(Top.prefix) = Missing

\* The early returns: too deep, too many paths, or no array to go into.
Refused ==
    \/ Top.depth > MAX_WILDCARD_DEPTH
    \/ Len(result) >= MAX_EXPANDED_FIELDS
    \/ Top.rest # <<>> /\ ArrayAt(Top.prefix) = Missing

Refuse ==
    /\ Starting
    /\ HasWildcard(pattern)
    /\ Refused
    /\ Return
    /\ UNCHANGED <<data, pattern, result>>

\* The pattern is used up: the prefix is a path, with a value or not.
EndOfPattern ==
    /\ Starting
    /\ HasWildcard(pattern)
    /\ ~Refused
    /\ Top.rest = <<>>
    /\ result' = AddPath(Top.prefix, Missing)
    /\ stack' = Below
    /\ blocks' = blocks + Stored(Top.prefix) - Released
    /\ UNCHANGED <<data, pattern>>

\* A plain segment is appended, and the rest expanded in a deeper call.
PlainSegment ==
    /\ Starting
    /\ HasWildcard(pattern)
    /\ ~Refused
    /\ Top.rest # <<>>
    /\ Head(Top.rest) # "*"
    /\ \/ TooLong(Top.prefix, SegSize[Head(Top.rest)]) /\ Return
       \/ /\ ~TooLong(Top.prefix, SegSize[Head(Top.rest)])
          /\ stack' = Append(Below, Call(Tail(Top.rest),
                                         Join(Top.prefix, <<Head(Top.rest)>>),
                                         Top.depth + 1))
          /\ blocks' = blocks + 1
    /\ UNCHANGED <<data, pattern, result>>

\* A wildcard starts a loop over the keys of the array.
StartLoop ==
    /\ Starting
    /\ HasWildcard(pattern)
    /\ ~Refused
    /\ Top.rest # <<>>
    /\ Head(Top.rest) = "*"
    /\ stack' = Append(Below, [Top EXCEPT !.at = "loop",
                                          !.place = ArrayAt(Top.prefix),
                                          !.keys = KeysOf(ArrayAt(Top.prefix))])
    /\ UNCHANGED <<data, pattern, result, blocks>>

\* Mutant of LoopKey: a path that is already known does not advance the loop.
LoopKeyStuck ==
    /\ stack # <<>>
    /\ Top.at = "loop"
    /\ Top.keys # <<>>
    /\ LET key == Head(Top.keys)
           path == Join(Top.prefix, Text[key])
           loop == Append(Below, [Top EXCEPT !.keys = IF path \in Paths THEN @ ELSE Tail(@)])
       IN  \/ /\ Tail(Top.rest) = <<>>
              /\ result' = AddPath(path, Append(Top.place, key))
              /\ blocks' = blocks + Stored(path)
              /\ stack' = loop
           \/ /\ Tail(Top.rest) # <<>>
              /\ stack' = Append(loop, Call(Tail(Top.rest), path, Top.depth + 1))
              /\ blocks' = blocks + 1
              /\ UNCHANGED result
    /\ UNCHANGED <<data, pattern>>

\* One key of the loop: skipped, added as a path, or expanded further.
LoopKey ==
    /\ stack # <<>>
    /\ Top.at = "loop"
    /\ Top.keys # <<>>
    /\ LET key == Head(Top.keys)
           path == Join(Top.prefix, Text[key])
           loop == Append(Below, [Top EXCEPT !.keys = Tail(@)])
       IN  \/ /\ TooLong(Top.prefix, KeySize[key])
              /\ stack' = loop
              /\ UNCHANGED <<result, blocks>>
           \/ /\ ~TooLong(Top.prefix, KeySize[key])
              /\ Tail(Top.rest) = <<>>
              /\ result' = AddPath(path, Append(Top.place, key))
              /\ blocks' = blocks + Stored(path)
              /\ stack' = loop
           \/ /\ ~TooLong(Top.prefix, KeySize[key])
              /\ Tail(Top.rest) # <<>>
              /\ stack' = Append(loop, Call(Tail(Top.rest), path, Top.depth + 1))
              /\ blocks' = blocks + 1
              /\ UNCHANGED result
    /\ UNCHANGED <<data, pattern>>

EndLoop ==
    /\ stack # <<>>
    /\ Top.at = "loop"
    /\ Top.keys = <<>>
    /\ Return
    /\ UNCHANGED <<data, pattern, result>>

\* sf_expand_wildcards has returned.
Returned == stack = <<>> /\ UNCHANGED vars

Step == \/ NoWildcard \/ Refuse \/ EndOfPattern \/ PlainSegment
        \/ StartLoop \/ LoopKey \/ EndLoop

Next == Step \/ Returned

Spec == Init /\ [][Next]_vars

FairSpec == Spec /\ WF_vars(Step)

-----------------------------------------------------------------------------
\* The type invariant of an expansion.
TypeOK ==
    /\ <<>> \in data.arrays
    /\ pattern \in Patterns
    /\ \A i \in DOMAIN result :
          /\ result[i].path \in Seq(Seg)
          /\ result[i].element \in data.places \cup {Missing}
    /\ \A i \in DOMAIN stack :
          /\ stack[i].at \in {"start", "loop"}
          /\ stack[i].prefix \in Seq(Seg) \ {<<>>}
          /\ stack[i].depth \in 0 .. Len(pattern)
          /\ stack[i].keys \in Seq(Key)
          /\ stack[i].at = "loop" => stack[i].place \in data.arrays

\* A key whose printed form is one segment that leads back to it.
PlainKey(k) ==
    /\ Len(Text[k]) = 1 /\ Text[k] # EmptyText
    /\ LET s == Text[k][1] IN
       IF s \in DOMAIN StringKey THEN StringKey[s] = k
       ELSE s \in DOMAIN IndexKey /\ IndexKey[s] = k

PlainData == \A loc \in data.places : loc # <<>> => PlainKey(Last(loc))

\* What the pattern means, said without an algorithm: it means the paths that
\* agree with it segment by segment, where "*" stands for any key of the array it
\* is in, every proper prefix being an array.  A last plain segment need not exist.
Meant(p) ==
    LET segments == Segments(pattern)
        Prefix(i) == IF i = 0 THEN EmptyText ELSE SubSeq(p, 1, i)
    IN  /\ Len(p) = Len(segments)
        /\ \A i \in DOMAIN segments :
              LET place == ArrayAt(Prefix(i - 1)) IN
              /\ place # Missing
              /\ IF segments[i] = "*"
                 THEN \E k \in Key : Append(place, k) \in data.places /\ Text[k] = <<p[i]>>
                 ELSE p[i] = segments[i]

Expected ==
    LET segments == Segments(pattern)
        Printed == {s \in Seg : \E k \in Key : Text[k] = <<s>>}
    IN  {p \in [DOMAIN segments -> Printed \cup ToSet(segments)] : Meant(p)}

Wild == HasWildcard(pattern)

\* Every path found is one the pattern means.
ExpansionSound == Wild /\ PlainData => \A p \in Paths : Meant(p)

\* No limit was met: neither depth, number of paths, nor length.
WithinLimits ==
    /\ Len(Segments(pattern)) <= MAX_WILDCARD_DEPTH
    /\ Len(result) < MAX_EXPANDED_FIELDS
    /\ \A p \in Expected, size \in {0} \cup {KeySize[k] : k \in Key} :
          Size(p) + size + 2 <= MAX_PATH_LENGTH

\* Every path the pattern means is found, unless a limit is met.
ExpansionComplete ==
    stack = <<>> /\ Wild /\ PlainData /\ WithinLimits => Expected \subseteq Paths

\* Whatever early return a call took, and however often a path came up, what is
\* left in the end is what the table owns: an entry and a text for each path.
TableOwnsAll == stack = <<>> => blocks = 2 * Len(result)

\* The path made for an element of an array reads that element back.
SameElement ==
    \A i \in DOMAIN result : result[i].element # Missing =>
        GetNestedValue(result[i].path) = result[i].element

\* What holds of it: a key that prints as one segment is found again.  A key
\* with a dot is split by the lookup and reads another element, or none.
PlainSameElement == PlainData => SameElement

\* The limit on the number of paths is looked at when a call starts, not for
\* each path: a last loop may pass it, by less than the size of one array.
CapOvershoot ==
    Wild /\ Len(result) > MAX_EXPANDED_FIELDS =>
        \E loc \in data.arrays : Len(result) < MAX_EXPANDED_FIELDS + Len(KeysOf(loc))

\* The rules of a pattern are applied to every element of the array its first
\* wildcard stands in.  The run scalar_element_skipped shows that they are not.
NoElementSkipped ==
    stack = <<>> /\ "*" \in ToSet(pattern) /\ PlainData =>
        LET segments == Segments(pattern)
            first == CHOOSE i \in DOMAIN segments :
                        segments[i] = "*" /\ \A j \in 1 .. i - 1 : segments[j] # "*"
            prefix == IF first = 1 THEN EmptyText ELSE SubSeq(segments, 1, first - 1)
            place == ArrayAt(prefix)
        IN  place # Missing => \A k \in ToSet(KeysOf(place)) :
                \E p \in Paths : SubSeq(p, 1, first) = Join(prefix, Text[k])

\* The expansion ends.
Terminates == <>(stack = <<>>)

=============================================================================
