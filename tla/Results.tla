------------------------------ MODULE Results ------------------------------
(***************************************************************************)
(* ValidationResult objects and who shares the values they hold.  Nothing  *)
(* in result.c or at the end of validate_field copies a value: tables take *)
(* a reference count on it.  A program that calls the extension meanwhile  *)
(* writes to its own variables, and PHP writes in place where the count is *)
(* one, and through PHP references (&) wherever they are.                  *)
(*                                                                         *)
(* Each table has one field here; a box is a counted value, or a reference *)
(* with the value in it.                                                   *)
(***************************************************************************)
EXTENDS Integers, FiniteSets

CONSTANTS
    Box,            \* the memory
    ResultId,       \* the results that exist over time
    Content,        \* what a value may be
    Passing,        \* the contents the rules accept
    Messages,       \* the content of an array of messages
    Nothing         \* no value

ASSUME ResultAssumption ==
    /\ Box \subseteq Nat /\ IsFiniteSet(Box) /\ ResultId \subseteq Nat \ {0}
    /\ Passing \subseteq Content /\ Messages \notin Content
    /\ Nothing \notin Box /\ Nothing \notin Content \cup {Messages}

\* What can hold a value: the data of the caller, a variable of his, an array a
\* result has given him, and the two tables of each result.
Mine == {<<0, "data">>, <<0, "variable">>, <<0, "array">>}
Table(r, t) == <<r, t>>
Tables == ResultId \X {"validated", "errors"}
Holder == Mine \cup Tables

VARIABLES
    heap,       \* [kind, content, refs] of each box
    holds,      \* the box each holder has, or Nothing
    standing    \* of each result: "none", "valid", "failed"

resultVars == <<heap, holds, standing>>

-----------------------------------------------------------------------------
Free == [kind |-> "free", content |-> Nothing, refs |-> 0]
NewValue(c) == [kind |-> "value", content |-> c, refs |-> 1]

Present(h) == holds[h] # Nothing

\* A heap in which b has n holders more, or fewer: the last one frees it.
Counted(hp, b, n) ==
    IF b = Nothing THEN hp
    ELSE IF hp[b].refs + n = 0 THEN [hp EXCEPT ![b] = Free]
    ELSE [hp EXCEPT ![b].refs = @ + n]

\* The box the allocator hands out: the lowest that is free, so that a box is
\* used again as soon as it can be.
Unused(hp) ==
    LET free == {b \in Box : hp[b].kind = "free"}
    IN  {b \in free : \A c \in free : b <= c}

ResultInit ==
    /\ heap = [b \in Box |-> Free]
    /\ holds = [h \in Holder |-> Nothing]
    /\ standing = [r \in ResultId |-> "none"]

-----------------------------------------------------------------------------
\* The caller assigns to a variable or an element.  PHP writes into a reference
\* and into a value nobody else holds; a value that is shared is left to others.
CallerWrites(h, c) ==
    /\ UNCHANGED standing
    /\ IF Present(h) /\ (heap[holds[h]].kind = "ref" \/ heap[holds[h]].refs = 1)
       THEN heap' = [heap EXCEPT ![holds[h]].content = c] /\ UNCHANGED holds
       ELSE \E b \in Unused(heap) :
               /\ heap' = [Counted(heap, holds[h], -1) EXCEPT ![b] = NewValue(c)]
               /\ holds' = [holds EXCEPT ![h] = b]

CallerUnsets(h) ==
    /\ Present(h)
    /\ heap' = Counted(heap, holds[h], -1)
    /\ holds' = [holds EXCEPT ![h] = Nothing]
    /\ UNCHANGED standing

\* $variable = &$data[...], or of an array a result has given.
CallerRefers(h) ==
    LET b == holds[h] IN
    /\ Present(h) /\ ~Present(<<0, "variable">>)
    /\ IF heap[b].kind = "ref"
       THEN /\ heap' = Counted(heap, b, 1)
            /\ holds' = [holds EXCEPT ![<<0, "variable">>] = b]
       ELSE \E new \in Unused(heap) :
               /\ heap' = [Counted(heap, b, -1) EXCEPT
                              ![new] = [kind |-> "ref", content |-> heap[b].content, refs |-> 2]]
               /\ holds' = [holds EXCEPT ![h] = new, ![<<0, "variable">>] = new]
    /\ UNCHANGED standing

-----------------------------------------------------------------------------
\* Mutant of Shared: ZVAL_COPY_VALUE where ZVAL_COPY is meant.
SharedUncounted(b) == heap

\* ZVAL_COPY of the value a rule list has accepted: the count of whatever stands
\* in the data, a reference included.
Shared(b) == Counted(heap, b, 1)

\* validate() fills a new result.  A value that passes goes into validated, one
\* that does not leaves messages; a field that is absent may do either without.
ValidateAccepts(r) ==
    LET b == holds[<<0, "data">>] IN
    /\ standing[r] = "none"
    /\ b # Nothing => heap[b].content \in Passing
    /\ heap' = Shared(b)
    /\ holds' = [holds EXCEPT ![Table(r, "validated")] = b]
    /\ standing' = [standing EXCEPT ![r] = "valid"]

ValidateRefuses(r) ==
    LET b == holds[<<0, "data">>] IN
    /\ standing[r] = "none"
    /\ b # Nothing => heap[b].content \notin Passing
    /\ \E e \in Unused(heap) :
          /\ heap' = [heap EXCEPT ![e] = NewValue(Messages)]
          /\ holds' = [holds EXCEPT ![Table(r, "errors")] = e]
    /\ standing' = [standing EXCEPT ![r] = "failed"]

\* new ValidationResult: valid, and without tables.
CreateResult(r) ==
    /\ standing[r] = "none"
    /\ standing' = [standing EXCEPT ![r] = "valid"]
    /\ UNCHANGED <<heap, holds>>

\* zval_add_ref and zend_array_dup: a reference nobody else holds is copied as
\* the value in it, anything else is shared.  The heap and the box
\* afterwards.
Taken(hp, b) ==
    IF b # Nothing /\ hp[b].kind = "ref" /\ hp[b].refs = 1
    THEN {<<[hp EXCEPT ![new] = NewValue(hp[b].content)], new>> : new \in Unused(hp)}
    ELSE {<<Counted(hp, b, 1), b>>}

\* Mutant of ErrorsTaken: the clone takes the messages over.
ErrorsMoved(hp, b) == {<<hp, b>>}

ErrorsTaken(hp, b) == Taken(hp, b)

CloneResult(old, new) ==
    /\ standing[old] # "none" /\ standing[new] = "none"
    /\ \E e \in ErrorsTaken(heap, holds[Table(old, "errors")]) :
       \E w \in Taken(e[1], holds[Table(old, "validated")]) :
          /\ heap' = w[1]
          /\ holds' = [holds EXCEPT ![Table(new, "errors")] = e[2],
                                    ![Table(new, "validated")] = w[2]]
    /\ standing' = [standing EXCEPT ![new] = standing[old]]

\* validated(), errors(): a copy of the table in the hands of the caller.
GetTable(r, t) ==
    /\ standing[r] # "none" /\ ~Present(<<0, "array">>)
    /\ \E w \in Taken(heap, holds[Table(r, t)]) :
          heap' = w[1] /\ holds' = [holds EXCEPT ![<<0, "array">>] = w[2]]
    /\ UNCHANGED standing

\* The last handle to a result goes.
FreeResult(r) ==
    /\ standing[r] # "none"
    /\ heap' = Counted(Counted(heap, holds[Table(r, "errors")], -1),
                       holds[Table(r, "validated")], -1)
    /\ holds' = [holds EXCEPT ![Table(r, "errors")] = Nothing,
                              ![Table(r, "validated")] = Nothing]
    /\ standing' = [standing EXCEPT ![r] = "none"]

ResultNext ==
    \/ \E h \in Mine : CallerUnsets(h) \/ \E c \in Content : CallerWrites(h, c)
    \/ \E h \in {<<0, "data">>, <<0, "array">>} : CallerRefers(h)
    \/ \E r \in ResultId : ValidateAccepts(r) \/ ValidateRefuses(r) \/ CreateResult(r)
                           \/ FreeResult(r)
    \/ \E old, new \in ResultId : CloneResult(old, new)
    \/ \E r \in ResultId, t \in {"validated", "errors"} : GetTable(r, t)

ResultSpec == ResultInit /\ [][ResultNext]_resultVars

-----------------------------------------------------------------------------
\* Every box has as many references as holders and is free when it has none:
\* no table of a result, of a clone or of the caller outlives what it holds, and
\* nothing is kept that nobody holds, in whatever order they go.
CountsHolders ==
    \A b \in Box :
        /\ heap[b].refs = Cardinality({h \in Holder : holds[h] = b})
        /\ heap[b].kind = "free" <=> heap[b].refs = 0

\* What valid(), validated() and errors() of a result say.
Says(r) ==
    [standing |-> standing[r],
     tables |-> [t \in {"validated", "errors"} |->
        LET b == holds[Table(r, t)] IN IF b = Nothing THEN Nothing ELSE heap[b].content]]

\* A result says the same for as long as it lives, whatever the caller does with
\* his data, with arrays it gave him, with clones and other results; unless the
\* data held a PHP reference, through which he still writes into validated().
ResultKeeps ==
    [][\A r \in ResultId :
          standing[r] # "none" /\ standing'[r] # "none" =>
             \/ Says(r)' = Says(r)
             \/ /\ Present(Table(r, "validated"))
                /\ heap[holds[Table(r, "validated")]].kind = "ref"
                /\ standing'[r] = standing[r]
                /\ Says(r).tables["errors"] = Says(r)'.tables["errors"]]_resultVars

=============================================================================
