---------------------------- MODULE MCCondition ----------------------------
(***************************************************************************)
(* Small instances of Condition: seven kinds of PHP values in one field    *)
(* and as the value validated, conditions with parts that are dropped, and *)
(* conditions nested to the limits and beyond.                             *)
(***************************************************************************)
EXTENDS Condition

\* null, two integers, the empty and a longer text, an array with one element,
\* and the texts @type answers with.
Texts == {"empty text", "text"}
TypeNames == {"array", "integer", "null type", "string"}
MCValue == {"null", "0", "1", "list"} \cup Texts \cup TypeNames

\* compare_function: null as a boolean, integers with texts as texts, an array
\* greater than any other.
Rank == [v \in MCValue |->
    CASE v = "null" -> 0 [] v = "empty text" -> 1 [] v = "0" -> 2 [] v = "1" -> 3
      [] v = "array" -> 4 [] v = "integer" -> 5 [] v = "null type" -> 6
      [] v = "string" -> 7 [] v = "text" -> 8 [] v = "list" -> 9]
Truthy == MCValue \ {"null", "0", "empty text"}
Sign(n) == IF n < 0 THEN -1 ELSE IF n > 0 THEN 1 ELSE 0
MCCompare == [pair \in MCValue \X MCValue |->
    CASE pair[1] = "null" /\ pair[2] = "null" -> 0
      [] pair[1] = "null" /\ pair[2] # "null" -> IF pair[2] \in Truthy THEN -1 ELSE 0
      [] pair[1] # "null" /\ pair[2] = "null" -> IF pair[1] \in Truthy THEN 1 ELSE 0
      [] OTHER -> Sign(Rank[pair[1]] - Rank[pair[2]])]

MCMembers == [v \in MCValue |-> IF v = "list" THEN {"1", "text"} ELSE {}]
MCEmpty == {"null", "empty text"}

CONSTANTS f, l, t, a, n, b, i, r, m, x, all, any, typo, gap, nest, d1, d2, d3, none

MCGiven == {f, l, t, a, n, b, i, r, m, x, all, any, typo, gap, nest, d1, d2, d3, none}
MCForm == [g \in MCGiven |->
    CASE g \in {all, typo, nest, d2, none} -> "and"
      [] g \in {any, gap, d1, d3} -> "or"
      [] g = x -> "malformed" [] OTHER -> "simple"]
MCParts == [g \in MCGiven |->
    CASE g = all -> <<f, l>> [] g = any -> <<x, a, b>> [] g = typo -> <<f, x, t>>
      [] g = gap -> <<NoPart, n, i>> [] g = nest -> <<any, NoPart, d3>>
      [] g = d1 -> <<d2, a>> [] g = d2 -> <<d3, f>> [] g = d3 -> <<all, typo>>
      [] OTHER -> <<>>]

\* @filled; @length >= 1; @type = string; a = 0; a <> 0, which is no operator;
\* b < 1; @value in [1, text]; @matches; b matches.
MCSubject == [g \in MCGiven |->
    CASE g = f -> "@filled" [] g = l -> "@length" [] g = t -> "@type"
      [] g = i -> "@value" [] g = r -> "@matches" [] g \in {b, m} -> "b" [] OTHER -> "a"]
MCOp == [g \in MCGiven |->
    CASE g = l -> "gte" [] g = b -> "lt" [] g = i -> "in" [] g = m -> "matches"
      [] g = n -> "<>" [] OTHER -> "eq"]
MCOperand == [g \in MCGiven |->
    CASE g = l -> "1" [] g = b -> "1" [] g = t -> "string" [] g = i -> "list"
      [] g \in {r, m} -> "text" [] g = n -> "null" [] OTHER -> "0"]

MCLengthOf == [v \in MCValue \cup {Absent} |->
    IF v \in {"text", "list"} \cup TypeNames THEN "1" ELSE "0"]
MCTypeOf == [v \in MCValue \cup {Absent} |->
    CASE v \in {Absent, "null"} -> "null type" [] v \in {"0", "1"} -> "integer"
      [] v = "list" -> "array" [] OTHER -> "string"]
MCMatches == [pair \in MCValue \X MCValue |-> pair = <<"text", "text">>]

MCFieldName == {"a", "b"}
Seen == {"null", "0", "1", "list"} \cup Texts \cup {Absent}
MCContexts == {[value |-> v, all |-> g] : v \in Seen, g \in [MCFieldName -> Seen]}
=============================================================================
