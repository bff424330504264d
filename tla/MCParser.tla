------------------------------ MODULE MCParser ------------------------------
(***************************************************************************)
(* Small instances of Parser: leaves that parse and leaves that do not, in *)
(* every position of nested conditionals, at the depth limit and past it.  *)
(***************************************************************************)
EXTENDS Parser

CONSTANTS p, o, x, u, wthen, welse, wboth, wbad, welsebad, wdeep

MCGiven == {p, o, x, u, wthen, welse, wboth, wbad, welsebad, wdeep}

MCShape == [g \in MCGiven |->
    CASE g = p -> "plain" [] g = o -> "owning" [] g = x -> "invalid"
      [] g = u -> "unconditioned" [] OTHER -> "when"]

MCThen == [g \in MCGiven |->
    CASE g = wthen -> <<o, p>> [] g = welse -> <<>> [] g = wboth -> <<o, wthen>>
      [] g = wbad -> <<wthen, u>> [] g = welsebad -> <<o>> [] g = wdeep -> <<wboth, o>>
      [] OTHER -> <<>>]

MCElse == [g \in MCGiven |->
    CASE g = welse -> <<wthen>> [] g = wboth -> <<p>>
      [] g = welsebad -> <<o, wthen, x>> [] g = wdeep -> <<welsebad>> [] OTHER -> <<>>]

MCHasElse == {welse, wboth, welsebad, wdeep}

Lists(n) == UNION {[1 .. k -> MCGiven] : k \in 0 .. n}

Good(list) == [named |-> TRUE, isArray |-> TRUE, rules |-> list]
Refused == {[named |-> FALSE, isArray |-> TRUE, rules |-> <<>>],
            [named |-> TRUE, isArray |-> FALSE, rules |-> <<>>]}

MCRuleSets ==
    LET Entries == {Good(list) : list \in Lists(2)} \cup Refused
        Second == {<<>>, <<o>>, <<x>>, <<welsebad>>}
    IN  {<<>>} \cup {<<e>> : e \in Entries} \cup {<<e, Good(list)>> : e \in Entries, list \in Second}
            \cup {<<Good(list), e>> : list \in Lists(1), e \in Refused}
=============================================================================
