SPECIFICATION FairSpec
CONSTANTS
    p = p
    o = o
    x = x
    u = u
    wthen = wthen
    welse = welse
    wboth = wboth
    wbad = wbad
    welsebad = welsebad
    wdeep = wdeep
    Given <- MCGiven
    Shape <- MCShape
    Then <- MCThen
    Else <- MCElse
    HasElse <- MCHasElse
    RuleSets <- MCRuleSets
    MAX_RULE_PARSE_DEPTH = 2
INVARIANTS
    NoDoubleFree
    NothingLeaks
    AcceptsExactly
    NothingDropped
PROPERTIES
    Terminates
