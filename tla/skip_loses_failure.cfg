SPECIFICATION Spec
CONSTANTS
    p = p
    q = q
    req = req
    nul = nul
    fil = fil
    pre = pre
    g = g
    h = h
    w0 = w0
    w1 = w1
    s0 = s0
    s1 = s1
    s2 = s2
    NoResult = NoResult
    Path = {p, q}
    Rule <- MCRule
    Kind <- MCKind
    Level <- MCLevel
    ThenRules <- MCThen
    ElseRules <- MCElse
    Programs <- SkipPrograms
    Inputs <- MCInputs
    MAX_RULE_PARSE_DEPTH = 2
    MAX_CONDITION_EVAL_DEPTH = 1
INVARIANTS
    FailureExcludesValidated
