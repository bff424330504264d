SPECIFICATION Spec
CONSTANTS
    f = f
    l = l
    t = t
    a = a
    n = n
    b = b
    i = i
    r = r
    m = m
    x = x
    all = all
    any = any
    typo = typo
    gap = gap
    nest = nest
    d1 = d1
    d2 = d2
    d3 = d3
    loop = loop
    none = none
    NoPart = NoPart
    Absent = Absent
    Given <- MCGiven
    Form <- MCForm
    Parts <- MCParts
    Subject <- MCSubject
    Op <- MCOp
    Operand <- MCOperand
    Value <- MCValue
    FieldName <- MCFieldName
    Compare <- MCCompare
    Members <- MCMembers
    Empty <- MCEmpty
    LengthOf <- MCLengthOf
    TypeOf <- MCTypeOf
    Matches <- MCMatches
    Contexts <- MCContexts
    Null = "null"
    MAX_CONDITION_PARSE_DEPTH = 2
    MAX_CONDITION_EVAL_DEPTH = 2
INVARIANTS
    AndMeansAll
