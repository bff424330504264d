SPECIFICATION LifeSpec
CONSTANTS
    o1 = o1
    o2 = o2
    t1 = t1
    t2 = t2
    t3 = t3
    plain = plain
    texts = texts
    word = word
    broken = broken
    None = None
    Unborn = Unborn
    Bare = Bare
    Gone = Gone
    Obj <- Objects
    Address <- Addresses
    RuleSet <- RuleSets
    Pattern <- Patterns
    PatternsOf <- Used
    Compiles <- Valid
    Reentrant <- AnyCall
    MaxFrames = 2
INVARIANTS
    WalksOwnTable
