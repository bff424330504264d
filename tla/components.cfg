SPECIFICATION Spec
CONSTANTS
    Texts <- MCTexts
    CharPositions = {0, 1, 2, 3}
    Alphabetic <- MCAlphabetic
    Alphabet <- MCAlphabet
    OIB_LENGTH = 11
    IBAN_MIN_LENGTH = 5
    IBAN_MAX_LENGTH = 6
    IBAN_BUFFER = 13
    DateValue <- MCDates
    Leftover = {0, 20}
    DAY = 2
    MaxTicks = 2
    Inputs <- MCInputs
    Unit = 2
    LongMin <- MCLongMin
    LongMax = 7
    AsDouble <- MCAsDouble
    NaN = NaN
    NoNumber = NoNumber
    Equal <- MCEqual
    Casts <- MCCasts
    Items <- MCItems
    MaxItems = 3
    PRECISION = 100
    Places = {1, 10, 100}
    Box = {1, 2, 3, 4}
    ResultId = {1, 2}
    Content = {good, bad}
    Passing = {good}
    Messages = messages
    Nothing = nothing
    o1 = o1
    o2 = o2
    t1 = t1
    t2 = t2
    t3 = t3
    plain = plain
    texts = texts
    word = word
    broken = broken
    None = None
    Unborn = Unborn
    Bare = Bare
    Gone = Gone
    Obj <- Objects
    Address <- Addresses
    RuleSet <- RuleSets
    Pattern <- Patterns
    PatternsOf <- Used
    Compiles <- Valid
    Reentrant <- AnyCall
    MaxFrames = 2
INVARIANTS
    
    WalkOnCharacters
    MistypedRefused
    NumericFits
    DateVerdict
    VerdictsCohere
    NumbersMeant
    DistinctVerdict
    CountsHolders
    TypeOK
    OneOwner
PROPERTIES
    ResultKeeps
    LeaksByOverwriting
    CutByConstructing
    ImplementsObjects
