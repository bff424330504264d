SPECIFICATION FairSpec
CONSTANTS
    ka = ka
    kb = kb
    k0 = k0
    kneg = kneg
    kab = kab
    kaa = kaa
    kempty = kempty
    Missing = Missing
    MCKey = {ka, k0, kaa, kneg, kempty}
    Seg <- MCSeg
    SegSize <- MCSegSize
    Starred <- MCStarred
    Key <- MCKey
    KeyOrder <- MCKeyOrder
    Text <- MCText
    KeySize <- MCKeySize
    StringKey <- MCStringKey
    IndexKey <- MCIndexKey
    Trees <- AllTrees
    Patterns <- AllPatterns
    MAX_PATH_LENGTH = 30
    MAX_WILDCARD_DEPTH = 4
    MAX_EXPANDED_FIELDS = 3
INVARIANTS
    TypeOK
    ExpansionSound
    ExpansionComplete
    PlainSameElement
    TableOwnsAll
    CapOvershoot
PROPERTIES
    Terminates
