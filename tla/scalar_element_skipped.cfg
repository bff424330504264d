SPECIFICATION Spec
CONSTANTS
    ka = ka
    kb = kb
    k0 = k0
    kneg = kneg
    kab = kab
    kaa = kaa
    kempty = kempty
    Missing = Missing
    MCKey = {ka, kb, k0}
    Seg <- MCSeg
    SegSize <- MCSegSize
    Starred <- MCStarred
    Key <- MCKey
    KeyOrder <- MCKeyOrder
    Text <- MCText
    KeySize <- MCKeySize
    StringKey <- MCStringKey
    IndexKey <- MCIndexKey
    Trees <- Depth2
    Patterns <- ElementPatterns
    MAX_PATH_LENGTH = 8192
    MAX_WILDCARD_DEPTH = 32
    MAX_EXPANDED_FIELDS = 100
INVARIANT
    NoElementSkipped
