SPECIFICATION Spec
CONSTANTS
    r1 = r1
    r2 = r2
    r3 = r3
    p1 = p1
    p2 = p2
    t1 = t1
    t2 = t2
    i1 = i1
    i2 = i2
    k1 = k1
    k2 = k2
    Requests = {r1, r2}
    Kinds <- Around
    MaxSessions = 2
    Presentations = {p1, p2}
    Sentences = {t1}
    Items = {i1}
    Targets <- OneSentence
    Keys = {k1, k2}
    ExtendKeys = {k1, k2}
    Nobody = Nobody
    NoPresentation = NoPresentation
    NoSentence = NoSentence
    NoItem = NoItem
SYMMETRY Sym
INVARIANTS
    OneOpenPresentation
    FinishLeavesNothingOpen
PROPERTIES
    NothingShownAfterEnd
CHECK_DEADLOCK FALSE
