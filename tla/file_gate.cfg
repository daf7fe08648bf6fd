CONSTANTS
    s1 = s1
    s2 = s2
    c1 = c1
    c2 = c2
    NoSession = NoSession
    NoOwner = NoOwner
    Sessions <- TwoSessions
    Calls <- TwoCalls
    SessionOf <- OneEach
    Shells = {x1}
    RingPerFile = 1
    HistoryLimit = 2
    MaxFaults = 1
    MaxRev = 2
    MaxVersion = 2
SPECIFICATION Spec
CONSTRAINT Explored
INVARIANTS
    TypeOK
    BookmarkNotAhead
    NobodyWritesBlindly
    ForeignChangeRefuses
    OwnChangesNeverBlock
