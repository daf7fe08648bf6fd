SPECIFICATION Spec
CONSTANTS
    k1 = k1
    k2 = k2
    c1 = c1
    c2 = c2
    NoLink = NoLink
    NoCall = NoCall
    Links <- TwoLinks
    Calls <- TwoCalls
INVARIANTS TypeOK OneSender SomebodyOwes NothingLeaks LinkKept
PROPERTIES OrphansReturn CallsKeepPromise
CHECK_DEADLOCK FALSE
