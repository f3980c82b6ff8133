SPECIFICATION FairSpec
CONSTANTS
    h1 = h1
    h2 = h2
    h3 = h3
    r1 = r1
    r2 = r2
    r3 = r3
    big = big
    Hosts = {h1, h2, h3}
    AskedHost = h3
    Links = {1, 2}
    NetRecords <- MCNetRecords
    Nothing = Nothing
    PtrNames = {"d1", "x", "y", "bad"}
    BadNames = {"bad"}
    StaticDomains <- MCStaticDomains
    InfoMax = 2
    Slots = {l1, l2}
    IdSpace = 3
    WideKeys = {"k1"}
    WideRecords = {"rr", "other"}
    Asks <- MCAsks
    ServerLists <- MCServerLists
    CacheMax = 1
    SwitchAfter = 1
    MaxSends = 2
    NoLookup = NoLookup
    ProbeRecords = {r1, r2, r3, big}
    ProbeSize <- MCProbeSize
    ProbeSpace = 3
    MaxBadEstimates = 2
CHECK_DEADLOCK FALSE
INVARIANTS BrowserTellsAll AnswersReachLookups
PROPERTIES ResolverFinds LookupAnswered ProbeGoesOut
