SPECIFICATION FairSpec
CONSTANTS
    b1 = b1
    b2 = b2
    wlan = wlan
    name = name
    host = host
    ptr = ptr
    cname = cname
    addr = addr
    AnyIf = AnyIf
    NoKey = NoKey
    Browsers = {b1, b2}
    Interfaces = {wlan}
    Keys = {name, host}
    Records = {ptr, cname, addr}
    KeyOf <- MCKeyOf
    Target <- MCTarget
    BrowsedKey <- MCBrowsedKey
    BrowsedIf <- MCBrowsedIf
    MaxEntries = 2
    MaxLookups = 2
    PoofLimit = 1
INVARIANTS ViewMatchesCache QueriersCounted
PROPERTIES DeferredBrowserStarts GoneRecordForgotten
