CONSTANTS
    m1 = m1
    m2 = m2
    s1 = s1
    s2 = s2
    Managers = {m1, m2}
    Pointers = {p1, p2}
    Services = {s1, s2}
    Browsed <- BrowsedTypes
    Uses <- BrowsingUses
    Addr = Addr
    None = None
    MaxTasks = 1
    MaxEvents = 1
    MaxQueue = 2
SPECIFICATION FairSpec
INVARIANTS OneResolveAtATime ViewMatchesServices
PROPERTIES ResolverQueueServed
CHECK_DEADLOCK FALSE
