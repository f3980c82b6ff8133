CONSTANTS
    m1 = m1
    m2 = m2
    s1 = s1
    s2 = s2
    Managers = {m1, m2}
    Pointers = {p1, p2}
    Services = {}
    Browsed <- NothingBrowsed
    Uses <- PublishingUses
    Addr = Addr
    None = None
    MaxTasks = 2
    MaxEvents = 2
    MaxQueue = 0
SPECIFICATION Spec
INVARIANTS EventsForLiveObjects FlagsAreHonest
CHECK_DEADLOCK FALSE
