CONSTANTS
    a1 = a1
    a2 = a2
    None = None
    Null = Null
    Services <- MCServices
    Addrs <- MCAddrs
SPECIFICATION FairSpec
INVARIANTS ViewMatchesServices
PROPERTIES ImplementsDiscovery GoneServiceForgotten AdvertisedServiceSeen
CHECK_DEADLOCK FALSE
