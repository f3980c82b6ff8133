CONSTANTS
    Services = {"n"}
    Interfaces = {12}
    Iface <- MCIfaceOne
    Keys = {"n12"}
    KeyOf <- MCKeyOfOne
    Ids = {r1, r2}
    None = None
SPECIFICATION FairSpec
PROPERTY UnpublishedServiceRemoved
CHECK_DEADLOCK FALSE
