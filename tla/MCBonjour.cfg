CONSTANTS
    Services = {"n", "n1"}
    Interfaces <- MCInterfaces
    Iface <- MCIface
    Keys = {"n12", "n2", "n112"}
    KeyOf <- MCKeyOf
    Ids = {r1, r2, r3}
    None = None
SPECIFICATION FairSpec
INVARIANTS NoDanglingResolver SignalsBalance
PROPERTIES GoneServiceForgotten
CHECK_DEADLOCK FALSE
