CONSTANTS
    Instances = {i1, i2}
    Services = {s1}
    Addr = Addr
    None = None
    MaxBrowsers = 2
    IfaceList <- MCIfaceList
    Hw = {"eth"}
    HwOf <- MCHwOf
    AddressesOf <- MCAddressesOf
    PublishedOn <- MCPublishedOn
    HostNames = {"h1", "h2"}
    Nowhere = Nowhere
    OwnList <- MCOwnList
    NameOf <- MCNameOf
    TypeOf <- MCTypeOf
    TargetOf <- MCTargetOf
    UniqueRecords = {"srv", "txt", "a", "c1", "c2"}
    GroupRecords = {"ptr", "srv", "txt"}
    SizeOf <- MCSizeOf
    ReplySpace = 3
    LegacySpace = 3
    InPackets <- MCInPackets
    NoPacket = NoPacket
    Parts = {"host"}
SPECIFICATION MCSpec
INVARIANT HostNameTakesEffect
CHECK_DEADLOCK FALSE
