SPECIFICATION FairSpec
CONSTANTS
    Entries = {a, b}
    Ifaces = {eth, wlan}
    FlagChoices <- MCFlagChoices
    UintSize = 32
    MaxProbing = 4
    MaxEvents = 4
INVARIANTS CounterCoversProbing ProbedBeforeRegistered
PROPERTIES ImplementsPublication GroupSettles
