SPECIFICATION FairSpec
CONSTANTS
    Clients = {c1, c2}
    Addresses = {ip}
    AddressOf <- SameAddress
    MaxWrites = 2
    Window = 2
    Stores = {"redis", "subscriber", "pool"}
    MaxClock = 4
    MaxArrivals = 5
    MaxStarts = 2
INVARIANTS DecisionsAreExact CleanExit
PROPERTIES AlwaysEnds
CHECK_DEADLOCK FALSE
