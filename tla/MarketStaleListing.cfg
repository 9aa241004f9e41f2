SPECIFICATION Spec
CONSTANTS
    Workers = {w1}
    Users = {u1, u2}
    Names = {n1, n2, n3}
    NoName = NoName
    StartBalance = 1
    ListingPrices = {1}
    ProductPrices = {1}
    Credits = {1}
    MaxListings = 1
    MaxSpent = 1
    MaxCredited = 0
    MaxTurns = 8
    MaxCrashes = 0
SYMMETRY Symmetry
INVARIANT RefusedListingIsCancelled
CHECK_DEADLOCK FALSE
