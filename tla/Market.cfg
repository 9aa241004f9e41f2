SPECIFICATION Spec
CONSTANTS
    Workers = {w1, w2}
    Users = {u1, u2}
    Names = {n1, n2, n3}
    NoName = NoName
    StartBalance = 2
    ListingPrices = {2}
    ProductPrices = {1}
    Credits = {1}
    MaxListings = 2
    MaxSpent = 3
    MaxCredited = 1
    MaxTurns = 10
    MaxCrashes = 1
SYMMETRY Symmetry
INVARIANTS UniqueLogins BooksBalance
PROPERTIES NoOverdraft SalesAreFinal ImplementsLedger
CHECK_DEADLOCK FALSE
