SPECIFICATION Spec
CONSTANTS
    Workers = {w1}
    Users = {1, 2}
    Talks <- BothWays
    MaxMessages = 1
    Reacting = TRUE
    Adapter = TRUE
    MaxRestarts = 0
INVARIANT BurnIsReal
CHECK_DEADLOCK FALSE
