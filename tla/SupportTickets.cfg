SPECIFICATION DeskSpec
CONSTANTS
    Workers = {w1, w2, w3}
    Users = {NyxDev, u1}
    NyxDev = NyxDev
    MaxTickets = 1
    MaxReplies = 3
    MaxFailures = 1
INVARIANTS RulingsStand
CHECK_DEADLOCK FALSE
