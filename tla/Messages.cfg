SPECIFICATION Spec
CONSTANTS
    Workers = {w1}
    Users = {1, 2}
    Talks <- WithNotes
    MaxMessages = 1
    Reacting = TRUE
    Adapter = TRUE
    MaxRestarts = 1
INVARIANTS AckedIsStored HandedIsDelivered NoOrphanReactions
PROPERTY BurnedIsLast
CHECK_DEADLOCK FALSE
