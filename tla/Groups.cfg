SPECIFICATION Spec
CONSTANTS
    Workers = {w1, w2}
    Users = {u1, u2}
    Nobody = Nobody
    MaxMessages = 2
    MaxInvites = 2
    MaxRequests = 6
    MaxCrashes = 1
SYMMETRY Symmetry
INVARIANTS BansAreAudited
PROPERTIES BansStand OneInvite DeletionIsWhole 
CHECK_DEADLOCK FALSE
