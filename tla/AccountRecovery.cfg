SPECIFICATION Spec
CONSTANTS
    Workers = {w1, w2}
    Users = {u1, u2}
    Nobody = Nobody
    Names = {n1, n2}
    NoName = NoName
    Words = {x1}
    Absent = Absent
    TooShort = TooShort
    MaxNonces = 2
    MaxLogins = 1
SYMMETRY Symmetry
INVARIANTS AccountsAreTheirs OneTimeNonce
CHECK_DEADLOCK FALSE
