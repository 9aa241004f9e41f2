SPECIFICATION Spec
CONSTANTS
    Workers = {w1, w2}
    Users = {u1, u2}
    Nobody = Nobody
    Grants <- SomeGrants
    MaxHandlers = 5
    MaxCrashes = 1
SYMMETRY Symmetry
INVARIANTS ApprovedIsAdmitted RightsAreAsGranted
PROPERTIES OwnerKeepsSeat LawfulEntry
CHECK_DEADLOCK FALSE
