SPECIFICATION Spec
CONSTANTS
    Workers = {w1, w2}
    Users = {u1}
    Nobody = Nobody
    Staff = {u1}
    Texts = {t1, t2}
    NoText = NoText
    MaxPosts = 2
    MaxHandlers = 4
    MaxCrashes = 2
SYMMETRY Symmetry
INVARIANTS HistoryIsOrdered HistoryIsComplete FeedIsCurrent
PROPERTIES ScheduledIsQuiet
CHECK_DEADLOCK FALSE
