SPECIFICATION BotFairSpec
CONSTANTS
    Callers = {c1}
    Hooks = {h1}
    NoHook = NoHook
    MaxUpdates = 2
    MaxAttempts = 2
    Concurrency = 1
    PageSize = 1
    MaxRebinds = 1
    MaxCrashes = 1
INVARIANTS BoundedCopies PollSkipsNothing UpdatesHaveBot
PROPERTIES ImplementsDelivery JobsSettle AppIsAnswered
CHECK_DEADLOCK FALSE
