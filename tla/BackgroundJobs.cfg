SPECIFICATION FairSpec
CONSTANTS
    Uploads = {u1}
    Pushes = {p1}
    Devices = {d1, d2, d3}
    ExpoTokens = {d1, d2}
    ChunkSize = 1
    Keys = {k1, k2}
    NoRow = NoRow
    MaxAttempts = 2
    MaxChanges = 2
    MaxCrashes = 1
INVARIANTS NothingDangles MetadataIsKept BoundedPushes DoneReachesSteady
PROPERTIES WithdrawnStaysQuiet PreviewsSettle
CHECK_DEADLOCK FALSE
