SPECIFICATION Spec
SYMMETRY symmetry
CONSTANTS
    Drafts = {d1}
    Contents = {x, y}
    NoContent = none
    DraftCalls = {c1, c2, c3}
    Fetchers = {f1, f2}
    Versions = 2
    MaxObjects = 2
    Chunks = 2
    MaxMishaps = 2
    MayLapse = FALSE
    MaxUpdates = 3
    UpdateKinds = {"talk", "ask", "clear", "skill", "call", "build", "edit", "doc", "docedit", "slides"}
    Requests = {r1, r2}
    MaxSeen = 2
    MaxHistory = 2
    MaxTroubles = 1
    EarlyRetry = FALSE
    Numbers = {1, 2, 3}
    Blank = {2}
    Texts = 2
    Passes = {s1}
    BatchSize = 2
    MaxSnags = 1
    Rows = {1, 2, 3}
    MaxKey = 2
    PageLimit = 1
    MaxChanges = 2
    MaxLinks = 2
    Verifiers = {v1, v2}
    MaxBreaks = 2
    LastPost = 2
    MaxKills = 1
INVARIANT AssistantTypeOK
INVARIANT PublishedAsStored
INVARIANT CacheIsWhole
INVARIANT AckedIsHandled
INVARIANT DoneOnce
INVARIANT CheckpointCovers
INVARIANT HistoryKept
INVARIANT EachOnce
INVARIANT OnlyTheInvited
INVARIANT MergeKeepsAll
PROPERTY DraftsArePostedOnce
CHECK_DEADLOCK FALSE
