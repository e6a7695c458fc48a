CONSTANTS
    r1 = r1
    r2 = r2
    Requests = {r1, r2}
    c1 = c1
    c2 = c2
    v1 = v1
    v2 = v2
    Contents = {c1, c2}
    Previews = {v1, v2}
    Redact <- MCRedact
    Preview <- MCPreview
    Capacity = 1
    BatchSize = 2
SPECIFICATION FairSpec
INVARIANTS SentAsShown LogTellsTruth HeldRowsExplained
PROPERTIES RejectionReachesLog
CHECK_DEADLOCK FALSE
