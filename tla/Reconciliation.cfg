\* Two canonical runs and an external run on two records, again and again, with a
\* failing statement or a crash anywhere.
CONSTANTS
    p1 = p1
    p2 = p2
    a1 = a1
    a2 = a2
    u = u
    v = v
    w1 = w1
    w2 = w2
    wheelmap = wheelmap
    None = None
    Places = {p1}
    PlaceVersions = {w1, w2}
    Records = {a1, a2}
    RecordVersions = {v}
    Sources = {wheelmap}
    SourceOf <- MCSourceOf
    Score <- MCScore
    Near <- MCNear
    ConfidentThreshold = 80
    LowConfidenceThreshold = 55
    CanonicalRuns = {c1, c2}
    ExternalRuns = {e1}
    MaxParams = 5
    MaxFaults = 1
    MaxStreamed = 2
    MaxQueueId = 2
    MaxAttempts = 2
    Imports <- FullImport
SPECIFICATION FairSpec
INVARIANTS TypeOK NoRecordDropped EveryRowCounted
PROPERTIES DeletesWhatItSelected ImplementsLedger QueueDrains
