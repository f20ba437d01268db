\* An import after a reference was attached.
CONSTANTS
    p1 = p1
    p2 = p2
    a1 = a1
    a2 = a2
    u = u
    v = v
    w1 = w1
    w2 = w2
    wheelmap = wheelmap
    None = None
    Places = {p1}
    PlaceVersions = {w1}
    Records = {a1}
    RecordVersions = {u}
    Sources = {wheelmap}
    SourceOf <- MCSourceOf
    Score <- MCScore
    Near <- MCNear
    ConfidentThreshold = 80
    LowConfidenceThreshold = 55
    CanonicalRuns = {c1}
    ExternalRuns = {e1}
    MaxParams = 5
    MaxFaults = 0
    MaxStreamed = 1
    MaxQueueId = 1
    MaxAttempts = 2
    Imports <- FullImport
SPECIFICATION Spec
PROPERTIES RefsSurviveImport
