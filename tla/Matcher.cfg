\* Four places of which the query returns three.
CONSTANTS
    Places = {p1, p2, p3, p4}
    Records <- MCRecords
    Candidates <- MCCandidates
    Words <- MCWords
    BusinessSuffixes <- MCSuffixes
    Houses = {"1"}
    Categories = {"cafe", "restaurant", "bar", "shop"}
    MaxCandidates = 3
    None = None
SPECIFICATION Spec
SYMMETRY Symmetry
INVARIANTS MatchesTheBestNearby EdgeNeverMatches AddressMovesScore
CHECK_DEADLOCK FALSE
