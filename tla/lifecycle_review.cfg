SPECIFICATION FairSpec
CONSTANTS
    s1 = s1
    r1 = r1
    r2 = r2
    j1 = j1
    j2 = j2
    c1 = c1
    v0 = v0
    v1 = v1
    v2 = v2
    NoStatement = NoStatement
    Statements = {s1}
    Rows = {}
    Source <- NoRows
    Conflicts <- NoConflicts
    Transfers <- NoTransfers
    Results = {"b", "d", "e"}
    Incomplete = {"d", "e"}
    Reviewable = {"d"}
    Uncompared = {}
    Columns = {c1}
    Values = {v0, v1, v2}
    NoValue = v0
    Facts <- FactsOfResults
    Envelope <- ReviewedD
    Conclusions <- AnyConclusion
    Jobs = {j1}
    MaxId = 0
    MaxRetries = 1
    MaxVoids = 0
    MaxRequests = 2
    Prefect = TRUE
INVARIANT
    TypeOK
PROPERTIES
    TrustUnlessOvertaken
    ParsingEnds
