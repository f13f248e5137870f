SPECIFICATION Spec
CONSTANTS
    s1 = s1
    r1 = r1
    r2 = r2
    j1 = j1
    j2 = j2
    c1 = c1
    v0 = v0
    v1 = v1
    v2 = v2
    NoStatement = NoStatement
    Statements = {s1}
    Rows = {r1, r2}
    Source <- SingleSource
    Conflicts <- PairConflicts
    Transfers <- SecondTransfers
    Results = {"b"}
    Incomplete = {}
    Reviewable = {}
    Uncompared = {}
    Columns = {c1}
    Values = {v0, v1, v2}
    NoValue = v0
    Facts <- FactsOfResults
    Envelope <- ReviewedD
    Conclusions <- PlainConclusions
    Jobs = {j1}
    MaxId = 2
    MaxRetries = 0
    MaxVoids = 1
    MaxRequests = 1
    Prefect = FALSE
INVARIANT
    DeletedLeavesNothing
PROPERTIES
    SettledUnlessOvertaken
    PostsWholePlan
    VoidIsFinal
    RejectionKeepsFacts
SYMMETRY RowSymmetry
