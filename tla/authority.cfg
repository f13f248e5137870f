SPECIFICATION Spec
CONSTANTS
    s1 = s1
    s2 = s2
    m1 = m1
    m2 = m2
    r1 = r1
    r2 = r2
    Statements = {s1, s2}
    Reviews = {m1, m2}
    Rows = {r1, r2}
    Source <- SharedRow
    Target <- BothOnFirst
    MaxDecisions = 3
INVARIANTS
    TypeOK
    OneHead
    PostedOnce
    ReviewedOnce
PROPERTIES
    RevokedByOverlap
