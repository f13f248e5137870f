SPECIFICATION Spec
CONSTANTS
    s1 = s1
    s2 = s2
    m1 = m1
    m2 = m2
    r1 = r1
    r2 = r2
    Statements = {s1}
    Reviews = {m1}
    Rows = {r1}
    Source <- SharedRow
    Target <- BothOnFirst
    MaxDecisions = 3
INVARIANT
    PostedStaysTrusted
