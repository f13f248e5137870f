SPECIFICATION Spec
CONSTANTS
    None = None
    Entries = {e1, e2}
    Sources = {t1, c1}
    Commands = {c1}
    Requests = {q1, q2}
    Txns = {t1}
    Transfers = {t1}
    Identity <- OwnIdentity
    Matches = {m1, m2}
    Runs = {r1, r2}
    Reviews = {v1, v2}
    MaxLinks = 2
SYMMETRY Symmetry
CHECK_DEADLOCK FALSE
INVARIANTS
    TypeOK
    ReversedOnce
    RecordedOnce
    AcceptedIsBacked
    StillMatched
