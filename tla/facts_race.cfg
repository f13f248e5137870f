SPECIFICATION Spec
CONSTANTS
    Docs = {d1, d2}
    Rows = {r1}
    Source <- Overlapping
    MaxId = 2
INVARIANT
    ClaimsKept
