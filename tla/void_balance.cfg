SPECIFICATION Spec
CONSTANTS
    None = None
    Entries = {e1, e2, e3}
    Sources = {c1}
    Commands = {c1}
    Requests = {q1}
    Txns = {}
    Transfers = {}
    Identity <- OwnIdentity
    Matches = {}
    Runs = {}
    Reviews = {}
    MaxLinks = 2
CHECK_DEADLOCK FALSE
INVARIANT
    ReversalCancels
