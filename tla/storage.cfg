SPECIFICATION FairSpec
CONSTANTS
    u1 = u1
    u2 = u2
    u3 = u3
    f1 = f1
    f2 = f2
    NoUpload = NoUpload
    Uploads = {u1, u2, u3}
    Files = {f1, f2}
    Content <- TwoOfOneFile
    MaxFaults = 1
    MaxCrashes = 1
CHECK_DEADLOCK FALSE
INVARIANTS
    TypeOK
    CondemnedIsUnknown
    OwnSourceKept
PROPERTIES
    OrphansSwept
