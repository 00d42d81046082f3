SPECIFICATION Spec
CONSTANTS
    r1 = r1
    r2 = r2
    r3 = r3
    f1 = f1
    f2 = f2
    Nobody = Nobody
    Requests <- MCRequests
    Fields <- MCFields
    SnapshotCap = 1
    MaxActive = 2
    MaxPatch = 1
    MaxFailures = 1
SYMMETRY MCSame
INVARIANT
    DeletedIsGone
