CONSTANTS
    r1 = r1
    r2 = r2
    u1 = u1
    u2 = u2
    u3 = u3
    u4 = u4
    NoUuid = NoUuid
    NoInput = NoInput
    NoRow = NoRow
    Refs = {r1, r2}
    Snapshot = {r2}
    Uuids = {u1, u2, u3, u4}
    ForeignUuids = {u4}
    Inputs <- RichInputs
    MaxEvents = 3
    MaxQty = 2
    MaxBatch = 2
SPECIFICATION Spec
PROPERTIES
    BatchIsAtomic
CHECK_DEADLOCK FALSE
