CONSTANTS
    r1 = r1
    r2 = r2
    u1 = u1
    u2 = u2
    u3 = u3
    u4 = u4
    NoUuid = NoUuid
    NoInput = NoInput
    NoRow = NoRow
    Refs = {r1, r2}
    Snapshot = {r2}
    Uuids = {u1, u2, u3, u4}
    ForeignUuids = {u4}
    Inputs <- RichInputs
    MaxEvents = 5
    MaxQty = 2
    MaxBatch = 2
SPECIFICATION Spec
INVARIANTS
    TypeOK
    DamageWithinPhysical
    QuantityIsLastEffective
    AuditChainUnbroken
    AppliedOnce
    ExtraMirrorsTotal
    RowsAreLogged
PROPERTIES
    ImplementsLedger
    ClosedSessionFrozen
CHECK_DEADLOCK FALSE
SYMMETRY UuidSymmetry
