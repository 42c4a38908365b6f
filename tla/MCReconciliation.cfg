SPECIFICATION Spec
CONSTANTS
    p1 = p1
    p2 = p2
    Products = {p1, p2}
    Sessions = {s1, s2}
    Codes = {c1}
    DocumentTypes = {d1, d2}
    Absent = Absent
    Snapshots <- MCSnapshots
    Totals <- MCTotals
    CodeQuantities <- MCCodeQuantities
INVARIANTS
    TypeOK
    ReviewIsOfAllSessions
    ReviewStartsClean
    ApprovalIsComplete
    IntactValuationIsTrue
PROPERTY ImplementsSettlement
CHECK_DEADLOCK FALSE
