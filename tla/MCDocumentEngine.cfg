SPECIFICATION Spec
CONSTANTS
    None = None
    erp = erp
    Requests = {q1, q2, q3}
    Campaigns = {c1, c2}
    Types = {erp}
    ErpTypes = {erp}
    Extension <- MCExtension
    Names = {n1}
    Images = {i1}
    Prefixes = {"A"}
    MaxNumber = 3
    MaxVersion = 1
INVARIANTS
    TypeOK
    OneOfficial
    ClosedIsDocumented
    SoleHolderKeepsFile
    LogoIsThere
PROPERTIES
    ImplementsRegister
    ClosedIsFrozen
CHECK_DEADLOCK FALSE
SYMMETRY Symmetry
