SPECIFICATION Spec
CONSTANTS
    None = None
    admin = admin
    operator = operator
    u1 = u1
    Users = {u1, u2}
    Roles = {admin, operator}
    Admin = admin
    Grants <- MCGrants
    Removals = {q1, q2}
    Damages = {d1}
    Owner <- MCOwner
    Formats = {jpg, png}
    Uploads = {w1, w2}
INVARIANTS
    TypeOK
    EvidenceKept
PROPERTIES
    AdminRemains
CHECK_DEADLOCK FALSE
SYMMETRY Symmetry
