CONSTANTS
    None = None
    Users = {ana, beto}
    Assignments = {a1, a2, a3}
    Sessions = {s1, s2, s3}
    Recounts = {q1, q2}
    Readers = {g1}
SPECIFICATION Spec
PROPERTIES
    CancelledIsFinal
CHECK_DEADLOCK FALSE
