SPECIFICATION LiveSpec
CONSTANTS
    None = None
    erp = erp
    Requests = {q1, q2, q3}
    Campaigns = {c1}
    Types = {erp}
    ErpTypes = {erp}
    Extension <- MCExtension
    Names = {n1}
    Images = {i1}
    Prefixes = {"A"}
    MaxNumber = 3
    MaxVersion = 0
PROPERTIES
    RequestsEnd
CHECK_DEADLOCK FALSE
