SPECIFICATION FairSpec
CONSTANTS
    None = None
    Bad = Bad
    r1 = r1
    r2 = r2
    r3 = r3
    s1 = s1
    s2 = s2
    n1 = n1
    n2 = n2
    Imports = {1, 2, 3}
    Campaigns = {c1}
    contactsFile = contactsFile
    masterFile = masterFile
    mixedFile = mixedFile
    twiceFile = twiceFile
    Files = {contactsFile, masterFile, mixedFile, twiceFile}
    Content <- MCContent
    Refs = {r1, r2, r3}
    Suppliers = {s1, s2}
    Names = {n1, n2}
    Amounts = {0, 1, 2}
    MaxContacts = 2
INVARIANTS
    TypeOK
    AllOrNothing
    OneImportPerFile
    SnapshotOfOneFile
PROPERTIES
    NothingErased
    ImportsEnd
CONSTRAINT InOrder
CHECK_DEADLOCK FALSE
