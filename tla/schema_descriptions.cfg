SPECIFICATION Spec
CONSTANTS
    Oids = {1, 2, 3, 4, 5, 6, 7, 8}
    NoOid = 0
    Names = {"a", "v", "w"}
    SchemaNames = {}
    Columns = {"x", "y"}
    RoleNames = {}
    Requests = {r1, r2}
    Fold <- MCFold
    AutoNames <- MCAutoNames
    BackupName <- MCBackupName
    CopyName <- MCCopyName
    Beginning <- MCBeginning
    OccursIn <- MCOccursIn
    Starts <- MCDescribed
    MaxCalls = 3
SYMMETRY MCAnyOrder
CHECK_DEADLOCK FALSE
PROPERTY SomeDescriptionHolds
