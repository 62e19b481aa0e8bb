SPECIFICATION Spec
CONSTANTS
    Oids = {1, 2, 3, 4, 5, 6, 7, 8}
    NoOid = 0
    Names = {"a", "A", "idx", "p"}
    SchemaNames = {"s", "S", "z"}
    Columns = {"x", "y"}
    RoleNames = {"u", "v"}
    Requests = {r1, r2}
    Fold <- MCFold
    AutoNames <- MCAutoNames
    BackupName <- MCBackupName
    CopyName <- MCCopyName
    Beginning <- MCBeginning
    OccursIn <- MCOccursIn
    Starts <- MCStarts
    MaxCalls = 2
CHECK_DEADLOCK FALSE
INVARIANT TypeOK
INVARIANT BackupAnswerIsTrue
INVARIANT DdlIsTheTable
INVARIANT ReportsAgree
PROPERTY BackupSparesOriginal
PROPERTY OnlyTheSchemaAsked
