CONSTANTS
    Flags <- MCFlags
    Disks <- MCDisks
    ErrorCategories <- MCErrorCategories
    LegacyCategories <- MCLegacyCategories
SPECIFICATION Spec
INVARIANTS
    TypeOK
    ReportedAsDocumented
    ExitCodeTellsErrors
    QuietIsQuiet
CHECK_DEADLOCK FALSE
