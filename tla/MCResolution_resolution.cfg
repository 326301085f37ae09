\* A tick and a requested run overlap over two releases of the alias files; one
\* kill or refused transaction, any number of lost hints.
SPECIFICATION FairSpec
CONSTANTS
    Text <- Texts
    Norm <- NormOf
    Blank = "..."
    Org = {"o1", "o2"}
    District = {"d1"}
    Report = {"r1"}
    Statement = {"said", "record", "wrong"}
    ReportOf <- OneReport
    NameOf <- Names
    PlacesOf <- Places
    Rejected = {"wrong"}
    RecordOf <- Record
    Files <- OrgFiles
    Gazetteers <- DistrictTables
    Ticks = {t1}
    Requests = {q1}
    MaxFaults = 1
INVARIANTS
    TypeOK
    InheritedHasSource
    FreshPageShowsDistricts
PROPERTIES
    AttributionIsFinal
    EventuallyResolved
    BoardCatchesUp
