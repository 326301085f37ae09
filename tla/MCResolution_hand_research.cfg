\* The record's organisation does not own the alias of its own name.
SPECIFICATION Spec
CONSTANTS
    Text <- Texts
    Norm <- NormOf
    Blank = "..."
    Org = {"o1", "o2"}
    District = {"d1"}
    Report = {"r1"}
    Statement = {"said", "record", "wrong"}
    ReportOf <- OneReport
    NameOf <- Names
    PlacesOf <- Places
    Rejected = {"wrong"}
    RecordOf <- RecordOfOther
    Files <- OrgFiles
    Gazetteers <- DistrictTables
    Ticks = {t1}
    Requests = {}
    MaxFaults = 1
PROPERTIES
    HandResearchStaysAttributed
