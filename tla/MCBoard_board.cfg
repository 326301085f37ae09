\* Every interleaving of one request at a time with the commits of the pipeline,
\* and every use of every page it renders.
SPECIFICATION Spec
CONSTANTS
    Org = {"o1", "o2"}
    Name = {"wv", "team"}
    Statement = {"s1", "s2", "s3"}
    NameOf <- Names
    OwnerOf <- Owners
    Placed <- Places
    GradeOf <- Grades
    DayOf <- Days
    District = {"d1", "d2"}
    Grade = {"self", "third"}
    OrgType = {"ngo", "unknown"}
    TypeOf <- Types
    HqOf <- Seats
    Rank <- Ranks
    Word = {"vision"}
    Finds <- Found
    Asks <- ApiAsks
    SharedLinks <- Circulating
    BoardLimit = 3
    MaxChanges = 3
    MaxFilters = 3
INVARIANTS
    TypeOK
    CountsAreRows
    LinkSaysTheView
    EverybodyOnce
