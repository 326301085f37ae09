\* Two edits of the data, or any number of the link; migrations, ingests,
\* validations and builds in any order and as often as one likes.
SPECIFICATION Spec
CONSTANTS
    Path = {"mode", "register"}
    Register = {"register"}
    Mode = "mode"
    Host <- TwoSites
    Suffix <- Suffixes
    MaxEdits = 2
CONSTRAINT DataOrLink
INVARIANTS
    TypeOK
    GapsAreTrue
PROPERTIES
    MigrationIsInvisible
