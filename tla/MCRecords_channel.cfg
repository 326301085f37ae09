\* A donation page as the web build shows it; any number of edits of the link.
SPECIFICATION Spec
CONSTANTS
    Path = {"mode", "register"}
    Register = {"register"}
    Mode = "mode"
    Host <- Hosts
    Suffix <- Suffixes
    MaxEdits = 0
CONSTRAINT DataOrLink
INVARIANT
    ShownChannelIsOfficial
