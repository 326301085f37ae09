\* One fetch at a time, of a page whose request raises every time.
SPECIFICATION Spec
CONSTANTS
    MaxReports = 1
    Foreign <- NoForeign
    Text <- OnlyOld
    Claim <- GoneClaim
    QuotedIn <- QuotesOfGone
    Unsupported <- NoAmounts
    Gated <- AsAnswered
    Prompt <- OnePrompt
    Cost <- UnitCost
    MaxAttempts = 3
    RunLimit = 1
    CostCap = 1
    Fetchers = {f1}
    Extractors = {e1}
    MaxFaults = 4
INVARIANT RetriesAreCapped
