\* One fetch, one extraction, nothing fails but the first answers of a page.
SPECIFICATION Spec
CONSTANTS
    MaxReports = 1
    Foreign <- NoForeign
    Text <- OnlyOld
    Claim <- GoneClaim
    QuotedIn <- QuotesOfGone
    Unsupported <- NoAmounts
    Gated <- AsAnswered
    Prompt <- OnePrompt
    Cost <- UnitCost
    MaxAttempts = 3
    RunLimit = 1
    CostCap = 1
    Fetchers = {f1}
    Extractors = {e1}
    MaxFaults = 0
INVARIANT ExcludedForFailedExtraction
