\* A fetch and an extraction of two reports behind two rows of another host, two
\* prompts, one fault.
SPECIFICATION FairSpec
CONSTANTS
    MaxReports = 4
    Foreign = {1, 2}
    Text <- OnlyOld
    Claim <- GoneClaim
    QuotedIn <- QuotesOfGone
    Unsupported <- NoAmounts
    Gated <- AsAnswered
    Prompt <- TwoPrompts
    Cost <- CheapOrDear
    MaxAttempts = 2
    RunLimit = 2
    CostCap = 2
    Fetchers = {f1}
    Extractors = {e1}
    MaxFaults = 1
INVARIANT OvershootIsOneCall
PROPERTIES
    EveryReportFetched
    EveryBodyReadOut
