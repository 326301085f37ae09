\* Two overlapping fetches and two overlapping extractions of one report,
\* one fault.
SPECIFICATION Spec
CONSTANTS
    MaxReports = 1
    Foreign <- NoForeign
    Text <- OldAndNew
    Claim <- SaidAndCounted
    QuotedIn <- QuotesOfSaid
    Unsupported <- Counted
    Gated <- WithoutAmount
    Prompt <- OnePrompt
    Cost <- CheapOrDear
    MaxAttempts = 2
    RunLimit = 1
    CostCap = 2
    Fetchers = {f1, f2}
    Extractors = {e1, e2}
    MaxFaults = 1
SYMMETRY Symmetry
INVARIANTS
    TypeOK
    CallsAreCounted
    CallsAreBounded
    PublishedIsVerbatim
    OneRowUnlessRewritten
PROPERTIES
    ImplementsEvidence
    MatchSurvives
