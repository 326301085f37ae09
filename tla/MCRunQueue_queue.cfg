\* Two overlapping ticks and a manual process over two rows, one fault.
SPECIFICATION FairSpec
CONSTANTS
    RunId = {r1, r2}
    Ticks = {t1, t2}
    Operators = {o1}
    Job <- FetchAndRenamed
    Registered <- OnlyFetch
    TickSequence <- FetchOnce
    MaxRunsPerTick = 1
    MaxFaults = 1
INVARIANTS
    TypeOK
    Custody
    AtMostOnce
    OutcomeIsTrue
    NoOvertaking
PROPERTIES
    FreshnessFallsOnlyWhenPassed
    ImplementsLedger
    EveryRequestTaken
    EveryRunCloses
