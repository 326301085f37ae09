\* Two ingests of three successive files and a single writer, one kill.
SPECIFICATION FairSpec
CONSTANTS
    Path = {pathA, pathB}
    Value = {v1, v1b, v2}
    ContentHash <- MCHash
    WriterHash <- MCWriterHash
    Entry = {entry}
    Class = {relief, cash}
    File <- Corrections
    Ingests = {i1, i2}
    Writers = {w1}
    MaxChanges = 1
    MaxFaults = 1
    pathA = pathA
    pathB = pathB
    v1 = v1
    v1b = v1b
    v2 = v2
    entry = entry
    relief = relief
    cash = cash
    i1 = i1
    i2 = i2
    w1 = w1
INVARIANTS TypeOK CurrentIsNewest IngestsRecordChanges
PROPERTIES ImplementsHistory IngestsDoNotCollide IngestedIsCurrent
    EveryTransactionEnds
