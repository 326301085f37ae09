\* One ingest, then the same file with another classification.
SPECIFICATION Spec
CONSTANTS
    Path = {pathA, pathB}
    Value = {v1, v1b, v2}
    ContentHash <- MCHash
    WriterHash <- MCWriterHash
    Entry = {entry}
    Class = {relief, cash}
    File <- NewClass
    Ingests = {i1}
    Writers = {}
    MaxChanges = 1
    MaxFaults = 1
    pathA = pathA
    pathB = pathB
    v1 = v1
    v1b = v1b
    v2 = v2
    entry = entry
    relief = relief
    cash = cash
    i1 = i1
    i2 = i2
    w1 = w1
PROPERTIES ReclassifiedIsIngested
