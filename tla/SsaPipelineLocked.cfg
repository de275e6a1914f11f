SPECIFICATION Spec
CONSTANTS
    r1 = r1  r2 = r2  guid = guid  link = link  v1 = v1  v2 = v2
    o1 = o1  o2 = o2  b1 = b1  t1 = t1  x1 = x1  x2 = x2
    None = None
    LftSize = LftSize
    Keys <- MCNoKeys
    ExactKeys <- MCNoKeys
    Vals <- MCVals
    Opts <- MCOneOpt
    Blocks <- MCBlocks
    Tops <- MCTops
    LftVals <- MCLftVals
    Reporters <- MCReporters
    QueueCap = 3
    ReportLocked = TRUE
    MaxChanges = 0
    MaxLftChanges = 3
    MaxUps = 1
INVARIANT NeverStuck LockedExtractionComplete
