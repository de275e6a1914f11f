SPECIFICATION FairSpec
CONSTANTS
    r1 = r1  r2 = r2  guid = guid  link = link  v1 = v1  v2 = v2
    o1 = o1  o2 = o2  b1 = b1  t1 = t1  x1 = x1  x2 = x2
    None = None
    LftSize = LftSize
    Keys <- MCExactKeys
    ExactKeys <- MCExactKeys
    Vals <- MCOneVal
    Opts <- MCOneOpt
    Blocks <- MCBlocks
    Tops <- MCNoKeys
    LftVals <- MCLftVals
    Reporters <- MCReporters
    QueueCap = 1
    ReportLocked = FALSE
    MaxChanges = 1
    MaxLftChanges = 2
    MaxUps = 2
INVARIANT NeverStuck
PROPERTY UpConverges LftConverges ReportReturns DestroyCompletes
