SPECIFICATION CompareSpec
CONSTANTS
    v1 = v1  v2 = v2
    Keys <- MCKeys
    Vals <- MCVals
    Tables <- MCTables
    Fields <- MCOneField
    OptVals <- MCOptVals
    Zero = 0
INVARIANT DiffExact RecordsIntact ConsumerCatchesUp FitsDifference DirtyIffRecords
          ChangesReported PushedIffChanged
SYMMETRY Symmetry
