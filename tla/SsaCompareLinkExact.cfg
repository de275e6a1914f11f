SPECIFICATION CompareSpec
CONSTANTS
    v1 = v1  v2 = v2
    Keys <- MCKeys
    Vals <- MCVals
    Tables <- MCTables
    Fields <- MCOneField
    OptVals <- MCOptVals
    Zero = 0
INVARIANT DiffExactForAll
SYMMETRY Symmetry
