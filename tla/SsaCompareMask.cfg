SPECIFICATION CompareSpec
CONSTANTS
    v1 = v1  v2 = v2
    Keys <- MCKeys
    Vals <- MCVals
    Tables <- MCTables
    Fields <- MCTwoFields
    OptVals <- MCOptVals
    Zero = 0
INVARIANT MaskMatchesChanges
SYMMETRY Symmetry
