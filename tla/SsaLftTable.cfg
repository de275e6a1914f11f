SPECIFICATION Spec
CONSTANTS
    x1 = x1  x2 = x2
    None = None
    Lids <- MCLids
    MaxLidBlocks = 3
    Vals <- MCVals
    BlockSize = 2
    LidsPerPort = 1
    MaxChanges = 3
    MaxExtracts = 3
INVARIANT TypeOK WithinCapacity NoSharedSlot
PROPERTY ImplementsLftStore
SYMMETRY Symmetry
