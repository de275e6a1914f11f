SPECIFICATION Spec
CONSTANTS
    Subnets <- MCSubnets
    MaxVersions = 2
INVARIANT ArraysFit PortsFound PkeyCopiesInBounds SlicesTile PortConsumerCatchesUp
PROPERTY ImplementsPortMirror
