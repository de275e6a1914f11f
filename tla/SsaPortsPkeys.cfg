SPECIFICATION Spec
CONSTANTS
    Subnets <- MCSubnets
    MaxVersions = 2
INVARIANT PkeysArrive
