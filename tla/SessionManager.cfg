SPECIFICATION Spec
CONSTANTS
    dev = dev
    i1 = i1
    i2 = i2
    elevated = elevated
    ducktyped = ducktyped
    Callers = {c1, c2}
    Instances = {i1, i2, elevated, ducktyped}
    Unidentified = {ducktyped}
    Aliases = {dev}
    Elevations <- MCElevations
    NoInstance = NoInstance
    NoKey = NoKey
    Alias <- MCAlias
    Elevated <- MCElevated
    MaxRequests = 3
    MaxPromises = 3
SYMMETRY MCSymmetry
INVARIANTS
    TypeOK
    OwnRequest
    NothingFromBeforeClear
PROPERTIES
    SharesAuthentications
