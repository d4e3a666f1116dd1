\* Four calls for local arguments, enough for two launches that set both.
CONSTANTS
    Signatures <- MCSignatures
    Buffers = {b1, b2}
    Null = Null
    Foreign = Foreign
    Values = {v1, v2}
    LocalSizes <- MCLocalSizes
    SlmAlignment = 16
    MaxCalls = 4
SPECIFICATION Spec
INVARIANTS
    TypeOK
    FirstValidCallCounts
    ResidentWhatIsReferenced
    LocalArgsDisjoint
    LocalArgsCovered
