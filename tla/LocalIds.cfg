\* Work groups of three vector widths and of the scalar generator.
CONSTANT Launches <- MCLaunches
SPECIFICATION FairSpec
INVARIANTS
    TypeOK
    IdsOfWholeLanes
PROPERTY GenerationEnds
CHECK_DEADLOCK FALSE
