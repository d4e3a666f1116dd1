\* The same work groups with vectors, without the condition on their rows.
CONSTANT Launches <- VectorLaunches
SPECIFICATION Spec
INVARIANT IdsOfAnyGroup
CHECK_DEADLOCK FALSE
