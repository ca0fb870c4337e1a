SPECIFICATION Spec
INVARIANT AdjacencyFollowsDevices
CHECK_DEADLOCK FALSE
