SPECIFICATION Spec
INVARIANT RttMatchesMetric
CHECK_DEADLOCK FALSE
