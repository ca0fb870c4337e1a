SPECIFICATION Spec
INVARIANT TypeOK
INVARIANT MetricsMatchReference
INVARIANT NoDuplicateNextHop
PROPERTY AbsSpec
PROPERTY LinkDownShrinksOwnTable
CHECK_DEADLOCK FALSE
