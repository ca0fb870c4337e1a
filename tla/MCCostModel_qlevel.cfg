SPECIFICATION Spec
INVARIANT QLevelMatchesSpec
