SPECIFICATION Spec
PROPERTY CostMonotone
