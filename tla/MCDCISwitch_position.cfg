CONSTANTS
    d1 = d1
    d2 = d2
    f1 = f1
    f2 = f2
    RoutingMode = 2
    LinkFailure = FALSE
    Hot1 = {10400000}
    Hot2 = {10400000}
SPECIFICATION Spec
PROPERTY PositionIndependentCost
