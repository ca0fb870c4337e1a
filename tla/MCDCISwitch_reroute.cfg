CONSTANTS
    d1 = d1
    d2 = d2
    f1 = f1
    f2 = f2
    RoutingMode = 2
    LinkFailure = TRUE
    Hot1 = {300000000}
    Hot2 = {}
SPECIFICATION Spec
INVARIANT ForwardOnRoute
