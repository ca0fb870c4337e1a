CONSTANTS
    d1 = d1
    d2 = d2
    f1 = f1
    f2 = f2
    RoutingMode = 1
    LinkFailure = FALSE
    Hot1 = {}
    Hot2 = {}
SPECIFICATION Spec
PROPERTY IdleFlowsEvicted
