SPECIFICATION Spec
CONSTANTS
    root = root
    a = a
    b = b
    i1 = i1
    i2 = i2
    i3 = i3
    i4 = i4
    Nodes = {root, a}
    Root = root
    Parent <- FlatParent
    Above <- FlatAbove
    Ids = {i1, i2, i3, i4}
    InitId = i1
    Limits = {1}
    Delegating = {root}
    Unlimited = 9
    MaxEvents = 1
    MaxPins <- FlatPins
    None = None
INVARIANTS TypeOK Balanced NeverPanics OneCgroupPerProcess
PROPERTIES LimitEnforced
SYMMETRY Identities
CHECK_DEADLOCK FALSE
