SPECIFICATION Spec
CONSTANTS
    root = root
    a = a
    b = b
    i1 = i1
    i2 = i2
    i3 = i3
    i4 = i4
    Nodes = {root, a, b}
    Root = root
    Parent <- ChainParent
    Above <- ChainAbove
    Ids = {i1, i2}
    InitId = i1
    Limits = {}
    Delegating = {root, a}
    Unlimited = 9
    MaxEvents = 0
    MaxPins <- ChainPins
    None = None
INVARIANTS Balanced
CHECK_DEADLOCK FALSE
