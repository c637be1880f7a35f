SPECIFICATION Spec
CONSTANTS
    Objects = {o1, o2, o3, o4}
    None = None
    NumSlots = 2
SYMMETRY Symmetry
INVARIANTS TypeOK OwnTraffic NoneLeaked
CHECK_DEADLOCK FALSE
