SPECIFICATION Spec
CONSTANTS
    Object = {o1, o2}
    Handle = {h1, h2, h3}
    Alias = {a1, a2}
    Null = Null
SYMMETRY Symmetry
INVARIANTS
    Inv
    NoDangling
    ListedStaysOpen
    LiveCheckedIsOpen
    SessionReachesCluster
PROPERTY
    ImplementsPool
