SPECIFICATION Spec
CONSTANTS
    None = None
    Processes = {p1}
    Ids = {a, b}
    Blobs = {b1, b2, b3, b4}
    Models = {m1, m2}
    Capacity = 2
    PruneOldest = TRUE
    ForkWhole = TRUE
    Steady = TRUE
    MaxStep = 2
SYMMETRY Symmetry
INVARIANT OwnBlob
PROPERTIES WarmStartIsOwn NoDangling
