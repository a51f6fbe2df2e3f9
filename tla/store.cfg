SPECIFICATION Spec
CONSTANTS
    None = None
    Processes = {p1, p2}
    Ids = {a, b}
    Names = {a, b}
    SafeName <- MCOwnName
    Calls = {"resume", "checkpoint", "clear", "fork", "export", "import", "overwrite"}
    Exclusive = TRUE
    MaxStep = 1
SYMMETRY Symmetry
INVARIANTS ManifestWhole BranchesApart
PROPERTIES ProgressKept NeverOverwritten
