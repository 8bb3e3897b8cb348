\* Two clients of one gateway, several windows.
SPECIFICATION Spec
CONSTANTS
    Clients = {a, b}
    Limit = 2
    Window = 1
    MaxTime = 4
    None = None
SYMMETRY Symmetric
INVARIANTS
    TypeOK
    BurstBound
    RefusedOnlyWhenBusy
