SPECIFICATION Spec
CONSTANTS
    Syms = {"f", "g"}
    MaxLines = 3
    PipeCap = 1
    HeadLimit = 2
    MaxStderr = 2
INVARIANTS OkMeansComplete Reaped
PROPERTY Returns
