SPECIFICATION Spec
CONSTANTS
    Full = Full
    None = None
    Readers = {r1}
    NumSteps = 2
    Depth = 2
    Selections = {Full, "window"}
    Buffers = {b1, b2}
    Tasks = {f1, f2}
INVARIANT SelectionHonoured
