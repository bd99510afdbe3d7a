CONSTANTS
    PAGE = 4
    Frames = {0, 1}
    Procs = {1}
    Pages = {0, 1}
    Unmapped = Unmapped
    Bytes = {0, 1}
    MaxCopy = 2

SPECIFICATION Spec

INVARIANT
    CopiedInPlace
