\* Two pages, a floor, and two ceilings above it.
SPECIFICATION Spec
CONSTANTS
    Pages = {p1, p2}
    Min = 1
    Max = 3
    None = None
INVARIANTS Recoverable OthersCeilingKept
PROPERTIES Borrows FullSpeed SavesPower
