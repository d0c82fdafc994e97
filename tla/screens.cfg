SPECIFICATION Spec
CONSTANTS
    Contact = {c1, c2}
    MaxTasks = 2
SYMMETRY Symmetry
INVARIANTS ScreenAgrees VerifiedWasCompared
