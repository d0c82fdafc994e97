SPECIFICATION LockSpec
CONSTANTS
    Minutes = {1, 2}
    Minute = 4
    HideDelay = 3
    Period = 2
    MaxLate = 1
INVARIANTS LocksInTime
