SPECIFICATION ChatSpec
CONSTANTS
    Contact = {c1, c2}
    Piece = {t1, t2}
    MaxNotes = 2
    MaxMounts = 2
    MaxToasts = 2
    MaxAmiss = 1
INVARIANTS ComposerAgrees SentToItsChat
SYMMETRY Symmetry
CHECK_DEADLOCK FALSE
