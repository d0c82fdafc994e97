SPECIFICATION Spec
CONSTANTS
    Peer = {p1, p2}
    Message = {m1, m2}
    Attachment = {}
    MaxContacts = 2
    MaxOps = 2
    MaxTogether = 2
    MaxPending = 3
    MaxUnlocks = 1
    MaxAmiss = 1
    MaxListed = 1
SYMMETRY Symmetry
INVARIANTS StoreAgrees 
PROPERTIES RecordsKept
CHECK_DEADLOCK FALSE
