SPECIFICATION Spec
CONSTANTS
    Contact = {"a", "b"}
    Message = {1, 2, 3}
    ContactOf <- MCContactOf
    Attachment = {1}
    Kept <- MCKept
    Older <- MCOlder
    Limit = 1
    LogLimit = 1
    MaxOps = 3
    MaxTogether = 2
    MaxPending = 3
    MaxAmiss = 1
INVARIANTS RecordsAgree BackupsRoundTrip
PROPERTIES DeletedForAReason
CHECK_DEADLOCK FALSE
