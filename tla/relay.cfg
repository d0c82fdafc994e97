SPECIFICATION RelayFairSpec
CONSTANTS
    Socket = {s1, s2, s3, s4}
    Code = {c1, c2}
    NoSocket = NoSocket
    NoCode = NoCode
    FreshCodes = TRUE
INVARIANTS RelayTypeOK MapsAgree EndIsAnnounced
PROPERTIES SignalsStayInChannel OnlyMembersEndChannel RendezvousSpec OldChannelsEnd
CHECK_DEADLOCK FALSE
