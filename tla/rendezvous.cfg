SPECIFICATION FairSpec
CONSTANTS IceCount = 1
INVARIANTS SecureIsEarned NoCandidateLost
PROPERTIES RendezvousDecides PeerTeardownNoticed
CHECK_DEADLOCK FALSE
