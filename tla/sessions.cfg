SPECIFICATION FairSpec
CONSTANTS
    MaxSessions = 2
    MaxLocks = 1
INVARIANTS SessionsAgree OneSecureSession
PROPERTIES RendezvousAnswered
