SPECIFICATION Spec
CONSTANTS
    a = a  b = b  m1 = m1  m2 = m2  m3 = m3  f1 = f1  f2 = f2
    NoFile = NoFile
    Peer = {a, b}
    Text = {m1}
    File = {f1, f2}
    Author <- MCAuthor
    Chunks <- MCChunks
    Overlap = TRUE
INVARIANTS SeqUnique
PROPERTIES MailboxSpec NothingSentOnceClosed
CHECK_DEADLOCK FALSE
