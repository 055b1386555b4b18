SPECIFICATION FairSpec
CONSTANTS
    Streams = {s1, s2, s3}
    Callers = {c1, c2}
    MaxReplies = 2
    MaxMsgs = 3
INVARIANTS
    TypeOK
    OneTagPerStream
    OneAcceptor
    AbortOnlyAtFirstSpawn
    RepliesBounded
    DrainedAtExit
PROPERTIES
    NothingHandledAfterShutdown
    ImplementsSrvLife
    ShutdownEndsWorker
    HangupReclaimed
