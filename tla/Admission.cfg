\* Three UDP servers and one HTTPS server.  With a tolerance of 1 a bucket is
\* as wide as a tick, and the corrected clock jumps over several of them.
SPECIFICATION AdmissionSpec
CONSTANTS
    UdpServers = 3
    TcpServers = 1
    Honest <- HonestErrors
    Lies <- WrongErrors
    Skews = {0, 2}
    MaxOffset = 3
    MaxClock = 2
    MaxSteps = 1
    Tokens = {t1}
    Tolerance = 1
    MaxSize = 1
    MaxTime = 1
INVARIANTS OffsetHonest AcceptedOnceUnlessSetBack
