\* Two connections, from one address or from two, with a cap of one: one is
\* refused, or admitted when the other has given its slot back.  No symmetry,
\* since ClosedIsReaped is a liveness property.
SPECIFICATION MCSpec
CONSTANTS
    c1 = c1
    c2 = c2
    i1 = i1
    i2 = i2
    Conns = {c1, c2}
    Ips = {i1, i2}
    MaxPerIp = 1
    MaxBytes = 1
    MaxPieces <- Pieces
    MaxFaults = 1
    Alert = 0
    Ports = {53}
    QueueMax = 1
    MaxSent = 2
    NoPort = 0
INVARIANTS TypeOK SlotsAccounted ActiveAccounted BytesConserved FramesWhole
\* a proxied connection and a UDP association come to an end
CHECK_DEADLOCK FALSE
PROPERTIES ClosedIsReaped StreamKept RelayEnds UdpEnds
