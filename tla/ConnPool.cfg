\* Two tunnels, two requesters that compete for them and a prober: refills,
\* probes and direct builds overlap, and the queue overshoots pool_size.
\* No symmetry, since AcquireReturns is a liveness property.
SPECIFICATION MCSpec
CONSTANTS
    Requesters = {r1, r2}
    Probers = {h1}
    PoolSize = 2
    Step = 2
    Jitter = 1
    MaxSlots = 4
    MaxProbes = 1
    MaxTime = 6
    Configs <- SmallConfigs
    Order <- TreeOrder
    Kind <- Tree
    Kids <- TreeKids
    Lats = {0, 1, 2}
    Tolerance = 2
    Unhealthy = 2
    MaxUnderWay = 1
    NoLat = 99
INVARIANTS BuildingAccounted PoolBound SocketsAccounted
INVARIANTS SlotsSpaced ReservedLaunchesSpaced BuildExact RoutesWell
PROPERTIES NoOverOrder AcquireReturns ReadsMoveNoRoute Recovers
