SPECIFICATION MCSpec
CONSTANTS
    l1 = l1
    l2 = l2
    Nothing = Nothing
    Lookups = {l1, l2}
    MaxRules = 2
    MaxGeo = 2
    Keys = {"site-a"}
    Mirrors <- TwoMirrors
    Tagged = {"m1"}
    MaxVersion = 3
    MaxAborts = 1
    MaxDeletions = 1
    Missing = Missing
    Configs <- SmallConfigs
    SiteFiles <- SiteSources
    IpFiles <- IpSources
    DefaultSite = "a"
    DefaultIp = "a"
    Actions = {"node", "direct", "block"}
    LegacyMap <- Legacy
    BloomAt = 2
    BloomAlso <- AlsoYes
    Hosts <- SmallHosts
    NoAddr = NoAddr
    NoRule = NoRule
    Bad = Bad
\* The rules are made once.  No symmetry, since CacheFollows is a liveness
\* property.
CHECK_DEADLOCK FALSE
INVARIANTS RoutesFresh RoutesAsWritten
PROPERTIES GeoKept UnchangedIsCurrent CacheFollows
