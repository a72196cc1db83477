SPECIFICATION FairSpec
CONSTANTS
    Releases = {r1}
    Broken = broken
    Missing = missing
    Pids = {p1, p2}
    NoPid = noPid
    BadPid = badPid
    Expecting = {"stop"}
    Validated = {r1}
    HasSchedulers = TRUE
    WatchPort = TRUE
    WatchHttp = FALSE
    Autostart = TRUE
    Requests = {"start","stop","restart","reConfigure"}
    Disturbances = {"edit","die","damage","timeout"}
    MaxEvents = 3
PROPERTIES
    DeadServiceRelaunched
    StopHonoured
    IgniterRemovedStops
CHECK_DEADLOCK FALSE
