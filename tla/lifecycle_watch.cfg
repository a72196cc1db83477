SPECIFICATION Spec
CONSTANTS
    Releases = {r1}
    Broken = broken
    Missing = missing
    Pids = {p1, p2}
    NoPid = noPid
    BadPid = badPid
    Expecting = {"stop"}
    Validated = {r1}
    HasSchedulers = TRUE
    WatchPort = TRUE
    WatchHttp = FALSE
    Autostart = FALSE
    Requests = {"start","stop","restart","reConfigure","install","configure","validate","reload"}
    Disturbances = {"timeout","die","deploy","damage","shutdown","shutdownGracefully"}
    MaxEvents = 5
SYMMETRY PidSymmetry
INVARIANTS
    LaunchIsWanted
    RunningIsWatched
PROPERTY PlanFollowed
CHECK_DEADLOCK FALSE
