SPECIFICATION Spec
CONSTANTS
    Releases = {r1, r2}
    Broken = broken
    Missing = missing
    Pids = {p1, p2}
    NoPid = noPid
    BadPid = badPid
    Expecting = {"start", "configure"}
    Validated = {r1}
    HasSchedulers = TRUE
    WatchPort = TRUE
    WatchHttp = TRUE
    Autostart = FALSE
    Requests = {"start","startWithoutDeps","stop","stopWithoutDeps","restart","reConfigure","afterStart","install","configure","validate","reload","afterStop"}
    Disturbances = {"kill","timeout","edit","die","damage","disk","deploy","reset","shutdown","shutdownGracefully"}
    MaxEvents = 3
SYMMETRY PidSymmetry
INVARIANTS
    TypeOK
    IndicatorsHonest
    LaunchIsValidated
    OneInstance
    LiveIsMarked
    GracefulExitStops
CHECK_DEADLOCK FALSE
