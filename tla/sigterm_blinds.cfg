SPECIFICATION Spec
CONSTANTS
    Releases = {r1}
    Broken = broken
    Missing = missing
    Pids = {p1, p2}
    NoPid = noPid
    BadPid = badPid
    Expecting = {}
    Validated = {}
    HasSchedulers = TRUE
    WatchPort = FALSE
    WatchHttp = FALSE
    Autostart = FALSE
    Requests = {"start"}
    Disturbances = {"kill"}
    MaxEvents = 2
INVARIANT WatchResumes
CHECK_DEADLOCK FALSE
