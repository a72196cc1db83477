SPECIFICATION FairSpec
CONSTANTS
    Names <- MCNames
    Requires <- MCRequires
    Autostart = {"web"}
    Requests = {"stop", "restart"}
    Disturbances = {"kill", "shutdown", "shutdownGracefully", "die", "refuse", "fail"}
    MaxEvents = 3
INVARIANTS
    TypeOK
    DependenciesRun
    RunningIsSat
    NoneLeftBehind
    GracefulExitStopsAll
PROPERTIES
    DeadRelaunched
    TreeRebuilt
CHECK_DEADLOCK FALSE
