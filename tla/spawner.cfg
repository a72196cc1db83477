SPECIFICATION FairSpec
CONSTANTS
    Procs = {p1, p2}
    NoPid = NoPid
    BadPid = BadPid
    Services <- MCServices
    Autostart = {"db"}
    Present = {"db"}
    Disturbances = {"launch", "kill", "damage", "reuse", "shutdown", "shutdownGracefully", "die", "mkdir", "rmdir", "igniter", "start", "stop"}
    MaxEvents = 3
INVARIANTS
    TypeOK
    OneSupervisor
    OneProcess
    ServicesHeard
    TriggersNoticed
PROPERTIES
    WorksAgain
    ShutdownObeyed
CHECK_DEADLOCK FALSE
