SPECIFICATION Spec
CONSTANTS
    Deployers = {d1, d2}
    Releases <- MCReleases
    Static <- MCStatic
    Deployed <- Fresh
    Build = "build-in-progress"
    None = "none"
    IgniterOf <- MCIgniterOf
    MaxCode = 1
    MaxDeploys = 2
    MaxEvents = 0
PROPERTY OneDeployer
CHECK_DEADLOCK FALSE
