SPECIFICATION Spec
CONSTANTS
    Deployers = {d1}
    Releases <- MCReleases
    Static <- MCStatic
    Deployed <- Fresh
    Build = "build-in-progress"
    None = "none"
    IgniterOf <- SameIgniter
    MaxCode = 2
    MaxDeploys = 2
    MaxEvents = 0
INVARIANT PushedIsDeployed
CHECK_DEADLOCK FALSE
