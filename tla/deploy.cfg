SPECIFICATION FairSpec
CONSTANTS
    Deployers = {d1}
    Releases <- MCReleases
    Static <- MCStatic
    Deployed <- MCDeployed
    Build = "build-in-progress"
    None = "none"
    IgniterOf <- MCIgniterOf
    MaxCode = 5
    MaxDeploys = 2
    MaxEvents = 1
INVARIANTS
    TypeOK
    ServedDirectoryKept
    DeployedAsPushed
    OldReleasesRetired
PROPERTY DeployedComesUp
CHECK_DEADLOCK FALSE
