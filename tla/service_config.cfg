SPECIFICATION FairSpec
CONSTANTS
    Good = {g}
    Bad = {b}
    Ports = {p1, p2}
    Missing = Missing
    Blank = Blank
    None = None
    MaxEvents = 2
INVARIANTS
    TypeOK
    ReleaseNamesAgree
    IgniterKept
    ValidConfigKept
PROPERTIES
    PanelGoesOn
