CONSTANTS
    Nics = {eth0, eth1, ppp0}
    eth0 = eth0
    eth1 = eth1
    ppp0 = ppp0
    Changed <- MCChanged
SYMMETRY Symmetry
SPECIFICATION Spec
INVARIANTS
    RolesExclude
    RedirectedHaveWayOut
    SavedIsInstalled
