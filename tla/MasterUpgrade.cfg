\* Rebuilds whose runs may end anywhere, and upgrades (MCMasterUpgrade).
CONSTANTS
    Masters <- MCMasters
    InstalledFirst = "ncn-m002"
    Variant = "rebuild"
    Uninterrupted = {}
    MaxBoots = 2
SPECIFICATION MastersSpec
INVARIANTS
    UpgradedNodesServe
    FirstMasterReady
    QuorumKept
PROPERTIES
    UpgradeWipesDrained
    UpgradeCompletes
CHECK_DEADLOCK FALSE
