\* Runs of a rebuild may end anywhere, and are repeated.
CONSTANTS
    Masters <- MCMasters
    InstalledFirst = "ncn-m002"
    Variant = "rebuild"
    Uninterrupted = {}
    MaxBoots = 2
SPECIFICATION RebuildSpec
PROPERTY WipedOnlyWhenDrained
CHECK_DEADLOCK FALSE
