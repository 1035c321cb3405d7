CONSTANTS
 CfsConfig = {"c1", "c2"}
 CfsComponent = {"x1", "x2", "no id"}
 CfsOption = {"default_playbook", "o1"}
 CfsSource = {"s1"}
 CfsSystems <- MCCfsSystems
 CfsExports <- MCCfsExports
 CfsVersions <- MCCfsVersions
 CfsFaults = TRUE
 ChunkSize = 1
 MaxCfsRuns = 2
 MaxCfsEdits = 1
 BosName = {"n1", "n2"}
 BosTenant = {"t1"}
 BosOption = {"o1", "o2"}
 BosSession = {"s1"}
 BosSystems <- MCBosSystems
 BosFiles <- MCBosFiles
 BosOptionFiles <- MCBosOptionFiles
 BosFaults = TRUE
 MaxBosRuns = 2
 MaxBosEdits = 1
 ImsImage = {"i1", "i2"}
 ImsKey = {"k1"}
 ImsRecipe = {"r1"}
 ImsJob = {"j1"}
 ImsSystems <- MCImsSystems
 ImsExports <- MCImsExports
 ImsFaults = TRUE
 MaxImsRuns = 2
 MaxImsEdits = 1
 Url = {"m1", "m2", "r1", "r2", "rootfs", "kernel"}
 ManifestName = {"m1", "m2"}
 ManifestLinks <- MCManifestLinks
 Basename <- MCBasename
 LinkSystems <- MCLinkSystems
 FreeBytes = {5, 9, 13, 14, 16, 20}
 JsonBytes = 1
 Headroom = 1
 MaxUrlEdits = 1
 PoolRequest = {"a1", "a2", "a3"}
 PoolWorker = {"w1", "w2"}
 PoolRetries = 1
 PoolFaults = TRUE
SPECIFICATION Spec
INVARIANTS
 ConfigTypeOK
 ImportedDesiredExists
 ImportsAreComplete
 FailsForAReason
 ClearedBosIsTheImport
 ArtifactsStay
 ExportIsWhole
 PoolEnds
PROPERTIES
 NothingUnexportedIsLost
 ExistingStays
 ActiveSessionsSurvive
 PoolDelivers
CHECK_DEADLOCK FALSE
