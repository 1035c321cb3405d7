\* Failing requests and interruptions, IPs of the host records.
CONSTANTS
    Alias = {"ncn-m001", "ncn-m002", "ncn-w004", "fmn001", "fmn002"}
    Fixed = {"ncn-m001", "ncn-m002"}
    Fmn = {"fmn001", "fmn002"}
    FirstMaster = "ncn-m002"
    Xname = {"x1", "x2", "x3", "x4"}
    InstalledAt <- MCInstalledAt
    InstalledIp <- MCInstalledIp
    InstalledBmcIp <- MCInstalledBmcIp
    InstalledNid <- MCInstalledNid
    Sites <- MCManagers
SPECIFICATION Spec
INVARIANT HostRecordIpsUnique
CHECK_DEADLOCK FALSE
