\* Interruptions anywhere at two sites, failing requests and leases at one.
CONSTANTS
    Alias = {"ncn-m001", "ncn-m002", "ncn-w004", "fmn001", "fmn002"}
    Fixed = {"ncn-m001", "ncn-m002"}
    Fmn = {"fmn001", "fmn002"}
    FirstMaster = "ncn-m002"
    Xname = {"x1", "x2", "x3", "x4"}
    InstalledAt <- MCInstalledAt
    InstalledIp <- MCInstalledIp
    InstalledBmcIp <- MCInstalledBmcIp
    InstalledNid <- MCInstalledNid
    Sites <- MCSites
SPECIFICATION Spec
INVARIANTS
    TypeOK
    HostRecordsAreReserved
    BootsWithReservedIps
    ReportedMeansRemoved
    ReservationsUnique
    NidsUnique
    FixedIpsKept
CHECK_DEADLOCK FALSE
