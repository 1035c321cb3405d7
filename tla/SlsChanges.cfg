CONSTANTS
 Order <- MCOrder
 SlotOf <- MCSlotOf
 Lead <- MCLead
 Inventories <- MCInventories
 DisabledIn <- MCDisabled
 MaxNid = 3
 Faults = {"interrupt", "write"}
 MaxRuns = 2
 SlsInputs <- MCSlsInputs
 UpgradeOptions <- MCUpgradeOptions
 UnboundIp <- MCUnboundIp
 MaxUpgradeRuns = 2
 ChnBlocks <- MCChnBlocks
 HsnInterface <- MCHsnInterface
 HsnReservations <- MCHsnReservations
 BssHosts <- MCBssHosts
 UanNode <- MCUanNode
 UanAliases <- MCUanAliases
 MaxUanRuns = 3
 MaxInterfaces = 1
 CabinetFiles <- MCCabinetFiles
 CabinetCommands <- MCCabinetCommands
 NodesPerChassis = 1
 MaxCabinets = 2
SPECIFICATION ChangesSpec
INVARIANTS
 ChangesTypeOK
 Defragmented
 HsmNidsUnique
 NoAddressTwice
 PreservedIpsKept
 UsersHaveANetwork
 FreeBlocksPartition
 VlansApart
 UanInAllNetworks
PROPERTIES
 OthersKeepTheirNids
 RerunIsSafe
 ChnMoveIsExact
CHECK_DEADLOCK FALSE
