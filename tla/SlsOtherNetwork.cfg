CONSTANTS
 Order <- MCOrder
 SlotOf <- MCSlotOf
 Lead <- MCLead
 Inventories <- MCInventories
 DisabledIn <- MCDisabled
 MaxNid = 3
 Faults = {"interrupt", "write"}
 MaxRuns = 2
 SlsInputs <- OtherInputs
 UpgradeOptions <- OtherOptions
 UnboundIp <- MCUnboundIp
 MaxUpgradeRuns = 2
 ChnBlocks <- MCChnBlocks
 HsnInterface <- MCHsnInterface
 HsnReservations <- MCHsnReservations
 BssHosts <- MCBssHosts
 UanNode <- MCUanNode
 UanAliases <- MCUanAliases
 MaxUanRuns = 3
 MaxInterfaces = 1
 CabinetFiles <- MCCabinetFiles
 CabinetCommands <- MCCabinetCommands
 NodesPerChassis = 1
 MaxCabinets = 2
SPECIFICATION UpgradeSpec
INVARIANTS
 OnlyUnusedRemoved
CHECK_DEADLOCK FALSE
