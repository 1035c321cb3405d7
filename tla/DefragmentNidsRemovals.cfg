\* No failures.
CONSTANTS
    Order <- MCOrder
    SlotOf <- MCSlotOf
    Lead <- MCLead
    Inventories <- MCInventories
    DisabledIn <- MCDisabled
    MaxNid = 3
    Faults = {}
    MaxRuns = 1
SPECIFICATION Spec
PROPERTY OnlyLeftoversRemoved
CHECK_DEADLOCK FALSE
