\* A disabled user ends the sweep for the users after him.
SPECIFICATION FairSpec
CONSTANTS
    ann = ann
    bob = bob
    OrderIds <- MCOrders
    Users = {ann, bob}
    Owner <- MCOwner
    Duration <- MCDuration
    Configs <- MCDisabling
    MaxTime = 2
PROPERTIES
    EndedIsDowngraded
CHECK_DEADLOCK FALSE
