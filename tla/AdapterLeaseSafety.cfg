SPECIFICATION Spec
CONSTANTS
    MayGarble = TRUE
    StoreMayFail = TRUE
    MaxIds = 3
    MaxVersion = 3
    MaxLate = 2
INVARIANTS
    LeaseInv
    SingleRegistration
    HeartbeatNeverStops
PROPERTIES
    SilentOnceStopped
