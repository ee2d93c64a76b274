SPECIFICATION LeaseSpec
CONSTANTS
    MayGarble = FALSE
    StoreMayFail = FALSE
    MaxIds = 3
    MaxVersion = 2
    MaxLate = 1
PROPERTIES
    LeaseRecovers
    DeliveryNeverStops
