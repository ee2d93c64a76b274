SPECIFICATION LeaseSpec
CONSTANTS
    MayGarble = TRUE
    StoreMayFail = FALSE
    MaxIds = 1
    MaxVersion = 1
    MaxLate = 0
PROPERTIES
    DeliveryNeverStops
