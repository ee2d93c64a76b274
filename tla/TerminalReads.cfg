SPECIFICATION Spec
CONSTANTS
    t1 = t1
    t2 = t2
    a = a
    b = b
    c = c
    Devices = {t1, t2}
    Terminal = t1
    EventIds = {"e1", "e2", "e3"}
    IdOf <- MCIdOf
    None = None
    Limits = {1, 2}
    RecordBackfill = TRUE
    QueryLimit = 3
    Workloads <- MCWorkloads
    People = {a, b, c}
    UsersOn <- MCUsersOn
    CardsOn <- MCCardsOn
    Loose = {a, b}
    Exact <- MCExact
    Sources <- MCSources
    NoValue = {}
    PageSizes = {1, 2}
    CapsGiven = {1, 3}
INVARIANTS
    BackfillTypeOK
    
    ReadTypeOK
    SearchesAreStopped
    FindIsRight
    OneResultPerTarget
    
PROPERTIES
    
    EveryReadEnds
