SPECIFICATION Spec
CONSTANTS
    d1 = d1
    d2 = d2
    e1 = e1
    e2 = e2
    e3 = e3
    None = None
    Devices = {d1, d2}
    EventIds = {e1, e2, e3}
    Keys <- SharedId
    Retention = 1
    BatchLimits = {1, 2}
    DsMayOmit = TRUE
    MaxSeq = 2
    MaxLate = 1
INVARIANTS
    AckedOnlyIfHeld
