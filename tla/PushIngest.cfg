SPECIFICATION PushSpec
CONSTANTS
    d1 = d1
    d2 = d2
    e1 = e1
    e2 = e2
    e3 = e3
    u1 = u1
    u2 = u2
    w1 = w1
    w2 = w2
    None = None
    Devices = {d1, d2}
    Events = {e1, e2, e3}
    Access = {e1, e3}
    MadeBy <- Makers
    Names = {u1, u2}
    Passwords = {w1, w2}
    Cred <- Creds
    Leases <- LeaseSet
    Ttl = 1
INVARIANTS
    PushInv
    RecordedForItsTerminal
    AcceptedIsKept
PROPERTIES
    NothingForUnassigned
    PushGetsThrough
