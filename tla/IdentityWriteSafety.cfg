SPECIFICATION Spec
CONSTANTS
    d1 = d1
    d2 = d2
    p1 = p1
    p2 = p2
    r1 = r1
    r2 = r2
    None = None
    Devices = {d1}
    Persons = {p1}
    Requests = {r1, r2}
    Wanted <- Full
    Ops = {"create", "update", "bulk"}
SYMMETRY Alike
INVARIANTS
    IdentityInv
    
    NoOrphans
