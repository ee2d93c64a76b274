SPECIFICATION Spec
CONSTANTS
    d1 = d1
    d2 = d2
    p1 = p1
    p2 = p2
    r1 = r1
    r2 = r2
    None = None
    Devices = {d1, d2}
    Persons = {p1, p2}
    Requests = {r1}
    Wanted <- CardAndBare
    Ops = {"bulk"}
INVARIANTS
    FanOutIsAnswered
