CONSTANTS
    Writer = {w1, w2}
    Reader = {r1}
    Backends = {"file"}
    Limit = 2
    Hours = 2
    HourLength = 2
    TopN = 1
    Seen <- OneSeen
    MaxEvents = 1
    MaxShort = 0
    MaxRestarts = 0
    None = None
SPECIFICATION Spec
SYMMETRY Symmetry
INVARIANTS EventsAreDNS
