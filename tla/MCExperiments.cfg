CONSTANTS
    e1 = e1
    e2 = e2
    s1 = s1
    s2 = s2
    d1 = d1
    d2 = d2
    ExpId = {e1}
    VariantId = {1, 2}
    Creator = {c1}
    Updater = {u1, u2}
    Probe = {p1, p2}
    Viewer = {}
    Source = {s1, s2}
    Dest = {d1, d2}
    Packet <- MCPacket
    Inputs <- MCInputs
    Scale = 1000
    Epsilon = 1
    Hash <- MCHash
    None = None
SPECIFICATION Spec
SYMMETRY Symmetry
INVARIANTS TypeOK StickyVariant StatusIsAsAsked CompleteExperimentServes
