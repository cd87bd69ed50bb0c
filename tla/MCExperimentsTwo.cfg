CONSTANTS
    e1 = e1
    e2 = e2
    s1 = s1
    s2 = s2
    d1 = d1
    d2 = d2
    ExpId = {e1, e2}
    VariantId = {1, 2, 3, 4}
    Creator = {c1}
    Updater = {u1}
    Probe = {p1}
    Viewer = {v1}
    Source = {s1}
    Dest = {d1, d2}
    Packet <- OnePacket
    Inputs <- SourceInputs
    Scale = 1000
    Epsilon = 1
    Hash <- MCHash
    None = None
SPECIFICATION Spec
SYMMETRY Symmetry
INVARIANTS AssignmentsRefer DetailsCoverServed
