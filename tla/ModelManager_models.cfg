SPECIFICATION Spec
CONSTANTS
    m1 = m1
    m2 = m2
    c1 = c1
    c2 = c2
    Model = {m1, m2}
    Backend <- MCBackend
    Port <- MCPort
    Pid <- MCPid
    Protectable = {}
    Client = {c1, c2}
    Memory = Memory
    MaxRounds = 2
    NoModel = NoModel
SYMMETRY
    MCSymmetry
INVARIANTS
    PortsReserved
    PortAccounting
    Tracked
