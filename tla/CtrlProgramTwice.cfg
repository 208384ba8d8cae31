SPECIFICATION Spec
CONSTANTS
    p1 = p1
    p2 = p2
    Procs = {p1, p2}
    Users = {u1, u2}
    Devices <- TwoDevices
    Files = {0, 1}
    Sites <- PlainSites
    Root = Root
    NoProc = NoProc
    NoLock = NoLock
SYMMETRY UserSymmetry
INVARIANTS OneDeviceProgrammed
