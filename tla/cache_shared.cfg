CONSTANTS
    p1 = p1
    p2 = p2
    p3 = p3
    Proc = {p1, p2, p3}
    Page = {"config", "settings"}
    MaxWrites = 1
    Faults = TRUE
    Nobody = Nobody
    Absent = Absent
SPECIFICATION Spec
SYMMETRY ProcSymmetry
INVARIANT TypeOK
INVARIANT MissIsCurrent
INVARIANT UnreadWriteDropsCache
