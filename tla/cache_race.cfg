CONSTANTS
    p1 = p1
    p2 = p2
    p3 = p3
    Proc = {p1, p2}
    Page = {"config"}
    MaxWrites = 2
    Faults = FALSE
    Nobody = Nobody
    Absent = Absent
SPECIFICATION Spec
INVARIANT WriteDropsCache
