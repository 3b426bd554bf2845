SPECIFICATION Spec
CONSTANTS
    p1 = p1
    p2 = p2
    k1 = k1
    k2 = k2
    t1 = t1
    t2 = t2
    u1 = u1
    u2 = u2
    Proc = {p1, p2}
    Key = {k1, k2}
    Token = {t1, t2}
    Evidence = {u1, u2}
    MaxStamp = 2
    None = None
    Absent = Absent
SYMMETRY Symmetry
INVARIANTS TypeOK OneGrantPerAttempt
PROPERTIES OwnedWrites ReceiptImmutable
