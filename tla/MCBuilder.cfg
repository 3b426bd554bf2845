SPECIFICATION Spec
CONSTANTS
    i1 = i1 i2 = i2 v1 = v1 v2 = v2 k1 = k1 k2 = k2 d1 = d1 d2 = d2
    Image = {i1, i2}
    Accepted = {i1}
    Version = {v1, v2}
    Pack = {k1, k2}
    PinOf <- PinValue
    Clone = {d1, d2}
    Dolphin = d1
    MaxEdits = 2
    None = None
INVARIANTS TypeOK OnlyWholeIsUsed IpaTruthful
