SPECIFICATION Spec
CONSTANTS
    Thread = {t1, t2}
    Key = {k1, k2, k3}
    Conn = {c1, c2, c3, c4, c5}
    None = None
    Ttl = 0
    MaxSessions = 1
    MaxNow = 1
INVARIANTS StoredIsOpen SessionsBounded
PROPERTY NoClientIsLost
SYMMETRY Symmetry
