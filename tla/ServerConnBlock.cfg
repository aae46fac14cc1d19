SPECIFICATION Spec
CONSTANTS
    c1 = c1
    c2 = c2
    i1 = i1
    Conns = {c1, c2}
    Ips = {i1}
    MaxPerIp = 2
    MaxBytes = 1
SYMMETRY Symmetry
INVARIANT BlockedAreClosed
