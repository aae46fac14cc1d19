SPECIFICATION Spec
CONSTANTS
    q1 = q1
    q2 = q2
    t1 = t1
    t2 = t2
    t3 = t3
    None = None
    Queries = {q1, q2}
    Tunnels = {t1, t2, t3}
    NumTx = 4
    MaxInflight = 2
INVARIANT CloseFailsInflight
CHECK_DEADLOCK FALSE
