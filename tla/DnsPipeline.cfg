SPECIFICATION Spec
CONSTANTS
    q1 = q1
    q2 = q2
    q3 = q3
    t1 = t1
    t2 = t2
    t3 = t3
    None = None
    Queries = {q1, q2, q3}
    Tunnels = {t1, t2, t3}
    NumTx = 6
    MaxInflight = 2
SYMMETRY Symmetry
INVARIANTS TypeOK NoTunnelLeak OneReader SetupExclusive AnswersMatch PendingAccounted
CHECK_DEADLOCK FALSE
