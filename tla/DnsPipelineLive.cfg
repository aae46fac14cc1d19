\* Two attempts of two queries need four connections at most.  No symmetry:
\* QueryEnds and DohServed are liveness properties.
SPECIFICATION MCSpec
CONSTANTS
    None = None
    Queries = {q1, q2}
    Conns = {c1, c2, c3, c4}
    MaxReloads = 1
INVARIANT DohSound
PROPERTIES QueryEnds DohServed
\* queries are called once
CHECK_DEADLOCK FALSE
