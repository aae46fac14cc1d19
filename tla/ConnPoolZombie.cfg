SPECIFICATION Spec
CONSTANTS
    Requesters = {r1, r2}
    Probers = {h1}
    PoolSize = 2
SYMMETRY Symmetry
PROPERTY HandOutAlive
