SPECIFICATION Spec
CONSTANTS
    Protocols = {p1, p2}
    None = None
    MaxTasks = 2
    MaxBodies = 2
SYMMETRY ClientSymmetry
INVARIANTS
    NoClones
