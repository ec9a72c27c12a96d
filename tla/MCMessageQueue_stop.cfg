SPECIFICATION PartSpec
SYMMETRY Elements
CONSTANTS
    s1 = s1
    s2 = s2
    r1 = r1
    x1 = x1
    v1 = v1
    v2 = v2
    Zero = Zero
    Senders = {s1}
    Receivers = {r1}
    Resetters = {x1}
    Size = 2
    Counts = {1, 2}
    Values = {v1, v2}
    Stops = TRUE
CONSTRAINT Followed
INVARIANTS
    RunsDisjoint
    NoMissedElement
PROPERTY ImplementsBoundedQueue
