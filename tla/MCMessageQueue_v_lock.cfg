SPECIFICATION PartSpec
CONSTANTS
    s1 = s1
    s2 = s2
    r1 = r1
    x1 = x1
    v1 = v1
    v2 = v2
    Zero = Zero
    Senders = {s1, s2}
    Receivers = {r1}
    Resetters = {}
    Size = 1
    Counts = {1}
    Values = {v1}
    Stops = FALSE
INVARIANT MutualExclusion
