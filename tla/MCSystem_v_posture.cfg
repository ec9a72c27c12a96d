SPECIFICATION PostureSpec
CONSTANTS
    t1 = t1
    t2 = t2
    t3 = t3
    t4 = t4
    c1 = c1
    c2 = c2
    c3 = c3
    w1 = w1
    w2 = w2
    o1 = o1
    o2 = o2
    k1 = k1
    k2 = k2
    a = a
    b = b
    None = None
INVARIANT PostureKept
CHECK_DEADLOCK FALSE
