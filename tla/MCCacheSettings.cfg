SPECIFICATION Spec
CONSTANTS
    t1 = t1
    t2 = t2
    t3 = t3
    w1 = w1
    w2 = w2
    r1 = r1
    i1 = i1
    i2 = i2
    i3 = i3
    n0 = n0
    n1 = n1
    g1 = g1
    g2 = g2
    zero = zero
    A = A
    o1 = o1
    o2 = o2
    o3 = o3
    o4 = o4
    o5 = o5
    None = None
SYMMETRY Symmetry
INVARIANTS StaysConsistent CacheBounded
PROPERTIES ImplementsBlockStore
