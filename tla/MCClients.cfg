SPECIFICATION Spec
CONSTANTS
    Thread = {t1, t2}
    Keys = {k1, k2}
    Metas = {m1, m2}
    k1 = k1
    k2 = k2
    d1 = d1
    d2 = d2
    m1 = m1
    m2 = m2
    Part = Part
    None = None
    S3Settings <- S3Cases
    B2Settings <- B2Cases
    GsSettings <- GsCases
    SwiftSettings <- SwiftCases
    S3Tries = 2
    S3Faults = 4
    S3Writes = 3
    B2Faults = 2
    B2Writes = 2
    SwiftFaults = 2
    SwiftCalls = 2
CHECK_DEADLOCK FALSE
INVARIANTS AnswersExact InStep LeftInOrder
PROPERTIES CallEnds
