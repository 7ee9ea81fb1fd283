SPECIFICATION Spec
CONSTANTS
    t1 = t1
    t2 = t2
    NoTask = NoTask
    Task = {t1, t2}
    Root = 1
    Settings <- NamespaceSettings
CHECK_DEADLOCK FALSE
INVARIANTS NeverCrashes CountsExact InodeLives
PROPERTIES TreeStaysLocked
