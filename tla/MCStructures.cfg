SPECIFICATION FairSpec
CONSTANTS
    Id = {i1, i2, i3, i4}
    Value = {v1, v2}
    NoRow = NoRow
    Nothing = Nothing
    CacheSize = 2
    Task = {t1, t2, t3, t4}
    Key = {k1, k2}
    None = None
INVARIANT CleanIsCurrent
PROPERTIES ImplementsTable FirstRequestFirst ImplementsKeyLock FreeKeyIsTaken
