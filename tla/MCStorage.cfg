SPECIFICATION Spec
CONSTANTS
    Process = {p1, p2}
    Key = {k1, k2}
    Pieces = 2
    None = None
    LocalSettings <- LocalStorage
    ComprEncSettings <- EncryptedStorage
SYMMETRY Symmetry
CHECK_DEADLOCK FALSE
INVARIANTS FilesWhole ObjectsAuthentic
PROPERTIES NothingVanishes
