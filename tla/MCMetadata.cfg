SPECIFICATION Spec
CONSTANTS
    Host = {h1, h2}
    Keep = 1
    None = None
    Null = Null
    FsckSettings <- RepairSettings
    HostSettings <- MountSettings
SYMMETRY Symmetry
CHECK_DEADLOCK FALSE
INVARIANTS Repaired DataKept MountedCurrent MetadataUsable
PROPERTIES MetadataNeverOlder
