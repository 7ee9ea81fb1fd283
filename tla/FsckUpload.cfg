SPECIFICATION Spec
CONSTANTS
    Host = {h1, h2}
    Keep = 1
    None = None
    Null = Null
    FsckSettings <- UploadSettings
    HostSettings <- NoSettings
CHECK_DEADLOCK FALSE
INVARIANT DataKept
