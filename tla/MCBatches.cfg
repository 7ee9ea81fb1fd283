SPECIFICATION Spec
CONSTANTS
    BulkKeys = {k1, k2, k3}
    BulkBatch = 2
    PageSize = 2
    ToolThreads = 2
    Objects = {o1, o2, o3}
    RemovalThreads = {r1, r2}
    UploadThreads = {u1, u2}
    QueueCapacity = 1
    Quit = Quit
    NoValue = NoValue
    k3 = k3
    o1 = o1
    o2 = o2
    o3 = o3
    e1 = e1
    e2 = e2
    r1 = r1
    r2 = r2
    u1 = u1
    u2 = u2
    BulkSettings <- BulkCases
    ListSettings <- ListCases
    ToolSettings <- ToolCases
    EndSettings <- EndCases
    BulkFaults = 2
    ListFaults = 1
    ListChanges = 2
INVARIANTS BulkExact ListExact ToolExact DestroyExact
PROPERTIES EverythingEnds
