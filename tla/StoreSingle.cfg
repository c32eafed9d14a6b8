SPECIFICATION Spec
CONSTANTS
    d1 = d1
    d2 = d2
    s1 = s1
    s2 = s2
    a1 = a1
    a2 = a2
    NoRow = NoRow
    NoDevice = NoDevice
    Clients = {p1}
    Devices = {d1, d2}
    Serials = {s1, s2}
    Kinds = {"register", "update", "touch", "activate", "deactivate"}
    Faults = FALSE
    MaxCommands = 5

    Schemas <- TheSchemas
    VersionColumn <- AlembicsColumn
    NoFile = NoFile
    MaxScripts = 2  MaxSeconds = 1

    Columns = {k1, k2}
    Data = {x1, x2}
    NoTableFile = NoTableFile

    AlertSessions = {a1, a2}
    NoObject = NoObject
    MaxMethods = 4

    GroupedDevices = {d1, d2}
    Groups = {s1, s2}
    NoGroup = NoGroup
    MaxCount = 2

    Viewers = {u1}
    Loop = Loop
    Names = {d1, d2}
    Sources = {s1, s2}
    Ids = {a1, a2}
    Null = Null
    MaxLaidOut = 20

    Missing = Missing  Empty = Empty  Given = Given  NoLocation = NoLocation

    ListedDevices = {d1, d2, d3}
    DeviceNames = {1, 2}
    Filters = {{}, {1}}
    PageSizes = {2, 3}
    MaxPageSize = 2  MaxChanges = 3

    SchemaTables = {d1, d2}
    SchemaColumns = {s1, s2}
    Shapes <- TheShapes
    NoColumn = NoColumn

    RowIds = {d1, d2, d3}
    RowValues = {1, 2}
    NullValue = NullValue
    Least = 1  Most = 1

    Processes = {d1, d2}
    SecretNames <- TwoSecrets
    SecretValues = {x1}
    Keys = {a1, a2}
    NoKey = NoKey  NoSecrets = NoSecrets

    LogTasks = {d1, d2}
    GivenIds = {s1, s2}
    NoId = NoId
    MaxScopes = 2  MaxIds = 1  MaxRecords = 2

    ReadFails = ReadFails

    MemoryDevices = {d1, d2}
    MaxHistory = 2  MaxRaised = 4

    Unseen = Unseen
    OnlineFor = 1  Recent = 2  Old = 3  Ancient = 5  StaleAfter = 5  MaxTime = 8
SYMMETRY Symmetry
CHECK_DEADLOCK FALSE
 
INVARIANT DashboardInv
PROPERTY CopiesAreOfBefore
PROPERTY SingleClientUndisturbed
