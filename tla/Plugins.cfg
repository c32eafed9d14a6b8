CONSTANTS
    pa = pa  pb = pb  f1 = f1  f2 = f2
    PluginNames = {pa, pb}
    Declares <- MCDeclares
    PluginCallers = {c1, c2}
    OrderNames = {o1, o2, o3}
    NoPlugin = NoPlugin
    MaxInstances = 2  MaxPluginCalls = 3

    Files = {f1, f2}
    CommandsOf <- MCCommandsOf
    LoaderTasks = {t1, t2}
    NoVersion = NoVersion
    MaxLoads = 5

    Wrapped = {w1, w2}
    MaxRetries = 2  MaxAttempts = 3  BackoffFactor = 2
    TtlSeconds = 2  MaxWrapTime = 3

    Visualizers = {v1, v2}
    Aliases = {x1}
    Categories = {g1, g2}
    NoCategory = NoCategory  NoVisualizer = NoVisualizer
    MaxRegistrations = 3

SPECIFICATION Spec
INVARIANT PMInv
 
INVARIANT CallsInv
PROPERTY PluginPromises
CHECK_DEADLOCK FALSE
