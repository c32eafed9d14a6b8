\* The parts of the persistence layer, one at a time.
CONSTANTS
    Askers = {a1}
    Callbacks = {b1, b2}
    FailureThreshold = 2
    NoLoop = NoLoop
    MaxLoops = 2  MaxChecks = 3

    Users = {u1, u2, u3}
    MaxRequests = 3

    Operators = {o1, o2}
    Clients = {c1, c2}
    NoEngine = NoEngine
    MaxEngines = 2  MaxTransactions = 2

    Nodes = {n1, n2, n3}
    NoParent = NoParent
SPECIFICATION Spec
INVARIANT HealthInv
 
INVARIANT ManagerInv
PROPERTY PersistencePromises
CHECK_DEADLOCK FALSE
