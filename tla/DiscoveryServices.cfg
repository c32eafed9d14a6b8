\* The services of discovery, one at a time.
CONSTANTS
    h1 = h1  h2 = h2  lan = lan  bad = bad
    Hosts <- MCHosts
    Requests <- MCRequests
    HostOf <- MCHostOf
    Global = global
    Unit = 2  GlobalRate = 3  HostRate = 1  Timeout = 2
    FirstBackoff = 2  MaxBackoff = 3  MaxTime = 3
    Networks = {lan, bad}
    NetworkKind <- MCNetworkKind
    HostsOf <- MCHostsOf
    PortList <- MCPortList
    Listening <- MCListening
    MaxHosts = 2  MaxPorts = 1  MaxScans = 1

    s1 = s1  s2 = s2  s3 = s3  i1 = i1  i2 = i2
    Subscriptions = {s1, s2, s3}
    Ids = {i1, i2}
    IdOf <- MCIdOf
    Types = {"found", "lost"}
    Wants <- MCWants
    Suspends = {s1}
    MaxHistory = 1  MaxEvents = 2

    Clients = {c1, c2}  Devices = {d1, d2}  Addresses = {a1, a2}
    None = None
    MaxOps = 3

    Packets <- MCPackets
    Answers <- MCAnswers
    SearchTargets = 2
    Agents = {a1, a2, a3}
    MaxConcurrent = 2
    Oids = {o1, o2}
    Nothing = "nothing"
    MaxReceived = 3
SPECIFICATION Spec
INVARIANT NetInv
INVARIANT BusInv
INVARIANT CacheInv
 
 
CHECK_DEADLOCK FALSE
