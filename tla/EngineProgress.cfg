SPECIFICATION FairSpec
CONSTANTS
    mdns = mdns
    ssdp = ssdp
    bogus = bogus
    c1 = c1
    c2 = c2
    ip1 = ip1
    ip2 = ip2
    Nobody = Nobody
    Callers = {c1, c2}
    Protocols = {mdns, ssdp}
    Requests <- MCRequests
    Ips = {ip1}
    TTL = 0
    MaxCalls = 1
    MaxTime = 0
CHECK_DEADLOCK FALSE
PROPERTY CallEnds
