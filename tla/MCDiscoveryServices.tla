-------------------------- MODULE MCDiscoveryServices --------------------------
(***************************************************************************)
(* The services of discovery for TLC.  They share no state, so a run that  *)
(* checks one of them at a time misses no behaviour: the initial state     *)
(* chooses the part that is checked, and the others do not move.           *)
(***************************************************************************)
EXTENDS NetworkScan, EventBus, DiscoveryCache, ProtocolDiscovery

CONSTANTS h1, h2, lan, bad, s1, s2, s3, i1, i2

VARIABLE part

servicesVars == <<part, netVars, busVars, cacheVars, protVars>>

MCHosts == {h1, h2}
MCPortList == <<22, 1883>>
MCRequests == MCHosts \X {1, 2}
MCHostOf == [r \in MCRequests |-> r[1]]
MCNetworkKind == (lan :> "fine") @@ (bad :> "malformed")
MCHostsOf == [n \in {lan, bad} |-> MCHosts]
MCListening == {<<h1, 22>>, <<h1, 1883>>, <<h2, 22>>}

\* s1 and s2 are made with one id; s2 filters.
MCIdOf == (s1 :> i1) @@ (s2 :> i1) @@ (s3 :> i2)
MCWants == (s1 :> {"found", "lost"}) @@ (s2 :> {"found"}) @@ (s3 :> {"found", "lost"})

\* Packets with the address before its service, after it, and in another packet.
A(name, ip) == [kind |-> "A", name |-> name, ip |-> ip]
SRV(name, target_, port) == [kind |-> "SRV", name |-> name, target |-> target_, port |-> port]
TXT(name, data) == [kind |-> "TXT", name |-> name, data |-> data]
MCPackets ==
    { <<A("n1", "ip1"), SRV("http", "n1", 80), TXT("http", "m1")>>,
      <<SRV("ssh", "n2", 22), TXT("ssh", "m1"), A("n2", "ip1"), A("n3", "ip2")>>,
      <<SRV("http", "n1", 0), TXT("http", "m2")>> }
MCAnswers == [location : {"l1", "l2", "nothing"}, ip : {"ip1", "ip2"}]

Init ==
    /\ part \in {"scan", "bus", "cache", "protocols"}
    /\ ScanInit /\ BusInit /\ CacheInit /\ ProtInit
    /\ part # "cache" => backend = "memory"
    /\ part # "protocols" => protocol = "mdns"

Next ==
    /\ UNCHANGED part
    /\ \/ part = "scan" /\ ScanNext /\ UNCHANGED <<busVars, cacheVars, protVars>>
       \/ part = "bus" /\ BusNext /\ UNCHANGED <<netVars, cacheVars, protVars>>
       \/ part = "cache" /\ CacheNext /\ UNCHANGED <<netVars, busVars, protVars>>
       \/ part = "protocols" /\ ProtNext /\ UNCHANGED <<netVars, busVars, cacheVars>>

Spec == Init /\ [][Next]_servicesVars /\ ScanFairness /\ BusFairness

\* What the services do over time: scans and publications end, a look-up finds only what
\* is cached, and what a protocol learned of a device is kept.
ServicesPromises == ScanEnds /\ PublishEnds /\ FoundIsCached /\ DevicesGrow

=============================================================================
