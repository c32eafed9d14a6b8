----------------------------- MODULE NetworkScan -----------------------------
(***************************************************************************)
(* The network scan protocol on top of the rate limiter: discover() sweeps *)
(* the hosts of some networks, a host is pinged and its ports are scanned, *)
(* each by a task; semaphores bound the hosts and the ports of a host that *)
(* are scanned at a time.  A port task is a request of the limiter.        *)
(***************************************************************************)
EXTENDS RateLimiter, Sequences

CONSTANTS
    Networks, NetworkKind, \* a network is fine, too large, no address, or malformed
    HostsOf,               \* the hosts of a network
    PortList,              \* the ports to scan, in order
    Listening,             \* the <<host, port>> pairs that accept connections
    MaxHosts, MaxPorts,    \* the semaphores
    MaxScans               \* bound of the calls of discover()

ASSUME ScanAssumption ==
    /\ NetworkKind \in [Networks -> {"fine", "large", "noAddress", "malformed"}]
    /\ HostsOf \in [Networks -> SUBSET Hosts]
    /\ PortList \in Seq(Nat) /\ Requests = Hosts \X DOMAIN PortList /\ HostOf = [r \in Requests |-> r[1]]
    /\ MaxHosts \in Nat \ {0} /\ MaxPorts \in Nat \ {0} /\ MaxScans \in Nat

VARIABLES
    host,    \* of a host: idle, queued, ping, scan, done
    result,  \* of the last call: the devices found, each with its ports and services
    success, \* of the last call
    scanning, scans,
    missed,  \* the requests of listening ports that failed, in this scan
    dead     \* the hosts whose ping failed, in this scan

scanVars == <<host, result, success, scanning, scans, missed, dead>>
netVars == <<limiterVars, scanVars>>

PortOf(r) == PortList[r[2]]
Of(h) == {r \in Requests : HostOf[r] = h}
Ended == {"open", "closed"}

ScanInit ==
    /\ LimiterInit
    /\ host = [h \in Hosts |-> "idle"]
    /\ result = [h \in {} |-> 0] /\ success = TRUE
    /\ scanning = FALSE /\ scans = 0 /\ missed = {} /\ dead = {}

-----------------------------------------------------------------------------
(* discover *)

\* A malformed network raises what the loop does not catch; the others that
\* cannot be scanned are skipped.
CannotScan(nets) == \/ \E n \in nets : NetworkKind[n] = "malformed"
               \/ \A n \in nets : NetworkKind[n] # "fine"
Targets(nets) == UNION {HostsOf[n] : n \in {m \in nets : NetworkKind[m] = "fine"}}

Discover(nets) ==
    /\ ~scanning /\ scans < MaxScans
    /\ scans' = scans + 1
    /\ success' = ~CannotScan(nets)
    /\ scanning' = ~CannotScan(nets)
    /\ host' = [h \in Hosts |-> IF ~CannotScan(nets) /\ h \in Targets(nets) THEN "queued" ELSE "idle"]
    /\ result' = [h \in {} |-> 0] /\ missed' = {} /\ dead' = {}
    /\ pc' = [r \in Requests |-> "queued"]
    /\ UNCHANGED <<tokens, age, backoff, waited, sleep, taken, now>>

\* is_available() is false: the answer is a failure without devices.
Unavailable ==
    /\ ~scanning /\ scans < MaxScans
    /\ scans' = scans + 1 /\ success' = FALSE
    /\ result' = [h \in {} |-> 0] /\ missed' = {} /\ dead' = {}
    /\ host' = [h \in Hosts |-> "idle"]
    /\ pc' = [r \in Requests |-> "queued"]
    /\ UNCHANGED <<scanning, tokens, age, backoff, waited, sleep, taken, now>>

-----------------------------------------------------------------------------
(* _scan_single_host *)

StartHost(h) ==
    /\ host[h] = "queued"
    /\ Cardinality({i \in Hosts : host[i] \in {"ping", "scan"}}) < MaxHosts
    /\ host' = [host EXCEPT ![h] = "ping"]
    /\ UNCHANGED <<limiterVars, result, success, scanning, scans, missed, dead>>

PingAnswered(h) ==
    /\ host[h] = "ping"
    /\ host' = [host EXCEPT ![h] = "scan"]
    /\ UNCHANGED <<limiterVars, result, success, scanning, scans, missed, dead>>

PingFailed(h) ==
    /\ host[h] = "ping"
    /\ host' = [host EXCEPT ![h] = "done"]
    /\ dead' = dead \cup {h}
    /\ UNCHANGED <<limiterVars, result, success, scanning, scans, missed>>

\* The places of the open ports of a host in the list.
OpenPorts(h) == {i \in DOMAIN PortList : pc[<<h, i>>] = "open"}
FirstFive(places) == {i \in places : Cardinality({j \in places : j <= i}) <= 5}
At(places) == {PortList[i] : i \in places}

\* Mutant of HostScanned: it does not wait for all ports.
HostScannedEarly(h) ==
    /\ host[h] = "scan"
    /\ \E r \in Of(h) : pc[r] \in Ended
    /\ host' = [host EXCEPT ![h] = "done"]
    /\ \E known \in SUBSET At(FirstFive(OpenPorts(h))) :
          result' = IF OpenPorts(h) = {} THEN result
                    ELSE [i \in DOMAIN result \cup {h} |->
                             IF i = h THEN [ports |-> At(OpenPorts(h)), services |-> known]
                             ELSE result[i]]
    /\ UNCHANGED <<limiterVars, success, scanning, scans, missed, dead>>

\* All ports scanned: a host with open ports is a device; of the first five ports
\* the services are asked for, which any of them may fail to tell.
HostScanned(h) ==
    /\ host[h] = "scan"
    /\ \A r \in Of(h) : pc[r] \in Ended
    /\ host' = [host EXCEPT ![h] = "done"]
    /\ \E known \in SUBSET At(FirstFive(OpenPorts(h))) :
          result' = IF OpenPorts(h) = {} THEN result
                    ELSE [i \in DOMAIN result \cup {h} |->
                             IF i = h THEN [ports |-> At(OpenPorts(h)), services |-> known]
                             ELSE result[i]]
    /\ UNCHANGED <<limiterVars, success, scanning, scans, missed, dead>>

ScanDone ==
    /\ scanning
    /\ \A h \in Hosts : host[h] \in {"idle", "done"}
    /\ scanning' = FALSE
    /\ UNCHANGED <<limiterVars, host, result, success, scans, missed, dead>>

-----------------------------------------------------------------------------
(* scan_port, in a task per port *)

\* Mutant of Holds: a place in the semaphore is not given back.
HoldsForGood(r) == pc[r] # "queued"
Holds(r) == pc[r] \notin Ended \cup {"queued"}

\* A task enters the semaphore of its host, or goes on after a sleep.
MayAcquire(r) ==
    /\ host[HostOf[r]] = "scan"
    /\ \/ pc[r] = "queued" /\ Cardinality({q \in Of(HostOf[r]) : Holds(q)}) < MaxPorts
       \/ pc[r] \in {"global", "host"} /\ sleep[r] = 0

Loses(r) == missed' = IF <<HostOf[r], PortOf(r)>> \in Listening THEN missed \cup {r} ELSE missed

AcquireForPort(r) ==
    /\ MayAcquire(r)
    /\ \/ (Granted(r) \/ Waits(r)) /\ UNCHANGED missed
       \/ Refused(r) /\ Loses(r)
    /\ UNCHANGED <<host, result, success, scanning, scans, dead>>

ResumePort(r) == Resume(r) /\ UNCHANGED scanVars

Connected(r) ==
    /\ pc[r] = "connect"
    /\ <<HostOf[r], PortOf(r)>> \in Listening
    /\ pc' = [pc EXCEPT ![r] = "open"]
    /\ backoff' = Eased(HostOf[r])
    /\ UNCHANGED <<tokens, age, waited, sleep, taken, now, scanVars>>

\* Refused or timed out; a listening port may time out as well.
NotConnected(r) ==
    /\ pc[r] = "connect"
    /\ pc' = [pc EXCEPT ![r] = "closed"]
    /\ backoff' = Raised(HostOf[r])
    /\ Loses(r)
    /\ UNCHANGED <<tokens, age, waited, sleep, taken, now, host, result, success, scanning, scans, dead>>

-----------------------------------------------------------------------------
ScanStep ==
    \/ \E h \in Hosts : StartHost(h) \/ PingAnswered(h) \/ PingFailed(h) \/ HostScanned(h)
    \/ ScanDone
    \/ \E r \in Requests :
          AcquireForPort(r) \/ ResumePort(r) \/ Connected(r) \/ NotConnected(r)

ScanNext ==
    \/ \E nets \in SUBSET Networks \ {{}} : Discover(nets)
    \/ Unavailable
    \/ ScanStep
    \/ Tick /\ UNCHANGED scanVars

ScanSpec == ScanInit /\ [][ScanNext]_netVars

\* Pings, connections and sleeps end, tasks are resumed, and time passes.
ScanFairness ==
    /\ WF_netVars(scanning /\ Tick /\ UNCHANGED scanVars) /\ WF_netVars(ScanDone)
    /\ \A h \in Hosts : /\ WF_netVars(StartHost(h)) /\ WF_netVars(PingAnswered(h) \/ PingFailed(h))
                        /\ WF_netVars(HostScanned(h))
    /\ \A r \in Requests : /\ WF_netVars(AcquireForPort(r)) /\ WF_netVars(ResumePort(r))
                           /\ WF_netVars(Connected(r) \/ NotConnected(r))

-----------------------------------------------------------------------------
(* Properties *)

\* The shape of the state; no more hosts and ports are busy than the semaphores allow.
ScanTypeOK ==
    /\ LimiterTypeOK
    /\ host \in [Hosts -> {"idle", "queued", "ping", "scan", "done"}]
    /\ DOMAIN result \cup dead \subseteq Hosts /\ missed \subseteq Requests
    /\ {success, scanning} \subseteq BOOLEAN /\ scans \in 0 .. MaxScans
    /\ \A h \in Hosts : Cardinality({r \in Of(h) : Holds(r)}) <= MaxPorts

\* A scan finds exactly what listens: a scanned host is a device with each of its
\* listening ports, unless its ping failed or every attempt at the port was refused by
\* the limiter or failed; services are told only of ports found.
FoundUnlessMissed ==
    \A h \in Hosts :
        LET ports == {PortOf(r) : r \in {q \in Of(h) : <<h, PortOf(q)>> \in Listening
                                                     /\ q \notin missed}}
        IN host[h] = "done" =>
              /\ h \in DOMAIN result <=> h \notin dead /\ ports # {}
              /\ h \in DOMAIN result => /\ result[h].ports = ports
                                        /\ result[h].services \subseteq ports

\* A call of discover ends, though every request may have to wait for tokens, be
\* refused, or sleep for a back-off that refusals of the limiter have raised.
ScanEnds == scanning ~> ~scanning

\* What holds of the scan and of the limiter under it at any time: tokens are neither made
\* nor bypassed, and a scan finds what listens.
NetInv == ScanTypeOK /\ NeverOverRate /\ TokensBehindRequests /\ FoundUnlessMissed

=============================================================================
