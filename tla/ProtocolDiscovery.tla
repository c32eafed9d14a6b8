--------------------------- MODULE ProtocolDiscovery ---------------------------
(***************************************************************************)
(* discover() of the protocols that ask and collect: mDNS and SSDP listen  *)
(* for answers until the time is over, SNMP asks each address in a task.   *)
(* A packet, an answer and a reply arrive any number of times, in any      *)
(* order, or not at all.                                                   *)
(***************************************************************************)
EXTENDS Naturals, FiniteSets, Sequences, SequencesExt

CONSTANTS
    Packets,          \* mDNS: packets, which are sequences of records A, SRV and TXT
    Answers,          \* SSDP: answers, each with a location (or none) and the sender
    SearchTargets,    \* SSDP: the targets, asked one after the other
    Agents, MaxConcurrent, \* SNMP
    Oids,             \* SNMP: the values of the system group
    Nothing,          \* no name, host name, location or description
    MaxReceived       \* bound of the packets and answers received in a call

ASSUME ProtocolAssumption ==
    /\ \A p \in Packets : p \in Seq(ToSet(p)) /\ \A i \in DOMAIN p : p[i].kind \in {"A", "SRV", "TXT"}
    /\ \A a \in Answers : a = [location |-> a.location, ip |-> a.ip]
    /\ SearchTargets \in Nat \ {0} /\ MaxConcurrent \in Nat \ {0} /\ MaxReceived \in Nat

VARIABLES
    protocol,  \* of this call
    phase,     \* idle, collect, describe, done
    received,  \* mDNS, SSDP: what has been received, in order
    target,    \* SSDP: the target being asked
    located,   \* SSDP: the answers still to be looked at
    asking,    \* SNMP: by address being asked, the values told so far
    asked,     \* SNMP: the addresses that have been asked
    answered,  \* SNMP: what the addresses have told, whatever came of it
    found,     \* the devices so far, by address (mDNS, SNMP) or location (SSDP)
    error      \* discover() has caught an exception: success is false

protVars == <<protocol, phase, received, target, located, asking, asked, answered, found, error>>

ProtInit ==
    /\ protocol \in {"mdns", "ssdp", "snmp"}
    /\ phase = "idle" /\ received = <<>> /\ target = 1 /\ located = <<>>
    /\ asking = [a \in {} |-> 0] /\ asked = {} /\ answered = [a \in Agents |-> {}]
    /\ found = [a \in {} |-> 0]
    /\ error = FALSE

ProtBegins ==
    /\ phase = "idle"
    /\ phase' = "collect"
    /\ UNCHANGED <<protocol, received, target, located, asking, asked, answered, found, error>>

\* Not available, or the socket or the addresses cannot be had: no devices, no success.
ProtCannotBegin ==
    /\ phase = "idle"
    /\ phase' = "done" /\ error' = TRUE
    /\ UNCHANGED <<protocol, received, target, located, asking, asked, answered, found>>

-----------------------------------------------------------------------------
(* mDNS *)

Put(f, x, v) == [y \in DOMAIN f \cup {x} |-> IF y = x THEN v ELSE f[y]]

NoGroup == [hostname |-> Nothing, services |-> {}, ports |-> {}, txt |-> {}]
GroupOf(groups, ip) == IF ip \in DOMAIN groups THEN groups[ip] ELSE NoGroup

\* The address of an SRV record's target: that of its first A record.
HasAddress(packet, name) == \E i \in DOMAIN packet : packet[i].kind = "A" /\ packet[i].name = name
AddressIn(packet, name) ==
    packet[CHOOSE i \in DOMAIN packet :
              /\ packet[i].kind = "A" /\ packet[i].name = name
              /\ \A j \in 1 .. i - 1 : ~(packet[j].kind = "A" /\ packet[j].name = name)].ip

\* One record of a packet, in the order of the packet.  A TXT record finds the
\* services that came before it only.
Grouped(packet, groups, r) ==
    CASE r.kind = "A" -> Put(groups, r.ip, [GroupOf(groups, r.ip) EXCEPT !.hostname = r.name])
      [] r.kind = "SRV" ->
            IF ~HasAddress(packet, r.target) THEN groups
            ELSE LET ip == AddressIn(packet, r.target)
                 IN Put(groups, ip, [GroupOf(groups, ip) EXCEPT
                            !.services = @ \cup {r.name},
                            !.ports = @ \cup ({r.port} \ {0})])
      [] r.kind = "TXT" ->
            [ip \in DOMAIN groups |-> IF r.name \in groups[ip].services
                                      THEN [groups[ip] EXCEPT !.txt = @ \cup {r.data}]
                                      ELSE groups[ip]]

\* Mutant of CreateDevices: an SRV record finds the A records before it only.
CreateDevicesInOrder(packet) ==
    FoldLeft(LAMBDA groups, i : Grouped(SubSeq(packet, 1, i), groups, packet[i]),
             [ip \in {} |-> NoGroup], [i \in DOMAIN packet |-> i])
CreateDevices(packet) ==
    FoldLeft(LAMBDA groups, r : Grouped(packet, groups, r), [ip \in {} |-> NoGroup], packet)

Merged(old, new) ==
    [hostname |-> IF old.hostname = Nothing THEN new.hostname ELSE old.hostname,
     services |-> old.services \cup new.services, ports |-> old.ports \cup new.ports,
     txt |-> old.txt \cup new.txt]

ReceivePacket(packet) ==
    /\ protocol = "mdns" /\ phase = "collect" /\ Len(received) < MaxReceived
    /\ received' = Append(received, packet)
    /\ LET new == CreateDevices(packet)
       IN found' = [ip \in DOMAIN found \cup DOMAIN new |->
                       IF ip \notin DOMAIN new THEN found[ip]
                       ELSE IF ip \notin DOMAIN found THEN new[ip]
                       ELSE Merged(found[ip], new[ip])]
    /\ UNCHANGED <<protocol, phase, target, located, asking, asked, answered, error>>

-----------------------------------------------------------------------------
(* SSDP *)

ReceiveAnswer(answer) ==
    /\ protocol = "ssdp" /\ phase = "collect" /\ Len(received) < MaxReceived
    /\ received' = Append(received, answer)
    /\ UNCHANGED <<protocol, phase, target, located, asking, asked, answered, found, error>>

\* The time for a target is over; it does not matter how many answers it had.
NextTarget ==
    /\ protocol = "ssdp" /\ phase = "collect" /\ target < SearchTargets
    /\ target' = target + 1
    /\ UNCHANGED <<protocol, phase, received, located, asking, asked, answered, found, error>>

LastTarget ==
    /\ protocol = "ssdp" /\ phase = "collect" /\ target = SearchTargets
    /\ phase' = "describe" /\ located' = received
    /\ UNCHANGED <<protocol, received, target, asking, asked, answered, found, error>>

Skips(answer) == answer.location = Nothing \/ answer.location \in DOMAIN found

SkipAnswer ==
    /\ phase = "describe" /\ located # <<>> /\ Skips(Head(located))
    /\ located' = Tail(located)
    /\ UNCHANGED <<protocol, phase, received, target, asking, asked, answered, found, error>>

\* The description is fetched, which may fail: the device is made all the same.
Describe ==
    /\ phase = "describe" /\ located # <<>> /\ ~Skips(Head(located))
    /\ located' = Tail(located)
    /\ \E description \in {Nothing, "described"} :
          found' = Put(found, Head(located).location,
                       [ip |-> Head(located).ip, description |-> description,
                        made |-> IF Head(located).location \in DOMAIN found
                                 THEN found[Head(located).location].made + 1 ELSE 1])
    /\ UNCHANGED <<protocol, phase, received, target, asking, asked, answered, error>>

-----------------------------------------------------------------------------
(* SNMP *)

AskAddress(a) ==
    /\ protocol = "snmp" /\ phase = "collect"
    /\ a \in Agents \ asked /\ Cardinality(DOMAIN asking) < MaxConcurrent
    /\ asking' = Put(asking, a, [told |-> {}, left |-> Oids])
    /\ asked' = asked \cup {a}
    /\ UNCHANGED <<protocol, phase, received, target, located, answered, found, error>>

\* A value of the system group is told, or its query fails and is passed over.
QueryOid(a) ==
    /\ a \in DOMAIN asking /\ asking[a].left # {}
    /\ \E o \in asking[a].left : \E told \in {{}, {o}} :
          /\ asking' = [asking EXCEPT ![a].left = @ \ {o}, ![a].told = @ \cup told]
          /\ answered' = [answered EXCEPT ![a] = @ \cup told]
    /\ UNCHANGED <<protocol, phase, received, target, located, asked, found, error>>

Stops(a) == [b \in DOMAIN asking \ {a} |-> asking[b]]

\* A query raises: nothing is known of the address, whatever it told before.
QueryRaises(a) ==
    /\ a \in DOMAIN asking /\ asking[a].left # {}
    /\ asking' = Stops(a)
    /\ answered' = [answered EXCEPT ![a] = {}]
    /\ UNCHANGED <<protocol, phase, received, target, located, asked, found, error>>

\* The interfaces are walked; their failure loses the interfaces only.
AddressDone(a) ==
    /\ a \in DOMAIN asking /\ asking[a].left = {}
    /\ asking' = Stops(a)
    /\ found' = IF asking[a].told = {} THEN found ELSE Put(found, a, asking[a].told)
    /\ UNCHANGED <<protocol, phase, received, target, located, asked, answered, error>>

-----------------------------------------------------------------------------
ProtEnds ==
    /\ \/ protocol = "mdns" /\ phase = "collect"
       \/ protocol = "ssdp" /\ phase = "describe" /\ located = <<>>
       \/ protocol = "snmp" /\ phase = "collect" /\ asked = Agents /\ DOMAIN asking = {}
    /\ phase' = "done"
    /\ UNCHANGED <<protocol, received, target, located, asking, asked, answered, found, error>>

ProtNext ==
    \/ ProtBegins \/ ProtCannotBegin \/ ProtEnds
    \/ \E p \in Packets : ReceivePacket(p)
    \/ \E a \in Answers : ReceiveAnswer(a)
    \/ NextTarget \/ LastTarget \/ SkipAnswer \/ Describe
    \/ \E a \in Agents : AskAddress(a) \/ QueryOid(a) \/ QueryRaises(a) \/ AddressDone(a)

ProtSpec == ProtInit /\ [][ProtNext]_protVars

-----------------------------------------------------------------------------
(* Properties *)

\* The shape of the state; no more addresses are asked at a time than configured.
ProtTypeOK ==
    /\ phase \in {"idle", "collect", "describe", "done"} /\ error \in BOOLEAN
    /\ Len(received) <= MaxReceived /\ target \in 1 .. SearchTargets
    /\ DOMAIN asking \subseteq asked /\ asked \subseteq Agents
    /\ Cardinality(DOMAIN asking) <= MaxConcurrent
    /\ \A a \in DOMAIN asking : asking[a].told \cup asking[a].left \subseteq Oids

\* What the SRV records of all packets received say of an address: a service counts
\* if the packet has the address of its target.
ServicesOf(packet, ip) ==
    {packet[i].name : i \in {j \in DOMAIN packet :
        packet[j].kind = "SRV" /\ HasAddress(packet, packet[j].target)
                              /\ AddressIn(packet, packet[j].target) = ip}}

\* Each address mDNS has heard of is one device, and has every service told for it in
\* any packet, in whatever order packets and their records came.
EveryServiceKept ==
    protocol = "mdns" =>
        /\ DOMAIN found = UNION {{received[i][j].ip : j \in {k \in DOMAIN received[i] :
                                     received[i][k].kind = "A"}} : i \in DOMAIN received}
        /\ \A ip \in DOMAIN found :
              found[ip].services = UNION {ServicesOf(received[i], ip) : i \in DOMAIN received}

\* What is known of a device is not unlearned: a host name stays, services, ports and
\* capabilities are only added.
DevicesGrow ==
    [][protocol = "mdns" =>
          \A ip \in DOMAIN found :
              /\ ip \in DOMAIN found'
              /\ found[ip].hostname # Nothing => found'[ip].hostname = found[ip].hostname
              /\ found[ip].services \subseteq found'[ip].services
              /\ found[ip].txt \subseteq found'[ip].txt]_protVars

\* When SSDP is done, each location that answered, to whichever targets and however
\* often, was described once, for the sender of its first answer.
OncePerLocation ==
    protocol = "ssdp" /\ phase = "done" /\ ~error =>
        /\ DOMAIN found = {received[i].location : i \in DOMAIN received} \ {Nothing}
        /\ \A l \in DOMAIN found :
              /\ found[l].made = 1
              /\ \E i \in DOMAIN received :
                    /\ received[i] = [location |-> l, ip |-> found[l].ip]
                    /\ \A j \in 1 .. i - 1 : received[j].location # l

\* When SNMP is done, the devices are the addresses that told anything.
EveryAnswerCounts ==
    protocol = "snmp" /\ phase = "done" /\ ~error =>
        \A a \in Agents : a \in DOMAIN found <=> answered[a] # {}

\* What the protocols make of the packets and answers they received, whatever their order.
ProtInv == ProtTypeOK /\ EveryServiceKept /\ OncePerLocation /\ EveryAnswerCounts

=============================================================================
