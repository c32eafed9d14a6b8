---------------------------- MODULE DiscoveryCache ----------------------------
(***************************************************************************)
(* The cache of discovery: a device and the address it is known under are   *)
(* two entries.  With the Redis backend each access suspends, can fail,    *)
(* and may have been applied though it failed (a time-out); the backend in *)
(* memory neither suspends nor fails.  Entries of both expire.             *)
(***************************************************************************)
EXTENDS Naturals, FiniteSets

CONSTANTS Clients, Devices, Addresses,
          None,      \* no entry
          MaxOps     \* bound of the calls

ASSUME CacheAssumption == None \notin Clients \cup Devices \cup Addresses /\ MaxOps \in Nat

VARIABLES
    backend,    \* redis or memory
    deviceAt,   \* the entries device:<id>: the address in the cached device
    idAt,       \* the entries ip:<address>: a device id
    op,         \* by client: its call in progress
    ops,        \* the calls begun
    lookedUp,      \* by client: what its last look-up by address returned
    sure        \* acknowledged and not touched since: <<device, address>> cached, or
                \* <<device, None>> removed

cacheVars == <<backend, deviceAt, idAt, op, ops, lookedUp, sure>>

Idle == [at |-> "idle", device |-> None, address |-> None, ok |-> TRUE, alone |-> TRUE]

CacheInit ==
    /\ backend \in {"redis", "memory"}
    /\ deviceAt = [d \in Devices |-> None] /\ idAt = [a \in Addresses |-> None]
    /\ op = [c \in Clients |-> Idle] /\ ops = 0
    /\ lookedUp = [c \in Clients |-> None]
    /\ sure = {}

-----------------------------------------------------------------------------
\* In memory a call is not interleaved with others.
Turn(c) == backend = "memory" => \A o \in Clients \ {c} : op[o].at = "idle"

\* A write succeeds, or fails with or without effect.
Outcomes == IF backend = "redis" THEN {<<TRUE, TRUE>>, <<FALSE, FALSE>>, <<FALSE, TRUE>>}
            ELSE {<<TRUE, TRUE>>}

\* What calls on a device and an address make doubtful: entries of either, and the
\* calls that write them.  (None stands for all devices, or all addresses.)
Meet(x, y) == x = y \/ x = None \/ y = None
Touches(d, a, e, b) == Meet(d, e) \/ Meet(a, b)
Disturb(c, d, a) ==
    [o \in Clients |-> IF o # c /\ op[o].at # "idle" /\ Touches(d, a, op[o].device, op[o].address)
                       THEN [op[o] EXCEPT !.alone = FALSE] ELSE op[o]]

Upsets(d, a, s) == IF s[2] = None THEN Meet(d, s[1]) ELSE Touches(d, a, s[1], s[2])

Begin(c, at, d, a) ==
    /\ op[c].at = "idle" /\ Turn(c)
    /\ ops < MaxOps /\ ops' = ops + 1
    /\ op' = [Disturb(c, d, a) EXCEPT ![c] =
                 [at |-> at, device |-> d, address |-> a, ok |-> TRUE,
                  alone |-> \A o \in Clients \ {c} :
                     op[o].at # "idle" => ~Touches(d, a, op[o].device, op[o].address)]]
    /\ sure' = {s \in sure : ~Upsets(d, a, s)}
    /\ UNCHANGED <<backend, deviceAt, idAt, lookedUp>>

-----------------------------------------------------------------------------
(* cache_device: the device, then its address *)

CacheDevice(c, d, a) == Begin(c, "setDevice", d, a)

SetDevice(c) ==
    /\ op[c].at = "setDevice" /\ Turn(c)
    /\ \E o \in Outcomes :
          /\ deviceAt' = IF o[2] THEN [deviceAt EXCEPT ![op[c].device] = op[c].address] ELSE deviceAt
          /\ op' = [op EXCEPT ![c].at = "setIp", ![c].ok = o[1]]
    /\ UNCHANGED <<backend, idAt, ops, lookedUp, sure>>

\* Mutant of Both: one write that succeeds is enough.
Either(a, b) == a \/ b
Both(a, b) == a /\ b

SetIp(c) ==
    /\ op[c].at = "setIp" /\ Turn(c)
    /\ \E o \in Outcomes :
          /\ idAt' = IF o[2] THEN [idAt EXCEPT ![op[c].address] = op[c].device] ELSE idAt
          /\ sure' = IF Both(op[c].ok, o[1]) /\ op[c].alone
                     THEN sure \cup {<<op[c].device, op[c].address>>} ELSE sure
    /\ op' = [op EXCEPT ![c] = Idle]
    /\ UNCHANGED <<backend, deviceAt, ops, lookedUp>>

-----------------------------------------------------------------------------
(* remove_device: the device is read for its address, then both are deleted *)

RemoveDevice(c, d) == Begin(c, "get", d, None)

GetToRemove(c) ==
    /\ op[c].at = "get" /\ Turn(c)
    /\ \E a \in {deviceAt[op[c].device]} \cup (IF backend = "redis" THEN {None} ELSE {}) :
          op' = [op EXCEPT ![c].at = "deleteDevice", ![c].address = a]
    /\ UNCHANGED <<backend, deviceAt, idAt, ops, lookedUp, sure>>

\* What has been removed is sure once the call returns with success.
Removed(c, ok) ==
    sure' = IF ok /\ op[c].alone THEN sure \cup {<<op[c].device, None>>} ELSE sure

\* A deletion is a success if there was an entry.
DeleteDevice(c) ==
    /\ op[c].at = "deleteDevice" /\ Turn(c)
    /\ \E o \in Outcomes :
          LET ok == o[1] /\ deviceAt[op[c].device] # None
          IN /\ deviceAt' = IF o[2] THEN [deviceAt EXCEPT ![op[c].device] = None] ELSE deviceAt
             /\ IF op[c].address = None
                THEN op' = [op EXCEPT ![c] = Idle] /\ Removed(c, ok)
                ELSE /\ op' = [op EXCEPT ![c].at = "deleteIp", ![c].ok = ok]
                     /\ UNCHANGED sure
    /\ UNCHANGED <<backend, idAt, ops, lookedUp>>

DeleteIp(c) ==
    /\ op[c].at = "deleteIp" /\ Turn(c)
    /\ \E o \in Outcomes :
          /\ Removed(c, Both(op[c].ok, o[1] /\ idAt[op[c].address] # None))
          /\ idAt' = IF o[2] THEN [idAt EXCEPT ![op[c].address] = None] ELSE idAt
    /\ op' = [op EXCEPT ![c] = Idle]
    /\ UNCHANGED <<backend, deviceAt, ops, lookedUp>>

-----------------------------------------------------------------------------
(* get_device_by_ip: the id, then the device; clear_all; expiry *)

GetByIp(c, a) ==
    /\ op[c].at = "idle" /\ Turn(c) /\ ops < MaxOps /\ ops' = ops + 1
    /\ \E id \in {idAt[a]} \cup (IF backend = "redis" THEN {None} ELSE {}) :
          IF id = None
          THEN lookedUp' = [lookedUp EXCEPT ![c] = None] /\ UNCHANGED op
          ELSE /\ op' = [op EXCEPT ![c] = [Idle EXCEPT !.at = "getDevice", !.device = id,
                                                      !.address = a]]
               /\ UNCHANGED lookedUp
    /\ UNCHANGED <<backend, deviceAt, idAt, sure>>

GetFound(c) ==
    /\ op[c].at = "getDevice" /\ Turn(c)
    /\ \E got \in {deviceAt[op[c].device]} \cup (IF backend = "redis" THEN {None} ELSE {}) :
          lookedUp' = [lookedUp EXCEPT ![c] = IF got = None THEN None ELSE op[c].device]
    /\ op' = [op EXCEPT ![c] = Idle]
    /\ UNCHANGED <<backend, deviceAt, idAt, ops, sure>>

ClearAll(c) ==
    /\ op[c].at = "idle" /\ Turn(c) /\ ops < MaxOps /\ ops' = ops + 1
    /\ \E o \in Outcomes :
          /\ deviceAt' = IF o[2] THEN [d \in Devices |-> None] ELSE deviceAt
          /\ idAt' = IF o[2] THEN [a \in Addresses |-> None] ELSE idAt
    /\ sure' = {} /\ op' = Disturb(c, None, None)
    /\ UNCHANGED <<backend, lookedUp>>

ExpireDevice(d) ==
    /\ deviceAt[d] # None
    /\ deviceAt' = [deviceAt EXCEPT ![d] = None]
    /\ sure' = {s \in sure : s[1] # d \/ s[2] = None} /\ op' = Disturb(None, d, d)
    /\ UNCHANGED <<backend, idAt, ops, lookedUp>>

ExpireIp(a) ==
    /\ idAt[a] # None
    /\ idAt' = [idAt EXCEPT ![a] = None]
    /\ sure' = {s \in sure : s[2] # a} /\ op' = Disturb(None, a, a)
    /\ UNCHANGED <<backend, deviceAt, ops, lookedUp>>

-----------------------------------------------------------------------------
CacheStep(c) ==
    \/ SetDevice(c) \/ SetIp(c) \/ GetToRemove(c) \/ DeleteDevice(c) \/ DeleteIp(c) \/ GetFound(c)

CacheNext ==
    \/ \E c \in Clients :
          \/ \E d \in Devices : RemoveDevice(c, d) \/ \E a \in Addresses : CacheDevice(c, d, a)
          \/ \E a \in Addresses : GetByIp(c, a)
          \/ ClearAll(c)
          \/ CacheStep(c)
    \/ \E d \in Devices : ExpireDevice(d)
    \/ \E a \in Addresses : ExpireIp(a)

CacheSpec == CacheInit /\ [][CacheNext]_cacheVars

-----------------------------------------------------------------------------
(* Properties *)

\* The shape of the state; in memory one call is in progress at a time.
CacheTypeOK ==
    /\ deviceAt \in [Devices -> Addresses \cup {None}]
    /\ idAt \in [Addresses -> Devices \cup {None}]
    /\ lookedUp \in [Clients -> Devices \cup {None}]
    /\ sure \subseteq Devices \X (Addresses \cup {None}) /\ ops \in 0 .. MaxOps
    /\ backend = "memory" => Cardinality({c \in Clients : op[c].at # "idle"}) <= 1

\* What a call reports as done is so.  A device cached with success is lookedUp by its
\* address and is cached with it, one removed with success is not cached, until they
\* expire or a call on the device, the address, or everything begins; also when such
\* calls overlapped before, failed half-way, or took effect though they failed.
AckedHolds ==
    \A s \in sure :
        IF s[2] = None THEN deviceAt[s[1]] = None
        ELSE deviceAt[s[1]] = s[2] /\ idAt[s[2]] = s[1]

\* A look-up by address tells of a device only while it is cached, although a device
\* that expires or is removed leaves its address behind.
FoundIsCached ==
    [][\A c \in Clients : lookedUp'[c] # lookedUp[c] /\ lookedUp'[c] # None
          => deviceAt[lookedUp'[c]] # None]_cacheVars

\* What callers of the cache rely on at any time.
CacheInv == CacheTypeOK /\ AckedHolds

=============================================================================
