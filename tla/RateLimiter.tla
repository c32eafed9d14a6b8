----------------------------- MODULE RateLimiter -----------------------------
(***************************************************************************)
(* The adaptive rate limiter of discovery: a global token bucket, a bucket *)
(* per host made on first use, and a back-off delay per host.  A tick is   *)
(* the second to which a wait for tokens is capped; tokens are counted in  *)
(* parts of 1/Unit, delays in parts of 1/Unit of a tick.                   *)
(* A request runs from one sleep to the next without suspension, since the *)
(* locks of the buckets are never held across one.                         *)
(***************************************************************************)
EXTENDS Integers, FiniteSets

CONSTANTS
    Hosts, Requests, HostOf, \* a request is for one host
    Global,                  \* the global bucket
    Unit,                    \* parts of a token
    GlobalRate, HostRate,    \* parts per tick
    Timeout,                 \* of one wait for tokens, 0 for none
    FirstBackoff, MaxBackoff,
    MaxTime                  \* bound of the clock, not of the time that passes

ASSUME LimiterAssumption ==
    /\ HostOf \in [Requests -> Hosts]
    /\ Global \notin Hosts
    /\ Unit \in Nat \ {0} /\ GlobalRate \in Nat \ {0} /\ HostRate \in Nat \ {0}
    /\ Timeout \in Nat /\ FirstBackoff \in Nat /\ MaxBackoff \in Nat /\ MaxTime \in Nat

VARIABLES
    tokens, age,   \* by bucket made: the parts in it, and the time since they were counted
    backoff,       \* by host that ever failed: its delay
    pc,            \* of a request: queued, global, host, backoff, connect, open, closed
    waited, sleep, \* of a request: how long it has waited for a token, and has to sleep
    taken,         \* by bucket: the tokens taken so far
    now            \* the time

limiterVars == <<tokens, age, backoff, pc, waited, sleep, taken, now>>

Buckets == Hosts \cup {Global}
Rate(b) == IF b = Global THEN GlobalRate ELSE HostRate

\* int(limit * 2) tokens.
Capacity(b) == ((2 * Rate(b)) \div Unit) * Unit

LimiterInit ==
    /\ tokens = [b \in {Global} |-> Capacity(b)] /\ age = [b \in {Global} |-> 0]
    /\ backoff = [h \in {} |-> 0]
    /\ pc = [r \in Requests |-> "queued"]
    /\ waited = [r \in Requests |-> 0] /\ sleep = [r \in Requests |-> 0]
    /\ taken = [b \in Buckets |-> 0]
    /\ now = 0

-----------------------------------------------------------------------------
(* TokenBucket *)

Smaller(a, b) == IF a <= b THEN a ELSE b

Refilled(b) ==
    IF b \in DOMAIN tokens
    THEN Smaller(Capacity(b), tokens[b] + age[b] * Rate(b))
    ELSE Capacity(b)

Has(b) == Refilled(b) >= Unit

\* consume() on the buckets asked, which takes a token from those that have one.
Consume(asked) ==
    LET got(b) == b \in asked /\ Has(b)
    IN /\ tokens' = [b \in DOMAIN tokens \cup asked |->
                        IF b \in asked THEN Refilled(b) - (IF Has(b) THEN Unit ELSE 0)
                        ELSE tokens[b]]
       /\ age' = [b \in DOMAIN tokens \cup asked |-> IF b \in asked THEN 0 ELSE age[b]]
       /\ taken' = [b \in Buckets |-> IF got(b) THEN taken[b] + 1 ELSE taken[b]]

-----------------------------------------------------------------------------
(* AdaptiveRateLimiter.acquire *)

Sleeping == {"global", "host", "backoff"}
\* The buckets a request still has to take a token from, in this order; it asks
\* for the second one only when it has the first.
Asks(r) ==
    IF pc[r] = "host" THEN {HostOf[r]}
    ELSE {Global} \cup (IF Has(Global) THEN {HostOf[r]} ELSE {})
Missing(r) == {b \in Asks(r) : ~Has(b)}

\* Both tokens taken: the back-off of the host is slept, if there is one.
Granted(r) ==
    /\ Missing(r) = {}
    /\ Consume(Asks(r))
    /\ LET h == HostOf[r]
           delay == IF h \in DOMAIN backoff THEN backoff[h] ELSE 0
       IN /\ pc' = [pc EXCEPT ![r] = IF delay > 0 THEN "backoff" ELSE "connect"]
          /\ sleep' = [sleep EXCEPT ![r] = (delay + Unit - 1) \div Unit]
    /\ waited' = [waited EXCEPT ![r] = 0]
    /\ UNCHANGED <<now, backoff>>

\* The wait for bucket b begins here, unless the request already waits for it.
Phase(b) == IF b = Global THEN "global" ELSE "host"
Waited(r, b) == IF pc[r] = Phase(b) THEN waited[r] ELSE 0
TimedOut(r, b) == Timeout > 0 /\ Waited(r, b) >= Timeout

\* No token: the request sleeps for as long as one needs, but at most a tick.
Waits(r) ==
    \E b \in Missing(r) :
        /\ ~TimedOut(r, b)
        /\ Consume(Asks(r))
        /\ pc' = [pc EXCEPT ![r] = Phase(b)]
        /\ waited' = [waited EXCEPT ![r] = Waited(r, b)]
        /\ sleep' = [sleep EXCEPT ![r] = 1]
        /\ UNCHANGED <<now, backoff>>

\* record_success and record_failure, on the delay of a host.
Eased(h) == IF h \in DOMAIN backoff THEN [backoff EXCEPT ![h] = (@ * 4) \div 5] ELSE backoff

Raised(h) ==
    LET current == IF h \in DOMAIN backoff THEN backoff[h] ELSE FirstBackoff
    IN [i \in DOMAIN backoff \cup {h} |->
           IF i = h THEN Smaller(MaxBackoff, (current * 3) \div 2) ELSE backoff[i]]

\* RateLimitExceededError, which scan_port counts as a failure of the host.
Refused(r) ==
    /\ \E b \in Missing(r) : TimedOut(r, b)
    /\ Consume(Asks(r))
    /\ pc' = [pc EXCEPT ![r] = "closed"]
    /\ backoff' = Raised(HostOf[r])
    /\ waited' = [waited EXCEPT ![r] = 0]
    /\ UNCHANGED <<now, sleep>>

Acquire(r) == Granted(r) \/ Waits(r) \/ Refused(r)

\* The sleep for the back-off is over.
Resume(r) ==
    /\ pc[r] = "backoff" /\ sleep[r] = 0
    /\ pc' = [pc EXCEPT ![r] = "connect"]
    /\ UNCHANGED <<tokens, age, backoff, waited, sleep, taken, now>>

\* Time passes.  A bucket is full after two ticks, and a wait longer than the
\* time-out makes no difference.
Tick ==
    /\ now' = Smaller(MaxTime, now + 1)
    /\ age' = [b \in DOMAIN age |-> Smaller(2, age[b] + 1)]
    /\ sleep' = [r \in Requests |-> IF sleep[r] > 0 THEN sleep[r] - 1 ELSE 0]
    /\ waited' = [r \in Requests |-> IF pc[r] \in {"global", "host"}
                                     THEN Smaller(Timeout, waited[r] + 1) ELSE 0]
    /\ UNCHANGED <<tokens, backoff, pc, taken>>

-----------------------------------------------------------------------------
(* Properties *)

LimiterTypeOK ==
    /\ now \in 0 .. MaxTime
    /\ DOMAIN tokens \subseteq Buckets /\ Global \in DOMAIN tokens
    /\ DOMAIN age = DOMAIN tokens
    /\ \A b \in DOMAIN tokens : tokens[b] \in 0 .. Capacity(b) /\ age[b] \in 0 .. 2
    /\ DOMAIN backoff \subseteq Hosts
    /\ \A h \in DOMAIN backoff : backoff[h] \in 0 .. MaxBackoff
    /\ pc \in [Requests -> Sleeping \cup {"queued", "connect", "open", "closed"}]
    /\ waited \in [Requests -> 0 .. Timeout] /\ sleep \in [Requests -> Nat]
    /\ taken \in [Buckets -> Nat]

\* A bucket never gives more tokens than it held at first and time has added,
\* however requests for it interleave with the sleeps of others.
NeverOverRate ==
    now < MaxTime =>
        \A b \in DOMAIN tokens :
            taken[b] * Unit + tokens[b] <= Capacity(b) + Rate(b) * (now - age[b])

\* Nothing is sent to a host without a token of the host and a global one.
TokensBehindRequests ==
    /\ \A h \in Hosts :
          Cardinality({r \in Requests : HostOf[r] = h /\ pc[r] \in {"backoff", "connect", "open"}})
              <= taken[h]
    /\ \A h \in Hosts : taken[h] <= taken[Global]

=============================================================================
