---------------------------- MODULE ConnectionPool ----------------------------
(***************************************************************************)
(* The counters of a connection pool that wraps an engine, and the drain   *)
(* that polls one of them.  A user of the pool (a caller, its own health   *)
(* check or a connection that warms it up) suspends while its connection   *)
(* starts, while it uses it, and while it is closed.                       *)
(***************************************************************************)
EXTENDS Integers, FiniteSets

CONSTANTS
    Users,
    MaxRequests      \* bound of the requests

ASSUME PoolAssumption == IsFiniteSet(Users) /\ MaxRequests \in Nat

VARIABLES
    hold,            \* by user: idle, starting, using, closing, or dropping a connection
                     \* that did not start
    active,          \* _active_connections
    poolStats,       \* requests, created, closed, failed, peak
    drain,           \* of the one drain_pool() looked at: idle, polling, drained, expired
    requests,        \* ghost: all requests; the statistics may be reset
    badStarts, badCloses,  \* ghost: connections that did not start, or did not close
    resetInUse       \* ghost: the statistics were reset while one was asked for, held or counted

poolVars == <<hold, active, poolStats, drain, requests, badStarts, badCloses, resetInUse>>

Zero == [requests |-> 0, created |-> 0, closed |-> 0, failed |-> 0, peak |-> 0]

PoolInit ==
    /\ hold = [u \in Users |-> "idle"] /\ active = 0 /\ poolStats = Zero /\ drain = "idle"
    /\ requests = 0 /\ badStarts = 0 /\ badCloses = 0 /\ resetInUse = FALSE

Holding == {u \in Users : hold[u] \in {"using", "closing"}}

-----------------------------------------------------------------------------
(* get_connection *)

Ask(u) ==
    /\ hold[u] = "idle" /\ requests < MaxRequests
    /\ requests' = requests + 1
    /\ poolStats' = [poolStats EXCEPT !.requests = @ + 1]
    /\ hold' = [hold EXCEPT ![u] = "starting"]
    /\ UNCHANGED <<active, drain, badStarts, badCloses, resetInUse>>

Peak(peak) == IF active + 1 > peak THEN active + 1 ELSE peak

Starts(u) ==
    /\ hold[u] = "starting"
    /\ active' = active + 1
    /\ poolStats' = [poolStats EXCEPT !.created = @ + 1, !.peak = Peak(@)]
    /\ hold' = [hold EXCEPT ![u] = "using"]
    /\ UNCHANGED <<drain, requests, badStarts, badCloses, resetInUse>>

\* The connection exists by now, so it is closed as if it had been counted.
StartFails(u) ==
    /\ hold[u] = "starting"
    /\ poolStats' = [poolStats EXCEPT !.failed = @ + 1]
    /\ hold' = [hold EXCEPT ![u] = "dropping"]
    /\ badStarts' = badStarts + 1
    /\ UNCHANGED <<active, drain, requests, badCloses, resetInUse>>

\* The user is done, or has failed.
Done(u, failed) ==
    /\ hold[u] = "using"
    /\ poolStats' = IF failed THEN [poolStats EXCEPT !.failed = @ + 1] ELSE poolStats
    /\ hold' = [hold EXCEPT ![u] = "closing"]
    /\ UNCHANGED <<active, drain, requests, badStarts, badCloses, resetInUse>>

\* Mutant of OneLess: the counter is taken to zero by any connection that closes.
OneLessAll(n) == 0
OneLess(n) == IF n = 0 THEN 0 ELSE n - 1

Closes(u) ==
    /\ hold[u] \in {"closing", "dropping"}
    /\ active' = OneLess(active)
    /\ poolStats' = [poolStats EXCEPT !.closed = @ + 1]
    /\ hold' = [hold EXCEPT ![u] = "idle"]
    /\ UNCHANGED <<drain, requests, badStarts, badCloses, resetInUse>>

CloseFails(u) ==
    /\ hold[u] \in {"closing", "dropping"}
    /\ hold' = [hold EXCEPT ![u] = "idle"]
    /\ badCloses' = badCloses + 1
    /\ UNCHANGED <<active, poolStats, drain, requests, badStarts, resetInUse>>

-----------------------------------------------------------------------------
ResetStatistics ==
    /\ poolStats # Zero
    /\ poolStats' = Zero
    /\ resetInUse' = (resetInUse \/ active > 0 \/ \E u \in Users : hold[u] # "idle")
    /\ UNCHANGED <<hold, active, drain, requests, badStarts, badCloses>>

\* drain_pool: the counter is read at every turn, before the clock.
BeginDrain ==
    /\ drain # "polling"
    /\ drain' = IF active = 0 THEN "drained" ELSE "polling"
    /\ UNCHANGED <<hold, active, poolStats, requests, badStarts, badCloses, resetInUse>>

\* Mutant of DrainTurn: running out of time is reported as having drained.
DrainTurnAnyway ==
    /\ drain = "polling"
    /\ drain' \in IF active = 0 THEN {"drained"} ELSE {"polling", "drained"}
    /\ UNCHANGED <<hold, active, poolStats, requests, badStarts, badCloses, resetInUse>>

DrainTurn ==
    /\ drain = "polling"
    /\ drain' \in IF active = 0 THEN {"drained"} ELSE {"polling", "expired"}
    /\ UNCHANGED <<hold, active, poolStats, requests, badStarts, badCloses, resetInUse>>

PoolStep(u) == Starts(u) \/ StartFails(u) \/ Done(u, FALSE) \/ Done(u, TRUE) \/ Closes(u) \/ CloseFails(u)

PoolNext ==
    \/ \E u \in Users : Ask(u) \/ PoolStep(u)
    \/ ResetStatistics \/ BeginDrain \/ DrainTurn

PoolSpec == PoolInit /\ [][PoolNext]_poolVars

\* What is started, used or closed comes to an end, and the drain goes on polling.
PoolFairness == (\A u \in Users : WF_poolVars(PoolStep(u))) /\ WF_poolVars(DrainTurn)

-----------------------------------------------------------------------------
(* Properties *)

\* The shape of the state.
PoolTypeOK ==
    /\ hold \in [Users -> {"idle", "starting", "using", "closing", "dropping"}]
    /\ active \in 0 .. Cardinality(Users) + badCloses
    /\ \A f \in DOMAIN poolStats : poolStats[f] \in 0 .. requests
    /\ drain \in {"idle", "polling", "drained", "expired"}

\* The counter the drain relies on is the number of connections held, off by no more than
\* the connections that did not start (it is then too low) or did not close (too high).
ActiveTracksUse ==
    Cardinality(Holding) - badStarts <= active /\ active <= Cardinality(Holding) + badCloses

\* The statistics, unless they were reset under way: every request is starting, or has become
\* a connection or a failure; nothing is closed that was not asked for, or twice; and the
\* peak lies between the connections open now, but for those uncounted by others that did
\* not start, and those created.
StatsAgree ==
    ~resetInUse =>
        /\ poolStats.requests <= poolStats.created + poolStats.failed
                                  + Cardinality({u \in Users : hold[u] = "starting"})
        /\ poolStats.closed + Cardinality({u \in Users : hold[u] # "idle"}) <= poolStats.requests
        /\ Cardinality(Holding) - badStarts <= poolStats.peak /\ poolStats.peak <= poolStats.created

\* A drain that says so finds no connection in use, unless one did not start.
DrainedIsIdle ==
    [][drain' = "drained" /\ drain' # drain => Cardinality(Holding) <= badStarts]_poolVars

\* Once the users stop asking, the pool is idle, and if all connections closed the
\* counter says so.
PoolComesToRest == <>[](Holding = {} /\ (badCloses = 0 => active = 0))

\* The counter and the statistics of the pool agree with the connections there are.
PoolInv == PoolTypeOK /\ ActiveTracksUse /\ StatsAgree

=============================================================================
