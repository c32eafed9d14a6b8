----------------------------- MODULE CallWrappers -----------------------------
(***************************************************************************)
(* The decorators that run a function more than once, or not at all: the   *)
(* retry of a plugin method, the retry of the utilities, the time-out, and *)
(* the cache of results.  Time is counted in delays of the first retry.    *)
(***************************************************************************)
EXTENDS Naturals

CONSTANTS
    Wrapped,                 \* calls
    MaxRetries, MaxAttempts, \* of the plugin method, of the utility
    BackoffFactor,
    TtlSeconds,              \* of the cache
    MaxWrapTime              \* bound of the clock

ASSUME WrapperAssumption ==
    /\ MaxRetries \in Nat /\ MaxAttempts \in Nat \ {0}
    /\ BackoffFactor \in Nat \ {0} /\ TtlSeconds \in Nat /\ MaxWrapTime \in Nat

VARIABLES
    wrapper,           \* by call: plugin, utility, cached
    at,                \* by call: new, running, sleeping, returned, raised
    attempt, nextDelay,\* by call: the attempts that failed; current_delay
    slept, wakes,      \* by call: the time slept in all, and when it wakes
    raising,           \* by call: what the last attempt raised: listed, other, timeout
    value,             \* by call: when the value it returned was computed
    began,             \* by call: when it began
    cacheAt,           \* the timestamp of the cached value, MaxWrapTime + 1 if there is none
    clock

wrapVars == <<wrapper, at, attempt, nextDelay, slept, wakes, raising, value, began, cacheAt, clock>>

WrapInit ==
    /\ wrapper \in [Wrapped -> {"plugin", "utility", "cached"}]
    /\ at = [c \in Wrapped |-> "new"]
    /\ attempt = [c \in Wrapped |-> 0] /\ nextDelay = [c \in Wrapped |-> 1]
    /\ slept = [c \in Wrapped |-> 0] /\ wakes = [c \in Wrapped |-> 0]
    /\ raising = [c \in Wrapped |-> "nothing"]
    /\ value = [c \in Wrapped |-> 0] /\ began = [c \in Wrapped |-> 0]
    /\ cacheAt = MaxWrapTime + 1 /\ clock = 0

\* Mutant of Fresh: the age of what is cached does not matter.
FreshForever == cacheAt <= MaxWrapTime
Fresh == cacheAt <= MaxWrapTime /\ clock - cacheAt < TtlSeconds

\* The call runs, unless a fresh value is cached.
StartsCall(c) ==
    /\ at[c] = "new"
    /\ began' = [began EXCEPT ![c] = clock]
    /\ IF wrapper[c] = "cached" /\ Fresh
       THEN at' = [at EXCEPT ![c] = "returned"] /\ value' = [value EXCEPT ![c] = cacheAt]
       ELSE at' = [at EXCEPT ![c] = "running"] /\ UNCHANGED value
    /\ UNCHANGED <<wrapper, attempt, nextDelay, slept, wakes, raising, cacheAt, clock>>

Returns(c) ==
    /\ at[c] = "running"
    /\ at' = [at EXCEPT ![c] = "returned"]
    /\ value' = [value EXCEPT ![c] = clock]
    /\ cacheAt' = IF wrapper[c] = "cached" THEN clock ELSE cacheAt
    /\ UNCHANGED <<wrapper, attempt, nextDelay, slept, wakes, raising, began, clock>>

\* BackoffFactor to the power of n.
Backoff[n \in Nat] == IF n = 0 THEN 1 ELSE Backoff[n - 1] * BackoffFactor

Attempts(c) == IF wrapper[c] = "plugin" THEN MaxRetries + 1 ELSE MaxAttempts

Delay(c) == IF wrapper[c] = "plugin" THEN nextDelay[c] ELSE Backoff[attempt[c]]

\* An exception that the retry does not list, or any exception without a retry, leaves the
\* wrapper at once; the time-out of a plugin method is an exception like others.
Retried(c, e) == wrapper[c] # "cached" /\ e # "other" /\ attempt[c] + 1 < Attempts(c)

Fails(c, e) ==
    /\ at[c] = "running"
    /\ raising' = [raising EXCEPT ![c] = e]
    /\ attempt' = [attempt EXCEPT ![c] = @ + 1]
    /\ IF Retried(c, e)
       THEN /\ at' = [at EXCEPT ![c] = "sleeping"]
            /\ wakes' = [wakes EXCEPT ![c] = clock + Delay(c)]
            /\ slept' = [slept EXCEPT ![c] = @ + Delay(c)]
            /\ nextDelay' = [nextDelay EXCEPT ![c] = @ * BackoffFactor]
       ELSE at' = [at EXCEPT ![c] = "raised"] /\ UNCHANGED <<wakes, slept, nextDelay>>
    /\ UNCHANGED <<wrapper, value, began, cacheAt, clock>>

Wakes(c) ==
    /\ at[c] = "sleeping" /\ clock >= wakes[c]
    /\ at' = [at EXCEPT ![c] = "running"]
    /\ UNCHANGED <<wrapper, attempt, nextDelay, slept, wakes, raising, value, began, cacheAt, clock>>

Passes ==
    /\ clock < MaxWrapTime
    /\ clock' = clock + 1
    /\ UNCHANGED <<wrapper, at, attempt, nextDelay, slept, wakes, raising, value, began, cacheAt>>

WrapNext ==
    \/ \E c \in Wrapped :
          \/ StartsCall(c) \/ Returns(c) \/ Wakes(c)
          \/ \E e \in {"listed", "other", "timeout"} : Fails(c, e)
    \/ Passes

WrapSpec == WrapInit /\ [][WrapNext]_wrapVars

-----------------------------------------------------------------------------
(* Properties *)

\* The shape of the state; nobody tries more often than configured.
WrapTypeOK ==
    /\ at \in [Wrapped -> {"new", "running", "sleeping", "returned", "raised"}]
    /\ \A c \in Wrapped : attempt[c] <= Attempts(c) /\ (at[c] \in {"running", "sleeping"} => attempt[c] < Attempts(c))
    /\ clock \in 0 .. MaxWrapTime /\ cacheAt \in 0 .. MaxWrapTime + 1

\* The two ways to write a retry agree: with as many attempts, a call gives up after the
\* same number of failures, or at once for an exception that is not listed, and between
\* them it has slept one delay, then the delay times the factor, and so on.
RetriesAgree ==
    \A c \in Wrapped :
        wrapper[c] # "cached" =>
            /\ at[c] = "raised" /\ MaxRetries + 1 = MaxAttempts =>
                  raising[c] = "other" \/ attempt[c] = MaxAttempts
            /\ LET sleeps == IF at[c] = "raised" THEN attempt[c] - 1 ELSE attempt[c]
               IN slept[c] * (BackoffFactor - 1) = Backoff[sleeps] - 1

\* A cached value is never older than its time to live when a call gets it, though calls
\* that began before the value was cached run the function, too, and overwrite it.
CacheIsFresh ==
    \A c \in Wrapped :
        wrapper[c] = "cached" /\ at[c] = "returned" =>
            value[c] >= began[c] \/ began[c] - value[c] < TtlSeconds

\* What the decorators promise of attempts, delays and cached values.
WrapInv == WrapTypeOK /\ RetriesAgree /\ CacheIsFresh

=============================================================================
