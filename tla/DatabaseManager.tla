---------------------------- MODULE DatabaseManager ----------------------------
(***************************************************************************)
(* The life of the database manager (initialize, shutdown, recreate_engine *)
(* by several callers) and the transactions it hands out.  initialize()    *)
(* does not suspend: starting the health checker only creates a task.      *)
(* shutdown() suspends in the checker's stop() and in the engine's         *)
(* dispose(), and reads the manager's state again each time it resumes.    *)
(***************************************************************************)
EXTENDS Integers, FiniteSets

CONSTANTS
    Operators,       \* callers of initialize, shutdown and recreate_engine
    Clients,         \* callers of get_transaction
    NoEngine,
    MaxEngines,      \* bound of the engines made
    MaxTransactions  \* bound of the transactions begun

ASSUME ManagerAssumption ==
    /\ IsFiniteSet(Operators) /\ IsFiniteSet(Clients)
    /\ MaxEngines \in Nat /\ MaxTransactions \in Nat /\ NoEngine \notin Nat

VARIABLES
    initialized,     \* _is_initialized
    engine,          \* the engine of the manager, and of its session factory and health checker
    engines,         \* how many have been made
    checking,        \* the engines whose health checker runs
    disposed,        \* the engines disposed of
    operator,        \* by operator: what it is doing, and the old engine of a recreation
    client,          \* by client: idle, working, committing, undoing, undone, closing
    transactions,    \* _transaction_count
    begun,           \* ghost: how many were begun
    used,            \* ghost: the engines that have been in use
    overlapped,      \* ghost: two shutdowns have overlapped
    disposeFailed    \* ghost: a shutdown failed since the last initialisation

dbmVars == <<initialized, engine, engines, checking, disposed, operator, client, transactions,
             begun, used, overlapped, disposeFailed>>
lifeVars == <<initialized, engine, engines, checking, disposed, operator, used, overlapped,
              disposeFailed>>
transactionVars == <<client, transactions, begun>>

Idle == [does |-> "nothing", old |-> NoEngine]

ManagerInit ==
    /\ initialized = FALSE /\ engine = NoEngine /\ engines = 0 /\ checking = {} /\ disposed = {}
    /\ operator = [o \in Operators |-> Idle]
    /\ client = [c \in Clients |-> "idle"] /\ transactions = 0
    /\ begun = 0 /\ used = {}
    /\ overlapped = FALSE /\ disposeFailed = FALSE

-----------------------------------------------------------------------------
(* initialize, shutdown, recreate_engine *)

\* A new engine with its checker, unless there is one; nothing is undone when the set-up
\* fails after the engine was made.
Initialize(works) ==
    IF initialized THEN UNCHANGED <<initialized, engine, engines, checking, used, disposeFailed>>
    ELSE /\ engines < MaxEngines
         /\ engines' = engines + 1 /\ engine' = engines + 1
         /\ checking' = IF works THEN checking \cup {engines + 1} ELSE checking
         /\ used' = IF works THEN used \cup {engines + 1} ELSE used
         /\ initialized' = works
         /\ disposeFailed' = FALSE

CallInitialize(o, works) ==
    /\ operator[o] = Idle /\ ~initialized
    /\ Initialize(works)
    /\ UNCHANGED <<disposed, operator, overlapped, transactionVars>>

\* shutdown, up to its first suspension: the checker is asked to stop.
BeginShutdown(o) ==
    /\ operator[o] = Idle /\ initialized
    /\ operator' = [operator EXCEPT ![o] = [@ EXCEPT !.does = "stopping"]]
    /\ checking' = checking \ {engine}
    /\ overlapped' = (overlapped \/ \E p \in Operators : operator[p].does \in {"stopping", "disposing"})
    /\ UNCHANGED <<used, initialized, engine, engines, disposed, disposeFailed, transactionVars>>

\* Mutant of CheckerStopped: the manager has forgotten its engine before it is disposed of.
CheckerStoppedForgets(o) ==
    /\ operator[o].does = "stopping"
    /\ operator' = [operator EXCEPT ![o] = [does |-> "disposing", old |-> NoEngine]]
    /\ UNCHANGED <<used, initialized, engine, engines, checking, disposed, overlapped, disposeFailed,
                   transactionVars>>

\* The engine disposed of is the manager's engine by now.
CheckerStopped(o) ==
    /\ operator[o].does = "stopping"
    /\ operator' = [operator EXCEPT ![o] = [does |-> "disposing", old |-> engine]]
    /\ UNCHANGED <<used, initialized, engine, engines, checking, disposed, overlapped, disposeFailed,
                   transactionVars>>

EngineDisposed(o) ==
    /\ operator[o].does = "disposing"
    /\ disposed' = disposed \cup {operator[o].old}
    /\ initialized' = FALSE
    /\ operator' = [operator EXCEPT ![o] = Idle]
    /\ UNCHANGED <<used, engine, engines, checking, overlapped, disposeFailed, transactionVars>>

\* The failure is logged, and the manager still counts as initialised.
DisposeFails(o) ==
    /\ operator[o].does = "disposing"
    /\ operator' = [operator EXCEPT ![o] = Idle]
    /\ disposeFailed' = TRUE
    /\ UNCHANGED <<used, initialized, engine, engines, checking, disposed, overlapped, transactionVars>>

RecreateEngine(o, works) ==
    /\ operator[o] = Idle
    /\ engine # NoEngine
    /\ Initialize(works)
    /\ operator' = IF ~initialized /\ ~works THEN operator
                   ELSE [operator EXCEPT ![o] = [does |-> "dropping", old |-> engine]]
    /\ UNCHANGED <<disposed, overlapped, transactionVars>>

OldEngineGone(o, works) ==
    /\ operator[o].does = "dropping"
    /\ disposed' = IF works THEN disposed \cup {operator[o].old} ELSE disposed
    /\ operator' = [operator EXCEPT ![o] = Idle]
    /\ UNCHANGED <<used, initialized, engine, engines, checking, overlapped, disposeFailed, transactionVars>>

-----------------------------------------------------------------------------
(* get_transaction *)

Begin(c) ==
    /\ client[c] = "idle" /\ initialized /\ begun < MaxTransactions
    /\ begun' = begun + 1
    /\ transactions' = transactions + 1
    /\ client' = [client EXCEPT ![c] = "working"]
    /\ UNCHANGED lifeVars

Becomes(c, state) ==
    /\ client' = [client EXCEPT ![c] = state]
    /\ UNCHANGED <<lifeVars, begun>>

OneTransactionLess == transactions' = IF transactions = 0 THEN 0 ELSE transactions - 1

BodyEnds(c) ==
    /\ client[c] = "working"
    /\ \E state \in {"committing", "undoing"} : Becomes(c, state)
    /\ UNCHANGED transactions

CommitSucceeds(c) ==
    /\ client[c] = "committing" /\ Becomes(c, "closing") /\ OneTransactionLess

CommitFails(c) ==
    /\ client[c] = "committing" /\ Becomes(c, "undoing") /\ UNCHANGED transactions

\* The roll-back has succeeded or failed; the session's own follows, and may fail as well.
RolledBack(c) == client[c] = "undoing" /\ Becomes(c, "undone") /\ OneTransactionLess
SessionRolledBack(c) == client[c] = "undone" /\ Becomes(c, "closing") /\ UNCHANGED transactions
SessionClosed(c) == client[c] = "closing" /\ Becomes(c, "idle") /\ UNCHANGED transactions

ClientStep(c) == 
    \/ BodyEnds(c) \/ CommitSucceeds(c) \/ CommitFails(c)
    \/ RolledBack(c) \/ SessionRolledBack(c) \/ SessionClosed(c)
ShutdownStep(o) == CheckerStopped(o) \/ EngineDisposed(o) \/ DisposeFails(o)

ManagerNext ==
    \/ \E o \in Operators, works \in BOOLEAN :
           CallInitialize(o, works) \/ RecreateEngine(o, works) \/ OldEngineGone(o, works)
    \/ \E o \in Operators : BeginShutdown(o) \/ ShutdownStep(o)
    \/ \E c \in Clients : Begin(c) \/ ClientStep(c)

ManagerSpec == ManagerInit /\ [][ManagerNext]_dbmVars

\* What a shutdown waits for comes to an end.
ManagerFairness == \A o \in Operators : WF_dbmVars(ShutdownStep(o))

-----------------------------------------------------------------------------
(* Properties *)

\* The shape of the state.
ManagerTypeOK ==
    /\ engines \in 0 .. MaxEngines /\ engine \in (1 .. engines) \cup {NoEngine}
    /\ checking \cup disposed \subseteq 1 .. engines
    /\ \A o \in Operators : operator[o].does \in {"nothing", "stopping", "disposing", "dropping"}
    /\ client \in [Clients -> {"idle", "working", "committing", "undoing", "undone", "closing"}]
    /\ transactions \in 0 .. Cardinality(Clients)

\* As long as no two shutdowns overlap, the health of the engine in use, and of no other,
\* is watched while the manager is initialised, except from the stop of a shutdown to its
\* end; a shutdown that failed leaves it unwatched.
CheckerFollowsManager ==
    ~overlapped =>
        /\ checking \subseteq {engine}
        /\ checking # {} => initialized
        /\ initialized /\ checking = {} =>
               disposeFailed \/ \E o \in Operators : operator[o].does \in {"stopping", "disposing"}

\* No engine is lost: but for overlapping shutdowns, every engine that was in use is the
\* manager's or was disposed of, and all were once the manager is not initialised.
NoEngineLost ==
    ~overlapped =>
        /\ used \subseteq disposed \cup {engine}
        /\ ~initialized => used \subseteq disposed

\* The transactions counted are those whose body, commit or rollback is under way.
TransactionsCounted ==
    transactions = Cardinality({c \in Clients : client[c] \in {"working", "committing", "undoing"}})

\* A shutdown that has begun leaves a manager that is not initialised, or says that it failed.
ShutdownsEnd ==
    \A o \in Operators : operator[o].does = "stopping" ~> ~initialized \/ disposeFailed

\* The manager, its engines and its checker agree, and transactions are counted.
ManagerInv == ManagerTypeOK /\ CheckerFollowsManager /\ NoEngineLost /\ TransactionsCounted

=============================================================================
