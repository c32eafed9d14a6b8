----------------------------- MODULE CoreServices -----------------------------
(***************************************************************************)
(* Two services of the core, each a component of its own.                  *)
(*                                                                         *)
(* Secrets: processes that load their configuration from a store of        *)
(* secrets: one entry holds the key, another one the values encrypted with *)
(* it.  Every request to the store is a step; a process may stop between   *)
(* two of them, and has then a new manager.  The store makes an entry only *)
(* once.                                                                   *)
(*                                                                         *)
(* The log: tasks of one event loop that set up and leave the              *)
(* application's context (here its correlation id, which lines of the log  *)
(* are marked with) and start other tasks with a copy of theirs; and the   *)
(* handler that queues records of errors for a task of its own, which      *)
(* sends them to Sentry.  Sending does not suspend.                        *)
(***************************************************************************)
EXTENDS Naturals, Sequences, SequencesExt

CONSTANTS
    Processes,
    SecretNames,    \* the names a configuration is made of, in their order
    SecretValues,
    Keys, NoKey, NoSecrets

ASSUME SecretAssumption == NoKey \notin Keys

VARIABLES
    storedKey, storedSecrets,   \* the two entries of the store
    aged,                       \* the key is older than auto_rotation_days
    held, cached,               \* _encryption_key and _secrets_cache of each process' manager
    doing,                      \* what each process does
    everStored                  \* history: the values that were stored under their names

secretVars == <<storedKey, storedSecrets, aged, held, cached, doing, everStored>>
storeVars == <<storedKey, storedSecrets, aged, everStored>>

Configured == {SecretNames[i] : i \in DOMAIN SecretNames}
Nothing == [n \in {} |-> NoKey]

\* A call: its operation and next request, the secret it is about, the secrets it has read, and
\* the name a load of the configuration has come to.
Calling(op, step) == [op |-> op, step |-> step, name |-> NoKey, value |-> NoKey, data |-> Nothing, load |-> 0]
AtRest == Calling("none", "none")

SecretsInit ==
    /\ storedKey = NoKey /\ storedSecrets = NoSecrets /\ aged = FALSE
    /\ held = [p \in Processes |-> NoKey] /\ cached = [p \in Processes |-> Nothing]
    /\ doing = [p \in Processes |-> AtRest]
    /\ everStored = {}

-----------------------------------------------------------------------------
(* The end of a call *)

\* A load goes on with its next name that is not cached.
Remaining(p, i) == {j \in i..Len(SecretNames) : SecretNames[j] \notin DOMAIN cached'[p]}
Loading(p, i) ==
    IF Remaining(p, i) = {} THEN AtRest
    ELSE LET j == CHOOSE j \in Remaining(p, i) : \A k \in Remaining(p, i) : j <= k
         IN [Calling("get", "read") EXCEPT !.name = SecretNames[j], !.load = j]

Ends(p) == doing' = [doing EXCEPT ![p] = IF @.load = 0 THEN AtRest ELSE Loading(p, @.load + (IF @.op = "get" THEN 1 ELSE 0))]

\* An error ends a load, too.
Raises(p) == doing' = [doing EXCEPT ![p] = AtRest] /\ UNCHANGED <<held, cached>>

GoesTo(p, step) == doing' = [doing EXCEPT ![p].step = step]

-----------------------------------------------------------------------------
(* Calls *)

LoadConfig(p) ==
    /\ doing[p] = AtRest
    /\ held' = [held EXCEPT ![p] = NoKey] /\ cached' = [cached EXCEPT ![p] = Nothing]
    /\ doing' = [doing EXCEPT ![p] = [Calling("check", "check") EXCEPT !.load = 1]]
    /\ UNCHANGED storeVars

GetSecret(p, n) ==
    /\ doing[p] = AtRest /\ n \notin DOMAIN cached[p]
    /\ doing' = [doing EXCEPT ![p] = [Calling("get", "read") EXCEPT !.name = n]]
    /\ UNCHANGED <<storeVars, held, cached>>

SetSecret(p, n, v) ==
    /\ doing[p] = AtRest
    /\ doing' = [doing EXCEPT ![p] = [Calling("set", "read") EXCEPT !.name = n, !.value = v]]
    /\ UNCHANGED <<storeVars, held, cached>>

RotateEncryptionKey(p) ==
    /\ doing[p] = AtRest
    /\ doing' = [doing EXCEPT ![p] = Calling("rotate", "read")]
    /\ UNCHANGED <<storeVars, held, cached>>

-----------------------------------------------------------------------------
(* Requests *)

\* A load rotates a key that is old, and also one that is not there.
CheckRotationNeeded(p) ==
    /\ doing[p].step = "check"
    /\ UNCHANGED <<storeVars, held, cached>>
    /\ doing' = [doing EXCEPT ![p] =
           IF storedKey = NoKey \/ aged THEN [@ EXCEPT !.op = "rotate", !.step = "read"]
           ELSE Loading(p, 1)]

\* Then the key is needed, which a manager asks for once.
ReadSecrets(p) ==
    LET c == doing[p]
        data == IF storedSecrets = NoSecrets THEN Nothing ELSE storedSecrets
    IN
    /\ c.step = "read"
    /\ UNCHANGED storeVars
    /\ \/ c.op = "rotate" /\ storedSecrets = NoSecrets /\ Raises(p)
       \/ c.op = "get" /\ c.name \notin DOMAIN data /\ UNCHANGED <<held, cached>> /\ Ends(p)
       \/ /\ c.op = "rotate" => storedSecrets # NoSecrets
          /\ c.op = "get" => c.name \in DOMAIN data
          /\ doing' = [doing EXCEPT ![p].step = IF held[p] = NoKey THEN "key" ELSE "use", ![p].data = data]
          /\ UNCHANGED <<held, cached>>

ReadKey(p) ==
    /\ doing[p].step = "key"
    /\ IF storedKey = NoKey THEN GoesTo(p, "create") /\ UNCHANGED held
       ELSE GoesTo(p, "use") /\ held' = [held EXCEPT ![p] = storedKey]
    /\ UNCHANGED <<storeVars, cached>>

\* create_secret makes the entry of the key, unless there is one.
MayCreate == storedKey = NoKey

\* The first key; the answer may be lost.
CreateKey(p, k) ==
    /\ doing[p].step = "create" /\ MayCreate
    /\ storedKey' = k /\ aged' = FALSE
    /\ \/ GoesTo(p, "use") /\ held' = [held EXCEPT ![p] = k] /\ UNCHANGED cached
       \/ Raises(p)
    /\ UNCHANGED <<storedSecrets, everStored>>

Encrypted(k, v) == [key |-> k, value |-> v]
Readable(k, data) == \A n \in DOMAIN data : data[n].key = k

\* What is done with the key: a value decrypted or encrypted, or all of them decrypted.  It touches
\* nothing that others change.
UseKey(p) ==
    LET c == doing[p]
        set == [n \in DOMAIN c.data \cup {c.name} |->
                    IF n = c.name THEN Encrypted(held[p], c.value) ELSE c.data[n]]
    IN
    /\ c.step = "use"
    /\ UNCHANGED <<storeVars, held>>
    /\ \/ /\ c.op = "set"
          /\ doing' = [doing EXCEPT ![p].data = set, ![p].step = "update"] /\ UNCHANGED cached
       \/ /\ c.op = "get"
          /\ IF c.data[c.name].key # held[p] THEN Raises(p)
             ELSE /\ cached' = [cached EXCEPT ![p] = [n \in DOMAIN @ \cup {c.name} |->
                         IF n = c.name THEN c.data[n].value ELSE @[n]]]
                  /\ Ends(p)
       \/ /\ c.op = "rotate"
          /\ IF Readable(held[p], c.data) THEN GoesTo(p, "rekey") /\ UNCHANGED cached ELSE Raises(p)

\* A rotation stores its new key like a first one, which fails: by now there is a key.
Rekey(p, k) ==
    /\ doing[p].step = "rekey"
    /\ IF MayCreate
       THEN /\ storedKey' = k /\ aged' = FALSE
            /\ doing' = [doing EXCEPT ![p].step = "update",
                   ![p].data = [n \in DOMAIN @ |-> Encrypted(k, @[n].value)]]
            /\ UNCHANGED <<held, cached>>
       ELSE Raises(p) /\ UNCHANGED <<storedKey, aged>>
    /\ UNCHANGED <<storedSecrets, everStored>>

\* All values are written back, as this process has read and changed them.
UpdateSecrets(p) ==
    LET c == doing[p] IN
    /\ c.step = "update" /\ storedSecrets # NoSecrets
    /\ storedSecrets' = c.data
    /\ everStored' = everStored \cup {<<n, c.data[n].value>> : n \in DOMAIN c.data}
    /\ UNCHANGED <<storedKey, aged>>
    /\ \/ /\ held' = IF c.op = "rotate" THEN [held EXCEPT ![p] = storedKey] ELSE held
          /\ cached' = [cached EXCEPT ![p] =
                 IF c.op = "rotate" THEN Nothing
                 ELSE [n \in DOMAIN @ \cup {c.name} |-> IF n = c.name THEN c.value ELSE @[n]]]
          /\ Ends(p)
       \/ Raises(p)

\* A request fails, as an update must without an entry, and creating a key that is there.
RequestFails(p) ==
    /\ doing[p].step \notin {"none", "use"}
    /\ Raises(p) /\ UNCHANGED storeVars

-----------------------------------------------------------------------------
(* Others *)

Restart(p) ==
    /\ doing[p] # AtRest
    /\ held' = [held EXCEPT ![p] = NoKey] /\ cached' = [cached EXCEPT ![p] = Nothing]
    /\ doing' = [doing EXCEPT ![p] = AtRest]
    /\ UNCHANGED storeVars

\* Whoever administrates the store makes the entry of the secrets; the key grows old.
SecretsAreMade ==
    /\ storedSecrets = NoSecrets /\ storedSecrets' = Nothing
    /\ UNCHANGED <<storedKey, aged, held, cached, doing, everStored>>

KeyAges ==
    /\ storedKey # NoKey /\ ~aged /\ aged' = TRUE
    /\ UNCHANGED <<storedKey, storedSecrets, held, cached, doing, everStored>>

SecretsNext ==
    \/ \E p \in Processes :
        \/ LoadConfig(p) \/ RotateEncryptionKey(p)
        \/ \E n \in Configured : GetSecret(p, n) \/ \E v \in SecretValues : SetSecret(p, n, v)
        \/ CheckRotationNeeded(p) \/ ReadSecrets(p) \/ ReadKey(p) \/ UseKey(p) \/ UpdateSecrets(p)
        \/ \E k \in Keys : CreateKey(p, k) \/ Rekey(p, k)
        \/ RequestFails(p) \/ Restart(p)
    \/ SecretsAreMade \/ KeyAges

-----------------------------------------------------------------------------
(* Properties *)

\* Every stored value can be read with the stored key, wherever processes that make the first key,
\* set values, or rotate the key overlap or stop.
SecretsReadable == storedSecrets # NoSecrets => Readable(storedKey, storedSecrets)

\* A manager that has a key has the stored one.
HeldIsStored == \A p \in Processes : held[p] \in {NoKey, storedKey}

\* What a manager gives from its cache has been stored: a value that could not be written is not
\* given.
CachedWasStored == \A p \in Processes : \A n \in DOMAIN cached[p] : <<n, cached[p][n]>> \in everStored

SecretsInv == SecretsReadable /\ HeldIsStored /\ CachedWasStored

-----------------------------------------------------------------------------
(* The log *)

CONSTANTS
    LogTasks,
    GivenIds, NoId,     \* correlation ids that are given, and None
    MaxScopes, MaxIds, MaxRecords   \* bounds: scopes within each other, ids generated, records

ASSUME LogAssumption == NoId \notin GivenIds /\ MaxScopes \in Nat /\ MaxIds \in Nat /\ MaxRecords \in Nat

VARIABLES
    started,    \* the tasks that have begun
    context,    \* the correlation id in each task's context
    previous,   \* what the scopes each task is in restore, the innermost last
    own,        \* history: the id a task began with and those of its scopes
    generated,  \* how many ids were generated; they are numbers
    records,    \* history: the records written, by number: an error, while the handler ran?
    sentryQueue, capturing,     \* of the handler; capturing: _running
    captured, dropped           \* history: records sent, and those whose sending failed

contextVars == <<started, context, previous, own, generated>>
sentryVars == <<sentryQueue, capturing, captured, dropped>>
logVars == <<contextVars, records, sentryVars>>

LogInit ==
    /\ started = {}
    /\ context = [t \in LogTasks |-> NoId]
    /\ previous = [t \in LogTasks |-> <<>>]
    /\ own = [t \in LogTasks |-> <<NoId>>]
    /\ generated = 0
    /\ records = <<>>
    /\ sentryQueue = <<>> /\ capturing = FALSE
    /\ captured = <<>> /\ dropped = {}

-----------------------------------------------------------------------------
(* The context *)

NewId == generated + 1

\* A scope sets the id it is given; without one, the task keeps its own or gets a new one.
EnterScope(t, id) ==
    LET new == IF id # NoId THEN id ELSE IF context[t] # NoId THEN context[t] ELSE NewId IN
    /\ t \in started /\ Len(previous[t]) < MaxScopes
    /\ previous' = [previous EXCEPT ![t] = Append(@, context[t])]
    /\ context' = [context EXCEPT ![t] = new]
    /\ generated' = IF new = NewId THEN NewId ELSE generated
    /\ generated' <= MaxIds
    /\ own' = [own EXCEPT ![t] = Append(@, new)]
    /\ UNCHANGED <<started, records, sentryVars>>

\* Also when an exception leaves the scope.
LeaveScope(t) ==
    /\ t \in started /\ previous[t] # <<>>
    /\ context' = [context EXCEPT ![t] = Last(previous[t])]
    /\ previous' = [previous EXCEPT ![t] = Front(@)]
    /\ own' = [own EXCEPT ![t] = Front(@)]
    /\ UNCHANGED <<started, generated, records, sentryVars>>

ClearContext(t) ==
    /\ t \in started
    /\ context' = [context EXCEPT ![t] = NoId]
    /\ own' = [own EXCEPT ![t][Len(own[t])] = NoId]
    /\ UNCHANGED <<started, previous, generated, records, sentryVars>>

FirstTask(t) ==
    /\ started = {} /\ started' = {t}
    /\ UNCHANGED <<context, previous, own, generated, records, sentryVars>>

\* A task, or a function run in a copied context, begins with a copy.
StartTask(t, u) ==
    /\ t \in started /\ u \notin started
    /\ started' = started \cup {u}
    /\ context' = [context EXCEPT ![u] = context[t]]
    /\ own' = [own EXCEPT ![u] = <<context[t]>>]
    /\ UNCHANGED <<previous, generated, records, sentryVars>>

-----------------------------------------------------------------------------
(* The handler *)

StartCapturing ==
    /\ ~capturing /\ capturing' = TRUE
    /\ UNCHANGED <<contextVars, records, sentryQueue, captured, dropped>>

\* What is queued stays, for the next start.
StopCapturing ==
    /\ capturing /\ capturing' = FALSE
    /\ UNCHANGED <<contextVars, records, sentryQueue, captured, dropped>>

Log(error) ==
    /\ Len(records) < MaxRecords
    /\ records' = Append(records, [error |-> error, seen |-> capturing])
    /\ sentryQueue' = IF capturing THEN Append(sentryQueue, Len(records')) ELSE sentryQueue
    /\ UNCHANGED <<contextVars, capturing, captured, dropped>>

\* Anything below an error is thrown away, and so is a record whose sending fails.
SendNext(sent) ==
    /\ capturing /\ sentryQueue # <<>>
    /\ sentryQueue' = Tail(sentryQueue)
    /\ captured' = IF records[Head(sentryQueue)].error /\ sent THEN Append(captured, Head(sentryQueue)) ELSE captured
    /\ dropped' = IF records[Head(sentryQueue)].error /\ ~sent THEN dropped \cup {Head(sentryQueue)} ELSE dropped
    /\ UNCHANGED <<contextVars, records, capturing>>

LogNext ==
    \/ \E t \in LogTasks :
        \/ \E id \in GivenIds \cup {NoId} : EnterScope(t, id)
        \/ LeaveScope(t) \/ ClearContext(t) \/ FirstTask(t)
        \/ \E u \in LogTasks : StartTask(t, u)
    \/ \E error \in BOOLEAN : Log(error)
    \/ StartCapturing \/ StopCapturing
    \/ \E sent \in BOOLEAN : SendNext(sent)

-----------------------------------------------------------------------------
(* Properties *)

\* Wherever tasks take turns within their scopes, each logs with the id of its innermost scope, and
\* comes back to the one before, up to the one it was started with; an id is made up only within a
\* scope that has none.
ScopesNest ==
    \A t \in started :
        /\ context[t] = Last(own[t]) /\ Len(own[t]) = Len(previous[t]) + 1
        /\ \A i \in 2..Len(own[t]) :
               own[t][i] \in GivenIds \cup {NoId} \/ own[t][i - 1] \in {NoId, own[t][i]}

\* Every error logged while the handler runs is captured once, in the order of the log, unless its
\* sending fails; a stop in between delays it until the next start.
ErrorsAreCaptured ==
    /\ \A i, j \in DOMAIN captured : i < j => captured[i] < captured[j]
    /\ ToSet(sentryQueue) \cap (ToSet(captured) \cup dropped) = {}
    /\ \A n \in DOMAIN records :
           records[n].error /\ records[n].seen <=>
               \/ n \in ToSet(captured) \cup dropped
               \/ n \in ToSet(sentryQueue) /\ records[n].error

LogInv == ScopesNest /\ ErrorsAreCaptured

=============================================================================
