------------------------------- MODULE EventBus -------------------------------
(***************************************************************************)
(* The event bus of discovery.  publish() makes a task per subscription of *)
(* a snapshot; the event loop starts tasks in the order they were made,    *)
(* a callback may suspend, fail, or be cancelled with its publish().       *)
(* Neither lock of the bus is held across a suspension, so the code under  *)
(* one belongs to the surrounding step.                                    *)
(***************************************************************************)
EXTENDS Integers, FiniteSets, Sequences, SequencesExt

CONSTANTS
    Subscriptions, Ids, IdOf, \* subscription objects; two may be made with one id
    Types, Wants,             \* the event types a subscription's filter lets through
    Suspends,                 \* the subscriptions whose callback is a coroutine that suspends
    MaxHistory,
    MaxEvents                 \* bound of the calls of publish()

ASSUME BusAssumption ==
    /\ IdOf \in [Subscriptions -> Ids]
    /\ Wants \in [Subscriptions -> SUBSET Types]
    /\ Suspends \subseteq Subscriptions
    /\ MaxHistory \in Nat /\ MaxEvents \in Nat

VARIABLES
    subscriptions, \* in the order of the dict
    made,          \* the subscription objects made so far
    eventHistory,  \* the events, which are numbered as published
    published, delivered, \* the statistics
    ready, running,       \* deliveries: tasks not started, callbacks suspended
    publishing,    \* by event whose publish() has not returned: the deliveries that succeeded
    eventCount,    \* by subscription
    got,           \* by subscription: the events its callback was called with
    due, broken    \* the deliveries publish() set out to make; the publish() cancelled

busVars == <<subscriptions, made, eventHistory, published, delivered, ready, running,
             publishing, eventCount, got, due, broken>>

BusInit ==
    /\ subscriptions = <<>> /\ made = {}
    /\ eventHistory = <<>> /\ published = 0 /\ delivered = 0
    /\ ready = <<>> /\ running = {}
    /\ publishing = [n \in {} |-> 0]
    /\ eventCount = [s \in Subscriptions |-> 0]
    /\ got = [s \in Subscriptions |-> <<>>]
    /\ due = {} /\ broken = {}

-----------------------------------------------------------------------------
(* subscribe, unsubscribe, clear_history, shutdown *)

\* A second subscription of an id takes the place of the first.
Subscribe(s) ==
    /\ s \notin made
    /\ made' = made \cup {s}
    /\ subscriptions' =
          IF \E i \in DOMAIN subscriptions : IdOf[subscriptions[i]] = IdOf[s]
          THEN [i \in DOMAIN subscriptions |->
                   IF IdOf[subscriptions[i]] = IdOf[s] THEN s ELSE subscriptions[i]]
          ELSE Append(subscriptions, s)
    /\ UNCHANGED <<eventHistory, published, delivered, ready, running, publishing, eventCount,
                   got, due, broken>>

Unsubscribe(id) ==
    /\ \E i \in DOMAIN subscriptions :
          IdOf[subscriptions[i]] = id /\ subscriptions' = RemoveAt(subscriptions, i)
    /\ UNCHANGED <<made, eventHistory, published, delivered, ready, running, publishing,
                   eventCount, got, due, broken>>

ClearHistory ==
    /\ eventHistory # <<>>
    /\ eventHistory' = <<>>
    /\ UNCHANGED <<subscriptions, made, published, delivered, ready, running, publishing,
                   eventCount, got, due, broken>>

BusShutdown ==
    /\ subscriptions # <<>>
    /\ subscriptions' = <<>> /\ eventHistory' = <<>>
    /\ UNCHANGED <<made, published, delivered, ready, running, publishing, eventCount, got,
                   due, broken>>

-----------------------------------------------------------------------------
(* publish *)

Recorded(n) ==
    LET all == Append(eventHistory, n)
    IN IF Len(all) > MaxHistory THEN Tail(all) ELSE all

Publish(t) ==
    /\ published < MaxEvents
    /\ LET n == published + 1
       IN /\ eventHistory' = Recorded(n)
          /\ published' = n
          /\ ready' = ready \o [i \in DOMAIN subscriptions |->
                                  [event |-> n, type |-> t, to |-> subscriptions[i]]]
          /\ publishing' = IF subscriptions = <<>> THEN publishing
                           ELSE [m \in DOMAIN publishing \cup {n} |->
                                    IF m = n THEN 0 ELSE publishing[m]]
          /\ due' = due \cup {<<n, s>> : s \in {q \in ToSet(subscriptions) : t \in Wants[q]}}
    /\ UNCHANGED <<subscriptions, made, delivered, running, eventCount, got, broken>>

DeliverySucceeds(task) ==
    /\ eventCount' = [eventCount EXCEPT ![task.to] = @ + 1]
    /\ publishing' = [publishing EXCEPT ![task.event] = @ + 1]

DeliveryFails(task) == UNCHANGED <<eventCount, publishing>>

\* A task starts: the filter is asked, and the callback called if it agrees.  A task whose
\* publish() was cancelled in the meantime ends here.
StartDelivery ==
    /\ ready # <<>>
    /\ LET task == Head(ready)
       IN /\ ready' = Tail(ready)
          /\ IF task.event \in DOMAIN publishing /\ task.type \in Wants[task.to]
             THEN /\ got' = [got EXCEPT ![task.to] = Append(@, task.event)]
                  /\ IF task.to \in Suspends
                     THEN running' = running \cup {task} /\ UNCHANGED <<eventCount, publishing>>
                     ELSE UNCHANGED running /\ (DeliverySucceeds(task) \/ DeliveryFails(task))
             ELSE UNCHANGED <<got, running, eventCount, publishing>>
    /\ UNCHANGED <<subscriptions, made, eventHistory, published, delivered, due, broken>>

EndDelivery(task) ==
    /\ task \in running
    /\ running' = running \ {task}
    /\ DeliverySucceeds(task) \/ DeliveryFails(task)
    /\ UNCHANGED <<subscriptions, made, eventHistory, published, delivered, ready, got, due, broken>>

Pending(n) == {task \in running \cup ToSet(ready) : task.event = n}
Without(n) == [m \in DOMAIN publishing \ {n} |-> publishing[m]]

\* Mutant of PublishReturns: it returns with the first result.
PublishReturnsEarly(n) ==
    /\ n \in DOMAIN publishing
    /\ \E s \in ToSet(subscriptions) : [event |-> n, to |-> s] \notin
           {[event |-> task.event, to |-> task.to] : task \in Pending(n)}
    /\ delivered' = delivered + publishing[n]
    /\ publishing' = Without(n)
    /\ running' = {task \in running : task.event # n}
    /\ UNCHANGED <<subscriptions, made, eventHistory, published, ready, eventCount, got, due, broken>>

\* gather() has all results.
PublishReturns(n) ==
    /\ n \in DOMAIN publishing
    /\ Pending(n) = {}
    /\ delivered' = delivered + publishing[n]
    /\ publishing' = Without(n)
    /\ UNCHANGED <<subscriptions, made, eventHistory, published, ready, running, eventCount,
                   got, due, broken>>

\* The task that publishes is cancelled in gather(), which cancels the deliveries: those
\* that have started end, the others are left to StartDelivery.
PublishCancelled(n) ==
    /\ n \in DOMAIN publishing
    /\ publishing' = Without(n)
    /\ running' = {task \in running : task.event # n}
    /\ broken' = broken \cup {n}
    /\ UNCHANGED <<subscriptions, made, eventHistory, published, delivered, ready, eventCount,
                   got, due>>

-----------------------------------------------------------------------------
BusNext ==
    \/ \E s \in Subscriptions : Subscribe(s)
    \/ \E id \in Ids : Unsubscribe(id)
    \/ ClearHistory \/ BusShutdown
    \/ \E t \in Types : Publish(t)
    \/ StartDelivery
    \/ \E task \in running : EndDelivery(task)
    \/ \E n \in DOMAIN publishing : PublishReturns(n) \/ PublishCancelled(n)

BusSpec == BusInit /\ [][BusNext]_busVars

\* The event loop starts the tasks that are ready, callbacks end, and gather() returns.
BusFairness ==
    /\ WF_busVars(StartDelivery)
    /\ WF_busVars(\E task \in running : EndDelivery(task))
    /\ \A n \in 1 .. MaxEvents : WF_busVars(PublishReturns(n))

-----------------------------------------------------------------------------
(* Properties *)

\* The shape of the state; ids are unique among the subscriptions.
BusTypeOK ==
    /\ subscriptions \in Seq(Subscriptions) /\ ToSet(subscriptions) \subseteq made
    /\ \A i, j \in DOMAIN subscriptions : IdOf[subscriptions[i]] = IdOf[subscriptions[j]] => i = j
    /\ eventHistory \in Seq(1 .. published) /\ published \in 0 .. MaxEvents /\ delivered \in Nat
    /\ \A task \in running : task.event \in DOMAIN publishing
    /\ \A task \in ToSet(ready) : task.event \in DOMAIN publishing \cup broken
    /\ DOMAIN publishing \subseteq 1 .. published
    /\ eventCount \in [Subscriptions -> Nat] /\ got \in [Subscriptions -> Seq(1 .. published)]

\* A subscriber's callback is called at most once for an event, and in the order of
\* publication, also when several publish() are suspended at a time.
DeliveredInOrder ==
    \A s \in Subscriptions : \A i, j \in DOMAIN got[s] : i < j => got[s][i] < got[s][j]

\* When publish() has returned, everybody who was subscribed when it was called, and
\* wants the event, has been called, also those that unsubscribed since; and nobody
\* else is ever called.
EverybodyServed ==
    /\ \A d \in due : d[1] \notin DOMAIN publishing \cup broken => d[1] \in ToSet(got[d[2]])
    /\ \A s \in Subscriptions : \A n \in ToSet(got[s]) : <<n, s>> \in due

\* The units of a counter per member of a set: as many as the sum of the counters.
Units(count) == UNION {{x} \X (1 .. count[x]) : x \in DOMAIN count}

\* The statistics count what the subscriptions count, unless a publish() was cancelled.
CountsAgree ==
    LET counted == Cardinality(Units(eventCount))
        inFlight == Cardinality(Units(publishing))
    IN IF broken = {} THEN counted = delivered + inFlight ELSE counted >= delivered + inFlight

\* The history is the latest events published since it was cleared, without a gap.
HistoryIsNewest ==
    /\ Len(eventHistory) <= MaxHistory
    /\ \A i \in DOMAIN eventHistory : eventHistory[i] = published - Len(eventHistory) + i

\* Every publish() returns, whatever subscribers do.
PublishEnds == \A n \in 1 .. MaxEvents : n \in DOMAIN publishing ~> n \notin DOMAIN publishing

\* What publishers and subscribers rely on at any time: deliveries in order, once, to everybody
\* due and nobody else, counted, and a history without gaps.
BusInv == BusTypeOK /\ DeliveredInOrder /\ EverybodyServed /\ CountsAgree /\ HistoryIsNewest

=============================================================================
