---------------------------- MODULE Notifications ----------------------------
(***************************************************************************)
(* The notification service and its notifiers.  A notification goes to the *)
(* channels it is routed to, one after the other, and on each to the       *)
(* recipients the channel accepts; several notifications are under way at  *)
(* a time, and each suspends in every delivery and in the pause before a   *)
(* web hook is tried again.  E-mail is sent to all recipients at once and  *)
(* does not suspend.                                                       *)
(***************************************************************************)
EXTENDS Naturals, FiniteSets, Sequences, SequencesExt

CONSTANTS
    Senders,         \* tasks that call the service
    Recipients,
    Accepts,         \* by channel, the recipients it has an address for
    CustomChannels, CustomRecipients,   \* of a custom notification
    Mails,           \* the recipients the service chooses itself
    NotificationIds, \* random ids, in the order of their characters
    RetryAttempts,   \* of a web hook
    MaxHistory, HistoryCut  \* entries kept, and entries cut when there are more

Channels == {"email", "sms", "webhook", "slack"}   \* the channels that have a notifier

ASSUME NotificationAssumption ==
    /\ Accepts \in [Channels -> SUBSET Recipients] /\ Mails \subseteq Recipients
    /\ CustomChannels \in Seq(STRING) /\ CustomRecipients \subseteq Recipients
    /\ NotificationIds \subseteq Nat /\ RetryAttempts \in Nat \ {0} /\ IsFiniteSet(Recipients)
    /\ MaxHistory \in Nat /\ HistoryCut \in 1 .. MaxHistory + 1

\* A custom notification names a channel once; what is sent to one named twice arrives twice.
ASSUME CustomChannelsAssumption ==
    \A j, k \in DOMAIN CustomChannels : CustomChannels[j] = CustomChannels[k] => j = k

VARIABLES
    ready,           \* the notifiers whose initialize() succeeded
    sender,          \* by sender: its notification, the channels and targets to go, the try;
                     \* ghost: the results due
    unused,          \* ids not drawn yet
    histories,       \* by channel and of the service: the ids recorded
    received,        \* ghost: by id, channel and recipient, how often it arrived
    answered,        \* ghost: what was answered for, so that it need not be sent again
    finished         \* ghost: by channel and of the service, the ids ever recorded

notificationVars == <<ready, sender, unused, histories, received, answered, finished>>

Books == Channels \cup {"service"}
Resting == [at |-> "idle", id |-> 0, channels |-> <<>>, recipients |-> {}, targets |-> <<>>, try |-> 1,
            good |-> 0, results |-> <<>>, due |-> 0]

NotificationsInit ==
    /\ ready \in SUBSET {"email", "sms"}   \* the others need no more than their defaults
    /\ sender = [s \in Senders |-> Resting]
    /\ unused = NotificationIds
    /\ histories = [b \in Books |-> {}] /\ finished = [b \in Books |-> {}]
    /\ received = [i \in NotificationIds |-> <<>>] /\ answered = {}

-----------------------------------------------------------------------------
(* Routing *)

\* The channels of the notifications the service routes.
Route(kind) ==
    CASE kind = "critical" -> <<"email", "sms", "slack">>
      [] kind = "high" -> <<"email", "slack">>
      [] kind = "escalation" -> <<"email", "sms">>
      [] kind = "custom" -> CustomChannels
      [] OTHER -> <<"email">>       \* lesser alerts, acknowledgments and resolutions

Kinds == {"critical", "high", "escalation", "custom", "other"}

WithNotifier(channels) == Cardinality({k \in DOMAIN channels : channels[k] \in Channels})

Send(s, kind) ==
    /\ sender[s].at = "idle"
    /\ \E i \in unused :
          /\ unused' = unused \ {i}
          /\ sender' = [sender EXCEPT ![s] = [Resting EXCEPT
                 !.at = "channel", !.id = i, !.channels = Route(kind), !.due = WithNotifier(Route(kind)),
                 !.recipients = IF kind = "custom" THEN CustomRecipients ELSE Mails]]
    /\ UNCHANGED <<ready, histories, received, answered, finished>>

\* A history that grows too long loses the entries whose ids come first, new or not.
Trimmed(book) ==
    IF Cardinality(book) > MaxHistory
    THEN {i \in book : Cardinality({j \in book : j < i}) >= HistoryCut}
    ELSE book

Track(b, i) ==
    /\ histories' = [histories EXCEPT ![b] = Trimmed(@ \cup {i})]
    /\ finished' = [finished EXCEPT ![b] = @ \cup {i}]

-----------------------------------------------------------------------------
(* A channel *)

Targets(channel, recipients) == recipients \cap Accepts[channel]

Result(s, good) == Append(sender[s].results, good > 0)

\* Mutant of ChannelDone: a channel that fails keeps the others from being tried.
ChannelDoneOrAll(s, good) ==
    sender' = [sender EXCEPT
        ![s].at = "channel", ![s].channels = IF good = 0 THEN <<>> ELSE Tail(@), ![s].targets = <<>>,
        ![s].try = 1, ![s].good = 0, ![s].results = Result(s, good)]

\* The channel has a result, and the next one is up.
ChannelDone(s, good) ==
    sender' = [sender EXCEPT
        ![s].at = "channel", ![s].channels = Tail(@), ![s].targets = <<>>, ![s].try = 1, ![s].good = 0,
        ![s].results = Result(s, good)]

\* A channel without a notifier has no result.
SkipChannel(s) ==
    /\ sender[s].at = "channel" /\ sender[s].channels # <<>>
    /\ Head(sender[s].channels) \notin Channels
    /\ sender' = [sender EXCEPT ![s].channels = Tail(@)]
    /\ UNCHANGED <<ready, unused, histories, received, answered, finished>>

\* The notifier has no one to send to.
NoTargets(s) ==
    /\ sender[s].at = "channel" /\ sender[s].channels # <<>>
    /\ LET c == Head(sender[s].channels)
       IN c \in Channels /\ Targets(c, sender[s].recipients) = {}
    /\ ChannelDone(s, 0)
    /\ UNCHANGED <<ready, unused, histories, received, answered, finished>>

Arrives(i, c, r) == received' = [received EXCEPT ![i] = Append(@, <<c, r>>)]

\* E-mail goes to all at once: some may be refused, and all if the notifier is not ready.
SendEmail(s) ==
    /\ sender[s].at = "channel" /\ sender[s].channels # <<>>
    /\ Head(sender[s].channels) = "email"
    /\ LET to == Targets("email", sender[s].recipients)
           i == sender[s].id
       IN /\ to # {}
          /\ \E taken \in SUBSET to :
                /\ "email" \notin ready => taken = {}
                /\ received' = [received EXCEPT ![i] = @ \o SetToSeq({"email"} \X taken)]
                /\ answered' = answered \cup {<<i, "email", r>> : r \in taken}
                /\ ChannelDone(s, Cardinality(taken))
          /\ Track("email", i)
    /\ UNCHANGED <<ready, unused>>

BeginTargets(s) ==
    /\ sender[s].at = "channel" /\ sender[s].channels # <<>>
    /\ LET c == Head(sender[s].channels)
           to == Targets(c, sender[s].recipients)
       IN /\ c \in Channels \ {"email"} /\ to # {}
          /\ sender' = [sender EXCEPT ![s].at = "sending", ![s].targets = SetToSeq(to)]
    /\ UNCHANGED <<ready, unused, histories, received, answered, finished>>

\* The channel goes on with the next target, or is done.
NextTarget(s, good) ==
    IF Len(sender[s].targets) > 1
    THEN /\ sender' = [sender EXCEPT ![s].targets = Tail(@), ![s].try = 1, ![s].good = good]
         /\ UNCHANGED <<histories, finished>>
    ELSE ChannelDone(s, good) /\ Track(Head(sender[s].channels), sender[s].id)

\* Mutant of Answered: a web hook that refuses is tried again.
AnsweredRetry(s, taken) ==
    /\ sender[s].at = "sending"
    /\ LET c == Head(sender[s].channels)
           r == Head(sender[s].targets)
           i == sender[s].id
       IN /\ c = "sms" /\ taken => c \in ready
          /\ IF taken THEN Arrives(i, c, r) ELSE UNCHANGED received
          /\ answered' = answered \cup {<<i, c, r>>}
          /\ IF ~taken /\ c = "webhook" /\ sender[s].try < RetryAttempts
             THEN sender' = [sender EXCEPT ![s].try = @ + 1] /\ UNCHANGED <<histories, finished>>
             ELSE NextTarget(s, sender[s].good + (IF taken THEN 1 ELSE 0))
    /\ UNCHANGED <<ready, unused>>

\* The target answers that it has taken the message, or that it will not.
Answered(s, taken) ==
    /\ sender[s].at = "sending"
    /\ LET c == Head(sender[s].channels)
           r == Head(sender[s].targets)
           i == sender[s].id
       IN /\ c = "sms" /\ taken => c \in ready
          /\ IF taken THEN Arrives(i, c, r) ELSE UNCHANGED received
          /\ answered' = answered \cup {<<i, c, r>>}
          /\ NextTarget(s, sender[s].good + (IF taken THEN 1 ELSE 0))
    /\ UNCHANGED <<ready, unused>>

\* Only a web hook is tried again.
MayRetry(channel, try) == channel = "webhook" /\ try < RetryAttempts

\* No answer: the message may have arrived all the same.
TimesOut(s, arrived) ==
    /\ sender[s].at = "sending"
    /\ LET c == Head(sender[s].channels)
           r == Head(sender[s].targets)
       IN /\ c = "sms" /\ arrived => c \in ready
          /\ IF arrived THEN Arrives(sender[s].id, c, r) ELSE UNCHANGED received
          /\ IF MayRetry(c, sender[s].try)
             THEN /\ sender' = [sender EXCEPT ![s].try = @ + 1]
                  /\ UNCHANGED <<histories, finished>>
             ELSE NextTarget(s, sender[s].good)
    /\ UNCHANGED <<ready, unused, answered>>

\* All channels have been tried: the delivery is recorded.
Finish(s) ==
    /\ sender[s].at = "channel" /\ sender[s].channels = <<>>
    /\ Track("service", sender[s].id)
    /\ sender' = [sender EXCEPT ![s].at = "idle", ![s].recipients = {}]
    /\ UNCHANGED <<ready, unused, received, answered>>

SenderStep(s) ==
    \/ SkipChannel(s) \/ NoTargets(s) \/ SendEmail(s) \/ BeginTargets(s) \/ Finish(s)
    \/ \E yes \in BOOLEAN : Answered(s, yes) \/ TimesOut(s, yes)

NotificationsNext ==
    \E s \in Senders : SenderStep(s) \/ (\E kind \in Kinds : Send(s, kind))

NotificationsSpec == NotificationsInit /\ [][NotificationsNext]_notificationVars

\* Deliveries have time-outs.
NotificationsFairness == \A s \in Senders : WF_notificationVars(SenderStep(s))

-----------------------------------------------------------------------------
(* Properties *)

\* A channel of a notification is reported as delivered only if it reached a recipient of
\* that channel, so that a notification reported as a success has reached someone.
SuccessMeansReceived ==
    \A s \in Senders : LET n == sender[s] IN
        /\ (\E k \in DOMAIN n.results : n.results[k]) => received[n.id] # <<>>
        /\ \A k \in DOMAIN n.results : n.results[k] =>
               Cardinality({k2 \in DOMAIN n.results : n.results[k2]})
                   <= Cardinality({received[n.id][m][1] : m \in DOMAIN received[n.id]})

\* A recipient gets the same notification on a channel more than once only from a web hook
\* that did not answer, no more often than it is tried ...
RepeatsAreRetries ==
    \A i \in NotificationIds, c \in Channels, r \in Recipients :
        Cardinality({m \in DOMAIN received[i] : received[i][m] = <<c, r>>})
            <= IF c = "webhook" THEN RetryAttempts ELSE 1

\* ... and never after it has answered, be it to refuse.
NeverAfterAnswer ==
    [][\A i \in NotificationIds : received'[i] # received[i]
           => <<i, Last(received'[i])[1], Last(received'[i])[2]>> \notin answered]_notificationVars

\* Whoever fails, every channel with a notifier has a result when a notification is done.
EveryChannelTried ==
    \A s \in Senders : sender[s].at # "idle" =>
        Len(sender[s].results) + WithNotifier(sender[s].channels) = sender[s].due

\* The histories stay within their bound, and as long as they never had to be cut, have
\* everything.
HistoriesKeep ==
    \A b \in Books :
        /\ histories[b] \subseteq finished[b] /\ Cardinality(histories[b]) <= MaxHistory
        /\ Cardinality(finished[b]) <= MaxHistory => histories[b] = finished[b]

\* A notification comes to an end, and is recorded for good or until the history is cut.
NotificationsEnd ==
    \A i \in NotificationIds : i \notin unused ~> i \in finished["service"]

\* What a notification says of its channels is true, at any time.
NotificationInv ==
    SuccessMeansReceived /\ RepeatsAreRetries /\ EveryChannelTried /\ HistoriesKeep

=============================================================================
