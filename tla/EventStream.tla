---------------------------- MODULE EventStream ----------------------------
(***************************************************************************)
(* From the commit to a subscriber.  Every agent publishes on a bounded    *)
(* broadcast channel of its own; the SessionEventBus drains the channels   *)
(* in turn into one bounded channel per subscriber; the RPC subscription   *)
(* replays what the store holds after the client's cursor, then forwards   *)
(* the live events it has not sent.  The client remembers the highest      *)
(* sequence number it saw and resumes from it.                             *)
(***************************************************************************)
EXTENDS SessionLog

CONSTANTS
    AgentCapacity,          \* of an agent's broadcast channel
    SubscriberCapacity,     \* of a subscriber's
    MaxSubscriptions        \* bound: times the client subscribes

ASSUME StreamAssumption ==
    /\ AgentCapacity \in Nat \ {0} /\ SubscriberCapacity \in Nat \ {0}
    /\ MaxSubscriptions \in Nat

VARIABLES
    channel,        \* each agent's channel, as the bus's receiver sees it
    turn,           \* the receiver poll_receivers looks at next
    inbox,          \* the client's channel, as its receiver sees it
    client,         \* the subscription
    got,            \* what the client was sent, over all its subscriptions
    overrun         \* history: events the bus's receivers were too slow for

streamVars == <<channel, turn, inbox, client, got, overrun>>
vars == <<logVars, streamVars>>

Phases == {"off", "subscribed", "replaying", "live"}
Subscriptions == [phase : Phases, since : Nat, last_sent : Nat,
                  backlog : Seq(Envelopes), gap : BOOLEAN, number : 0..MaxSubscriptions]

-----------------------------------------------------------------------------
(* Broadcast channels: a full one forgets its oldest value, and the receiver *)
(* learns how many it lost.                                                  *)

Channels == [queue : Seq(Envelopes), lost : SUBSET Envelopes]
EmptyChannel == [queue |-> <<>>, lost |-> {}]

Send(ch, e, capacity) ==
    IF Len(ch.queue) < capacity THEN [ch EXCEPT !.queue = Append(@, e)]
    ELSE [queue |-> Append(Tail(ch.queue), e), lost |-> ch.lost \cup {ch.queue[1]}]

publish(a) ==
    /\ Publish(a)
    /\ channel' = [channel EXCEPT ![a] = Send(@, outbox[a][1], AgentCapacity)]
    /\ UNCHANGED <<turn, inbox, client, got, overrun>>

Subscribed == client.phase # "off"

\* Fault: every round starts with the first receiver and ends with it.
SameReceiver == turn

NextReceiver == IF turn = Len(Receivers) THEN 1 ELSE turn + 1

\* One receiver is drained, then the next one is looked at.  What it was too
\* slow for is logged and forgotten.
poll_receivers ==
    LET a == Receivers[turn]
        sent[i \in 0..Len(channel[a].queue)] ==
            IF i = 0 THEN inbox
            ELSE Send(sent[i - 1], channel[a].queue[i], SubscriberCapacity)
    IN  /\ running
        /\ \E b \in Agents : channel[b].queue # <<>>
        /\ inbox' = IF Subscribed THEN sent[Len(channel[a].queue)] ELSE inbox
        /\ channel' = [channel EXCEPT ![a] = EmptyChannel]
        /\ overrun' = overrun \cup channel[a].lost
        /\ turn' = NextReceiver
        /\ UNCHANGED <<logVars, client, got>>

-----------------------------------------------------------------------------
(* The subscription *)

\* handler.subscribe: the receiver exists before the backlog is read.
Subscribe ==
    /\ running /\ client.phase = "off" /\ client.number < MaxSubscriptions
    /\ client' = [client EXCEPT !.phase = "subscribed", !.since = client.last_sent,
                                !.gap = FALSE, !.number = @ + 1]
    /\ inbox' = EmptyChannel
    /\ UNCHANGED <<logVars, channel, turn, got, overrun>>

\* replay_backlog reads the store.
ReadBacklog ==
    /\ client.phase = "subscribed"
    /\ client' = [client EXCEPT !.phase = "replaying",
                                !.backlog = events_since(client.since)]
    /\ UNCHANGED <<logVars, channel, turn, inbox, got, overrun>>

Deliver(e) == got' = Append(got, e)

replay_backlog ==
    /\ client.phase = "replaying" /\ client.backlog # <<>>
    /\ LET e == client.backlog[1]
       IN  /\ Deliver(e)
           /\ client' = [client EXCEPT !.backlog = Tail(@),
                                       !.last_sent = Highest({@, e.sequence})]
    /\ UNCHANGED <<logVars, channel, turn, inbox, overrun>>

GoLive ==
    /\ client.phase = "replaying" /\ client.backlog = <<>>
    /\ client' = [client EXCEPT !.phase = "live"]
    /\ UNCHANGED <<logVars, channel, turn, inbox, got, overrun>>

\* Fault: the event the client already has counts as new.
FreshOrEqual(e) == e.sequence >= client.last_sent

fresh_sequence(e) == e.sequence > client.last_sent

forward_live_events ==
    /\ client.phase = "live" /\ inbox.queue # <<>> /\ inbox.lost = {}
    /\ inbox' = [inbox EXCEPT !.queue = Tail(@)]
    /\ LET e == inbox.queue[1]
       IN  IF fresh_sequence(e)
           THEN /\ Deliver(e)
                /\ client' = [client EXCEPT !.last_sent = e.sequence]
           ELSE UNCHANGED <<got, client>>
    /\ UNCHANGED <<logVars, channel, turn, overrun>>

\* Fault: the receiver's lag is skipped without a word.
LagIgnored ==
    /\ client.phase = "live" /\ inbox.lost # {}
    /\ inbox' = [inbox EXCEPT !.lost = {}]
    /\ UNCHANGED <<logVars, channel, turn, client, got, overrun>>

SignalGap ==
    /\ client.phase = "live" /\ inbox.lost # {}
    /\ inbox' = [inbox EXCEPT !.lost = {}]
    /\ client' = [client EXCEPT !.gap = TRUE]
    /\ UNCHANGED <<logVars, channel, turn, got, overrun>>

Hangup(c) == [c EXCEPT !.phase = "off", !.backlog = <<>>, !.gap = FALSE,
                       !.since = c.last_sent]

Disconnect ==
    /\ client.phase # "off"
    /\ client' = Hangup(client)
    /\ inbox' = EmptyChannel
    /\ UNCHANGED <<logVars, channel, turn, got, overrun>>

\* The process ends with everything it held in memory.
crash ==
    /\ Crash
    /\ channel' = [a \in Agents |-> EmptyChannel]
    /\ turn' = 1
    /\ inbox' = EmptyChannel
    /\ client' = Hangup(client)
    /\ UNCHANGED <<got, overrun>>

-----------------------------------------------------------------------------

Init ==
    /\ LogInit
    /\ channel = [a \in Agents |-> EmptyChannel]
    /\ turn = 1
    /\ inbox = EmptyChannel
    /\ client = [phase |-> "off", since |-> 0, last_sent |-> 0, backlog |-> <<>>,
                 gap |-> FALSE, number |-> 0]
    /\ got = <<>>
    /\ overrun = {}

Next ==
    \/ Unseen /\ UNCHANGED streamVars
    \/ \E a \in Agents : publish(a)
    \/ poll_receivers
    \/ Subscribe \/ ReadBacklog \/ replay_backlog \/ GoLive
    \/ forward_live_events \/ SignalGap \/ Disconnect
    \/ crash

Spec == Init /\ [][Next]_vars

\* A runner drives its own commits, the bus's task polls for as long as the
\* process is up, and a connection's task is run whenever it has something to
\* send.  Commands, failures, crashes, restores and the client are free.
Fairness ==
    /\ \A a \in Agents :
        /\ WF_vars(Number(a) /\ UNCHANGED streamVars)
        /\ WF_vars((AppendSucceeds(a) \/ AppendFails(a)) /\ UNCHANGED streamVars)
        /\ WF_vars(publish(a))
    /\ WF_vars(poll_receivers)
    /\ WF_vars(ReadBacklog) /\ WF_vars(replay_backlog) /\ WF_vars(GoLive)
    /\ WF_vars(forward_live_events) /\ WF_vars(SignalGap)

FairSpec == Spec /\ Fairness

-----------------------------------------------------------------------------
(* Properties *)

InTransit == (UNION {ToSet(channel[a].queue) : a \in Agents})
                \cup ToSet(inbox.queue) \cup ToSet(client.backlog)

\* Every variable holds a value of its kind, and a channel stays within its
\* capacity.
TypeOK ==
    /\ LogTypeOK
    /\ channel \in [Agents -> Channels] /\ inbox \in Channels
    /\ \A a \in Agents : Len(channel[a].queue) <= AgentCapacity
    /\ Len(inbox.queue) <= SubscriberCapacity
    /\ turn \in DOMAIN Receivers
    /\ client \in Subscriptions
    /\ got \in Seq(Envelopes) /\ overrun \subseteq Envelopes

\* The commit boundary: under the strict policy no subscriber, now or in a
\* later life of the process, holds a durable event that the store does not.
PublishedIsStored ==
    policy = "Strict" =>
        \A e \in InTransit \cup ToSet(got) : is_durable(e) => e \in Stored

\* Replay, dedup and resume: no event is sent to the client twice, over all
\* its subscriptions and all lives of the process.
NoDuplicates == \A i, j \in DOMAIN got : i # j => got[i] # got[j]

Overtaken(e) ==
    \E f \in ToSet(got) : f.agent # e.agent /\ f.sequence > e.sequence

\* While a subscription lasts, every stored event between the cursor it began
\* from and the last number sent reached the client, unless the client was
\* told of a gap, the bus overran, or an event of another agent with a higher
\* number was polled first: the only ways there are to lose one.
LossesAreExplained ==
    client.phase # "off" =>
        \A e \in Stored : e.sequence > client.since /\ e.sequence <= client.last_sent =>
            \/ e \in ToSet(got) \cup overrun
            \/ client.gap \/ inbox.lost # {}
            \/ Overtaken(e)

\* A subscriber that stays connected is sent, or told it lost, everything up
\* to any event that gets stored.
SubscribersCatchUp ==
    \A n \in 1..MaxSequence :
        (client.phase # "off" /\ n \in {e.sequence : e \in Stored})
            ~> \/ client.phase = "off"
               \/ client.last_sent >= n
               \/ client.gap
               \/ n \in {e.sequence : e \in overrun}

\* README, Durability and resume: a client that remembers the highest number
\* it saw "can reconnect at any time with no gaps and no duplicates".
NoGaps ==
    client.phase = "live" /\ ~client.gap /\ overrun = {} =>
        \A e \in Stored : e.sequence <= client.last_sent => e \in ToSet(got)
=============================================================================
