--------------------------- MODULE EventDelivery ---------------------------
(***************************************************************************)
(* Delivery of the events of one instance to RabbitMQ, to the WebSocket    *)
(* tabs and to the webhooks (pkg/events, sendToQueueOrWebhook and          *)
(* SendToGlobalQueues of pkg/whatsmeow/service/whatsmeow.go).              *)
(*                                                                         *)
(* Each event has a goroutine for the channels of its instance, tried one  *)
(* after the other, and one for the global queues. They share the AMQP     *)
(* connection, which is replaced without a lock when it is found closed,   *)
(* and the lists of tabs, which are kept under a lock and copied before    *)
(* the slow writes. Each webhook URL gets a goroutine of its own.          *)
(*                                                                         *)
(* NATS keeps no state of its own and its failures are logged only; its    *)
(* publication is part of the step that leaves RabbitMQ.                   *)
(***************************************************************************)
EXTENDS Naturals, FiniteSets, EventRouting

Channels == {"rabbitmq", "websocket", "webhook"}

CONSTANTS
    Events,          \* events that may be emitted
    Emitted,         \* bound: the types each event may be of
    Subscribed,      \* Events of the instance of each event
    Enabled,         \* RabbitmqEnable, WebSocketEnable and Webhook of that instance
    SpecificEvents,  \* AMQP_SPECIFIC_EVENTS
    GlobalGroups,    \* AMQP_GLOBAL_EVENTS, empty when AMQP_GLOBAL_ENABLED is off
    Urls,            \* WEBHOOK_URL and the addresses of the instance
    Hung,            \* those that accept a request and never answer it
    Tabs,            \* WebSocket connections, of the instance or of all
    MaxConns,        \* bound: AMQP connections ever opened
    DialTries,       \* attempts of reconnect (3)
    PublishTries,    \* maxRetries of publishWithRetry (3)
    PostTries        \* maxRetries of sendWebhookWithRetry (5)

ASSUME ConstantsAssumption ==
    /\ Emitted \in [Events -> SUBSET EventTypes]
    /\ Subscribed \in [Events -> SUBSET (Subscriptions \cup {"ALL"})]
    /\ Enabled \in [Events -> SUBSET Channels]
    /\ SpecificEvents \subseteq EventTypes
    /\ GlobalGroups \subseteq Subscriptions
    /\ Hung \subseteq Urls
    /\ MaxConns \in Nat \ {0}
    /\ DialTries \in Nat \ {0}
    /\ PublishTries \in Nat \ {0}
    /\ PostTries \in Nat \ {0}

Nil == 0
Conns == 1 .. MaxConns
Workers == Events \X {"instance", "global"}
OfInstance(e) == <<e, "instance">>

VARIABLES
    type,       \* the type of each event, "none" until it is emitted
    pc,         \* where each goroutine is
    conn,       \* p.conn of rabbitMQProducer
    open,       \* AMQP connections that are open
    dialed,     \* AMQP connections opened so far
    dials,      \* attempts of the reconnect a goroutine is in
    chan,       \* the connection of the channel a goroutine publishes on
    attempts,   \* publications that failed, of each goroutine
    tab,        \* the state of each connection
    clients,    \* clients and broadcast: the registered connections
    targets,    \* connections an event has still to be written to
    writing,    \* <<event, connection>>: writes in progress
    failed,     \* connections found dead by an event
    owed,       \* history: the connections copied for an event
    got,        \* history: <<event, connection>> written
    post        \* the goroutine of each event and URL: [at, tries]

amqp == <<conn, open, dialed, dials, chan, attempts>>
hub  == <<tab, clients, targets, writing, failed, owed, got>>
vars == <<type, pc, amqp, hub, post>>

PC == {"none", "ensure", "isClosed", "dial", "channel", "publish", "rechannel",
       "snapshot", "write", "writing", "webhook", "end", "panicked"}
TabState == {"away", "open", "stalled", "closed", "ended"}
PostState == {"none", "posting", "sleeping", "ok", "gaveUp"}

TypeOK ==
    /\ type \in [Events -> EventTypes \cup {"none"}]
    /\ pc \in [Workers -> PC]
    /\ conn \in Conns \cup {Nil}
    /\ open \subseteq Conns
    /\ dialed \in 0 .. MaxConns
    /\ dials \in [Workers -> 0 .. DialTries]
    /\ chan \in [Workers -> Conns \cup {Nil}]
    /\ attempts \in [Workers -> 0 .. PublishTries]
    /\ tab \in [Tabs -> TabState]
    /\ clients \subseteq Tabs
    /\ targets \in [Events -> SUBSET Tabs]
    /\ writing \subseteq Events \X Tabs
    /\ failed \in [Events -> SUBSET Tabs]
    /\ owed \in [Events -> SUBSET Tabs]
    /\ got \subseteq Events \X Tabs
    /\ post \in [Events \X Urls -> [at : PostState, tries : 0 .. PostTries]]

\* main dials once before anything is emitted, and may fail.
Init ==
    /\ type = [e \in Events |-> "none"]
    /\ pc = [w \in Workers |-> "none"]
    /\ conn \in {Nil, 1}
    /\ open = {conn} \ {Nil}
    /\ dialed = conn
    /\ dials = [w \in Workers |-> 0]
    /\ chan = [w \in Workers |-> Nil]
    /\ attempts = [w \in Workers |-> 0]
    /\ tab = [t \in Tabs |-> "away"]
    /\ clients = {}
    /\ targets = [e \in Events |-> {}]
    /\ writing = {}
    /\ failed = [e \in Events |-> {}]
    /\ owed = [e \in Events |-> {}]
    /\ got = {}
    /\ post = [p \in Events \X Urls |-> [at |-> "none", tries |-> 0]]

-----------------------------------------------------------------------------
Goto(w, place) == pc' = [pc EXCEPT ![w] = place]

\* The channels of sendToQueueOrWebhook, in its order.
WebhookOrEnd(e) == IF "webhook" \in Enabled[e] THEN "webhook" ELSE "end"
AfterRabbit(e) ==
    IF "websocket" \in Enabled[e] THEN "snapshot" ELSE WebhookOrEnd(e)
FirstChannel(e) ==
    IF "rabbitmq" \in Enabled[e] THEN "ensure" ELSE AfterRabbit(e)

\* The end of myEventHandler: one goroutine for CallWebhook, which drops what
\* is not subscribed, and one for SendToGlobalQueues; or SendOperationalEvent,
\* which has the first only and drops nothing.
Emit(e) ==
    /\ pc[OfInstance(e)] = "none"
    /\ \E t \in Emitted[e], chat \in Chats :
           /\ type' = [type EXCEPT ![e] = t]
           /\ pc' = [pc EXCEPT
                  ![OfInstance(e)] =
                      IF Wanted(t, chat, Subscribed[e]) THEN FirstChannel(e)
                      ELSE "end",
                  ![<<e, "global">>] =
                      IF GlobalAmqp(t, SpecificEvents, GlobalGroups)
                      THEN "ensure" ELSE "end"]
    /\ UNCHANGED <<amqp, hub, post>>

(***************************************************************************)
(* RabbitMQ.  A producer that returns, with or without an error, lets the  *)
(* next channel run; a panic is recovered at the top of the goroutine and  *)
(* ends it.                                                                *)
(***************************************************************************)
LeaveProducer(w) ==
    Goto(w, IF w[2] = "instance" THEN AfterRabbit(w[1]) ELSE "end")

\* The next attempt of publishWithRetry, n having failed.
NextAttempt(w, n) ==
    IF n < PublishTries THEN Goto(w, "publish") ELSE LeaveProducer(w)

Ensured(w) == Goto(w, IF attempts[w] = 0 THEN "channel" ELSE "rechannel")

\* Mutant of NotEnsured: an event that finds no broker is done with.
NotEnsuredEnds(w) ==
    IF attempts[w] = 0 THEN Goto(w, "end") ELSE NextAttempt(w, attempts[w])

NotEnsured(w) ==
    IF attempts[w] = 0 THEN LeaveProducer(w) ELSE NextAttempt(w, attempts[w])

\* ensureConnection reads p.conn twice: p.conn == nil || p.conn.IsClosed().
Ensure(w) ==
    /\ pc[w] = "ensure"
    /\ Goto(w, IF conn = Nil THEN "dial" ELSE "isClosed")
    /\ UNCHANGED <<type, amqp, hub, post>>

IsClosed(w) ==
    /\ pc[w] = "isClosed"
    /\ \/ /\ conn = Nil
          /\ Goto(w, "panicked")
       \/ /\ conn \in open
          /\ Ensured(w)
       \/ /\ conn \in Conns \ open
          /\ Goto(w, "dial")
    /\ UNCHANGED <<type, amqp, hub, post>>

\* reconnect: the outcome of each attempt is assigned to p.conn, nil when the
\* broker did not answer. The connection it replaces is not closed.
DialSucceeds(w) ==
    /\ pc[w] = "dial"
    /\ dialed < MaxConns
    /\ dialed' = dialed + 1
    /\ conn' = dialed'
    /\ open' = open \cup {dialed'}
    /\ dials' = [dials EXCEPT ![w] = 0]
    /\ Ensured(w)
    /\ UNCHANGED <<type, chan, attempts, hub, post>>

DialFails(w) ==
    /\ pc[w] = "dial"
    /\ conn' = Nil
    /\ IF dials[w] + 1 < DialTries
       THEN /\ dials' = [dials EXCEPT ![w] = @ + 1]
            /\ UNCHANGED pc
       ELSE /\ dials' = [dials EXCEPT ![w] = 0]
            /\ NotEnsured(w)
    /\ UNCHANGED <<type, open, dialed, chan, attempts, hub, post>>

\* Produce opens a channel on p.conn, asks for confirms and declares the queue.
OpenChannel(w) ==
    /\ pc[w] = "channel"
    /\ \/ /\ conn = Nil
          /\ Goto(w, "panicked")
          /\ UNCHANGED chan
       \/ /\ conn \in open
          /\ Goto(w, "publish")
          /\ chan' = [chan EXCEPT ![w] = conn]
       \/ /\ conn # Nil
          /\ LeaveProducer(w)
          /\ UNCHANGED chan
    /\ UNCHANGED <<type, conn, open, dialed, dials, attempts, hub, post>>

\* publishWithRetry, one attempt. The broker may close the channel alone, so a
\* publication fails on an open connection too: on a channel that is not open it
\* goes through ensureConnection, on any other error it is just repeated. A
\* channel that could not be opened again is nil, and publishing on it panics.
\* After the last attempt Produce returns, and its error, which a channel opened
\* again has replaced by nil, is only logged.
Publish(w) ==
    /\ pc[w] = "publish"
    /\ \/ /\ chan[w] = Nil
          /\ Goto(w, "panicked")
          /\ UNCHANGED attempts
       \/ /\ chan[w] \in open
          /\ LeaveProducer(w)
          /\ UNCHANGED attempts
       \/ /\ chan[w] # Nil
          /\ attempts' = [attempts EXCEPT ![w] = @ + 1]
          /\ Goto(w, "ensure") \/ NextAttempt(w, attempts[w] + 1)
    /\ UNCHANGED <<type, conn, open, dialed, dials, chan, hub, post>>

\* publishWithRetry opens a channel on the new connection and tries again.
ReopenChannel(w) ==
    /\ pc[w] = "rechannel"
    /\ \/ /\ conn = Nil
          /\ Goto(w, "panicked")
          /\ UNCHANGED chan
       \/ /\ conn # Nil
          /\ chan' = [chan EXCEPT ![w] = IF conn \in open THEN conn ELSE Nil]
          /\ NextAttempt(w, attempts[w])
    /\ UNCHANGED <<type, conn, open, dialed, dials, attempts, hub, post>>

\* The broker closes a connection.
Break(c) ==
    /\ c \in open
    /\ open' = open \ {c}
    /\ UNCHANGED <<type, pc, conn, dialed, dials, chan, attempts, hub, post>>

-----------------------------------------------------------------------------
(***************************************************************************)
(* WebSocket.                                                              *)
(***************************************************************************)
\* ServeWs: AddClient or AddBroadcastClient, then the read loop.
Join(t) ==
    /\ tab[t] = "away"
    /\ tab' = [tab EXCEPT ![t] = "open"]
    /\ clients' = clients \cup {t}
    /\ UNCHANGED <<type, pc, amqp, targets, writing, failed, owed, got, post>>

\* The other end stops reading: it hangs, or it is gone.
Stall(t) ==
    /\ tab[t] = "open"
    /\ tab' = [tab EXCEPT ![t] = "stalled"]
    /\ UNCHANGED <<type, pc, amqp, clients, targets, writing, failed, owed, got,
                   post>>

\* The read loop notices that it is gone or closed: RemoveClient and Close.
ReadLoopEnds(t) ==
    /\ tab[t] \in {"stalled", "closed"}
    /\ tab' = [tab EXCEPT ![t] = "ended"]
    /\ clients' = clients \ {t}
    /\ UNCHANGED <<type, pc, amqp, targets, writing, failed, owed, got, post>>

\* Produce copies the lists under the read lock.
Snapshot(e) ==
    /\ pc[OfInstance(e)] = "snapshot"
    /\ Goto(OfInstance(e), "write")
    /\ targets' = [targets EXCEPT ![e] = clients]
    /\ owed' = [owed EXCEPT ![e] = clients]
    /\ UNCHANGED <<type, amqp, tab, clients, writing, failed, got, post>>

\* writeJSON holds writeMu of the connection, 10 seconds at most.
BeginWrite(e, t) ==
    /\ pc[OfInstance(e)] = "write"
    /\ t \in targets[e]
    /\ \A f \in Events : <<f, t>> \notin writing
    /\ Goto(OfInstance(e), "writing")
    /\ writing' = writing \cup {<<e, t>>}
    /\ UNCHANGED <<type, amqp, tab, clients, targets, failed, owed, got, post>>

\* Mutant of EndWrite: the first connection that fails ends the loop.
EndWriteOrStop(e, t) ==
    /\ <<e, t>> \in writing
    /\ writing' = writing \ {<<e, t>>}
    /\ Goto(OfInstance(e), "write")
    /\ \/ /\ tab[t] \in {"open", "stalled"}
          /\ got' = got \cup {<<e, t>>}
          /\ targets' = [targets EXCEPT ![e] = @ \ {t}]
          /\ UNCHANGED failed
       \/ /\ tab[t] # "open"
          /\ failed' = [failed EXCEPT ![e] = @ \cup {t}]
          /\ targets' = [targets EXCEPT ![e] = {}]
          /\ UNCHANGED got
    /\ UNCHANGED <<type, amqp, tab, clients, owed, post>>

\* Mutant of EndWrite: no deadline, so a write to a stalled tab waits for it.
EndWriteWithoutDeadline(e, t) ==
    /\ <<e, t>> \in writing
    /\ tab[t] # "stalled"
    /\ writing' = writing \ {<<e, t>>}
    /\ Goto(OfInstance(e), "write")
    /\ targets' = [targets EXCEPT ![e] = @ \ {t}]
    /\ \/ /\ tab[t] = "open"
          /\ got' = got \cup {<<e, t>>}
          /\ UNCHANGED failed
       \/ /\ tab[t] # "open"
          /\ failed' = [failed EXCEPT ![e] = @ \cup {t}]
          /\ UNCHANGED got
    /\ UNCHANGED <<type, amqp, tab, clients, owed, post>>

\* The write returns. One to a tab that is no longer read may fill a buffer and
\* succeed, or reach the deadline.
EndWrite(e, t) ==
    /\ <<e, t>> \in writing
    /\ writing' = writing \ {<<e, t>>}
    /\ Goto(OfInstance(e), "write")
    /\ targets' = [targets EXCEPT ![e] = @ \ {t}]
    /\ \/ /\ tab[t] \in {"open", "stalled"}
          /\ got' = got \cup {<<e, t>>}
          /\ UNCHANGED failed
       \/ /\ tab[t] # "open"
          /\ failed' = [failed EXCEPT ![e] = @ \cup {t}]
          /\ UNCHANGED got
    /\ UNCHANGED <<type, amqp, tab, clients, owed, post>>

Closed(dead) ==
    [t \in Tabs |-> IF t \in dead /\ tab[t] # "ended" THEN "closed" ELSE tab[t]]

\* Mutant of Prune: the list that was copied replaces the one there is now.
PruneCopy(e) ==
    /\ pc[OfInstance(e)] = "write"
    /\ targets[e] = {}
    /\ Goto(OfInstance(e), WebhookOrEnd(e))
    /\ clients' = IF failed[e] = {} THEN clients ELSE owed[e] \ failed[e]
    /\ tab' = Closed(failed[e])
    /\ failed' = [failed EXCEPT ![e] = {}]
    /\ UNCHANGED <<type, amqp, targets, writing, owed, got, post>>

\* The connections that failed are removed from the lists there are now, and
\* closed.
Prune(e) ==
    /\ pc[OfInstance(e)] = "write"
    /\ targets[e] = {}
    /\ Goto(OfInstance(e), WebhookOrEnd(e))
    /\ clients' = clients \ failed[e]
    /\ tab' = Closed(failed[e])
    /\ failed' = [failed EXCEPT ![e] = {}]
    /\ UNCHANGED <<type, amqp, targets, writing, owed, got, post>>

-----------------------------------------------------------------------------
(***************************************************************************)
(* Webhooks.                                                               *)
(***************************************************************************)
\* sendStatusWebhook names its queue "sendstatus"; the producer wants a name in
\* two parts and drops the event.
Postable(t) == t # "SendStatus"

\* webhookProducer.Produce: a goroutine for each address.
StartPosts(e) ==
    /\ pc[OfInstance(e)] = "webhook"
    /\ Goto(OfInstance(e), "end")
    /\ post' = [p \in Events \X Urls |->
                   IF p[1] = e /\ Postable(type[e])
                   THEN [at |-> "posting", tries |-> 0]
                   ELSE post[p]]
    /\ UNCHANGED <<type, amqp, hub>>

\* sendWebhook returns; there is no time-out, so a server that hangs keeps it.
PostReturns(e, u) ==
    /\ post[<<e, u>>].at = "posting"
    /\ u \notin Hung
    /\ \/ post' = [post EXCEPT ![<<e, u>>].at = "ok"]
       \/ post' = [post EXCEPT ![<<e, u>>] = [at |-> "sleeping",
                                              tries |-> post[<<e, u>>].tries + 1]]
    /\ UNCHANGED <<type, pc, amqp, hub>>

\* Mutant of Awake: one attempt more.
AwakeOnceMore(e, u) ==
    /\ post[<<e, u>>].at = "sleeping"
    /\ post' = [post EXCEPT ![<<e, u>>].at = IF post[<<e, u>>].tries <= PostTries
                                             THEN "posting" ELSE "gaveUp"]
    /\ UNCHANGED <<type, pc, amqp, hub>>

\* The 30 seconds between two attempts, and after the last one.
Awake(e, u) ==
    /\ post[<<e, u>>].at = "sleeping"
    /\ post' = [post EXCEPT ![<<e, u>>].at = IF post[<<e, u>>].tries < PostTries
                                             THEN "posting" ELSE "gaveUp"]
    /\ UNCHANGED <<type, pc, amqp, hub>>

-----------------------------------------------------------------------------
AmqpStep(w) ==
    \/ Ensure(w) \/ IsClosed(w) \/ DialSucceeds(w) \/ DialFails(w)
    \/ OpenChannel(w) \/ Publish(w) \/ ReopenChannel(w)

HubStep(e) ==
    \/ Snapshot(e) \/ Prune(e) \/ StartPosts(e)
    \/ \E t \in Tabs : BeginWrite(e, t) \/ EndWrite(e, t)

PostStep(e, u) == PostReturns(e, u) \/ Awake(e, u)

Next ==
    \/ \E e \in Events : Emit(e) \/ HubStep(e)
    \/ \E w \in Workers : AmqpStep(w)
    \/ \E c \in Conns : Break(c)
    \/ \E t \in Tabs : Join(t) \/ Stall(t) \/ ReadLoopEnds(t)
    \/ \E e \in Events, u \in Urls : PostStep(e, u)

Spec == Init /\ [][Next]_vars

\* Goroutines run, the dialer and the write deadline return, and so does a
\* request to a server that does not hang.
Fairness ==
    /\ \A e \in Events : WF_vars(AmqpStep(OfInstance(e)) \/ HubStep(e))
    /\ \A e \in Events : WF_vars(AmqpStep(<<e, "global">>))
    /\ \A e \in Events, u \in Urls : WF_vars(PostStep(e, u))

FairSpec == Spec /\ Fairness

-----------------------------------------------------------------------------
\* CallWebhook lets the event through, or drops it, for some kind of chat.
CanBeWanted(e)   == \E chat \in Chats : Wanted(type[e], chat, Subscribed[e])
CanBeUnwanted(e) == \E chat \in Chats : ~Wanted(type[e], chat, Subscribed[e])

PostedOf(e) ==
    /\ \A u \in Urls : post[<<e, u>>].at # "none" =>
           /\ "webhook" \in Enabled[e] /\ Postable(type[e]) /\ CanBeWanted(e)
           /\ pc[OfInstance(e)] = "end"
    /\ pc[OfInstance(e)] = "end" =>
           \/ "webhook" \notin Enabled[e] \/ ~Postable(type[e])
           \/ \A u \in Urls : post[<<e, u>>].at # "none"
           \/ CanBeUnwanted(e)

\* Whatever became of the broker and of the tabs, an event whose goroutine is done
\* has one goroutine more for each address if the instance has a webhook and may
\* have subscribed it; only a panic of the AMQP producer skips them. None is
\* started for an event that is dropped, nor before the channels that come first
\* (whatsmeow.go:2521-2558, webhook_producer.go:79-96).
PostedExactly == \A e \in Events : PostedOf(e)

\* However events, joins and closes interleave, a tab that is open stays
\* registered and one that was closed is not registered again
\* (websocket_producer.go:43-44, 78-79, 131-132).
RegistrationExact ==
    /\ {t \in Tabs : tab[t] = "open"} \subseteq clients
    /\ {t \in Tabs : tab[t] \in {"away", "closed", "ended"}} \cap clients = {}

\* Once an event has gone past the tabs, every tab that was there when it came
\* and is still open got it, whatever became of the others
\* (websocket_producer.go:151-152).
OpenTabsGot ==
    \A e \in Events :
        pc[OfInstance(e)] \in {"webhook", "end"} =>
            \A t \in owed[e] : tab[t] = "open" => <<e, t>> \in got

\* An event the instance subscribed reaches every address that answers, or is
\* given up after its attempts, although the broker is down, a tab stopped
\* reading or another address hangs; a panic of the AMQP producer and the
\* status events, which have no webhook, are the exceptions
\* (producer_fanout_test.go:22-23, webhook_producer.go:49-52).
WebhookReached ==
    \A e \in Events, u \in Urls \ Hung :
        type[e] # "none" /\ pc[OfInstance(e)] # "end" ~>
            \/ "webhook" \notin Enabled[e]
            \/ post[<<e, u>>].at \in {"ok", "gaveUp"}
            \/ pc[OfInstance(e)] = "panicked"
            \/ type[e] = "SendStatus"
=============================================================================
