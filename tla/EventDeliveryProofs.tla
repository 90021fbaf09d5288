------------------------ MODULE EventDeliveryProofs ------------------------
(***************************************************************************)
(* Proofs about EventDelivery and the tables it routes by, for any number  *)
(* of events, tabs, addresses and attempts.                                *)
(***************************************************************************)
EXTENDS EventDelivery, TLAPS

AmqpPlaces ==
    {"ensure", "isClosed", "dial", "channel", "publish", "rechannel"}

\* The attempts that failed never reach the maximum before another is made.
TriesLeft ==
    /\ \A w \in Workers :
           /\ pc[w] = "channel" => attempts[w] = 0
           /\ pc[w] = "publish" => attempts[w] < PublishTries
    /\ \A p \in Events \X Urls :
           post[p].at = "posting" => post[p].tries < PostTries

\* What becomes of the tabs an event copied: each is still to be written, was
\* written or is no longer open.
CopiedTabs ==
    \A e \in Events :
        /\ \A t \in owed[e] : tab[t] # "away"
        /\ \A t \in owed[e] :
               tab[t] = "open" => <<e, t>> \in got \/ t \in targets[e]
        /\ pc[OfInstance(e)] \in AmqpPlaces \cup {"none", "snapshot"}
               => owed[e] = {} /\ targets[e] = {}
        /\ pc[OfInstance(e)] \in {"webhook", "end"} => targets[e] = {}

\* The tables agree: an event of a group of the global queues reaches the
\* instances that subscribed that group (event_groups.go:5-9 and the switch of
\* CallWebhook).
THEOREM TablesAgree ==
    ASSUME NEW g \in Subscriptions, NEW t \in Group[g], NEW chat \in Chats
    PROVE  g \in Subscribers(t, chat)
<1>1. Group["MESSAGE"] \subseteq Delivers["MESSAGE"]
  BY DEF Group, Delivers
<1>2. /\ Group["SEND_MESSAGE"] = Delivers["SEND_MESSAGE"]
      /\ Group["READ_RECEIPT"] = Delivers["READ_RECEIPT"]
      /\ Group["PRESENCE"] = Delivers["PRESENCE"]
      /\ Group["HISTORY_SYNC"] = Delivers["HISTORY_SYNC"]
      /\ Group["CHAT_PRESENCE"] = Delivers["CHAT_PRESENCE"]
      /\ Group["CALL"] = Delivers["CALL"]
      /\ Group["CONNECTION"] = Delivers["CONNECTION"]
      /\ Group["LABEL"] = Delivers["LABEL"]
      /\ Group["CONTACT"] = Delivers["CONTACT"]
      /\ Group["GROUP"] = Delivers["GROUP"]
      /\ Group["NEWSLETTER"] = Delivers["NEWSLETTER"]
      /\ Group["QRCODE"] = Delivers["QRCODE"]
      /\ Group["BUTTON_CLICK"] = Delivers["BUTTON_CLICK"]
      /\ Group["PICTURE"] = Delivers["PICTURE"]
      /\ Group["USER_ABOUT"] = Delivers["USER_ABOUT"]
  BY DEF Group, Delivers
<1>3. Group[g] \subseteq Delivers[g]
  BY <1>1, <1>2, Zenon DEF Subscriptions
<1> QED
  BY <1>3 DEF Subscribers

-----------------------------------------------------------------------------
\* A step of a goroutine on RabbitMQ starts and ends at these places, and leaves
\* the tabs alone.
LEMMA AmqpPlacesOfStep ==
    ASSUME TypeOK, NEW w \in Workers, AmqpStep(w)
    PROVE  /\ pc[w] \in AmqpPlaces
           /\ \E p \in PC \ {"none", "write", "writing"} :
                  pc' = [pc EXCEPT ![w] = p]
           /\ UNCHANGED <<type, hub, post>>
<1> DEFINE Away == PC \ {"none", "write", "writing"}
<1>0. /\ {"ensure", "isClosed", "dial", "channel", "publish", "rechannel",
          "snapshot", "webhook", "end", "panicked"} \subseteq Away
      /\ \A place : Goto(w, place) <=> pc' = [pc EXCEPT ![w] = place]
  BY DEF PC, Goto
<1>1. LeaveProducer(w) => \E p \in Away : pc' = [pc EXCEPT ![w] = p]
  <2>1. WebhookOrEnd(w[1]) \in Away
    BY <1>0 DEF WebhookOrEnd
  <2>2. AfterRabbit(w[1]) \in Away
    BY <1>0, <2>1 DEF AfterRabbit
  <2> QED
    BY <1>0, <2>2 DEF LeaveProducer
<1>2. \A n : NextAttempt(w, n) => \E p \in Away : pc' = [pc EXCEPT ![w] = p]
  BY <1>0, <1>1 DEF NextAttempt
<1>3. Ensured(w) => \E p \in Away : pc' = [pc EXCEPT ![w] = p]
  BY <1>0 DEF Ensured
<1>4. NotEnsured(w) => \E p \in Away : pc' = [pc EXCEPT ![w] = p]
  BY <1>1, <1>2 DEF NotEnsured
<1>5. pc[w] \in Away
      => (UNCHANGED pc => \E p \in Away : pc' = [pc EXCEPT ![w] = p])
  BY DEF TypeOK
<1> HIDE DEF Away
<1>6. pc[w] \in AmqpPlaces
  BY DEF AmqpStep, Ensure, IsClosed, DialSucceeds, DialFails, OpenChannel,
     Publish, ReopenChannel, AmqpPlaces
<1>7. UNCHANGED <<type, hub, post>>
  BY DEF AmqpStep, Ensure, IsClosed, DialSucceeds, DialFails, OpenChannel,
     Publish, ReopenChannel, hub
<1>8. \E p \in Away : pc' = [pc EXCEPT ![w] = p]
  <2>1. CASE Ensure(w)
    BY <2>1, <1>0 DEF Ensure
  <2>2. CASE IsClosed(w)
    BY <2>2, <1>0, <1>3 DEF IsClosed
  <2>3. CASE DialSucceeds(w)
    BY <2>3, <1>3 DEF DialSucceeds
  <2>4. CASE DialFails(w)
    BY <2>4, <1>4, <1>5, <1>6, <1>0 DEF DialFails, AmqpPlaces
  <2>5. CASE OpenChannel(w)
    BY <2>5, <1>0, <1>1 DEF OpenChannel
  <2>6. CASE Publish(w)
    BY <2>6, <1>0, <1>1, <1>2 DEF Publish
  <2>7. CASE ReopenChannel(w)
    BY <2>7, <1>0, <1>2 DEF ReopenChannel
  <2> QED
    BY <2>1, <2>2, <2>3, <2>4, <2>5, <2>6, <2>7 DEF AmqpStep
<1> QED
  BY <1>6, <1>7, <1>8 DEF Away

-----------------------------------------------------------------------------
LEMMA InitEstablishes ==
    Init => TypeOK /\ TriesLeft /\ RegistrationExact /\ CopiedTabs
<1> SUFFICES ASSUME Init
    PROVE  TypeOK /\ TriesLeft /\ RegistrationExact /\ CopiedTabs
  OBVIOUS
<1> USE ConstantsAssumption DEF Init
<1>1. TypeOK
  BY DEF TypeOK, Conns, Nil, PC, TabState, PostState, Workers
<1>2. TriesLeft
  BY DEF TriesLeft
<1>3. RegistrationExact
  BY DEF RegistrationExact
<1>4. CopiedTabs
  BY DEF CopiedTabs, OfInstance, Workers
<1> QED
  BY <1>1, <1>2, <1>3, <1>4

\* A step of a goroutine on RabbitMQ keeps the types and the attempts.
LEMMA AmqpKeepsTypes ==
    ASSUME TypeOK, TriesLeft, NEW w \in Workers, AmqpStep(w)
    PROVE  TypeOK' /\ TriesLeft'
<1> USE ConstantsAssumption DEF TypeOK, TriesLeft, amqp
<1>1. PICK p \in PC \ {"none", "write", "writing"} :
          pc' = [pc EXCEPT ![w] = p]
  BY AmqpPlacesOfStep
<1>2. pc' \in [Workers -> PC] /\ UNCHANGED <<type, hub, post>>
  BY <1>1, AmqpPlacesOfStep
<1>3. /\ conn' \in Conns \cup {Nil}
      /\ open' \subseteq Conns
      /\ dialed' \in 0 .. MaxConns
      /\ chan' \in [Workers -> Conns \cup {Nil}]
  <2>1. CASE DialSucceeds(w)
    <3>1. dialed' \in 1 .. MaxConns
      BY <2>1 DEF DialSucceeds
    <3> QED
      BY <2>1, <3>1 DEF DialSucceeds, Conns
  <2>2. CASE OpenChannel(w) \/ ReopenChannel(w)
    BY <2>2 DEF OpenChannel, ReopenChannel
  <2> QED
    BY <2>1, <2>2 DEF AmqpStep, Ensure, IsClosed, DialFails, Publish
<1>4. dials' \in [Workers -> 0 .. DialTries]
  <2>1. CASE DialSucceeds(w) \/ DialFails(w)
    <3>1. PICK n \in 0 .. DialTries : dials' = [dials EXCEPT ![w] = n]
      <4>1. 0 \in 0 .. DialTries
        OBVIOUS
      <4>2. dials[w] + 1 < DialTries => dials[w] + 1 \in 0 .. DialTries
        OBVIOUS
      <4> QED
        BY <2>1, <4>1, <4>2 DEF DialSucceeds, DialFails
    <3> QED
      BY <3>1
  <2>2. CASE ~(DialSucceeds(w) \/ DialFails(w))
    BY <2>2 DEF AmqpStep, Ensure, IsClosed, OpenChannel, Publish, ReopenChannel
  <2> QED
    BY <2>1, <2>2
<1>5. attempts' \in [Workers -> 0 .. PublishTries]
  <2>1. CASE Publish(w)
    <3>1. attempts[w] + 1 \in 0 .. PublishTries
      BY <2>1 DEF Publish
    <3>2. \/ UNCHANGED attempts
          \/ attempts' = [attempts EXCEPT ![w] = attempts[w] + 1]
      BY <2>1 DEF Publish
    <3> QED
      BY <3>1, <3>2
  <2>2. CASE ~Publish(w)
    BY <2>2 DEF AmqpStep, Ensure, IsClosed, DialSucceeds, DialFails, OpenChannel,
       ReopenChannel
  <2> QED
    BY <2>1, <2>2
<1>6. TypeOK'
  BY <1>2, <1>3, <1>4, <1>5 DEF hub
<1>7. /\ pc'[w] = "channel" => attempts'[w] = 0
      /\ pc'[w] = "publish" => attempts'[w] < PublishTries
  <2> USE DEF Goto, NextAttempt, LeaveProducer, AfterRabbit, WebhookOrEnd
  <2>1. CASE Ensure(w) \/ IsClosed(w)
    BY <2>1 DEF Ensure, IsClosed, Ensured
  <2>2. CASE DialSucceeds(w)
    BY <2>2 DEF DialSucceeds, Ensured
  <2>3. CASE DialFails(w)
    BY <2>3 DEF DialFails, NotEnsured
  <2>4. CASE OpenChannel(w)
    BY <2>4 DEF OpenChannel
  <2>5. CASE Publish(w)
    BY <2>5 DEF Publish
  <2>6. CASE ReopenChannel(w)
    BY <2>6 DEF ReopenChannel
  <2> QED
    BY <2>1, <2>2, <2>3, <2>4, <2>5, <2>6 DEF AmqpStep
<1>8. \A v \in Workers \ {w} : pc'[v] = pc[v] /\ attempts'[v] = attempts[v]
  <2>1. \A v \in Workers \ {w} : pc'[v] = pc[v]
    BY <1>1
  <2>2. \A v \in Workers \ {w} : attempts'[v] = attempts[v]
    BY DEF AmqpStep, Ensure, IsClosed, DialSucceeds, DialFails, OpenChannel,
       Publish, ReopenChannel
  <2> QED
    BY <2>1, <2>2
<1>9. TriesLeft'
  BY <1>2, <1>7, <1>8
<1> QED
  BY <1>6, <1>9

LEMMA TypesKept == TypeOK /\ TriesLeft /\ [Next]_vars => TypeOK' /\ TriesLeft'
<1> SUFFICES ASSUME TypeOK, TriesLeft, [Next]_vars PROVE TypeOK' /\ TriesLeft'
  OBVIOUS
<1>0. \A e \in Events : OfInstance(e) \in Workers /\ <<e, "global">> \in Workers
  BY DEF OfInstance, Workers
<1>1. ASSUME NEW e \in Events, Emit(e)
      PROVE  TypeOK' /\ TriesLeft'
  <2> DEFINE places == {"ensure", "snapshot", "webhook", "end"}
  <2>1. PICK t \in Emitted[e], p \in places, q \in places :
            /\ type' = [type EXCEPT ![e] = t]
            /\ pc' = [pc EXCEPT ![OfInstance(e)] = p, ![<<e, "global">>] = q]
    BY <1>1 DEF Emit, FirstChannel, AfterRabbit, WebhookOrEnd
  <2>2. t \in EventTypes
    BY ConstantsAssumption
  <2>3. type' \in [Events -> EventTypes \cup {"none"}]
    BY <2>1, <2>2 DEF TypeOK
  <2>4. /\ pc' \in [Workers -> PC]
        /\ \A w \in Workers :
               pc'[w] \in {"channel", "publish"} => pc'[w] = pc[w]
    BY <2>1, <1>0 DEF TypeOK, PC
  <2> QED
    BY <1>1, <2>3, <2>4 DEF Emit, TypeOK, TriesLeft, amqp, hub
<1>2. ASSUME NEW w \in Workers, AmqpStep(w)
      PROVE  TypeOK' /\ TriesLeft'
  BY <1>2, AmqpKeepsTypes
<1>3. ASSUME NEW c \in Conns, Break(c)
      PROVE  TypeOK' /\ TriesLeft'
  BY <1>3 DEF Break, TypeOK, TriesLeft, hub
<1>4. ASSUME NEW t \in Tabs, Join(t) \/ Stall(t) \/ ReadLoopEnds(t)
      PROVE  TypeOK' /\ TriesLeft'
  BY <1>4 DEF Join, Stall, ReadLoopEnds, TypeOK, TriesLeft, amqp, TabState
<1>5. ASSUME NEW e \in Events, NEW p \in PC \ {"channel", "publish"},
             Goto(OfInstance(e), p)
      PROVE  /\ pc' \in [Workers -> PC]
             /\ \A w \in Workers :
                    pc'[w] \in {"channel", "publish"} => pc'[w] = pc[w]
  BY <1>0, <1>5 DEF Goto, TypeOK
<1>6. ASSUME NEW e \in Events, Snapshot(e) \/ Prune(e)
      PROVE  TypeOK' /\ TriesLeft'
  <2>1. /\ pc' \in [Workers -> PC]
        /\ \A w \in Workers :
               pc'[w] \in {"channel", "publish"} => pc'[w] = pc[w]
    BY <1>5, <1>6 DEF Snapshot, Prune, WebhookOrEnd, PC
  <2>2. tab' \in [Tabs -> TabState]
    BY <1>6 DEF Snapshot, Prune, Closed, TypeOK, TabState
  <2>3. /\ clients' \subseteq Tabs
        /\ targets' \in [Events -> SUBSET Tabs]
        /\ failed' \in [Events -> SUBSET Tabs]
        /\ owed' \in [Events -> SUBSET Tabs]
    BY <1>6 DEF Snapshot, Prune, TypeOK
  <2> QED
    BY <1>6, <2>1, <2>2, <2>3 DEF Snapshot, Prune, TypeOK, TriesLeft, amqp
<1>7. ASSUME NEW e \in Events, NEW t \in Tabs, BeginWrite(e, t) \/ EndWrite(e, t)
      PROVE  TypeOK' /\ TriesLeft'
  <2>1. /\ pc' \in [Workers -> PC]
        /\ \A w \in Workers :
               pc'[w] \in {"channel", "publish"} => pc'[w] = pc[w]
    BY <1>5, <1>7 DEF BeginWrite, EndWrite, PC
  <2>2. /\ writing' \subseteq Events \X Tabs
        /\ got' \subseteq Events \X Tabs
        /\ targets' \in [Events -> SUBSET Tabs]
        /\ failed' \in [Events -> SUBSET Tabs]
    <3>1. CASE BeginWrite(e, t)
      BY <3>1 DEF BeginWrite, TypeOK
    <3>2. CASE EndWrite(e, t)
      <4>1. writing' \subseteq Events \X Tabs /\ got' \subseteq Events \X Tabs
        BY <3>2 DEF EndWrite, TypeOK
      <4>2. targets' \in [Events -> SUBSET Tabs]
        BY <3>2 DEF EndWrite, TypeOK
      <4>3. failed' \in [Events -> SUBSET Tabs]
        BY <3>2 DEF EndWrite, TypeOK
      <4> QED
        BY <4>1, <4>2, <4>3
    <3> QED
      BY <1>7, <3>1, <3>2
  <2> QED
    BY <1>7, <2>1, <2>2 DEF BeginWrite, EndWrite, TypeOK, TriesLeft, amqp
<1>8. ASSUME NEW e \in Events, StartPosts(e)
      PROVE  TypeOK' /\ TriesLeft'
  <2>1. /\ pc' \in [Workers -> PC]
        /\ \A w \in Workers :
               pc'[w] \in {"channel", "publish"} => pc'[w] = pc[w]
    BY <1>5, <1>8 DEF StartPosts, PC
  <2>2. /\ post' \in [Events \X Urls -> [at : PostState, tries : 0 .. PostTries]]
        /\ \A p \in Events \X Urls :
               post'[p].at = "posting" => post'[p].tries < PostTries
    BY <1>8, ConstantsAssumption DEF StartPosts, TypeOK, TriesLeft, PostState
  <2> QED
    BY <1>8, <2>1, <2>2 DEF StartPosts, TypeOK, TriesLeft, amqp, hub
<1>9. ASSUME NEW e \in Events, NEW u \in Urls, PostStep(e, u)
      PROVE  TypeOK' /\ TriesLeft'
  <2>1. /\ post' \in [Events \X Urls -> [at : PostState, tries : 0 .. PostTries]]
        /\ \A p \in Events \X Urls :
               post'[p].at = "posting" => post'[p].tries < PostTries
    <3> DEFINE old == post[<<e, u>>]
    <3>1. /\ <<e, u>> \in Events \X Urls
          /\ old \in [at : PostState, tries : 0 .. PostTries]
          /\ old.at = "posting" => old.tries + 1 \in 0 .. PostTries
      BY ConstantsAssumption DEF TypeOK, TriesLeft
    <3>2. PICK new \in [at : PostState, tries : 0 .. PostTries] :
              /\ post' = [post EXCEPT ![<<e, u>>] = new]
              /\ new.at = "posting" => new.tries < PostTries
      <4>1. CASE Awake(e, u)
        <5> DEFINE next == IF old.tries < PostTries THEN "posting" ELSE "gaveUp"
        <5>1. post' = [post EXCEPT ![<<e, u>>] = [old EXCEPT !.at = next]]
          BY <4>1 DEF Awake
        <5>2. [old EXCEPT !.at = next] = [at |-> next, tries |-> old.tries]
          BY <3>1
        <5>3. next = "posting" => old.tries < PostTries
          OBVIOUS
        <5> QED
          BY <3>1, <5>1, <5>2, <5>3 DEF PostState
      <4>2. CASE PostReturns(e, u)
        BY <3>1, <4>2 DEF PostReturns, PostState
      <4> QED
        BY <1>9, <4>1, <4>2 DEF PostStep
    <3> QED
      BY <3>1, <3>2 DEF TypeOK, TriesLeft
  <2> QED
    BY <1>9, <2>1
       DEF PostStep, PostReturns, Awake, TypeOK, TriesLeft, amqp, hub
<1>10. CASE UNCHANGED vars
  BY <1>10 DEF vars, amqp, hub, TypeOK, TriesLeft
<1> QED
  BY <1>1, <1>2, <1>3, <1>4, <1>6, <1>7, <1>8, <1>9, <1>10 DEF Next, HubStep

-----------------------------------------------------------------------------
Tabbed == RegistrationExact /\ CopiedTabs

\* The tabs when only the goroutine of an event moves, from a place on RabbitMQ
\* or from the start.
LEMMA TabsWhenAway ==
    ASSUME TypeOK, Tabbed, UNCHANGED hub,
           \A e \in Events :
               \/ pc'[OfInstance(e)] = pc[OfInstance(e)]
               \/ pc[OfInstance(e)] \in AmqpPlaces \cup {"none"}
    PROVE  Tabbed'
<1>1. RegistrationExact'
  BY DEF hub, Tabbed, RegistrationExact
<1>2. CopiedTabs'
  BY DEF hub, Tabbed, CopiedTabs, OfInstance
<1> QED
  BY <1>1, <1>2 DEF Tabbed

LEMMA TabsKept == TypeOK /\ Tabbed /\ [Next]_vars => Tabbed'
<1> SUFFICES ASSUME TypeOK, Tabbed, [Next]_vars PROVE Tabbed'
  OBVIOUS
<1> USE DEF Tabbed
<1>0. /\ \A e \in Events : OfInstance(e) \in Workers
      /\ \A e, f \in Events : OfInstance(e) = OfInstance(f) => e = f
  BY DEF OfInstance, Workers
<1>1. ASSUME NEW e \in Events, Emit(e)
      PROVE  Tabbed'
  <2>1. /\ UNCHANGED hub
        /\ pc[OfInstance(e)] = "none"
        /\ \A f \in Events \ {e} : pc'[OfInstance(f)] = pc[OfInstance(f)]
    BY <1>0, <1>1 DEF Emit, TypeOK, OfInstance
  <2> QED
    BY <2>1, TabsWhenAway
<1>2. ASSUME NEW w \in Workers, AmqpStep(w)
      PROVE  Tabbed'
  <2>1. /\ UNCHANGED hub
        /\ \A v \in Workers : pc'[v] = pc[v] \/ pc[v] \in AmqpPlaces
    BY <1>2, AmqpPlacesOfStep DEF TypeOK
  <2> QED
    BY <1>0, <2>1, TabsWhenAway
<1>3. ASSUME NEW c \in Conns, Break(c)
      PROVE  Tabbed'
  BY <1>3, TabsWhenAway DEF Break
<1>4. ASSUME NEW t \in Tabs, Join(t) \/ Stall(t) \/ ReadLoopEnds(t)
      PROVE  Tabbed'
  <2>2. RegistrationExact'
    BY <1>4 DEF Join, Stall, ReadLoopEnds, RegistrationExact, TypeOK
  <2>3. /\ UNCHANGED <<pc, owed, got, targets>>
        /\ \A s \in Tabs : tab[s] # "away" =>
               tab'[s] # "away" /\ (tab'[s] = "open" => tab[s] = "open")
    BY <1>4 DEF Join, Stall, ReadLoopEnds, TypeOK
  <2>4. CopiedTabs'
    BY <2>3 DEF CopiedTabs, OfInstance, TypeOK
  <2> QED
    BY <2>2, <2>4
<1>5. ASSUME NEW e \in Events, Snapshot(e)
      PROVE  Tabbed'
  <2>1. RegistrationExact'
    BY <1>5 DEF Snapshot, RegistrationExact
  <2>2. /\ pc'[OfInstance(e)] = "write"
        /\ owed'[e] = clients /\ targets'[e] = clients
        /\ UNCHANGED <<tab, got>>
    BY <1>0, <1>5 DEF Snapshot, Goto, TypeOK
  <2>3. \A f \in Events \ {e} :
            /\ pc'[OfInstance(f)] = pc[OfInstance(f)]
            /\ owed'[f] = owed[f] /\ targets'[f] = targets[f]
    BY <1>0, <1>5 DEF Snapshot, Goto, TypeOK
  <2>4. \A t \in clients : tab[t] # "away"
    BY DEF RegistrationExact, TypeOK
  <2>5. CopiedTabs'
    BY <2>2, <2>3, <2>4 DEF CopiedTabs, OfInstance, AmqpPlaces
  <2> QED
    BY <2>1, <2>5
<1>6. ASSUME NEW e \in Events, NEW t \in Tabs, BeginWrite(e, t)
      PROVE  Tabbed'
  <2>1. RegistrationExact'
    BY <1>6 DEF BeginWrite, RegistrationExact
  <2>3. /\ pc'[OfInstance(e)] = "writing"
        /\ \A f \in Events \ {e} : pc'[OfInstance(f)] = pc[OfInstance(f)]
        /\ UNCHANGED <<tab, owed, got, targets>>
    BY <1>0, <1>6 DEF BeginWrite, Goto, TypeOK
  <2>4. CopiedTabs'
    BY <2>3 DEF CopiedTabs, OfInstance, AmqpPlaces
  <2> QED
    BY <2>1, <2>4
<1>7. ASSUME NEW e \in Events, NEW t \in Tabs, EndWrite(e, t)
      PROVE  Tabbed'
  <2>1. RegistrationExact'
    BY <1>7 DEF EndWrite, RegistrationExact
  <2>3. /\ pc'[OfInstance(e)] = "write"
        /\ \A f \in Events \ {e} : /\ pc'[OfInstance(f)] = pc[OfInstance(f)]
                                   /\ targets'[f] = targets[f]
        /\ targets'[e] = targets[e] \ {t}
        /\ UNCHANGED <<tab, owed>>
    BY <1>0, <1>7 DEF EndWrite, Goto, TypeOK
  <2>4. got \subseteq got' /\ (tab[t] = "open" => <<e, t>> \in got')
    BY <1>7 DEF EndWrite
  <2>5. CopiedTabs'
    BY <2>3, <2>4 DEF CopiedTabs, OfInstance, AmqpPlaces
  <2> QED
    BY <2>1, <2>5
<1>8. ASSUME NEW e \in Events, Prune(e)
      PROVE  Tabbed'
  <2>1. /\ clients' = clients \ failed[e] /\ tab' = Closed(failed[e])
        /\ UNCHANGED <<targets, writing, owed, got>>
        /\ targets[e] = {}
    BY <1>8 DEF Prune
  <2>2. \A t \in Tabs :
            IF t \in failed[e]
            THEN tab'[t] \in {"closed", "ended"}
            ELSE tab'[t] = tab[t]
    BY <2>1 DEF Closed
  <2>3. RegistrationExact'
    BY <2>1, <2>2 DEF RegistrationExact
  <2>4. /\ pc'[OfInstance(e)] \in {"webhook", "end"}
        /\ \A f \in Events \ {e} : pc'[OfInstance(f)] = pc[OfInstance(f)]
    BY <1>0, <1>8 DEF Prune, Goto, WebhookOrEnd, TypeOK
  <2>5. CopiedTabs'
    BY <2>1, <2>2, <2>4 DEF CopiedTabs, OfInstance, AmqpPlaces, TypeOK
  <2> QED
    BY <2>3, <2>5
<1>9. ASSUME NEW e \in Events, StartPosts(e)
      PROVE  Tabbed'
  <2>1. /\ UNCHANGED hub
        /\ pc[OfInstance(e)] = "webhook" /\ pc'[OfInstance(e)] = "end"
        /\ \A f \in Events \ {e} : pc'[OfInstance(f)] = pc[OfInstance(f)]
    BY <1>0, <1>9 DEF StartPosts, Goto, TypeOK
  <2>2. RegistrationExact'
    BY <2>1 DEF hub, RegistrationExact
  <2>3. CopiedTabs'
    BY <2>1 DEF hub, CopiedTabs, OfInstance, AmqpPlaces
  <2> QED
    BY <2>2, <2>3
<1>10. ASSUME NEW e \in Events, NEW u \in Urls, PostStep(e, u)
       PROVE  Tabbed'
  BY <1>10, TabsWhenAway DEF PostStep, PostReturns, Awake
<1>11. CASE UNCHANGED vars
  BY <1>11, TabsWhenAway DEF vars
<1> QED
  BY <1>1, <1>2, <1>3, <1>4, <1>5, <1>6, <1>7, <1>8, <1>9, <1>10, <1>11
     DEF Next, HubStep

-----------------------------------------------------------------------------
\* The invariant of the proofs is inductive: types, attempts left, exact
\* registration and what became of the tabs each event copied.
THEOREM Inductive == Spec => [](TypeOK /\ TriesLeft /\ Tabbed)
<1>1. Init => TypeOK /\ TriesLeft /\ Tabbed
  BY InitEstablishes DEF Tabbed
<1>2. TypeOK /\ TriesLeft /\ Tabbed /\ [Next]_vars
      => (TypeOK /\ TriesLeft /\ Tabbed)'
  BY TypesKept, TabsKept
<1> QED
  BY <1>1, <1>2, PTL DEF Spec

\* Every variable keeps its type, for every value of the constants.
THEOREM TypeCorrect == Spec => []TypeOK
BY Inductive, PTL

\* An open tab stays registered and a closed one is not registered again,
\* however events, joins and closes interleave (websocket_producer.go).
THEOREM RegistrationStaysExact == Spec => []RegistrationExact
<1>1. Tabbed => RegistrationExact
  BY DEF Tabbed
<1> QED
  BY <1>1, Inductive, PTL

\* An event that has gone past the tabs was written to every tab it copied that
\* is still open (Produce, websocket_producer.go).
THEOREM OpenTabsAlwaysGot == Spec => []OpenTabsGot
<1>1. Tabbed => OpenTabsGot
  BY DEF Tabbed, CopiedTabs, OpenTabsGot
<1> QED
  BY <1>1, Inductive, PTL

-----------------------------------------------------------------------------
(***************************************************************************)
(* What WebhookReached rests on besides fairness: an event skips its       *)
(* webhooks only for a reason, and every goroutine goes one way.           *)
(***************************************************************************)
\* Both goroutines of an event start together, a wanted event is on its way
\* only to channels that are enabled, and a write is one of its own.
CourseOf(e) ==
    /\ pc[OfInstance(e)] = "none" <=> pc[<<e, "global">>] = "none"
    /\ pc[OfInstance(e)] \notin {"none", "end"} => CanBeWanted(e)
    /\ pc[OfInstance(e)] = "webhook" => "webhook" \in Enabled[e]
    /\ \A t \in Tabs : <<e, t>> \in writing =>
           /\ pc[OfInstance(e)] = "writing" /\ t \in targets[e]
           /\ \A s \in Tabs : <<e, s>> \in writing => s = t

Course == \A e \in Events : CourseOf(e)

\* The steps of a goroutine in the order it takes them; "write" and "writing"
\* alternate.
Place == [none |-> 0, ensure |-> 1, isClosed |-> 2, dial |-> 3, channel |-> 4,
          rechannel |-> 4, publish |-> 5, snapshot |-> 6, write |-> 7,
          writing |-> 7, webhook |-> 8, end |-> 9, panicked |-> 9]

StepOf(w) == AmqpStep(w) \/ \E e \in Events : w = OfInstance(e) /\ HubStep(e)

LeftTo(w) == IF w[2] = "instance" THEN targets[w[1]] ELSE {}

Further(w) ==
    \/ attempts'[w] = attempts[w] + 1
    \/ /\ attempts'[w] = attempts[w]
       /\ \/ Place[pc'[w]] > Place[pc[w]]
          \/ pc[w] = "dial" /\ pc'[w] = "dial" /\ dials'[w] = dials[w] + 1
          \/ pc[w] = "write" /\ pc'[w] = "writing" /\ LeftTo(w)' = LeftTo(w)
          \/ /\ pc[w] = "writing" /\ pc'[w] = "write"
             /\ \E t \in LeftTo(w) : LeftTo(w)' = LeftTo(w) \ {t}

Still(w) ==
    /\ pc'[w] = pc[w] /\ attempts'[w] = attempts[w] /\ dials'[w] = dials[w]
    /\ LeftTo(w)' = LeftTo(w)

DeliveryGoesOn ==
    \A w \in Workers : IF StepOf(w) THEN Further(w) ELSE pc[w] # "none" => Still(w)

PostFurther(p) ==
    \/ /\ post[p].at = "posting"
       /\ post'[p] \in {[at |-> "ok", tries |-> post[p].tries],
                        [at |-> "sleeping", tries |-> post[p].tries + 1]}
    \/ /\ post[p].at = "sleeping"
       /\ post'[p] \in [at : {"posting", "gaveUp"}, tries : {post[p].tries}]

PostsGoOn ==
    \A p \in Events \X Urls :
        post[p].at # "none" => post'[p] = post[p] \/ PostFurther(p)

\* Where LeaveProducer and the steps that may end in it lead: past RabbitMQ,
\* and to the webhooks only if they are enabled.
LEMMA AmqpGoesOn ==
    ASSUME TypeOK, TriesLeft, NEW w \in Workers, AmqpStep(w)
    PROVE  /\ Further(w)
           /\ \A v \in Workers \ {w} :
                  pc'[v] = pc[v] /\ attempts'[v] = attempts[v] /\ dials'[v] = dials[v]
           /\ pc'[w] # "none"
           /\ \A e \in Events : w = OfInstance(e) =>
                  /\ pc'[w] = "webhook" => "webhook" \in Enabled[e]
                  /\ pc'[w] = "end" => "webhook" \notin Enabled[e]
<1> DEFINE Exit(p) == /\ p \in {"snapshot", "webhook", "end"}
                      /\ \A e \in Events : w = OfInstance(e) =>
                             /\ p = "webhook" => "webhook" \in Enabled[e]
                             /\ p = "end" => "webhook" \notin Enabled[e]
           Inner == {"ensure", "isClosed", "dial", "channel", "rechannel", "publish", "panicked"}
           Past(p) == p \in Inner \/ Exit(p)
<1>1. LeaveProducer(w) => \E p \in {"snapshot", "webhook", "end"} : Exit(p) /\ Goto(w, p)
  <2>1. \A e \in Events : w = OfInstance(e) => w[1] = e /\ w[2] = "instance"
    BY DEF OfInstance
  <2>2. CASE w[2] = "instance"
    <3>1. Exit(AfterRabbit(w[1]))
      BY <2>1 DEF AfterRabbit, WebhookOrEnd
    <3> QED
      BY <2>2, <3>1 DEF LeaveProducer
  <2>3. CASE w[2] # "instance"
    BY <2>1, <2>3 DEF LeaveProducer
  <2> QED
    BY <2>2, <2>3
<1> DEFINE Out == \E p \in {"snapshot", "webhook", "end"} : Exit(p) /\ Goto(w, p)
<1>2. Past("isClosed") /\ Past("dial") /\ Past("channel") /\ Past("rechannel")
      /\ Past("publish") /\ Past("panicked")
  OBVIOUS
<1>3. \A p : Exit(p) => p \in {"snapshot", "webhook", "end"} /\ Past(p)
  OBVIOUS
<1>4. \A p : Past(p) => p # "none" /\ \A e \in Events : w = OfInstance(e) =>
                             /\ p = "webhook" => "webhook" \in Enabled[e]
                             /\ p = "end" => "webhook" \notin Enabled[e]
  OBVIOUS
<1> HIDE DEF Exit, Past
<1>5. \/ /\ attempts'[w] = attempts[w] + 1
         /\ \E p \in PC : Past(p) /\ Goto(w, p)
      \/ /\ attempts'[w] = attempts[w]
         /\ \E p \in PC : Past(p) /\ Goto(w, p) /\ Place[p] > Place[pc[w]]
      \/ /\ attempts'[w] = attempts[w]
         /\ pc' = pc /\ pc[w] = "dial" /\ dials'[w] = dials[w] + 1
  <2> DEFINE Up == \E p \in PC : Past(p) /\ Goto(w, p) /\ Place[p] > Place[pc[w]]
  <2>0. /\ {"isClosed", "dial", "channel", "rechannel", "publish", "panicked",
            "snapshot", "webhook", "end"} \subseteq PC
        /\ pc[w] \in {"ensure", "isClosed", "dial", "channel", "rechannel"}
               => Place["publish"] > Place[pc[w]]
        /\ pc[w] \in {"ensure", "isClosed", "dial"}
               => Place["channel"] > Place[pc[w]] /\ Place["rechannel"] > Place[pc[w]]
        /\ pc[w] \in {"ensure", "isClosed"} => Place["dial"] > Place[pc[w]]
        /\ pc[w] = "ensure" => Place["isClosed"] > Place[pc[w]]
        /\ \A p \in {"snapshot", "webhook", "end", "panicked"} :
               pc[w] \in AmqpPlaces => Place[p] > Place[pc[w]]
    BY DEF PC, Place, AmqpPlaces
  <2>1. pc[w] \in AmqpPlaces /\ LeaveProducer(w) => Up
    BY <1>1, <1>3, <2>0
  <2>2. pc[w] \in AmqpPlaces /\ Goto(w, "panicked") => Up
    BY <1>2, <2>0
  <2>3. CASE Ensure(w)
    BY <1>2, <2>0, <2>3 DEF Ensure, amqp
  <2>4. pc[w] \in {"isClosed", "dial"} /\ Ensured(w) => Up
    BY <1>2, <2>0 DEF Ensured
  <2>5. CASE IsClosed(w)
    BY <1>2, <2>0, <2>2, <2>4, <2>5 DEF IsClosed, amqp, AmqpPlaces
  <2>6. CASE DialSucceeds(w)
    BY <2>4, <2>6 DEF DialSucceeds
  <2>7. \A n : pc[w] \in {"dial", "rechannel"} /\ NextAttempt(w, n) => Up
    BY <1>2, <2>0, <2>1 DEF NextAttempt, AmqpPlaces
  <2>8. CASE DialFails(w)
    <3>1. NotEnsured(w) => Up
      BY <2>1, <2>7, <2>8 DEF NotEnsured, DialFails, AmqpPlaces
    <3> QED
      BY <2>8, <3>1 DEF DialFails, TypeOK
  <2>9. CASE OpenChannel(w)
    BY <1>2, <2>0, <2>1, <2>2, <2>9 DEF OpenChannel, AmqpPlaces
  <2>10. CASE Publish(w)
    <3>1. CASE UNCHANGED attempts
      BY <2>1, <2>2, <2>10, <3>1 DEF Publish, AmqpPlaces, TypeOK
    <3>2. CASE /\ attempts' = [attempts EXCEPT ![w] = @ + 1]
               /\ Goto(w, "ensure") \/ NextAttempt(w, attempts[w] + 1)
      <4>1. attempts'[w] = attempts[w] + 1
        BY <3>2 DEF TypeOK
      <4>2. Past("ensure") /\ "ensure" \in PC
        BY DEF Past, PC
      <4>3. NextAttempt(w, attempts[w] + 1) => \E p \in PC : Past(p) /\ Goto(w, p)
        BY <1>1, <1>2, <1>3, <2>0 DEF NextAttempt
      <4> QED
        BY <3>2, <4>1, <4>2, <4>3
    <3> QED
      BY <2>10, <3>1, <3>2 DEF Publish
  <2>11. CASE ReopenChannel(w)
    BY <2>2, <2>7, <2>11 DEF ReopenChannel, AmqpPlaces
  <2> QED
    BY <2>3, <2>5, <2>6, <2>8, <2>9, <2>10, <2>11 DEF AmqpStep
<1>6. \A p : Goto(w, p) => /\ pc'[w] = p
                           /\ \A v \in Workers \ {w} : pc'[v] = pc[v]
  BY DEF Goto, TypeOK
<1>7. \A v \in Workers \ {w} : attempts'[v] = attempts[v] /\ dials'[v] = dials[v]
  BY DEF AmqpStep, Ensure, IsClosed, DialSucceeds, DialFails, OpenChannel, Publish,
     ReopenChannel, TypeOK, amqp
<1>8. Past(pc'[w]) /\ (\A v \in Workers \ {w} : pc'[v] = pc[v])
  BY <1>2, <1>5, <1>6
<1>9. Further(w)
  BY <1>5, <1>6 DEF Further
<1> QED
  BY <1>4, <1>7, <1>8, <1>9

\* A step of the instance goroutine on the tabs and the webhooks.
LEMMA HubGoesOn ==
    ASSUME TypeOK, Course, NEW e \in Events, HubStep(e)
    PROVE  /\ Further(OfInstance(e))
           /\ \A w \in Workers \ {OfInstance(e)} : Still(w)
           /\ pc[OfInstance(e)] # "none"
<1> DEFINE w == OfInstance(e)
<1>0. /\ w \in Workers /\ w[1] = e /\ w[2] = "instance" /\ e \in Events
      /\ \A v \in Workers \ {w} : v[2] = "instance" => v[1] \in Events \ {e}
  BY DEF OfInstance, Workers
<1>1. UNCHANGED amqp
  BY DEF HubStep, Snapshot, Prune, StartPosts, BeginWrite, EndWrite
<1>2. ASSUME NEW p \in PC, Goto(w, p)
      PROVE  pc'[w] = p /\ \A v \in Workers \ {w} : pc'[v] = pc[v]
  BY <1>0, <1>2 DEF Goto, TypeOK
<1>3. /\ {"write", "writing", "webhook", "end"} \subseteq PC
      /\ Place["write"] > Place["snapshot"]
      /\ Place["webhook"] > Place["write"] /\ Place["end"] > Place["write"]
      /\ Place["end"] > Place["webhook"]
  BY DEF PC, Place
<1>4. ASSUME \A f \in Events \ {e} : targets'[f] = targets[f]
      PROVE  \A v \in Workers \ {w} : LeftTo(v)' = LeftTo(v)
  BY <1>0, <1>4 DEF LeftTo
<1>5. CASE Snapshot(e)
  <2>1. \A f \in Events \ {e} : targets'[f] = targets[f]
    BY <1>5 DEF Snapshot, TypeOK
  <2>2. pc[w] = "snapshot" /\ Goto(w, "write")
    BY <1>5 DEF Snapshot
  <2> QED
    BY <1>1, <1>2, <1>3, <1>4, <2>1, <2>2 DEF Further, Still, amqp
<1>6. CASE Prune(e)
  <2>1. targets' = targets
    BY <1>6 DEF Prune
  <2>2. pc[w] = "write" /\ (Goto(w, "webhook") \/ Goto(w, "end"))
    BY <1>6 DEF Prune, WebhookOrEnd
  <2> QED
    BY <1>1, <1>2, <1>3, <1>4, <2>1, <2>2 DEF Further, Still, amqp
<1>7. CASE StartPosts(e)
  <2>1. targets' = targets
    BY <1>7 DEF StartPosts, hub
  <2>2. pc[w] = "webhook" /\ Goto(w, "end")
    BY <1>7 DEF StartPosts
  <2> QED
    BY <1>1, <1>2, <1>3, <1>4, <2>1, <2>2 DEF Further, Still, amqp
<1>8. ASSUME NEW t \in Tabs, BeginWrite(e, t)
      PROVE  Further(w) /\ (\A v \in Workers \ {w} : Still(v)) /\ pc[w] # "none"
  <2>1. targets' = targets
    BY <1>8 DEF BeginWrite
  <2>2. pc[w] = "write" /\ Goto(w, "writing")
    BY <1>8 DEF BeginWrite
  <2>3. LeftTo(w)' = LeftTo(w)
    BY <2>1 DEF LeftTo
  <2> QED
    BY <1>1, <1>2, <1>3, <1>4, <2>1, <2>2, <2>3 DEF Further, Still, amqp
<1>9. ASSUME NEW t \in Tabs, EndWrite(e, t)
      PROVE  Further(w) /\ (\A v \in Workers \ {w} : Still(v)) /\ pc[w] # "none"
  <2>1. /\ targets'[e] = targets[e] \ {t}
        /\ \A f \in Events \ {e} : targets'[f] = targets[f]
    BY <1>9 DEF EndWrite, TypeOK
  <2>2. pc[w] = "writing" /\ t \in targets[e] /\ Goto(w, "write")
    BY <1>9 DEF EndWrite, Course, CourseOf
  <2>3. t \in LeftTo(w) /\ LeftTo(w)' = LeftTo(w) \ {t}
    BY <1>0, <2>1, <2>2 DEF LeftTo
  <2> QED
    BY <1>1, <1>2, <1>3, <1>4, <2>1, <2>2, <2>3 DEF Further, Still, amqp
<1> QED
  BY <1>5, <1>6, <1>7, <1>8, <1>9 DEF HubStep

\* Every other step leaves a goroutine that has started where it is.
LEMMA OthersStayStill ==
    ASSUME TypeOK, TriesLeft, Course, [Next]_vars, NEW w \in Workers,
           ~StepOf(w), pc[w] # "none"
    PROVE  Still(w)
<1>1. ASSUME NEW e \in Events, Emit(e)
      PROVE  Still(w)
  <2>1. pc[OfInstance(e)] = "none" /\ pc[<<e, "global">>] = "none"
    BY <1>1 DEF Emit, Course, CourseOf
  <2>2. pc'[w] = pc[w]
    BY <1>1, <2>1 DEF Emit, TypeOK
  <2> QED
    BY <1>1, <2>2 DEF Emit, Still, amqp, hub, LeftTo
<1>2. ASSUME NEW v \in Workers, AmqpStep(v)
      PROVE  Still(w)
  <2>1. w # v
    BY <1>2 DEF StepOf
  <2>2. UNCHANGED hub
    BY <1>2, AmqpPlacesOfStep
  <2> QED
    BY <1>2, <2>1, <2>2, AmqpGoesOn DEF Still, hub, LeftTo
<1>3. ASSUME NEW e \in Events, HubStep(e)
      PROVE  Still(w)
  BY <1>3, HubGoesOn DEF StepOf
<1>4. ASSUME NEW c \in Conns, Break(c)
      PROVE  Still(w)
  BY <1>4 DEF Break, Still, hub, LeftTo
<1>5. ASSUME NEW t \in Tabs, Join(t) \/ Stall(t) \/ ReadLoopEnds(t)
      PROVE  Still(w)
  BY <1>5 DEF Join, Stall, ReadLoopEnds, Still, amqp, LeftTo
<1>6. ASSUME NEW e \in Events, NEW u \in Urls, PostStep(e, u)
      PROVE  Still(w)
  BY <1>6 DEF PostStep, PostReturns, Awake, Still, amqp, hub, LeftTo
<1>7. CASE UNCHANGED vars
  BY <1>7 DEF vars, Still, amqp, hub, LeftTo
<1> QED
  BY <1>1, <1>2, <1>3, <1>4, <1>5, <1>6, <1>7 DEF Next

\* What an event is due stays as it is while its goroutines, its writes and the
\* start of its posts do.
Untouched(e) ==
    /\ type'[e] = type[e]
    /\ pc'[OfInstance(e)] = pc[OfInstance(e)]
    /\ pc'[<<e, "global">>] = "none" <=> pc[<<e, "global">>] = "none"
    /\ targets'[e] = targets[e]
    /\ \A t \in Tabs : <<e, t>> \in writing' => <<e, t>> \in writing
    /\ \A u \in Urls : post'[<<e, u>>].at = "none" <=> post[<<e, u>>].at = "none"

LEMMA CourseFrame ==
    ASSUME NEW e \in Events, CourseOf(e), PostedOf(e), Untouched(e)
    PROVE  CourseOf(e)' /\ PostedOf(e)'
<1>1. (CanBeWanted(e)' <=> CanBeWanted(e)) /\ (CanBeUnwanted(e)' <=> CanBeUnwanted(e))
  BY DEF CanBeWanted, CanBeUnwanted, Untouched
<1>2. CourseOf(e)'
  BY <1>1 DEF CourseOf, Untouched
<1>3. PostedOf(e)'
  BY <1>1 DEF PostedOf, Untouched, Postable
<1> QED
  BY <1>2, <1>3

LEMMA CourseKept ==
    TypeOK /\ TriesLeft /\ Course /\ PostedExactly /\ [Next]_vars
        => Course' /\ PostedExactly'
<1> SUFFICES ASSUME TypeOK, TriesLeft, Course, PostedExactly, [Next]_vars, NEW e \in Events
             PROVE  CourseOf(e)' /\ PostedOf(e)'
  BY DEF Course, PostedExactly
<1> DEFINE w == OfInstance(e)
           g == <<e, "global">>
<1>0. /\ w \in Workers /\ g \in Workers /\ w # g
      /\ CourseOf(e) /\ PostedOf(e)
      /\ \A f \in Events : OfInstance(f) = w => f = e
      /\ \A f \in Events : OfInstance(f) # g
  BY DEF OfInstance, Workers, Course, PostedExactly
<1>1. ASSUME NEW f \in Events, Emit(f)
      PROVE  CourseOf(e)' /\ PostedOf(e)'
  <2>1. UNCHANGED <<post, targets, writing>>
    BY <1>1 DEF Emit, hub
  <2>2. CASE f # e
    <3>1. type'[e] = type[e] /\ pc'[w] = pc[w] /\ pc'[g] = pc[g]
      BY <1>0, <1>1, <2>2 DEF Emit, TypeOK, OfInstance
    <3>2. Untouched(e)
      BY <2>1, <3>1 DEF Untouched
    <3> QED
      BY <1>0, <3>2, CourseFrame
  <2>3. CASE f = e
    <3>1. PICK t \in Emitted[e], chat \in Chats :
              /\ type' = [type EXCEPT ![e] = t]
              /\ pc' = [pc EXCEPT
                     ![OfInstance(e)] =
                         IF Wanted(t, chat, Subscribed[e]) THEN FirstChannel(e)
                         ELSE "end",
                     ![<<e, "global">>] =
                         IF GlobalAmqp(t, SpecificEvents, GlobalGroups)
                         THEN "ensure" ELSE "end"]
      BY <1>1, <2>3 DEF Emit
    <3>2. /\ type'[e] = t
          /\ pc'[w] = IF Wanted(t, chat, Subscribed[e]) THEN FirstChannel(e) ELSE "end"
          /\ pc'[g] \in {"ensure", "end"}
      BY <1>0, <3>1 DEF TypeOK
    <3>3. /\ pc[w] = "none"
          /\ \A u \in Urls : post'[<<e, u>>].at = "none"
          /\ \A s \in Tabs : <<e, s>> \notin writing'
      BY <1>0, <1>1, <2>1, <2>3 DEF Emit, PostedOf, CourseOf
    <3>4. /\ FirstChannel(e) \in {"ensure", "snapshot", "webhook", "end"}
          /\ FirstChannel(e) = "webhook" => "webhook" \in Enabled[e]
          /\ FirstChannel(e) = "end" => "webhook" \notin Enabled[e]
      BY DEF FirstChannel, AfterRabbit, WebhookOrEnd
    <3>5. CASE Wanted(t, chat, Subscribed[e])
      <4>1. CanBeWanted(e)'
        BY <3>2, <3>5 DEF CanBeWanted
      <4> QED
        BY <3>2, <3>3, <3>4, <3>5, <4>1 DEF CourseOf, PostedOf
    <3>6. CASE ~Wanted(t, chat, Subscribed[e])
      <4>1. CanBeUnwanted(e)'
        BY <3>2, <3>6 DEF CanBeUnwanted
      <4> QED
        BY <3>2, <3>3, <3>6, <4>1 DEF CourseOf, PostedOf
    <3> QED
      BY <3>5, <3>6
  <2> QED
    BY <2>2, <2>3
<1>2. ASSUME NEW v \in Workers, AmqpStep(v)
      PROVE  CourseOf(e)' /\ PostedOf(e)'
  <2>1. UNCHANGED <<type, post, targets, writing>> /\ pc[v] \in AmqpPlaces
    BY <1>2, AmqpPlacesOfStep DEF hub
  <2>2. /\ \A x \in Workers \ {v} : pc'[x] = pc[x]
        /\ pc'[v] # "none" /\ pc[v] # "none"
    BY <1>2, <2>1, AmqpGoesOn DEF AmqpPlaces
  <2>3. CASE v # w
    <3>1. Untouched(e)
      BY <1>0, <2>1, <2>2, <2>3 DEF Untouched
    <3> QED
      BY <1>0, <3>1, CourseFrame
  <2>4. CASE v = w
    <3>1. /\ pc'[w] = "webhook" => "webhook" \in Enabled[e]
          /\ pc'[w] = "end" => "webhook" \notin Enabled[e]
      BY <1>2, <2>4, AmqpGoesOn
    <3>2. CanBeWanted(e) /\ (CanBeWanted(e)' <=> CanBeWanted(e))
      BY <1>0, <2>1, <2>4 DEF CourseOf, AmqpPlaces, CanBeWanted
    <3>3. \A t \in Tabs : <<e, t>> \notin writing
      BY <1>0, <2>1, <2>4 DEF CourseOf, AmqpPlaces
    <3>4. \A u \in Urls : post[<<e, u>>].at = "none"
      BY <1>0, <2>1, <2>4 DEF PostedOf, AmqpPlaces
    <3>5. pc'[g] # "none"
      BY <1>0, <2>2, <2>4 DEF CourseOf
    <3> QED
      BY <2>1, <2>2, <2>4, <3>1, <3>2, <3>3, <3>4, <3>5 DEF CourseOf, PostedOf
  <2> QED
    BY <2>3, <2>4
<1>3. ASSUME NEW f \in Events \ {e}, HubStep(f)
      PROVE  CourseOf(e)' /\ PostedOf(e)'
  <2>1. pc'[w] = pc[w] /\ pc'[g] = pc[g] /\ targets'[e] = targets[e]
    <3>1. Still(w) /\ Still(g)
      BY <1>0, <1>3, HubGoesOn
    <3> QED
      BY <3>1 DEF Still, LeftTo, OfInstance
  <2>2. /\ type' = type
        /\ \A t \in Tabs : <<e, t>> \in writing' => <<e, t>> \in writing
    BY <1>3 DEF HubStep, Snapshot, Prune, StartPosts, BeginWrite, EndWrite, hub
  <2>3. \A u \in Urls : post'[<<e, u>>] = post[<<e, u>>]
    BY <1>3 DEF HubStep, Snapshot, Prune, StartPosts, BeginWrite, EndWrite
  <2>4. Untouched(e)
    BY <2>1, <2>2, <2>3 DEF Untouched
  <2> QED
    BY <1>0, <2>4, CourseFrame
<1>4. CASE HubStep(e)
  <2>1. type' = type /\ (CanBeWanted(e)' <=> CanBeWanted(e))
    BY <1>4 DEF HubStep, Snapshot, Prune, StartPosts, BeginWrite, EndWrite, CanBeWanted
  <2>2. pc[w] \notin {"none", "end"} /\ CanBeWanted(e)
    BY <1>0, <1>4 DEF HubStep, Snapshot, Prune, StartPosts, BeginWrite, EndWrite, CourseOf
  <2>3. /\ \A u \in Urls : post[<<e, u>>].at = "none"
        /\ pc[g] # "none"
    BY <1>0, <2>2 DEF PostedOf, CourseOf
  <2>4. pc'[g] = pc[g]
    BY <1>0, <1>4, HubGoesOn DEF Still
  <2>5. ASSUME NEW p \in PC, Goto(w, p)
        PROVE  pc'[w] = p
    BY <1>0, <2>5 DEF Goto, TypeOK
  <2>6. CASE Snapshot(e) \/ Prune(e)
    <3>1. post' = post /\ writing' = writing /\ pc[w] # "writing"
      BY <2>6 DEF Snapshot, Prune
    <3>2. \/ pc'[w] = "write"
          \/ pc'[w] = "webhook" /\ "webhook" \in Enabled[e]
          \/ pc'[w] = "end" /\ "webhook" \notin Enabled[e]
      BY <2>5, <2>6 DEF Snapshot, Prune, WebhookOrEnd, PC
    <3>3. \A t \in Tabs : <<e, t>> \notin writing'
      BY <1>0, <3>1 DEF CourseOf
    <3> QED
      BY <2>1, <2>2, <2>3, <2>4, <3>1, <3>2, <3>3 DEF CourseOf, PostedOf
  <2>7. CASE StartPosts(e)
    <3>1. pc[w] = "webhook" /\ pc'[w] = "end" /\ writing' = writing
      BY <2>5, <2>7 DEF StartPosts, hub, PC
    <3>2. "webhook" \in Enabled[e] /\ \A t \in Tabs : <<e, t>> \notin writing'
      BY <1>0, <3>1 DEF CourseOf
    <3>3. IF Postable(type[e]) THEN \A u \in Urls : post'[<<e, u>>].at # "none"
          ELSE \A u \in Urls : post'[<<e, u>>] = post[<<e, u>>]
      BY <2>7 DEF StartPosts
    <3>4. Postable(type[e])' <=> Postable(type[e])
      BY <2>1 DEF Postable
    <3> QED
      BY <2>1, <2>2, <2>3, <2>4, <3>1, <3>2, <3>3, <3>4 DEF CourseOf, PostedOf
  <2>8. ASSUME NEW t \in Tabs, BeginWrite(e, t)
        PROVE  CourseOf(e)' /\ PostedOf(e)'
    <3>1. /\ pc[w] = "write" /\ pc'[w] = "writing"
          /\ t \in targets[e] /\ targets' = targets /\ post' = post
          /\ writing' = writing \cup {<<e, t>>}
      BY <2>5, <2>8 DEF BeginWrite, PC
    <3>2. \A s \in Tabs : <<e, s>> \in writing' => s = t
      BY <1>0, <3>1 DEF CourseOf
    <3> QED
      BY <2>1, <2>2, <2>3, <2>4, <3>1, <3>2 DEF CourseOf, PostedOf
  <2>9. ASSUME NEW t \in Tabs, EndWrite(e, t)
        PROVE  CourseOf(e)' /\ PostedOf(e)'
    <3>1. /\ pc[w] = "writing" /\ pc'[w] = "write" /\ post' = post
          /\ <<e, t>> \in writing /\ writing' = writing \ {<<e, t>>}
      BY <1>0, <2>5, <2>9 DEF EndWrite, PC, CourseOf
    <3>2. \A s \in Tabs : <<e, s>> \notin writing'
      BY <1>0, <3>1 DEF CourseOf
    <3> QED
      BY <2>1, <2>2, <2>3, <2>4, <3>1, <3>2 DEF CourseOf, PostedOf
  <2> QED
    BY <1>4, <2>6, <2>7, <2>8, <2>9 DEF HubStep
<1>5. ASSUME NEW c \in Conns, Break(c)
      PROVE  CourseOf(e)' /\ PostedOf(e)'
  <2>1. Untouched(e)
    BY <1>5 DEF Break, hub, Untouched
  <2> QED
    BY <1>0, <2>1, CourseFrame
<1>6. ASSUME NEW t \in Tabs, Join(t) \/ Stall(t) \/ ReadLoopEnds(t)
      PROVE  CourseOf(e)' /\ PostedOf(e)'
  <2>1. Untouched(e)
    BY <1>6 DEF Join, Stall, ReadLoopEnds, Untouched
  <2> QED
    BY <1>0, <2>1, CourseFrame
<1>7. ASSUME NEW f \in Events, NEW u \in Urls, PostStep(f, u)
      PROVE  CourseOf(e)' /\ PostedOf(e)'
  <2>1. /\ UNCHANGED <<type, pc, targets, writing>>
        /\ post[<<f, u>>].at # "none"
        /\ \A p \in (Events \X Urls) \ {<<f, u>>} : post'[p] = post[p]
    BY <1>7 DEF PostStep, PostReturns, Awake, hub, TypeOK
  <2>2. post'[<<f, u>>].at # "none"
    <3>1. <<f, u>> \in DOMAIN post /\ "at" \in DOMAIN post[<<f, u>>]
      BY DEF TypeOK
    <3>2. CASE PostReturns(f, u)
      BY <3>1, <3>2 DEF PostReturns
    <3>3. CASE Awake(f, u)
      BY <3>1, <3>3 DEF Awake
    <3> QED
      BY <1>7, <3>2, <3>3 DEF PostStep
  <2>3. \A x \in Urls : post'[<<e, x>>].at = "none" <=> post[<<e, x>>].at = "none"
    BY <2>1, <2>2
  <2>4. Untouched(e)
    BY <2>1, <2>3 DEF Untouched
  <2> QED
    BY <1>0, <2>4, CourseFrame
<1>8. CASE UNCHANGED vars
  <2>1. Untouched(e)
    BY <1>8 DEF vars, hub, Untouched
  <2> QED
    BY <1>0, <2>1, CourseFrame
<1> QED
  BY <1>1, <1>2, <1>3, <1>4, <1>5, <1>6, <1>7, <1>8 DEF Next

\* The course of every event is inductive with the types and the attempts.
THEOREM CourseInductive == Spec => [](TypeOK /\ TriesLeft /\ Course /\ PostedExactly)
<1>1. Init => Course /\ PostedExactly
  BY DEF Init, Course, CourseOf, PostedExactly, PostedOf, Workers, OfInstance
<1> QED
  BY <1>1, InitEstablishes, TypesKept, CourseKept, PTL DEF Spec

\* A webhook is called only for an event the instance subscribed, while its
\* webhook is configured and never for a status event; and no such event is
\* done with before each address has its goroutine, whatever became of the
\* broker and of the tabs: only a panic of the AMQP producer skips it
\* (sendToQueueOrWebhook, whatsmeow.go; webhookProducer.Produce).
THEOREM PostedExactlyAlways == Spec => []PostedExactly
BY CourseInductive, PTL

\* Each step of a goroutine of an event takes it further: an attempt less, a
\* later step, a dial less or a tab less to write to; and nothing another does
\* takes it back. With finitely many tabs no event goes round for ever
\* (publishWithRetry, reconnect, websocketProducer.Produce).
THEOREM DeliveryAlwaysGoesOn == Spec => [][DeliveryGoesOn]_vars
<1>1. TypeOK /\ TriesLeft /\ Course /\ [Next]_vars => [DeliveryGoesOn]_vars
  <2> SUFFICES ASSUME TypeOK, TriesLeft, Course, [Next]_vars, NEW w \in Workers
               PROVE  IF StepOf(w) THEN Further(w) ELSE pc[w] # "none" => Still(w)
    BY DEF DeliveryGoesOn
  <2> QED
    BY AmqpGoesOn, HubGoesOn, OthersStayStill DEF StepOf
<1> QED
  BY <1>1, CourseInductive, PTL DEF Spec

\* The goroutine of an address goes one way through its attempts: none is
\* forgotten, repeated without being counted or started again, and what became
\* of it stays (sendWebhookWithRetry).
THEOREM PostsAlwaysGoOn == Spec => [][PostsGoOn]_vars
<1>1. TypeOK /\ Course /\ PostedExactly /\ [Next]_vars => [PostsGoOn]_vars
  <2> SUFFICES ASSUME TypeOK, Course, PostedExactly, [Next]_vars,
                      NEW e \in Events, NEW u \in Urls, post[<<e, u>>].at # "none"
               PROVE  post'[<<e, u>>] = post[<<e, u>>] \/ PostFurther(<<e, u>>)
    BY DEF PostsGoOn
  <2>1. ASSUME NEW f \in Events, HubStep(f)
        PROVE  post'[<<e, u>>] = post[<<e, u>>]
    <3>1. pc[OfInstance(e)] = "end"
      BY DEF PostedExactly, PostedOf
    <3> QED
      BY <2>1, <3>1 DEF HubStep, Snapshot, Prune, StartPosts, BeginWrite, EndWrite
  <2>2. ASSUME NEW f \in Events, NEW x \in Urls, PostStep(f, x)
        PROVE  post'[<<e, u>>] = post[<<e, u>>] \/ PostFurther(<<e, u>>)
    <3>1. CASE <<f, x>> # <<e, u>>
      BY <2>2, <3>1 DEF PostStep, PostReturns, Awake, TypeOK
    <3>2. CASE <<f, x>> = <<e, u>>
      <4> DEFINE old == post[<<e, u>>]
      <4>1. old \in [at : PostState, tries : 0 .. PostTries]
        BY DEF TypeOK
      <4>2. CASE PostReturns(e, u)
        <5>1. [old EXCEPT !.at = "ok"] = [at |-> "ok", tries |-> old.tries]
          BY <4>1
        <5> QED
          BY <4>2, <5>1 DEF PostReturns, PostFurther, TypeOK
      <4>3. CASE Awake(e, u)
        <5>1. \A s : [old EXCEPT !.at = s] = [at |-> s, tries |-> old.tries]
          BY <4>1
        <5>2. old.at = "sleeping" /\ \E s \in {"posting", "gaveUp"} :
                  post'[<<e, u>>] = [old EXCEPT !.at = s]
          BY <4>3 DEF Awake, TypeOK
        <5> QED
          BY <5>1, <5>2 DEF PostFurther
      <4> QED
        BY <2>2, <3>2, <4>2, <4>3 DEF PostStep
    <3> QED
      BY <3>1, <3>2
  <2>3. CASE \/ \E f \in Events : Emit(f)
             \/ \E w \in Workers : AmqpStep(w)
             \/ \E c \in Conns : Break(c)
             \/ \E t \in Tabs : Join(t) \/ Stall(t) \/ ReadLoopEnds(t)
             \/ UNCHANGED vars
    BY <2>3, AmqpPlacesOfStep DEF Emit, Break, Join, Stall, ReadLoopEnds, vars
  <2> QED
    BY <2>1, <2>2, <2>3 DEF Next
<1> QED
  BY <1>1, CourseInductive, PTL DEF Spec
=============================================================================
