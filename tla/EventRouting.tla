---------------------------- MODULE EventRouting ----------------------------
(***************************************************************************)
(* Which events an instance and the global queues receive: the switch of   *)
(* CallWebhook and globalEventGroup, two tables in two files that must say *)
(* the same. The chat of an event is reduced to its kind.                  *)
(***************************************************************************)
Subscriptions ==
    {"MESSAGE", "SEND_MESSAGE", "READ_RECEIPT", "PRESENCE", "HISTORY_SYNC",
     "CHAT_PRESENCE", "CALL", "CONNECTION", "LABEL", "CONTACT", "GROUP",
     "NEWSLETTER", "QRCODE", "BUTTON_CLICK", "PICTURE", "USER_ABOUT"}

Chats == {"individual", "group", "newsletter"}

CallEvents ==
    {"CallOffer", "CallAccept", "CallTerminate", "CallOfferNotice",
     "CallRelayLatency"}
LabelEvents ==
    {"LabelEdit", "LabelAssociationChat", "LabelAssociationMessage"}
ConnectionEvents ==
    {"Connected", "PairSuccess", "TemporaryBan", "LoggedOut", "ConnectFailure",
     "Disconnected", "KeepAliveTimeout", "KeepAliveRestored",
     "OfflineSyncCompleted", "StreamReplaced", "ClientOutdated"}
QRCodeEvents ==
    {"QRCode", "QRTimeout", "QRSuccess", "PairError", "PasskeyRequest",
     "PasskeyConfirmation", "PasskeyError"}
ChatEvents == {"Message", "SendMessage", "Receipt"}

\* Alerts, sent by SendOperationalEvent.
OperationalEvents == {"TypebotAutoPaused"}

EventTypes ==
    CallEvents \cup LabelEvents \cup ConnectionEvents \cup QRCodeEvents
    \cup ChatEvents
    \cup {"Presence", "HistorySync", "ChatPresence", "Archive", "Contact",
          "PushName", "Picture", "UserAbout", "GroupInfo", "JoinedGroup",
          "NewsletterJoin", "NewsletterLeave", "ButtonClick", "SendStatus"}
    \cup OperationalEvents

\* The switch of CallWebhook: the events each subscription lets through.
Delivers ==
    [MESSAGE       |-> {"Message", "ButtonClick"},
     SEND_MESSAGE  |-> {"SendMessage", "SendStatus"},
     READ_RECEIPT  |-> {"Receipt"},
     PRESENCE      |-> {"Presence"},
     HISTORY_SYNC  |-> {"HistorySync"},
     CHAT_PRESENCE |-> {"ChatPresence", "Archive"},
     CALL          |-> CallEvents,
     CONNECTION    |-> ConnectionEvents,
     LABEL         |-> LabelEvents,
     CONTACT       |-> {"Contact", "PushName"},
     GROUP         |-> {"GroupInfo", "JoinedGroup"},
     NEWSLETTER    |-> {"NewsletterJoin", "NewsletterLeave"},
     QRCODE        |-> QRCodeEvents,
     BUTTON_CLICK  |-> {"ButtonClick"},
     PICTURE       |-> {"Picture"},
     USER_ABOUT    |-> {"UserAbout"}]

\* An event of a chat also goes to those who subscribed the kind of its chat.
OfChat(type, chat) ==
    {s \in {"GROUP", "NEWSLETTER"} :
        /\ type \in ChatEvents
        /\ \/ s = "GROUP" /\ chat = "group"
           \/ s = "NEWSLETTER" /\ chat = "newsletter"}

Subscribers(type, chat) ==
    {s \in Subscriptions : type \in Delivers[s]} \cup OfChat(type, chat)

\* An event outside the switch reaches only those who subscribed ALL; an alert
\* needs no subscription.
Wanted(type, chat, subscribed) ==
    \/ type \in OperationalEvents
    \/ "ALL" \in subscribed
    \/ Subscribers(type, chat) \cap subscribed # {}

\* globalEventGroup: the events of each group of the global queues.
Group ==
    [MESSAGE       |-> {"Message"},
     SEND_MESSAGE  |-> {"SendMessage", "SendStatus"},
     READ_RECEIPT  |-> {"Receipt"},
     PRESENCE      |-> {"Presence"},
     HISTORY_SYNC  |-> {"HistorySync"},
     CHAT_PRESENCE |-> {"ChatPresence", "Archive"},
     CALL          |-> CallEvents,
     CONNECTION    |-> ConnectionEvents,
     LABEL         |-> LabelEvents,
     CONTACT       |-> {"Contact", "PushName"},
     GROUP         |-> {"GroupInfo", "JoinedGroup"},
     NEWSLETTER    |-> {"NewsletterJoin", "NewsletterLeave"},
     QRCODE        |-> QRCodeEvents,
     BUTTON_CLICK  |-> {"ButtonClick"},
     PICTURE       |-> {"Picture"},
     USER_ABOUT    |-> {"UserAbout"}]

\* SendToGlobalQueues: AMQP_SPECIFIC_EVENTS, when there is one, replaces
\* AMQP_GLOBAL_EVENTS. Alerts do not go there.
GlobalAmqp(type, specific, groups) ==
    /\ type \notin OperationalEvents
    /\ IF specific # {}
       THEN type \in specific
       ELSE \E g \in groups : type \in Group[g]
=============================================================================
