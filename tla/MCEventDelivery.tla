-------------------------- MODULE MCEventDelivery --------------------------
(* TLC instance of EventDelivery: a message that was sent and one that was  *)
(* received, each for its instance.                                         *)
EXTENDS EventDelivery

CONSTANTS e1, e2, t1, t2, url, slow

SentAndReceived ==
    [e \in Events |-> IF e = e1 THEN {"SendMessage"} ELSE {"Message"}]
All == [e \in Events |-> {"ALL"}]
OneOfEach == [e \in Events |-> IF e = e1 THEN Channels ELSE {"websocket"}]
=============================================================================
