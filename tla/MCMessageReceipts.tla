------------------------- MODULE MCMessageReceipts -------------------------
EXTENDS MessageReceipts

CONSTANTS m1, m2, g1

\* The contact's phone may send every type that records a state, and the phones
\* of the group one type.
OneOfEach ==
    [m \in Messages |-> IF m \in GroupMessages
                        THEN {"Read"}
                        ELSE {"Delivered", "Read", "Played"}]
=============================================================================
