-------------------------- MODULE MessageReceipts --------------------------
(***************************************************************************)
(* The progress of the messages one instance sent: the Receipt handler of  *)
(* pkg/whatsmeow/service/whatsmeow.go, the goroutine that records each     *)
(* state, and the upsert of pkg/receipt/repository.                        *)
(*                                                                         *)
(* Receipts arrive in any order, more than once and in batches; each is    *)
(* recorded by a goroutine of its own, so the writes are reordered again.  *)
(* The row of a message keeps one date per state and the upsert takes the  *)
(* earliest (LEAST), which makes the writes commute.                       *)
(*                                                                         *)
(* The old "messages" table (DATABASE_SAVE_MESSAGES, off by default) and   *)
(* the chat column, which never changes once set, are left out.            *)
(***************************************************************************)
EXTENDS Naturals, FiniteSets

CONSTANTS
    Messages,       \* ids of the messages sent by this instance
    GroupMessages,  \* those sent to a group
    Receipts,       \* the types of receipt the phones send for each message
    IgnoreGroups,   \* IgnoreGroups or EVENT_IGNORE_GROUP
    MaxTime,        \* bound: timestamps are 1 .. MaxTime
    MaxWriters      \* bound: recording goroutines alive at a time

Null == 0
Times == 1 .. MaxTime
States == {"sent", "delivered", "read", "played"}
Columns == States  \* sent_at, delivered_at, read_at, played_at

\* The types of receipt classifyReceipt knows, named by their webhookState;
\* the others (retry, sender, server-error) leave the handler at once.
Types == {"Delivered", "Read", "ReadSelf", "Played", "PlayedSelf"}

ASSUME ConstantsAssumption ==
    /\ GroupMessages \subseteq Messages
    /\ Receipts \in [Messages -> SUBSET Types]
    /\ IgnoreGroups \in BOOLEAN
    /\ MaxTime \in Nat
    /\ MaxWriters \in Nat

VARIABLES
    row,        \* message_receipts: the date of each column, Null when unset;
                \* a row with no date is a row that is not there
    stale,      \* messages whose row has not changed for the retention period
    processed,  \* cache of receipts already handled: <<message, webhookState>>
    pending,    \* goroutines of RecordReceipt: [ids, state, at]
    written     \* history: <<message, state, at>> recorded since the row exists

receiptsVars == <<row, stale, processed, pending, written>>

Keys == Messages \X Types
Writers == [ids : SUBSET Messages, state : States, at : Times]
NoDates == [c \in Columns |-> Null]

ReceiptsTypeOK ==
    /\ row \in [Messages -> [Columns -> 0 .. MaxTime]]
    /\ stale \subseteq Messages
    /\ processed \subseteq Keys
    /\ pending \subseteq Writers
    /\ written \subseteq Messages \X States \X Times

ReceiptsInit ==
    /\ row = [m \in Messages |-> NoDates]
    /\ stale = {}
    /\ processed = {}
    /\ pending = {}
    /\ written = {}

-----------------------------------------------------------------------------
\* The state a receipt records; the Self receipts, of another device of the
\* same account, record none.
RecordState ==
    [t \in Types |-> CASE t = "Delivered" -> {"delivered"}
                       [] t = "Read" -> {"read"}
                       [] t = "Played" -> {"played"}
                       [] OTHER -> {}]

\* Mutant of Sets: read and played set their own date only.
SetsOwn(state) == {state}

\* The dates Apply sets: read and played imply delivered.
Sets(state) ==
    IF state \in {"read", "played"} THEN {state, "delivered"} ELSE {state}

\* Mutant of Least: the column takes EXCLUDED, the new value, NULL included.
TakeExcluded(old, new) == new

\* Mutant of Least: the column takes the new value when there is one.
TakeLatest(old, new) == IF new # Null THEN new ELSE old

\* LEAST of Postgres ignores NULL.
Least(old, new) ==
    IF old # Null /\ (new = Null \/ old <= new) THEN old ELSE new

Exists(m) == \E c \in Columns : row[m][c] # Null

\* RecordReceipt: groups are left out, the rest gets a goroutine.
RecordReceipt(ids, state, at) ==
    IF ids \cap GroupMessages # {}
    THEN UNCHANGED pending
    ELSE /\ Cardinality(pending) < MaxWriters
         /\ pending' = pending \cup {[ids |-> ids, state |-> state, at |-> at]}

\* case *events.Receipt. A receipt is of one chat; fromMe is a receipt sent by
\* another device of the account.
HandleReceipt(t, ids, fromMe, at) ==
    LET fresh == {m \in ids : <<m, t>> \notin processed} IN
    /\ ids # {}
    /\ \A m \in ids : t \in Receipts[m]
    /\ ids \subseteq GroupMessages \/ ids \cap GroupMessages = {}
    /\ ~(ids \subseteq GroupMessages /\ IgnoreGroups)
    /\ fresh # {}
    /\ processed' = processed \cup (fresh \X {t})
    /\ \/ /\ RecordState[t] = {} \/ fromMe
          /\ UNCHANGED pending
       \/ /\ ~fromMe
          /\ \E s \in RecordState[t] : RecordReceipt(fresh, s, at)
    /\ UNCHANGED <<row, stale, written>>

\* Mutant of RecordMessageSent: a zero timestamp is recorded as it is.
RecordSentWithoutDate(m, at) ==
    /\ RecordReceipt({m}, "sent", Null)
    /\ UNCHANGED <<row, stale, processed, written>>

\* RecordMessageSent, called by SendMessage once WhatsApp took the message.
RecordMessageSent(m, at) ==
    /\ RecordReceipt({m}, "sent", at)
    /\ UNCHANGED <<row, stale, processed, written>>

\* A goroutine writes its rows: one INSERT ... ON CONFLICT for the batch.
Record(w) ==
    /\ pending' = pending \ {w}
    /\ row' = [m \in Messages |->
                  IF m \in w.ids
                  THEN [c \in Columns |->
                           Least(row[m][c],
                                 IF c \in Sets(w.state) THEN w.at ELSE Null)]
                  ELSE row[m]]
    /\ stale' = stale \ w.ids
    /\ written' = written \cup (w.ids \X {w.state} \X {w.at})
    /\ UNCHANGED processed

\* The write fails; the error is logged and the state is lost.
RecordFails(w) ==
    /\ pending' = pending \ {w}
    /\ UNCHANGED <<row, stale, processed, written>>

\* A key of the cache reaches its 30 minutes.
Expire(k) ==
    /\ processed' = processed \ {k}
    /\ UNCHANGED <<row, stale, pending, written>>

\* The process ends and starts again: cache and goroutines are lost.
Restart ==
    /\ processed' = {}
    /\ pending' = {}
    /\ UNCHANGED <<row, stale, written>>

\* The retention period passes without a write to the row of m.
Age(m) ==
    /\ Exists(m)
    /\ stale' = stale \cup {m}
    /\ UNCHANGED <<row, processed, pending, written>>

\* cleanupReceipts, at boot and every 6 hours.
Cleanup ==
    /\ row' = [m \in Messages |-> IF m \in stale THEN NoDates ELSE row[m]]
    /\ written' = {e \in written : e[1] \notin stale}
    /\ stale' = {}
    /\ UNCHANGED <<processed, pending>>

ReceiptsNext ==
    \/ \E t \in Types, ids \in SUBSET Messages, fromMe \in BOOLEAN, at \in Times :
           HandleReceipt(t, ids, fromMe, at)
    \/ \E m \in Messages, at \in Times : RecordMessageSent(m, at)
    \/ \E w \in pending : Record(w) \/ RecordFails(w)
    \/ \E k \in processed : Expire(k)
    \/ Restart
    \/ \E m \in Messages : Age(m)
    \/ Cleanup

ReceiptsSpec == ReceiptsInit /\ [][ReceiptsNext]_receiptsVars

-----------------------------------------------------------------------------
\* Status: the most advanced state with a date, as a rank.
Status(r) ==
    IF r["played"] # Null THEN 4
    ELSE IF r["read"] # Null THEN 3
    ELSE IF r["delivered"] # Null THEN 2
    ELSE IF r["sent"] # Null THEN 1
    ELSE 0

\* The dates at which column c of message m was seen.
Seen(m, c) == {at \in Times : \E s \in States :
                                  c \in Sets(s) /\ <<m, s, at>> \in written}

\* Whatever the order, the repetitions and the batches of the writes, each date
\* is that of the first occurrence of its state, and is unset only when there
\* was none (receipt_repository.go:12-13, CHANGELOG-FORK.md:62).
RowIsEarliest ==
    \A m \in Messages, c \in Columns :
        IF Seen(m, c) = {}
        THEN row[m][c] = Null
        ELSE /\ row[m][c] \in Seen(m, c)
             /\ \A at \in Seen(m, c) : row[m][c] <= at

\* A message that was read is delivered, and not later than it was read or
\* played, also when the receipt of delivery was lost or came last
\* (receipt_model.go:49-50).
DeliveredByThen ==
    \A m \in Messages, c \in {"read", "played"} :
        row[m][c] # Null => /\ row[m]["delivered"] # Null
                            /\ row[m]["delivered"] <= row[m][c]

\* While the row of a message is kept its status does not go back, from read to
\* delivered say (receipt_model.go:12-14).
StatusNeverGoesBack ==
    [][\A m \in Messages :
           row'[m] # NoDates => Status(row'[m]) >= Status(row[m])]_receiptsVars

\* While the row is kept no date is erased or made later, so two answers of
\* POST /message/receipts never disagree on the first occurrence except for an
\* earlier one that arrived late (receipt_repository.go:13).
DatesOnlyEarlier ==
    [][\A m \in Messages, c \in Columns :
           row[m][c] # Null /\ row'[m] # NoDates
               => row'[m][c] \in 1 .. row[m][c]]_receiptsVars
=============================================================================
