------------------------------- MODULE Typebot -------------------------------
(***************************************************************************)
(* The conversation of one contact with the bot of an instance.            *)
(*                                                                         *)
(* Each message of the contact, and each one the instance itself sends to  *)
(* him, is processed by a goroutine of its own: it reads the bot and the   *)
(* session of the contact, asks the Typebot, sends what that answers, and  *)
(* saves the session whole.  Meanwhile the operator changes sessions and   *)
(* bots through the API.                                                   *)
(***************************************************************************)
EXTENDS Naturals, FiniteSets

CONSTANTS Workers,      \* goroutines there may be at once
          MaxSessions,  \* sessions there may be, one after the other; each has a flow of its own
          Limit,        \* TYPEBOT_CONTACT_RATE_LIMIT; 0 is no limit
          MaxMessages,  \* messages of the contact or to him
          MaxEdits      \* what the operator does

ASSUME TypebotAssumption ==
  Limit \in Nat /\ MaxSessions \in Nat /\ MaxMessages \in Nat /\ MaxEdits \in Nat

Sessions == 1..MaxSessions
NoFlow   == 0
None     == "none"

VARIABLES
  bot,        \* the active bot: which it is (none when there is none), its switches
  status,     \* status of each session row, or none
  count,      \* msg_count of each row
  age,        \* the order of updated_at: 0 is the last one, and rows may share it
  used, live, \* how many flows the Typebot has opened, and those it has not ended
  work,       \* what each goroutine is about to do
  messages, edits,
  overlapped, \* two goroutines were at it at once, or a write failed
  rearranged, \* a write of the operator Rearranges the sessions
  held,       \* the contact was paused, and nobody was at it
  answered    \* of each session, the answers to counted messages of its window

table == <<status, count, age>>
flows == <<used, live>>
ghost == <<overlapped, rearranged, held, answered>>
vars  == <<bot, table, flows, work, messages, edits, ghost>>

Statuses == {"opened", "paused", "closed"}
BotSet   == [is : {"active", None}, stopFromMe : BOOLEAN, listensToMe : BOOLEAN]

\* steps of a goroutine that has read the session
InHand == {"closing", "expiring", "pausing", "starting", "creating", "continuing",
           "delivering", "saving"}
WorkSet == [step : InHand \union {"idle", "started", "bot read"},
            fromMe : BOOLEAN, bot : BotSet, id : Sessions \union {NoFlow},
            count : Nat, awaits : BOOLEAN, continued : BOOLEAN]

NoBot == [is |-> None, stopFromMe |-> FALSE, listensToMe |-> FALSE]
Idle  == [step |-> "idle", fromMe |-> FALSE, bot |-> NoBot, id |-> NoFlow, count |-> 0,
          awaits |-> FALSE, continued |-> FALSE]

TypeOK ==
  /\ bot \in BotSet
  /\ status \in [Sessions -> Statuses \union {None}]
  /\ count \in [Sessions -> Nat] /\ age \in [Sessions -> Nat]
  /\ used \in 0..MaxSessions /\ live \subseteq 1..used
  /\ work \in [Workers -> WorkSet]
  /\ \A w \in Workers : work[w].step \in InHand \ {"starting"} => work[w].id \in Sessions
  /\ messages \in 0..MaxMessages /\ edits \in 0..MaxEdits
  /\ overlapped \in BOOLEAN /\ rearranged \in BOOLEAN /\ held \in BOOLEAN
  /\ answered \in [Sessions -> Nat]

Init ==
  /\ bot \in BotSet
  /\ status = [i \in Sessions |-> None] /\ count = [i \in Sessions |-> 0]
  /\ age = [i \in Sessions |-> 0]
  /\ used = 0 /\ live = {} /\ work = [w \in Workers |-> Idle]
  /\ messages = 0 /\ edits = 0
  /\ overlapped = FALSE /\ rearranged = FALSE /\ held = FALSE
  /\ answered = [i \in Sessions |-> 0]

-----------------------------------------------------------------------------
(***************************************************************************)
(* The table.                                                              *)
(***************************************************************************)
Rows == {i \in Sessions : status[i] # None}

\* GetSessionByRemoteJid: the row updated last; among equals, any
Latest == {i \in Rows : \A j \in Rows : age[i] <= age[j]}

\* updated_at of the rows in S is now
Touch(S) ==
  age' = [i \in Sessions |->
            IF i \in S THEN 0 ELSE 1 + Cardinality({age[j] : j \in {k \in Sessions : age[k] < age[i]}})]

\* gorm's Save: every column, and an insert when the row is gone
SaveRow(i, s, n) ==
  /\ status' = [status EXCEPT ![i] = s]
  /\ count' = [count EXCEPT ![i] = n]
  /\ Touch({i})

\* an Update of the status alone
SetStatus(S, s) ==
  /\ status' = [i \in Sessions |-> IF i \in S THEN s ELSE status[i]]
  /\ Touch(S) /\ UNCHANGED count

Busy(w)       == work[w].step \in InHand
OtherBusy(w)  == \E v \in Workers \ {w} : Busy(v)
AnyBusy       == \E w \in Workers : Busy(w)

Goes(w, step) == work' = [work EXCEPT ![w].step = step]
Ends(w)       == work' = [work EXCEPT ![w] = Idle]
-----------------------------------------------------------------------------
(***************************************************************************)
(* ProcessMessage.                                                         *)
(***************************************************************************)
DispatchToTypebot(w) ==
  /\ work[w].step = "idle" /\ messages < MaxMessages
  /\ messages' = messages + 1
  /\ \E fromMe \in BOOLEAN :
       work' = [work EXCEPT ![w].step = "started", ![w].fromMe = fromMe]
  /\ UNCHANGED <<bot, table, flows, edits, ghost>>

\* a number of this server itself is left alone; so is everyone without a bot
ReadBot(w) ==
  /\ work[w].step = "started"
  /\ \/ Ends(w)
     \/ bot.is = "active" /\ work' = [work EXCEPT ![w].step = "bot read", ![w].bot = bot]
  /\ UNCHANGED <<bot, table, flows, messages, edits, ghost>>

\* The read of the session, and all that is decided from it alone: every
\* action of this group reads row i, or finds none.
Reads(w) ==
  /\ work[w].step = "bot read"
  /\ UNCHANGED <<bot, table, flows, messages, edits, rearranged, held>>

\* from here on the goroutine holds what it read
Takes(w, step, i, n) ==
  /\ work' = [work EXCEPT ![w] = [Idle EXCEPT !.step = step, !.id = i, !.count = n]]
  /\ overlapped' = (overlapped \/ OtherBusy(w))

\* the operator wrote to the contact, and the bot stops
StopsFromMe(w, i) ==
  work[w].fromMe /\ work[w].bot.stopFromMe /\ status[i] = "opened"

Listens(w) == work[w].fromMe => work[w].bot.listensToMe

ReadFails(w) ==
  /\ Reads(w) /\ Ends(w) /\ UNCHANGED <<overlapped, answered>>

FindHandedOver(w) ==
  /\ Reads(w)
  /\ \E i \in Latest : StopsFromMe(w, i) /\ Takes(w, "closing", i, count[i])
  /\ UNCHANGED answered

FindNothingToDo(w) ==
  /\ Reads(w)
  /\ \/ ~Listens(w) /\ (Rows = {} \/ \E i \in Latest : ~StopsFromMe(w, i))
     \/ Listens(w) /\ \E i \in Latest : status[i] = "paused"
  /\ Ends(w) /\ UNCHANGED <<overlapped, answered>>

\* Mutant of FindNoSession: a paused session is taken for no session.
FindNoneOpened(w) ==
  /\ Reads(w) /\ Listens(w)
  /\ \A i \in Latest : status[i] # "opened"
  /\ Takes(w, "starting", NoFlow, 0) /\ UNCHANGED answered

\* Mutant of FindNoSession: a closed session is continued.
FindClosedContinued(w) ==
  /\ Reads(w) /\ Listens(w)
  /\ Rows = {} \/ \E i \in Latest : status[i] = "closed"
  /\ Takes(w, "continuing", NoFlow, 0) /\ UNCHANGED answered

FindNoSession(w) ==
  /\ Reads(w) /\ Listens(w)
  /\ Rows = {} \/ \E i \in Latest : status[i] = "closed"
  /\ Takes(w, "starting", NoFlow, 0) /\ UNCHANGED answered

FindExpired(w) ==
  /\ Reads(w) /\ Listens(w)
  /\ \E i \in Latest :
       status[i] = "opened" /\ ~StopsFromMe(w, i) /\ Takes(w, "expiring", i, count[i])
  /\ UNCHANGED answered

(***************************************************************************)
(* withinContactRate: the message is counted in the copy of the session,   *)
(* from 1 when the window of the session is over.  Above the limit the     *)
(* contact is paused; the keyword closes the session.                      *)
(***************************************************************************)
RateOf(n) == IF Limit = 0 THEN {"closing", "continuing"}
             ELSE IF n <= Limit THEN {"closing", "continuing"} ELSE {"pausing"}

CountFrom(i) == IF Limit = 0 THEN {count[i]} ELSE {count[i] + 1, 1}

FindOpened(w) ==
  /\ Reads(w) /\ Listens(w)
  /\ \E i \in Latest : \E n \in CountFrom(i) : \E step \in RateOf(n) :
       /\ status[i] = "opened" /\ ~StopsFromMe(w, i)
       /\ Takes(w, step, i, n)
       /\ answered' = IF n = count[i] + 1 THEN answered ELSE [answered EXCEPT ![i] = 0]

-----------------------------------------------------------------------------
\* what a write that fails leaves: a line in the log
WriteFails == overlapped' = TRUE /\ UNCHANGED <<table, rearranged, held, answered>>

CloseSession(w) ==
  /\ work[w].step = "closing" /\ Ends(w)
  /\ \/ SaveRow(work[w].id, "closed", work[w].count) /\ UNCHANGED ghost
     \/ WriteFails
  /\ UNCHANGED <<bot, flows, messages, edits>>

\* the session is expired, and the message starts a new flow either way
ExpireSession(w) ==
  /\ work[w].step = "expiring"
  /\ work' = [work EXCEPT ![w].step = "starting", ![w].id = NoFlow, ![w].count = 0]
  /\ \/ SaveRow(work[w].id, "closed", work[w].count) /\ UNCHANGED ghost
     \/ WriteFails
  /\ UNCHANGED <<bot, flows, messages, edits>>

\* pauseSession; the alert goes out after the write
PauseSession(w) ==
  /\ work[w].step = "pausing" /\ Ends(w)
  /\ \/ /\ SaveRow(work[w].id, "paused", work[w].count)
        /\ held' = ~OtherBusy(w)
        /\ UNCHANGED <<overlapped, rearranged, answered>>
     \/ WriteFails
  /\ UNCHANGED <<bot, flows, messages, edits>>

\* startChat: the Typebot opens a flow, and answers to the end of it or to a question
StartChat(w) ==
  /\ work[w].step = "starting"
  /\ \/ Ends(w) /\ UNCHANGED flows
     \/ \E awaits \in BOOLEAN :
          /\ used < MaxSessions /\ used' = used + 1
          /\ live' = IF awaits THEN live \union {used'} ELSE live
          /\ work' = [work EXCEPT ![w].step = "creating", ![w].id = used', ![w].awaits = awaits]
  /\ UNCHANGED <<bot, table, messages, edits, ghost>>

CreateSession(w) ==
  /\ work[w].step = "creating"
  /\ \/ SaveRow(work[w].id, "opened", 0) /\ Goes(w, "delivering") /\ UNCHANGED ghost
     \/ Ends(w) /\ WriteFails
  /\ UNCHANGED <<bot, flows, messages, edits>>

\* a failed call is not counted: nothing is saved
ContinueChat(w) ==
  /\ work[w].step = "continuing"
  /\ \/ Ends(w) /\ UNCHANGED flows
     \/ \E awaits \in BOOLEAN :
          /\ live' = (IF awaits THEN live ELSE live \ {work[w].id}) /\ UNCHANGED used
          /\ work' = [work EXCEPT ![w].step = "delivering", ![w].awaits = awaits,
                                  ![w].continued = TRUE]
  /\ UNCHANGED <<bot, table, messages, edits, ghost>>

\* deliver waits for what the flow and the bucket of the instance ask for; a
\* message that is not sent is a line in the log
Deliver(w) ==
  /\ work[w].step = "delivering" /\ Goes(w, "saving")
  /\ answered' = IF work[w].continued THEN [answered EXCEPT ![work[w].id] = @ + 1] ELSE answered
  /\ UNCHANGED <<bot, table, flows, messages, edits, overlapped, rearranged, held>>

\* Mutant of UpdateSession: the end of the flow does not close the session.
UpdateOpened(w) ==
  /\ work[w].step = "saving" /\ Ends(w)
  /\ \/ SaveRow(work[w].id, "opened", work[w].count) /\ UNCHANGED ghost
     \/ WriteFails
  /\ UNCHANGED <<bot, flows, messages, edits>>

UpdateSession(w) ==
  /\ work[w].step = "saving" /\ Ends(w)
  /\ \/ /\ SaveRow(work[w].id, IF work[w].awaits THEN "opened" ELSE "closed", work[w].count)
        /\ UNCHANGED ghost
     \/ WriteFails
  /\ UNCHANGED <<bot, flows, messages, edits>>

-----------------------------------------------------------------------------
(***************************************************************************)
(* The operator.                                                           *)
(***************************************************************************)
Edits == edits < MaxEdits /\ edits' = edits + 1 /\ UNCHANGED <<flows, work, messages, answered>>

\* The write leaves an open session behind another row, opens one whose flow
\* the Typebot has ended, or opens one while a message is in work.
Rearranges(s) ==
  \E i \in Sessions :
    /\ status'[i] = "opened"
    /\ Latest' # {i} \/ (s = "opened" /\ (AnyBusy \/ i \notin live))

\* a pause of the contact, or the end of one
Sets(S, s) ==
  /\ SetStatus(S, s)
  /\ held' = (s = "paused" /\ ~AnyBusy)
  /\ rearranged' = (rearranged \/ Rearranges(s))
  /\ UNCHANGED <<bot, overlapped>>

SetSessionStatus ==
  /\ Edits
  /\ \E i \in Rows, s \in Statuses : Sets({i}, s)

SetSessionStatusByRemoteJid ==
  /\ Edits /\ Rows # {}
  /\ \E s \in Statuses : Sets(Rows, s)

Removes(S) ==
  /\ status' = [i \in Sessions |-> IF i \in S THEN None ELSE status[i]]
  /\ held' = FALSE
  /\ UNCHANGED <<count, age, rearranged>>

DeleteSession ==
  /\ Edits /\ UNCHANGED <<bot, overlapped>>
  /\ \E i \in Rows : Removes({i})

\* the sessions go with the bot, in one transaction
DeleteBot ==
  /\ Edits /\ bot.is = "active"
  /\ bot' = [bot EXCEPT !.is = None]
  /\ Removes(Rows)
  /\ overlapped' = (overlapped \/ \E w \in Workers : work[w].step \notin {"idle", "started"})

SetBot ==
  /\ Edits /\ bot' \in BotSet /\ bot' # bot
  /\ UNCHANGED <<table, overlapped, rearranged, held>>

-----------------------------------------------------------------------------
Works(w) ==
  \/ ReadBot(w) \/ ReadFails(w)
  \/ FindHandedOver(w) \/ FindNothingToDo(w) \/ FindNoSession(w) \/ FindExpired(w) \/ FindOpened(w)
  \/ CloseSession(w) \/ ExpireSession(w) \/ PauseSession(w)
  \/ StartChat(w) \/ CreateSession(w) \/ ContinueChat(w) \/ Deliver(w) \/ UpdateSession(w)

Operator == SetSessionStatus \/ SetSessionStatusByRemoteJid \/ DeleteSession \/ DeleteBot \/ SetBot

Next == Operator \/ \E w \in Workers : DispatchToTypebot(w) \/ Works(w)

Spec == Init /\ [][Next]_vars /\ \A w \in Workers : WF_vars(Works(w))
-----------------------------------------------------------------------------
(***************************************************************************)
(* What a conversation must keep.                                          *)
(***************************************************************************)
\* A pause that found no message of the contact in work holds until the
\* operator ends it: the session in use stays paused, and no goroutine gets
\* as far as asking the Typebot or sending.
PauseHolds == held => ~AnyBusy /\ \A i \in Latest : status[i] = "paused"

\* one session is open, and the flow that is continued is one the Typebot keeps
OneOpened ==
  ~overlapped /\ ~rearranged =>
    \A i, j \in Sessions : status[i] = "opened" /\ status[j] = "opened" => i = j

LiveContinued ==
  ~overlapped /\ ~rearranged =>
    \A w \in Workers : work[w].step = "continuing" => work[w].id \in live

\* the contact gets no more answers than the limit in a window
WithinRate ==
  ~overlapped /\ Limit > 0 => \A i \in Sessions : answered[i] <= Limit

\* While the messages of a contact are processed one after the other and every
\* write succeeds, no session gets more answers in a window than the limit. He
\* also has one open session at most, and no message goes to a flow the Typebot
\* has discarded, as long as no status write of the operator leaves an open
\* session behind another row, opens one of a discarded flow, or opens one
\* while a message is in work; pauses, closings and reopenings beside these,
\* deletions and changes of the bot are allowed at any time. (Nothing in the
\* code keeps two messages apart, or such a write out: each of them breaks the
\* order.)
OneAfterTheOther == OneOpened /\ LiveContinued /\ WithinRate

\* typebot_service.go, pauseSession: a pause is undone by the endpoint of the
\* operator, so that nothing else takes a row out of it.
PauseStands ==
  [][\A i \in Sessions :
       status[i] = "paused" /\ status'[i] # "paused" => edits' # edits]_vars
=============================================================================
