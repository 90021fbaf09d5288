---------------------------- MODULE TypebotProofs ----------------------------
(***************************************************************************)
(* A pause that found nobody at work holds, and the order and the limit of *)
(* a conversation are kept while the messages come one after the other,    *)
(* for any number of goroutines, sessions and messages and any limit.      *)
(*                                                                         *)
(* PauseHolds is not inductive: a contact whose rows were all deleted has  *)
(* no session that could be found open.  The limit is about three places   *)
(* that count: the answers, the row, and the copy a goroutine works with.  *)
(***************************************************************************)
EXTENDS Typebot, TLAPS, FiniteSetTheorems

TableTypeOK ==
  /\ status \in [Sessions -> Statuses \union {None}]
  /\ count \in [Sessions -> Nat] /\ age \in [Sessions -> Nat]

FlowTypeOK == used \in 0..MaxSessions /\ live \subseteq 1..used

\* A session in use, and one a goroutine works with, was opened.
Opened ==
  /\ \A i \in Sessions : status[i] # None => i <= used
  /\ \A w \in Workers : work[w].step \in InHand \ {"starting"} => work[w].id <= used
  /\ \A i \in Sessions : i > used => answered[i] = 0

\* What makes the pause inductive: there is a row to be found.
PauseFound == held => ~AnyBusy /\ Rows # {} /\ \A i \in Latest : status[i] = "paused"

\* Without an overlap one goroutine is at it, its copy counts what was
\* answered, and so does the row once it is saved.
OneAtIt == \A v, w \in Workers : Busy(v) /\ Busy(w) => v = w

FreshCount ==
  \A w \in Workers :
    work[w].step \in {"expiring", "starting", "creating"} =>
      /\ ~work[w].continued
      /\ work[w].step # "expiring" => work[w].count = 0

CopyCounts ==
  \A w \in Workers :
    work[w].step \in InHand \ {"starting"} => answered[work[w].id] <= work[w].count

Answering(w) ==
  work[w].step = "continuing" \/ (work[w].step = "delivering" /\ work[w].continued)

RoomLeft ==
  \A w \in Workers :
    Answering(w) => answered[work[w].id] < work[w].count /\ work[w].count <= Limit

RowCounts ==
  \A i \in Sessions :
    \/ answered[i] <= count[i]
    \/ \E w \in Workers : work[w].step = "saving" /\ work[w].id = i

LimitKept == \A i \in Sessions : answered[i] <= Limit

Counts == OneAtIt /\ CopyCounts /\ RoomLeft /\ RowCounts /\ LimitKept

\* And if the operator did not rearrange the sessions either, an open row is the
\* session in use, it is the one that is in hand, and the Typebot keeps its flow
\* unless the answer that ended it is yet to be saved.
OpenedLatest == \A i \in Sessions : status[i] = "opened" => Latest = {i}

OpenedInHand ==
  \A i \in Sessions : \A w \in Workers :
    status[i] = "opened" /\ Busy(w) =>
      work[w].step \notin {"starting", "creating"} /\ work[w].id = i

FlowKept ==
  \A i \in Sessions :
    status[i] = "opened" =>
      \/ i \in live
      \/ \E w \in Workers :
           work[w].step \in {"delivering", "saving"} /\ work[w].id = i /\ ~work[w].awaits

CopyLive ==
  \A w \in Workers :
    \/ work[w].step = "continuing"
    \/ work[w].step \in {"creating", "delivering", "saving"} /\ work[w].awaits
    => work[w].id \in live

InOrder == OneAtIt /\ OpenedLatest /\ OpenedInHand /\ FlowKept /\ CopyLive

IInv ==
  /\ TypeOK /\ Opened /\ PauseFound /\ FreshCount
  /\ ~overlapped /\ Limit > 0 => Counts
  /\ ~overlapped /\ ~rearranged => InOrder

-----------------------------------------------------------------------------
(***************************************************************************)
(* The table.                                                              *)
(***************************************************************************)
\* Touch gives the rows of S the latest date and puts all others behind them.
LEMMA TouchOrder ==
  ASSUME age \in [Sessions -> Nat], NEW S, Touch(S)
  PROVE  /\ age' \in [Sessions -> Nat]
         /\ \A i \in Sessions : IF i \in S THEN age'[i] = 0 ELSE age'[i] >= 1
<1> DEFINE Younger(i) == {k \in Sessions : age[k] < age[i]}
           Ages(i)    == {age[j] : j \in Younger(i)}
<1>1. IsFiniteSet(Sessions)
  BY TypebotAssumption, FS_Interval DEF Sessions
<1>2. ASSUME NEW i \in Sessions PROVE Cardinality(Ages(i)) \in Nat
  <2> DEFINE f == [j \in Younger(i) |-> age[j]]
  <2>1. IsFiniteSet(Younger(i))
    BY <1>1, FS_Subset
  <2>2. f \in Surjection(Younger(i), Ages(i))
    BY DEF Surjection
  <2>3. IsFiniteSet(Ages(i))
    BY <2>1, <2>2, FS_Surjection
  <2> QED
    BY <2>3, FS_CardinalityType
<1>3. age' = [i \in Sessions |-> IF i \in S THEN 0 ELSE 1 + Cardinality(Ages(i))]
  BY DEF Touch
<1> QED
  BY <1>2, <1>3

\* A row that is saved whole keeps the types of the table.
LEMMA SaveRowType ==
  ASSUME TableTypeOK, NEW i \in Sessions, NEW s \in Statuses, NEW n \in Nat, SaveRow(i, s, n)
  PROVE  TableTypeOK'
  BY TouchOrder DEF TableTypeOK, SaveRow

LEMMA SetStatusType ==
  ASSUME TableTypeOK, NEW S, NEW s \in Statuses, SetStatus(S, s)
  PROVE  TableTypeOK'
  BY TouchOrder DEF TableTypeOK, SetStatus

-----------------------------------------------------------------------------
(***************************************************************************)
(* What the goroutine of a step becomes.                                   *)
(***************************************************************************)
Only(w) ==
  /\ work' \in [Workers -> WorkSet]
  /\ \A v \in Workers : v # w => work'[v] = work[v]

\* One goroutine becomes r, the others stay.
LEMMA Becomes ==
  ASSUME work \in [Workers -> WorkSet], NEW w \in Workers, NEW r \in WorkSet,
         work' = [work EXCEPT ![w] = r]
  PROVE  Only(w) /\ work'[w] = r
  BY DEF Only

LEMMA EndsFacts ==
  ASSUME work \in [Workers -> WorkSet], NEW w \in Workers, Ends(w)
  PROVE  Only(w) /\ work'[w].step = "idle"
<1>1. Idle \in WorkSet /\ Idle.step = "idle"
  BY DEF Idle, NoBot, NoFlow, None, WorkSet, BotSet, InHand
<1> QED
  BY <1>1, Becomes DEF Ends

LEMMA GoesFacts ==
  ASSUME work \in [Workers -> WorkSet], NEW w \in Workers, NEW step \in InHand, Goes(w, step)
  PROVE  /\ Only(w) /\ work'[w].step = step
         /\ work'[w].id = work[w].id /\ work'[w].count = work[w].count
         /\ work'[w].continued = work[w].continued /\ work'[w].awaits = work[w].awaits
<1>0. work[w] \in WorkSet
  OBVIOUS
<1> DEFINE r == [work[w] EXCEPT !.step = step]
<1>1. r \in WorkSet
  BY <1>0 DEF WorkSet
<1>2. /\ r.step = step /\ r.id = work[w].id /\ r.count = work[w].count
      /\ r.continued = work[w].continued /\ r.awaits = work[w].awaits
  BY <1>0 DEF WorkSet
<1>3. work' = [work EXCEPT ![w] = r]
  BY <1>0 DEF Goes
<1> HIDE DEF r
<1> QED
  BY <1>1, <1>2, <1>3, Becomes

LEMMA TakesFacts ==
  ASSUME work \in [Workers -> WorkSet], NEW w \in Workers, NEW step \in InHand,
         NEW i \in Sessions \union {NoFlow}, NEW n \in Nat, Takes(w, step, i, n)
  PROVE  /\ Only(w) /\ work'[w].step = step
         /\ work'[w].id = i /\ work'[w].count = n /\ work'[w].continued = FALSE
<1>0. Idle \in WorkSet /\ Idle.continued = FALSE
  BY DEF Idle, NoBot, NoFlow, None, WorkSet, BotSet, InHand
<1> DEFINE r == [Idle EXCEPT !.step = step, !.id = i, !.count = n]
<1>1. r \in WorkSet
  BY <1>0 DEF WorkSet
<1>2. r.step = step /\ r.id = i /\ r.count = n /\ r.continued = FALSE
  BY <1>0 DEF WorkSet
<1>3. work' = [work EXCEPT ![w] = r]
  BY DEF Takes
<1> HIDE DEF r
<1> QED
  BY <1>1, <1>2, <1>3, Becomes

\* A new message, and the bot it reads: a session is not in hand yet.
LEMMA BeforeTheRead ==
  ASSUME work \in [Workers -> WorkSet], bot \in BotSet, NEW w \in Workers,
         DispatchToTypebot(w) \/ ReadBot(w)
  PROVE  Only(w) /\ work'[w].step \notin InHand /\ ~Busy(w)
<1>0. work[w] \in WorkSet
  OBVIOUS
<1>1. CASE DispatchToTypebot(w)
  <2>1. PICK fromMe \in BOOLEAN :
          work' = [work EXCEPT ![w].step = "started", ![w].fromMe = fromMe]
    BY <1>1 DEF DispatchToTypebot
  <2> DEFINE r == [work[w] EXCEPT !.step = "started", !.fromMe = fromMe]
  <2>2. r \in WorkSet /\ r.step = "started"
    BY <1>0 DEF WorkSet
  <2>3. work' = [work EXCEPT ![w] = r]
    BY <1>0, <2>1
  <2> HIDE DEF r
  <2>4. ~Busy(w)
    BY <1>1 DEF DispatchToTypebot, Busy, InHand
  <2> QED
    BY <2>2, <2>3, <2>4, Becomes DEF InHand
<1>2. CASE ReadBot(w)
  <2>1. ~Busy(w)
    BY <1>2 DEF ReadBot, Busy, InHand
  <2>2. CASE Ends(w)
    BY <2>1, <2>2, EndsFacts DEF InHand
  <2>3. CASE work' = [work EXCEPT ![w].step = "bot read", ![w].bot = bot]
    <3> DEFINE r == [work[w] EXCEPT !.step = "bot read", !.bot = bot]
    <3>1. r \in WorkSet /\ r.step = "bot read"
      BY <1>0 DEF WorkSet
    <3>2. work' = [work EXCEPT ![w] = r]
      BY <1>0, <2>3
    <3> HIDE DEF r
    <3> QED
      BY <2>1, <3>1, <3>2, Becomes DEF InHand
  <2> QED
    BY <1>2, <2>2, <2>3 DEF ReadBot
<1> QED
  BY <1>1, <1>2

LEMMA ExpireFacts ==
  ASSUME work \in [Workers -> WorkSet], NEW w \in Workers, ExpireSession(w)
  PROVE  /\ Only(w) /\ work'[w].step = "starting"
         /\ work'[w].count = 0 /\ work'[w].continued = work[w].continued
<1>0. work[w] \in WorkSet
  OBVIOUS
<1> DEFINE r == [work[w] EXCEPT !.step = "starting", !.id = NoFlow, !.count = 0]
<1>1. r \in WorkSet
  BY <1>0 DEF WorkSet, InHand
<1>2. r.step = "starting" /\ r.count = 0 /\ r.continued = work[w].continued
  BY <1>0 DEF WorkSet
<1>3. work' = [work EXCEPT ![w] = r]
  BY <1>0 DEF ExpireSession
<1> HIDE DEF r
<1> QED
  BY <1>1, <1>2, <1>3, Becomes

LEMMA StartFacts ==
  ASSUME TypeOK, NEW w \in Workers, StartChat(w)
  PROVE  /\ Only(w)
         /\ \/ work'[w].step = "idle" /\ UNCHANGED flows
            \/ /\ used' = used + 1 /\ used' \in Sessions /\ live' \subseteq 1..used'
               /\ work'[w].step = "creating" /\ work'[w].id = used'
               /\ work'[w].count = work[w].count /\ work'[w].continued = work[w].continued
               /\ live \subseteq live' /\ (work'[w].awaits => used' \in live')
<1>0. work \in [Workers -> WorkSet] /\ work[w] \in WorkSet
  BY DEF TypeOK
<1>1. CASE Ends(w) /\ UNCHANGED flows
  BY <1>0, <1>1, EndsFacts
<1>2. ASSUME NEW awaits \in BOOLEAN, used < MaxSessions, used' = used + 1,
             live' = IF awaits THEN live \union {used'} ELSE live,
             work' = [work EXCEPT ![w].step = "creating", ![w].id = used', ![w].awaits = awaits]
      PROVE  /\ Only(w)
             /\ used' = used + 1 /\ used' \in Sessions /\ live' \subseteq 1..used'
             /\ work'[w].step = "creating" /\ work'[w].id = used'
             /\ work'[w].count = work[w].count /\ work'[w].continued = work[w].continued
             /\ live \subseteq live' /\ (work'[w].awaits => used' \in live')
  <2>1. used' \in Sessions /\ live' \subseteq 1..used'
    BY <1>2, TypebotAssumption DEF TypeOK, Sessions
  <2> DEFINE r == [work[w] EXCEPT !.step = "creating", !.id = used', !.awaits = awaits]
  <2>2. r \in WorkSet
    BY <1>0, <2>1 DEF WorkSet, InHand
  <2>3. /\ r.step = "creating" /\ r.id = used' /\ r.awaits = awaits
        /\ r.count = work[w].count /\ r.continued = work[w].continued
    BY <1>0 DEF WorkSet
  <2>4. work' = [work EXCEPT ![w] = r]
    BY <1>0, <1>2
  <2> HIDE DEF r
  <2>5. Only(w) /\ work'[w] = r
    BY <1>0, <2>2, <2>4, Becomes
  <2> QED
    BY <1>2, <2>1, <2>3, <2>5
<1> QED
  BY <1>1, <1>2 DEF StartChat

LEMMA ContinueFacts ==
  ASSUME TypeOK, NEW w \in Workers, ContinueChat(w)
  PROVE  /\ Only(w) /\ used' = used /\ live' \subseteq live
         /\ \/ work'[w].step = "idle" /\ live' = live
            \/ /\ work'[w].step = "delivering" /\ work'[w].continued
               /\ work'[w].id = work[w].id /\ work'[w].count = work[w].count
               /\ live \ {work[w].id} \subseteq live' /\ (work'[w].awaits => live' = live)
<1>0. work \in [Workers -> WorkSet] /\ work[w] \in WorkSet
  BY DEF TypeOK
<1>1. CASE Ends(w) /\ UNCHANGED flows
  BY <1>0, <1>1, EndsFacts DEF flows
<1>2. ASSUME NEW awaits \in BOOLEAN, UNCHANGED used,
             live' = (IF awaits THEN live ELSE live \ {work[w].id}),
             work' = [work EXCEPT ![w].step = "delivering", ![w].awaits = awaits,
                                  ![w].continued = TRUE]
      PROVE  /\ Only(w) /\ used' = used /\ live' \subseteq live
             /\ work'[w].step = "delivering" /\ work'[w].continued
             /\ work'[w].id = work[w].id /\ work'[w].count = work[w].count
             /\ live \ {work[w].id} \subseteq live' /\ (work'[w].awaits => live' = live)
  <2> DEFINE r == [work[w] EXCEPT !.step = "delivering", !.awaits = awaits, !.continued = TRUE]
  <2>1. r \in WorkSet
    BY <1>0 DEF WorkSet, InHand
  <2>2. /\ r.step = "delivering" /\ r.continued = TRUE /\ r.awaits = awaits
        /\ r.id = work[w].id /\ r.count = work[w].count
    BY <1>0 DEF WorkSet
  <2>3. work' = [work EXCEPT ![w] = r]
    BY <1>0, <1>2
  <2> HIDE DEF r
  <2>4. Only(w) /\ work'[w] = r
    BY <1>0, <2>1, <2>3, Becomes
  <2> QED
    BY <1>2, <2>2, <2>4
<1> QED
  BY <1>1, <1>2 DEF ContinueChat

-----------------------------------------------------------------------------
(***************************************************************************)
(* Types and order of the sessions.                                        *)
(***************************************************************************)
Shape == TypeOK /\ Opened /\ FreshCount

\* What a step of one goroutine has to show for Shape: it holds a session
\* that was opened, and a count of zero until the session is created.
LEMMA ShapeStep ==
  ASSUME Shape, NEW w \in Workers, Only(w),
         bot' = bot, TableTypeOK', FlowTypeOK', used' >= used,
         \A i \in Sessions : status'[i] # None => i <= used',
         answered' \in [Sessions -> Nat], \A i \in Sessions : i > used' => answered'[i] = 0,
         messages' \in 0..MaxMessages, edits' = edits,
         overlapped' \in BOOLEAN, rearranged' = rearranged, held' \in BOOLEAN,
         work'[w].step \in InHand \ {"starting"} =>
           work'[w].id \in Sessions /\ work'[w].id <= used',
         work'[w].step \in {"expiring", "starting", "creating"} =>
           ~work'[w].continued /\ (work'[w].step # "expiring" => work'[w].count = 0)
  PROVE  Shape'
<1>1. /\ work \in [Workers -> WorkSet] /\ used \in Nat /\ used' \in Nat
      /\ \A v \in Workers : work[v].step \in InHand \ {"starting"} =>
           work[v].id \in Sessions /\ work[v].id <= used
      /\ \A v \in Workers : v # w => work'[v] = work[v]
      /\ work' \in [Workers -> WorkSet]
  BY TypebotAssumption DEF Shape, TypeOK, Opened, Only, FlowTypeOK
<1>2. \A v \in Workers : work'[v].step \in InHand \ {"starting"} =>
           work'[v].id \in Sessions /\ work'[v].id <= used'
  <2> SUFFICES ASSUME NEW v \in Workers, work'[v].step \in InHand \ {"starting"}
               PROVE  work'[v].id \in Sessions /\ work'[v].id <= used'
    OBVIOUS
  <2>1. CASE v = w
    BY <2>1
  <2>2. CASE v # w
    <3>1. work'[v] = work[v]
      BY <1>1, <2>2
    <3>2. work[v].id \in Sessions /\ work[v].id <= used
      BY <1>1, <3>1
    <3> QED
      BY <1>1, <3>1, <3>2 DEF Sessions
  <2> QED
    BY <2>1, <2>2
<1>3. TypeOK'
  BY <1>1, <1>2 DEF Shape, TypeOK, TableTypeOK, FlowTypeOK
<1>4. Opened'
  BY <1>2 DEF Opened
<1>5. FreshCount'
  BY <1>1 DEF Shape, FreshCount
<1> QED
  BY <1>3, <1>4, <1>5 DEF Shape

\* The steps that leave the table, the flows and the answers alone.
LEMMA ShapeQuiet ==
  ASSUME Shape, NEW w \in Workers, Only(w),
         UNCHANGED <<bot, table, flows, edits, rearranged, held, answered>>,
         messages' \in 0..MaxMessages, overlapped' \in BOOLEAN,
         work'[w].step \in InHand \ {"starting"} =>
           work'[w].id \in Sessions /\ work'[w].id <= used,
         work'[w].step \in {"expiring", "starting", "creating"} =>
           ~work'[w].continued /\ (work'[w].step # "expiring" => work'[w].count = 0)
  PROVE  Shape'
<1>1. /\ bot' = bot /\ TableTypeOK' /\ FlowTypeOK' /\ used' >= used
      /\ \A i \in Sessions : status'[i] # None => i <= used'
      /\ answered' \in [Sessions -> Nat] /\ \A i \in Sessions : i > used' => answered'[i] = 0
      /\ edits' = edits /\ rearranged' = rearranged /\ held' \in BOOLEAN
  BY TypebotAssumption DEF Shape, TypeOK, Opened, TableTypeOK, FlowTypeOK, table, flows
<1>2. used' = used
  BY DEF flows
<1> QED
  BY <1>1, <1>2, ShapeStep

\* The step of a goroutine that ends with a write of its session, made or failed.
LEMMA ShapeSave ==
  ASSUME Shape, NEW w \in Workers, Only(w), work[w].step \in InHand \ {"starting"},
         NEW s \in Statuses, NEW n \in Nat,
         SaveRow(work[w].id, s, n) \/ UNCHANGED table,
         UNCHANGED <<bot, flows, messages, edits, rearranged, answered>>,
         overlapped' \in BOOLEAN, held' \in BOOLEAN,
         work'[w].step \in InHand \ {"starting"} => work'[w].id = work[w].id,
         work'[w].step \in {"expiring", "starting", "creating"} =>
           ~work'[w].continued /\ (work'[w].step # "expiring" => work'[w].count = 0)
  PROVE  Shape'
<1>1. work[w].id \in Sessions /\ work[w].id <= used
  BY DEF Shape, TypeOK, Opened
<1>2. TableTypeOK /\ used \in Nat /\ used' = used
  BY TypebotAssumption DEF Shape, TypeOK, TableTypeOK, flows
<1>3. TableTypeOK' /\ \A i \in Sessions : status'[i] # None => i <= used
  <2>1. CASE SaveRow(work[w].id, s, n)
    <3>1. TableTypeOK'
      BY <1>1, <1>2, <2>1, SaveRowType
    <3> QED
      BY <1>1, <1>2, <2>1, <3>1 DEF SaveRow, Shape, Opened, TableTypeOK
  <2>2. CASE UNCHANGED table
    BY <1>2, <2>2 DEF table, TableTypeOK, Shape, Opened
  <2> QED
    BY <2>1, <2>2
<1>4. FlowTypeOK' /\ answered' \in [Sessions -> Nat] /\ messages' \in 0..MaxMessages
  BY DEF Shape, TypeOK, FlowTypeOK, flows
<1>5. \A i \in Sessions : i > used' => answered'[i] = 0
  BY <1>2 DEF Shape, Opened
<1> QED
  BY <1>1, <1>2, <1>3, <1>4, <1>5, ShapeStep

LEMMA WorkerShape ==
  ASSUME Shape, NEW w \in Workers, DispatchToTypebot(w) \/ Works(w)
  PROVE  Shape'
<1>0. /\ TypeOK /\ bot \in BotSet /\ work \in [Workers -> WorkSet] /\ work[w] \in WorkSet
      /\ messages \in 0..MaxMessages /\ overlapped \in BOOLEAN
      /\ work[w].count \in Nat /\ work[w].continued \in BOOLEAN
  BY DEF Shape, TypeOK, WorkSet
<1>1. CASE DispatchToTypebot(w)
  <2>1. Only(w) /\ work'[w].step \notin InHand
    BY <1>0, <1>1, BeforeTheRead
  <2>a. messages < MaxMessages /\ messages' = messages + 1 /\ overlapped' = overlapped
    BY <1>1 DEF DispatchToTypebot, ghost
  <2>2. messages' \in 0..MaxMessages /\ overlapped' \in BOOLEAN
    BY <1>0, <2>a, TypebotAssumption
  <2> QED
    BY <1>1, <2>1, <2>2, ShapeQuiet DEF DispatchToTypebot, ghost, InHand
<1>2. CASE ReadBot(w)
  <2>1. Only(w) /\ work'[w].step \notin InHand
    BY <1>0, <1>2, BeforeTheRead
  <2> QED
    BY <1>0, <1>2, <2>1, ShapeQuiet DEF ReadBot, ghost, InHand
<1>3. CASE ReadFails(w) \/ FindNothingToDo(w)
  <2>1. Only(w) /\ work'[w].step = "idle"
    BY <1>0, <1>3, EndsFacts DEF ReadFails, FindNothingToDo
  <2> QED
    BY <1>0, <1>3, <2>1, ShapeQuiet DEF ReadFails, FindNothingToDo, Reads, InHand
<1>4. ASSUME NEW i \in Latest PROVE i \in Sessions /\ i <= used /\ count[i] \in Nat
  BY <1>0 DEF Latest, Rows, Shape, Opened, TypeOK
<1>5. ASSUME NEW step \in InHand \ {"creating"}, NEW i \in Sessions \union {NoFlow}, NEW n \in Nat,
             step = "starting" => n = 0, step # "starting" => i \in Sessions /\ i <= used,
             Takes(w, step, i, n), Reads(w), UNCHANGED answered
      PROVE  Shape'
  <2>1. /\ Only(w) /\ work'[w].step = step
        /\ work'[w].id = i /\ work'[w].count = n /\ work'[w].continued = FALSE
    BY <1>0, <1>5, TakesFacts
  <2>2. overlapped' \in BOOLEAN
    BY <1>0, <1>5 DEF Takes, OtherBusy
  <2> QED
    BY <1>0, <1>5, <2>1, <2>2, ShapeQuiet DEF Reads, InHand
<1>6. CASE FindHandedOver(w)
  <2>1. PICK i \in Latest : Takes(w, "closing", i, count[i])
    BY <1>6 DEF FindHandedOver
  <2> QED
    BY <1>4, <1>5, <1>6, <2>1 DEF FindHandedOver, InHand
<1>7. CASE FindNoSession(w)
  BY <1>5, <1>7 DEF FindNoSession, InHand
<1>8. CASE FindExpired(w)
  <2>1. PICK i \in Latest : Takes(w, "expiring", i, count[i])
    BY <1>8 DEF FindExpired
  <2> QED
    BY <1>4, <1>5, <1>8, <2>1 DEF FindExpired, InHand
<1>9. CASE FindOpened(w)
  <2>a. PICK i \in Latest : \E n \in CountFrom(i) : \E step \in RateOf(n) :
          /\ Takes(w, step, i, n)
          /\ answered' = IF n = count[i] + 1 THEN answered ELSE [answered EXCEPT ![i] = 0]
    BY <1>9 DEF FindOpened
  <2>b. PICK n \in CountFrom(i) : \E step \in RateOf(n) :
          /\ Takes(w, step, i, n)
          /\ answered' = IF n = count[i] + 1 THEN answered ELSE [answered EXCEPT ![i] = 0]
    BY <2>a
  <2>1. PICK step \in RateOf(n) :
          /\ Takes(w, step, i, n)
          /\ answered' = IF n = count[i] + 1 THEN answered ELSE [answered EXCEPT ![i] = 0]
    BY <2>b
  <2>2. i \in Sessions /\ i <= used /\ n \in Nat /\ step \in {"closing", "continuing", "pausing"}
    BY <1>4, <2>1 DEF CountFrom, RateOf
  <2>c. Takes(w, step, i, n) /\ step \in InHand /\ i \in Sessions \union {NoFlow}
    BY <2>1, <2>2 DEF InHand
  <2>3. /\ Only(w) /\ work'[w].step = step
        /\ work'[w].id = i /\ work'[w].count = n /\ work'[w].continued = FALSE
    BY <1>0, <2>2, <2>c, TakesFacts
  <2>4. overlapped' \in BOOLEAN
    BY <1>0, <2>1 DEF Takes, OtherBusy
  <2>5. UNCHANGED <<bot, table, flows, messages, edits, rearranged, held>>
    BY <1>9 DEF FindOpened, Reads
  <2>6. answered' \in [Sessions -> Nat] /\ \A j \in Sessions : j > used => answered'[j] = 0
    BY <1>0, <2>1, <2>2 DEF Shape, TypeOK, Opened
  <2>7. used' = used /\ used \in Nat /\ held' \in BOOLEAN /\ messages' \in 0..MaxMessages
    BY <1>0, <2>5, TypebotAssumption DEF TypeOK, flows
  <2>8. TableTypeOK' /\ FlowTypeOK' /\ \A j \in Sessions : status'[j] # None => j <= used
    BY <1>0, <2>5 DEF Shape, Opened, TypeOK, TableTypeOK, FlowTypeOK, table, flows
  <2> QED
    BY <2>2, <2>3, <2>4, <2>5, <2>6, <2>7, <2>8, ShapeStep DEF InHand
<1>10. CASE CloseSession(w)
  <2>1. Only(w) /\ work'[w].step = "idle"
    BY <1>0, <1>10, EndsFacts DEF CloseSession
  <2> QED
    BY <1>0, <1>10, <2>1, ShapeSave DEF CloseSession, WriteFails, ghost, Shape, TypeOK, InHand, Statuses
<1>11. CASE ExpireSession(w)
  <2>1. Only(w) /\ work'[w].step = "starting" /\ work'[w].count = 0 /\ ~work'[w].continued
    BY <1>0, <1>11, ExpireFacts DEF ExpireSession, Shape, FreshCount
  <2> QED
    BY <1>0, <1>11, <2>1, ShapeSave DEF ExpireSession, WriteFails, ghost, Shape, TypeOK, InHand, Statuses
<1>12. CASE PauseSession(w)
  <2>1. Only(w) /\ work'[w].step = "idle"
    BY <1>0, <1>12, EndsFacts DEF PauseSession
  <2>2. held' \in BOOLEAN /\ overlapped' \in BOOLEAN
    BY <1>0, <1>12 DEF PauseSession, WriteFails, TypeOK, OtherBusy
  <2> QED
    BY <1>0, <1>12, <2>1, <2>2, ShapeSave DEF PauseSession, WriteFails, InHand, Statuses
<1>13. CASE StartChat(w)
  <2>1. /\ Only(w)
        /\ \/ work'[w].step = "idle" /\ UNCHANGED flows
           \/ /\ used' = used + 1 /\ used' \in Sessions /\ live' \subseteq 1..used'
              /\ work'[w].step = "creating" /\ work'[w].id = used'
              /\ work'[w].count = work[w].count /\ work'[w].continued = work[w].continued
    BY <1>0, <1>13, StartFacts
  <2>2. UNCHANGED <<bot, table, messages, edits, overlapped, rearranged, held, answered>>
    BY <1>13 DEF StartChat, ghost
  <2>3. work[w].count = 0 /\ ~work[w].continued
    BY <1>13 DEF StartChat, Shape, FreshCount
  <2>4. CASE work'[w].step = "idle" /\ UNCHANGED flows
    BY <1>0, <2>1, <2>2, <2>4, ShapeQuiet DEF InHand
  <2>5. CASE work'[w].step = "creating" /\ used' = used + 1 /\ used' \in Sessions
             /\ live' \subseteq 1..used' /\ work'[w].id = used'
             /\ work'[w].count = work[w].count /\ work'[w].continued = work[w].continued
    <3>1. used' >= used /\ FlowTypeOK' /\ used' <= used' /\ used \in Nat
      BY <1>0, <2>5, TypebotAssumption DEF TypeOK, FlowTypeOK, Sessions
    <3>2. TableTypeOK' /\ answered' \in [Sessions -> Nat] /\ held' \in BOOLEAN
      BY <1>0, <2>2 DEF TypeOK, TableTypeOK, table
    <3>3. /\ \A i \in Sessions : status'[i] # None => i <= used'
          /\ \A i \in Sessions : i > used' => answered'[i] = 0
      BY <2>2, <2>5, <3>1, TypebotAssumption DEF Shape, Opened, table, Sessions
    <3> QED
      BY <1>0, <2>1, <2>2, <2>3, <2>5, <3>1, <3>2, <3>3, ShapeStep
  <2> QED
    BY <2>1, <2>4, <2>5
<1>14. CASE CreateSession(w)
  <2>1. Only(w) /\ (work'[w].step = "idle" \/ (work'[w].step = "delivering" /\ work'[w].id = work[w].id))
    BY <1>0, <1>14, EndsFacts, GoesFacts DEF CreateSession, InHand
  <2> QED
    BY <1>0, <1>14, <2>1, ShapeSave DEF CreateSession, WriteFails, ghost, Shape, TypeOK, InHand, Statuses
<1>15. CASE ContinueChat(w)
  <2>1. /\ Only(w) /\ used' = used /\ live' \subseteq live
        /\ \/ work'[w].step = "idle"
           \/ /\ work'[w].step = "delivering" /\ work'[w].continued
              /\ work'[w].id = work[w].id /\ work'[w].count = work[w].count
    BY <1>0, <1>15, ContinueFacts
  <2>2. UNCHANGED <<bot, table, messages, edits, overlapped, rearranged, held, answered>>
    BY <1>15 DEF ContinueChat, ghost
  <2>3. work[w].id \in Sessions /\ work[w].id <= used
    BY <1>15 DEF ContinueChat, Shape, TypeOK, Opened, InHand
  <2>4. FlowTypeOK' /\ used' >= used
    BY <1>0, <2>1, TypebotAssumption DEF TypeOK, FlowTypeOK
  <2>5. TableTypeOK' /\ answered' \in [Sessions -> Nat] /\ held' \in BOOLEAN
    BY <1>0, <2>2 DEF TypeOK, TableTypeOK, table
  <2>6. /\ \A i \in Sessions : status'[i] # None => i <= used'
        /\ \A i \in Sessions : i > used' => answered'[i] = 0
    BY <2>1, <2>2 DEF Shape, Opened, table
  <2> QED
    BY <1>0, <2>1, <2>2, <2>3, <2>4, <2>5, <2>6, ShapeStep DEF InHand
<1>16. CASE Deliver(w)
  <2>1. Only(w) /\ work'[w].step = "saving" /\ work'[w].id = work[w].id
    BY <1>0, <1>16, GoesFacts DEF Deliver, InHand
  <2>2. UNCHANGED <<bot, table, flows, messages, edits, overlapped, rearranged, held>>
    BY <1>16 DEF Deliver
  <2>3. work[w].id \in Sessions /\ work[w].id <= used
    BY <1>16 DEF Deliver, Shape, TypeOK, Opened, InHand
  <2>4. FlowTypeOK' /\ used' = used /\ used \in Nat
    BY <1>0, <2>2, TypebotAssumption DEF TypeOK, FlowTypeOK, flows
  <2>5. TableTypeOK' /\ held' \in BOOLEAN
    BY <1>0, <2>2 DEF TypeOK, TableTypeOK, table
  <2>6. answered' \in [Sessions -> Nat] /\ \A i \in Sessions : i > used' => answered'[i] = 0
    BY <1>0, <1>16, <2>3, <2>4 DEF Deliver, Shape, Opened, TypeOK, Sessions
  <2>7. \A i \in Sessions : status'[i] # None => i <= used'
    BY <2>2, <2>4 DEF Shape, Opened, table
  <2> QED
    BY <1>0, <2>1, <2>2, <2>3, <2>4, <2>5, <2>6, <2>7, ShapeStep DEF InHand
<1>17. CASE UpdateSession(w)
  <2>1. Only(w) /\ work'[w].step = "idle"
    BY <1>0, <1>17, EndsFacts DEF UpdateSession
  <2>2. (IF work[w].awaits THEN "opened" ELSE "closed") \in Statuses
    BY DEF Statuses
  <2> QED
    BY <1>0, <1>17, <2>1, <2>2, ShapeSave DEF UpdateSession, WriteFails, ghost, Shape, TypeOK, InHand
<1> QED
  BY <1>1, <1>2, <1>3, <1>6, <1>7, <1>8, <1>9, <1>10, <1>11, <1>12, <1>13, <1>14, <1>15,
     <1>16, <1>17 DEF Works

\* What the operator does leaves the goroutines alone, and no session comes into use.
LEMMA OperatorShape ==
  ASSUME Shape, Operator
  PROVE  Shape'
<1>0. /\ TypeOK /\ TableTypeOK /\ edits \in Nat /\ used \in Nat
      /\ \A i \in Sessions : status[i] # None => i <= used
  BY TypebotAssumption DEF Shape, TypeOK, TableTypeOK, Opened
<1>1. Edits
  BY DEF Operator, SetSessionStatus, SetSessionStatusByRemoteJid, DeleteSession, DeleteBot, SetBot
<1>2. edits' \in 0..MaxEdits /\ UNCHANGED <<used, live, work, messages, answered>>
  <2>1. edits < MaxEdits /\ edits' = edits + 1
    BY <1>1 DEF Edits
  <2> QED
    BY <1>0, <1>1, <2>1, TypebotAssumption DEF Edits, flows
<1>3. ASSUME bot' \in BotSet, TableTypeOK', overlapped' \in BOOLEAN, rearranged' \in BOOLEAN,
             held' \in BOOLEAN, \A i \in Sessions : status'[i] # None => i <= used
      PROVE  Shape'
  <2>1. TypeOK'
    BY <1>0, <1>2, <1>3 DEF TypeOK, TableTypeOK
  <2>2. Opened'
    BY <1>2, <1>3 DEF Shape, Opened
  <2>3. FreshCount'
    BY <1>2 DEF Shape, FreshCount
  <2> QED
    BY <2>1, <2>2, <2>3 DEF Shape
<1>4. ASSUME NEW S \in SUBSET Rows, NEW s \in Statuses, Sets(S, s)
      PROVE  Shape'
  <2>1. TableTypeOK'
    BY <1>0, <1>4, SetStatusType DEF Sets
  <2>2. \A i \in Sessions : status'[i] # None => i <= used
    BY <1>0, <1>4 DEF Sets, SetStatus, Rows
  <2>3. held' \in BOOLEAN
    BY <1>4 DEF Sets, AnyBusy
  <2>4. rearranged' \in BOOLEAN
    BY <1>0, <1>4 DEF Sets, TypeOK
  <2>5. bot' \in BotSet /\ overlapped' \in BOOLEAN
    BY <1>0, <1>4 DEF Sets, TypeOK
  <2> QED
    BY <1>3, <2>1, <2>2, <2>3, <2>4, <2>5
<1>5. ASSUME NEW S \in SUBSET Rows, Removes(S), bot' \in BotSet, overlapped' \in BOOLEAN
      PROVE  Shape'
  <2>1. TableTypeOK' /\ \A i \in Sessions : status'[i] # None => i <= used
    BY <1>0, <1>5 DEF Removes, TableTypeOK, Rows
  <2>2. held' \in BOOLEAN /\ rearranged' \in BOOLEAN
    BY <1>0, <1>5 DEF Removes, TypeOK
  <2> QED
    BY <1>3, <1>5, <2>1, <2>2
<1>6. CASE SetSessionStatus
  BY <1>4, <1>6 DEF SetSessionStatus
<1>7. CASE SetSessionStatusByRemoteJid
  BY <1>4, <1>7 DEF SetSessionStatusByRemoteJid
<1>8. CASE DeleteSession
  BY <1>0, <1>5, <1>8 DEF DeleteSession, TypeOK
<1>9. CASE DeleteBot
  <2>1. bot' \in BotSet
    <3>1. bot \in BotSet
      BY <1>0 DEF TypeOK
    <3>2. bot' = [bot EXCEPT !.is = None]
      BY <1>9 DEF DeleteBot
    <3> QED
      BY <3>1, <3>2 DEF BotSet
  <2>2. overlapped' \in BOOLEAN
    BY <1>0, <1>9 DEF DeleteBot, TypeOK
  <2> QED
    BY <1>5, <1>9, <2>1, <2>2 DEF DeleteBot
<1>10. CASE SetBot
  <2>1. UNCHANGED <<status, count, age, overlapped, rearranged, held>> /\ bot' \in BotSet
    BY <1>10 DEF SetBot, table
  <2> QED
    BY <1>0, <1>3, <2>1 DEF TypeOK, TableTypeOK
<1> QED
  BY <1>6, <1>7, <1>8, <1>9, <1>10 DEF Operator

LEMMA NextShape ==
  ASSUME Shape, [Next]_vars
  PROVE  Shape'
<1>1. CASE UNCHANGED vars
  <2>1. /\ UNCHANGED <<bot, status, count, age, used, live, work, messages, edits>>
        /\ UNCHANGED <<overlapped, rearranged, held, answered>>
    BY <1>1 DEF vars, table, flows, ghost
  <2> QED
    BY <2>1 DEF Shape, TypeOK, Opened, FreshCount
<1> QED
  BY <1>1, WorkerShape, OperatorShape DEF Next

-----------------------------------------------------------------------------
(***************************************************************************)
(* The pause.                                                              *)
(***************************************************************************)
\* The row that was written last is the session in use.
LEMMA LatestWritten ==
  ASSUME age \in [Sessions -> Nat], NEW S \in SUBSET Sessions, Touch(S),
         \E i \in S : status'[i] # None
  PROVE  /\ Latest' \subseteq S /\ Rows' # {}
         /\ \A k \in S : status'[k] # None => k \in Latest'
<1>1. /\ age' \in [Sessions -> Nat]
      /\ \A i \in Sessions : IF i \in S THEN age'[i] = 0 ELSE age'[i] >= 1
  BY TouchOrder
<1>2. PICK k \in S : status'[k] # None
  OBVIOUS
<1>3. k \in Rows' /\ age'[k] = 0
  BY <1>1, <1>2 DEF Rows
<1>4. ASSUME NEW i \in Latest' PROVE i \in S
  <2>1. i \in Sessions /\ age'[i] <= age'[k]
    BY <1>3, <1>4 DEF Latest, Rows
  <2> QED
    BY <1>1, <1>3, <2>1
<1>5. ASSUME NEW i \in S, status'[i] # None PROVE i \in Latest'
  BY <1>1, <1>5 DEF Latest, Rows
<1> QED
  BY <1>3, <1>4, <1>5

LEMMA WorkerPause ==
  ASSUME Shape, PauseFound, NEW w \in Workers, DispatchToTypebot(w) \/ Works(w)
  PROVE  PauseFound'
<1>0. work \in [Workers -> WorkSet] /\ bot \in BotSet /\ TypeOK
  BY DEF Shape, TypeOK
<1>1. ASSUME Only(w), work'[w].step \notin InHand, UNCHANGED <<table, held>>
      PROVE  PauseFound'
  <2>1. \A v \in Workers : Busy(v)' => Busy(v)
    BY <1>1 DEF Busy, Only
  <2> QED
    BY <1>1, <2>1 DEF PauseFound, AnyBusy, Rows, Latest, table
<1>2. CASE Busy(w) /\ UNCHANGED held
  BY <1>2 DEF PauseFound, AnyBusy
<1>3. CASE DispatchToTypebot(w) \/ ReadBot(w)
  <2>1. Only(w) /\ work'[w].step \notin InHand
    BY <1>0, <1>3, BeforeTheRead
  <2> QED
    BY <1>1, <1>3, <2>1 DEF DispatchToTypebot, ReadBot, ghost
<1>4. CASE ReadFails(w) \/ FindNothingToDo(w)
  <2>1. Only(w) /\ work'[w].step = "idle"
    BY <1>0, <1>4, EndsFacts DEF ReadFails, FindNothingToDo
  <2> QED
    BY <1>1, <1>4, <2>1 DEF ReadFails, FindNothingToDo, Reads, InHand
<1>5. CASE FindHandedOver(w) \/ FindNoSession(w) \/ FindExpired(w) \/ FindOpened(w)
  <2>1. UNCHANGED held
    BY <1>5 DEF FindHandedOver, FindNoSession, FindExpired, FindOpened, Reads
  <2>2. Rows = {} \/ \E i \in Latest : status[i] \in {"opened", "closed"}
    BY <1>5 DEF FindHandedOver, FindNoSession, FindExpired, FindOpened, StopsFromMe
  <2> QED
    BY <2>1, <2>2 DEF PauseFound
<1>6. CASE PauseSession(w)
  <2>1. Only(w) /\ work'[w].step = "idle" /\ Busy(w)
    BY <1>0, <1>6, EndsFacts DEF PauseSession, Busy, InHand
  <2>2. CASE SaveRow(work[w].id, "paused", work[w].count) /\ held' = ~OtherBusy(w)
    <3>1. work[w].id \in Sessions
      BY <1>6 DEF PauseSession, Shape, TypeOK, InHand
    <3>2. /\ status' = [status EXCEPT ![work[w].id] = "paused"]
          /\ Touch({work[w].id})
      BY <2>2 DEF SaveRow
    <3>3. status'[work[w].id] = "paused"
      BY <1>0, <3>1, <3>2 DEF TypeOK
    <3>4. Latest' \subseteq {work[w].id} /\ Rows' # {}
      BY <1>0, <3>1, <3>2, <3>3, LatestWritten DEF TypeOK, None
    <3>5. held' => ~AnyBusy'
      BY <2>1, <2>2 DEF OtherBusy, AnyBusy, Busy, Only, InHand
    <3> QED
      BY <3>3, <3>4, <3>5 DEF PauseFound
  <2>3. CASE WriteFails
    BY <1>2, <2>1, <2>3 DEF WriteFails
  <2> QED
    BY <1>6, <2>2, <2>3 DEF PauseSession
<1>7. CASE CloseSession(w) \/ ExpireSession(w) \/ CreateSession(w) \/ UpdateSession(w)
  <2>1. Busy(w) /\ UNCHANGED held
    BY <1>7 DEF CloseSession, ExpireSession, CreateSession, UpdateSession, WriteFails, ghost,
       Busy, InHand
  <2> QED
    BY <1>2, <2>1
<1>8. CASE StartChat(w) \/ ContinueChat(w) \/ Deliver(w)
  <2>1. Busy(w) /\ UNCHANGED held
    BY <1>8 DEF StartChat, ContinueChat, Deliver, ghost, Busy, InHand
  <2> QED
    BY <1>2, <2>1
<1> QED
  BY <1>3, <1>4, <1>5, <1>6, <1>7, <1>8 DEF Works

LEMMA OperatorPause ==
  ASSUME Shape, PauseFound, Operator
  PROVE  PauseFound'
<1>0. TypeOK
  BY DEF Shape
<1>1. UNCHANGED work
  BY DEF Operator, SetSessionStatus, SetSessionStatusByRemoteJid, DeleteSession, DeleteBot,
     SetBot, Edits
<1>2. AnyBusy' = AnyBusy
  BY <1>1 DEF AnyBusy, Busy
<1>3. ASSUME NEW S \in SUBSET Rows, S # {}, NEW s \in Statuses, Sets(S, s)
      PROVE  PauseFound'
  <2>1. CASE ~held'
    BY <2>1 DEF PauseFound
  <2>2. CASE held'
    <3>1. s = "paused" /\ ~AnyBusy
      BY <1>3, <2>2 DEF Sets
    <3>2. /\ status' = [i \in Sessions |-> IF i \in S THEN s ELSE status[i]]
          /\ Touch(S) /\ S \subseteq Sessions
      BY <1>3 DEF Sets, SetStatus, Rows
    <3>3. \A i \in S : status'[i] = "paused"
      BY <3>1, <3>2
    <3>4. Latest' \subseteq S /\ Rows' # {}
      BY <1>0, <1>3, <3>2, <3>3, LatestWritten DEF TypeOK, None
    <3> QED
      BY <1>2, <3>1, <3>3, <3>4 DEF PauseFound
  <2> QED
    BY <2>1, <2>2
<1>4. CASE SetSessionStatus
  BY <1>3, <1>4 DEF SetSessionStatus
<1>5. CASE SetSessionStatusByRemoteJid
  BY <1>3, <1>5 DEF SetSessionStatusByRemoteJid
<1>6. CASE DeleteSession \/ DeleteBot
  BY <1>6 DEF DeleteSession, DeleteBot, Removes, PauseFound
<1>7. CASE SetBot
  BY <1>2, <1>7 DEF SetBot, table, PauseFound, Rows, Latest
<1> QED
  BY <1>4, <1>5, <1>6, <1>7 DEF Operator

-----------------------------------------------------------------------------
(***************************************************************************)
(* The limit.                                                              *)
(***************************************************************************)
CountsHold == ~overlapped /\ Limit > 0 => Counts

\* A goroutine that has done with its session, or has not read one, counts for nothing.
LEMMA CountsLeave ==
  ASSUME Shape, Counts, NEW w \in Workers, Only(w), work[w].step # "saving",
         work'[w].step \notin InHand \ {"starting"}, Busy(w)' => Busy(w),
         UNCHANGED <<count, answered>>
  PROVE  Counts'
<1>1. OneAtIt'
  BY DEF Counts, OneAtIt, Busy, Only
<1>2. CopyCounts'
  BY DEF Counts, CopyCounts, Only
<1>3. RoomLeft'
  BY DEF Counts, RoomLeft, Answering, Only, InHand
<1>4. RowCounts'
  BY DEF Counts, RowCounts, Only
<1>5. LimitKept'
  BY DEF Counts, LimitKept
<1> QED
  BY <1>1, <1>2, <1>3, <1>4, <1>5 DEF Counts

\* One that writes its session puts its own count into the row.
LEMMA CountsSave ==
  ASSUME Shape, Counts, NEW w \in Workers, Only(w), work[w].step \in InHand \ {"starting"},
         NEW s \in Statuses, SaveRow(work[w].id, s, work[w].count),
         work'[w].step \notin InHand \ {"starting"}, UNCHANGED answered
  PROVE  Counts'
<1>0. work[w].id \in Sessions /\ count \in [Sessions -> Nat] /\ Busy(w)
  BY DEF Shape, TypeOK, Busy
<1>1. OneAtIt'
  BY <1>0 DEF Counts, OneAtIt, Busy, Only
<1>2. CopyCounts'
  BY DEF Counts, CopyCounts, Only
<1>3. RoomLeft'
  BY DEF Counts, RoomLeft, Answering, Only, InHand
<1>4. RowCounts'
  <2> SUFFICES ASSUME NEW i \in Sessions
               PROVE  \/ answered'[i] <= count'[i]
                      \/ \E v \in Workers : work'[v].step = "saving" /\ work'[v].id = i
    BY DEF RowCounts
  <2>1. CASE i = work[w].id
    BY <1>0, <2>1 DEF SaveRow, Counts, CopyCounts
  <2>2. CASE i # work[w].id
    BY <1>0, <2>2 DEF SaveRow, Counts, RowCounts, Only
  <2> QED
    BY <2>1, <2>2
<1>5. LimitKept'
  BY DEF Counts, LimitKept
<1> QED
  BY <1>1, <1>2, <1>3, <1>4, <1>5 DEF Counts

\* One that is alone and takes row i with a count that covers its answers.
LEMMA CountsTake ==
  ASSUME Shape, Counts, NEW w \in Workers, Reads(w),
         NEW step \in InHand \ {"saving"}, NEW i \in Sessions \union {NoFlow}, NEW n \in Nat,
         Takes(w, step, i, n), ~overlapped',
         answered' \in [Sessions -> Nat],
         \A j \in Sessions : answered'[j] <= answered[j],
         step # "starting" => i \in Sessions /\ answered'[i] <= n,
         step = "continuing" => answered'[i] < n /\ n <= Limit
  PROVE  Counts'
<1>0. /\ TypeOK /\ work \in [Workers -> WorkSet] /\ count \in [Sessions -> Nat]
      /\ answered \in [Sessions -> Nat]
  BY DEF Shape, TypeOK
<1>1. /\ Only(w) /\ work'[w].step = step /\ work'[w].id = i /\ work'[w].count = n
      /\ work'[w].continued = FALSE
  BY <1>0, TakesFacts
<1>2. \A v \in Workers : v # w => ~Busy(v) /\ ~Busy(v)'
  BY <1>1 DEF Takes, OtherBusy, Busy, Only
<1>3. OneAtIt'
  BY <1>2 DEF OneAtIt
<1>4. CopyCounts'
  BY <1>1, <1>2 DEF CopyCounts, Busy
<1>5. RoomLeft'
  <2> SUFFICES ASSUME NEW v \in Workers, Answering(v)'
               PROVE  answered'[work'[v].id] < work'[v].count /\ work'[v].count <= Limit
    BY DEF RoomLeft
  <2>1. Busy(v)'
    BY DEF Answering, Busy, InHand
  <2>2. v = w
    BY <1>2, <2>1
  <2>3. step = "continuing"
    BY <1>1, <2>2 DEF Answering
  <2> QED
    BY <1>1, <2>2, <2>3
<1>6. RowCounts'
  <2> SUFFICES ASSUME NEW j \in Sessions PROVE answered'[j] <= count'[j]
    BY DEF RowCounts
  <2>1. \A v \in Workers : work[v].step # "saving"
    BY <1>2 DEF Reads, Busy, InHand
  <2>2. answered[j] <= count[j]
    BY <2>1 DEF Counts, RowCounts
  <2>3. count' = count /\ answered'[j] <= answered[j]
    BY DEF Reads, table
  <2>4. answered'[j] \in Nat /\ answered[j] \in Nat /\ count[j] \in Nat
    BY <1>0
  <2> QED
    BY <2>2, <2>3, <2>4
<1>7. LimitKept'
  BY <1>0, TypebotAssumption DEF Counts, LimitKept
<1> QED
  BY <1>3, <1>4, <1>5, <1>6, <1>7 DEF Counts

LEMMA WorkerCounts ==
  ASSUME Shape, CountsHold, NEW w \in Workers, DispatchToTypebot(w) \/ Works(w)
  PROVE  CountsHold'
<1> SUFFICES ASSUME ~overlapped', Limit > 0 PROVE Counts'
  BY DEF CountsHold
<1>0. /\ TypeOK /\ bot \in BotSet /\ work \in [Workers -> WorkSet] /\ work[w] \in WorkSet
      /\ count \in [Sessions -> Nat] /\ answered \in [Sessions -> Nat]
      /\ work[w].count \in Nat /\ Limit \in Nat
  BY TypebotAssumption DEF Shape, TypeOK, WorkSet
<1>1. overlapped => overlapped'
  BY DEF Works, DispatchToTypebot, ReadBot, ReadFails, FindHandedOver, FindNothingToDo,
     FindNoSession, FindExpired, FindOpened, CloseSession, ExpireSession, PauseSession,
     StartChat, CreateSession, ContinueChat, Deliver, UpdateSession, Takes, WriteFails, ghost
<1>2. Counts
  BY <1>1 DEF CountsHold
<1>3. ~WriteFails
  BY DEF WriteFails
<1>4. CASE DispatchToTypebot(w) \/ ReadBot(w)
  <2>1. Only(w) /\ work'[w].step \notin InHand /\ ~Busy(w)
    BY <1>0, <1>4, BeforeTheRead
  <2>2. UNCHANGED <<count, answered>> /\ work[w].step # "saving"
    BY <1>4 DEF DispatchToTypebot, ReadBot, table, ghost
  <2> QED
    BY <1>2, <2>1, <2>2, CountsLeave DEF Busy
<1>5. CASE ReadFails(w) \/ FindNothingToDo(w)
  <2>1. Only(w) /\ work'[w].step = "idle"
    BY <1>0, <1>5, EndsFacts DEF ReadFails, FindNothingToDo
  <2>2. UNCHANGED <<count, answered>> /\ work[w].step # "saving"
    BY <1>5 DEF ReadFails, FindNothingToDo, Reads, table
  <2> QED
    BY <1>2, <2>1, <2>2, CountsLeave DEF Busy, InHand
<1>6. ASSUME NEW i \in Latest, Reads(w), NEW step, NEW n, Takes(w, step, i, n)
      PROVE  i \in Sessions /\ count[i] \in Nat /\ answered[i] \in Nat /\ answered[i] <= count[i]
  <2>1. i \in Sessions
    BY DEF Latest, Rows
  <2>2. \A v \in Workers : work[v].step # "saving"
    BY <1>6 DEF Reads, Takes, OtherBusy, Busy, InHand
  <2> QED
    BY <1>0, <1>2, <2>1, <2>2 DEF Counts, RowCounts
<1>7. CASE FindHandedOver(w)
  <2>1. Reads(w) /\ UNCHANGED answered
    BY <1>7 DEF FindHandedOver
  <2>2. PICK i \in Latest : Takes(w, "closing", i, count[i])
    BY <1>7 DEF FindHandedOver
  <2>3. i \in Sessions /\ count[i] \in Nat /\ answered[i] \in Nat /\ answered[i] <= count[i]
    BY <1>6, <2>1, <2>2
  <2> QED
    BY <1>0, <1>2, <2>1, <2>2, <2>3, CountsTake DEF InHand
<1>8. CASE FindNoSession(w)
  <2>1. Reads(w) /\ UNCHANGED answered /\ Takes(w, "starting", NoFlow, 0)
    BY <1>8 DEF FindNoSession
  <2> QED
    BY <1>0, <1>2, <2>1, CountsTake DEF InHand
<1>9. CASE FindExpired(w)
  <2>1. Reads(w) /\ UNCHANGED answered
    BY <1>9 DEF FindExpired
  <2>2. PICK i \in Latest : Takes(w, "expiring", i, count[i])
    BY <1>9 DEF FindExpired
  <2>3. i \in Sessions /\ count[i] \in Nat /\ answered[i] \in Nat /\ answered[i] <= count[i]
    BY <1>6, <2>1, <2>2
  <2> QED
    BY <1>0, <1>2, <2>1, <2>2, <2>3, CountsTake DEF InHand
<1>10. CASE FindOpened(w)
  <2>a. PICK i \in Latest : \E n \in CountFrom(i) : \E step \in RateOf(n) :
          /\ Takes(w, step, i, n)
          /\ answered' = IF n = count[i] + 1 THEN answered ELSE [answered EXCEPT ![i] = 0]
    BY <1>10 DEF FindOpened
  <2>b. PICK n \in CountFrom(i) : \E step \in RateOf(n) :
          /\ Takes(w, step, i, n)
          /\ answered' = IF n = count[i] + 1 THEN answered ELSE [answered EXCEPT ![i] = 0]
    BY <2>a
  <2>1. PICK step \in RateOf(n) :
          /\ Takes(w, step, i, n)
          /\ answered' = IF n = count[i] + 1 THEN answered ELSE [answered EXCEPT ![i] = 0]
    BY <2>b
  <2>2. Reads(w)
    BY <1>10 DEF FindOpened
  <2>3. i \in Sessions /\ count[i] \in Nat /\ answered[i] \in Nat /\ answered[i] <= count[i]
    BY <1>6, <2>1, <2>2
  <2>4. n \in Nat /\ (n = count[i] + 1 \/ n = 1)
    BY <1>0, <2>3 DEF CountFrom
  <2>5. /\ step \in {"closing", "continuing", "pausing"}
        /\ step = "continuing" => n <= Limit
    BY <1>0 DEF RateOf
  <2>6. /\ answered' \in [Sessions -> Nat] /\ answered'[i] < n
        /\ \A j \in Sessions : answered'[j] <= answered[j]
    <3>1. CASE n = count[i] + 1
      BY <1>0, <2>1, <2>3, <3>1
    <3>2. CASE n # count[i] + 1
      BY <1>0, <2>1, <2>3, <2>4, <3>2
    <3> QED
      BY <3>1, <3>2
  <2>7. step \in InHand \ {"saving"} /\ Takes(w, step, i, n) /\ answered'[i] <= n
    BY <2>1, <2>3, <2>4, <2>5, <2>6 DEF InHand
  <2> QED
    BY <1>2, <2>2, <2>3, <2>4, <2>5, <2>6, <2>7, CountsTake
<1>11. CASE CloseSession(w)
  <2>1. Only(w) /\ work'[w].step = "idle"
    BY <1>0, <1>11, EndsFacts DEF CloseSession
  <2> QED
    BY <1>2, <1>3, <1>11, <2>1, CountsSave DEF CloseSession, ghost, InHand, Statuses
<1>12. CASE ExpireSession(w)
  <2>1. Only(w) /\ work'[w].step = "starting"
    BY <1>0, <1>12, ExpireFacts
  <2> QED
    BY <1>2, <1>3, <1>12, <2>1, CountsSave DEF ExpireSession, ghost, InHand, Statuses
<1>13. CASE PauseSession(w)
  <2>1. Only(w) /\ work'[w].step = "idle"
    BY <1>0, <1>13, EndsFacts DEF PauseSession
  <2> QED
    BY <1>2, <1>3, <1>13, <2>1, CountsSave DEF PauseSession, InHand, Statuses
<1>14. CASE UpdateSession(w)
  <2>1. Only(w) /\ work'[w].step = "idle"
    BY <1>0, <1>14, EndsFacts DEF UpdateSession
  <2>2. (IF work[w].awaits THEN "opened" ELSE "closed") \in Statuses
    BY DEF Statuses
  <2> QED
    BY <1>2, <1>3, <1>14, <2>1, <2>2, CountsSave DEF UpdateSession, ghost, InHand
<1>15. ASSUME Only(w), Busy(w), UNCHANGED <<count, answered>>, work[w].step # "saving",
              work'[w].step \in {"creating", "delivering"},
              answered[work'[w].id] <= work'[w].count,
              Answering(w)' => answered[work'[w].id] < work'[w].count /\ work'[w].count <= Limit
      PROVE  Counts'
  <2>1. OneAtIt'
    BY <1>2, <1>15 DEF Counts, OneAtIt, Busy, Only
  <2>2. CopyCounts'
    BY <1>2, <1>15 DEF Counts, CopyCounts, Only
  <2>3. RoomLeft'
    BY <1>2, <1>15 DEF Counts, RoomLeft, Answering, Only
  <2>4. RowCounts'
    BY <1>2, <1>15 DEF Counts, RowCounts, Only
  <2>5. LimitKept'
    BY <1>2, <1>15 DEF Counts, LimitKept
  <2> QED
    BY <2>1, <2>2, <2>3, <2>4, <2>5 DEF Counts
<1>16. CASE StartChat(w)
  <2>1. /\ Only(w)
        /\ \/ work'[w].step = "idle" /\ UNCHANGED flows
           \/ /\ used' = used + 1 /\ used' \in Sessions
              /\ work'[w].step = "creating" /\ work'[w].id = used'
              /\ work'[w].count = work[w].count
    BY <1>0, <1>16, StartFacts
  <2>2. UNCHANGED <<count, answered>> /\ work[w].step = "starting" /\ Busy(w)
    BY <1>16 DEF StartChat, table, ghost, Busy, InHand
  <2>3. CASE work'[w].step = "idle"
    BY <1>2, <2>1, <2>2, <2>3, CountsLeave DEF InHand
  <2>4. CASE work'[w].step = "creating" /\ used' = used + 1 /\ used' \in Sessions
             /\ work'[w].id = used' /\ work'[w].count = work[w].count
    <3>1. answered[used'] = 0 /\ work[w].count = 0
      BY <1>0, <2>2, <2>4, TypebotAssumption DEF Shape, Opened, FreshCount, TypeOK
    <3> QED
      BY <1>15, <2>1, <2>2, <2>4, <3>1 DEF Answering
  <2> QED
    BY <2>1, <2>3, <2>4
<1>17. CASE CreateSession(w)
  <2>1. /\ SaveRow(work[w].id, "opened", 0) /\ Goes(w, "delivering")
        /\ UNCHANGED answered /\ work[w].step = "creating" /\ Busy(w)
    BY <1>3, <1>17 DEF CreateSession, ghost, Busy, InHand
  <2>2. /\ Only(w) /\ work'[w].step = "delivering" /\ work'[w].id = work[w].id
        /\ work'[w].count = work[w].count /\ work'[w].continued = work[w].continued
    BY <1>0, <2>1, GoesFacts DEF InHand
  <2>3. /\ work[w].id \in Sessions /\ work[w].count = 0 /\ ~work[w].continued
        /\ answered[work[w].id] <= work[w].count
    BY <1>2, <2>1 DEF Shape, TypeOK, FreshCount, Counts, CopyCounts, InHand
  <2>4. OneAtIt'
    BY <1>2, <2>1, <2>2 DEF Counts, OneAtIt, Busy, Only
  <2>5. CopyCounts'
    BY <1>2, <2>1, <2>2, <2>3 DEF Counts, CopyCounts, Only
  <2>6. RoomLeft'
    BY <1>2, <2>1, <2>2, <2>3 DEF Counts, RoomLeft, Answering, Only
  <2>7. RowCounts'
    <3> SUFFICES ASSUME NEW i \in Sessions
                 PROVE  \/ answered'[i] <= count'[i]
                        \/ \E v \in Workers : work'[v].step = "saving" /\ work'[v].id = i
      BY DEF RowCounts
    <3>1. CASE i = work[w].id
      BY <1>0, <2>1, <2>3, <3>1 DEF SaveRow
    <3>2. CASE i # work[w].id
      BY <1>0, <1>2, <2>1, <2>2, <3>2 DEF SaveRow, Counts, RowCounts, Only
    <3> QED
      BY <3>1, <3>2
  <2>8. LimitKept'
    BY <1>2, <2>1 DEF Counts, LimitKept
  <2> QED
    BY <2>4, <2>5, <2>6, <2>7, <2>8 DEF Counts
<1>18. CASE ContinueChat(w)
  <2>1. /\ Only(w)
        /\ \/ work'[w].step = "idle"
           \/ /\ work'[w].step = "delivering"
              /\ work'[w].id = work[w].id /\ work'[w].count = work[w].count
    BY <1>0, <1>18, ContinueFacts
  <2>2. UNCHANGED <<count, answered>> /\ work[w].step = "continuing" /\ Busy(w)
    BY <1>18 DEF ContinueChat, table, ghost, Busy, InHand
  <2>3. answered[work[w].id] < work[w].count /\ work[w].count <= Limit
    BY <1>2, <2>2 DEF Counts, RoomLeft, Answering
  <2>4. answered[work[w].id] <= work[w].count
    BY <1>2, <2>2 DEF Counts, CopyCounts, InHand
  <2>5. CASE work'[w].step = "idle"
    BY <1>2, <2>1, <2>2, <2>5, CountsLeave DEF InHand
  <2>6. CASE work'[w].step = "delivering" /\ work'[w].id = work[w].id
             /\ work'[w].count = work[w].count
    BY <1>15, <2>1, <2>2, <2>3, <2>4, <2>6
  <2> QED
    BY <2>1, <2>5, <2>6
<1>19. CASE Deliver(w)
  <2>1. Goes(w, "saving") /\ UNCHANGED count /\ work[w].step = "delivering" /\ Busy(w)
    BY <1>19 DEF Deliver, table, Busy, InHand
  <2>2. /\ Only(w) /\ work'[w].step = "saving" /\ work'[w].id = work[w].id
        /\ work'[w].count = work[w].count
    BY <1>0, <2>1, GoesFacts DEF InHand
  <2>3. work[w].id \in Sessions /\ answered[work[w].id] <= work[w].count
    BY <1>2, <2>1 DEF Shape, TypeOK, Counts, CopyCounts, InHand
  <2>4. \A v \in Workers : v # w => ~Busy(v) /\ ~Busy(v)'
    BY <1>2, <2>1, <2>2 DEF Counts, OneAtIt, Busy, Only
  <2>5. work[w].continued => answered[work[w].id] < work[w].count /\ work[w].count <= Limit
    BY <1>2, <2>1 DEF Counts, RoomLeft, Answering
  <2>6. /\ answered'[work[w].id] <= work[w].count /\ answered'[work[w].id] <= Limit
        /\ \A i \in Sessions : i # work[w].id => answered'[i] = answered[i]
    <3>1. answered[work[w].id] <= Limit /\ answered[work[w].id] \in Nat
      BY <1>0, <1>2, <2>3 DEF Counts, LimitKept
    <3>2. CASE work[w].continued
      <4>1. answered' = [answered EXCEPT ![work[w].id] = @ + 1]
        BY <1>19, <3>2 DEF Deliver
      <4> QED
        BY <1>0, <2>3, <2>5, <3>1, <3>2, <4>1
    <3>3. CASE ~work[w].continued
      <4>1. answered' = answered
        BY <1>19, <3>3 DEF Deliver
      <4> QED
        BY <2>3, <3>1, <4>1
    <3> QED
      BY <3>2, <3>3
  <2>7. OneAtIt'
    BY <2>4 DEF OneAtIt
  <2>8. CopyCounts'
    BY <2>2, <2>4, <2>6 DEF CopyCounts, Busy
  <2>9. RoomLeft'
    BY <2>2, <2>4 DEF RoomLeft, Answering, Busy, InHand
  <2>10. RowCounts'
    <3>1. \A v \in Workers : work[v].step # "saving"
      BY <2>1, <2>4 DEF Busy, InHand
    <3> QED
      BY <1>2, <2>1, <2>2, <2>6, <3>1 DEF Counts, RowCounts
  <2>11. LimitKept'
    BY <1>2, <2>3, <2>6 DEF Counts, LimitKept
  <2> QED
    BY <2>7, <2>8, <2>9, <2>10, <2>11 DEF Counts
<1> QED
  BY <1>4, <1>5, <1>7, <1>8, <1>9, <1>10, <1>11, <1>12, <1>13, <1>14, <1>16, <1>17, <1>18,
     <1>19 DEF Works

\* The operator changes no count.
LEMMA OperatorCounts ==
  ASSUME Shape, CountsHold, Operator
  PROVE  CountsHold'
<1>1. UNCHANGED <<work, answered, count>>
  BY DEF Operator, SetSessionStatus, SetSessionStatusByRemoteJid, DeleteSession, DeleteBot,
     SetBot, Edits, Sets, SetStatus, Removes, table
<1>2. overlapped => overlapped'
  BY DEF Operator, SetSessionStatus, SetSessionStatusByRemoteJid, DeleteSession, DeleteBot,
     SetBot, Sets
<1>3. Counts => Counts'
  BY <1>1 DEF Counts, OneAtIt, CopyCounts, RoomLeft, RowCounts, LimitKept, Busy, Answering
<1> QED
  BY <1>2, <1>3 DEF CountsHold

-----------------------------------------------------------------------------
(***************************************************************************)
(* One session, and its flow.                                              *)
(***************************************************************************)
OrderHolds == ~overlapped /\ ~rearranged => InOrder

\* A goroutine that has nothing in hand before or after its step.
LEMMA OrderQuiet ==
  ASSUME InOrder, NEW w \in Workers, Only(w), ~Busy(w), work'[w].step \notin InHand,
         UNCHANGED <<table, live>>
  PROVE  InOrder'
<1>1. Latest' = Latest /\ status' = status /\ live' = live
  BY DEF Latest, Rows, table
<1>2. \A v \in Workers : Busy(v)' => v # w /\ work'[v] = work[v]
  BY DEF Busy, Only
<1>3. OneAtIt' /\ OpenedLatest' /\ OpenedInHand'
  BY <1>1, <1>2 DEF InOrder, OneAtIt, OpenedLatest, OpenedInHand, Busy
<1>4. FlowKept'
  BY <1>1 DEF InOrder, FlowKept, Only, Busy, InHand
<1>5. CopyLive'
  BY <1>1 DEF InOrder, CopyLive, Only, InHand
<1> QED
  BY <1>3, <1>4, <1>5 DEF InOrder

\* One that writes row i as s, the only one that may be open.
LEMMA OrderSave ==
  ASSUME Shape, InOrder, NEW w \in Workers, Only(w), Busy(w),
         NEW i \in Sessions, NEW s \in Statuses, NEW n \in Nat, SaveRow(i, s, n), UNCHANGED live,
         \A j \in Sessions : status[j] = "opened" => j = i,
         Busy(w)' => /\ s = "opened" => work'[w].step = "delivering" /\ work'[w].id = i
                     /\ work'[w].step # "continuing",
         work'[w].step \in {"creating", "delivering", "saving"} /\ work'[w].awaits =>
           work'[w].id \in live,
         s = "opened" => \/ i \in live
                         \/ /\ work'[w].step = "delivering" /\ work'[w].id = i
                            /\ ~work'[w].awaits
  PROVE  InOrder'
<1>0. /\ status \in [Sessions -> Statuses \union {None}] /\ age \in [Sessions -> Nat]
      /\ status' = [status EXCEPT ![i] = s] /\ Touch({i})
  BY DEF Shape, TypeOK, SaveRow
<1>1. status'[i] = s /\ \A j \in Sessions : status'[j] = "opened" => j = i /\ s = "opened"
  BY <1>0
<1>2. Latest' = {i}
  BY <1>0, <1>1, LatestWritten DEF Statuses, None
<1>3. \A v \in Workers : v # w => ~Busy(v)'
  BY DEF InOrder, OneAtIt, Busy, Only
<1>4. OneAtIt' /\ OpenedLatest'
  BY <1>1, <1>2, <1>3 DEF OneAtIt, OpenedLatest
<1>5. OpenedInHand'
  BY <1>1, <1>3 DEF OpenedInHand
<1>6. FlowKept'
  BY <1>1 DEF FlowKept
<1>7. CopyLive'
  BY <1>3 DEF CopyLive, Busy, InHand
<1> QED
  BY <1>4, <1>5, <1>6, <1>7 DEF InOrder

\* One that is alone and takes the open session, or none.
LEMMA OrderTake ==
  ASSUME Shape, InOrder, NEW w \in Workers, Reads(w),
         NEW step \in {"closing", "expiring", "pausing", "starting", "continuing"},
         NEW i \in Sessions \union {NoFlow}, NEW n \in Nat, Takes(w, step, i, n), ~overlapped',
         IF step = "starting" THEN \A j \in Sessions : status[j] # "opened"
                              ELSE i \in Latest /\ status[i] = "opened"
  PROVE  InOrder'
<1>0. work \in [Workers -> WorkSet] /\ step \in InHand
  BY DEF Shape, TypeOK, InHand
<1>1. Only(w) /\ work'[w].step = step /\ work'[w].id = i
  BY <1>0, TakesFacts
<1>2. \A v \in Workers : ~Busy(v) /\ (v # w => ~Busy(v)')
  BY <1>1 DEF Takes, Reads, OtherBusy, Busy, Only, InHand
<1>3. Latest' = Latest /\ status' = status /\ live' = live
  BY DEF Reads, table, flows, Latest, Rows
<1>4. OneAtIt' /\ OpenedLatest'
  BY <1>2, <1>3 DEF InOrder, OneAtIt, OpenedLatest
<1>5. \A j \in Sessions : status[j] = "opened" => step # "starting" /\ j = i
  BY DEF InOrder, OpenedLatest
<1>6. OpenedInHand'
  BY <1>1, <1>2, <1>3, <1>5 DEF OpenedInHand
<1>7. \A j \in Sessions : status[j] = "opened" => j \in live
  BY <1>2 DEF InOrder, FlowKept, Busy, InHand
<1>8. FlowKept'
  BY <1>3, <1>7 DEF FlowKept
<1>9. CopyLive'
  <2> SUFFICES ASSUME NEW v \in Workers,
                      \/ work'[v].step = "continuing"
                      \/ work'[v].step \in {"creating", "delivering", "saving"}
               PROVE  work'[v].id \in live'
    BY DEF CopyLive
  <2>1. v = w
    BY <1>2 DEF Busy, InHand
  <2>2. step = "continuing"
    BY <1>1, <2>1
  <2>3. i \in Sessions /\ status[i] = "opened"
    BY <2>2 DEF Latest, Rows
  <2> QED
    BY <1>1, <1>3, <1>7, <2>1, <2>3
<1> QED
  BY <1>4, <1>6, <1>8, <1>9 DEF InOrder

LEMMA WorkerOrder ==
  ASSUME Shape, OrderHolds, NEW w \in Workers, DispatchToTypebot(w) \/ Works(w)
  PROVE  OrderHolds'
<1> SUFFICES ASSUME ~overlapped', ~rearranged' PROVE InOrder'
  BY DEF OrderHolds
<1>0. /\ TypeOK /\ bot \in BotSet /\ work \in [Workers -> WorkSet] /\ work[w] \in WorkSet
      /\ count \in [Sessions -> Nat] /\ work[w].count \in Nat
  BY DEF Shape, TypeOK, WorkSet
<1>1. overlapped => overlapped'
  BY DEF Works, DispatchToTypebot, ReadBot, ReadFails, FindHandedOver, FindNothingToDo,
     FindNoSession, FindExpired, FindOpened, CloseSession, ExpireSession, PauseSession,
     StartChat, CreateSession, ContinueChat, Deliver, UpdateSession, Takes, WriteFails, ghost
<1>a. rearranged' = rearranged
  BY DEF Works, DispatchToTypebot, ReadBot, ReadFails, FindHandedOver, FindNothingToDo,
     FindNoSession, FindExpired, FindOpened, CloseSession, ExpireSession, PauseSession,
     StartChat, CreateSession, ContinueChat, Deliver, UpdateSession, Reads, WriteFails, ghost
<1>2. InOrder
  BY <1>1, <1>a DEF OrderHolds
<1>3. ~WriteFails
  BY DEF WriteFails
<1>4. CASE DispatchToTypebot(w) \/ ReadBot(w)
  <2>1. Only(w) /\ work'[w].step \notin InHand /\ ~Busy(w)
    BY <1>0, <1>4, BeforeTheRead
  <2> QED
    BY <1>2, <1>4, <2>1, OrderQuiet DEF DispatchToTypebot, ReadBot, flows
<1>5. CASE ReadFails(w) \/ FindNothingToDo(w)
  <2>1. Only(w) /\ work'[w].step = "idle"
    BY <1>0, <1>5, EndsFacts DEF ReadFails, FindNothingToDo
  <2>2. ~Busy(w) /\ UNCHANGED <<table, live>>
    BY <1>5 DEF ReadFails, FindNothingToDo, Reads, Busy, InHand, flows
  <2> QED
    BY <1>2, <2>1, <2>2, OrderQuiet DEF InHand
<1>6. \A i \in Latest : i \in Sessions /\ count[i] \in Nat
  BY <1>0 DEF Latest, Rows
<1>7. CASE FindHandedOver(w)
  <2>1. PICK i \in Latest : StopsFromMe(w, i) /\ Takes(w, "closing", i, count[i])
    BY <1>7 DEF FindHandedOver
  <2>2. Reads(w) /\ status[i] = "opened"
    BY <1>7, <2>1 DEF FindHandedOver, StopsFromMe
  <2> QED
    BY <1>2, <1>6, <2>1, <2>2, OrderTake
<1>8. CASE FindNoSession(w)
  <2>1. Reads(w) /\ Takes(w, "starting", NoFlow, 0)
    BY <1>8 DEF FindNoSession
  <2>2. Rows = {} \/ \E i \in Latest : status[i] = "closed"
    BY <1>8 DEF FindNoSession
  <2>3. \A j \in Sessions : status[j] # "opened"
    BY <1>2, <2>2 DEF InOrder, OpenedLatest, Rows, None
  <2> QED
    BY <1>2, <2>1, <2>3, OrderTake
<1>9. CASE FindExpired(w)
  <2>1. PICK i \in Latest : status[i] = "opened" /\ Takes(w, "expiring", i, count[i])
    BY <1>9 DEF FindExpired
  <2>2. Reads(w)
    BY <1>9 DEF FindExpired
  <2> QED
    BY <1>2, <1>6, <2>1, <2>2, OrderTake
<1>10. CASE FindOpened(w)
  <2>a. PICK i \in Latest : \E n \in CountFrom(i) : \E step \in RateOf(n) :
          status[i] = "opened" /\ Takes(w, step, i, n)
    BY <1>10 DEF FindOpened
  <2>b. PICK n \in CountFrom(i) : \E step \in RateOf(n) :
          status[i] = "opened" /\ Takes(w, step, i, n)
    BY <2>a
  <2>1. PICK step \in RateOf(n) : status[i] = "opened" /\ Takes(w, step, i, n)
    BY <2>b
  <2>2. i \in Sessions /\ n \in Nat /\ step \in {"closing", "continuing", "pausing"}
    BY <1>6 DEF CountFrom, RateOf
  <2>3. Reads(w)
    BY <1>10 DEF FindOpened
  <2> QED
    BY <1>2, <2>1, <2>2, <2>3, OrderTake
<1>11. CASE CloseSession(w) \/ PauseSession(w) \/ UpdateSession(w)
  <2>1. Only(w) /\ work'[w].step = "idle" /\ ~Busy(w)'
    BY <1>0, <1>11, EndsFacts DEF CloseSession, PauseSession, UpdateSession, Busy, InHand
  <2>2. /\ Busy(w) /\ UNCHANGED live /\ work[w].id \in Sessions
        /\ work[w].step \notin {"starting", "creating"}
    BY <1>11 DEF CloseSession, PauseSession, UpdateSession, Busy, InHand, flows, Shape, TypeOK
  <2>3. \A j \in Sessions : status[j] = "opened" => j = work[w].id
    BY <1>2, <2>2 DEF InOrder, OpenedInHand
  <2>4. PICK s \in Statuses : /\ SaveRow(work[w].id, s, work[w].count)
                              /\ s = "opened" => work[w].step = "saving" /\ work[w].awaits
    BY <1>3, <1>11 DEF CloseSession, PauseSession, UpdateSession, Statuses
  <2>5. s = "opened" => work[w].id \in live
    BY <1>2, <2>4 DEF InOrder, CopyLive
  <2> QED
    BY <1>0, <1>2, <2>1, <2>2, <2>3, <2>4, <2>5, OrderSave
<1>12. CASE ExpireSession(w)
  <2>1. Only(w) /\ work'[w].step = "starting"
    BY <1>0, <1>12, ExpireFacts
  <2>2. /\ Busy(w) /\ UNCHANGED live /\ work[w].id \in Sessions
        /\ work[w].step \notin {"starting", "creating"}
    BY <1>12 DEF ExpireSession, Busy, InHand, flows, Shape, TypeOK
  <2>3. \A j \in Sessions : status[j] = "opened" => j = work[w].id
    BY <1>2, <2>2 DEF InOrder, OpenedInHand
  <2>4. SaveRow(work[w].id, "closed", work[w].count)
    BY <1>3, <1>12 DEF ExpireSession
  <2> QED
    BY <1>0, <1>2, <2>1, <2>2, <2>3, <2>4, OrderSave DEF Statuses
<1>13. CASE CreateSession(w)
  <2>1. /\ SaveRow(work[w].id, "opened", 0) /\ Goes(w, "delivering") /\ UNCHANGED live
        /\ work[w].step = "creating" /\ Busy(w) /\ work[w].id \in Sessions
    BY <1>3, <1>13 DEF CreateSession, Busy, InHand, flows, Shape, TypeOK
  <2>2. /\ Only(w) /\ work'[w].step = "delivering" /\ work'[w].id = work[w].id
        /\ work'[w].awaits = work[w].awaits
    BY <1>0, <2>1, GoesFacts DEF InHand
  <2>3. \A j \in Sessions : status[j] # "opened"
    BY <1>2, <2>1 DEF InOrder, OpenedInHand
  <2>4. work[w].awaits => work[w].id \in live
    BY <1>2, <2>1 DEF InOrder, CopyLive
  <2> QED
    BY <1>2, <2>1, <2>2, <2>3, <2>4, OrderSave DEF Statuses
<1>14. ASSUME Only(w), Busy(w), UNCHANGED table, live \ {work[w].id} \subseteq live',
              \A i \in Sessions : status[i] = "opened" => work'[w].step # "creating",
              Busy(w)' => work'[w].step \in {"creating", "delivering", "saving"},
              work[w].step # "starting" /\ Busy(w)' => work'[w].id = work[w].id,
              Busy(w)' /\ work'[w].awaits => work'[w].id \in live',
              work[w].step = "starting" => work'[w].step \notin {"delivering", "saving"},
              \A i \in Sessions : status[i] = "opened" =>
                 i \in live' \/ (Busy(w)' /\ ~work'[w].awaits)
       PROVE  InOrder'
  <2>1. \A v \in Workers : v # w => ~Busy(v) /\ ~Busy(v)'
    BY <1>2, <1>14 DEF InOrder, OneAtIt, Busy, Only
  <2>2. Latest' = Latest /\ status' = status
    BY <1>14 DEF Latest, Rows, table
  <2>3. \A i \in Sessions : status[i] = "opened" =>
           work[w].step \notin {"starting", "creating"} /\ work[w].id = i
    BY <1>2, <1>14 DEF InOrder, OpenedInHand
  <2>4. OneAtIt' /\ OpenedLatest'
    BY <1>2, <2>1, <2>2 DEF InOrder, OneAtIt, OpenedLatest
  <2>5. OpenedInHand'
    BY <1>14, <2>1, <2>2, <2>3 DEF OpenedInHand
  <2>6. FlowKept'
    BY <1>14, <2>2, <2>3 DEF FlowKept
  <2>7. CopyLive'
    BY <1>14, <2>1 DEF CopyLive, Busy, InHand
  <2> QED
    BY <2>4, <2>5, <2>6, <2>7 DEF InOrder
<1>15. CASE StartChat(w)
  <2>1. /\ Only(w)
        /\ \/ work'[w].step = "idle" /\ UNCHANGED flows
           \/ /\ work'[w].step = "creating" /\ work'[w].id = used'
              /\ live \subseteq live' /\ (work'[w].awaits => used' \in live')
    BY <1>0, <1>15, StartFacts
  <2>2. UNCHANGED table /\ work[w].step = "starting" /\ Busy(w)
    BY <1>15 DEF StartChat, Busy, InHand
  <2>3. \A i \in Sessions : status[i] # "opened"
    BY <1>2, <2>2 DEF InOrder, OpenedInHand
  <2> QED
    BY <1>14, <2>1, <2>2, <2>3 DEF Busy, InHand, flows
<1>16. CASE ContinueChat(w)
  <2>1. /\ Only(w)
        /\ \/ work'[w].step = "idle" /\ live' = live
           \/ /\ work'[w].step = "delivering" /\ work'[w].id = work[w].id
              /\ live \ {work[w].id} \subseteq live' /\ (work'[w].awaits => live' = live)
    BY <1>0, <1>16, ContinueFacts
  <2>2. UNCHANGED table /\ work[w].step = "continuing" /\ Busy(w)
    BY <1>16 DEF ContinueChat, Busy, InHand
  <2>3. work[w].id \in live
    BY <1>2, <2>2 DEF InOrder, CopyLive
  <2>4. \A i \in Sessions : status[i] = "opened" => i = work[w].id
    BY <1>2, <2>2 DEF InOrder, OpenedInHand
  <2> QED
    BY <1>14, <2>1, <2>2, <2>3, <2>4 DEF Busy, InHand
<1>17. CASE Deliver(w)
  <2>1. Goes(w, "saving") /\ UNCHANGED <<table, live>> /\ work[w].step = "delivering" /\ Busy(w)
    BY <1>17 DEF Deliver, Busy, InHand, flows
  <2>2. /\ Only(w) /\ work'[w].step = "saving" /\ work'[w].id = work[w].id
        /\ work'[w].awaits = work[w].awaits
    BY <1>0, <2>1, GoesFacts DEF InHand
  <2>3. work[w].awaits => work[w].id \in live
    BY <1>2, <2>1 DEF InOrder, CopyLive
  <2>4. \A i \in Sessions : status[i] = "opened" => i = work[w].id
    BY <1>2, <2>1 DEF InOrder, OpenedInHand
  <2>5. Busy(w)'
    BY <2>2 DEF Busy, InHand
  <2> QED
    BY <1>14, <2>1, <2>2, <2>3, <2>4, <2>5
<1> QED
  BY <1>4, <1>5, <1>7, <1>8, <1>9, <1>10, <1>11, <1>12, <1>13, <1>15, <1>16, <1>17 DEF Works

LEMMA OperatorOrder ==
  ASSUME Shape, OrderHolds, Operator
  PROVE  OrderHolds'
<1> SUFFICES ASSUME ~overlapped', ~rearranged' PROVE InOrder'
  BY DEF OrderHolds
<1>0. /\ status \in [Sessions -> Statuses \union {None}] /\ age \in [Sessions -> Nat]
  BY DEF Shape, TypeOK
<1>1. UNCHANGED <<work, live>>
  BY DEF Operator, SetSessionStatus, SetSessionStatusByRemoteJid, DeleteSession, DeleteBot,
     SetBot, Edits, flows
<1>2. overlapped => overlapped'
  BY DEF Operator, SetSessionStatus, SetSessionStatusByRemoteJid, DeleteSession, DeleteBot,
     SetBot, Sets
<1>a. rearranged => rearranged'
  BY DEF Operator, SetSessionStatus, SetSessionStatusByRemoteJid, DeleteSession, DeleteBot,
     SetBot, Sets, Removes
<1>3. InOrder
  BY <1>2, <1>a DEF OrderHolds
<1>4. OneAtIt' /\ CopyLive'
  BY <1>1, <1>3 DEF InOrder, OneAtIt, CopyLive, Busy
<1>5. ASSUME \A i \in Sessions : status'[i] = "opened" => status[i] = "opened" /\ Latest' = {i}
      PROVE  InOrder'
  <2>1. OpenedLatest' /\ OpenedInHand'
    BY <1>1, <1>3, <1>5 DEF InOrder, OpenedLatest, OpenedInHand, Busy
  <2>2. FlowKept'
    BY <1>1, <1>3, <1>5 DEF InOrder, FlowKept
  <2> QED
    BY <1>4, <2>1, <2>2 DEF InOrder
<1>6. ASSUME NEW S \in SUBSET Rows, NEW s \in Statuses, Sets(S, s)
      PROVE  InOrder'
  <2>1. \A i \in Sessions : status'[i] = "opened" =>
           Latest' = {i} /\ (s = "opened" => ~AnyBusy /\ i \in live)
    BY <1>6 DEF Sets, Rearranges
  <2>2. status' = [i \in Sessions |-> IF i \in S THEN s ELSE status[i]]
    BY <1>6 DEF Sets, SetStatus
  <2>3. CASE s # "opened"
    BY <1>5, <2>1, <2>2, <2>3
  <2>4. CASE s = "opened"
    <3>1. OpenedLatest'
      BY <2>1 DEF OpenedLatest
    <3>2. OpenedInHand'
      BY <1>1, <2>1, <2>4 DEF OpenedInHand, AnyBusy, Busy
    <3>3. FlowKept'
      BY <1>1, <2>1, <2>4 DEF FlowKept
    <3> QED
      BY <1>4, <3>1, <3>2, <3>3 DEF InOrder
  <2> QED
    BY <2>3, <2>4
<1>7. ASSUME NEW S \in SUBSET Rows, Removes(S)
      PROVE  InOrder'
  <2>1. /\ status' = [i \in Sessions |-> IF i \in S THEN None ELSE status[i]]
        /\ age' = age
    BY <1>7 DEF Removes
  <2>2. Rows' \subseteq Rows
    BY <2>1 DEF Rows
  <2>3. ASSUME NEW i \in Sessions, status'[i] = "opened"
        PROVE  status[i] = "opened" /\ Latest' = {i}
    <3>1. status[i] = "opened" /\ i \in Rows'
      BY <2>1, <2>3 DEF Rows, None
    <3>2. Latest = {i}
      BY <1>3, <3>1 DEF InOrder, OpenedLatest
    <3>3. \A j \in Rows : age[i] <= age[j]
      BY <3>2 DEF Latest
    <3>4. i \in Latest'
      BY <2>1, <2>2, <3>1, <3>3 DEF Latest
    <3>5. ASSUME NEW j \in Latest' PROVE j = i
      <4>1. j \in Rows /\ age[j] <= age[i]
        BY <2>1, <2>2, <3>1, <3>5 DEF Latest
      <4>2. \A k \in Rows : age[j] <= age[k]
        BY <1>0, <3>3, <4>1 DEF Rows
      <4>3. j \in Latest
        BY <4>1, <4>2 DEF Latest
      <4> QED
        BY <3>2, <4>3
    <3> QED
      BY <3>1, <3>4, <3>5
  <2> QED
    BY <1>5, <2>3
<1>8. CASE SetSessionStatus
  BY <1>6, <1>8 DEF SetSessionStatus
<1>9. CASE SetSessionStatusByRemoteJid
  BY <1>6, <1>9 DEF SetSessionStatusByRemoteJid
<1>10. CASE DeleteSession
  BY <1>7, <1>10 DEF DeleteSession
<1>11. CASE DeleteBot
  BY <1>7, <1>11 DEF DeleteBot
<1>12. CASE SetBot
  <2>1. status' = status /\ Latest' = Latest
    BY <1>12 DEF SetBot, table, Latest, Rows
  <2> QED
    BY <1>3, <1>5, <2>1 DEF InOrder, OpenedLatest
<1> QED
  BY <1>8, <1>9, <1>10, <1>11, <1>12 DEF Operator

-----------------------------------------------------------------------------
(***************************************************************************)
(* What holds of the specification.                                        *)
(***************************************************************************)
LEMMA InitIInv == Init => IInv
<1> SUFFICES ASSUME Init PROVE IInv
  OBVIOUS
<1>1. Idle \in WorkSet /\ Idle.step = "idle"
  BY DEF Idle, NoBot, NoFlow, None, WorkSet, BotSet, InHand
<1>2. \A w \in Workers : work[w] \in WorkSet /\ work[w].step = "idle"
  BY <1>1 DEF Init
<1>3. TypeOK
  <2>1. work \in [Workers -> WorkSet]
    BY <1>1 DEF Init
  <2>2. \A w \in Workers : work[w].step \in InHand \ {"starting"} => work[w].id \in Sessions
    BY <1>2 DEF InHand
  <2>3. TableTypeOK /\ answered \in [Sessions -> Nat]
    BY DEF Init, TableTypeOK
  <2>4. bot \in BotSet /\ FlowTypeOK /\ messages \in 0..MaxMessages /\ edits \in 0..MaxEdits
    BY TypebotAssumption DEF Init, FlowTypeOK
  <2>5. overlapped \in BOOLEAN /\ rearranged \in BOOLEAN /\ held \in BOOLEAN
    BY DEF Init
  <2> QED
    BY <2>1, <2>2, <2>3, <2>4, <2>5 DEF TypeOK, TableTypeOK, FlowTypeOK
<1>4. Opened /\ FreshCount /\ PauseFound
  BY <1>2, TypebotAssumption DEF Init, Opened, FreshCount, PauseFound, Sessions, InHand
<1>5. Limit > 0 => Counts
  BY <1>2, TypebotAssumption DEF Init, Counts, OneAtIt, CopyCounts, RoomLeft, RowCounts, LimitKept,
     Busy, Answering, InHand
<1>6. InOrder
  BY <1>2 DEF Init, InOrder, OneAtIt, OpenedLatest, OpenedInHand, FlowKept, CopyLive, Busy, InHand,
     None
<1> QED
  BY <1>3, <1>4, <1>5, <1>6 DEF IInv

LEMMA NextIInv == IInv /\ [Next]_vars => IInv'
<1> SUFFICES ASSUME IInv, [Next]_vars PROVE IInv'
  OBVIOUS
<1>1. Shape /\ PauseFound /\ CountsHold /\ OrderHolds
  BY DEF IInv, Shape, CountsHold, OrderHolds
<1>2. Shape'
  BY <1>1, NextShape
<1>3. PauseFound'
  <2>1. CASE UNCHANGED vars
    BY <1>1, <2>1 DEF vars, table, ghost, PauseFound, AnyBusy, Busy, Rows, Latest
  <2> QED
    BY <1>1, <2>1, WorkerPause, OperatorPause DEF Next
<1>4. CountsHold'
  <2>1. CASE UNCHANGED vars
    <3>1. UNCHANGED <<work, answered, count, overlapped>>
      BY <2>1 DEF vars, table, ghost
    <3> QED
      BY <1>1, <3>1 DEF CountsHold, Counts, OneAtIt, CopyCounts, RoomLeft, RowCounts, LimitKept,
         Busy, Answering
  <2> QED
    BY <1>1, <2>1, WorkerCounts, OperatorCounts DEF Next
<1>5. OrderHolds'
  <2>1. CASE UNCHANGED vars
    <3>1. /\ UNCHANGED <<work, live, status, overlapped, rearranged>>
          /\ Latest' = Latest
      BY <2>1 DEF vars, table, flows, ghost, Latest, Rows
    <3> QED
      BY <1>1, <3>1 DEF OrderHolds, InOrder, OneAtIt, OpenedLatest, OpenedInHand, FlowKept,
         CopyLive, Busy
  <2> QED
    BY <1>1, <2>1, WorkerOrder, OperatorOrder DEF Next
<1> QED
  BY <1>2, <1>3, <1>4, <1>5 DEF IInv, Shape, CountsHold, OrderHolds

LEMMA SpecIInv == Spec => []IInv
  BY InitIInv, NextIInv, PTL DEF Spec

\* Every variable stays in its set, and a goroutine that has read the session
\* has one in hand.
THEOREM TypeCorrect == Spec => []TypeOK
<1>1. IInv => TypeOK
  BY DEF IInv
<1> QED
  BY <1>1, SpecIInv, PTL

\* A pause (pauseSession, or the operator's) that found no message of the
\* contact in work keeps the bot away from him until the operator ends it.
THEOREM PauseIsKept == Spec => []PauseHolds
<1>1. IInv => PauseHolds
  BY DEF IInv, PauseFound, PauseHolds
<1> QED
  BY <1>1, SpecIInv, PTL

\* While the messages of a contact come one after the other and every write
\* succeeds, a session has no more answers in a window than withinContactRate
\* allows, and, unless a status write of the operator Rearranges the sessions,
\* ProcessMessage keeps one of them open at most and continues no flow the
\* Typebot has discarded.
THEOREM OrderIsKept == Spec => []OneAfterTheOther
<1>1. IInv => OneAfterTheOther
  <2> SUFFICES ASSUME IInv PROVE OneAfterTheOther
    OBVIOUS
  <2>1. OneOpened
    BY DEF IInv, InOrder, OpenedLatest, OneOpened
  <2>2. LiveContinued
    BY DEF IInv, InOrder, CopyLive, LiveContinued
  <2>3. WithinRate
    BY DEF IInv, Counts, LimitKept, WithinRate
  <2> QED
    BY <2>1, <2>2, <2>3 DEF OneAfterTheOther
<1> QED
  BY <1>1, SpecIInv, PTL
=============================================================================
