---------------------- MODULE ReconnectSupervisorProofs ----------------------
(***************************************************************************)
(* Proofs about ReconnectSupervisor for every set of goroutines, every set  *)
(* of API calls and every bound on calls and faults.                        *)
(*                                                                         *)
(* Every action moves at most one goroutine g to a step p under a kind k    *)
(* (Become), except EndRuntime and Crash, which move several.  The lemmas   *)
(* say when such a move keeps the discipline of the slot.                   *)
(***************************************************************************)
EXTENDS ReconnectSupervisor, TLAPS

\* What the tables of the module hold.
LEMMA Tables ==
    /\ \A p \in Pc : KindsAt[p] \subseteq Kind
    /\ \A k \in Kind : ReasonOf[k] \in Reason /\ AfterWrite[k] \in Pc
    /\ \A k \in Kind : AfterStop[k] = IF k \in Holder THEN "recheck" ELSE "idle"
BY DEF KindsAt, ReasonOf, AfterWrite, AfterStop, Pc, Kind, Handler, Holder,
       Reason

\* A goroutine that goes to p keeps its kind; one that returns loses it.
LEMMA MovesAreBecome ==
    ASSUME TypeOK, NEW g \in Goroutine
    PROVE  /\ \A p \in Pc : Goto(g, p) => Become(g, thread[g].kind, p)
           /\ Return(g) => Become(g, "schedule", "idle")
           /\ thread[g].kind \in Kind /\ thread[g].pc \in Pc
<1>1. thread[g] \in [kind: Kind, pc: Pc]
  BY DEF TypeOK
<1>2. \A p \in Pc : [thread[g] EXCEPT !.pc = p] = [kind |-> thread[g].kind, pc |-> p]
  BY <1>1
<1>3. QED
  BY <1>1, <1>2 DEF Goto, Become, Return, Idle

\* Whether a goroutine of kind k at step p holds the slot.
Holds(k, p) == k \in Holder /\ p \notin {"idle", "reserve"}

\* A move by one goroutine keeps the slot exclusive if it neither takes nor
\* leaves it, takes it while it is free, or frees it on leaving.
LEMMA BecomeKeepsSlot ==
    ASSUME TypeOK, PcMatchesKind, SlotExclusive,
           NEW g \in Goroutine, NEW k \in Kind, NEW p \in Pc,
           Become(g, k, p), k \in KindsAt[p],
           \/ (Holding(g) <=> Holds(k, p)) /\ (inFlight' <=> inFlight)
           \/ ~inFlight /\ Holds(k, p) /\ inFlight'
           \/ Holding(g) /\ ~Holds(k, p) /\ ~inFlight'
    PROVE  /\ thread' \in [Goroutine -> [kind: Kind, pc: Pc]]
           /\ PcMatchesKind'
           /\ SlotExclusive'
<1>1. thread \in [Goroutine -> [kind: Kind, pc: Pc]]
  BY DEF TypeOK
<1>2. thread' = [thread EXCEPT ![g] = [kind |-> k, pc |-> p]]
  BY DEF Become
<1>3. thread' \in [Goroutine -> [kind: Kind, pc: Pc]]
  BY <1>1, <1>2
<1>4. /\ thread'[g].kind = k /\ thread'[g].pc = p
      /\ \A h \in Goroutine \ {g} : thread'[h] = thread[h]
  BY <1>1, <1>2
<1>5. PcMatchesKind'
  BY <1>4 DEF PcMatchesKind
<1>6. /\ Holding(g)' <=> Holds(k, p)
      /\ \A h \in Goroutine \ {g} : Holding(h)' <=> Holding(h)
  BY <1>4 DEF Holding, Holds
<1>7. SlotExclusive'
  BY <1>6 DEF SlotExclusive
<1>8. QED
  BY <1>3, <1>5, <1>7

\* The variables other than thread.
DataTypeOK ==
    /\ connected \in BOOLEAN
    /\ inFlight \in BOOLEAN
    /\ reason \in Reason
    /\ device \in BOOLEAN
    /\ rt \in RtState
    /\ kill \in BOOLEAN
    /\ events \subseteq Handler
    /\ calls \in Nat
    /\ faults \in Nat
    /\ asked \in BOOLEAN
    /\ lateQR \in Nat

SlotInv == TypeOK /\ PcMatchesKind /\ SlotExclusive

\* What a step owes to the invariant about goroutines and the slot.
SlotKept ==
    /\ thread' \in [Goroutine -> [kind: Kind, pc: Pc]]
    /\ PcMatchesKind'
    /\ SlotExclusive'

\* A step that moves no goroutine and leaves the slot alone.
LEMMA StillKeepsSlot ==
    ASSUME SlotInv, UNCHANGED thread, inFlight' <=> inFlight
    PROVE  SlotKept
BY DEF SlotInv, SlotKept, TypeOK, PcMatchesKind, SlotExclusive, Holding

\* Every step of a goroutine keeps the discipline of the slot.
LEMMA GoroutineKeepsSlot ==
    ASSUME SlotInv, NEW g \in Goroutine, GoroutineStep(g) \/ FaultyStep(g)
    PROVE  SlotKept
<1> DEFINE k == thread[g].kind
<1>1. /\ \A q \in Pc : Goto(g, q) => Become(g, k, q)
      /\ Return(g) => Become(g, "schedule", "idle")
      /\ k \in Kind /\ thread[g].pc \in Pc
  BY MovesAreBecome DEF SlotInv
<1>2. k \in KindsAt[thread[g].pc]
  BY DEF SlotInv, PcMatchesKind
<1> USE DEF At
<1>3. Holding(g) => inFlight
  BY DEF SlotInv, SlotExclusive
<1>4. ASSUME NEW j \in Kind, NEW q \in Pc, Become(g, j, q), j \in KindsAt[q],
             \/ (Holding(g) <=> Holds(j, q)) /\ (inFlight' <=> inFlight)
             \/ ~inFlight /\ Holds(j, q) /\ inFlight'
             \/ Holding(g) /\ ~Holds(j, q) /\ ~inFlight'
      PROVE  SlotKept
  BY <1>4, BecomeKeepsSlot DEF SlotInv, SlotKept
<1> HIDE DEF k
<1>q. /\ "schedule" \in Kind /\ "supervisor" \in Kind
      /\ \A q \in {"idle", "setConnected", "setReason", "decide", "reserve",
                    "delay", "stop", "wait", "recheck", "start", "probe",
                    "signal"} : q \in Pc
  BY DEF Kind, Holder, Handler, Pc
<1> USE DEF Kind, Holder, Handler, KindsAt, Holds
<1>5. CASE SetConnected(g)
  <2>1. Become(g, k, "setReason") /\ k \in KindsAt["setReason"]
    BY <1>5, <1>1, <1>2, <1>q DEF SetConnected
  <2>2. QED
    BY <1>5, <1>1, <1>4, <1>q, <2>1 DEF SetConnected, Holding, k
<1>6. CASE SetReason(g)
  <2>1. Become(g, "schedule", "idle") \/ Become(g, k, AfterWrite[k])
    BY <1>6, <1>1, Tables DEF SetReason, k
  <2>2. QED
    BY <1>6, <1>1, <1>2, <1>4, <1>q, <2>1 DEF SetReason, Holding, k, AfterWrite
<1>7. CASE Decide(g)
  <2>1. Become(g, "schedule", "idle") \/ Become(g, k, "reserve")
    BY <1>7, <1>1, <1>q DEF Decide, k
  <2>2. QED
    BY <1>7, <1>1, <1>2, <1>3, <1>4, <1>q, <2>1 DEF Decide, Holding, k
<1>8. CASE DecideBlind(g)
  <2>1. Become(g, k, "reserve")
    BY <1>8, <1>1, <1>q DEF DecideBlind, k
  <2>2. QED
    BY <1>8, <1>1, <1>2, <1>3, <1>4, <1>q, <2>1 DEF DecideBlind, Holding, k
<1>9. CASE BeginReconnect(g)
  <2>1. \/ inFlight /\ Become(g, "schedule", "idle")
        \/ ~inFlight /\ k = "explicit" /\ Become(g, k, "stop")
        \/ ~inFlight /\ Become(g, "supervisor", "delay")
    BY <1>9, <1>1, <1>q DEF BeginReconnect, k
  <2>2. QED
    BY <1>9, <1>1, <1>2, <1>3, <1>4, <1>q, <2>1 DEF BeginReconnect, Holding, k
<1>10. CASE DelayEnds(g)
  <2>1. \/ Become(g, "schedule", "idle") /\ ~inFlight'
        \/ Become(g, k, "stop") /\ inFlight'
    <3>1. CASE StayDown
      BY <3>1, <1>10, <1>1 DEF DelayEnds
    <3>2. CASE ~StayDown
      BY <3>2, <1>10, <1>1, <1>q DEF DelayEnds
    <3>3. QED
      BY <3>1, <3>2
  <2>2. k = "supervisor" /\ thread[g].pc = "delay"
    BY <1>10, <1>2 DEF DelayEnds
  <2>3. Holding(g) /\ inFlight
    BY <2>2, <1>3 DEF Holding, k
  <2>4. QED
    BY <1>4, <1>q, <2>1, <2>2, <2>3
<1>11. CASE DelayEndsBlind(g)
  <2>1. Become(g, "schedule", "decide")
    BY <1>11, <1>1, <1>q DEF DelayEndsBlind, Reschedule, k
  <2>2. QED
    BY <1>11, <1>1, <1>2, <1>3, <1>4, <1>q, <2>1 DEF DelayEndsBlind, Reschedule, Holding, k
<1>12. CASE Stop(g)
  <2>1. \/ Become(g, k, "wait")
        \/ k \in Holder /\ Become(g, k, "recheck")
        \/ k \notin Holder /\ Become(g, "schedule", "idle")
    BY <1>12, <1>1, <1>q, Tables DEF Stop, k
  <2>2. QED
    BY <1>12, <1>1, <1>2, <1>3, <1>4, <1>q, <2>1 DEF Stop, Holding, k
<1>13. CASE StopTimesOut(g)
  <2>1. \/ k = "supervisor" /\ Become(g, "schedule", "decide")
        \/ k # "supervisor" /\ Become(g, "schedule", "idle")
    BY <1>13, <1>1, <1>q DEF StopTimesOut, Reschedule, k
  <2>2. QED
    BY <1>13, <1>1, <1>2, <1>3, <1>4, <1>q, <2>1 DEF StopTimesOut, Reschedule, Holding, k
<1>14. CASE Recheck(g)
  <2>1. \/ Become(g, "schedule", "idle") /\ ~inFlight'
        \/ Become(g, k, "setConnected") /\ inFlight' = inFlight
    BY <1>14, <1>1, <1>q DEF Recheck, k
  <2>2. QED
    BY <1>14, <1>1, <1>2, <1>3, <1>4, <1>q, <2>1 DEF Recheck, Holding, k
<1>15. CASE RecheckBlind(g)
  <2>1. Become(g, k, "setConnected")
    BY <1>15, <1>1, <1>q DEF RecheckBlind, k
  <2>2. QED
    BY <1>15, <1>1, <1>2, <1>3, <1>4, <1>q, <2>1 DEF RecheckBlind, Holding, k
<1>16. CASE RestartFails(g)
  <2>1. \/ Become(g, "schedule", "decide")
        \/ Become(g, "schedule", "idle")
    BY <1>16, <1>1, <1>q DEF RestartFails, Reschedule, k
  <2>2. QED
    BY <1>16, <1>1, <1>2, <1>3, <1>4, <1>q, <2>1 DEF RestartFails, Reschedule, Holding, k
<1>17. CASE Start(g)
  <2>1. \/ k = "supervisor" /\ Become(g, k, "probe") /\ inFlight' = inFlight
        \/ k # "supervisor" /\ Become(g, "schedule", "idle") /\ ~inFlight'
    BY <1>17, <1>1, <1>q DEF Start, k
  <2>2. QED
    BY <1>17, <1>1, <1>2, <1>3, <1>4, <1>q, <2>1 DEF Start, Holding, k
<1>18. CASE ProbeConnected(g)
  <2>1. Become(g, "schedule", "idle")
    BY <1>18, <1>1, <1>q DEF ProbeConnected, k
  <2>2. QED
    BY <1>18, <1>1, <1>2, <1>3, <1>4, <1>q, <2>1 DEF ProbeConnected, Holding, k
<1>19. CASE ProbeTimesOut(g)
  <2>1. Become(g, "schedule", "decide")
    BY <1>19, <1>1, <1>q DEF ProbeTimesOut, Reschedule, k
  <2>2. QED
    BY <1>19, <1>1, <1>2, <1>3, <1>4, <1>q, <2>1 DEF ProbeTimesOut, Reschedule, Holding, k
<1>20. CASE Signal(g)
  <2>1. Become(g, "schedule", "idle")
    BY <1>20, <1>1, <1>q DEF Signal, k
  <2>2. QED
    BY <1>20, <1>1, <1>2, <1>3, <1>4, <1>q, <2>1 DEF Signal, Holding, k
<1>21. QED
  BY <1>5, <1>6, <1>7, <1>8, <1>9, <1>10, <1>11, <1>12, <1>13, <1>14, <1>15,
     <1>16, <1>17, <1>18, <1>19, <1>20 DEF GoroutineStep, FaultyStep

\* An idle goroutine that takes up an event or a call does not hold the slot.
LEMMA RequestsKeepSlot ==
    ASSUME SlotInv, NEW g \in Goroutine,
           Deliver(g) \/ ConnectFails(g) \/ Request(g)
    PROVE  SlotKept
<1>1. thread[g].pc = "idle" /\ ~Holding(g)
  BY DEF Deliver, ConnectFails, Request, Disconnect, Logout, Reconnect, At,
         Holding
<1>2. /\ inFlight' = inFlight
      /\ \E k \in Kind, q \in Pc :
             Become(g, k, q) /\ k \in KindsAt[q] /\ ~Holds(k, q)
  <2>1. CASE Deliver(g)
    BY <2>1 DEF Deliver, SlotInv, TypeOK, Kind, Handler, Pc, KindsAt, Holds,
                Holder
  <2>2. CASE ConnectFails(g)
    BY <2>2 DEF ConnectFails, Kind, Handler, Holder, Pc, KindsAt, Holds
  <2>3. CASE Disconnect(g)
    BY <2>3 DEF Disconnect, Kind, Handler, Holder, Pc, KindsAt, Holds
  <2>4. CASE Logout(g)
    BY <2>4 DEF Logout, Kind, Handler, Holder, Pc, KindsAt, Holds
  <2>5. CASE Reconnect(g)
    BY <2>5 DEF Reconnect, Kind, Handler, Holder, Pc, KindsAt, Holds
  <2>6. QED
    BY <2>1, <2>2, <2>3, <2>4, <2>5 DEF Request
<1>3. QED
  BY <1>1, <1>2, BecomeKeepsSlot DEF SlotInv, SlotKept

\* done releases only goroutines that go on holding what they hold.
LEMMA EndRuntimeKeepsSlot ==
    ASSUME SlotInv, EndRuntime
    PROVE  SlotKept
<1>1. thread \in [Goroutine -> [kind: Kind, pc: Pc]]
  BY DEF SlotInv, TypeOK
<1>2. \A g \in Goroutine :
          \/ thread'[g] = thread[g]
          \/ /\ thread[g].pc = "wait" /\ thread[g].kind \notin Holder
             /\ thread'[g] = Idle
          \/ /\ thread[g].pc = "wait" /\ thread[g].kind \in Holder
             /\ thread'[g] = [kind |-> thread[g].kind, pc |-> "recheck"]
  <2> TAKE g \in Goroutine
  <2>1. thread[g] \in [kind: Kind, pc: Pc]
    BY <1>1
  <2>2. AfterStop[thread[g].kind]
            = IF thread[g].kind \in Holder THEN "recheck" ELSE "idle"
    BY <2>1, Tables
  <2>3. [thread[g] EXCEPT !.pc = "recheck"]
            = [kind |-> thread[g].kind, pc |-> "recheck"]
    BY <2>1
  <2>4. QED
    BY <2>2, <2>3 DEF EndRuntime, At
<1>3. Idle \in [kind: Kind, pc: Pc] /\ Idle.kind = "schedule" /\ Idle.pc = "idle"
  BY DEF Idle, Kind, Pc
<1>4. \A g \in Goroutine :
          /\ thread'[g] \in [kind: Kind, pc: Pc]
          /\ thread'[g].kind \in KindsAt[thread'[g].pc]
          /\ Holding(g)' <=> Holding(g)
  <2> TAKE g \in Goroutine
  <2>1. thread[g] \in [kind: Kind, pc: Pc]
    BY <1>1
  <2>2. CASE thread'[g] = thread[g]
    BY <2>1, <2>2 DEF SlotInv, PcMatchesKind, Holding
  <2>3. CASE /\ thread[g].pc = "wait" /\ thread[g].kind \notin Holder
             /\ thread'[g] = Idle
    BY <2>3, <1>3 DEF Holding, Holder, KindsAt
  <2>4. CASE /\ thread[g].pc = "wait" /\ thread[g].kind \in Holder
             /\ thread'[g] = [kind |-> thread[g].kind, pc |-> "recheck"]
    <3>1. thread'[g].kind = thread[g].kind /\ thread'[g].pc = "recheck"
      BY <2>4
    <3>2. thread'[g] \in [kind: Kind, pc: Pc]
      BY <2>1, <2>4 DEF Pc
    <3>3. QED
      BY <2>4, <3>1, <3>2 DEF Holding, KindsAt
  <2>5. QED
    BY <1>2, <2>2, <2>3, <2>4
<1>5. thread' \in [Goroutine -> [kind: Kind, pc: Pc]] /\ PcMatchesKind'
  BY <1>4 DEF EndRuntime, PcMatchesKind
<1>6. QED
  BY <1>4, <1>5 DEF SlotKept, SlotInv, SlotExclusive, EndRuntime

\* A crash leaves no goroutine and no slot.
LEMMA CrashKeepsSlot ==
    ASSUME SlotInv, Crash
    PROVE  SlotKept
<1>1. thread' = [g \in Goroutine |-> Idle] /\ ~inFlight'
  BY DEF Crash
<1>2. thread' \in [Goroutine -> [kind: Kind, pc: Pc]]
  BY <1>1 DEF Idle, Kind, Pc
<1>3. PcMatchesKind' /\ SlotExclusive'
  BY <1>1 DEF PcMatchesKind, KindsAt, Idle, SlotExclusive, Holding
<1>4. QED
  BY <1>2, <1>3 DEF SlotKept

\* Every step keeps the discipline of the slot.
LEMMA NextKeepsSlot ==
    ASSUME SlotInv, [Next]_vars
    PROVE  SlotKept
<1>1. CASE UNCHANGED vars
  BY <1>1, StillKeepsSlot DEF vars
<1>2. CASE \E g \in Goroutine : GoroutineStep(g) \/ FaultyStep(g)
  BY <1>2, GoroutineKeepsSlot
<1>3. CASE \E g \in Threads : Deliver(g) \/ ConnectFails(g) \/ Request(g)
  BY <1>3, RequestsKeepSlot DEF Goroutine
<1>4. CASE RuntimeStep
  <2>1. CASE EndRuntime
    BY <2>1, EndRuntimeKeepsSlot
  <2>2. CASE Connect \/ TakeKill \/ WriteStopped
    BY <2>2, StillKeepsSlot DEF Connect, TakeKill, WriteStopped
  <2>3. QED
    BY <1>4, <2>1, <2>2 DEF RuntimeStep
<1>5. CASE Environment
  <2>1. CASE Crash
    BY <2>1, CrashKeepsSlot
  <2>2. CASE LoseConnection \/ Replace \/ PhoneLogsOut \/ QRWindowEnds \/ Pair
    BY <2>2, StillKeepsSlot DEF LoseConnection, Replace, PhoneLogsOut,
        QRWindowEnds, Pair
  <2>3. QED
    BY <1>5, <2>1, <2>2 DEF Environment
<1>6. CASE WatchdogTick
  <2>1. Watchdog \in Goroutine /\ ~Holding(Watchdog)
    BY <1>6 DEF Goroutine, WatchdogTick, At, Holding
  <2>2. /\ Become(Watchdog, "schedule", "decide") /\ inFlight' = inFlight
        /\ "schedule" \in Kind /\ "decide" \in Pc
        /\ "schedule" \in KindsAt["decide"] /\ ~Holds("schedule", "decide")
    BY <1>6 DEF WatchdogTick, Kind, Pc, KindsAt, Holds, Holder
  <2>3. QED
    BY <2>1, <2>2, BecomeKeepsSlot DEF SlotInv, SlotKept
<1>7. CASE ConnectCall
  BY <1>7, StillKeepsSlot DEF ConnectCall
<1>8. QED
  BY <1>1, <1>2, <1>3, <1>4, <1>5, <1>6, <1>7 DEF Next

\* Every step keeps the types of the other variables.
LEMMA NextKeepsData ==
    ASSUME SlotInv, [Next]_vars
    PROVE  DataTypeOK'
<1> USE DEF TypeOK, DataTypeOK, row, runtime, bounds, history
<1>0. TypeOK
  BY DEF SlotInv
<1>1. CASE UNCHANGED vars
  BY <1>0, <1>1 DEF vars
<1>2. CASE \E g \in Goroutine : GoroutineStep(g) \/ FaultyStep(g)
  <2>1. PICK g \in Goroutine : GoroutineStep(g) \/ FaultyStep(g)
    BY <1>2
  <2>2. thread[g].kind \in Kind
    BY <1>0
  <2>3. ReasonOf[thread[g].kind] \in Reason
    BY <2>2, Tables
  <2>4. CASE SetConnected(g)
    BY <1>0, <2>4 DEF SetConnected
  <2>5. CASE SetReason(g)
    BY <1>0, <2>3, <2>5 DEF SetReason
  <2>6. CASE Stop(g)
    BY <1>0, <2>6 DEF Stop
  <2>7. CASE Start(g)
    <3>1. inFlight' \in BOOLEAN
      BY <1>0, <2>7 DEF Start
    <3>2. connected' \in BOOLEAN /\ rt' \in RtState /\ lateQR' \in Nat
      BY <1>0, <2>7 DEF Start, StartRuntime, RtState
    <3>3. UNCHANGED <<reason, device, kill, events, bounds, asked>>
      BY <2>7 DEF Start
    <3>4. QED
      BY <1>0, <3>1, <3>2, <3>3
  <2>8. CASE Signal(g)
    BY <1>0, <2>8 DEF Signal
  <2>9. CASE \/ Decide(g) \/ BeginReconnect(g) \/ DelayEnds(g) \/ Recheck(g)
             \/ ProbeConnected(g) \/ ProbeTimesOut(g)
    <3>1. UNCHANGED <<row, runtime, bounds, history>>
      BY <2>9 DEF Decide, BeginReconnect, DelayEnds, Recheck, ProbeConnected,
          ProbeTimesOut
    <3>2. inFlight' \in BOOLEAN
      BY <1>0, <2>9 DEF Decide, BeginReconnect, DelayEnds, Recheck,
          ProbeConnected, ProbeTimesOut, Reschedule
    <3>3. QED
      BY <1>0, <3>1, <3>2
  <2>11. CASE StopTimesOut(g) \/ FaultyStep(g)
    <3>1. /\ UNCHANGED <<row, runtime, calls, asked>>
          /\ lateQR' \in {lateQR, 0} /\ faults' \in {faults, faults + 1}
      BY <2>11 DEF StopTimesOut, FaultyStep, DecideBlind, DelayEndsBlind,
          RecheckBlind, RestartFails, Fault
    <3>2. inFlight' \in BOOLEAN
      BY <1>0, <2>11 DEF StopTimesOut, FaultyStep, DecideBlind, DelayEndsBlind,
          RecheckBlind, RestartFails, Reschedule
    <3>3. QED
      BY <1>0, <3>1, <3>2
  <2>10. QED
    BY <2>1, <2>4, <2>5, <2>6, <2>7, <2>8, <2>9, <2>11 DEF GoroutineStep
<1>3. CASE \E g \in Threads : Deliver(g) \/ ConnectFails(g) \/ Request(g)
  <2>1. PICK g \in Threads : Deliver(g) \/ ConnectFails(g) \/ Request(g)
    BY <1>3
  <2>2. CASE Deliver(g)
    BY <1>0, <2>2 DEF Deliver
  <2>3. CASE ConnectFails(g)
    BY <1>0, <2>3 DEF ConnectFails, Fault, RtState
  <2>4. CASE Disconnect(g)
    BY <1>0, <2>4 DEF Disconnect, CallAPI
  <2>5. CASE Logout(g)
    <3>1. /\ connected' \in BOOLEAN /\ device' \in BOOLEAN
          /\ kill' \in BOOLEAN /\ asked' \in BOOLEAN
          /\ inFlight' \in BOOLEAN
      BY <1>0, <2>5 DEF Logout, CallAPI, RtState
    <3>2. /\ reason' \in Reason /\ rt' \in RtState /\ events' \subseteq Handler
      BY <1>0, <2>5 DEF Logout, CallAPI, RtState
    <3>3. calls' \in Nat /\ faults' \in Nat /\ lateQR' \in Nat
      BY <1>0, <2>5 DEF Logout, CallAPI, RtState
    <3>4. QED
      BY <3>1, <3>2, <3>3
  <2>6. CASE Reconnect(g)
    <3>1. /\ connected' \in BOOLEAN /\ device' \in BOOLEAN
          /\ kill' \in BOOLEAN /\ asked' \in BOOLEAN
          /\ inFlight' \in BOOLEAN
      BY <1>0, <2>6 DEF Reconnect, CallAPI
    <3>2. /\ reason' \in Reason /\ rt' \in RtState /\ events' \subseteq Handler
      BY <1>0, <2>6 DEF Reconnect, CallAPI
    <3>3. calls' \in Nat /\ faults' \in Nat /\ lateQR' \in Nat
      BY <1>0, <2>6 DEF Reconnect, CallAPI
    <3>4. QED
      BY <3>1, <3>2, <3>3
  <2>7. QED
    BY <2>1, <2>2, <2>3, <2>4, <2>5, <2>6 DEF Request
<1>4. CASE RuntimeStep
  BY <1>0, <1>4 DEF RuntimeStep, Connect, TakeKill, WriteStopped, EndRuntime,
      RtState, Handler
<1>5. CASE Environment
  <2>1. CASE LoseConnection
    <3>1. /\ connected' \in BOOLEAN /\ device' \in BOOLEAN
          /\ kill' \in BOOLEAN /\ asked' \in BOOLEAN
          /\ inFlight' \in BOOLEAN
      BY <1>0, <2>1 DEF LoseConnection, Fault, RtState, Handler
    <3>2. /\ reason' \in Reason /\ rt' \in RtState /\ events' \subseteq Handler
      BY <1>0, <2>1 DEF LoseConnection, Fault, RtState, Handler
    <3>3. calls' \in Nat /\ faults' \in Nat /\ lateQR' \in Nat
      BY <1>0, <2>1 DEF LoseConnection, Fault, RtState, Handler
    <3>4. QED
      BY <3>1, <3>2, <3>3
  <2>7. CASE Replace
    <3>1. /\ connected' \in BOOLEAN /\ device' \in BOOLEAN
          /\ kill' \in BOOLEAN /\ asked' \in BOOLEAN
          /\ inFlight' \in BOOLEAN
      BY <1>0, <2>7 DEF Replace, Fault, RtState, Handler
    <3>2. /\ reason' \in Reason /\ rt' \in RtState /\ events' \subseteq Handler
      BY <1>0, <2>7 DEF Replace, Fault, RtState, Handler
    <3>3. calls' \in Nat /\ faults' \in Nat /\ lateQR' \in Nat
      BY <1>0, <2>7 DEF Replace, Fault, RtState, Handler
    <3>4. QED
      BY <3>1, <3>2, <3>3
  <2>2. CASE PhoneLogsOut
    <3>1. /\ connected' \in BOOLEAN /\ device' \in BOOLEAN
          /\ kill' \in BOOLEAN /\ asked' \in BOOLEAN
          /\ inFlight' \in BOOLEAN
      BY <1>0, <2>2 DEF PhoneLogsOut, Fault, RtState, Handler
    <3>2. /\ reason' \in Reason /\ rt' \in RtState /\ events' \subseteq Handler
      BY <1>0, <2>2 DEF PhoneLogsOut, Fault, RtState, Handler
    <3>3. calls' \in Nat /\ faults' \in Nat /\ lateQR' \in Nat
      BY <1>0, <2>2 DEF PhoneLogsOut, Fault, RtState, Handler
    <3>4. QED
      BY <3>1, <3>2, <3>3
  <2>3. CASE QRWindowEnds
    BY <1>0, <2>3 DEF QRWindowEnds, Reason
  <2>4. CASE Pair
    BY <1>0, <2>4 DEF Pair, RtState, Reason, Handler
  <2>5. CASE Crash
    <3>1. /\ connected' \in BOOLEAN /\ device' \in BOOLEAN
          /\ kill' \in BOOLEAN /\ asked' \in BOOLEAN
          /\ inFlight' \in BOOLEAN
      BY <1>0, <2>5 DEF Crash, Fault, RtState
    <3>2. /\ reason' \in Reason /\ rt' \in RtState /\ events' \subseteq Handler
      BY <1>0, <2>5 DEF Crash, Fault, RtState
    <3>3. calls' \in Nat /\ faults' \in Nat /\ lateQR' \in Nat
      BY <1>0, <2>5 DEF Crash, Fault, RtState
    <3>4. QED
      BY <3>1, <3>2, <3>3
  <2>8. QED
    BY <1>5, <2>1, <2>2, <2>3, <2>4, <2>5, <2>7 DEF Environment
<1>6. CASE WatchdogTick \/ ConnectCall
  <2>1. CASE WatchdogTick
    BY <1>0, <2>1 DEF WatchdogTick
  <2>2. CASE ConnectCall
    <3>1. /\ connected' \in BOOLEAN /\ device' \in BOOLEAN
          /\ kill' \in BOOLEAN /\ asked' \in BOOLEAN
          /\ inFlight' \in BOOLEAN
      BY <1>0, <2>2 DEF ConnectCall, StartRuntime, CallAPI, RtState
    <3>2. /\ reason' \in Reason /\ rt' \in RtState /\ events' \subseteq Handler
      BY <1>0, <2>2 DEF ConnectCall, StartRuntime, CallAPI, RtState
    <3>3. calls' \in Nat /\ faults' \in Nat /\ lateQR' \in Nat
      BY <1>0, <2>2 DEF ConnectCall, StartRuntime, CallAPI, RtState
    <3>4. QED
      BY <3>1, <3>2, <3>3
  <2>3. QED
    BY <1>6, <2>1, <2>2
<1>7. QED
  BY <1>1, <1>2, <1>3, <1>4, <1>5, <1>6 DEF Next

\* Types, steps and the slot are inductive on their own.
LEMMA SlotInvInductive ==
    ASSUME SlotInv, [Next]_vars
    PROVE  SlotInv'
BY NextKeepsData, NextKeepsSlot DEF SlotInv, SlotKept, TypeOK, DataTypeOK

\* A supervisor that has passed its recheck and not started anything yet.
PastRecheck(g) ==
    /\ thread[g].kind = "supervisor"
    /\ thread[g].pc \in {"setConnected", "setReason", "start"}

\* A step that starts no runtime, deletes no device and lets no supervisor past
\* its recheck without a device does not spend the last start.
LEMMA NoNewStart ==
    ASSUME IInv, lateQR' = lateQR, device' \/ ~device,
           \A g \in Goroutine : PastRecheck(g)' => PastRecheck(g) \/ device'
    PROVE  NoQRLoop' /\ LastStart'
BY DEF IInv, NoQRLoop, LastStart, PastRecheck

\* Where a step leaves its goroutine: among the supervisors past their recheck
\* only if it was there, the device is still there, or it could not tell.
LEMMA StepMoves ==
    ASSUME SlotInv, NEW g \in Goroutine, GoroutineStep(g) \/ FaultyStep(g),
           ~RecheckBlind(g)
    PROVE  \E k \in Kind, q \in Pc :
               /\ Become(g, k, q)
               /\ k = "supervisor" /\ q \in {"setConnected", "setReason", "start"}
                      => PastRecheck(g) \/ device
<1> DEFINE j == thread[g].kind
<1> DEFINE Fine(k, q) ==
      k = "supervisor" /\ q \in {"setConnected", "setReason", "start"}
          => PastRecheck(g) \/ device
<1>1. /\ \A q \in Pc : Goto(g, q) => Become(g, j, q)
      /\ Return(g) => Become(g, "schedule", "idle")
      /\ j \in Kind /\ thread[g].pc \in Pc
  BY MovesAreBecome DEF SlotInv
<1>2. j \in KindsAt[thread[g].pc]
  BY DEF SlotInv, PcMatchesKind
<1> DEFINE Goal == \E k \in Kind, q \in Pc : Become(g, k, q) /\ Fine(k, q)
<1>3. SUFFICES Goal
  OBVIOUS
<1>q. /\ "schedule" \in Kind /\ "supervisor" \in Kind
      /\ \A q \in {"idle", "setConnected", "setReason", "decide", "reserve",
                    "delay", "stop", "wait", "recheck", "start", "probe",
                    "signal"} : q \in Pc
  BY DEF Kind, Holder, Handler, Pc
<1>4. /\ Become(g, "schedule", "idle") => Goal
      /\ Become(g, "schedule", "decide") => Goal
      /\ Become(g, "supervisor", "delay") => Goal
      /\ \A q \in Pc : Goto(g, q) /\ Fine(j, q) => Goal
  BY <1>1, <1>q
<1>5. CASE SetConnected(g) \/ SetReason(g)
  <2>1. PastRecheck(g) \/ j # "supervisor"
    BY <1>5 DEF SetConnected, SetReason, At, PastRecheck
  <2>2. Return(g) \/ \E q \in Pc : Goto(g, q)
    BY <1>5, <1>1, <1>q, Tables DEF SetConnected, SetReason
  <2>3. QED
    BY <1>1, <1>4, <2>1, <2>2
<1>6. CASE Recheck(g)
  <2>1. Return(g) \/ (Goto(g, "setConnected") /\ (device \/ j # "supervisor"))
    BY <1>6 DEF Recheck, StayDown
  <2>2. QED
    BY <1>1, <1>4, <1>q, <2>1
<1>7. CASE Stop(g)
  <2>1. Return(g) \/ Goto(g, "recheck") \/ Goto(g, "wait")
    BY <1>7, <1>1, Tables DEF Stop
  <2>2. QED
    BY <1>1, <1>4, <1>q, <2>1
<1>8. CASE \/ Decide(g) \/ DecideBlind(g) \/ BeginReconnect(g) \/ DelayEnds(g)
           \/ DelayEndsBlind(g) \/ StopTimesOut(g) \/ RestartFails(g) \/ Start(g)
           \/ ProbeConnected(g) \/ ProbeTimesOut(g) \/ Signal(g)
  <2>1. \/ Return(g) \/ Become(g, "schedule", "decide")
        \/ Become(g, "supervisor", "delay")
        \/ Goto(g, "reserve") \/ Goto(g, "stop") \/ Goto(g, "probe")
    BY <1>8 DEF Decide, DecideBlind, BeginReconnect, DelayEnds, DelayEndsBlind,
        StopTimesOut, RestartFails, Start, ProbeConnected, ProbeTimesOut,
        Signal, Reschedule
  <2>2. QED
    BY <1>1, <1>4, <1>q, <2>1
<1>9. QED
  BY <1>5, <1>6, <1>7, <1>8 DEF GoroutineStep, FaultyStep

\* The two parts about the last start are inductive too.  A supervisor that
\* starts a runtime without a device was past its recheck, so none was spent,
\* and it is the only one in flight, so nobody else can spend another.
LEMMA LastStartInductive ==
    ASSUME IInv, [Next]_vars
    PROVE  NoQRLoop' /\ LastStart'
<1>0. lateQR \in Nat /\ thread \in [Goroutine -> [kind: Kind, pc: Pc]]
  BY DEF IInv, TypeOK
<1>1. CASE lateQR' = 0
  BY <1>1 DEF NoQRLoop, LastStart
<1>2. CASE UNCHANGED vars
  BY <1>2, NoNewStart DEF vars, row, history, PastRecheck
<1>3. CASE \E g \in Goroutine : GoroutineStep(g) \/ FaultyStep(g)
  <2>1. PICK g \in Goroutine : GoroutineStep(g) \/ FaultyStep(g)
    BY <1>3
  <2>2. CASE Start(g) /\ lateQR' # lateQR
    <3>1. /\ thread[g].kind = "supervisor" /\ thread[g].pc = "start"
          /\ rt = "none" /\ rt' = "qr" /\ lateQR' = lateQR + 1
          /\ Goto(g, "probe") /\ device' = device
      BY <2>2 DEF Start, At
    <3>2. ~device
      BY <3>1, <2>2 DEF Start, StartRuntime
    <3>3. lateQR = 0
      BY <3>1, <3>2, <1>0 DEF IInv, LastStart, NoQRLoop
    <3>4. \A h \in Goroutine \ {g} : ~PastRecheck(h) /\ thread'[h] = thread[h]
      <4>1. Holding(g)
        BY <3>1 DEF Holding, Holder
      <4>2. \A h \in Goroutine \ {g} : ~Holding(h)
        BY <4>1 DEF IInv, SlotExclusive
      <4>3. QED
        BY <4>2, <3>1, <1>0 DEF Holding, Holder, PastRecheck, Goto
    <3>5. thread'[g].pc = "probe"
      BY <3>1, <1>0 DEF Goto
    <3>6. QED
      BY <3>1, <3>3, <3>4, <3>5 DEF NoQRLoop, LastStart, PastRecheck
  <2>3. ASSUME ~(Start(g) /\ lateQR' # lateQR), lateQR' # 0
        PROVE  /\ lateQR' = lateQR /\ device' = device
               /\ \A h \in Goroutine \ {g} : thread'[h] = thread[h]
               /\ PastRecheck(g)' => PastRecheck(g) \/ device
    <3>1. lateQR' = lateQR /\ device' = device
      BY <2>1, <2>3 DEF row, history, GoroutineStep, FaultyStep, SetConnected,
          SetReason, Decide, DecideBlind, BeginReconnect, DelayEnds,
          DelayEndsBlind, Stop, StopTimesOut, Recheck, RecheckBlind,
          RestartFails, Start, ProbeConnected, ProbeTimesOut, Signal
    <3>2. ~RecheckBlind(g)
      BY <2>3 DEF RecheckBlind
    <3>3. \E k \in Kind, q \in Pc :
             /\ Become(g, k, q)
             /\ k = "supervisor" /\ q \in {"setConnected", "setReason", "start"}
                    => PastRecheck(g) \/ device
      BY <2>1, <3>2, StepMoves DEF IInv, SlotInv
    <3>4. QED
      BY <3>1, <3>3, <1>0 DEF Become, PastRecheck
  <2>4. QED
    BY <1>1, <2>1, <2>2, <2>3, NoNewStart DEF PastRecheck
<1>4. CASE \E g \in Threads : Deliver(g) \/ ConnectFails(g) \/ Request(g)
  <2>1. PICK g \in Threads : Deliver(g) \/ ConnectFails(g) \/ Request(g)
    BY <1>4
  <2>2. \E k \in Kind \ {"supervisor"}, q \in Pc : Become(g, k, q)
    BY <2>1 DEF Deliver, ConnectFails, Request, Disconnect, Logout, Reconnect,
        IInv, TypeOK, Kind, Handler, Holder, Pc
  <2>3. \A h \in Goroutine : PastRecheck(h)' => PastRecheck(h)
    BY <2>2, <1>0 DEF Become, PastRecheck, Goroutine
  <2>4. lateQR' = 0 \/ (lateQR' = lateQR /\ device' = device)
    BY <2>1 DEF Deliver, ConnectFails, Request, Disconnect, Logout, Reconnect,
        row, history
  <2>5. QED
    BY <1>1, <2>3, <2>4, NoNewStart
<1>5. CASE EndRuntime
  <2>1. \A g \in Goroutine : PastRecheck(g)' => PastRecheck(g)
    BY <1>5, Tables, <1>0 DEF EndRuntime, PastRecheck, Idle, At
  <2>2. QED
    BY <1>5, <2>1, NoNewStart DEF EndRuntime, row
<1>6. CASE Crash
  <2>1. \A g \in Goroutine : ~PastRecheck(g)'
    BY <1>6 DEF Crash, PastRecheck, Idle
  <2>2. QED
    BY <1>6, <2>1, NoNewStart DEF Crash, history
<1>7. CASE WatchdogTick
  <2>1. \A g \in Goroutine : PastRecheck(g)' => PastRecheck(g)
    BY <1>7, <1>0 DEF WatchdogTick, Become, PastRecheck
  <2>2. QED
    BY <1>7, <2>1, NoNewStart DEF WatchdogTick, row, history
<1>8. CASE \/ Connect \/ TakeKill \/ WriteStopped \/ ConnectCall
           \/ LoseConnection \/ Replace \/ PhoneLogsOut \/ QRWindowEnds \/ Pair
  <2>1. thread' = thread
    BY <1>8 DEF Connect, TakeKill, WriteStopped, ConnectCall, LoseConnection,
        Replace, PhoneLogsOut, QRWindowEnds, Pair
  <2>2. lateQR' = 0 \/ (lateQR' = lateQR /\ (device' \/ ~device))
    BY <1>8 DEF Connect, TakeKill, WriteStopped, ConnectCall, LoseConnection,
        Replace, PhoneLogsOut, QRWindowEnds, Pair, row, history
  <2>3. QED
    BY <1>1, <2>1, <2>2, NoNewStart DEF PastRecheck
<1>9. QED
  BY <1>2, <1>3, <1>4, <1>5, <1>6, <1>7, <1>8
     DEF Next, RuntimeStep, Environment

\* IInv holds initially.
LEMMA InitIInv == Init => IInv
<1> SUFFICES ASSUME Init PROVE IInv
  OBVIOUS
<1>1. Idle \in [kind: Kind, pc: Pc] /\ Idle.kind = "schedule" /\ Idle.pc = "idle"
  BY DEF Idle, Kind, Pc
<1>2. thread \in [Goroutine -> [kind: Kind, pc: Pc]]
  BY <1>1 DEF Init
<1>3. /\ connected \in BOOLEAN /\ device \in BOOLEAN /\ inFlight \in BOOLEAN
      /\ kill \in BOOLEAN /\ asked \in BOOLEAN
  BY Zenon DEF Init
<1>4. TypeOK
  BY <1>2, <1>3 DEF Init, TypeOK, Reason, RtState, Handler
<1>5. PcMatchesKind /\ SlotExclusive
  BY <1>1 DEF Init, PcMatchesKind, SlotExclusive, Holding, KindsAt
<1>6. NoQRLoop /\ LastStart
  BY DEF Init, NoQRLoop, LastStart
<1>7. QED
  BY <1>4, <1>5, <1>6 DEF IInv

\* The invariant of the supervisor holds in every state.
THEOREM Inductive == Spec => []IInv
<1>1. IInv /\ [Next]_vars => IInv'
  BY SlotInvInductive, LastStartInductive DEF IInv, SlotInv
<1>2. QED
  BY InitIInv, <1>1, PTL DEF Spec

\* Type correctness of the supervisor.
THEOREM TypeCorrect == Spec => []TypeOK
<1>1. IInv => TypeOK
  BY DEF IInv
<1>2. QED
  BY Inductive, <1>1, PTL

\* One reconnection at a time, for every number of goroutines: beginReconnect
\* and the ways out of ReconnectClient and ScheduleReconnect agree.
THEOREM SlotAlwaysExclusive == Spec => []SlotExclusive
<1>1. IInv => SlotExclusive
  BY DEF IInv
<1>2. QED
  BY Inductive, <1>1, PTL

\* A deleted device costs at most one QR code of the supervisor.
THEOREM NeverAQRLoop == Spec => []NoQRLoop
<1>1. IInv => NoQRLoop
  BY DEF IInv
<1>2. QED
  BY Inductive, <1>1, PTL

-----------------------------------------------------------------------------
(***************************************************************************)
(* What SlotReleased rests on besides fairness: whoever holds the slot goes *)
(* one way through finitely many steps and gives it back at the latest      *)
(* after the last.                                                          *)
(***************************************************************************)
Place == [delay |-> 1, stop |-> 2, wait |-> 3, recheck |-> 4,
          setConnected |-> 5, setReason |-> 6, start |-> 7, probe |-> 8]

HolderGoesOn ==
    \A g \in Goroutine : Holding(g) =>
        \/ ~inFlight'
        \/ /\ Holding(g)'
           /\ Place[thread'[g].pc] >= Place[thread[g].pc]
           /\ GoroutineStep(g) \/ FaultyStep(g)
                  => Place[thread'[g].pc] > Place[thread[g].pc]

\* The steps a goroutine can hold the slot at.
LEMMA HolderIsPlaced ==
    ASSUME IInv, NEW g \in Goroutine, Holding(g)
    PROVE  /\ thread[g].kind \in Holder
           /\ thread[g].pc \in {"delay", "stop", "wait", "recheck", "setConnected",
                               "setReason", "start", "probe"}
           /\ Place[thread[g].pc] \in 1 .. 8
<1>1. thread[g].kind \in Holder /\ thread[g].pc \in Pc \ {"idle", "reserve"}
  BY MovesAreBecome DEF IInv, Holding
<1>2. thread[g].kind \in KindsAt[thread[g].pc]
  BY DEF IInv, PcMatchesKind
<1>3. thread[g].pc \in {"delay", "stop", "wait", "recheck", "setConnected", "setReason",
                       "start", "probe"}
  BY <1>1, <1>2 DEF Pc, Holder, KindsAt
<1> QED
  BY <1>1, <1>3 DEF Place

\* A step of the holder leads further or frees the slot: no path of
\* ReconnectClient or ScheduleReconnect goes round while it holds it.
LEMMA HolderStep ==
    ASSUME IInv, NEW g \in Goroutine, Holding(g), GoroutineStep(g) \/ FaultyStep(g)
    PROVE  \/ inFlight' = FALSE
           \/ /\ Holding(g)' /\ Place[thread'[g].pc] \in Nat
              /\ Place[thread'[g].pc] > Place[thread[g].pc]
<1> DEFINE Ahead(q) == Goto(g, q) /\ Place[q] > Place[thread[g].pc]
           Places == {"stop", "wait", "recheck", "setConnected", "setReason", "start", "probe"}
<1>1. /\ thread[g].kind \in Holder
      /\ thread[g].pc \in {"delay", "stop", "wait", "recheck", "setConnected",
                          "setReason", "start", "probe"}
  BY HolderIsPlaced
<1>2. AfterWrite[thread[g].kind] = "start" /\ AfterStop[thread[g].kind] = "recheck"
  BY <1>1 DEF Holder, AfterWrite, AfterStop, Kind, Handler
<1>3. inFlight' = FALSE \/ \E q \in Places : Ahead(q)
  <2>1. CASE SetConnected(g) \/ SetReason(g)
    BY <1>2, <2>1 DEF SetConnected, SetReason, At, Place
  <2>2. CASE Decide(g) \/ BeginReconnect(g) \/ Signal(g) \/ DecideBlind(g)
    BY <1>1, <2>2 DEF Decide, BeginReconnect, Signal, DecideBlind, At
  <2>3. CASE DelayEnds(g)
    <3>1. inFlight' = ~StayDown /\ (StayDown \/ Goto(g, "stop"))
      BY <2>3 DEF DelayEnds
    <3>2. Place["stop"] > Place[thread[g].pc]
      BY <2>3 DEF DelayEnds, At, Place
    <3>3. CASE StayDown
      BY <3>1, <3>3
    <3>4. CASE ~StayDown
      BY <3>1, <3>2, <3>4
    <3> QED
      BY <3>3, <3>4
  <2>4. CASE DelayEndsBlind(g)
    BY <2>4 DEF DelayEndsBlind, Reschedule
  <2>5. CASE Stop(g)
    <3>1. Goto(g, "recheck") \/ Goto(g, "wait")
      BY <1>2, <2>5 DEF Stop
    <3>2. Place["recheck"] > Place[thread[g].pc] /\ Place["wait"] > Place[thread[g].pc]
      BY <2>5 DEF Stop, At, Place
    <3> QED
      BY <3>1, <3>2
  <2>6. CASE StopTimesOut(g) \/ RestartFails(g)
    BY <1>1, <2>6 DEF StopTimesOut, RestartFails, Reschedule, Holder
  <2>7. CASE Recheck(g) \/ RecheckBlind(g)
    BY <2>7 DEF Recheck, RecheckBlind, At, Place
  <2>8. CASE Start(g)
    BY <2>8 DEF Start, At, Place
  <2>9. CASE ProbeConnected(g) \/ ProbeTimesOut(g)
    BY <2>9 DEF ProbeConnected, ProbeTimesOut, Reschedule
  <2> QED
    BY <2>1, <2>2, <2>3, <2>4, <2>5, <2>6, <2>7, <2>8, <2>9 DEF GoroutineStep, FaultyStep
<1>4. ASSUME NEW q \in Places, Ahead(q)
      PROVE  /\ Holding(g)' /\ Place[thread'[g].pc] \in Nat
             /\ Place[thread'[g].pc] > Place[thread[g].pc]
  <2>1. thread'[g].kind = thread[g].kind /\ thread'[g].pc = q
    BY <1>4 DEF Goto, IInv, TypeOK
  <2>2. Place[q] \in Nat
    BY DEF Place
  <2> QED
    BY <1>1, <1>4, <2>1, <2>2 DEF Holding
<1> QED
  BY <1>3, <1>4

\* Each step of the goroutine that holds the reconnection slot takes it further
\* or frees the slot, and no step of another takes it back, for any number of
\* goroutines, calls and faults: a slot is kept only by a goroutine that is not
\* run.
THEOREM HolderAlwaysGoesOn == Spec => [][HolderGoesOn]_vars
<1>1. IInv /\ [Next]_vars => [HolderGoesOn]_vars
  <2> SUFFICES ASSUME IInv, [Next]_vars, NEW g \in Goroutine, Holding(g), inFlight' # FALSE
               PROVE  /\ Holding(g)'
                      /\ Place[thread'[g].pc] >= Place[thread[g].pc]
                      /\ GoroutineStep(g) \/ FaultyStep(g)
                             => Place[thread'[g].pc] > Place[thread[g].pc]
    BY DEF HolderGoesOn
  <2>1. GoroutineStep(g) \/ FaultyStep(g)
           => /\ Holding(g)' /\ Place[thread'[g].pc] \in Nat
              /\ Place[thread'[g].pc] > Place[thread[g].pc]
    BY HolderStep
  <2>2. Place[thread[g].pc] \in 1 .. 8 /\ thread[g].kind \in Holder
    BY HolderIsPlaced
  <2>3. thread \in [Goroutine -> [kind: Kind, pc: Pc]]
    BY DEF IInv, TypeOK
  <2>4. \/ GoroutineStep(g) \/ FaultyStep(g)
        \/ thread'[g] = thread[g]
        \/ thread[g].pc = "wait" /\ thread'[g] = [thread[g] EXCEPT !.pc = "recheck"]
    <3>1. ASSUME NEW h \in Goroutine \ {g}, GoroutineStep(h) \/ FaultyStep(h)
          PROVE  thread'[g] = thread[g]
      BY <2>3, <3>1 DEF GoroutineStep, FaultyStep, SetConnected, SetReason, Decide, DecideBlind,
         BeginReconnect, DelayEnds, DelayEndsBlind, Stop, StopTimesOut, Recheck, RecheckBlind,
         RestartFails, Start, ProbeConnected, ProbeTimesOut, Signal, Reschedule, Goto, Become, Return
    <3>2. ASSUME NEW h \in Threads, Deliver(h) \/ ConnectFails(h) \/ Request(h)
          PROVE  thread'[g] = thread[g]
      <4>1. h # g
        BY <3>2 DEF Deliver, ConnectFails, Request, Disconnect, Logout, Reconnect, At, Holding
      <4> QED
        BY <2>3, <3>2, <4>1 DEF Deliver, ConnectFails, Request, Disconnect, Logout, Reconnect, Become
    <3>3. CASE EndRuntime
      <4>1. AfterStop[thread[g].kind] = "recheck"
        BY <2>2 DEF AfterStop, Kind
      <4> QED
        BY <2>3, <3>3, <4>1 DEF EndRuntime, At
    <3>4. CASE WatchdogTick
      BY <2>3, <3>4 DEF WatchdogTick, Become, At, Holding
    <3>5. CASE \/ Connect \/ TakeKill \/ WriteStopped \/ ConnectCall \/ LoseConnection
               \/ Replace \/ PhoneLogsOut \/ QRWindowEnds \/ Pair \/ UNCHANGED vars
      BY <3>5 DEF Connect, TakeKill, WriteStopped, ConnectCall, LoseConnection, Replace,
         PhoneLogsOut, QRWindowEnds, Pair, vars
    <3>6. CASE Crash
      BY <3>6 DEF Crash
    <3> QED
      BY <3>1, <3>2, <3>3, <3>4, <3>5, <3>6 DEF Next, RuntimeStep, Environment
  <2>5. CASE GoroutineStep(g) \/ FaultyStep(g)
    <3>1. /\ Holding(g)' /\ Place[thread'[g].pc] \in Nat
          /\ Place[thread'[g].pc] > Place[thread[g].pc]
      BY <2>1, <2>5
    <3>2. \A m \in Nat, n \in 1 .. 8 : m > n => m >= n
      OBVIOUS
    <3> QED
      BY <2>2, <3>1, <3>2
  <2>6. CASE ~(GoroutineStep(g) \/ FaultyStep(g)) /\ thread'[g] = thread[g]
    BY <2>2, <2>6 DEF Holding
  <2>7. CASE ~(GoroutineStep(g) \/ FaultyStep(g)) /\ thread[g].pc = "wait"
             /\ thread'[g] = [thread[g] EXCEPT !.pc = "recheck"]
    <3>1. thread'[g].kind = thread[g].kind /\ thread'[g].pc = "recheck"
      BY <2>3, <2>7
    <3> QED
      BY <2>2, <2>7, <3>1 DEF Holding, Place
  <2> QED
    BY <2>4, <2>5, <2>6, <2>7
<1> QED
  BY <1>1, Inductive, PTL DEF Spec

-----------------------------------------------------------------------------
(***************************************************************************)
(* What is true of a disconnect.  DisconnectNotUndone fails: a goroutine    *)
(* that is past its checks when the runtime ends undoes it.  Without one,   *)
(* the code keeps its word.                                                 *)
(***************************************************************************)
\* Without a runtime no event is left and no handler runs.
NoneIsQuiet ==
    rt = "none" => events = {} /\ \A g \in Goroutine : thread[g].kind \notin Handler

\* A disconnect that succeeded and is what the row says, with nobody past the
\* checks that would notice it, and no explicit reconnection on its way.
Resting ==
    /\ asked = TRUE /\ connected = FALSE /\ reason = "byAPI" /\ rt = "none"
    /\ \A g \in Goroutine : /\ thread[g].kind # "explicit"
                            /\ thread[g].pc \notin {"setConnected", "setReason", "start"}

\* The kinds a goroutine can turn to by itself.
LEMMA StepKinds ==
    ASSUME IInv, NEW g \in Goroutine, GoroutineStep(g) \/ FaultyStep(g)
    PROVE  /\ \A h \in Goroutine \ {g} : thread'[h] = thread[h]
           /\ thread'[g].kind \in {thread[g].kind, "schedule", "supervisor"}
<1>1. thread \in [Goroutine -> [kind: Kind, pc: Pc]]
  BY DEF IInv, TypeOK
<1>2. \E k \in {thread[g].kind, "schedule", "supervisor"}, q \in Pc : Become(g, k, q)
  <2>1. /\ \A q \in Pc : Goto(g, q) => Become(g, thread[g].kind, q)
        /\ Return(g) => Become(g, "schedule", "idle")
        /\ thread[g].kind \in Kind /\ thread[g].pc \in Pc
    BY MovesAreBecome DEF IInv
  <2>2. \/ Return(g) \/ Become(g, "schedule", "decide") \/ Become(g, "supervisor", "delay")
        \/ \E q \in Pc : Goto(g, q)
    <3>1. CASE SetConnected(g) \/ SetReason(g) \/ Stop(g)
      BY <2>1, <3>1, Tables DEF SetConnected, SetReason, Stop, Pc
    <3>2. CASE \/ Decide(g) \/ DecideBlind(g) \/ BeginReconnect(g) \/ DelayEnds(g)
               \/ DelayEndsBlind(g) \/ StopTimesOut(g) \/ Recheck(g) \/ RecheckBlind(g)
               \/ RestartFails(g) \/ Start(g) \/ ProbeConnected(g) \/ ProbeTimesOut(g)
               \/ Signal(g)
      BY <3>2 DEF Decide, DecideBlind, BeginReconnect, DelayEnds, DelayEndsBlind, StopTimesOut,
         Recheck, RecheckBlind, RestartFails, Start, ProbeConnected, ProbeTimesOut, Signal,
         Reschedule, Pc
    <3> QED
      BY <3>1, <3>2 DEF GoroutineStep, FaultyStep
  <2> QED
    BY <2>1, <2>2 DEF Pc
<1> QED
  BY <1>1, <1>2 DEF Become

\* RemoveEventHandler waits for the handlers before the runtime ends.
LEMMA QuietInductive ==
    ASSUME IInv, NoneIsQuiet, [Next]_vars
    PROVE  NoneIsQuiet'
<1>0. thread \in [Goroutine -> [kind: Kind, pc: Pc]] /\ Handler \cap {"schedule", "supervisor"} = {}
  BY DEF IInv, TypeOK, Handler
<1>1. ASSUME NEW g \in Goroutine, GoroutineStep(g) \/ FaultyStep(g)
      PROVE  NoneIsQuiet'
  <2>1. events' = events /\ (rt' = "none" => rt = "none")
    BY <1>1 DEF runtime, GoroutineStep, FaultyStep, SetConnected, SetReason, Decide, DecideBlind,
       BeginReconnect, DelayEnds, DelayEndsBlind, Stop, StopTimesOut, Recheck, RecheckBlind,
       RestartFails, Start, StartRuntime, ProbeConnected, ProbeTimesOut, Signal
  <2> QED
    BY <1>0, <1>1, <2>1, StepKinds DEF NoneIsQuiet
<1>2. ASSUME NEW g \in Threads, Deliver(g) \/ ConnectFails(g) \/ Request(g)
      PROVE  NoneIsQuiet'
  <2>1. g \in Goroutine
    BY DEF Goroutine
  <2>2. CASE Reconnect(g)
    BY <1>0, <2>1, <2>2 DEF Reconnect, Become, NoneIsQuiet, runtime, Handler
  <2>3. CASE ~Reconnect(g)
    <3>1. rt' # "none"
      BY <1>2, <2>3 DEF NoneIsQuiet, Deliver, ConnectFails, Request, Disconnect, Logout, runtime
    <3> QED
      BY <3>1 DEF NoneIsQuiet
  <2> QED
    BY <2>2, <2>3
<1>3. CASE EndRuntime
  <2>1. \A g \in Goroutine : thread[g].kind \notin Handler
    BY <1>3 DEF EndRuntime, Handling, IInv, PcMatchesKind, KindsAt, At, Handler
  <2>2. \A g \in Goroutine : thread'[g].kind \in {thread[g].kind, "schedule"}
    BY <1>0, <1>3 DEF EndRuntime, Idle
  <2> QED
    BY <1>0, <1>3, <2>1, <2>2 DEF EndRuntime, NoneIsQuiet
<1>4. CASE Crash
  BY <1>0, <1>4 DEF Crash, NoneIsQuiet, Idle
<1>5. CASE WatchdogTick
  BY <1>0, <1>5 DEF WatchdogTick, Become, NoneIsQuiet, runtime, Goroutine
<1>6. CASE \/ Connect \/ TakeKill \/ WriteStopped \/ ConnectCall \/ LoseConnection
           \/ Replace \/ PhoneLogsOut \/ QRWindowEnds \/ Pair
  BY <1>6 DEF Connect, TakeKill, WriteStopped, ConnectCall, StartRuntime, LoseConnection, Replace,
     PhoneLogsOut, QRWindowEnds, Pair, NoneIsQuiet
<1>7. CASE UNCHANGED vars
  BY <1>7 DEF vars, runtime, NoneIsQuiet
<1> QED
  BY <1>1, <1>2, <1>3, <1>4, <1>5, <1>6, <1>7 DEF Next, RuntimeStep, Environment

\* A step of a goroutine while a disconnect rests.
LEMMA RestingStep ==
    ASSUME IInv, NoneIsQuiet, Resting,
           NEW g \in Goroutine, GoroutineStep(g) \/ FaultyStep(g), ~RecheckBlind(g)
    PROVE  Resting'
<1>0. thread \in [Goroutine -> [kind: Kind, pc: Pc]]
  BY DEF IInv, TypeOK
<1>1. /\ thread[g].kind \notin Handler /\ thread[g].kind # "explicit"
      /\ thread[g].pc \notin {"setConnected", "setReason", "start"}
      /\ thread[g].kind \in KindsAt[thread[g].pc]
  BY DEF NoneIsQuiet, Resting, IInv, PcMatchesKind
<1>2. StayDown
  BY DEF Resting, StayDown, Down
<1>3. /\ row' = row /\ rt' = rt /\ (asked => asked')
  BY <1>1 DEF Resting, row, runtime, history, GoroutineStep, FaultyStep, SetConnected, SetReason,
     Decide, DecideBlind, BeginReconnect, DelayEnds, DelayEndsBlind, Stop, StopTimesOut, Recheck,
     RestartFails, Start, ProbeConnected, ProbeTimesOut, Signal, At
<1>4. \/ Return(g) \/ Become(g, "schedule", "decide") \/ Become(g, "supervisor", "delay")
      \/ \E q \in {"reserve", "wait", "recheck", "stop"} : Goto(g, q)
  <2>1. CASE Recheck(g)
    <3>1. thread[g].kind = "supervisor"
      BY <1>1, <2>1 DEF Recheck, At, KindsAt, Holder
    <3> QED
      BY <1>2, <2>1, <3>1 DEF Recheck
  <2>2. CASE SetConnected(g) \/ SetReason(g) \/ Start(g) \/ Signal(g)
    BY <1>1, <2>2 DEF SetConnected, SetReason, Start, Signal, At, KindsAt, Handler
  <2>3. CASE Stop(g)
    <3>1. AfterStop[thread[g].kind] \in {"idle", "recheck"}
      BY Tables, MovesAreBecome DEF IInv
    <3> QED
      BY <2>3, <3>1 DEF Stop
  <2>4. CASE \/ Decide(g) \/ DecideBlind(g) \/ BeginReconnect(g) \/ DelayEnds(g)
             \/ DelayEndsBlind(g) \/ StopTimesOut(g) \/ RestartFails(g)
             \/ ProbeConnected(g) \/ ProbeTimesOut(g)
    BY <2>4 DEF Decide, DecideBlind, BeginReconnect, DelayEnds, DelayEndsBlind, StopTimesOut,
       RestartFails, ProbeConnected, ProbeTimesOut, Reschedule
  <2> QED
    BY <2>1, <2>2, <2>3, <2>4 DEF GoroutineStep, FaultyStep
<1>5. /\ \A h \in Goroutine \ {g} : thread'[h] = thread[h]
      /\ thread'[g].kind # "explicit"
      /\ thread'[g].pc \notin {"setConnected", "setReason", "start"}
  BY <1>0, <1>1, <1>4 DEF Return, Become, Goto, Idle
<1> QED
  BY <1>3, <1>5 DEF Resting, row

\* A disconnect that came to rest stays: the supervisor, the watchdog, lost
\* sockets, late events, restarts of the process and failures of the database
\* all leave it alone.  The only ways out are a request that asks for the
\* instance again (a call that starts it, /forcereconnect), and a supervisor
\* whose recheck cannot read the row, which starts rather than gives up.
THEOREM DisconnectRests ==
    Spec => [][Resting => \/ Resting'
                          \/ ConnectCall
                          \/ \E g \in Goroutine : Reconnect(g) \/ RecheckBlind(g)]_vars
<1>1. IInv /\ NoneIsQuiet /\ [Next]_vars =>
        [Resting => \/ Resting' \/ ConnectCall
                    \/ \E g \in Goroutine : Reconnect(g) \/ RecheckBlind(g)]_vars
  <2> SUFFICES ASSUME IInv, NoneIsQuiet, [Next]_vars, Resting, ~ConnectCall,
                      \A g \in Goroutine : ~Reconnect(g) /\ ~RecheckBlind(g)
               PROVE  Resting'
    OBVIOUS
  <2>1. rt = "none" /\ events = {} /\ StayDown
    BY DEF Resting, NoneIsQuiet, StayDown, Down
  <2>2. ASSUME NEW g \in Threads
        PROVE  ~Deliver(g) /\ ~ConnectFails(g) /\ ~Request(g)
    BY <2>1 DEF Deliver, ConnectFails, Request, Disconnect, Logout, Goroutine
  <2>3. ~RuntimeStep /\ ~WatchdogTick
    BY <2>1 DEF RuntimeStep, Connect, TakeKill, WriteStopped, EndRuntime, WatchdogTick
  <2>4. ~LoseConnection /\ ~Replace /\ ~PhoneLogsOut /\ ~QRWindowEnds /\ ~Pair
    BY <2>1 DEF LoseConnection, Replace, PhoneLogsOut, QRWindowEnds, Pair
  <2>5. CASE Crash
    <3>1. rt' = "none" /\ connected' = FALSE /\ reason' = reason /\ asked' = asked
      BY <2>5 DEF Crash, Restore, Resting, history
    <3>2. thread' = [g \in Goroutine |-> Idle] /\ Idle.kind = "schedule" /\ Idle.pc = "idle"
      BY <2>5 DEF Crash, Idle
    <3> QED
      BY <3>1, <3>2 DEF Resting
  <2>6. CASE UNCHANGED vars
    BY <2>6 DEF vars, row, runtime, history, Resting
  <2> QED
    BY <2>2, <2>3, <2>4, <2>5, <2>6, RestingStep DEF Next, Environment
<1>2. Init => NoneIsQuiet
  BY DEF Init, NoneIsQuiet
<1> QED
  BY <1>1, <1>2, QuietInductive, Inductive, PTL DEF Spec
=============================================================================
