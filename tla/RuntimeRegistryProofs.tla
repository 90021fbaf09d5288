------------------------ MODULE RuntimeRegistryProofs ------------------------
(***************************************************************************)
(* Proofs about RuntimeRegistry for every number of runtimes and callers.   *)
(***************************************************************************)
EXTENDS RuntimeRegistry, TLAPS

\* An operation that does nothing has the type of an operation.
LEMMA IdleIsCall == Idle \in Call
BY DEF Idle, Call, CallPc, None

\* Sending a signal keeps the types of the two variables it writes.
LEMMA SendKillType ==
    ASSUME TypeOK, NEW t \in Token \cup {None}, NEW who \in Killer,
           SendKill(t, who)
    PROVE  signalled' \subseteq Token /\ killers' \in [Token -> SUBSET Killer]
<1>1. CASE t = None
  BY <1>1 DEF SendKill, TypeOK
<1>2. CASE t # None
  <2>1. t \in Token
    BY <1>2
  <2>2. signalled' \subseteq Token
    BY <1>2, <2>1 DEF SendKill, TypeOK
  <2>3. killers' = killers \/ killers' = [killers EXCEPT ![t] = @ \cup {who}]
    BY <1>2 DEF SendKill
  <2>4. killers' \in [Token -> SUBSET Killer]
    BY <2>1, <2>3 DEF TypeOK
  <2>5. QED
    BY <2>2, <2>4
<1>3. QED
  BY <1>1, <1>2

\* Every step of a runtime or of its environment keeps the types.
LEMMA RuntimeTypeOK ==
    ASSUME TypeOK, NEW t \in Token, RuntimeStep(t) \/ Environment(t)
    PROVE  TypeOK'
<1> USE MaxRuntimesAssumption DEF registry, maps, history
<1>1. CASE RuntimeStep(t)
  BY <1>1 DEF TypeOK, Token, None, Phase, Move, Without, RuntimeStep,
      PublishKillChannel, FailBeforeClient, CreateClient, FailProxy,
      InstallMyClient, ConnectSucceeds, ConnectFails, TakeKill, Unlink,
      Announce, CleanUp, FinishRuntime
<1>2. CASE ReserveRuntime(t)
  <2>1. t \in Nat /\ t <= MaxRuntimes
    BY DEF Token
  <2>2. phase' \in [Token -> Phase]
    BY <1>2 DEF ReserveRuntime, Move, TypeOK, Phase
  <2>3. QED
    BY <1>2, <2>1, <2>2 DEF ReserveRuntime, TypeOK
<1>5. CASE LoseSocket(t)
  BY <1>5 DEF TypeOK, LoseSocket
<1>3. CASE LoggedOutEvent(t)
  <2>1. signalled' \subseteq Token /\ killers' \in [Token -> SUBSET Killer]
    BY <1>3, SendKillType DEF LoggedOutEvent, TypeOK, Killer
  <2>2. QED
    BY <1>3, <2>1 DEF LoggedOutEvent, TypeOK
<1>4. CASE QRWindowEnds(t)
  <2>1. signalled' \subseteq Token /\ killers' \in [Token -> SUBSET Killer]
    BY <1>4, SendKillType DEF QRWindowEnds, Killer
  <2>2. QED
    BY <1>4, <2>1 DEF QRWindowEnds, TypeOK
<1>6. QED
  BY <1>1, <1>2, <1>3, <1>4, <1>5 DEF Environment

\* Every step of a caller keeps the types.
LEMMA CallerTypeOK ==
    ASSUME TypeOK, NEW c \in Callers,
           BeginRestart(c) \/ BeginClear(c) \/ CallerStep(c)
    PROVE  TypeOK'
<1> USE DEF registry, maps, history
<1> DEFINE Plain == \/ BeginRestart(c) \/ BeginClear(c) \/ ReadDone(c)
                    \/ WaitEnds(c) \/ WaitTimesOut(c) \/ EndRestart(c)
                    \/ CheckCleared(c) \/ ClearMaps(c)
<1>1. CASE Plain
  <2>1. call' \in [Callers -> Call]
    <3>1. \A r \in Call : [call EXCEPT ![c] = r] \in [Callers -> Call]
      BY DEF TypeOK
    <3>2. call[c] \in Call
      BY DEF TypeOK
    <3>3. CASE BeginRestart(c)
      <4>1. [Idle EXCEPT !.op = "restart", !.pc = "marked"] \in Call
        BY DEF Idle, Call, CallPc, None
      <4>2. QED
        BY <3>1, <3>3, <4>1 DEF BeginRestart
    <3>4. CASE BeginClear(c)
      <4>1. [Idle EXCEPT !.pc = "marked"] \in Call
        BY DEF Idle, Call, CallPc, None
      <4>2. QED
        BY <3>1, <3>4, <4>1 DEF BeginClear
    <3>5. CASE ReadDone(c)
      <4>1. [call[c] EXCEPT !.pc = "signalling", !.done = runtime] \in Call
        BY <3>2 DEF TypeOK, Call, CallPc
      <4>2. QED
        BY <3>1, <3>5, <4>1 DEF ReadDone
    <3>6. CASE WaitEnds(c)
      <4>1. [call[c] EXCEPT !.pc = "stopped"] \in Call
        BY <3>2 DEF Call, CallPc
      <4>2. QED
        BY <3>1, <3>6, <4>1 DEF WaitEnds, Goto
    <3>7. CASE CheckCleared(c)
      <4>1. [call[c] EXCEPT !.pc = "clearing"] \in Call
        BY <3>2 DEF Call, CallPc
      <4>2. QED
        BY <3>1, <3>7, <4>1, IdleIsCall DEF CheckCleared
    <3>8. CASE WaitTimesOut(c) \/ EndRestart(c) \/ ClearMaps(c)
      BY <3>1, <3>8, IdleIsCall DEF WaitTimesOut, EndRestart, ClearMaps
    <3>9. QED
      BY <1>1, <3>3, <3>4, <3>5, <3>6, <3>7, <3>8
  <2>2. QED
    BY <1>1, <2>1 DEF TypeOK, None, BeginRestart, BeginClear, ReadDone,
        WaitEnds, WaitTimesOut, EndRestart, CheckCleared, ClearMaps
<1>2. CASE SignalStop(c)
  <2>1. call[c].op \in Killer /\ killChannel \in Token \cup {None}
    BY DEF TypeOK, Call, Killer
  <2>2. signalled' \subseteq Token /\ killers' \in [Token -> SUBSET Killer]
    BY <1>2, <2>1, SendKillType DEF SignalStop
  <2>3. call' \in [Callers -> Call]
    BY <1>2 DEF SignalStop, TypeOK, Goto, Call, CallPc
  <2>4. QED
    BY <1>2, <2>2, <2>3 DEF SignalStop, TypeOK
<1>3. QED
  BY <1>1, <1>2 DEF CallerStep

\* The process starts with every variable in its type.
LEMMA InitTypeOK == Init => TypeOK
<1> SUFFICES ASSUME Init PROVE TypeOK
  OBVIOUS
<1>1. call \in [Callers -> Call]
  BY IdleIsCall DEF Init
<1>2. phase \in [Token -> Phase] /\ killers \in [Token -> SUBSET Killer]
  BY DEF Init, Phase
<1>3. restarting \in BOOLEAN
  BY Zenon DEF Init
<1>4. runtimeSequence \in Nat /\ runtimeSequence <= MaxRuntimes
  BY MaxRuntimesAssumption DEF Init
<1>5. QED
  BY <1>1, <1>2, <1>3, <1>4 DEF Init, TypeOK

\* No step of the service leaves the types.
LEMMA NextTypeOK == TypeOK /\ [Next]_vars => TypeOK'
<1> SUFFICES ASSUME TypeOK, [Next]_vars PROVE TypeOK'
  OBVIOUS
<1>1. CASE Next
  BY <1>1, RuntimeTypeOK, CallerTypeOK DEF Next
<1>2. CASE UNCHANGED vars
  BY <1>2 DEF vars, registry, maps, history, TypeOK
<1>3. QED
  BY <1>1, <1>2

\* Type correctness of the registry: every reachable state is well typed.
THEOREM TypeCorrect == Spec => []TypeOK
BY InitTypeOK, NextTypeOK, PTL DEF Spec

-----------------------------------------------------------------------------
(***************************************************************************)
(* The inductive invariant.  Shape is all of it but the types.              *)
(***************************************************************************)
Shape ==
    /\ OwnerIsAlive
    /\ TokensInOrder
    /\ ClosedAreDone
    /\ SocketsRun
    /\ CleanedLeft
    /\ MapsBelongToRuntime

\* StartClient, from the reservation to finishRuntime, keeps the shape.
LEMMA RuntimeShape ==
    ASSUME TypeOK, Shape, NEW t \in Token, RuntimeStep(t)
    PROVE  Shape'
<1> USE DEF Shape, OwnerIsAlive, TokensInOrder, ClosedAreDone, SocketsRun,
        CleanedLeft, MapsBelongToRuntime, TypeOK, Move, registry, maps, history
<1> t # None
  BY DEF Token, None
<1>1. CASE PublishKillChannel(t)
  BY <1>1 DEF PublishKillChannel, Alive, Phase
<1>2. CASE FailBeforeClient(t) \/ FailProxy(t) \/ ConnectFails(t)
  BY <1>2 DEF FailBeforeClient, FailProxy, ConnectFails, Alive, Phase
<1>3. CASE CreateClient(t)
  BY <1>3 DEF CreateClient, Alive, Phase
<1>4. CASE InstallMyClient(t)
  BY <1>4 DEF InstallMyClient, Alive, Phase
<1>5. CASE ConnectSucceeds(t)
  BY <1>5 DEF ConnectSucceeds, Alive, Phase
<1>6. CASE TakeKill(t)
  BY <1>6 DEF TakeKill, Alive, Phase
<1>7. CASE Unlink(t)
  BY <1>7 DEF Unlink, Alive, Phase, None, Token
<1>8. CASE Announce(t)
  BY <1>8 DEF Announce, Alive, Phase
<1>9. CASE CleanUp(t)
  BY <1>9 DEF CleanUp, Without, Alive, Phase, None, Token
<1>10. CASE FinishRuntime(t)
  BY <1>10 DEF FinishRuntime, Without, Alive, Phase, None, Token
<1>11. QED
  BY <1>1, <1>2, <1>3, <1>4, <1>5, <1>6, <1>7, <1>8, <1>9, <1>10
     DEF RuntimeStep

\* So do a reservation, a lost socket and the signals a runtime sends itself.
LEMMA EnvironmentShape ==
    ASSUME TypeOK, Shape, NEW t \in Token, Environment(t)
    PROVE  Shape'
<1> USE DEF Shape, OwnerIsAlive, TokensInOrder, ClosedAreDone, SocketsRun,
        CleanedLeft, MapsBelongToRuntime, registry, maps, history
<1>1. CASE ReserveRuntime(t)
  BY <1>1 DEF ReserveRuntime, Move, Alive, Phase, TypeOK, Token, None
<1>2. CASE LoseSocket(t) \/ LoggedOutEvent(t) \/ QRWindowEnds(t)
  BY <1>2 DEF LoseSocket, LoggedOutEvent, QRWindowEnds
<1>3. QED
  BY <1>1, <1>2 DEF Environment

\* And every step of a caller: it only ever removes map entries.
LEMMA CallerShape ==
    ASSUME TypeOK, Shape, NEW c \in Callers,
           BeginRestart(c) \/ BeginClear(c) \/ CallerStep(c)
    PROVE  Shape'
<1> USE DEF Shape, OwnerIsAlive, TokensInOrder, ClosedAreDone, SocketsRun,
        CleanedLeft, MapsBelongToRuntime, registry, maps, history
<1>1. CASE ClearMaps(c)
  BY <1>1 DEF ClearMaps, None, Token
<1>2. CASE ~ ClearMaps(c)
  BY <1>2 DEF BeginRestart, BeginClear, CallerStep, ReadDone, SignalStop,
      WaitEnds, WaitTimesOut, EndRestart, CheckCleared
<1>3. QED
  BY <1>1, <1>2

\* IInv holds in every reachable state.
THEOREM Inductive == Spec => []IInv
<1>1. Init => IInv
  <2> SUFFICES ASSUME Init PROVE IInv
    OBVIOUS
  <2>1. TypeOK
    BY InitTypeOK
  <2>2. Shape
    BY DEF Init, Shape, OwnerIsAlive, TokensInOrder, ClosedAreDone, SocketsRun,
       CleanedLeft, MapsBelongToRuntime, Alive, Phase, Token, None
  <2>3. QED
    BY <2>1, <2>2 DEF IInv, Shape
<1>2. IInv /\ [Next]_vars => IInv'
  <2> SUFFICES ASSUME TypeOK, Shape, [Next]_vars PROVE Shape' /\ TypeOK'
    BY DEF IInv, Shape
  <2>1. TypeOK'
    BY NextTypeOK
  <2>2. CASE Next
    BY <2>1, <2>2, RuntimeShape, EnvironmentShape, CallerShape DEF Next
  <2>3. CASE UNCHANGED vars
    BY <2>1, <2>3 DEF vars, registry, maps, history, Shape, OwnerIsAlive,
       TokensInOrder, ClosedAreDone, SocketsRun, CleanedLeft,
       MapsBelongToRuntime
  <2>4. QED
    BY <2>2, <2>3, <2>1
<1>3. QED
  BY <1>1, <1>2, PTL DEF Spec

\* An instance never has two sockets: whoever is connected is the registered
\* runtime.
THEOREM OneSocketAlways == Spec => []OneSocket
<1>1. IInv => OneSocket
  BY DEF IInv, TypeOK, OneSocket, SocketsRun, OwnerIsAlive, Alive, Phase
<1>2. QED
  BY <1>1, Inductive, PTL

\* The shared maps never keep an entry of a runtime that is gone.
THEOREM MapsAlwaysBelong == Spec => []MapsBelongToRuntime
<1>1. IInv => MapsBelongToRuntime
  BY DEF IInv
<1>2. QED
  BY <1>1, Inductive, PTL

\* Whoever saw done close sees nothing left of that runtime.
THEOREM DoneAlwaysMeansReleased == Spec => []DoneMeansReleased
<1>1. IInv => DoneMeansReleased
  BY DEF IInv, TypeOK, DoneMeansReleased, ClosedAreDone, SocketsRun,
     OwnerIsAlive, MapsBelongToRuntime, Alive, Phase, Token, None
<1>2. QED
  BY <1>1, Inductive, PTL

-----------------------------------------------------------------------------
(***************************************************************************)
(* The registry implements SocketLease.                                     *)
(***************************************************************************)

\* A step of StartClient grants nothing new, but shows, withdraws or releases.
LEMMA RuntimeImplements ==
    ASSUME IInv, NEW t \in Token, RuntimeStep(t)
    PROVE  [Lease!Next]_(Lease!vars)
<1> USE DEF IInv, Lease!vars, Lease!NoLease, None, registry, maps, history
<1> t # 0 /\ (phase[t] \in Alive => t = runtime)
  BY DEF OwnerIsAlive, Token
<1>1. CASE PublishKillChannel(t) \/ FailBeforeClient(t) \/ FailProxy(t)
           \/ InstallMyClient(t) \/ ConnectFails(t) \/ Announce(t)
  BY <1>1 DEF PublishKillChannel, FailBeforeClient, FailProxy,
      InstallMyClient, ConnectFails, Announce
<1>2. CASE CreateClient(t)
  <2>1. t = runtime
    BY <1>2 DEF CreateClient, Move, Alive, Phase
  <2>2. Lease!Show
    BY <1>2, <2>1 DEF CreateClient, Lease!Show
  <2>3. QED
    BY <2>2 DEF Lease!Next
<1>3. CASE ConnectSucceeds(t)
  <2>1. t = runtime
    BY <1>3 DEF ConnectSucceeds, Move, Alive, Phase
  <2>2. sockets' = {t}
    <3>1. \A s \in sockets : s = t
      BY <2>1 DEF SocketsRun, OwnerIsAlive, TypeOK, Alive, Phase
    <3>2. QED
      BY <1>3, <3>1 DEF ConnectSucceeds
  <2>3. Lease!GoOnline
    BY <1>3, <2>1, <2>2 DEF ConnectSucceeds, Lease!GoOnline
  <2>4. QED
    BY <2>3 DEF Lease!Next
<1>4. CASE TakeKill(t) \/ Unlink(t) \/ CleanUp(t)
  <2>1. sockets' \in {sockets, {}}
    <3>1. \A s \in sockets : s = t
      BY <1>4 DEF TakeKill, Unlink, CleanUp, Move, SocketsRun, OwnerIsAlive,
         TypeOK, Alive, Phase
    <3>2. QED
      BY <1>4, <3>1 DEF TakeKill, Unlink, CleanUp
  <2>2. clientPointer' \in {clientPointer, 0}
    BY <1>4 DEF TakeKill, Unlink, CleanUp, Without
  <2>3. Lease!Withdraw
    BY <1>4, <2>1, <2>2 DEF TakeKill, Unlink, CleanUp, Lease!Withdraw
  <2>4. QED
    BY <2>3 DEF Lease!Next
<1>5. CASE FinishRuntime(t)
  <2>1. t = runtime
    BY <1>5 DEF FinishRuntime, Move, Alive, Phase
  <2>2. clientPointer = 0
    BY <1>5, <2>1 DEF FinishRuntime, Move, CleanedLeft, MapsBelongToRuntime
  <2>3. sockets = {}
    BY <1>5, <2>1 DEF FinishRuntime, Move, SocketsRun, OwnerIsAlive, TypeOK,
       Alive, Phase
  <2>4. Lease!Release
    BY <1>5, <2>1, <2>2, <2>3 DEF FinishRuntime, Without, Lease!Release
  <2>5. QED
    BY <2>4 DEF Lease!Next
<1>6. QED
  BY <1>1, <1>2, <1>3, <1>4, <1>5 DEF RuntimeStep

\* The registry implements the lease: its behaviours, seen through the
\* refinement mapping, are behaviours of SocketLease.
THEOREM RegistryImplementsLease == Spec => ImplementsLease
<1>1. Init => Lease!Init
  BY DEF Init, Lease!Init, Lease!NoLease, None
<1>2. IInv /\ [Next]_vars => [Lease!Next]_(Lease!vars)
  <2> SUFFICES ASSUME IInv, [Next]_vars PROVE [Lease!Next]_(Lease!vars)
    OBVIOUS
  <2> USE DEF Lease!vars, Lease!NoLease, None, registry, maps, history
  <2>1. ASSUME NEW t \in Token, RuntimeStep(t)
        PROVE  [Lease!Next]_(Lease!vars)
    BY <2>1, RuntimeImplements
  <2>2. ASSUME NEW t \in Token, ReserveRuntime(t)
        PROVE  [Lease!Next]_(Lease!vars)
    <3>1. Lease!Grant
      BY <2>2 DEF ReserveRuntime, Lease!Grant
    <3>2. QED
      BY <3>1 DEF Lease!Next
  <2>3. ASSUME NEW t \in Token, LoseSocket(t)
        PROVE  [Lease!Next]_(Lease!vars)
    <3>1. \A s \in sockets : s = t
      BY <2>3 DEF IInv, LoseSocket, SocketsRun, OwnerIsAlive, TypeOK, Alive,
         Phase
    <3>2. sockets' = {}
      BY <2>3, <3>1 DEF LoseSocket
    <3>3. Lease!Withdraw
      BY <2>3, <3>2 DEF LoseSocket, Lease!Withdraw
    <3>4. QED
      BY <3>3 DEF Lease!Next
  <2>4. ASSUME NEW t \in Token, LoggedOutEvent(t) \/ QRWindowEnds(t)
        PROVE  [Lease!Next]_(Lease!vars)
    BY <2>4 DEF LoggedOutEvent, QRWindowEnds
  <2>5. ASSUME NEW c \in Callers,
               BeginRestart(c) \/ BeginClear(c) \/ CallerStep(c)
        PROVE  [Lease!Next]_(Lease!vars)
    <3>1. CASE ClearMaps(c)
      <4>1. Lease!Withdraw
        BY <3>1 DEF ClearMaps, Lease!Withdraw
      <4>2. QED
        BY <4>1 DEF Lease!Next
    <3>2. CASE ~ ClearMaps(c)
      BY <2>5, <3>2 DEF BeginRestart, BeginClear, CallerStep, ReadDone,
         SignalStop, WaitEnds, WaitTimesOut, EndRestart, CheckCleared
    <3>3. QED
      BY <3>1, <3>2
  <2>6. CASE UNCHANGED vars
    BY <2>6 DEF vars
  <2>7. QED
    BY <2>1, <2>2, <2>3, <2>4, <2>5, <2>6 DEF Next, Environment
<1>3. QED
  BY <1>1, <1>2, Inductive, PTL DEF Spec, ImplementsLease, Lease!Spec

-----------------------------------------------------------------------------
(***************************************************************************)
(* What StopReachesRuntime rests on besides fairness: a runtime goes one    *)
(* way through finitely many phases, and a signal waits for it.             *)
(***************************************************************************)
Rank == [none |-> 0, reserved |-> 1, armed |-> 2, created |-> 3,
         installed |-> 4, running |-> 5, killed |-> 6, unlinked |-> 7,
         draining |-> 8, cleaned |-> 9, done |-> 10]

\* Each step of its own takes a runtime further, no step of another brings it
\* back, and the signal in its kill channel is there until it takes it.
GoesToItsEnd ==
    \A t \in Token :
        /\ Rank[phase'[t]] >= Rank[phase[t]]
        /\ RuntimeStep(t) => Rank[phase'[t]] > Rank[phase[t]]
        /\ t \in signalled => t \in signalled' \/ phase'[t] = "killed"

\* Each step of StartClient leads to a later phase of its own runtime only.
LEMMA StepAhead ==
    ASSUME TypeOK, NEW t \in Token, RuntimeStep(t) \/ ReserveRuntime(t)
    PROVE  /\ Rank[phase'[t]] > Rank[phase[t]]
           /\ \A s \in Token \ {t} : phase'[s] = phase[s]
           /\ signalled' = signalled \/ (signalled' = signalled \ {t} /\ phase'[t] = "killed")
<1>1. \A s \in Token : Rank[phase[s]] \in Nat
  BY DEF TypeOK, Phase, Rank
<1> DEFINE Ahead == Rank[phase'[t]] > Rank[phase[t]] /\ \A s \in Token \ {t} : phase'[s] = phase[s]
<1>2. \A from, to \in Phase : Move(t, from, to) /\ Rank[to] > Rank[from] => Ahead
  BY DEF Move, TypeOK
<1>3. Ahead
  <2> HIDE DEF Ahead
  <2>1. CASE PublishKillChannel(t) \/ InstallMyClient(t) \/ ReserveRuntime(t)
    BY <1>2, <2>1 DEF PublishKillChannel, InstallMyClient, ReserveRuntime, Rank, Phase
  <2>2. CASE CreateClient(t) \/ ConnectSucceeds(t)
    BY <1>2, <2>2 DEF CreateClient, ConnectSucceeds, Rank, Phase
  <2>3. CASE FailBeforeClient(t) \/ FailProxy(t) \/ ConnectFails(t)
    BY <1>2, <2>3 DEF FailBeforeClient, FailProxy, ConnectFails, Rank, Phase
  <2>4. CASE TakeKill(t)
    BY <1>2, <2>4 DEF TakeKill, Rank, Phase
  <2>5. CASE Unlink(t)
    BY <1>2, <2>5 DEF Unlink, Rank, Phase
  <2>6. CASE Announce(t)
    BY <1>2, <2>6 DEF Announce, Rank, Phase
  <2>7. CASE CleanUp(t)
    BY <1>2, <2>7 DEF CleanUp, Rank, Phase
  <2>8. CASE FinishRuntime(t)
    BY <1>2, <2>8 DEF FinishRuntime, Rank, Phase
  <2> QED
    BY <2>1, <2>2, <2>3, <2>4, <2>5, <2>6, <2>7, <2>8 DEF RuntimeStep
<1>4. signalled' = signalled \/ TakeKill(t)
  BY DEF RuntimeStep, PublishKillChannel, FailBeforeClient, CreateClient, FailProxy,
     InstallMyClient, ConnectSucceeds, ConnectFails, Unlink, Announce, CleanUp,
     FinishRuntime, ReserveRuntime
<1>5. TakeKill(t) => signalled' = signalled \ {t} /\ phase'[t] = "killed"
  BY DEF TakeKill, Move, TypeOK
<1> QED
  BY <1>3, <1>4, <1>5

\* The others leave every phase alone and take no signal away.
LEMMA OthersLeavePhases ==
    ASSUME TypeOK,
           \/ \E t \in Token : LoseSocket(t) \/ LoggedOutEvent(t) \/ QRWindowEnds(t)
           \/ \E c \in Callers : BeginRestart(c) \/ BeginClear(c) \/ CallerStep(c)
           \/ UNCHANGED vars
    PROVE  phase' = phase /\ signalled \subseteq signalled'
BY DEF LoseSocket, LoggedOutEvent, QRWindowEnds, SendKill, BeginRestart, BeginClear,
   CallerStep, ReadDone, SignalStop, WaitEnds, WaitTimesOut, EndRestart, CheckCleared,
   ClearMaps, vars

\* A signal is never lost and a runtime never turns back, whatever starts,
\* callers, QR windows and logouts run beside it: what StopReachesRuntime asks of
\* the scheduler is only that the goroutine runs.
THEOREM StopsGoThrough == Spec => [][GoesToItsEnd]_vars
<1>1. TypeOK /\ [Next]_vars => [GoesToItsEnd]_vars
  <2> SUFFICES ASSUME TypeOK, [Next]_vars, NEW s \in Token
               PROVE  /\ Rank[phase'[s]] >= Rank[phase[s]]
                      /\ RuntimeStep(s) => Rank[phase'[s]] > Rank[phase[s]]
                      /\ s \in signalled => s \in signalled' \/ phase'[s] = "killed"
    BY DEF GoesToItsEnd
  <2>1. Rank[phase[s]] \in Nat
    BY DEF TypeOK, Phase, Rank
  <2>2. RuntimeStep(s) => Rank[phase'[s]] > Rank[phase[s]]
    BY StepAhead
  <2>3. ASSUME NEW t \in Token, RuntimeStep(t) \/ ReserveRuntime(t)
        PROVE  /\ Rank[phase'[s]] >= Rank[phase[s]]
               /\ s \in signalled => s \in signalled' \/ phase'[s] = "killed"
    <3>1. CASE s = t
      BY <2>1, <2>3, <3>1, StepAhead, NextTypeOK DEF TypeOK, Phase, Rank
    <3>2. CASE s # t
      BY <2>1, <2>3, <3>2, StepAhead
    <3> QED
      BY <3>1, <3>2
  <2>4. CASE phase' = phase /\ signalled \subseteq signalled'
    BY <2>1, <2>2, <2>4
  <2> QED
    BY <2>2, <2>3, <2>4, OthersLeavePhases DEF Next, Environment
<1> QED
  BY <1>1, TypeCorrect, PTL DEF Spec

-----------------------------------------------------------------------------
(***************************************************************************)
(* Whom the callers wait for, and who was stopped.                          *)
(***************************************************************************)
\* The done channel a caller holds is that of the runtime that is registered,
\* or is closed.  Past its wait, it is closed.
WaitsForItsEnd ==
    \A c \in Callers :
        /\ call[c].done # None => call[c].done = runtime \/ call[c].done \in closed
        /\ call[c].pc \in {"stopped", "clearing"} => call[c].done \in closed \cup {None}

\* What a caller does with the channel it holds.
LEMMA CallerHolds ==
    ASSUME TypeOK, WaitsForItsEnd, NEW c \in Callers,
           BeginRestart(c) \/ BeginClear(c) \/ CallerStep(c)
    PROVE  /\ runtime' = runtime /\ closed' = closed
           /\ WaitsForItsEnd'
<1>1. runtime' = runtime /\ closed' = closed
  BY DEF registry, BeginRestart, BeginClear, CallerStep, ReadDone, SignalStop, WaitEnds,
     WaitTimesOut, EndRestart, CheckCleared, ClearMaps
<1>2. call \in [Callers -> Call]
  BY DEF TypeOK
<1>3. \A d \in Callers \ {c} : call'[d] = call[d]
  BY <1>2 DEF BeginRestart, BeginClear, CallerStep, ReadDone, SignalStop, WaitEnds,
     WaitTimesOut, EndRestart, CheckCleared, ClearMaps, Goto
<1>4. /\ call'[c].done # None => call'[c].done = runtime \/ call'[c].done \in closed
      /\ call'[c].pc \in {"stopped", "clearing"} => call'[c].done \in closed \cup {None}
  <2>1. CASE BeginRestart(c) \/ BeginClear(c) \/ WaitTimesOut(c) \/ EndRestart(c) \/ ClearMaps(c)
    <3> DEFINE Asks == [Idle EXCEPT !.op = "restart", !.pc = "marked"]
               Clears == [Idle EXCEPT !.pc = "marked"]
    <3>1. /\ Idle.done = None /\ Idle.pc = "idle"
          /\ Asks.done = None /\ Asks.pc = "marked"
          /\ Clears.done = None /\ Clears.pc = "marked"
      BY DEF Idle
    <3>2. call'[c] \in {Idle, Asks, Clears}
      BY <1>2, <2>1 DEF BeginRestart, BeginClear, WaitTimesOut, EndRestart, ClearMaps
    <3> HIDE DEF Asks, Clears
    <3> QED
      BY <3>1, <3>2
  <2>2. CASE ReadDone(c) \/ SignalStop(c)
    BY <1>2, <2>2 DEF ReadDone, SignalStop, Goto, Call, WaitsForItsEnd
  <2>3. CASE WaitEnds(c)
    BY <1>2, <2>3 DEF WaitEnds, Goto, Call, WaitsForItsEnd
  <2>4. CASE CheckCleared(c)
    BY <1>2, <2>4 DEF CheckCleared, Idle, Call, WaitsForItsEnd
  <2> QED
    BY <2>1, <2>2, <2>3, <2>4 DEF CallerStep
<1> QED
  BY <1>1, <1>3, <1>4 DEF WaitsForItsEnd

\* A caller never waits for a runtime that nobody will finish: the channel it
\* read belongs to the registered runtime until it is closed, though another
\* runtime may be reserved, or the maps cleared, between the two.  And a call
\* that goes on has seen that runtime released (DoneAlwaysMeansReleased).
THEOREM CallersWaitForAnEnd == Spec => []WaitsForItsEnd
<1>1. Init => WaitsForItsEnd
  BY DEF Init, Idle, WaitsForItsEnd
<1>2. IInv /\ WaitsForItsEnd /\ [Next]_vars => WaitsForItsEnd'
  <2> SUFFICES ASSUME IInv, WaitsForItsEnd, [Next]_vars
               PROVE  WaitsForItsEnd'
    OBVIOUS
  <2>1. ASSUME NEW t \in Token, FinishRuntime(t)
        PROVE  WaitsForItsEnd'
    <3>1. t = runtime
      BY <2>1 DEF IInv, OwnerIsAlive, FinishRuntime, Move, Alive, Phase
    <3>2. closed' = closed \cup {t} /\ call' = call
      BY <2>1, <3>1 DEF FinishRuntime
    <3> QED
      BY <3>1, <3>2 DEF WaitsForItsEnd
  <2>2. ASSUME NEW t \in Token, ReserveRuntime(t)
        PROVE  WaitsForItsEnd'
    BY <2>2 DEF ReserveRuntime, WaitsForItsEnd
  <2>3. ASSUME NEW t \in Token, RuntimeStep(t) \/ Environment(t),
               ~FinishRuntime(t), ~ReserveRuntime(t)
        PROVE  WaitsForItsEnd'
    <3>1. runtime' = runtime /\ closed' = closed /\ call' = call
      BY <2>3 DEF registry, RuntimeStep, Environment, PublishKillChannel, FailBeforeClient,
         CreateClient, FailProxy, InstallMyClient, ConnectSucceeds, ConnectFails, TakeKill,
         Unlink, Announce, CleanUp, LoseSocket, LoggedOutEvent, QRWindowEnds
    <3> QED
      BY <3>1 DEF WaitsForItsEnd
  <2>4. ASSUME NEW c \in Callers, BeginRestart(c) \/ BeginClear(c) \/ CallerStep(c)
        PROVE  WaitsForItsEnd'
    BY <2>4, CallerHolds DEF IInv
  <2>5. CASE UNCHANGED vars
    BY <2>5 DEF vars, registry, WaitsForItsEnd
  <2> QED
    BY <2>1, <2>2, <2>3, <2>4, <2>5 DEF Next
<1> QED
  BY <1>1, <1>2, Inductive, PTL DEF Spec

\* A signal has a sender, and so has the end of every runtime that took one and
\* of every LoggedOut that was announced for it.
StoppedBySomebody ==
    \A t \in Token :
        t \in signalled \cup announced \/ phase[t] \in {"killed", "unlinked"} => killers[t] # {}

\* Sending a signal records who sent it.
LEMMA SendKillRecords ==
    ASSUME TypeOK, StoppedBySomebody, NEW t \in Token \cup {None}, NEW who \in Killer,
           SendKill(t, who)
    PROVE  \A s \in Token : /\ killers[s] # {} => killers'[s] # {}
                            /\ s \in signalled' => killers'[s] # {}
<1>1. CASE t = None
  BY <1>1 DEF SendKill, StoppedBySomebody
<1>2. CASE t # None
  BY <1>2 DEF SendKill, StoppedBySomebody, TypeOK
<1> QED
  BY <1>1, <1>2

\* Nobody is told of a logout that nobody asked for: a runtime announces
\* LoggedOut only after a restart, a stop, a logout or the end of its QR window
\* put a signal in its own kill channel, and not because another runtime of the
\* instance was stopped.
THEOREM NobodyEndsUnasked == Spec => []StoppedBySomebody
<1>1. Init => StoppedBySomebody
  BY DEF Init, StoppedBySomebody
<1>2. TypeOK /\ StoppedBySomebody /\ [Next]_vars => StoppedBySomebody'
  <2> SUFFICES ASSUME TypeOK, StoppedBySomebody, [Next]_vars
               PROVE  StoppedBySomebody'
    OBVIOUS
  <2>1. ASSUME NEW t \in Token, LoggedOutEvent(t) \/ QRWindowEnds(t)
        PROVE  StoppedBySomebody'
    <3>1. announced' = announced /\ phase' = phase
      BY <2>1 DEF LoggedOutEvent, QRWindowEnds
    <3>2. PICK u \in Token \cup {None}, who \in Killer : SendKill(u, who)
      BY <2>1 DEF LoggedOutEvent, QRWindowEnds, TypeOK, Killer
    <3>3. \A s \in Token : /\ killers[s] # {} => killers'[s] # {}
                           /\ s \in signalled' => killers'[s] # {}
      BY <3>2, SendKillRecords
    <3> QED
      BY <3>1, <3>3 DEF StoppedBySomebody
  <2>2. ASSUME NEW c \in Callers, SignalStop(c)
        PROVE  StoppedBySomebody'
    <3>1. announced' = announced /\ phase' = phase
      BY <2>2 DEF SignalStop
    <3>2. call[c].op \in Killer /\ killChannel \in Token \cup {None}
      BY DEF TypeOK, Call, Killer
    <3>3. SendKill(killChannel, call[c].op)
      BY <2>2 DEF SignalStop
    <3>4. \A s \in Token : /\ killers[s] # {} => killers'[s] # {}
                           /\ s \in signalled' => killers'[s] # {}
      BY <3>2, <3>3, SendKillRecords
    <3> QED
      BY <3>1, <3>4 DEF StoppedBySomebody
  <2>3. ASSUME NEW t \in Token, TakeKill(t) \/ Unlink(t) \/ Announce(t)
        PROVE  StoppedBySomebody'
    <3>1. killers' = killers /\ signalled' \subseteq signalled /\ announced' \subseteq announced \cup {t}
      BY <2>3 DEF history, TakeKill, Unlink, Announce
    <3>2. killers[t] # {}
      BY <2>3 DEF TakeKill, Unlink, Announce, Move, StoppedBySomebody
    <3>3. \A s \in Token \ {t} : phase'[s] = phase[s]
      BY <2>3 DEF TakeKill, Unlink, Announce, Move, TypeOK
    <3> QED
      BY <3>1, <3>2, <3>3 DEF StoppedBySomebody
  <2>4. ASSUME NEW t \in Token, RuntimeStep(t) \/ ReserveRuntime(t) \/ LoseSocket(t),
               ~TakeKill(t), ~Unlink(t), ~Announce(t)
        PROVE  StoppedBySomebody'
    <3>1. killers' = killers /\ signalled' = signalled /\ announced' = announced
      BY <2>4 DEF history, RuntimeStep, PublishKillChannel, FailBeforeClient, CreateClient,
         FailProxy, InstallMyClient, ConnectSucceeds, ConnectFails, CleanUp, FinishRuntime,
         ReserveRuntime, LoseSocket
    <3>2. \A s \in Token : phase'[s] \in {"killed", "unlinked"} => phase'[s] = phase[s]
      BY <2>4 DEF RuntimeStep, PublishKillChannel, FailBeforeClient, CreateClient,
         FailProxy, InstallMyClient, ConnectSucceeds, ConnectFails, CleanUp, FinishRuntime,
         ReserveRuntime, LoseSocket, Move, TypeOK
    <3> QED
      BY <3>1, <3>2 DEF StoppedBySomebody
  <2>5. ASSUME NEW c \in Callers, BeginRestart(c) \/ BeginClear(c) \/ CallerStep(c),
               ~SignalStop(c)
        PROVE  StoppedBySomebody'
    BY <2>5 DEF history, BeginRestart, BeginClear, CallerStep, ReadDone, WaitEnds, WaitTimesOut,
       EndRestart, CheckCleared, ClearMaps, StoppedBySomebody
  <2>6. CASE UNCHANGED vars
    BY <2>6 DEF vars, history, StoppedBySomebody
  <2> QED
    BY <2>1, <2>2, <2>3, <2>4, <2>5, <2>6 DEF Next, Environment
<1> QED
  BY <1>1, <1>2, TypeCorrect, PTL DEF Spec
=============================================================================
