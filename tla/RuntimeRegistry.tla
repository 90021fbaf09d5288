--------------------------- MODULE RuntimeRegistry ---------------------------
(***************************************************************************)
(* The runtime registry of one WhatsApp instance: the goroutine StartClient *)
(* that owns the socket, the token that keeps it unique                     *)
(* (pkg/whatsmeow/service/runtime_lifecycle.go), the three shared maps it   *)
(* publishes itself in, and the goroutines that stop it from outside:       *)
(* restartInstance (supervisor, /reconnect) and ClearInstanceCache          *)
(* (/disconnect, /logout, delete).                                          *)
(*                                                                         *)
(* Every map of the service is keyed by instance id and the two mutexes     *)
(* (lifecycleMu, ClientMapsMu) are held inside one action only, so          *)
(* instances do not interact here and one instance is modelled.  A step is  *)
(* what the code does between two lock acquisitions or blocking operations. *)
(***************************************************************************)
EXTENDS Naturals

CONSTANTS
    MaxRuntimes, (* bound: how many runtimes are reserved in a behaviour    *)
    Callers      (* goroutines that stop the runtime from outside           *)

ASSUME MaxRuntimesAssumption == MaxRuntimes \in Nat \ {0}

Token == 1 .. MaxRuntimes
None  == 0        \* no runtime: a missing map entry, a nil channel

VARIABLES
    runtimeSequence,  \* tokens handed out so far
    runtime,          \* w.runtimes[id]: the registered token, or None
    restarting,       \* the restarting flag of the registered runtime
    closed,           \* tokens whose done channel is closed
    killChannel,      \* owner of w.killChannel[id], or None
    clientPointer,    \* owner of w.clientPointer[id], or None
    myClientPointer,  \* owner of w.myClientPointer[id], or None
    signalled,        \* tokens whose one-slot kill channel holds a signal
    sockets,          \* tokens whose whatsmeow client is connected
    qrEnded,          \* tokens whose QR window ended without a scan
    announced,        \* tokens whose kill branch emitted LoggedOut
    phase,            \* where the StartClient goroutine of each token is
    call,             \* where each caller is, and the done channel it holds
    killers           \* history: who put a signal in each kill channel

registry == <<runtimeSequence, runtime, closed>>
maps     == <<killChannel, clientPointer, myClientPointer>>
history  == <<announced, killers>>
vars == <<registry, maps, history, restarting, signalled, sockets, qrEnded,
          phase, call>>

Phase == {"none", "reserved", "armed", "created", "installed", "running",
          "killed", "unlinked", "draining", "cleaned", "done"}

\* A runtime whose event handler is installed and may be called.
Handling == {"installed", "running", "killed", "unlinked", "draining"}

\* A runtime between reserveRuntime and finishRuntime.
Alive == Phase \ {"none", "done"}

Killer == {"restart", "stop", "logout", "qr"}

CallPc == {"idle", "marked", "signalling", "waiting", "stopped", "clearing"}
Call   == [op: {"restart", "stop"}, pc: CallPc, done: Token \cup {None}]
Idle   == [op |-> "stop", pc |-> "idle", done |-> None]

-----------------------------------------------------------------------------
Init ==
    /\ runtimeSequence = 0
    /\ runtime = None
    /\ restarting = FALSE
    /\ closed = {}
    /\ killChannel = None
    /\ clientPointer = None
    /\ myClientPointer = None
    /\ signalled = {}
    /\ sockets = {}
    /\ qrEnded = {}
    /\ announced = {}
    /\ phase = [t \in Token |-> "none"]
    /\ call = [c \in Callers |-> Idle]
    /\ killers = [t \in Token |-> {}]

Move(t, from, to) ==
    /\ phase[t] = from
    /\ phase' = [phase EXCEPT ![t] = to]

(***************************************************************************)
(* StartClient, one runtime per successful reservation.  A reservation that *)
(* finds another runtime returns at once and changes nothing.               *)
(***************************************************************************)

\* Mutant of ReserveRuntime: it does not look for a registered runtime.
ReserveWithoutLooking(t) ==
    /\ t = runtimeSequence + 1
    /\ runtimeSequence' = t
    /\ runtime' = t
    /\ restarting' = FALSE
    /\ Move(t, "none", "reserved")
    /\ UNCHANGED <<closed, maps, history, signalled, sockets, qrEnded, call>>

\* reserveRuntime: take the next token unless a runtime is registered.
ReserveRuntime(t) ==
    /\ runtime = None
    /\ t = runtimeSequence + 1
    /\ runtimeSequence' = t
    /\ runtime' = t
    /\ restarting' = FALSE
    /\ Move(t, "none", "reserved")
    /\ UNCHANGED <<closed, maps, history, signalled, sockets, qrEnded, call>>

\* The kill channel enters the map under another lock than the reservation.
PublishKillChannel(t) ==
    /\ Move(t, "reserved", "armed")
    /\ killChannel' = t
    /\ UNCHANGED <<registry, clientPointer, myClientPointer, history,
                   restarting, signalled, sockets, qrEnded, call>>

\* Returns before a client exists: a connected client already in the map, the
\* auth container or the device store cannot be read.
FailBeforeClient(t) ==
    /\ Move(t, "armed", "draining")
    /\ UNCHANGED <<registry, maps, history, restarting, signalled, sockets,
                   qrEnded, call>>

CreateClient(t) ==
    /\ ~ (clientPointer # None /\ clientPointer \in sockets)
    /\ Move(t, "armed", "created")
    /\ clientPointer' = t
    /\ UNCHANGED <<registry, killChannel, myClientPointer, history, restarting,
                   signalled, sockets, qrEnded, call>>

\* The proxy of the instance cannot be parsed or applied.
FailProxy(t) ==
    /\ Move(t, "created", "draining")
    /\ UNCHANGED <<registry, maps, history, restarting, signalled, sockets,
                   qrEnded, call>>

InstallMyClient(t) ==
    /\ Move(t, "created", "installed")
    /\ myClientPointer' = t
    /\ UNCHANGED <<registry, killChannel, clientPointer, history, restarting,
                   signalled, sockets, qrEnded, call>>

ConnectSucceeds(t) ==
    /\ Move(t, "installed", "running")
    /\ sockets' = sockets \cup {t}
    /\ UNCHANGED <<registry, maps, history, restarting, signalled, qrEnded,
                   call>>

ConnectFails(t) ==
    /\ Move(t, "installed", "draining")
    /\ UNCHANGED <<registry, maps, history, restarting, signalled, sockets,
                   qrEnded, call>>

\* The socket dies (network, stream error) while the runtime stays registered.
LoseSocket(t) ==
    /\ phase[t] = "running"
    /\ t \in sockets
    /\ sockets' = sockets \ {t}
    /\ UNCHANGED <<registry, maps, history, restarting, signalled, qrEnded,
                   phase, call>>

\* Mutant of TakeKill: the loop reads the channel of the map only.
TakeKillOfMap(t) ==
    /\ Move(t, "running", "killed")
    /\ t \in signalled
    /\ killChannel = t
    /\ signalled' = signalled \ {t}
    /\ sockets' = sockets \ {t}
    /\ UNCHANGED <<registry, maps, history, restarting, qrEnded, call>>

\* The loop of StartClient takes the signal, from the channel of the map or
\* from runtimeKill (the same channel), and disconnects the client.
TakeKill(t) ==
    /\ Move(t, "running", "killed")
    /\ t \in signalled
    /\ signalled' = signalled \ {t}
    /\ sockets' = sockets \ {t}
    /\ UNCHANGED <<registry, maps, history, restarting, qrEnded, call>>

\* The kill branch deletes both pointers without looking at their owner.
Unlink(t) ==
    /\ Move(t, "killed", "unlinked")
    /\ clientPointer' = None
    /\ myClientPointer' = None
    /\ UNCHANGED <<registry, killChannel, history, restarting, signalled,
                   sockets, qrEnded, call>>

\* LoggedOut is emitted unless the stop is a restart or the end of the QR.
\* runtimeRestarting answers for the registered runtime, which is t itself.
Announce(t) ==
    /\ Move(t, "unlinked", "draining")
    /\ announced' = IF ~restarting /\ t \notin qrEnded
                    THEN announced \cup {t} ELSE announced
    /\ UNCHANGED <<registry, maps, killers, restarting, signalled, sockets,
                   qrEnded, call>>

Without(entry, t) == IF entry = t THEN None ELSE entry

\* Mutants of CleanUp: one entry is left behind.
CleanUpKeepingKillChannel(t) ==
    /\ Move(t, "draining", "cleaned")
    /\ sockets' = sockets \ {t}
    /\ clientPointer' = Without(clientPointer, t)
    /\ myClientPointer' = Without(myClientPointer, t)
    /\ UNCHANGED <<registry, killChannel, history, restarting, signalled,
                   qrEnded, call>>

CleanUpKeepingClient(t) ==
    /\ Move(t, "draining", "cleaned")
    /\ sockets' = sockets \ {t}
    /\ myClientPointer' = Without(myClientPointer, t)
    /\ killChannel' = Without(killChannel, t)
    /\ UNCHANGED <<registry, clientPointer, history, restarting, signalled,
                   qrEnded, call>>

\* The deferred function: the event handler is removed, the client is
\* disconnected, and the entries still owned by this runtime leave the maps.
CleanUp(t) ==
    /\ Move(t, "draining", "cleaned")
    /\ sockets' = sockets \ {t}
    /\ clientPointer' = Without(clientPointer, t)
    /\ myClientPointer' = Without(myClientPointer, t)
    /\ killChannel' = Without(killChannel, t)
    /\ UNCHANGED <<registry, history, restarting, signalled, qrEnded, call>>

\* Mutant of FinishRuntime: it runs before the maps are cleaned.
FinishBeforeCleanUp(t) ==
    /\ Move(t, "draining", "done")
    /\ runtime' = Without(runtime, t)
    /\ closed' = closed \cup {t}
    /\ restarting' = FALSE
    /\ UNCHANGED <<runtimeSequence, maps, history, signalled, sockets, qrEnded,
                   call>>

\* finishRuntime: only the registered token unregisters and closes done.
FinishRuntime(t) ==
    /\ Move(t, "cleaned", "done")
    /\ runtime' = Without(runtime, t)
    /\ closed' = IF runtime = t THEN closed \cup {t} ELSE closed
    /\ restarting' = IF runtime = t THEN FALSE ELSE restarting
    /\ UNCHANGED <<runtimeSequence, maps, history, signalled, sockets, qrEnded,
                   call>>

(***************************************************************************)
(* Signals sent from inside the runtime.                                    *)
(***************************************************************************)

\* Mutant of SendKill: the channel read from the map is not tested for nil.
SendKillUntested(t, who) ==
    /\ signalled' = signalled \cup {t}
    /\ killers' = IF t \in signalled \cup {None} THEN killers
                  ELSE [killers EXCEPT ![t] = @ \cup {who}]

\* A non-blocking send to the kill channel of t; a nil channel (None) and a
\* full one drop it.
SendKill(t, who) ==
    IF t = None THEN UNCHANGED <<signalled, killers>>
    ELSE /\ signalled' = signalled \cup {t}
         /\ killers' = IF t \in signalled THEN killers
                       ELSE [killers EXCEPT ![t] = @ \cup {who}]

\* The LoggedOut handler signals whatever channel the map holds.  The handler
\* cannot outlive CleanUp: RemoveEventHandler waits for running handlers.
LoggedOutEvent(t) ==
    /\ phase[t] \in Handling
    /\ SendKill(killChannel, "logout")
    /\ UNCHANGED <<registry, maps, announced, restarting, sockets, qrEnded,
                   phase, call>>

\* teardownQR: the QR codes ran out or the socket of the QR died.  The emitter
\* is a goroutine nobody waits for: it may get here after its runtime ended,
\* and it signals the channel of its own runtime only (signalRuntimeKill).
QRWindowEnds(t) ==
    /\ phase[t] \in {"running", "killed", "unlinked", "draining", "cleaned",
                     "done"}
    /\ t \notin qrEnded
    /\ qrEnded' = qrEnded \cup {t}
    /\ SendKill(t, "qr")
    /\ UNCHANGED <<registry, maps, announced, restarting, sockets, phase, call>>

(***************************************************************************)
(* Callers.  signalRuntimeStop reads done under lifecycleMu and the kill    *)
(* channel under ClientMapsMu: two steps.                                   *)
(***************************************************************************)
Goto(c, pc) == call' = [call EXCEPT ![c].pc = pc]

\* restartInstance: markRuntimeRestart, then signalRuntimeStop.
BeginRestart(c) ==
    /\ call[c].pc = "idle"
    /\ call' = [call EXCEPT ![c] = [Idle EXCEPT !.op = "restart", !.pc = "marked"]]
    /\ restarting' = (runtime # None)
    /\ UNCHANGED <<registry, maps, history, signalled, sockets, qrEnded, phase>>

\* ClearInstanceCache begins with signalRuntimeStop.
BeginClear(c) ==
    /\ call[c].pc = "idle"
    /\ call' = [call EXCEPT ![c] = [Idle EXCEPT !.pc = "marked"]]
    /\ UNCHANGED <<registry, maps, history, restarting, signalled, sockets,
                   qrEnded, phase>>

ReadDone(c) ==
    /\ call[c].pc = "marked"
    /\ call' = [call EXCEPT ![c].pc = "signalling", ![c].done = runtime]
    /\ UNCHANGED <<registry, maps, history, restarting, signalled, sockets,
                   qrEnded, phase>>

SignalStop(c) ==
    /\ call[c].pc = "signalling"
    /\ SendKill(killChannel, call[c].op)
    /\ Goto(c, "waiting")
    /\ UNCHANGED <<registry, maps, announced, restarting, sockets, qrEnded,
                   phase>>

\* waitRuntimeDone returns true: no runtime when done was read, or closed.
WaitEnds(c) ==
    /\ call[c].pc = "waiting"
    /\ call[c].done = None \/ call[c].done \in closed
    /\ Goto(c, "stopped")
    /\ UNCHANGED <<registry, maps, history, restarting, signalled, sockets,
                   qrEnded, phase>>

\* runtimeStopTimeout: the call fails; a restart clears the mark of whatever
\* runtime is registered now.
WaitTimesOut(c) ==
    /\ call[c].pc = "waiting"
    /\ call[c].done # None /\ call[c].done \notin closed
    /\ restarting' = IF call[c].op = "restart" THEN FALSE ELSE restarting
    /\ call' = [call EXCEPT ![c] = Idle]
    /\ UNCHANGED <<registry, maps, history, signalled, sockets, qrEnded, phase>>

\* A restart ends here: the StartClient it spawns is a ReserveRuntime.
EndRestart(c) ==
    /\ call[c].pc = "stopped"
    /\ call[c].op = "restart"
    /\ call' = [call EXCEPT ![c] = Idle]
    /\ UNCHANGED <<registry, maps, history, restarting, signalled, sockets,
                   qrEnded, phase>>

\* ClearInstanceCache looks for another runtime ...
CheckCleared(c) ==
    /\ call[c].pc = "stopped"
    /\ call[c].op = "stop"
    /\ call' = [call EXCEPT ![c] = IF runtime # None THEN Idle
                                   ELSE [@ EXCEPT !.pc = "clearing"]]
    /\ UNCHANGED <<registry, maps, history, restarting, signalled, sockets,
                   qrEnded, phase>>

\* ... and, having found none, deletes the three entries under another lock.
ClearMaps(c) ==
    /\ call[c].pc = "clearing"
    /\ call' = [call EXCEPT ![c] = Idle]
    /\ killChannel' = None
    /\ clientPointer' = None
    /\ myClientPointer' = None
    /\ UNCHANGED <<registry, history, restarting, signalled, sockets, qrEnded,
                   phase>>

-----------------------------------------------------------------------------
\* The steps of StartClient that its goroutine takes without being asked.
RuntimeStep(t) ==
    \/ PublishKillChannel(t) \/ FailBeforeClient(t) \/ CreateClient(t)
    \/ FailProxy(t) \/ InstallMyClient(t) \/ ConnectSucceeds(t)
    \/ ConnectFails(t) \/ TakeKill(t) \/ Unlink(t) \/ Announce(t)
    \/ CleanUp(t) \/ FinishRuntime(t)

\* What happens to a runtime: a start is asked for, the network, the phone.
Environment(t) ==
    \/ ReserveRuntime(t) \/ LoseSocket(t) \/ LoggedOutEvent(t)
    \/ QRWindowEnds(t)

CallerStep(c) ==
    \/ ReadDone(c) \/ SignalStop(c) \/ WaitEnds(c) \/ WaitTimesOut(c)
    \/ EndRestart(c) \/ CheckCleared(c) \/ ClearMaps(c)

Next ==
    \/ \E t \in Token : RuntimeStep(t) \/ Environment(t)
    \/ \E c \in Callers : BeginRestart(c) \/ BeginClear(c) \/ CallerStep(c)

\* A goroutine that can run does run; nobody has to start, stop or lose it.
Fairness ==
    /\ \A t \in Token : WF_vars(RuntimeStep(t))
    /\ \A c \in Callers : WF_vars(CallerStep(c))

Spec     == Init /\ [][Next]_vars
FairSpec == Spec /\ Fairness

-----------------------------------------------------------------------------
(***************************************************************************)
(* Properties.                                                              *)
(***************************************************************************)
TypeOK ==
    /\ runtimeSequence \in Nat
    /\ runtimeSequence <= MaxRuntimes
    /\ runtime \in Token \cup {None}
    /\ restarting \in BOOLEAN
    /\ closed \subseteq Token
    /\ killChannel \in Token \cup {None}
    /\ clientPointer \in Token \cup {None}
    /\ myClientPointer \in Token \cup {None}
    /\ signalled \subseteq Token
    /\ sockets \subseteq Token
    /\ qrEnded \subseteq Token
    /\ announced \subseteq Token
    /\ phase \in [Token -> Phase]
    /\ call \in [Callers -> Call]
    /\ killers \in [Token -> SUBSET Killer]

\* No instance ever has two sockets to WhatsApp, whatever starts, restarts,
\* time-outs and disconnects overlap: a second socket with the same keys makes
\* WhatsApp replace the first (events.StreamReplaced) and both would fight.
OneSocket == \A s, t \in sockets : s = t

\* The three shared maps never hold an entry of a runtime that has ended: what
\* is found there belongs to the registered runtime.  So the "stale entries"
\* that ClearInstanceCache deletes cannot exist when no runtime is registered.
MapsBelongToRuntime ==
    {killChannel, clientPointer, myClientPointer} \subseteq {None, runtime}

\* A caller that saw done close may rely on it: the socket of that runtime is
\* gone, no map refers to it and its goroutine writes nothing any more.
DoneMeansReleased ==
    \A t \in closed :
        /\ phase[t] = "done"
        /\ t \notin sockets
        /\ t \notin {runtime, killChannel, clientPointer, myClientPointer}

\* A signal that reached a kill channel is never lost, even one sent while the
\* runtime is still connecting or already failing: the runtime ends and closes
\* done, which releases the callers waiting for it.
StopReachesRuntime == \A t \in Token : t \in signalled ~> t \in closed

(***************************************************************************)
(* The inductive invariant behind the three safety properties: phases,      *)
(* tokens and registration move together, a socket needs a running runtime, *)
(* and a runtime that has cleaned up has left every map.                    *)
(***************************************************************************)
OwnerIsAlive  == \A t \in Token : phase[t] \in Alive <=> t = runtime
TokensInOrder == \A t \in Token : phase[t] = "none" <=> t > runtimeSequence
ClosedAreDone == \A t \in Token : t \in closed <=> phase[t] = "done"
SocketsRun    == \A t \in sockets : phase[t] = "running"
CleanedLeft   == \A t \in Token : phase[t] = "cleaned" =>
                     t \notin {killChannel, clientPointer, myClientPointer}

IInv ==
    /\ TypeOK
    /\ OwnerIsAlive
    /\ TokensInOrder
    /\ ClosedAreDone
    /\ SocketsRun
    /\ CleanedLeft
    /\ MapsBelongToRuntime

\* The registry implements the lease of SocketLease: the token is the lease,
\* clientPointer is what the other services reach.
Lease == INSTANCE SocketLease WITH
    granted <- runtimeSequence,
    holder  <- runtime,
    ended   <- closed,
    visible <- clientPointer,
    online  <- sockets

ImplementsLease == Lease!Spec
=============================================================================
