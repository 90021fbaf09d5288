------------------------- MODULE ReconnectSupervisor -------------------------
(***************************************************************************)
(* Who brings an instance back, and who keeps it down: the reconnection     *)
(* supervisor (ScheduleReconnect), the explicit ReconnectClient, the        *)
(* watchdog, the boot, the event handlers of the running client and the API *)
(* calls, all racing on the two columns of the instance row that say        *)
(* whether it should be up (connected, disconnect_reason), on the device    *)
(* store, on the reconnection slot and on the runtime.                      *)
(*                                                                         *)
(* The runtime is the one of RuntimeRegistry with its phases merged into    *)
(* what the supervisor can tell apart.  The row belongs to a paired         *)
(* instance (jid # ''); UpdateConnected is two SQL updates, so two steps.   *)
(***************************************************************************)
EXTENDS Naturals, FiniteSets

CONSTANTS
    Threads,    (* goroutines: event handlers, API requests, supervisors    *)
    Watchdog,   (* the one goroutine of startReconnectWatchdog              *)
    Calls,      (* which API calls the clients make                         *)
    MaxCalls,   (* bound: API calls in a behaviour                          *)
    MaxFaults   (* bound: losses, logouts, failures and crashes             *)

Goroutine == Threads \cup {Watchdog}

VARIABLES
    connected,  \* column connected
    reason,     \* column disconnect_reason
    device,     \* the whatsmeow store still has the device of the jid
    inFlight,   \* w.reconnects[id].inFlight
    rt,         \* the runtime of the instance
    kill,       \* its kill channel holds a signal
    events,     \* events its client dispatched and no handler took yet
    thread,     \* what each goroutine is doing
    calls,      \* API calls made
    faults,     \* faults suffered
    asked,      \* history: a disconnect succeeded, nobody asked to be back
    lateQR      \* history: supervisor starts since the device was deleted

row     == <<connected, reason, device>>
runtime == <<rt, kill, events>>
bounds  == <<calls, faults>>
history == <<asked, lateQR>>
vars == <<row, inFlight, runtime, thread, bounds, history>>

\* Reasons the supervisor does not tell apart (closed by the server, keepalive,
\* stream error, logged out by the phone) are all "lost".
Reason == {"none", "byAPI", "logoutAPI", "replaced", "lost", "reconnecting"}
Down   == {"byAPI", "logoutAPI", "replaced"}

\* "starting" is everything before Connect returns, "dead" a registered runtime
\* whose socket closed, "killed" the kill branch, "ending" the deferred function.
RtState == {"none", "starting", "online", "dead", "qr", "killed", "ending"}

Handler == {"connected", "lost", "replaced", "loggedOut"}
Holder  == {"supervisor", "explicit"}
Kind    == Handler \cup Holder \cup {"disconnect", "logout", "schedule"}
Pc      == {"idle", "setConnected", "setReason", "decide", "reserve", "delay",
            "stop", "wait", "recheck", "start", "probe", "signal"}
Idle    == [kind |-> "schedule", pc |-> "idle"]

\* The arguments of UpdateConnected, for each kind of goroutine that calls it.
ReasonOf == [connected |-> "none", lost |-> "lost", replaced |-> "replaced",
             loggedOut |-> "lost", disconnect |-> "byAPI",
             logout |-> "logoutAPI", supervisor |-> "reconnecting",
             explicit |-> "reconnecting", schedule |-> "lost"]

\* What each of them does once the row is written, and once the runtime it
\* stopped has ended.
AfterWrite == [connected |-> "idle", lost |-> "decide", replaced |-> "idle",
               loggedOut |-> "signal", disconnect |-> "stop",
               logout |-> "stop", supervisor |-> "start",
               explicit |-> "start", schedule |-> "idle"]
AfterStop  == [k \in Kind |-> IF k \in Holder THEN "recheck" ELSE "idle"]

-----------------------------------------------------------------------------
\* An instance that is up.
Init ==
    /\ connected = TRUE
    /\ reason = "none"
    /\ device = TRUE
    /\ inFlight = FALSE
    /\ rt = "online"
    /\ kill = FALSE
    /\ events = {}
    /\ thread = [g \in Goroutine |-> Idle]
    /\ calls = 0
    /\ faults = 0
    /\ asked = FALSE
    /\ lateQR = 0

At(g, pc) == thread[g].pc = pc
Goto(g, pc) == thread' = [thread EXCEPT ![g].pc = pc]
Become(g, kind, pc) == thread' = [thread EXCEPT ![g] = [kind |-> kind, pc |-> pc]]
Return(g) == thread' = [thread EXCEPT ![g] = Idle]

Fault == faults < MaxFaults /\ faults' = faults + 1

\* Mutant of StayDown: the device store is not consulted.
StayDownByReason == reason \in Down

\* decideReconnect on a row that could be read.
StayDown == reason \in Down \/ ~device

\* The event handlers of the runtime that are still running.
Handling == \E g \in Goroutine : thread[g].kind \in Handler /\ ~At(g, "idle")

(***************************************************************************)
(* Steps shared by every goroutine that runs through them.                  *)
(***************************************************************************)

\* UpdateConnected: first one column, then the other.
SetConnected(g) ==
    /\ At(g, "setConnected")
    /\ connected' = (thread[g].kind = "connected")
    /\ Goto(g, "setReason")
    /\ UNCHANGED <<reason, device, inFlight, runtime, bounds, history>>

SetReason(g) ==
    /\ At(g, "setReason")
    /\ reason' = ReasonOf[thread[g].kind]
    /\ LET next == AfterWrite[thread[g].kind]
       IN  IF next = "idle" THEN Return(g) ELSE Goto(g, next)
    /\ UNCHANGED <<connected, device, inFlight, runtime, bounds, history>>

\* ScheduleReconnect looks at the row first ...
Decide(g) ==
    /\ At(g, "decide")
    /\ IF StayDown THEN Return(g) ELSE Goto(g, "reserve")
    /\ UNCHANGED <<row, inFlight, runtime, bounds, history>>

\* ... a row that cannot be read does not stop it ...
DecideBlind(g) ==
    /\ At(g, "decide")
    /\ Fault
    /\ Goto(g, "reserve")
    /\ UNCHANGED <<row, inFlight, runtime, calls, history>>

\* Mutant of BeginReconnect: the slot is taken without looking.
BeginWithoutLooking(g) ==
    /\ At(g, "reserve")
    /\ IF thread[g].kind = "explicit" THEN Goto(g, "stop")
       ELSE Become(g, "supervisor", "delay")
    /\ inFlight' = TRUE
    /\ UNCHANGED <<row, runtime, bounds, history>>

\* ... and takes the slot, or leaves it to the goroutine that has it.  From here
\* on the supervisor is a goroutine of its own and no longer a handler.
BeginReconnect(g) ==
    /\ At(g, "reserve")
    /\ IF inFlight THEN Return(g)
       ELSE IF thread[g].kind = "explicit" THEN Goto(g, "stop")
       ELSE Become(g, "supervisor", "delay")
    /\ inFlight' = TRUE
    /\ UNCHANGED <<row, runtime, bounds, history>>

\* Mutant of DelayEnds: giving up leaves the slot taken.
DelayEndsKeepingSlot(g) ==
    /\ At(g, "delay")
    /\ IF StayDown THEN Return(g) ELSE Goto(g, "stop")
    /\ UNCHANGED <<row, inFlight, runtime, bounds, history>>

\* After the backoff the row is read again: give up, postpone or restart.
DelayEnds(g) ==
    /\ At(g, "delay")
    /\ IF StayDown THEN Return(g) ELSE Goto(g, "stop")
    /\ inFlight' = ~StayDown
    /\ UNCHANGED <<row, runtime, bounds, history>>

\* finishReconnect(false), then ScheduleReconnect again.
Reschedule(g) ==
    /\ inFlight' = FALSE
    /\ Become(g, "schedule", "decide")

DelayEndsBlind(g) ==
    /\ At(g, "delay")
    /\ Fault
    /\ Reschedule(g)
    /\ UNCHANGED <<row, runtime, calls, history>>

\* signalRuntimeStop.  A runtime that has not published its kill channel yet
\* misses the signal.
Stop(g) ==
    /\ At(g, "stop")
    /\ IF rt = "none"
       THEN /\ LET next == AfterStop[thread[g].kind]
               IN  IF next = "idle" THEN Return(g) ELSE Goto(g, next)
            /\ asked' = (asked \/ thread[g].kind = "disconnect")
            /\ kill' = kill
       ELSE /\ kill' \in IF rt = "starting" THEN {kill, TRUE} ELSE {TRUE}
            /\ Goto(g, "wait")
            /\ asked' = asked
    /\ UNCHANGED <<row, inFlight, rt, events, bounds, lateQR>>

\* runtimeStopTimeout: the supervisor tries again later, the others fail.  It is
\* sure to pass if the signal was missed, a fault if the runtime is stopping.
StopTimesOut(g) ==
    /\ At(g, "wait")
    /\ IF kill \/ rt \in {"killed", "ending"} THEN Fault
       ELSE faults' = faults
    /\ IF thread[g].kind = "supervisor" THEN Reschedule(g)
       ELSE /\ inFlight' = (inFlight /\ thread[g].kind # "explicit")
            /\ Return(g)
    /\ UNCHANGED <<row, runtime, calls, history>>

\* The supervisor, and only it, reads the row once more after the stop.
Recheck(g) ==
    /\ At(g, "recheck")
    /\ IF StayDown /\ thread[g].kind = "supervisor"
       THEN Return(g) /\ inFlight' = FALSE
       ELSE Goto(g, "setConnected") /\ inFlight' = inFlight
    /\ UNCHANGED <<row, runtime, bounds, history>>

\* A recheck that cannot read the row or the device store does not cancel.
RecheckBlind(g) ==
    /\ At(g, "recheck")
    /\ thread[g].kind = "supervisor"
    /\ Fault
    /\ Goto(g, "setConnected")
    /\ lateQR' = 0
    /\ UNCHANGED <<row, inFlight, runtime, calls, asked>>

\* The instance cannot be loaded, before or after the row is written.
RestartFails(g) ==
    /\ thread[g].pc \in {"recheck", "start"}
    /\ Fault
    /\ IF thread[g].kind = "supervisor" THEN Reschedule(g)
       ELSE Return(g) /\ inFlight' = FALSE
    /\ UNCHANGED <<row, runtime, calls, history>>

\* StartInstance: a registered runtime makes it a no-op; without a device the
\* new runtime shows a QR code.  StartClient then calls UpdateConnected(false)
\* with the reason it has read.  That write is merged into the start and leaves
\* the reason as it is: without a device StayDown holds and Restore is connected,
\* whatever the reason.
StartRuntime ==
    /\ rt' = IF rt # "none" THEN rt ELSE IF device THEN "starting" ELSE "qr"
    /\ connected' = (connected /\ ~(rt = "none" /\ ~device))

\* ReconnectClient frees the slot as soon as it has started the runtime; the
\* supervisor keeps it while it probes.
Start(g) ==
    /\ At(g, "start")
    /\ StartRuntime
    /\ lateQR' = IF thread[g].kind = "supervisor" /\ rt' = "qr" /\ rt = "none"
                 THEN lateQR + 1 ELSE lateQR
    /\ IF thread[g].kind = "supervisor"
       THEN Goto(g, "probe") /\ inFlight' = inFlight
       ELSE Return(g) /\ inFlight' = FALSE
    /\ UNCHANGED <<reason, device, kill, events, bounds, asked>>

\* The probe sees the client logged in, or its 30 seconds end.
ProbeConnected(g) ==
    /\ At(g, "probe")
    /\ rt = "online"
    /\ inFlight' = FALSE
    /\ Return(g)
    /\ UNCHANGED <<row, runtime, bounds, history>>

ProbeTimesOut(g) ==
    /\ At(g, "probe")
    /\ rt # "online"
    /\ Reschedule(g)
    /\ UNCHANGED <<row, runtime, bounds, history>>

\* The LoggedOut handler stops its own runtime and does not wait.
Signal(g) ==
    /\ At(g, "signal")
    /\ kill' = (rt # "none")
    /\ Return(g)
    /\ UNCHANGED <<row, inFlight, rt, events, bounds, history>>

(***************************************************************************)
(* The runtime.                                                             *)
(***************************************************************************)
Connect ==
    /\ rt = "starting"
    /\ rt' = "online"
    /\ events' = events \cup {"connected"}
    /\ UNCHANGED <<row, inFlight, kill, thread, bounds, history>>

\* StartClient schedules a reconnection before it leaves (connectFailed).
ConnectFails(g) ==
    /\ rt = "starting"
    /\ At(g, "idle")
    /\ Fault
    /\ rt' = "ending"
    /\ Become(g, "lost", "decide")
    /\ UNCHANGED <<row, inFlight, kill, events, calls, history>>

TakeKill ==
    /\ rt \in {"online", "dead", "qr"}
    /\ kill
    /\ kill' = FALSE
    /\ rt' = "killed"
    /\ UNCHANGED <<row, inFlight, events, thread, bounds, history>>

\* The kill branch writes one column only: the reason is not its own.
WriteStopped ==
    /\ rt = "killed"
    /\ connected' = FALSE
    /\ rt' = "ending"
    /\ UNCHANGED <<reason, device, inFlight, kill, events, thread, bounds,
                   history>>

\* RemoveEventHandler waits for the running handlers and drops what none took;
\* then done is closed and releases every goroutine that waits for it.
EndRuntime ==
    /\ rt = "ending"
    /\ ~Handling
    /\ rt' = "none"
    /\ kill' = FALSE
    /\ events' = {}
    /\ thread' = [g \in Goroutine |->
           IF ~At(g, "wait") THEN thread[g]
           ELSE IF AfterStop[thread[g].kind] = "idle" THEN Idle
           ELSE [thread[g] EXCEPT !.pc = AfterStop[thread[g].kind]]]
    /\ asked' = (asked \/ \E g \in Goroutine :
                              At(g, "wait") /\ thread[g].kind = "disconnect")
    /\ UNCHANGED <<row, inFlight, bounds, lateQR>>

(***************************************************************************)
(* The network, the phone, the watchdog and the API.                        *)
(***************************************************************************)

\* Mutant of LoseConnection: the loss is taken for a disconnect by the API.
LoseAsDisconnect ==
    /\ rt = "online"
    /\ Fault
    /\ rt' = "dead"
    /\ events' = events \cup {"disconnect"}
    /\ UNCHANGED <<row, inFlight, kill, thread, calls, history>>

\* Disconnected or KeepAliveTimeout: the second leaves the socket as it is.
LoseConnection ==
    /\ rt = "online"
    /\ Fault
    /\ rt' \in {"dead", "online"}
    /\ events' = events \cup {"lost"}
    /\ UNCHANGED <<row, inFlight, kill, thread, calls, history>>

Replace ==
    /\ rt = "online"
    /\ Fault
    /\ rt' = "dead"
    /\ events' = events \cup {"replaced"}
    /\ UNCHANGED <<row, inFlight, kill, thread, calls, history>>

PhoneLogsOut ==
    /\ rt = "online"
    /\ Fault
    /\ rt' = "dead"
    /\ device' = FALSE
    /\ lateQR' = 0
    /\ events' = events \cup {"loggedOut"}
    /\ UNCHANGED <<connected, reason, inFlight, kill, thread, calls, asked>>

\* The client calls the handler in a goroutine of its own.
Deliver(g) ==
    /\ At(g, "idle")
    /\ \E e \in events :
           /\ events' = events \ {e}
           /\ Become(g, e, "setConnected")
    /\ UNCHANGED <<row, inFlight, rt, kill, bounds, history>>

\* The QR codes or their number run out (teardownQR); only the limit writes why,
\* with an UpdateConnected whose two updates are one step here: without a device
\* StayDown and Restore do not depend on the reason.
QRWindowEnds ==
    /\ rt = "qr"
    /\ kill' = TRUE
    /\ \/ UNCHANGED <<connected, reason>>
       \/ connected' = FALSE /\ reason' = "lost"
    /\ UNCHANGED <<device, inFlight, rt, events, thread, bounds, history>>

\* PairSuccess saves the whole row; Connected follows.
Pair ==
    /\ rt = "qr"
    /\ rt' = "online"
    /\ device' = TRUE
    /\ connected' = TRUE
    /\ reason' = "none"
    /\ asked' = FALSE
    /\ events' = events \cup {"connected"}
    /\ UNCHANGED <<inFlight, kill, thread, bounds, lateQR>>

\* Mutant of WatchdogTick: it looks at registered runtimes only.
TickOfRegistered ==
    /\ At(Watchdog, "idle")
    /\ rt = "dead"
    /\ ~StayDown
    /\ Become(Watchdog, "schedule", "decide")
    /\ UNCHANGED <<row, inFlight, runtime, bounds, history>>

\* Every 90 seconds: a paired instance that should be up and is not connected.
WatchdogTick ==
    /\ At(Watchdog, "idle")
    /\ rt \in {"none", "dead"}
    /\ ~StayDown
    /\ Become(Watchdog, "schedule", "decide")
    /\ UNCHANGED <<row, inFlight, runtime, bounds, history>>

CallAPI(op) ==
    /\ op \in Calls
    /\ calls < MaxCalls
    /\ calls' = calls + 1

Disconnect(g) ==
    /\ CallAPI("disconnect")
    /\ At(g, "idle")
    /\ rt = "online"
    /\ Become(g, "disconnect", "setConnected")
    /\ UNCHANGED <<row, inFlight, runtime, faults, history>>

\* client.Logout unlinks the device and closes the socket before it returns; a
\* client that is not logged in is only stopped.
Logout(g) ==
    /\ CallAPI("logout")
    /\ At(g, "idle")
    /\ \/ /\ rt = "online"
          /\ rt' = "dead"
          /\ device' = FALSE
          /\ lateQR' = 0
          /\ Become(g, "logout", "setConnected")
       \/ /\ rt = "qr"
          /\ Become(g, "logout", "stop")
          /\ UNCHANGED <<rt, device, lateQR>>
    /\ UNCHANGED <<connected, reason, inFlight, kill, events, faults, asked>>

\* /reconnect of a connected client, /connect of a registered one that is not,
\* /forcereconnect of an instance without a client that is connected and logged
\* in, whether or not it has a runtime.
Reconnect(g) ==
    /\ CallAPI("reconnect")
    /\ At(g, "idle")
    /\ Become(g, "explicit", "reserve")
    /\ asked' = FALSE
    /\ UNCHANGED <<row, inFlight, runtime, faults, lateQR>>

\* /connect, and any call that needs a client and finds none, starts it.
ConnectCall ==
    /\ CallAPI("connect")
    /\ rt = "none"
    /\ StartRuntime
    /\ asked' = FALSE
    /\ UNCHANGED <<reason, device, inFlight, kill, events, thread, faults,
                   lateQR>>

\* GetInstancesToRestore and the checks of ConnectOnStartup.
Restore == /\ connected \/ reason \notin {"byAPI", "logoutAPI"}
           /\ connected \/ device

\* The process dies and starts again: only the row and the device remain.
Crash ==
    /\ Fault
    /\ inFlight' = FALSE
    /\ kill' = FALSE
    /\ events' = {}
    /\ thread' = [g \in Goroutine |-> Idle]
    /\ rt' = IF ~Restore THEN "none" ELSE IF device THEN "starting" ELSE "qr"
    /\ connected' = (connected /\ device)
    /\ UNCHANGED <<reason, device, calls, history>>

-----------------------------------------------------------------------------
GoroutineStep(g) ==
    \/ SetConnected(g) \/ SetReason(g) \/ Decide(g) \/ BeginReconnect(g)
    \/ DelayEnds(g) \/ Stop(g) \/ StopTimesOut(g) \/ Recheck(g) \/ Start(g)
    \/ ProbeConnected(g) \/ ProbeTimesOut(g) \/ Signal(g)

FaultyStep(g) ==
    \/ DecideBlind(g) \/ DelayEndsBlind(g) \/ RecheckBlind(g)
    \/ RestartFails(g)

RuntimeStep == Connect \/ TakeKill \/ WriteStopped \/ EndRuntime

Environment ==
    LoseConnection \/ Replace \/ PhoneLogsOut \/ QRWindowEnds \/ Pair \/ Crash

Request(g) == Disconnect(g) \/ Logout(g) \/ Reconnect(g)

Next ==
    \/ \E g \in Goroutine : GoroutineStep(g) \/ FaultyStep(g)
    \/ \E g \in Threads : Deliver(g) \/ ConnectFails(g) \/ Request(g)
    \/ RuntimeStep \/ Environment \/ WatchdogTick \/ ConnectCall

\* Goroutines and the runtime run, dispatched events reach their handlers and
\* the ticker of the watchdog ticks.  Nothing else has to happen.
Fairness ==
    /\ \A g \in Goroutine : WF_vars(GoroutineStep(g))
    /\ WF_vars(\E g \in Threads : Deliver(g))
    /\ WF_vars(RuntimeStep)
    /\ WF_vars(WatchdogTick)

Spec     == Init /\ [][Next]_vars
FairSpec == Spec /\ Fairness

-----------------------------------------------------------------------------
(***************************************************************************)
(* Properties.                                                              *)
(***************************************************************************)
TypeOK ==
    /\ connected \in BOOLEAN
    /\ reason \in Reason
    /\ device \in BOOLEAN
    /\ inFlight \in BOOLEAN
    /\ rt \in RtState
    /\ kill \in BOOLEAN
    /\ events \subseteq Handler
    /\ thread \in [Goroutine -> [kind: Kind, pc: Pc]]
    /\ calls \in Nat
    /\ faults \in Nat
    /\ asked \in BOOLEAN
    /\ lateQR \in Nat

\* Past beginReconnect and before finishReconnect or abandonReconnect.
Holding(g) ==
    /\ thread[g].kind \in Holder
    /\ thread[g].pc \notin {"idle", "reserve"}

\* Which kinds of goroutine can be at each step (part of the invariant below).
KindsAt == [idle |-> {"schedule"}, setConnected |-> Kind \ {"schedule"},
            setReason |-> Kind \ {"schedule"}, decide |-> {"lost", "schedule"},
            reserve |-> {"lost", "schedule", "explicit"},
            delay |-> {"supervisor"}, probe |-> {"supervisor"},
            stop |-> Holder \cup {"disconnect", "logout"},
            wait |-> Holder \cup {"disconnect", "logout"},
            recheck |-> Holder, start |-> Holder, signal |-> {"loggedOut"}]

\* One reconnection of an instance at a time, and the slot is taken exactly
\* while one runs: a second one would stop the runtime the first just started,
\* and a slot left behind would refuse every later reconnection for good.
SlotExclusive ==
    /\ inFlight <=> \E g \in Goroutine : Holding(g)
    /\ \A g, h \in Goroutine : Holding(g) /\ Holding(h) => g = h

\* An unlinked device is not turned into an endless series of QR codes
\* (decideReconnect, runtime_lifecycle.go:285-286): after it is deleted, or
\* after a recheck that could not read, the supervisor starts a runtime at most
\* once, the one already past its recheck.
NoQRLoop == lateQR <= 1

\* The inductive invariant behind the two.  A supervisor past its recheck has
\* not spent its last start: nobody else can be where it is.
PcMatchesKind == \A g \in Goroutine : thread[g].kind \in KindsAt[thread[g].pc]
LastStart ==
    lateQR = 1 /\ ~device =>
        \A g \in Goroutine : thread[g].kind = "supervisor" =>
            thread[g].pc \notin {"setConnected", "setReason", "start"}

IInv ==
    /\ TypeOK
    /\ PcMatchesKind
    /\ SlotExclusive
    /\ NoQRLoop
    /\ LastStart

\* A disconnect that succeeded is not undone by the supervisor
\* (runtime_lifecycle.go:333-334, instance_service.go:356-358): the instance
\* stays down until somebody asks for it again.
DisconnectNotUndone ==
    [][asked /\ asked' /\ rt = "none" => rt' = "none"]_vars

\* Every reconnection ends: no path keeps the slot.
SlotReleased == inFlight ~> ~inFlight

\* A paired instance that should be up and has no working runtime is not
\* forgotten, whatever was refused, postponed or lost on the way.
NeverForgotten ==
    (rt \in {"none", "dead"} /\ ~StayDown)
        ~> (rt \in {"starting", "online"} \/ StayDown)
=============================================================================
