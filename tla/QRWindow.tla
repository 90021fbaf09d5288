------------------------------- MODULE QRWindow -------------------------------
(***************************************************************************)
(* Pairing with a QR code: the runtime of an instance that is not paired,   *)
(* the goroutine that emits the codes of a batch (qr_emitter.go, qr_env.go),*)
(* the code stored in the instance row, and GET /instance/qr, which serves  *)
(* it and starts a runtime when it finds none.                              *)
(*                                                                         *)
(* Nobody waits for an emitter: it may still be running when its runtime    *)
(* has ended and another one was started.  Between the moment it looks at   *)
(* the runtime, the pairing and the socket and the moment it writes, the    *)
(* others go on.  A passkey ceremony is a flag here (PasskeyCeremony has    *)
(* its states); WhatsApp does not send a second batch before the emitter of *)
(* the first is done.                                                       *)
(***************************************************************************)
EXTENDS Naturals, Sequences

CONSTANTS
    MaxRuntimes,   (* bound: runtimes started                               *)
    Codes,         (* codes in a batch                                      *)
    MaxCount,      (* QRCODE_MAX_COUNT, 0 for no limit                      *)
    MaxBatches,    (* bound: batches of a runtime                           *)
    MaxSecret,     (* bound: ADV secrets of a runtime                       *)
    RotationSlots, (* capacity of the channel qrRotate                      *)
    Readers        (* requests GET /instance/qr                             *)

ASSUME QRAssumption ==
    /\ MaxRuntimes \in Nat \ {0}
    /\ Codes \in Nat \ {0}
    /\ MaxCount \in Nat
    /\ MaxSecret \in Nat \ {0}
    /\ RotationSlots \in Nat

Runtime == 1 .. MaxRuntimes
Secret  == 1 .. MaxSecret
None    == 0

VARIABLES
    current,    \* the last runtime started, or None
    phase,      \* where its StartClient goroutine is
    kill,       \* runtimes whose kill channel holds a signal
    paired,     \* runtimes whose client has Store.ID
    secret,     \* the ADV secret of each client
    rotations,  \* the channel qrRotate of each runtime
    dropped,    \* runtimes of which a rotation found the channel full
    ceremony,   \* the passkey ceremony of the instance
    stored,     \* the code in the row: owner, secret, still valid
    row,        \* what the row says of the instance
    qrcodeCount,\* codes counted for each runtime by earlier batches
    batches,    \* batches each runtime received
    emitter,    \* the emitter goroutine of each runtime
    published,  \* history: codes each runtime published
    reader,     \* where each request is
    served      \* history: the runtimes whose code was served after their end

client   == <<paired, secret, rotations, dropped>>
runtimes == <<current, phase, kill>>
counts   == <<qrcodeCount, batches, published>>
readers  == <<reader, served>>
vars == <<runtimes, client, ceremony, stored, row, counts, emitter, readers>>

\* "starting" until the stored code of an earlier runtime is cleared, "open"
\* and "lost" while the loop waits for a signal, "stopping" in the deferred
\* function with runtimeDone closed.
Phase   == {"none", "starting", "open", "lost", "stopping", "ended"}
Stopped == {"stopping", "ended"}

NoCode == [owner |-> None, secret |-> None, fresh |-> FALSE]
Code   == [owner: Runtime, secret: Secret, fresh: BOOLEAN] \cup {NoCode}

Row == {"waiting", "open", "lost", "max"}

\* then is where a check goes on; due says that the code's lifetime is over.
Emitter == [pc: {"idle", "check", "socket", "publish", "wait", "last",
                 "clear", "record", "signal"},
            then: {"publish", "wait"}, why: {"exhausted", "lost", "max"},
            i: 1 .. Codes, count: Nat, codes: [1 .. Codes -> Secret], due: BOOLEAN]

Idle == [pc |-> "idle", then |-> "publish", why |-> "exhausted", i |-> 1,
         count |-> 0, codes |-> [n \in 1 .. Codes |-> 1], due |-> FALSE]

Init ==
    /\ current = None
    /\ phase = [t \in Runtime |-> "none"]
    /\ kill = {}
    /\ paired = {}
    /\ secret = [t \in Runtime |-> 1]
    /\ rotations = [t \in Runtime |-> <<>>]
    /\ dropped = {}
    /\ ceremony = "none"
    /\ stored = NoCode
    /\ row = "waiting"
    /\ qrcodeCount = [t \in Runtime |-> 0]
    /\ batches = [t \in Runtime |-> 0]
    /\ emitter = [t \in Runtime |-> Idle]
    /\ published = [t \in Runtime |-> 0]
    /\ reader = [r \in Readers |-> "idle"]
    /\ served = {}

(***************************************************************************)
(* The runtime (StartClient of an instance that is not paired).             *)
(***************************************************************************)
Move(t, from, to) ==
    /\ phase[t] \in from
    /\ phase' = [phase EXCEPT ![t] = to]

StartRuntime(t) ==
    /\ t = current + 1
    /\ paired = {}
    /\ current # None => phase[current] = "ended"
    /\ current' = t
    /\ Move(t, {"none"}, "starting")
    /\ UNCHANGED <<kill, client, ceremony, stored, row, counts, emitter, readers>>

\* A new pairing: the ceremony and the code of an earlier one are cleared, then
\* the client connects, or fails to and the runtime ends.
Connect(t) ==
    /\ Move(t, {"starting"}, "open") \/ Move(t, {"starting"}, "stopping")
    /\ ceremony' = "none"
    /\ stored' = NoCode
    /\ UNCHANGED <<current, kill, client, row, counts, emitter, readers>>

\* Disconnected: an active ceremony becomes an error.
LoseSocket(t) ==
    /\ Move(t, {"open"}, "lost")
    /\ ceremony' = IF ceremony = "active" /\ t \notin paired THEN "error"
                   ELSE ceremony
    /\ UNCHANGED <<current, kill, client, stored, row, counts, emitter, readers>>

\* Somebody stops the instance: /disconnect, /logout, a restart.
StopRequested(t) ==
    /\ phase[t] \in {"open", "lost"}
    /\ kill' = kill \cup {t}
    /\ UNCHANGED <<current, phase, client, ceremony, stored, row, counts,
                   emitter, readers>>

\* The kill branch closes runtimeDone before it disconnects.
TakeKill(t) ==
    /\ t \in kill
    /\ Move(t, {"open", "lost"}, "stopping")
    /\ kill' = kill \ {t}
    /\ UNCHANGED <<current, client, ceremony, stored, row, counts, emitter,
                   readers>>

\* The deferred function clears the stored code unless the device was paired.
EndRuntime(t) ==
    /\ Move(t, {"stopping"}, "ended")
    /\ stored' = IF t \in paired THEN stored ELSE NoCode
    /\ UNCHANGED <<current, kill, client, ceremony, row, counts, emitter,
                   readers>>

(***************************************************************************)
(* Events of the client.                                                    *)
(***************************************************************************)
Pairing(t) == phase[t] = "open" /\ t \notin paired

\* events.QR: the emitter gets a copy of the codes and the count so far.
QREvent(t) ==
    /\ Pairing(t)
    /\ emitter[t].pc = "idle"
    /\ batches[t] < MaxBatches
    /\ batches' = [batches EXCEPT ![t] = @ + 1]
    /\ emitter' = [emitter EXCEPT ![t] =
           [Idle EXCEPT !.pc = "check", !.count = qrcodeCount[t],
                        !.codes = [n \in 1 .. Codes |-> secret[t]]]]
    /\ UNCHANGED <<runtimes, client, ceremony, stored, row, qrcodeCount,
                   published, readers>>

\* RotateADVSecret: a full channel drops it.
RotateADVSecret(t) ==
    /\ Pairing(t)
    /\ secret[t] < MaxSecret
    /\ secret' = [secret EXCEPT ![t] = @ + 1]
    /\ IF Len(rotations[t]) < RotationSlots
       THEN /\ rotations' = [rotations EXCEPT ![t] = Append(@, secret[t] + 1)]
            /\ dropped' = dropped
       ELSE /\ dropped' = dropped \cup {t}
            /\ rotations' = rotations
    /\ UNCHANGED <<runtimes, paired, ceremony, stored, row, counts, emitter,
                   readers>>

\* The phone scanned a code that is still shown: the client has a Store.ID ...
Scan(t) ==
    /\ Pairing(t)
    /\ paired' = paired \cup {t}
    /\ UNCHANGED <<runtimes, secret, rotations, dropped, ceremony, stored, row,
                   counts, emitter, readers>>

\* ... and the handler of PairSuccess saves the row.
PairSuccess(t) ==
    /\ t \in paired
    /\ phase[t] = "open"
    /\ row # "open"
    /\ row' = "open"
    /\ stored' = NoCode
    /\ ceremony' = "none"
    /\ UNCHANGED <<runtimes, client, counts, emitter, readers>>

PasskeyRequest(t) ==
    /\ Pairing(t)
    /\ ceremony' = "active"
    /\ UNCHANGED <<runtimes, client, stored, row, counts, emitter, readers>>

\* PairPasskeyError, or five minutes without an update.
CeremonyEnds ==
    /\ ceremony # "none"
    /\ ceremony' \in {"none", "error"} \ {ceremony}
    /\ UNCHANGED <<runtimes, client, stored, row, counts, emitter, readers>>

(***************************************************************************)
(* runQREmitter.                                                            *)
(***************************************************************************)
At(t, pc) == emitter[t].pc = pc

Goto(t, pc) ==
    /\ emitter' = [emitter EXCEPT ![t].pc = pc]
    /\ qrcodeCount' = qrcodeCount

\* The emitter returns; the count of the runtime goes on from here.
Leave(t) ==
    /\ emitter' = [emitter EXCEPT ![t] = Idle]
    /\ qrcodeCount' = [qrcodeCount EXCEPT ![t] = emitter[t].count]

Teardown(t, why) ==
    /\ emitter' = [emitter EXCEPT ![t].pc = "clear", ![t].why = why]
    /\ qrcodeCount' = qrcodeCount

\* qrCheck, before each code and at every poll: the end of the runtime, then
\* the pairing ...
CheckRuntime(t) ==
    /\ At(t, "check")
    /\ IF phase[t] \in Stopped \/ t \in paired \/ ceremony = "active"
       THEN Leave(t) ELSE Goto(t, "socket")
    /\ UNCHANGED <<runtimes, client, ceremony, stored, row, batches, published,
                   readers>>

\* ... and only then the socket.
CheckSocket(t) ==
    /\ At(t, "socket")
    /\ IF phase[t] = "open" THEN Goto(t, emitter[t].then)
       ELSE Teardown(t, "lost")
    /\ UNCHANGED <<runtimes, client, ceremony, stored, row, batches, published,
                   readers>>

Show(t, code, fresh) ==
    stored' = [owner |-> t, secret |-> code, fresh |-> fresh]

\* Teardown of qr_env.go logs a client out whose socket is up.  One that is not
\* paired refuses; one that was paired since the check loses its device and its
\* socket, unless the call fails.
ForceLogout(t) ==
    \/ /\ t \in paired
       /\ paired' = paired \ {t}
       /\ Move(t, {"open"}, "lost")
    \/ UNCHANGED <<paired, phase>>

\* The code that reaches the limit is not shown: it ends the pairing.
ReachLimit(t) ==
    /\ At(t, "publish")
    /\ MaxCount > 0 /\ emitter[t].count + 1 >= MaxCount
    /\ ForceLogout(t)
    /\ emitter' = [emitter EXCEPT ![t].pc = "clear", ![t].why = "max",
                                  ![t].count = @ + 1]
    /\ UNCHANGED <<current, kill, secret, rotations, dropped, ceremony, stored,
                   row, counts, readers>>

\* Mutant of Publish: the limit is tested after the code is shown.
PublishAtLimit(t) ==
    /\ At(t, "publish")
    /\ MaxCount = 0 \/ emitter[t].count < MaxCount
    /\ Show(t, emitter[t].codes[emitter[t].i], TRUE)
    /\ published' = [published EXCEPT ![t] = @ + 1]
    /\ emitter' = [emitter EXCEPT ![t].pc = "wait", ![t].then = "wait",
                                  ![t].count = @ + 1, ![t].due = FALSE]
    /\ UNCHANGED <<runtimes, client, ceremony, row, qrcodeCount, batches,
                   readers>>

Publish(t) ==
    /\ At(t, "publish")
    /\ MaxCount = 0 \/ emitter[t].count + 1 < MaxCount
    /\ Show(t, emitter[t].codes[emitter[t].i], TRUE)
    /\ published' = [published EXCEPT ![t] = @ + 1]
    /\ emitter' = [emitter EXCEPT ![t].pc = "wait", ![t].then = "wait",
                                  ![t].count = @ + 1, ![t].due = FALSE]
    /\ UNCHANGED <<runtimes, client, ceremony, row, qrcodeCount, batches,
                   readers>>

\* Mutant of Rotated: the code on the screen keeps its secret.
RotatedAfter(codes, from, new) ==
    [n \in 1 .. Codes |-> IF n > from /\ codes[n] = new - 1 THEN new
                          ELSE codes[n]]

\* rotateADVSecret: from the current code on, the old secret gives way.
Rotated(codes, from, new) ==
    [n \in 1 .. Codes |-> IF n >= from /\ codes[n] = new - 1 THEN new
                          ELSE codes[n]]

\* qrWait receives a rotation and shows the current code again.
Rotate(t) ==
    /\ At(t, "wait")
    /\ rotations[t] # <<>>
    /\ LET codes == Rotated(emitter[t].codes, emitter[t].i, Head(rotations[t]))
       IN  /\ emitter' = [emitter EXCEPT ![t].codes = codes]
           /\ Show(t, codes[emitter[t].i], ~emitter[t].due)
    /\ rotations' = [rotations EXCEPT ![t] = Tail(@)]
    /\ UNCHANGED <<runtimes, paired, secret, dropped, ceremony, row, counts,
                   readers>>

Tick(t) ==
    /\ At(t, "wait")
    /\ Goto(t, "check")
    /\ UNCHANGED <<runtimes, client, ceremony, stored, row, batches, published,
                   readers>>

StopSeen(t) ==
    /\ At(t, "wait")
    /\ phase[t] \in Stopped
    /\ Leave(t)
    /\ UNCHANGED <<runtimes, client, ceremony, stored, row, batches, published,
                   readers>>

\* The lifetime of a code is over.  expiresAt is computed before the timer is
\* set, so the timer never fires on a valid code.
CodeExpires(t) ==
    /\ \/ stored.owner = t /\ stored.fresh
       \/ ~At(t, "idle") /\ ~emitter[t].due
    /\ emitter' = [emitter EXCEPT ![t].due = ~At(t, "idle")]
    /\ stored' = IF stored.owner = t THEN [stored EXCEPT !.fresh = FALSE]
                 ELSE stored
    /\ UNCHANGED <<runtimes, client, ceremony, row, counts, readers>>

\* Mutant of Deadline: one code past the end of the batch.
DeadlinePastLast(t) ==
    /\ At(t, "wait")
    /\ emitter[t].due
    /\ LET e == emitter[t]
       IN  emitter' = [emitter EXCEPT ![t] =
               IF e.i <= Codes
               THEN [e EXCEPT !.pc = "check", !.then = "publish", !.i = e.i + 1]
               ELSE [e EXCEPT !.pc = "last"]]
    /\ UNCHANGED <<runtimes, client, ceremony, stored, row, counts, readers>>

\* The timer fires: the next code, or what follows the last one.
Deadline(t) ==
    /\ At(t, "wait")
    /\ emitter[t].due
    /\ LET e == emitter[t]
       IN  emitter' = [emitter EXCEPT ![t] =
               IF e.i < Codes
               THEN [e EXCEPT !.pc = "check", !.then = "publish", !.i = e.i + 1]
               ELSE [e EXCEPT !.pc = "last"]]
    /\ UNCHANGED <<runtimes, client, ceremony, stored, row, counts, readers>>

\* Mutant of LastCheck: without a scan the emitter just returns.
LeaveAfterLast(t) ==
    /\ At(t, "last")
    /\ Leave(t)
    /\ UNCHANGED <<runtimes, client, ceremony, stored, row, batches, published,
                   readers>>

\* After the last code: paired, a passkey, or nobody scanned.
LastCheck(t) ==
    /\ At(t, "last")
    /\ IF t \in paired \/ ceremony = "active" THEN Leave(t)
       ELSE Teardown(t, "exhausted")
    /\ UNCHANGED <<runtimes, client, ceremony, stored, row, batches, published,
                   readers>>

\* teardownQR writes the row, column by column, without asking whose it is ...
ClearStored(t) ==
    /\ At(t, "clear")
    /\ stored' = NoCode
    /\ Goto(t, IF emitter[t].why = "exhausted" THEN "signal" ELSE "record")
    /\ UNCHANGED <<runtimes, client, ceremony, row, batches, published, readers>>

RecordReason(t) ==
    /\ At(t, "record")
    /\ row' = emitter[t].why
    /\ Goto(t, "signal")
    /\ UNCHANGED <<runtimes, client, ceremony, stored, batches, published,
                   readers>>

\* ... and signals the kill channel of its own runtime.
SignalKill(t) ==
    /\ At(t, "signal")
    /\ kill' = kill \cup {t}
    /\ Leave(t)
    /\ UNCHANGED <<current, phase, client, ceremony, stored, row, batches,
                   published, readers>>

(***************************************************************************)
(* GET /instance/qr.                                                        *)
(***************************************************************************)
Reading(r, pc) == reader' = [reader EXCEPT ![r] = pc]

\* A client in the maps: none before it is created nor once it was killed.
HasClient == current # None /\ phase[current] \notin Stopped

\* No client: StartInstance, and three seconds for it to show a code.  A dead
\* socket is stopped first, unless the runtime is young enough to be starting.
GetQr(r) ==
    /\ reader[r] = "idle"
    /\ paired = {}
    /\ \/ /\ ~HasClient
          /\ Reading(r, "read")
          /\ kill' = kill
       \/ /\ HasClient
          /\ Reading(r, "read")
          /\ kill' = kill
       \/ /\ HasClient
          /\ phase[current] = "lost"
          /\ Reading(r, "stop")
          /\ kill' = kill \cup {current}
    /\ UNCHANGED <<current, phase, client, ceremony, stored, row, counts,
                   emitter, served>>

\* ClearInstanceCache returns, or its time-out fails the request.
StopWaited(r) ==
    /\ reader[r] = "stop"
    /\ Reading(r, IF HasClient THEN "idle" ELSE "read")
    /\ UNCHANGED <<runtimes, client, ceremony, stored, row, counts, emitter,
                   served>>

\* The row is read, once or until a valid code is there; a passkey ceremony is
\* answered instead of a code.
ServeQr(r) ==
    /\ reader[r] = "read"
    /\ Reading(r, "idle")
    /\ served' = IF ceremony = "none" /\ stored.fresh
                    /\ phase[stored.owner] = "ended"
                 THEN served \cup {stored.owner} ELSE served
    /\ UNCHANGED <<runtimes, client, ceremony, stored, row, counts, emitter>>

-----------------------------------------------------------------------------
RuntimeStep(t) == Connect(t) \/ TakeKill(t) \/ EndRuntime(t)

EmitterStep(t) ==
    \/ CheckRuntime(t) \/ CheckSocket(t) \/ ReachLimit(t) \/ Publish(t)
    \/ Rotate(t) \/ Tick(t) \/ StopSeen(t) \/ LastCheck(t) \/ ClearStored(t)
    \/ RecordReason(t) \/ SignalKill(t)

Event(t) ==
    \/ QREvent(t) \/ RotateADVSecret(t) \/ Scan(t) \/ PairSuccess(t)
    \/ PasskeyRequest(t) \/ LoseSocket(t)

Next ==
    \/ \E t \in Runtime :
           \/ StartRuntime(t) \/ RuntimeStep(t) \/ StopRequested(t) \/ Event(t)
           \/ EmitterStep(t) \/ CodeExpires(t) \/ Deadline(t)
    \/ CeremonyEnds
    \/ \E r \in Readers : GetQr(r) \/ StopWaited(r) \/ ServeQr(r)

\* Goroutines run and time passes.  The timer of qrWait is one of the cases of
\* its select, picked at random among the ready ones: strong fairness.
Fairness ==
    \A t \in Runtime :
        /\ WF_vars(RuntimeStep(t))
        /\ WF_vars(EmitterStep(t))
        /\ WF_vars(CodeExpires(t))
        /\ SF_vars(Deadline(t))

Spec     == Init /\ [][Next]_vars
FairSpec == Spec /\ Fairness

-----------------------------------------------------------------------------
(***************************************************************************)
(* Properties.                                                              *)
(***************************************************************************)
TypeOK ==
    /\ current \in Runtime \cup {None}
    /\ phase \in [Runtime -> Phase]
    /\ kill \subseteq Runtime
    /\ paired \subseteq Runtime
    /\ secret \in [Runtime -> Secret]
    /\ rotations \in [Runtime -> Seq(Secret)]
    /\ dropped \subseteq Runtime
    /\ ceremony \in {"none", "active", "error"}
    /\ stored \in Code
    /\ row \in Row
    /\ qrcodeCount \in [Runtime -> Nat]
    /\ batches \in [Runtime -> Nat]
    /\ emitter \in [Runtime -> Emitter]
    /\ published \in [Runtime -> Nat]
    /\ reader \in [Readers -> {"idle", "stop", "read"}]
    /\ served \subseteq Runtime

\* QRCODE_MAX_COUNT limits the runtime, not the batch: the code that reaches it
\* is not shown, however many batches the codes came in (qr_emitter.go:54-55).
WithinLimit ==
    MaxCount > 0 => \A t \in Runtime : published[t] < MaxCount

\* While a code is being shown, and no rotation is still to be read or was
\* dropped, the code carries the ADV secret the client has now: scanning it can
\* succeed.  Rotations that arrive between two waits, or while no emitter runs,
\* are not lost.
ShownSecretIsCurrent ==
    \A t \in Runtime :
        At(t, "wait") /\ rotations[t] = <<>> /\ t \notin dropped
            => emitter[t].codes[emitter[t].i] = secret[t]

\* A batch ends: unless somebody pairs or a passkey takes over, the runtime of
\* a code nobody scans is stopped, and the instance does not stay on a QR
\* screen without a code.
WindowCloses ==
    \A t \in Runtime :
        At(t, "wait") ~> (phase[t] = "ended" \/ t \in paired
                            \/ ceremony # "none")
=============================================================================
