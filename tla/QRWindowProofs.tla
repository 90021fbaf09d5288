---------------------------- MODULE QRWindowProofs ----------------------------
(***************************************************************************)
(* QRCODE_MAX_COUNT holds for any number of runtimes, codes, batches and    *)
(* rotations.  WithinLimit is not inductive: published says nothing of the  *)
(* counter the emitter compares with the limit, which lives in the emitter  *)
(* while it runs and in the runtime between two batches.  Counted relates   *)
(* them.  The last section proves that the code on the screen carries the   *)
(* secret of the client.                                                    *)
(***************************************************************************)
EXTENDS QRWindow, TLAPS

\* The codes counted for a runtime, wherever the counter is.
CountOf(t) == IF emitter[t].pc = "idle" THEN qrcodeCount[t] ELSE emitter[t].count

\* No code is shown without being counted.
Counted == \A t \in Runtime : published[t] <= CountOf(t)

\* Only a teardown with a reason records one: the last code without a scan
\* has none.
Reasoned == \A t \in Runtime : emitter[t].pc = "record" => emitter[t].why # "exhausted"

IInv == TypeOK /\ Counted /\ Reasoned /\ WithinLimit

RuntimeTypeOK ==
    /\ current \in Runtime \cup {None}
    /\ phase \in [Runtime -> Phase]
    /\ kill \subseteq Runtime

ClientTypeOK ==
    /\ paired \subseteq Runtime
    /\ secret \in [Runtime -> Secret]
    /\ rotations \in [Runtime -> Seq(Secret)]
    /\ dropped \subseteq Runtime

RowTypeOK ==
    /\ ceremony \in {"none", "active", "error"}
    /\ stored \in Code
    /\ row \in Row

CountsTypeOK ==
    /\ qrcodeCount \in [Runtime -> Nat]
    /\ batches \in [Runtime -> Nat]
    /\ published \in [Runtime -> Nat]

EmitterTypeOK == emitter \in [Runtime -> Emitter]

ReaderTypeOK ==
    /\ reader \in [Readers -> {"idle", "stop", "read"}]
    /\ served \subseteq Runtime

\* The type invariant in parts: an action disturbs few of them.
LEMMA TypeParts ==
    TypeOK <=> /\ RuntimeTypeOK /\ ClientTypeOK /\ RowTypeOK /\ CountsTypeOK
               /\ EmitterTypeOK /\ ReaderTypeOK
  BY DEF TypeOK, RuntimeTypeOK, ClientTypeOK, RowTypeOK, CountsTypeOK,
         EmitterTypeOK, ReaderTypeOK

\* Initially no code is shown and nothing counted.
LEMMA InitIInv == Init => IInv
<1> SUFFICES ASSUME Init PROVE IInv
  OBVIOUS
<1> USE QRAssumption
<1>1. RuntimeTypeOK
  BY DEF Init, RuntimeTypeOK, Phase
<1>2. ClientTypeOK
  <2>1. <<>> \in Seq(Secret)
    OBVIOUS
  <2>2. 1 \in Secret
    BY DEF Secret
  <2> QED
    BY <2>1, <2>2 DEF Init, ClientTypeOK
<1>3. RowTypeOK
  BY DEF Init, RowTypeOK, NoCode, Code, Row
<1>4. CountsTypeOK
  BY DEF Init, CountsTypeOK
<1>5. EmitterTypeOK
  <2>1. Idle \in Emitter
    BY DEF Idle, Emitter, Secret
  <2> QED
    BY <2>1 DEF Init, EmitterTypeOK
<1>6. ReaderTypeOK
  BY DEF Init, ReaderTypeOK
<1>7. TypeOK
  BY <1>1, <1>2, <1>3, <1>4, <1>5, <1>6, TypeParts
<1>8. Counted
  BY DEF Init, Counted, CountOf, Idle
<1>a. Reasoned
  BY DEF Init, Reasoned, Idle
<1>9. WithinLimit
  BY DEF Init, WithinLimit
<1> QED
  BY <1>7, <1>8, <1>a, <1>9 DEF IInv

-----------------------------------------------------------------------------
(***************************************************************************)
(* Steps that leave the emitters and the counters alone.                    *)
(***************************************************************************)
\* What a step that keeps emitters and counters has to show is its types.
LEMMA KeepsCounts ==
    ASSUME IInv, UNCHANGED <<counts, emitter>>,
           RuntimeTypeOK', ClientTypeOK', RowTypeOK', ReaderTypeOK'
    PROVE  IInv'
<1>1. CountsTypeOK' /\ EmitterTypeOK'
  BY DEF IInv, TypeOK, CountsTypeOK, EmitterTypeOK, counts
<1>2. TypeOK'
  BY <1>1, TypeParts, PTL
<1>3. Counted'
  BY DEF IInv, Counted, CountOf, counts
<1>4. WithinLimit'
  BY DEF IInv, WithinLimit, counts
<1>5. Reasoned'
  BY DEF IInv, Reasoned
<1> QED
  BY <1>2, <1>3, <1>4, <1>5 DEF IInv

\* A phase moves to another phase.
LEMMA MoveType ==
    ASSUME RuntimeTypeOK, NEW t \in Runtime, NEW from, NEW to \in Phase,
           Move(t, from, to), current' = current, kill' \subseteq Runtime
    PROVE  RuntimeTypeOK'
  BY DEF RuntimeTypeOK, Move

\* The steps of a runtime keep the invariant.
LEMMA RuntimeStepIInv ==
    ASSUME IInv, NEW t \in Runtime,
           StartRuntime(t) \/ RuntimeStep(t) \/ StopRequested(t) \/ LoseSocket(t)
    PROVE  IInv'
<1> USE DEF IInv
<1>1. RuntimeTypeOK /\ ClientTypeOK /\ RowTypeOK /\ ReaderTypeOK
  BY TypeParts
<1>2. CASE StartRuntime(t)
  <2>1. RuntimeTypeOK'
    BY <1>1, <1>2 DEF StartRuntime, Move, RuntimeTypeOK, Phase
  <2>2. ClientTypeOK' /\ RowTypeOK' /\ ReaderTypeOK'
    BY <1>1, <1>2 DEF StartRuntime, client, readers, ClientTypeOK, RowTypeOK,
       ReaderTypeOK
  <2> QED
    BY <1>2, <2>1, <2>2, KeepsCounts DEF StartRuntime
<1>3. CASE Connect(t)
  <2>1. RuntimeTypeOK'
    BY <1>1, <1>3, MoveType DEF Connect, RuntimeTypeOK, Phase
  <2>2. RowTypeOK'
    BY <1>1, <1>3 DEF Connect, RowTypeOK, NoCode, Code
  <2>3. ClientTypeOK' /\ ReaderTypeOK'
    BY <1>1, <1>3 DEF Connect, client, readers, ClientTypeOK, ReaderTypeOK
  <2> QED
    BY <1>3, <2>1, <2>2, <2>3, KeepsCounts DEF Connect
<1>4. CASE LoseSocket(t)
  <2>1. RuntimeTypeOK'
    BY <1>1, <1>4, MoveType DEF LoseSocket, RuntimeTypeOK, Phase
  <2>2. RowTypeOK'
    BY <1>1, <1>4 DEF LoseSocket, RowTypeOK
  <2>3. ClientTypeOK' /\ ReaderTypeOK'
    BY <1>1, <1>4 DEF LoseSocket, client, readers, ClientTypeOK, ReaderTypeOK
  <2> QED
    BY <1>4, <2>1, <2>2, <2>3, KeepsCounts DEF LoseSocket
<1>5. CASE StopRequested(t)
  <2>1. RuntimeTypeOK'
    BY <1>1, <1>5 DEF StopRequested, RuntimeTypeOK
  <2>2. ClientTypeOK' /\ RowTypeOK' /\ ReaderTypeOK'
    BY <1>1, <1>5 DEF StopRequested, client, readers, ClientTypeOK, RowTypeOK,
       ReaderTypeOK
  <2> QED
    BY <1>5, <2>1, <2>2, KeepsCounts DEF StopRequested
<1>6. CASE TakeKill(t)
  <2>1. RuntimeTypeOK'
    BY <1>1, <1>6, MoveType DEF TakeKill, RuntimeTypeOK, Phase
  <2>2. ClientTypeOK' /\ RowTypeOK' /\ ReaderTypeOK'
    BY <1>1, <1>6 DEF TakeKill, client, readers, ClientTypeOK, RowTypeOK,
       ReaderTypeOK
  <2> QED
    BY <1>6, <2>1, <2>2, KeepsCounts DEF TakeKill
<1>7. CASE EndRuntime(t)
  <2>1. RuntimeTypeOK'
    BY <1>1, <1>7, MoveType DEF EndRuntime, RuntimeTypeOK, Phase
  <2>2. RowTypeOK'
    BY <1>1, <1>7 DEF EndRuntime, RowTypeOK, NoCode, Code
  <2>3. ClientTypeOK' /\ ReaderTypeOK'
    BY <1>1, <1>7 DEF EndRuntime, client, readers, ClientTypeOK, ReaderTypeOK
  <2> QED
    BY <1>7, <2>1, <2>2, <2>3, KeepsCounts DEF EndRuntime
<1> QED
  BY <1>2, <1>3, <1>4, <1>5, <1>6, <1>7 DEF RuntimeStep

\* The events that do not start an emitter keep the invariant.
LEMMA ClientEventIInv ==
    ASSUME IInv, NEW t \in Runtime,
           RotateADVSecret(t) \/ Scan(t) \/ PairSuccess(t) \/ PasskeyRequest(t)
               \/ CeremonyEnds
    PROVE  IInv'
<1> USE DEF IInv
<1>1. RuntimeTypeOK /\ ClientTypeOK /\ RowTypeOK /\ ReaderTypeOK
  BY TypeParts
<1>2. CASE RotateADVSecret(t)
  <2>1. secret[t] + 1 \in Secret
    BY <1>1, <1>2, QRAssumption DEF RotateADVSecret, ClientTypeOK, Secret
  <2>2. Append(rotations[t], secret[t] + 1) \in Seq(Secret)
    BY <1>1, <2>1 DEF ClientTypeOK
  <2>3. rotations' \in [Runtime -> Seq(Secret)]
    BY <1>1, <1>2, <2>2 DEF RotateADVSecret, ClientTypeOK
  <2>4. ClientTypeOK'
    BY <1>1, <1>2, <2>1, <2>3 DEF RotateADVSecret, ClientTypeOK
  <2>5. RuntimeTypeOK' /\ RowTypeOK' /\ ReaderTypeOK'
    BY <1>1, <1>2 DEF RotateADVSecret, runtimes, readers, RuntimeTypeOK,
       RowTypeOK, ReaderTypeOK
  <2> QED
    BY <1>2, <2>4, <2>5, KeepsCounts DEF RotateADVSecret
<1>3. CASE Scan(t)
  <2>1. ClientTypeOK'
    BY <1>1, <1>3 DEF Scan, ClientTypeOK
  <2>2. RuntimeTypeOK' /\ RowTypeOK' /\ ReaderTypeOK'
    BY <1>1, <1>3 DEF Scan, runtimes, readers, RuntimeTypeOK, RowTypeOK,
       ReaderTypeOK
  <2> QED
    BY <1>3, <2>1, <2>2, KeepsCounts DEF Scan
<1>4. CASE PairSuccess(t)
  <2>1. RowTypeOK'
    BY <1>1, <1>4 DEF PairSuccess, RowTypeOK, NoCode, Code, Row
  <2>2. RuntimeTypeOK' /\ ClientTypeOK' /\ ReaderTypeOK'
    BY <1>1, <1>4 DEF PairSuccess, runtimes, client, readers, RuntimeTypeOK,
       ClientTypeOK, ReaderTypeOK
  <2> QED
    BY <1>4, <2>1, <2>2, KeepsCounts DEF PairSuccess
<1>5. CASE PasskeyRequest(t)
  <2>1. RowTypeOK'
    BY <1>1, <1>5 DEF PasskeyRequest, RowTypeOK
  <2>2. RuntimeTypeOK' /\ ClientTypeOK' /\ ReaderTypeOK'
    BY <1>1, <1>5 DEF PasskeyRequest, runtimes, client, readers, RuntimeTypeOK,
       ClientTypeOK, ReaderTypeOK
  <2> QED
    BY <1>5, <2>1, <2>2, KeepsCounts DEF PasskeyRequest
<1>6. CASE CeremonyEnds
  <2>1. RowTypeOK'
    BY <1>1, <1>6 DEF CeremonyEnds, RowTypeOK
  <2>2. RuntimeTypeOK' /\ ClientTypeOK' /\ ReaderTypeOK'
    BY <1>1, <1>6 DEF CeremonyEnds, runtimes, client, readers, RuntimeTypeOK,
       ClientTypeOK, ReaderTypeOK
  <2> QED
    BY <1>6, <2>1, <2>2, KeepsCounts DEF CeremonyEnds
<1> QED
  BY <1>2, <1>3, <1>4, <1>5, <1>6

\* The requests keep the invariant.
LEMMA RequestIInv ==
    ASSUME IInv, NEW r \in Readers, GetQr(r) \/ StopWaited(r) \/ ServeQr(r)
    PROVE  IInv'
<1> USE DEF IInv
<1>1. RuntimeTypeOK /\ ClientTypeOK /\ RowTypeOK /\ ReaderTypeOK
  BY TypeParts
<1>2. CASE GetQr(r)
  <2>1. RuntimeTypeOK'
    BY <1>1, <1>2 DEF GetQr, RuntimeTypeOK, HasClient
  <2>2. ReaderTypeOK'
    BY <1>1, <1>2 DEF GetQr, Reading, ReaderTypeOK
  <2>3. ClientTypeOK' /\ RowTypeOK'
    BY <1>1, <1>2 DEF GetQr, client, ClientTypeOK, RowTypeOK
  <2> QED
    BY <1>2, <2>1, <2>2, <2>3, KeepsCounts DEF GetQr
<1>3. CASE StopWaited(r)
  <2>1. ReaderTypeOK'
    BY <1>1, <1>3 DEF StopWaited, Reading, ReaderTypeOK
  <2>2. RuntimeTypeOK' /\ ClientTypeOK' /\ RowTypeOK'
    BY <1>1, <1>3 DEF StopWaited, runtimes, client, RuntimeTypeOK, ClientTypeOK,
       RowTypeOK
  <2> QED
    BY <1>3, <2>1, <2>2, KeepsCounts DEF StopWaited
<1>4. CASE ServeQr(r)
  <2>1. reader' \in [Readers -> {"idle", "stop", "read"}]
    BY <1>1, <1>4 DEF ServeQr, Reading, ReaderTypeOK
  <2>2. served' \subseteq Runtime
    BY <1>1, <1>4 DEF ServeQr, ReaderTypeOK, RowTypeOK, Code, NoCode
  <2>3. RuntimeTypeOK' /\ ClientTypeOK' /\ RowTypeOK'
    BY <1>1, <1>4 DEF ServeQr, runtimes, client, RuntimeTypeOK, ClientTypeOK,
       RowTypeOK
  <2> QED
    BY <1>4, <2>1, <2>2, <2>3, KeepsCounts DEF ServeQr, ReaderTypeOK
<1> QED
  BY <1>2, <1>3, <1>4

-----------------------------------------------------------------------------
(***************************************************************************)
(* Steps of an emitter.                                                     *)
(***************************************************************************)
\* An emitter becomes e and the counts of its runtime do not shrink: what is
\* left to show is about this runtime only.
LEMMA EmitterBecomes ==
    ASSUME IInv, NEW t \in Runtime, NEW e \in Emitter, NEW n \in Nat, NEW m \in Nat,
           emitter' = [emitter EXCEPT ![t] = e],
           qrcodeCount' = [qrcodeCount EXCEPT ![t] = n],
           published' = [published EXCEPT ![t] = m],
           batches' \in [Runtime -> Nat],
           m <= (IF e.pc = "idle" THEN n ELSE e.count),
           e.pc = "record" => e.why # "exhausted",
           MaxCount > 0 => m < MaxCount,
           RuntimeTypeOK', ClientTypeOK', RowTypeOK', ReaderTypeOK'
    PROVE  IInv'
<1>1. CountsTypeOK /\ EmitterTypeOK /\ Counted /\ Reasoned /\ WithinLimit
  BY TypeParts DEF IInv
<1>2. CountsTypeOK'
  BY <1>1 DEF CountsTypeOK
<1>3. EmitterTypeOK'
  BY <1>1 DEF EmitterTypeOK
<1>4. TypeOK'
  BY <1>2, <1>3, TypeParts, PTL
<1>5. Counted'
  <2> SUFFICES ASSUME NEW u \in Runtime PROVE published'[u] <= CountOf(u)'
    BY DEF Counted
  <2>1. CASE u = t
    BY <1>1, <2>1 DEF CountOf, CountsTypeOK, EmitterTypeOK
  <2>2. CASE u # t
    <3>1. emitter'[u] = emitter[u] /\ qrcodeCount'[u] = qrcodeCount[u]
      BY <1>1, <2>2 DEF CountsTypeOK, EmitterTypeOK
    <3>2. published'[u] = published[u]
      BY <1>1, <2>2 DEF CountsTypeOK
    <3> QED
      BY <1>1, <3>1, <3>2 DEF Counted, CountOf
  <2> QED
    BY <2>1, <2>2
<1>6. WithinLimit'
  BY <1>1 DEF WithinLimit, CountsTypeOK
<1>7. Reasoned'
  BY <1>1 DEF Reasoned, EmitterTypeOK
<1> QED
  BY <1>4, <1>5, <1>6, <1>7 DEF IInv

\* The emitter goes to another place of its loop with its counter as it is.
LEMMA GotoIInv ==
    ASSUME IInv, NEW t \in Runtime, ~At(t, "idle"), UNCHANGED <<batches, published>>,
           NEW e \in Emitter, e.pc # "idle", e.count = emitter[t].count,
           e.pc = "record" => e.why # "exhausted",
           emitter' = [emitter EXCEPT ![t] = e], qrcodeCount' = qrcodeCount,
           RuntimeTypeOK', ClientTypeOK', RowTypeOK', ReaderTypeOK'
    PROVE  IInv'
<1>1. CountsTypeOK /\ EmitterTypeOK /\ Counted /\ WithinLimit
  BY TypeParts DEF IInv
<1>2. qrcodeCount[t] \in Nat /\ published[t] \in Nat
  BY <1>1 DEF CountsTypeOK
<1>3. /\ qrcodeCount' = [qrcodeCount EXCEPT ![t] = qrcodeCount[t]]
      /\ published' = [published EXCEPT ![t] = published[t]]
      /\ batches' \in [Runtime -> Nat]
  BY <1>1 DEF CountsTypeOK
<1>4. published[t] <= e.count
  BY <1>1 DEF Counted, CountOf, At
<1>5. MaxCount > 0 => published[t] < MaxCount
  BY <1>1 DEF WithinLimit
<1> QED
  BY <1>2, <1>3, <1>4, <1>5, EmitterBecomes

\* The emitter returns: its counter goes to the runtime.
LEMMA LeaveIInv ==
    ASSUME IInv, NEW t \in Runtime, ~At(t, "idle"), Leave(t),
           UNCHANGED <<batches, published>>,
           RuntimeTypeOK', ClientTypeOK', RowTypeOK', ReaderTypeOK'
    PROVE  IInv'
<1>1. CountsTypeOK /\ EmitterTypeOK /\ Counted /\ WithinLimit
  BY TypeParts DEF IInv
<1>2. Idle \in Emitter /\ Idle.pc = "idle"
  BY QRAssumption DEF Idle, Emitter, Secret
<1>3. emitter[t].count \in Nat /\ published[t] \in Nat
  BY <1>1 DEF EmitterTypeOK, Emitter, CountsTypeOK
<1>4. /\ published' = [published EXCEPT ![t] = published[t]]
      /\ batches' \in [Runtime -> Nat]
  BY <1>1 DEF CountsTypeOK
<1>5. published[t] <= emitter[t].count
  BY <1>1 DEF Counted, CountOf, At
<1>6. MaxCount > 0 => published[t] < MaxCount
  BY <1>1 DEF WithinLimit
<1> QED
  BY <1>2, <1>3, <1>4, <1>5, <1>6, EmitterBecomes DEF Leave

\* Steps of an emitter that go on or return, and touch nothing else.
LEMMA CheckIInv ==
    ASSUME IInv, NEW t \in Runtime,
           CheckRuntime(t) \/ CheckSocket(t) \/ Tick(t) \/ StopSeen(t) \/ LastCheck(t)
    PROVE  IInv'
<1>1. /\ RuntimeTypeOK /\ ClientTypeOK /\ RowTypeOK /\ ReaderTypeOK
      /\ EmitterTypeOK
  BY TypeParts DEF IInv
<1>2. emitter[t] \in Emitter /\ emitter[t].then \in {"publish", "wait"}
  BY <1>1 DEF EmitterTypeOK, Emitter
<1>3. /\ UNCHANGED <<runtimes, client, ceremony, stored, row, batches, published,
                      readers>>
      /\ ~At(t, "idle")
  BY DEF CheckRuntime, CheckSocket, Tick, StopSeen, LastCheck, At
<1>4. RuntimeTypeOK' /\ ClientTypeOK' /\ RowTypeOK' /\ ReaderTypeOK'
  BY <1>1, <1>3 DEF runtimes, client, readers, RuntimeTypeOK, ClientTypeOK,
     RowTypeOK, ReaderTypeOK
<1>5. CASE Leave(t)
  BY <1>3, <1>4, <1>5, LeaveIInv
<1>6. ASSUME NEW pc \in {"check", "socket", "publish", "wait"}, Goto(t, pc)
      PROVE  IInv'
  <2> DEFINE e == [emitter[t] EXCEPT !.pc = pc]
  <2>1. emitter' = [emitter EXCEPT ![t] = e]
    BY <1>1, <1>2, <1>6 DEF Goto, EmitterTypeOK
  <2>2. e \in Emitter /\ e.pc = pc /\ e.count = emitter[t].count
    BY <1>2, <1>6 DEF Emitter
  <2> HIDE DEF e
  <2> QED
    BY <1>3, <1>4, <1>6, <2>1, <2>2, GotoIInv DEF Goto
<1>7. ASSUME NEW why \in {"exhausted", "lost", "max"}, Teardown(t, why)
      PROVE  IInv'
  <2> DEFINE e == [emitter[t] EXCEPT !.pc = "clear", !.why = why]
  <2>1. emitter' = [emitter EXCEPT ![t] = e]
    BY <1>1, <1>2, <1>7 DEF Teardown, EmitterTypeOK
  <2>2. e \in Emitter /\ e.pc = "clear" /\ e.count = emitter[t].count
    BY <1>2, <1>7 DEF Emitter
  <2> HIDE DEF e
  <2> QED
    BY <1>3, <1>4, <1>7, <2>1, <2>2, GotoIInv DEF Teardown
<1>8. CASE CheckRuntime(t)
  BY <1>5, <1>6, <1>8 DEF CheckRuntime
<1>9. CASE CheckSocket(t)
  BY <1>2, <1>6, <1>7, <1>9 DEF CheckSocket
<1>10. CASE Tick(t)
  BY <1>6, <1>10 DEF Tick
<1>11. CASE StopSeen(t)
  BY <1>5, <1>11 DEF StopSeen
<1>12. CASE LastCheck(t)
  BY <1>5, <1>7, <1>12 DEF LastCheck
<1> QED
  BY <1>8, <1>9, <1>10, <1>11, <1>12

\* The code that reaches the limit is counted and not shown; any other one is
\* counted and shown, below the limit.
LEMMA PublishIInv ==
    ASSUME IInv, NEW t \in Runtime, ReachLimit(t) \/ Publish(t)
    PROVE  IInv'
<1>1. /\ RuntimeTypeOK /\ ClientTypeOK /\ RowTypeOK /\ ReaderTypeOK
      /\ EmitterTypeOK /\ CountsTypeOK /\ Counted /\ WithinLimit
  BY TypeParts DEF IInv
<1>2. emitter[t] \in Emitter
  BY <1>1 DEF EmitterTypeOK
<1>3. /\ published[t] \in Nat /\ qrcodeCount[t] \in Nat
      /\ emitter[t].count \in Nat /\ MaxCount \in Nat
  BY <1>1, <1>2, QRAssumption DEF CountsTypeOK, Emitter
<1>4. published[t] <= emitter[t].count
  BY <1>1 DEF ReachLimit, Publish, At, Counted, CountOf
<1>5. MaxCount > 0 => published[t] < MaxCount
  BY <1>1 DEF WithinLimit
<1>6. CASE ReachLimit(t)
  <2>0. PICK n \in Nat : n = emitter[t].count + 1
    BY <1>3
  <2> DEFINE e == [emitter[t] EXCEPT !.pc = "clear", !.why = "max", !.count = n]
  <2>1. e \in Emitter
    BY <1>2 DEF Emitter
  <2>a. e.pc = "clear" /\ e.count = emitter[t].count + 1
    BY <1>2, <2>0 DEF Emitter
  <2>2. emitter' = [emitter EXCEPT ![t] = e]
    BY <1>1, <1>2, <1>6, <2>0 DEF ReachLimit, EmitterTypeOK
  <2>3. /\ qrcodeCount' = [qrcodeCount EXCEPT ![t] = qrcodeCount[t]]
        /\ published' = [published EXCEPT ![t] = published[t]]
        /\ batches' \in [Runtime -> Nat]
    BY <1>1, <1>6 DEF ReachLimit, counts, CountsTypeOK
  <2>4. RuntimeTypeOK' /\ ClientTypeOK' /\ RowTypeOK' /\ ReaderTypeOK'
    BY <1>1, <1>6 DEF ReachLimit, ForceLogout, Move, Phase, readers, RuntimeTypeOK,
       ClientTypeOK, RowTypeOK, ReaderTypeOK
  <2>b. published[t] <= IF e.pc = "idle" THEN qrcodeCount[t] ELSE e.count
    BY <1>3, <1>4, <2>a
  <2>c. e.pc = "record" => e.why # "exhausted"
    BY <2>a
  <2> HIDE DEF e
  <2> QED
    BY <1>3, <1>4, <1>5, <2>1, <2>a, <2>b, <2>c, <2>2, <2>3, <2>4, EmitterBecomes
<1>7. CASE Publish(t)
  <2>0. PICK n \in Nat : n = emitter[t].count + 1
    BY <1>3
  <2> DEFINE e == [emitter[t] EXCEPT !.pc = "wait", !.then = "wait",
                                     !.count = n, !.due = FALSE]
  <2>1. e \in Emitter
    BY <1>2 DEF Emitter
  <2>a. e.pc = "wait" /\ e.count = emitter[t].count + 1
    BY <1>2, <2>0 DEF Emitter
  <2>2. emitter' = [emitter EXCEPT ![t] = e]
    BY <1>1, <1>2, <1>7, <2>0 DEF Publish, EmitterTypeOK
  <2>3. /\ qrcodeCount' = [qrcodeCount EXCEPT ![t] = qrcodeCount[t]]
        /\ published' = [published EXCEPT ![t] = published[t] + 1]
        /\ batches' \in [Runtime -> Nat]
    BY <1>1, <1>7 DEF Publish, CountsTypeOK
  <2>4. MaxCount > 0 => published[t] + 1 < MaxCount
    BY <1>3, <1>4, <1>7 DEF Publish
  <2>5. emitter[t].i \in 1 .. Codes /\ emitter[t].codes \in [1 .. Codes -> Secret]
    BY <1>2 DEF Emitter
  <2>6. stored' \in Code
    BY <1>7, <2>5 DEF Publish, Show, Code
  <2>7. RuntimeTypeOK' /\ ClientTypeOK' /\ RowTypeOK' /\ ReaderTypeOK'
    BY <1>1, <1>7, <2>6 DEF Publish, runtimes, client, readers, RuntimeTypeOK,
       ClientTypeOK, RowTypeOK, ReaderTypeOK
  <2>b. published[t] + 1 <= IF e.pc = "idle" THEN qrcodeCount[t] ELSE e.count
    BY <1>3, <1>4, <2>a
  <2>d. published[t] + 1 \in Nat
    BY <1>3
  <2>c. e.pc = "record" => e.why # "exhausted"
    BY <2>a
  <2> HIDE DEF e
  <2> QED
    BY <1>3, <2>1, <2>b, <2>c, <2>d, <2>2, <2>3, <2>4, <2>7, EmitterBecomes
<1> QED
  BY <1>6, <1>7

\* A rotation shows the current code again, which is not another code.
LEMMA RotateIInv ==
    ASSUME IInv, NEW t \in Runtime, Rotate(t)
    PROVE  IInv'
<1>1. /\ RuntimeTypeOK /\ ClientTypeOK /\ RowTypeOK /\ ReaderTypeOK
      /\ EmitterTypeOK /\ CountsTypeOK
  BY TypeParts DEF IInv
<1>2. /\ emitter[t] \in Emitter /\ emitter[t].i \in 1 .. Codes
      /\ emitter[t].codes \in [1 .. Codes -> Secret] /\ emitter[t].due \in BOOLEAN
  BY <1>1 DEF EmitterTypeOK, Emitter
<1>3. /\ rotations[t] \in Seq(Secret)
      /\ Head(rotations[t]) \in Secret /\ Tail(rotations[t]) \in Seq(Secret)
  BY <1>1 DEF Rotate, ClientTypeOK
<1> DEFINE c == Rotated(emitter[t].codes, emitter[t].i, Head(rotations[t]))
           e == [emitter[t] EXCEPT !.codes = c]
<1>4. c \in [1 .. Codes -> Secret]
  BY <1>2, <1>3 DEF Rotated
<1> HIDE DEF c
<1>5. /\ e \in Emitter /\ e.pc = "wait" /\ e.count = emitter[t].count
  BY <1>2, <1>4 DEF Emitter, Rotate, At
<1>6. emitter' = [emitter EXCEPT ![t] = e]
  BY <1>1, <1>2 DEF Rotate, EmitterTypeOK, c
<1>7. stored' \in Code
  <2>1. stored' = [owner |-> t, secret |-> c[emitter[t].i], fresh |-> ~emitter[t].due]
    BY DEF Rotate, Show, c
  <2>2. c[emitter[t].i] \in Secret
    BY <1>2, <1>4
  <2> QED
    BY <2>1, <2>2 DEF Code
<1>8. ClientTypeOK'
  BY <1>1, <1>3 DEF Rotate, ClientTypeOK
<1>9. RuntimeTypeOK' /\ RowTypeOK' /\ ReaderTypeOK'
  BY <1>1, <1>7 DEF Rotate, runtimes, readers, RuntimeTypeOK, RowTypeOK,
     ReaderTypeOK
<1> HIDE DEF e
<1> QED
  BY <1>5, <1>6, <1>8, <1>9, GotoIInv DEF Rotate, counts, At

\* Time changes no counter.
LEMMA TimeIInv ==
    ASSUME IInv, NEW t \in Runtime, CodeExpires(t) \/ Deadline(t)
    PROVE  IInv'
<1>1. /\ RuntimeTypeOK /\ ClientTypeOK /\ RowTypeOK /\ ReaderTypeOK
      /\ EmitterTypeOK /\ CountsTypeOK /\ Counted /\ Reasoned /\ WithinLimit
  BY TypeParts DEF IInv
<1>2. emitter[t] \in Emitter
  BY <1>1 DEF EmitterTypeOK
<1>3. CASE CodeExpires(t)
  <2> DEFINE e == [emitter[t] EXCEPT !.due = ~At(t, "idle")]
  <2>1. /\ e \in Emitter /\ e.pc = emitter[t].pc /\ e.count = emitter[t].count
        /\ e.why = emitter[t].why
    BY <1>2 DEF Emitter, At
  <2>2. emitter' = [emitter EXCEPT ![t] = e]
    BY <1>1, <1>2, <1>3 DEF CodeExpires, EmitterTypeOK
  <2>3. stored' \in Code
    <3>1. stored \in Code /\ t # None
      BY <1>1 DEF RowTypeOK, None, Runtime
    <3>2. CASE stored.owner = t
      <4>1. stored \in [owner: Runtime, secret: Secret, fresh: BOOLEAN]
        BY <3>1, <3>2 DEF Code, NoCode
      <4>2. stored' = [stored EXCEPT !.fresh = FALSE]
        BY <1>3, <3>2 DEF CodeExpires
      <4> QED
        BY <4>1, <4>2 DEF Code
    <3>3. CASE stored.owner # t
      BY <1>3, <3>1, <3>3 DEF CodeExpires
    <3> QED
      BY <3>2, <3>3
  <2>4. RuntimeTypeOK' /\ ClientTypeOK' /\ RowTypeOK' /\ ReaderTypeOK'
    BY <1>1, <1>3, <2>3 DEF CodeExpires, runtimes, client, readers,
       RuntimeTypeOK, ClientTypeOK, RowTypeOK, ReaderTypeOK
  <2>5. /\ qrcodeCount' = [qrcodeCount EXCEPT ![t] = qrcodeCount[t]]
        /\ published' = [published EXCEPT ![t] = published[t]]
        /\ batches' \in [Runtime -> Nat]
    BY <1>1, <1>3 DEF CodeExpires, counts, CountsTypeOK
  <2>6. published[t] <= IF e.pc = "idle" THEN qrcodeCount[t] ELSE e.count
    BY <1>1, <2>1 DEF Counted, CountOf
  <2>9. e.pc = "record" => e.why # "exhausted"
    BY <1>1, <2>1 DEF Reasoned
  <2>7. MaxCount > 0 => published[t] < MaxCount
    BY <1>1 DEF WithinLimit
  <2>8. qrcodeCount[t] \in Nat /\ published[t] \in Nat
    BY <1>1 DEF CountsTypeOK
  <2> HIDE DEF e
  <2> QED
    BY <2>1, <2>2, <2>4, <2>5, <2>6, <2>7, <2>8, <2>9, EmitterBecomes
<1>4. CASE Deadline(t)
  <2>1. RuntimeTypeOK' /\ ClientTypeOK' /\ RowTypeOK' /\ ReaderTypeOK'
    BY <1>1, <1>4 DEF Deadline, runtimes, client, readers, RuntimeTypeOK,
       ClientTypeOK, RowTypeOK, ReaderTypeOK
  <2>2. ~At(t, "idle") /\ UNCHANGED <<batches, published, qrcodeCount>>
    BY <1>4 DEF Deadline, At, counts
  <2>3. CASE emitter[t].i < Codes
    <3>0. PICK k \in 1 .. Codes : k = emitter[t].i + 1
      BY <1>2, <2>3, QRAssumption DEF Emitter
    <3> DEFINE e == [emitter[t] EXCEPT !.pc = "check", !.then = "publish", !.i = k]
    <3>1. e \in Emitter
      BY <1>2 DEF Emitter
    <3>a. e.pc = "check" /\ e.count = emitter[t].count
      BY <1>2 DEF Emitter
    <3>2. emitter' = [emitter EXCEPT ![t] = e]
      <4>1. emitter' = [emitter EXCEPT ![t] = [emitter[t] EXCEPT !.pc = "check",
                            !.then = "publish", !.i = emitter[t].i + 1]]
        BY <1>4, <2>3 DEF Deadline
      <4> QED
        BY <3>0, <4>1
    <3> HIDE DEF e
    <3> QED
      BY <2>1, <2>2, <3>1, <3>a, <3>2, GotoIInv
  <2>4. CASE ~(emitter[t].i < Codes)
    <3> DEFINE e == [emitter[t] EXCEPT !.pc = "last"]
    <3>1. emitter' = [emitter EXCEPT ![t] = e]
      BY <1>1, <1>2, <1>4, <2>4 DEF Deadline, EmitterTypeOK
    <3>2. e \in Emitter /\ e.pc = "last" /\ e.count = emitter[t].count
      BY <1>2 DEF Emitter
    <3> HIDE DEF e
    <3> QED
      BY <2>1, <2>2, <3>1, <3>2, GotoIInv
  <2> QED
    BY <2>3, <2>4
<1> QED
  BY <1>3, <1>4

\* Tearing the window down counts nothing more.
LEMMA TeardownIInv ==
    ASSUME IInv, NEW t \in Runtime,
           ClearStored(t) \/ RecordReason(t) \/ SignalKill(t) \/ QREvent(t)
    PROVE  IInv'
<1>1. /\ RuntimeTypeOK /\ ClientTypeOK /\ RowTypeOK /\ ReaderTypeOK
      /\ EmitterTypeOK /\ CountsTypeOK /\ Counted /\ Reasoned /\ WithinLimit
  BY TypeParts DEF IInv
<1>2. emitter[t] \in Emitter /\ emitter[t].why \in {"exhausted", "lost", "max"}
  BY <1>1 DEF EmitterTypeOK, Emitter
<1>3. CASE ClearStored(t)
  <2>1. PICK pc \in {"signal", "record"} :
            Goto(t, pc) /\ (pc = "record" => emitter[t].why # "exhausted")
    BY <1>3 DEF ClearStored
  <2> DEFINE e == [emitter[t] EXCEPT !.pc = pc]
  <2>2. emitter' = [emitter EXCEPT ![t] = e]
    BY <1>1, <1>2, <2>1 DEF Goto, EmitterTypeOK
  <2>3. RuntimeTypeOK' /\ ClientTypeOK' /\ RowTypeOK' /\ ReaderTypeOK'
    BY <1>1, <1>3 DEF ClearStored, runtimes, client, readers, RuntimeTypeOK,
       ClientTypeOK, RowTypeOK, ReaderTypeOK, NoCode, Code
  <2>4. ~At(t, "idle") /\ UNCHANGED <<batches, published>>
    BY <1>3 DEF ClearStored, At
  <2>5. e \in Emitter /\ e.pc = pc /\ e.count = emitter[t].count
             /\ e.why = emitter[t].why
    BY <1>2, <2>1 DEF Emitter
  <2> HIDE DEF e
  <2> QED
    BY <2>1, <2>2, <2>3, <2>4, <2>5, GotoIInv DEF Goto
<1>4. CASE RecordReason(t)
  <2> DEFINE e == [emitter[t] EXCEPT !.pc = "signal"]
  <2>1. emitter' = [emitter EXCEPT ![t] = e]
    BY <1>1, <1>2, <1>4 DEF RecordReason, Goto, EmitterTypeOK
  <2>2. row' \in Row
    BY <1>1, <1>2, <1>4 DEF RecordReason, At, Reasoned, Row
  <2>5. e \in Emitter /\ e.pc = "signal" /\ e.count = emitter[t].count
    BY <1>2 DEF Emitter
  <2>3. RuntimeTypeOK' /\ ClientTypeOK' /\ RowTypeOK' /\ ReaderTypeOK'
    BY <1>1, <1>4, <2>2 DEF RecordReason, runtimes, client, readers,
       RuntimeTypeOK, ClientTypeOK, RowTypeOK, ReaderTypeOK
  <2>4. ~At(t, "idle") /\ UNCHANGED <<batches, published, qrcodeCount>>
    BY <1>4 DEF RecordReason, At, Goto
  <2> HIDE DEF e
  <2> QED
    BY <2>1, <2>3, <2>4, <2>5, GotoIInv
<1>5. CASE SignalKill(t)
  <2>1. RuntimeTypeOK' /\ ClientTypeOK' /\ RowTypeOK' /\ ReaderTypeOK'
    BY <1>1, <1>5 DEF SignalKill, client, readers, RuntimeTypeOK, ClientTypeOK,
       RowTypeOK, ReaderTypeOK
  <2> QED
    BY <1>5, <2>1, LeaveIInv DEF SignalKill, At
<1>6. CASE QREvent(t)
  <2> DEFINE e == [Idle EXCEPT !.pc = "check", !.count = qrcodeCount[t],
                        !.codes = [n \in 1 .. Codes |-> secret[t]]]
  <2>1. secret[t] \in Secret /\ qrcodeCount[t] \in Nat /\ published[t] \in Nat
    BY <1>1 DEF ClientTypeOK, CountsTypeOK
  <2>0. Idle \in Emitter /\ [n \in 1 .. Codes |-> secret[t]] \in [1 .. Codes -> Secret]
    BY <2>1, QRAssumption DEF Idle, Emitter, Secret
  <2>2. e \in Emitter /\ e.pc = "check" /\ e.count = qrcodeCount[t]
    BY <2>0, <2>1 DEF Emitter
  <2>3. emitter' = [emitter EXCEPT ![t] = e]
    BY <1>6 DEF QREvent
  <2>4. published[t] <= qrcodeCount[t]
    BY <1>1, <1>6 DEF QREvent, Counted, CountOf
  <2>5. MaxCount > 0 => published[t] < MaxCount
    BY <1>1 DEF WithinLimit
  <2>6. RuntimeTypeOK' /\ ClientTypeOK' /\ RowTypeOK' /\ ReaderTypeOK'
    BY <1>1, <1>6 DEF QREvent, runtimes, client, readers, RuntimeTypeOK,
       ClientTypeOK, RowTypeOK, ReaderTypeOK
  <2>7. /\ qrcodeCount' = [qrcodeCount EXCEPT ![t] = qrcodeCount[t]]
        /\ published' = [published EXCEPT ![t] = published[t]]
        /\ batches' \in [Runtime -> Nat]
    BY <1>1, <1>6 DEF QREvent, CountsTypeOK
  <2> HIDE DEF e
  <2> QED
    BY <2>1, <2>2, <2>3, <2>4, <2>5, <2>6, <2>7, EmitterBecomes
<1> QED
  BY <1>3, <1>4, <1>5, <1>6

-----------------------------------------------------------------------------
\* A step that changes nothing keeps the invariant.
LEMMA StutterIInv ==
    ASSUME IInv, UNCHANGED vars
    PROVE  IInv'
<1>1. /\ RuntimeTypeOK /\ ClientTypeOK /\ RowTypeOK /\ ReaderTypeOK
  BY TypeParts DEF IInv
<1>2. UNCHANGED <<counts, emitter>>
  BY DEF vars
<1>3. RuntimeTypeOK' /\ ClientTypeOK' /\ RowTypeOK' /\ ReaderTypeOK'
  BY <1>1 DEF vars, runtimes, client, readers, RuntimeTypeOK, ClientTypeOK,
     RowTypeOK, ReaderTypeOK
<1> QED
  BY <1>2, <1>3, KeepsCounts

\* The invariant is inductive.
THEOREM Inductive == Spec => []IInv
<1>1. IInv /\ [Next]_vars => IInv'
  <2> SUFFICES ASSUME IInv, [Next]_vars PROVE IInv'
    OBVIOUS
  <2>1. ASSUME NEW t \in Runtime,
               \/ StartRuntime(t) \/ RuntimeStep(t) \/ StopRequested(t)
               \/ Event(t) \/ EmitterStep(t) \/ CodeExpires(t) \/ Deadline(t)
        PROVE  IInv'
    BY <2>1, RuntimeStepIInv, ClientEventIInv, CheckIInv, PublishIInv,
       RotateIInv, TimeIInv, TeardownIInv DEF Event, EmitterStep
  <2>2. CASE CeremonyEnds
    <3>1. PICK t : t \in Runtime
      BY QRAssumption DEF Runtime
    <3> QED
      BY <2>2, <3>1, ClientEventIInv
  <2>3. ASSUME NEW r \in Readers, GetQr(r) \/ StopWaited(r) \/ ServeQr(r)
        PROVE  IInv'
    BY <2>3, RequestIInv
  <2>4. CASE UNCHANGED vars
    BY <2>4, StutterIInv
  <2> QED
    BY <2>1, <2>2, <2>3, <2>4 DEF Next
<1> QED
  BY InitIInv, <1>1, PTL DEF Spec

\* The model's variables keep their types for every value of the constants.
THEOREM TypeCorrect == Spec => []TypeOK
  BY Inductive, PTL DEF IInv

\* However many batches a runtime receives and whatever rotates or stops, fewer
\* codes than QRCODE_MAX_COUNT are shown (qr_emitter.go:54-55).
THEOREM LimitAlwaysHolds == Spec => []WithinLimit
  BY Inductive, PTL DEF IInv

-----------------------------------------------------------------------------
(***************************************************************************)
(* The secret of the code on the screen.  ShownSecretIsCurrent says nothing *)
(* of a channel that still holds rotations, so it is not inductive.  Rising *)
(* says that the channel holds the last secrets of the client, one after    *)
(* the other; Behind, that no code from the current one on is older than    *)
(* the secret before the first of them, so each rotation meets the secret   *)
(* it replaces.                                                             *)
(***************************************************************************)
Rising(t) ==
    \A k \in 1 .. Len(rotations[t]) : rotations[t][k] + Len(rotations[t]) = secret[t] + k

Behind(t) ==
    emitter[t].pc # "idle" =>
        \A n \in emitter[t].i .. Codes :
            /\ emitter[t].codes[n] <= secret[t]
            /\ secret[t] <= emitter[t].codes[n] + Len(rotations[t])

SecretsKept == \A t \in Runtime : t \notin dropped => Rising(t) /\ Behind(t)

\* Initially no secret was rotated and no code shown.
LEMMA InitSecrets == Init => SecretsKept
<1> SUFFICES ASSUME Init, NEW t \in Runtime PROVE Rising(t) /\ Behind(t)
  BY DEF SecretsKept
<1>1. rotations[t] = <<>> /\ Len(rotations[t]) = 0
  BY DEF Init
<1>2. emitter[t].pc = "idle"
  BY DEF Init, Idle
<1> QED
  BY <1>1, <1>2 DEF Rising, Behind

\* A step that rotates nothing and, in each emitter, leaves or goes on with the
\* same codes keeps the secrets.
GoesOnOrLeaves(t) ==
    \/ emitter'[t].pc = "idle"
    \/ /\ emitter[t].pc # "idle"
       /\ emitter'[t].codes = emitter[t].codes
       /\ emitter'[t].i \in emitter[t].i .. Codes

LEMMA SecretsStay ==
    ASSUME IInv, SecretsKept, UNCHANGED <<secret, rotations, dropped>>,
           \A t \in Runtime : emitter'[t] = emitter[t] \/ GoesOnOrLeaves(t)
    PROVE  SecretsKept'
<1> SUFFICES ASSUME NEW t \in Runtime, t \notin dropped
             PROVE  Rising(t)' /\ Behind(t)'
  BY DEF SecretsKept
<1>1. Rising(t) /\ Behind(t)
  BY DEF SecretsKept
<1>2. Rising(t)'
  BY <1>1 DEF Rising
<1>3. CASE emitter'[t] = emitter[t]
  BY <1>1, <1>2, <1>3 DEF Behind
<1>4. CASE GoesOnOrLeaves(t)
  <2>1. emitter[t] \in Emitter /\ Codes \in Nat
    BY QRAssumption DEF IInv, TypeOK
  <2>2. emitter[t].i \in Nat
    BY <2>1 DEF Emitter
  <2>3. ASSUME emitter'[t].pc # "idle", NEW n \in emitter'[t].i .. Codes
        PROVE  n \in emitter[t].i .. Codes /\ emitter'[t].codes[n] = emitter[t].codes[n]
    BY <1>4, <2>1, <2>2, <2>3 DEF GoesOnOrLeaves
  <2> QED
    BY <1>1, <1>2, <1>4, <2>3 DEF Behind, GoesOnOrLeaves
<1> QED
  BY <1>3, <1>4

\* What the steps of one emitter do to it.
LEMMA OneEmitter ==
    ASSUME IInv, NEW t \in Runtime, NEW e,
           emitter' = [emitter EXCEPT ![t] = e],
           \/ e.pc = "idle"
           \/ emitter[t].pc # "idle" /\ e.codes = emitter[t].codes /\ e.i \in emitter[t].i .. Codes
    PROVE  \A u \in Runtime : emitter'[u] = emitter[u] \/ GoesOnOrLeaves(u)
  BY DEF IInv, TypeOK, GoesOnOrLeaves

\* Only QREvent, RotateADVSecret and Rotate do more to an emitter or a channel.
LEMMA OthersKeepSecrets ==
    ASSUME IInv, SecretsKept, NEW t \in Runtime,
           \/ StartRuntime(t) \/ RuntimeStep(t) \/ StopRequested(t) \/ LoseSocket(t)
           \/ Scan(t) \/ PairSuccess(t) \/ PasskeyRequest(t) \/ CeremonyEnds
           \/ CheckRuntime(t) \/ CheckSocket(t) \/ ReachLimit(t) \/ Publish(t)
           \/ Tick(t) \/ StopSeen(t) \/ LastCheck(t) \/ ClearStored(t)
           \/ RecordReason(t) \/ SignalKill(t) \/ CodeExpires(t) \/ Deadline(t)
    PROVE  SecretsKept'
<1>1. /\ emitter \in [Runtime -> Emitter] /\ emitter[t] \in Emitter
      /\ Codes \in Nat
  BY QRAssumption DEF IInv, TypeOK
<1>2. emitter[t].i \in 1 .. Codes /\ emitter[t].i \in emitter[t].i .. Codes
  BY <1>1 DEF Emitter
<1>3. UNCHANGED <<secret, rotations, dropped>>
  BY DEF StartRuntime, RuntimeStep, Connect, TakeKill, EndRuntime, StopRequested, LoseSocket,
     Scan, PairSuccess, PasskeyRequest, CeremonyEnds, CheckRuntime, CheckSocket, ReachLimit,
     Publish, Tick, StopSeen, LastCheck, ClearStored, RecordReason, SignalKill, CodeExpires,
     Deadline, client
<1>4. ASSUME Leave(t)
      PROVE  \A u \in Runtime : emitter'[u] = emitter[u] \/ GoesOnOrLeaves(u)
  BY <1>4, OneEmitter DEF Leave, Idle
<1>5. ASSUME NEW pc, Goto(t, pc), emitter[t].pc # "idle"
      PROVE  \A u \in Runtime : emitter'[u] = emitter[u] \/ GoesOnOrLeaves(u)
  <2> DEFINE e == [emitter[t] EXCEPT !.pc = pc]
  <2>1. emitter' = [emitter EXCEPT ![t] = e]
    BY <1>1, <1>5 DEF Goto
  <2>2. e.codes = emitter[t].codes /\ e.i = emitter[t].i
    BY <1>1 DEF Emitter
  <2> HIDE DEF e
  <2> QED
    BY <1>2, <1>5, <2>1, <2>2, OneEmitter
<1>6. ASSUME NEW why, Teardown(t, why), emitter[t].pc # "idle"
      PROVE  \A u \in Runtime : emitter'[u] = emitter[u] \/ GoesOnOrLeaves(u)
  <2> DEFINE e == [emitter[t] EXCEPT !.pc = "clear", !.why = why]
  <2>1. emitter' = [emitter EXCEPT ![t] = e]
    BY <1>1, <1>6 DEF Teardown
  <2>2. e.codes = emitter[t].codes /\ e.i = emitter[t].i
    BY <1>1 DEF Emitter
  <2> HIDE DEF e
  <2> QED
    BY <1>2, <1>6, <2>1, <2>2, OneEmitter
<1>7. \A u \in Runtime : emitter'[u] = emitter[u] \/ GoesOnOrLeaves(u)
  <2>1. CASE UNCHANGED emitter
    BY <2>1
  <2>2. CASE CheckRuntime(t)
    BY <2>2, <1>4, <1>5 DEF CheckRuntime, At
  <2>3. CASE CheckSocket(t)
    BY <2>3, <1>5, <1>6 DEF CheckSocket, At
  <2>4. CASE ReachLimit(t)
    <3> DEFINE e == [emitter[t] EXCEPT !.pc = "clear", !.why = "max", !.count = @ + 1]
    <3>1. emitter' = [emitter EXCEPT ![t] = e]
      BY <1>1, <2>4 DEF ReachLimit
    <3>2. e.codes = emitter[t].codes /\ e.i = emitter[t].i /\ emitter[t].pc # "idle"
      BY <1>1, <2>4 DEF Emitter, ReachLimit, At
    <3> HIDE DEF e
    <3> QED
      BY <1>2, <3>1, <3>2, OneEmitter
  <2>5. CASE Publish(t)
    <3> DEFINE e == [emitter[t] EXCEPT !.pc = "wait", !.then = "wait", !.count = @ + 1,
                                       !.due = FALSE]
    <3>1. emitter' = [emitter EXCEPT ![t] = e]
      BY <1>1, <2>5 DEF Publish
    <3>2. e.codes = emitter[t].codes /\ e.i = emitter[t].i /\ emitter[t].pc # "idle"
      BY <1>1, <2>5 DEF Emitter, Publish, At
    <3> HIDE DEF e
    <3> QED
      BY <1>2, <3>1, <3>2, OneEmitter
  <2>6. CASE Tick(t) \/ StopSeen(t)
    BY <2>6, <1>4, <1>5 DEF Tick, StopSeen, At
  <2>7. CASE LastCheck(t)
    BY <2>7, <1>4, <1>6 DEF LastCheck, At
  <2>8. CASE ClearStored(t)
    BY <2>8, <1>5 DEF ClearStored, At
  <2>9. CASE RecordReason(t)
    BY <2>9, <1>5 DEF RecordReason, At
  <2>10. CASE SignalKill(t)
    BY <2>10, <1>4 DEF SignalKill
  <2>11. CASE CodeExpires(t)
    <3> DEFINE e == [emitter[t] EXCEPT !.due = ~At(t, "idle")]
    <3>1. emitter' = [emitter EXCEPT ![t] = e]
      BY <1>1, <2>11 DEF CodeExpires
    <3>2. e.codes = emitter[t].codes /\ e.i = emitter[t].i /\ e.pc = emitter[t].pc
      BY <1>1 DEF Emitter
    <3> HIDE DEF e
    <3> QED
      BY <1>2, <3>1, <3>2, OneEmitter
  <2>12. CASE Deadline(t)
    <3>1. CASE emitter[t].i < Codes
      <4> DEFINE e == [emitter[t] EXCEPT !.pc = "check", !.then = "publish",
                                         !.i = emitter[t].i + 1]
      <4>1. emitter' = [emitter EXCEPT ![t] = e]
        BY <1>1, <2>12, <3>1 DEF Deadline
      <4>2. e.codes = emitter[t].codes /\ e.i = emitter[t].i + 1 /\ emitter[t].pc # "idle"
        BY <1>1, <2>12 DEF Emitter, Deadline, At
      <4>3. e.i \in emitter[t].i .. Codes
        BY <1>1, <1>2, <3>1, <4>2
      <4> HIDE DEF e
      <4> QED
        BY <4>1, <4>2, <4>3, OneEmitter
    <3>2. CASE ~(emitter[t].i < Codes)
      <4> DEFINE e == [emitter[t] EXCEPT !.pc = "last"]
      <4>1. emitter' = [emitter EXCEPT ![t] = e]
        BY <1>1, <2>12, <3>2 DEF Deadline
      <4>2. e.codes = emitter[t].codes /\ e.i = emitter[t].i /\ emitter[t].pc # "idle"
        BY <1>1, <2>12 DEF Emitter, Deadline, At
      <4> HIDE DEF e
      <4> QED
        BY <1>2, <4>1, <4>2, OneEmitter
    <3> QED
      BY <3>1, <3>2
  <2> QED
    BY <2>1, <2>2, <2>3, <2>4, <2>5, <2>6, <2>7, <2>8, <2>9, <2>10, <2>11, <2>12
       DEF StartRuntime, RuntimeStep, Connect, TakeKill, EndRuntime, StopRequested, LoseSocket,
           Scan, PairSuccess, PasskeyRequest, CeremonyEnds
<1> QED
  BY <1>3, <1>7, SecretsStay

\* A new batch carries the secret of now, and nothing older.
LEMMA QREventKeepsSecrets ==
    ASSUME IInv, SecretsKept, NEW t \in Runtime, QREvent(t)
    PROVE  SecretsKept'
<1> SUFFICES ASSUME NEW u \in Runtime, u \notin dropped
             PROVE  Rising(u)' /\ Behind(u)'
  BY DEF SecretsKept, QREvent, client
<1>1. Rising(u) /\ Behind(u) /\ UNCHANGED <<secret, rotations>>
  BY DEF SecretsKept, QREvent, client
<1>2. Rising(u)'
  BY <1>1 DEF Rising
<1>3. /\ secret[u] \in Nat /\ Len(rotations[u]) \in Nat
      /\ emitter \in [Runtime -> Emitter] /\ Codes \in Nat
  BY QRAssumption DEF IInv, TypeOK, Secret
<1>4. CASE u # t
  <2>1. emitter'[u] = emitter[u]
    BY <1>3, <1>4 DEF QREvent
  <2> QED
    BY <1>1, <1>2, <2>1 DEF Behind
<1>5. CASE u = t
  <2>1. Idle.i = 1 /\ emitter'[u] = [Idle EXCEPT !.pc = "check", !.count = qrcodeCount[t],
                           !.codes = [n \in 1 .. Codes |-> secret[t]]]
    BY <1>3, <1>5 DEF QREvent, Idle
  <2>2. emitter'[u].i = 1 /\ emitter'[u].codes = [n \in 1 .. Codes |-> secret[u]]
    BY <1>5, <2>1 DEF Idle
  <2> QED
    BY <1>1, <1>2, <1>3, <2>2 DEF Behind
<1> QED
  BY <1>4, <1>5

\* What the channel of rotations holds, and what is left of it without its head.
LEMMA Elements ==
    ASSUME NEW q \in Seq(Secret)
    PROVE  /\ Len(q) \in Nat
           /\ \A k \in 1 .. Len(q) : q[k] \in Nat
           /\ q # <<>> => /\ Len(q) \in Nat \ {0}
                         /\ Head(q) = q[1] /\ q[1] \in Nat
                         /\ Len(Tail(q)) + 1 = Len(q) /\ Len(Tail(q)) \in Nat
                         /\ \A k \in 1 .. Len(Tail(q)) : Tail(q)[k] = q[k + 1]
<1>1. Len(q) \in Nat /\ \A k \in 1 .. Len(q) : q[k] \in Secret
  OBVIOUS
<1>2. \A k \in 1 .. Len(q) : q[k] \in Nat
  BY <1>1 DEF Secret
<1>3. ASSUME q # <<>>
      PROVE  /\ Len(q) \in Nat \ {0} /\ Head(q) = q[1]
             /\ Len(Tail(q)) + 1 = Len(q) /\ Len(Tail(q)) \in Nat
             /\ \A k \in 1 .. Len(Tail(q)) : Tail(q)[k] = q[k + 1]
  BY <1>3
<1>4. q # <<>> => q[1] \in Nat
  BY <1>2, <1>3
<1> QED
  BY <1>1, <1>2, <1>3, <1>4

\* A new secret goes to the end of the channel, or the channel drops it.
LEMMA RotationKeepsSecrets ==
    ASSUME IInv, SecretsKept, NEW t \in Runtime, RotateADVSecret(t)
    PROVE  SecretsKept'
<1> SUFFICES ASSUME NEW u \in Runtime, u \notin dropped'
             PROVE  Rising(u)' /\ Behind(u)'
  BY DEF SecretsKept
<1>1. u \notin dropped /\ Rising(u) /\ Behind(u) /\ UNCHANGED emitter
  BY DEF SecretsKept, RotateADVSecret
<1>2. /\ secret \in [Runtime -> Secret] /\ rotations \in [Runtime -> Seq(Secret)]
      /\ emitter[u] \in Emitter /\ Codes \in Nat
  BY QRAssumption DEF IInv, TypeOK
<1>3. CASE u # t
  <2>1. secret'[u] = secret[u] /\ rotations'[u] = rotations[u]
    BY <1>2, <1>3 DEF RotateADVSecret
  <2> QED
    BY <1>1, <2>1 DEF Rising, Behind
<1>4. CASE u = t
  <2>0. secret[u] \in Nat /\ rotations[u] \in Seq(Secret) /\ Secret \subseteq Nat
    BY <1>2 DEF Secret
  <2>1. secret'[u] = secret[u] + 1 /\ rotations'[u] = Append(rotations[u], secret[u] + 1)
    BY <1>2, <1>4 DEF RotateADVSecret
  <2>2. /\ Len(rotations[u]) \in Nat /\ Len(rotations'[u]) = Len(rotations[u]) + 1
        /\ rotations'[u][Len(rotations[u]) + 1] = secret[u] + 1
        /\ \A k \in 1 .. Len(rotations[u]) : rotations'[u][k] = rotations[u][k]
    BY <2>0, <2>1
  <2>3. Rising(u)'
    <3> SUFFICES ASSUME NEW k \in 1 .. Len(rotations'[u])
                 PROVE  rotations'[u][k] + Len(rotations'[u]) = secret'[u] + k
      BY DEF Rising
    <3>1. CASE k = Len(rotations[u]) + 1
      BY <2>0, <2>1, <2>2, <3>1
    <3>2. CASE k \in 1 .. Len(rotations[u])
      <4> DEFINE r == rotations[u][k]  l == Len(rotations[u])  s == secret[u]
      <4>1. r \in Nat /\ l \in Nat /\ s \in Nat /\ k \in Nat
        BY <2>0, <3>2, Elements
      <4>2. r + l = s + k
        BY <1>1, <3>2 DEF Rising
      <4>3. rotations'[u][k] = r /\ Len(rotations'[u]) = l + 1 /\ secret'[u] = s + 1
        BY <2>1, <2>2, <3>2
      <4> HIDE DEF r, l, s
      <4>4. r + (l + 1) = (s + 1) + k
        BY <4>1, <4>2
      <4> QED
        BY <4>3, <4>4
    <3> QED
      BY <2>2, <3>1, <3>2
  <2>4. Behind(u)'
    <3> SUFFICES ASSUME emitter[u].pc # "idle", NEW n \in emitter[u].i .. Codes
                 PROVE  /\ emitter[u].codes[n] <= secret'[u]
                        /\ secret'[u] <= emitter[u].codes[n] + Len(rotations'[u])
      BY <1>1 DEF Behind
    <3>1. n \in 1 .. Codes /\ emitter[u].codes \in [1 .. Codes -> Secret]
      BY <1>2 DEF Emitter
    <3>2. emitter[u].codes[n] \in Nat
      BY <2>0, <3>1
    <3>3. /\ emitter[u].codes[n] <= secret[u]
          /\ secret[u] <= emitter[u].codes[n] + Len(rotations[u])
      BY <1>1 DEF Behind
    <3> QED
      BY <2>0, <2>1, <2>2, <3>2, <3>3
  <2> QED
    BY <2>3, <2>4
<1> QED
  BY <1>3, <1>4

\* The rotation that is received meets every code it has to replace.
LEMMA RotateKeepsSecrets ==
    ASSUME IInv, SecretsKept, NEW t \in Runtime, Rotate(t)
    PROVE  SecretsKept'
<1> SUFFICES ASSUME NEW u \in Runtime, u \notin dropped
             PROVE  Rising(u)' /\ Behind(u)'
  BY DEF SecretsKept, Rotate
<1>1. Rising(u) /\ Behind(u) /\ UNCHANGED secret
  BY DEF SecretsKept, Rotate
<1>2. /\ secret \in [Runtime -> Secret] /\ rotations \in [Runtime -> Seq(Secret)]
      /\ emitter \in [Runtime -> Emitter] /\ emitter[u] \in Emitter /\ Codes \in Nat
  BY QRAssumption DEF IInv, TypeOK
<1>3. CASE u # t
  <2>1. emitter'[u] = emitter[u] /\ rotations'[u] = rotations[u]
    BY <1>2, <1>3 DEF Rotate
  <2> QED
    BY <1>1, <2>1 DEF Rising, Behind
<1>4. CASE u = t
  <2> DEFINE new == Head(rotations[u])
             len == Len(rotations[u])
  <2>0. /\ secret[u] \in Nat /\ rotations[u] \in Seq(Secret) /\ rotations[u] # <<>>
        /\ Secret \subseteq Nat /\ emitter[u].pc # "idle"
    BY <1>2, <1>4 DEF Secret, Rotate, At
  <2>1. len \in Nat \ {0} /\ new = rotations[u][1] /\ new \in Nat
    BY <2>0, Elements
  <2>2. new + len = secret[u] + 1
    BY <1>1, <2>1 DEF Rising
  <2>3. /\ rotations'[u] = Tail(rotations[u]) /\ Len(rotations'[u]) + 1 = len
        /\ Len(rotations'[u]) \in Nat
        /\ \A k \in 1 .. Len(rotations'[u]) : rotations'[u][k] = rotations[u][k + 1]
    <3>1. rotations'[u] = Tail(rotations[u])
      BY <1>2, <1>4 DEF Rotate
    <3> QED
      BY <2>0, <3>1, Elements
  <2>4. Rising(u)'
    <3> SUFFICES ASSUME NEW k \in 1 .. Len(rotations'[u])
                 PROVE  rotations'[u][k] + Len(rotations'[u]) = secret[u] + k
      BY <1>1 DEF Rising
    <3>1. k + 1 \in 1 .. len /\ rotations'[u][k] = rotations[u][k + 1]
      BY <2>1, <2>3
    <3> DEFINE r == rotations[u][k + 1]  l == Len(rotations'[u])  s == secret[u]
    <3>2. r \in Nat /\ l \in Nat /\ s \in Nat /\ k \in Nat
      BY <2>0, <2>3, <3>1, Elements
    <3>3. r + len = s + (k + 1) /\ l + 1 = len
      BY <1>1, <2>3, <3>1 DEF Rising
    <3>4. rotations'[u][k] = r
      BY <3>1
    <3> HIDE DEF len, r, l, s
    <3>5. r + l = s + k
      BY <3>2, <3>3
    <3> QED
      BY <3>4, <3>5 DEF l, s
  <2>5. emitter'[u].codes = Rotated(emitter[u].codes, emitter[u].i, new) /\ emitter'[u].i = emitter[u].i
    BY <1>2, <1>4 DEF Rotate, Emitter
  <2>6. Behind(u)'
    <3> SUFFICES ASSUME NEW n \in emitter[u].i .. Codes
                 PROVE  /\ emitter'[u].codes[n] <= secret[u]
                        /\ secret[u] <= emitter'[u].codes[n] + Len(rotations'[u])
      BY <1>1, <2>5 DEF Behind
    <3>1. /\ n \in 1 .. Codes /\ n >= emitter[u].i
          /\ emitter[u].codes \in [1 .. Codes -> Secret]
      BY <1>2 DEF Emitter
    <3> DEFINE c == emitter[u].codes[n]  l == Len(rotations'[u])  s == secret[u]
    <3>2. c \in Nat /\ s \in Nat /\ l \in Nat /\ l + 1 = len
      BY <2>0, <2>3, <3>1
    <3>3. c <= s /\ s <= c + len
      BY <1>1, <2>0 DEF Behind
    <3>4. emitter'[u].codes[n] = IF c = new - 1 THEN new ELSE c
      BY <2>5, <3>1 DEF Rotated
    <3>5. new \in Nat /\ new + len = s + 1 /\ len \in Nat \ {0}
      BY <2>1, <2>2
    <3> HIDE DEF new, len, c, l, s
    <3>6. CASE c = new - 1
      <4>1. new <= s /\ s <= new + l
        BY <3>2, <3>5
      <4> QED
        BY <3>4, <3>6, <4>1 DEF l, s
    <3>7. CASE c # new - 1
      <4>1. s <= c + l
        BY <3>2, <3>3, <3>5, <3>7
      <4> QED
        BY <3>3, <3>4, <3>7, <4>1 DEF l, s
    <3> QED
      BY <3>6, <3>7
  <2> QED
    BY <2>4, <2>6
<1> QED
  BY <1>3, <1>4

\* The secrets are kept by every step.
LEMMA SecretsInductive ==
    ASSUME IInv, SecretsKept, [Next]_vars
    PROVE  SecretsKept'
<1>1. ASSUME NEW t \in Runtime,
             \/ StartRuntime(t) \/ RuntimeStep(t) \/ StopRequested(t)
             \/ Event(t) \/ EmitterStep(t) \/ CodeExpires(t) \/ Deadline(t)
      PROVE  SecretsKept'
  BY <1>1, OthersKeepSecrets, QREventKeepsSecrets, RotationKeepsSecrets, RotateKeepsSecrets
     DEF Event, EmitterStep
<1>2. CASE CeremonyEnds
  <2>1. PICK t : t \in Runtime
    BY QRAssumption DEF Runtime
  <2> QED
    BY <1>2, <2>1, OthersKeepSecrets
<1>3. ASSUME NEW r \in Readers, GetQr(r) \/ StopWaited(r) \/ ServeQr(r)
      PROVE  SecretsKept'
  BY <1>3, SecretsStay DEF GetQr, StopWaited, ServeQr, client
<1>4. CASE UNCHANGED vars
  BY <1>4, SecretsStay DEF vars, client
<1> QED
  BY <1>1, <1>2, <1>3, <1>4 DEF Next

\* Whatever rotates while codes are shown or while no emitter runs, a code on the
\* screen carries the ADV secret the client has, once the rotations are read and
\* none was dropped (qr_emitter.go:75-79).
THEOREM SecretAlwaysCurrent == Spec => []ShownSecretIsCurrent
<1>1. IInv /\ SecretsKept => ShownSecretIsCurrent
  <2> SUFFICES ASSUME IInv, SecretsKept, NEW t \in Runtime,
                      At(t, "wait"), rotations[t] = <<>>, t \notin dropped
               PROVE  emitter[t].codes[emitter[t].i] = secret[t]
    BY DEF ShownSecretIsCurrent
  <2>1. emitter[t] \in Emitter /\ secret[t] \in Nat /\ Codes \in Nat
    BY QRAssumption DEF IInv, TypeOK, Secret
  <2>2. /\ emitter[t].i \in emitter[t].i .. Codes
        /\ emitter[t].codes[emitter[t].i] \in Nat
    BY <2>1 DEF Emitter, Secret
  <2>3. Len(rotations[t]) = 0 /\ Behind(t)
    BY DEF SecretsKept
  <2>4. /\ emitter[t].codes[emitter[t].i] <= secret[t]
        /\ secret[t] <= emitter[t].codes[emitter[t].i] + 0
    BY <2>2, <2>3 DEF Behind, At
  <2> QED
    BY <2>1, <2>2, <2>4
<1>2. IInv /\ SecretsKept /\ [Next]_vars => SecretsKept'
  BY SecretsInductive
<1> QED
  BY <1>1, <1>2, InitSecrets, Inductive, PTL DEF Spec

-----------------------------------------------------------------------------
(***************************************************************************)
(* What WindowCloses rests on besides fairness: an emitter does not just    *)
(* return, and the signal it leaves is not lost.                            *)
(***************************************************************************)
TeardownPlace == [clear |-> 1, record |-> 2, signal |-> 3]

InTeardown(t) == emitter[t].pc \in {"clear", "record", "signal"}

Reason(t) ==
    \/ phase[t] \in Stopped
    \/ t \in paired
    \/ ceremony = "active"
    \/ InTeardown(t) /\ t \in kill'

LeavesForAReason(t) == ~At(t, "idle") /\ emitter'[t].pc = "idle" => Reason(t)

TeardownGoesOn(t) ==
    InTeardown(t) /\ emitter'[t].pc # "idle" =>
        /\ InTeardown(t)'
        /\ TeardownPlace[emitter'[t].pc] >= TeardownPlace[emitter[t].pc]

SignalIsKept(t) == t \in kill => t \in kill' \/ phase'[t] = "stopping"

WindowClosesBy ==
    \A t \in Runtime : LeavesForAReason(t) /\ TeardownGoesOn(t) /\ SignalIsKept(t)

\* A step of the emitter of t that moves it as the window allows.
LEMMA EmitterMoves ==
    ASSUME TypeOK, NEW t \in Runtime, NEW e,
           emitter' = [emitter EXCEPT ![t] = e],
           \/ emitter[t].pc = "idle"
           \/ e.pc = emitter[t].pc
           \/ ~InTeardown(t) /\ e.pc # "idle"
           \/ InTeardown(t) /\ e.pc \in {"record", "signal"}
              /\ TeardownPlace[e.pc] >= TeardownPlace[emitter[t].pc]
           \/ e.pc = "idle" /\ Reason(t)
    PROVE  \A u \in Runtime : LeavesForAReason(u) /\ TeardownGoesOn(u)
<1> SUFFICES ASSUME NEW u \in Runtime
             PROVE  LeavesForAReason(u) /\ TeardownGoesOn(u)
  OBVIOUS
<1>1. emitter \in [Runtime -> Emitter]
  BY DEF TypeOK
<1>2. \A p \in {"clear", "record", "signal"} : TeardownPlace[p] \in Nat
  BY DEF TeardownPlace
<1>3. CASE u # t
  <2>1. emitter'[u] = emitter[u]
    BY <1>1, <1>3
  <2>2. LeavesForAReason(u)
    BY <2>1 DEF LeavesForAReason, At
  <2>3. InTeardown(u) => InTeardown(u)' /\ TeardownPlace[emitter[u].pc] \in Nat
    BY <1>2, <2>1 DEF InTeardown
  <2> QED
    BY <2>1, <2>2, <2>3 DEF TeardownGoesOn
<1>4. CASE u = t
  <2>1. emitter'[t] = e
    BY <1>1
  <2>2. LeavesForAReason(t)
    BY <2>1 DEF LeavesForAReason, At, InTeardown
  <2>3. TeardownGoesOn(t)
    BY <1>2, <2>1 DEF TeardownGoesOn, InTeardown
  <2> QED
    BY <1>4, <2>2, <2>3
<1> QED
  BY <1>3, <1>4

\* Every step of an emitter moves it as the window allows.
LEMMA EmitterStepMoves ==
    ASSUME TypeOK, NEW t \in Runtime,
           EmitterStep(t) \/ CodeExpires(t) \/ Deadline(t) \/ QREvent(t)
    PROVE  \A u \in Runtime : LeavesForAReason(u) /\ TeardownGoesOn(u)
<1>1. emitter[t] \in Emitter /\ emitter[t].then \in {"publish", "wait"}
  BY DEF TypeOK, Emitter
<1> DEFINE Good == \A u \in Runtime : LeavesForAReason(u) /\ TeardownGoesOn(u)
<1> SUFFICES Good
  OBVIOUS
<1> HIDE DEF Good
<1>2. ASSUME Leave(t), Reason(t)
      PROVE  Good
  <2>1. emitter' = [emitter EXCEPT ![t] = Idle] /\ Idle.pc = "idle"
    BY <1>2 DEF Leave, Idle
  <2> QED
    BY <1>2, <2>1, EmitterMoves DEF Good
<1>3. ASSUME NEW e, emitter' = [emitter EXCEPT ![t] = e], e.pc # "idle",
             \/ ~InTeardown(t) \/ e.pc = emitter[t].pc
             \/ At(t, "clear") /\ e.pc \in {"record", "signal"}
             \/ At(t, "record") /\ e.pc = "signal"
      PROVE  Good
  <2>1. CASE ~InTeardown(t) \/ e.pc = emitter[t].pc
    BY <1>3, <2>1, EmitterMoves DEF Good
  <2>2. CASE \/ At(t, "clear") /\ e.pc \in {"record", "signal"}
             \/ At(t, "record") /\ e.pc = "signal"
    <3>1. InTeardown(t) /\ e.pc \in {"record", "signal"}
      BY <2>2 DEF At, InTeardown
    <3>2. TeardownPlace[e.pc] >= TeardownPlace[emitter[t].pc]
      BY <2>2 DEF At, TeardownPlace
    <3> QED
      BY <1>3, <3>1, <3>2, EmitterMoves DEF Good
  <2> QED
    BY <1>3, <2>1, <2>2
<1>4. ASSUME NEW pc, Goto(t, pc), pc # "idle",
             \/ ~InTeardown(t)
             \/ At(t, "clear") /\ pc \in {"record", "signal"}
             \/ At(t, "record") /\ pc = "signal"
      PROVE  Good
  <2> DEFINE e == [emitter[t] EXCEPT !.pc = pc]
  <2>1. emitter' = [emitter EXCEPT ![t] = e] /\ e.pc = pc
    BY <1>1, <1>4 DEF Goto, Emitter, TypeOK
  <2> HIDE DEF e
  <2>2. CASE ~InTeardown(t)
    BY <1>3, <1>4, <2>1, <2>2
  <2>3. CASE At(t, "clear") /\ pc \in {"record", "signal"}
    BY <1>3, <1>4, <2>1, <2>3
  <2>4. CASE At(t, "record") /\ pc = "signal"
    BY <1>3, <1>4, <2>1, <2>4
  <2> QED
    BY <1>4, <2>2, <2>3, <2>4
<1>5. ASSUME NEW why, Teardown(t, why), ~InTeardown(t)
      PROVE  Good
  <2> DEFINE e == [emitter[t] EXCEPT !.pc = "clear", !.why = why]
  <2>1. emitter' = [emitter EXCEPT ![t] = e] /\ e.pc = "clear"
    BY <1>1, <1>5 DEF Teardown, Emitter, TypeOK
  <2> HIDE DEF e
  <2> QED
    BY <1>3, <1>5, <2>1
<1>6. CASE CheckRuntime(t)
  BY <1>2, <1>4, <1>6 DEF CheckRuntime, At, InTeardown, Reason
<1>7. CASE CheckSocket(t)
  BY <1>1, <1>4, <1>5, <1>7 DEF CheckSocket, At, InTeardown
<1>8. CASE ReachLimit(t)
  <2>1. PICK e : emitter' = [emitter EXCEPT ![t] = e] /\ e.pc = "clear"
    <3> DEFINE e == [emitter[t] EXCEPT !.pc = "clear", !.why = "max", !.count = @ + 1]
    <3>1. emitter' = [emitter EXCEPT ![t] = e] /\ e.pc = "clear"
      BY <1>1, <1>8 DEF ReachLimit, Emitter, TypeOK
    <3> HIDE DEF e
    <3> QED
      BY <3>1
  <2> QED
    BY <1>3, <1>8, <2>1 DEF ReachLimit, At, InTeardown
<1>9. CASE Publish(t)
  <2>1. PICK e : emitter' = [emitter EXCEPT ![t] = e] /\ e.pc = "wait"
    <3> DEFINE e == [emitter[t] EXCEPT !.pc = "wait", !.then = "wait", !.count = @ + 1,
                                       !.due = FALSE]
    <3>1. emitter' = [emitter EXCEPT ![t] = e] /\ e.pc = "wait"
      BY <1>1, <1>9 DEF Publish, Emitter, TypeOK
    <3> HIDE DEF e
    <3> QED
      BY <3>1
  <2> QED
    BY <1>3, <1>9, <2>1 DEF Publish, At, InTeardown
<1>10. CASE Rotate(t)
  <2>1. PICK c : emitter' = [emitter EXCEPT ![t].codes = c]
    BY <1>10 DEF Rotate
  <2> DEFINE e == [emitter[t] EXCEPT !.codes = c]
  <2>2. emitter' = [emitter EXCEPT ![t] = e] /\ e.pc = emitter[t].pc
    BY <1>1, <2>1 DEF Emitter, TypeOK
  <2> HIDE DEF e
  <2> QED
    BY <1>3, <1>10, <2>2 DEF Rotate, At
<1>11. CASE Tick(t)
  BY <1>4, <1>11 DEF Tick, At, InTeardown
<1>12. CASE StopSeen(t)
  BY <1>2, <1>12 DEF StopSeen, Reason
<1>13. CASE LastCheck(t)
  BY <1>2, <1>5, <1>13 DEF LastCheck, At, InTeardown, Reason
<1>14. CASE ClearStored(t)
  BY <1>4, <1>14 DEF ClearStored
<1>15. CASE RecordReason(t)
  BY <1>4, <1>15 DEF RecordReason
<1>16. CASE SignalKill(t)
  BY <1>2, <1>16 DEF SignalKill, At, InTeardown, Reason
<1>17. CASE CodeExpires(t)
  <2> DEFINE e == [emitter[t] EXCEPT !.due = ~At(t, "idle")]
  <2>1. emitter' = [emitter EXCEPT ![t] = e] /\ e.pc = emitter[t].pc
    BY <1>1, <1>17 DEF CodeExpires, Emitter, TypeOK
  <2> HIDE DEF e
  <2> QED
    BY <2>1, EmitterMoves DEF Good
<1>18. CASE Deadline(t)
  <2>1. PICK e : emitter' = [emitter EXCEPT ![t] = e] /\ e.pc \in {"check", "last"}
    <3>1. CASE emitter[t].i < Codes
      <4> DEFINE e == [emitter[t] EXCEPT !.pc = "check", !.then = "publish",
                                         !.i = emitter[t].i + 1]
      <4>1. emitter' = [emitter EXCEPT ![t] = e] /\ e.pc = "check"
        BY <1>1, <1>18, <3>1 DEF Deadline, Emitter
      <4> HIDE DEF e
      <4> QED
        BY <4>1
    <3>2. CASE ~(emitter[t].i < Codes)
      <4> DEFINE e == [emitter[t] EXCEPT !.pc = "last"]
      <4>1. emitter' = [emitter EXCEPT ![t] = e] /\ e.pc = "last"
        BY <1>1, <1>18, <3>2 DEF Deadline, Emitter
      <4> HIDE DEF e
      <4> QED
        BY <4>1
    <3> QED
      BY <3>1, <3>2
  <2> QED
    BY <1>3, <1>18, <2>1 DEF Deadline, At, InTeardown
<1>19. CASE QREvent(t)
  <2>1. PICK e : emitter' = [emitter EXCEPT ![t] = e]
    BY <1>19 DEF QREvent
  <2>2. emitter[t].pc = "idle"
    BY <1>19 DEF QREvent
  <2> QED
    BY <2>1, <2>2, EmitterMoves DEF Good
<1> QED
  BY <1>6, <1>7, <1>8, <1>9, <1>10, <1>11, <1>12, <1>13, <1>14, <1>15, <1>16, <1>17, <1>18,
     <1>19 DEF EmitterStep

\* An emitter returns only for a reason: its runtime is stopping, somebody
\* paired, a passkey took over, or it has put the signal that stops its runtime;
\* a teardown once begun is not given up; and that signal stays in the channel
\* until the runtime takes it (runQREmitter, teardownQR and the kill branch of
\* StartClient).
THEOREM WindowAlwaysCloses == Spec => [][WindowClosesBy]_vars
<1>1. TypeOK /\ [Next]_vars => [WindowClosesBy]_vars
  <2> SUFFICES ASSUME TypeOK, [Next]_vars PROVE WindowClosesBy \/ UNCHANGED vars
    OBVIOUS
  <2>1. \A u \in Runtime : SignalIsKept(u) \/ UNCHANGED vars
    <3> SUFFICES ASSUME NEW u \in Runtime, u \in kill, u \notin kill', ~UNCHANGED vars
                 PROVE  phase'[u] = "stopping"
      BY DEF SignalIsKept
    <3>1. PICK t \in Runtime : TakeKill(t)
      BY DEF Next, StartRuntime, RuntimeStep, Connect, EndRuntime, StopRequested, Event,
         QREvent, RotateADVSecret, Scan, PairSuccess, PasskeyRequest, LoseSocket, EmitterStep,
         CheckRuntime, CheckSocket, ReachLimit, Publish, Rotate, Tick, StopSeen, LastCheck,
         ClearStored, RecordReason, SignalKill, CodeExpires, Deadline, CeremonyEnds, GetQr,
         StopWaited, ServeQr, runtimes
    <3> QED
      BY <3>1 DEF TakeKill, Move, TypeOK
  <2>2. CASE \E t \in Runtime : EmitterStep(t) \/ CodeExpires(t) \/ Deadline(t) \/ QREvent(t)
    BY <2>1, <2>2, EmitterStepMoves DEF WindowClosesBy
  <2>3. CASE UNCHANGED emitter
    <3>1. \A t \in Runtime : InTeardown(t) => InTeardown(t)'
                                 /\ TeardownPlace[emitter[t].pc] \in Nat
      BY <2>3 DEF InTeardown, TeardownPlace
    <3> QED
      BY <2>1, <2>3, <3>1 DEF WindowClosesBy, LeavesForAReason, TeardownGoesOn, At
  <2> QED
    BY <2>2, <2>3 DEF Next, StartRuntime, RuntimeStep, Connect, TakeKill, EndRuntime,
       StopRequested, Event, RotateADVSecret, Scan, PairSuccess, PasskeyRequest, LoseSocket,
       CeremonyEnds, GetQr, StopWaited, ServeQr, vars
<1> QED
  BY <1>1, TypeCorrect, PTL DEF Spec
=============================================================================
