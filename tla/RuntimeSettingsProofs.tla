------------------------ MODULE RuntimeSettingsProofs ------------------------
(***************************************************************************)
(* The last setting that was written alone prevails in the row, in the     *)
(* runtime and in its presence, for any number of requests, runtimes,      *)
(* connections and pairings.                                               *)
(*                                                                         *)
(* SetPrevails speaks of the moments when nobody is at work.  What carries *)
(* it over the others: every copy on its way (the read of a handler, of a  *)
(* start, of the pairing, of a reconcile) holds the setting, and where the *)
(* runtime or the presence does not have it yet somebody brings it.        *)
(*                                                                         *)
(* The last section is about the goroutines of the presence: one for each  *)
(* generation, and stopped for good once its channel is closed.            *)
(***************************************************************************)
EXTENDS RuntimeSettings, TLAPS

\* Generations: what was handed out, and nothing else.
Generations ==
  /\ \A r \in Runs : stop[r] <= gen[r]
  /\ \A l \in loops : 1 <= l.gen /\ l.gen <= gen[l.run]
  /\ \A t \in Threads :
       thread[t].step = "announce" => 1 <= thread[t].gen /\ thread[t].gen <= gen[thread[t].run]

\* The goroutine that is not stopped, and the one that is about to be started,
\* have the setting that was applied.
LoopsApplied ==
  /\ \A l \in loops : ~Stopped(l) => l.online = applied[l.run]
  /\ \A t \in Threads :
       thread[t].step = "announce" /\ stop[thread[t].run] = thread[t].gen =>
         thread[t].online = applied[thread[t].run]

\* The setting v in every copy on its way.
CopiesHold(v) ==
  /\ online = v
  /\ pairing.on => pairing.online = v
  /\ boot.on => boot.online = v
  /\ \A t \in Threads :
       /\ thread[t].step \in {"read", "apply", "announce"} => thread[t].online = v
       /\ thread[t].step = "reconcile" => mem[thread[t].run] = v

\* A handler that will hand the row to the runtime; one that will reconcile.
Brings(t)     == thread[t].step \in {"written", "read"}
Reconciles(t) == thread[t].step \in {"reconcile", "apply"} /\ thread[t].run = run

RuntimeGets(v) == run # 0 => mem[run] = v \/ \E t \in Threads : Brings(t)

PresenceGets(v) ==
  run # 0 /\ loggedIn = run /\ stop[run] # 0 =>
    applied[run] = v \/ \E t \in Threads : Brings(t) \/ Reconciles(t)

Carried == exists => \A v \in asked : CopiesHold(v) /\ RuntimeGets(v) /\ PresenceGets(v)

\* A row that is gone stays so unless the pairing had read it.
Gone ==
  /\ gone = "alone" => ~exists /\ ~pairing.on
  /\ pairing.on /\ asked # {} => exists

RoomToStart == boot.on => runs < MaxRuns

-----------------------------------------------------------------------------
(***************************************************************************)
(* The types, part by part.                                                *)
(***************************************************************************)
RowTypeOK ==
  /\ exists \in BOOLEAN /\ online \in BOOLEAN /\ pairing \in ReadSet
  /\ account \in BOOLEAN /\ asked \in SUBSET BOOLEAN /\ gone \in {"no", "alone", "raced"}

CountTypeOK ==
  updates \in 0..MaxUpdates /\ connects \in 0..MaxConnects /\ pairings \in 0..MaxPairings

RunTypeOK ==
  /\ boot \in ReadSet
  /\ run \in 0..MaxRuns /\ runs \in 0..MaxRuns /\ run <= runs /\ ending \in BOOLEAN
  /\ (ending => run # 0) /\ (boot.on => run = 0)
  /\ loggedIn \in {0, run}

MemTypeOK == mem \in [Runs -> BOOLEAN]

PresenceTypeOK ==
  /\ applied \in [Runs -> BOOLEAN] /\ gen \in [Runs -> Nat] /\ stop \in [Runs -> Nat]
  /\ loops \subseteq LoopSet

ThreadTypeOK ==
  /\ thread \in [Threads -> ThreadSet]
  /\ \A t \in Threads : thread[t].step \notin {"idle", "written", "read"} => thread[t].run \in Runs

Types ==
  RowTypeOK /\ CountTypeOK /\ RunTypeOK /\ MemTypeOK /\ PresenceTypeOK /\ ThreadTypeOK

LEMMA TypeParts == TypeOK <=> Types
  BY DEF TypeOK, Types, RowTypeOK, CountTypeOK, RunTypeOK, MemTypeOK, PresenceTypeOK, ThreadTypeOK

IInv == Types /\ RoomToStart /\ Generations /\ LoopsApplied /\ Gone /\ Carried

\* Goroutine t becomes a, the others stay.
Becomes(t, a) == thread' = [thread EXCEPT ![t] = a]

LEMMA BecomesFacts ==
  ASSUME ThreadTypeOK, NEW t \in Threads, NEW a \in ThreadSet, Becomes(t, a),
         a.step \notin {"idle", "written", "read"} => a.run \in Runs
  PROVE  /\ ThreadTypeOK' /\ thread'[t] = a
         /\ \A u \in Threads : u # t => thread'[u] = thread[u]
  BY DEF ThreadTypeOK, Becomes

LEMMA IdleType == Idle \in ThreadSet /\ Idle.step = "idle"
  BY RuntimeSettingsAssumption DEF Idle, ThreadSet, Steps

LEMMA ReturnsFacts ==
  ASSUME ThreadTypeOK, NEW t \in Threads, Returns(t)
  PROVE  /\ ThreadTypeOK' /\ thread'[t].step = "idle"
         /\ \A u \in Threads : u # t => thread'[u] = thread[u]
  BY IdleType, BecomesFacts DEF Returns, Becomes

LEMMA EventsThread == Events \in Threads /\ Handlers \subseteq Threads /\ Events \notin Handlers
  BY RuntimeSettingsAssumption DEF Events, Handlers, Threads

\* Who is not at work brings nothing and carries nothing.
LEMMA QuietFacts ==
  ASSUME Quiet
  PROVE  (\A t \in Threads : thread[t].step = "idle") /\ ~pairing.on /\ ~boot.on
  BY DEF Quiet, Busy

-----------------------------------------------------------------------------
(***************************************************************************)
(* What a step that leaves them alone owes to the presence, and what one   *)
(* of a single goroutine owes to the setting.                              *)
(***************************************************************************)
LEMMA PresenceStays ==
  ASSUME IInv, UNCHANGED presence,
         \A t \in Threads : thread'[t].step = "announce" => thread'[t] = thread[t]
  PROVE  PresenceTypeOK' /\ Generations' /\ LoopsApplied'
<1>1. stop' = stop /\ gen' = gen /\ applied' = applied /\ loops' = loops
  BY DEF presence
<1>2. PresenceTypeOK /\ Generations /\ LoopsApplied
  BY DEF IInv, Types
<1>3. PresenceTypeOK'
  BY <1>1, <1>2 DEF PresenceTypeOK
<1>4. Generations'
  BY <1>1, <1>2 DEF Generations
<1>5. LoopsApplied'
  BY <1>1, <1>2 DEF LoopsApplied, Stopped
<1> QED
  BY <1>3, <1>4, <1>5

LEMMA RunStays ==
  ASSUME IInv, UNCHANGED <<runtime, loggedIn>>
  PROVE  RunTypeOK' /\ RoomToStart'
<1>1. UNCHANGED <<run, ending, runs, boot, loggedIn>>
  BY DEF runtime
<1>2. RunTypeOK /\ RoomToStart
  BY DEF IInv, Types
<1> QED
  BY <1>1, <1>2 DEF RunTypeOK, RoomToStart

LEMMA RowStays ==
  ASSUME IInv, UNCHANGED <<row, pairing, history>>, account' \in BOOLEAN
  PROVE  RowTypeOK' /\ Gone'
<1>1. UNCHANGED <<exists, online, pairing, asked, gone>>
  BY DEF row, history
<1>2. RowTypeOK /\ Gone
  BY DEF IInv, Types
<1> QED
  BY <1>1, <1>2 DEF RowTypeOK, Gone

LEMMA CountStays ==
  ASSUME IInv, UNCHANGED counts
  PROVE  CountTypeOK'
  BY DEF IInv, Types, CountTypeOK, counts

\* A step of goroutine t that leaves the row, the runtime and the session alone.
LEMMA ThreadMoves ==
  ASSUME IInv, NEW t \in Threads,
         UNCHANGED <<row, pairing, runtime, counts, loggedIn, history>>,
         ThreadTypeOK', MemTypeOK', PresenceTypeOK', Generations', LoopsApplied',
         \A u \in Threads : u # t => thread'[u] = thread[u], account' \in BOOLEAN,
         \A v \in asked : exists /\ CopiesHold(v) /\ RuntimeGets(v) /\ PresenceGets(v) =>
            /\ thread'[t].step \in {"read", "apply", "announce"} => thread'[t].online = v
            /\ \A u \in Threads : thread'[u].step = "reconcile" => mem'[thread'[u].run] = v
            /\ RuntimeGets(v)' /\ PresenceGets(v)'
  PROVE  IInv'
<1>1. RunTypeOK' /\ RoomToStart' /\ RowTypeOK' /\ Gone' /\ CountTypeOK'
  BY RunStays, RowStays, CountStays
<1>2. UNCHANGED <<exists, online, pairing, boot, asked>>
  BY DEF row, runtime, history
<1>3. ASSUME exists, NEW v \in asked, CopiesHold(v), RuntimeGets(v), PresenceGets(v)
      PROVE  CopiesHold(v)' /\ RuntimeGets(v)' /\ PresenceGets(v)'
  BY <1>2, <1>3 DEF CopiesHold
<1>4. Carried'
  BY <1>2, <1>3 DEF IInv, Carried
<1> QED
  BY <1>1, <1>4 DEF IInv, Types

-----------------------------------------------------------------------------
(***************************************************************************)
(* The steps of a handler, and of an event.                                *)
(***************************************************************************)
LEMMA StepReadRow ==
  ASSUME IInv, NEW t \in Threads, ReadRow(t)
  PROVE  IInv'
<1>0. /\ ThreadTypeOK /\ MemTypeOK /\ thread[t] \in ThreadSet
      /\ online \in BOOLEAN /\ account \in BOOLEAN
  BY DEF IInv, Types, ThreadTypeOK, RowTypeOK
<1>1. /\ UNCHANGED <<row, pairing, runtime, counts, loggedIn, history>>
      /\ UNCHANGED <<mem, presence, account>>
      /\ thread[t].step = "written"
  BY DEF ReadRow
<1>2. /\ ThreadTypeOK' /\ \A u \in Threads : u # t => thread'[u] = thread[u]
      /\ IF exists THEN thread'[t].step = "read" /\ thread'[t].online = online
                   ELSE thread'[t].step = "idle"
  <2>1. CASE exists
    <3> DEFINE a == [thread[t] EXCEPT !.step = "read", !.online = online]
    <3>1. a \in ThreadSet /\ a.step = "read" /\ a.online = online
      BY <1>0 DEF ThreadSet, Steps
    <3>2. Becomes(t, a)
      BY <1>0, <2>1 DEF ReadRow, Becomes
    <3> HIDE DEF a
    <3> QED
      BY <1>0, <2>1, <3>1, <3>2, BecomesFacts
  <2>2. CASE ~exists
    BY <1>0, <2>2, ReturnsFacts DEF ReadRow
  <2> QED
    BY <2>1, <2>2
<1>3. PresenceTypeOK' /\ Generations' /\ LoopsApplied'
  BY <1>1, <1>2, PresenceStays
<1>4. ASSUME NEW v \in asked, exists, CopiesHold(v), RuntimeGets(v), PresenceGets(v)
      PROVE  /\ thread'[t].step \in {"read", "apply", "announce"} => thread'[t].online = v
             /\ \A u \in Threads : thread'[u].step = "reconcile" => mem'[thread'[u].run] = v
             /\ RuntimeGets(v)' /\ PresenceGets(v)'
  <2>1. Brings(t)'
    BY <1>2, <1>4 DEF Brings
  <2> QED
    BY <1>1, <1>2, <1>4, <2>1 DEF CopiesHold, RuntimeGets, PresenceGets
<1> QED
  BY <1>0, <1>1, <1>2, <1>3, <1>4, ThreadMoves DEF MemTypeOK

LEMMA StepSetInstance ==
  ASSUME IInv, NEW t \in Threads, SetInstance(t)
  PROVE  IInv'
<1>0. /\ ThreadTypeOK /\ MemTypeOK /\ thread[t] \in ThreadSet /\ thread[t].online \in BOOLEAN
      /\ run \in 0..MaxRuns /\ account \in BOOLEAN
  BY DEF IInv, Types, ThreadTypeOK, RowTypeOK, RunTypeOK, ThreadSet
<1>1. /\ UNCHANGED <<row, pairing, runtime, counts, loggedIn, history>>
      /\ UNCHANGED <<presence, account>> /\ UNCHANGED run
      /\ thread[t].step = "read"
  BY DEF SetInstance, runtime
<1>2. CASE run = 0
  <2>1. /\ ThreadTypeOK' /\ thread'[t].step = "idle" /\ mem' = mem
        /\ \A u \in Threads : u # t => thread'[u] = thread[u]
    BY <1>0, <1>2, ReturnsFacts DEF SetInstance
  <2>2. PresenceTypeOK' /\ Generations' /\ LoopsApplied'
    BY <1>1, <2>1, PresenceStays
  <2>3. ASSUME NEW v \in asked, exists, CopiesHold(v), RuntimeGets(v), PresenceGets(v)
        PROVE  /\ \A u \in Threads : thread'[u].step = "reconcile" => mem'[thread'[u].run] = v
               /\ RuntimeGets(v)' /\ PresenceGets(v)'
    BY <1>1, <1>2, <2>1, <2>3 DEF CopiesHold, RuntimeGets, PresenceGets
  <2> QED
    BY <1>0, <1>1, <2>1, <2>2, <2>3, ThreadMoves DEF MemTypeOK
<1>3. CASE run # 0
  <2>1. run \in Runs
    BY <1>0, <1>3, RuntimeSettingsAssumption DEF Runs
  <2> DEFINE a == [Idle EXCEPT !.step = "reconcile", !.run = run]
  <2>2. a \in ThreadSet /\ a.step = "reconcile" /\ a.run = run
    BY <1>0, IdleType DEF ThreadSet, Steps
  <2>3. Becomes(t, a) /\ mem' = [mem EXCEPT ![run] = thread[t].online]
    BY <1>3 DEF SetInstance, Becomes
  <2> HIDE DEF a
  <2>4. /\ ThreadTypeOK' /\ thread'[t].step = "reconcile" /\ thread'[t].run = run
        /\ \A u \in Threads : u # t => thread'[u] = thread[u]
    BY <1>0, <2>1, <2>2, <2>3, BecomesFacts
  <2>5. MemTypeOK' /\ mem'[run] = thread[t].online
        /\ \A r \in Runs : r # run => mem'[r] = mem[r]
    BY <1>0, <2>1, <2>3 DEF MemTypeOK
  <2>6. PresenceTypeOK' /\ Generations' /\ LoopsApplied'
    BY <1>1, <2>4, PresenceStays
  <2>7. ASSUME NEW v \in asked, exists, CopiesHold(v), RuntimeGets(v), PresenceGets(v)
        PROVE  /\ \A u \in Threads : thread'[u].step = "reconcile" => mem'[thread'[u].run] = v
               /\ RuntimeGets(v)' /\ PresenceGets(v)'
    <3>1. mem'[run] = v
      BY <1>1, <2>5, <2>7 DEF CopiesHold
    <3>2. ASSUME NEW u \in Threads, thread'[u].step = "reconcile" PROVE mem'[thread'[u].run] = v
      <4>1. CASE u = t
        BY <2>4, <3>1, <4>1
      <4>2. CASE u # t
        <5>1. thread'[u] = thread[u] /\ thread[u].run \in Runs /\ mem[thread[u].run] = v
          BY <1>0, <2>4, <2>7, <3>2, <4>2 DEF CopiesHold, ThreadTypeOK
        <5> QED
          BY <2>5, <3>1, <5>1
      <4> QED
        BY <4>1, <4>2
    <3>3. Reconciles(t)'
      BY <1>1, <2>4 DEF Reconciles
    <3>4. RuntimeGets(v)' /\ PresenceGets(v)'
      BY <1>1, <3>1, <3>3 DEF RuntimeGets, PresenceGets
    <3> QED
      BY <3>2, <3>4
  <2> QED
    BY <1>0, <1>1, <2>4, <2>5, <2>6, <2>7, ThreadMoves
<1> QED
  BY <1>2, <1>3

LEMMA StepReadsSetting ==
  ASSUME IInv, NEW t \in Threads, ReadsSetting(t)
  PROVE  IInv'
<1>0. /\ ThreadTypeOK /\ MemTypeOK /\ thread[t] \in ThreadSet /\ account \in BOOLEAN
  BY DEF IInv, Types, ThreadTypeOK, RowTypeOK
<1>1. /\ UNCHANGED <<row, pairing, runtime, counts, loggedIn, history>>
      /\ UNCHANGED <<mem, presence, account>> /\ UNCHANGED <<run, stop, applied>>
      /\ thread[t].step = "reconcile"
  BY DEF ReadsSetting, runtime, presence
<1>a. thread[t].run \in Runs /\ mem[thread[t].run] \in BOOLEAN
  BY <1>0, <1>1 DEF ThreadTypeOK, MemTypeOK
<1>2. /\ ThreadTypeOK' /\ \A u \in Threads : u # t => thread'[u] = thread[u]
      /\ IF loggedIn = thread[t].run
         THEN /\ thread'[t].step = "apply" /\ thread'[t].run = thread[t].run
              /\ thread'[t].online = mem[thread[t].run]
         ELSE thread'[t].step = "idle"
  <2>1. CASE loggedIn = thread[t].run
    <3> DEFINE a == [thread[t] EXCEPT !.step = "apply", !.online = mem[thread[t].run]]
    <3>1. /\ a \in ThreadSet /\ a.step = "apply" /\ a.online = mem[thread[t].run]
          /\ a.run = thread[t].run
      BY <1>0, <1>a DEF ThreadSet, Steps
    <3>2. Becomes(t, a)
      BY <1>0, <2>1 DEF ReadsSetting, Becomes
    <3> HIDE DEF a
    <3> QED
      BY <1>0, <1>a, <2>1, <3>1, <3>2, BecomesFacts
  <2>2. CASE loggedIn # thread[t].run
    BY <1>0, <2>2, ReturnsFacts DEF ReadsSetting
  <2> QED
    BY <2>1, <2>2
<1>3. PresenceTypeOK' /\ Generations' /\ LoopsApplied'
  BY <1>1, <1>2, PresenceStays
<1>4. ASSUME NEW v \in asked, exists, CopiesHold(v), RuntimeGets(v), PresenceGets(v)
      PROVE  /\ thread'[t].step \in {"read", "apply", "announce"} => thread'[t].online = v
             /\ \A u \in Threads : thread'[u].step = "reconcile" => mem'[thread'[u].run] = v
             /\ RuntimeGets(v)' /\ PresenceGets(v)'
  <2>1. mem[thread[t].run] = v
    BY <1>1, <1>4 DEF CopiesHold
  <2>2. \A u \in Threads : thread'[u].step = "reconcile" => mem'[thread'[u].run] = v
    BY <1>1, <1>2, <1>4 DEF CopiesHold
  <2>3. \A u \in Threads : Brings(u) => Brings(u)'
    BY <1>1, <1>2 DEF Brings
  <2>4. RuntimeGets(v)'
    BY <1>1, <1>4, <2>3 DEF RuntimeGets
  <2>5. \A u \in Threads : Reconciles(u) => Reconciles(u)' \/ loggedIn # run
    BY <1>1, <1>2 DEF Reconciles
  <2>6. PresenceGets(v)'
    BY <1>1, <1>4, <2>3, <2>5 DEF PresenceGets
  <2> QED
    BY <1>2, <2>1, <2>2, <2>4, <2>6
<1> QED
  BY <1>0, <1>1, <1>2, <1>3, <1>4, ThreadMoves DEF MemTypeOK

LEMMA StepFindsApplied ==
  ASSUME IInv, NEW t \in Threads, FindsApplied(t)
  PROVE  IInv'
<1>0. ThreadTypeOK /\ MemTypeOK /\ account \in BOOLEAN
  BY DEF IInv, Types, RowTypeOK
<1>1. /\ UNCHANGED <<row, pairing, runtime, counts, loggedIn, history>>
      /\ UNCHANGED <<mem, presence, account>> /\ UNCHANGED <<run, stop, applied>>
      /\ thread[t].step = "apply" /\ applied[thread[t].run] = thread[t].online
  BY DEF FindsApplied, AlreadyApplied, runtime, presence
<1>2. /\ ThreadTypeOK' /\ \A u \in Threads : u # t => thread'[u] = thread[u]
      /\ thread'[t].step = "idle"
  BY <1>0, ReturnsFacts DEF FindsApplied
<1>3. PresenceTypeOK' /\ Generations' /\ LoopsApplied'
  BY <1>1, <1>2, PresenceStays
<1>4. ASSUME NEW v \in asked, exists, CopiesHold(v), RuntimeGets(v), PresenceGets(v)
      PROVE  /\ \A u \in Threads : thread'[u].step = "reconcile" => mem'[thread'[u].run] = v
             /\ RuntimeGets(v)' /\ PresenceGets(v)'
  <2>1. \A u \in Threads : thread'[u].step = "reconcile" => mem'[thread'[u].run] = v
    BY <1>1, <1>2, <1>4 DEF CopiesHold
  <2>2. \A u \in Threads : Brings(u) => Brings(u)'
    BY <1>1, <1>2 DEF Brings
  <2>3. \A u \in Threads : Reconciles(u) => Reconciles(u)' \/ applied[run] = v
    BY <1>1, <1>2, <1>4 DEF Reconciles, CopiesHold
  <2> QED
    BY <1>1, <1>4, <2>1, <2>2, <2>3 DEF RuntimeGets, PresenceGets
<1> QED
  BY <1>0, <1>1, <1>2, <1>3, <1>4, ThreadMoves DEF MemTypeOK

LEMMA StepApplies ==
  ASSUME IInv, NEW t \in Threads, Applies(t)
  PROVE  IInv'
<1> DEFINE r == thread[t].run
<1>0. /\ ThreadTypeOK /\ MemTypeOK /\ PresenceTypeOK /\ Generations /\ LoopsApplied
      /\ thread[t] \in ThreadSet /\ account \in BOOLEAN
  BY DEF IInv, Types, ThreadTypeOK, RowTypeOK
<1>1. /\ UNCHANGED <<row, pairing, runtime, counts, loggedIn, history>>
      /\ UNCHANGED <<mem, account>> /\ UNCHANGED run
      /\ thread[t].step = "apply" /\ r \in Runs
  BY <1>0 DEF Applies, runtime, ThreadTypeOK
<1>2. gen[r] \in Nat /\ thread[t].online \in BOOLEAN
  BY <1>0, <1>1 DEF PresenceTypeOK, ThreadSet
<1>3. /\ gen' = [gen EXCEPT ![r] = gen[r] + 1] /\ stop' = [stop EXCEPT ![r] = gen[r] + 1]
      /\ applied' = [applied EXCEPT ![r] = thread[t].online]
      /\ loops' = IF thread[t].online THEN loops \union {NewLoop(t)} ELSE loops
  BY <1>1 DEF Applies
<1>4. /\ ThreadTypeOK' /\ \A u \in Threads : u # t => thread'[u] = thread[u]
      /\ thread'[t].step = "announce" /\ thread'[t].run = r /\ thread'[t].gen = gen[r] + 1
      /\ thread'[t].online = thread[t].online
  <2>1. PICK n \in Nat : n = gen[r] + 1
    BY <1>2
  <2> DEFINE a == [thread[t] EXCEPT !.step = "announce", !.gen = n]
  <2>2. /\ a \in ThreadSet /\ a.step = "announce" /\ a.run = thread[t].run /\ a.gen = n
        /\ a.online = thread[t].online
    BY <1>0 DEF ThreadSet, Steps
  <2>3. Becomes(t, a)
    BY <1>0, <2>1 DEF Applies, Becomes
  <2> HIDE DEF a
  <2> QED
    BY <1>0, <1>1, <2>1, <2>2, <2>3, BecomesFacts
<1>5. /\ NewLoop(t) \in LoopSet /\ NewLoop(t).run = r /\ NewLoop(t).gen = gen[r] + 1
      /\ NewLoop(t).online = thread[t].online
  BY <1>1, <1>2 DEF NewLoop, LoopSet, LoopSteps
<1>6. PresenceTypeOK'
  BY <1>0, <1>1, <1>2, <1>3, <1>5 DEF PresenceTypeOK
<1>7. \A q \in Runs : /\ gen'[q] = (IF q = r THEN gen[r] + 1 ELSE gen[q])
                      /\ stop'[q] = (IF q = r THEN gen[r] + 1 ELSE stop[q])
                      /\ applied'[q] = (IF q = r THEN thread[t].online ELSE applied[q])
                      /\ gen[q] \in Nat /\ stop[q] \in Nat
  BY <1>0, <1>1, <1>3 DEF PresenceTypeOK
<1>8. \A l \in loops : l.run \in Runs /\ l.gen \in Nat
  BY <1>0 DEF PresenceTypeOK, LoopSet
<1>9. \A u \in Threads : thread[u].step = "announce" => thread[u].run \in Runs /\ thread[u].gen \in Nat
  BY <1>0 DEF ThreadTypeOK, ThreadSet
<1> HIDE DEF r
<1>10. Generations'
  <2>1. \A q \in Runs : stop'[q] <= gen'[q]
    BY <1>0, <1>7 DEF Generations
  <2>2. \A l \in loops' : 1 <= l.gen /\ l.gen <= gen'[l.run]
    <3> SUFFICES ASSUME NEW l \in loops' PROVE 1 <= l.gen /\ l.gen <= gen'[l.run]
      OBVIOUS
    <3>1. CASE l \in loops
      BY <1>0, <1>7, <1>8, <3>1 DEF Generations
    <3>2. CASE l = NewLoop(t)
      BY <1>1, <1>2, <1>5, <1>7, <3>2
    <3> QED
      BY <1>3, <3>1, <3>2
  <2>3. \A u \in Threads : thread'[u].step = "announce" =>
            1 <= thread'[u].gen /\ thread'[u].gen <= gen'[thread'[u].run]
    <3> SUFFICES ASSUME NEW u \in Threads, thread'[u].step = "announce"
                 PROVE  1 <= thread'[u].gen /\ thread'[u].gen <= gen'[thread'[u].run]
      OBVIOUS
    <3>1. CASE u = t
      BY <1>1, <1>2, <1>4, <1>7, <3>1
    <3>2. CASE u # t
      <4>1. thread'[u] = thread[u] /\ thread[u].step = "announce"
        BY <1>4, <3>2
      <4> QED
        BY <1>0, <1>7, <1>9, <4>1 DEF Generations
    <3> QED
      BY <3>1, <3>2
  <2> QED
    BY <2>1, <2>2, <2>3 DEF Generations
<1>11. LoopsApplied'
  <2>1. ASSUME NEW l \in loops', stop'[l.run] = l.gen PROVE l.online = applied'[l.run]
    <3>1. CASE l \in loops
      <4>1. l.run # r
        BY <1>0, <1>2, <1>7, <1>8, <2>1, <3>1 DEF Generations
      <4> QED
        BY <1>0, <1>7, <1>8, <2>1, <3>1, <4>1 DEF LoopsApplied, Stopped
    <3>2. CASE l = NewLoop(t)
      BY <1>1, <1>5, <1>7, <3>2
    <3> QED
      BY <1>3, <3>1, <3>2
  <2>2. ASSUME NEW u \in Threads, thread'[u].step = "announce",
               stop'[thread'[u].run] = thread'[u].gen
        PROVE  thread'[u].online = applied'[thread'[u].run]
    <3>1. CASE u = t
      BY <1>1, <1>4, <1>7, <3>1
    <3>2. CASE u # t
      <4>1. thread'[u] = thread[u] /\ thread[u].step = "announce"
        BY <1>4, <2>2, <3>2
      <4>2. thread[u].run # r
        BY <1>0, <1>2, <1>7, <1>9, <2>2, <4>1 DEF Generations
      <4> QED
        BY <1>0, <1>7, <1>9, <2>2, <4>1, <4>2 DEF LoopsApplied
    <3> QED
      BY <3>1, <3>2
  <2> QED
    BY <2>1, <2>2 DEF LoopsApplied, Stopped
<1>12. ASSUME NEW v \in asked, exists, CopiesHold(v), RuntimeGets(v), PresenceGets(v)
       PROVE  /\ thread'[t].step \in {"read", "apply", "announce"} => thread'[t].online = v
              /\ \A u \in Threads : thread'[u].step = "reconcile" => mem'[thread'[u].run] = v
              /\ RuntimeGets(v)' /\ PresenceGets(v)'
  <2>1. thread[t].online = v
    BY <1>1, <1>12 DEF CopiesHold
  <2>2. \A u \in Threads : thread'[u].step = "reconcile" => mem'[thread'[u].run] = v
    BY <1>1, <1>4, <1>12 DEF CopiesHold
  <2>3. \A u \in Threads : Brings(u) => Brings(u)'
    BY <1>1, <1>4 DEF Brings
  <2>4. RuntimeGets(v)'
    BY <1>1, <1>12, <2>3 DEF RuntimeGets
  <2>5. PresenceGets(v)'
    <3>1. CASE run = r
      <4>1. applied'[run] = v
        BY <1>1, <1>7, <2>1, <3>1
      <4> QED
        BY <1>1, <4>1 DEF PresenceGets
    <3>2. CASE run # r
      <4>1. \A u \in Threads : Reconciles(u) => Reconciles(u)'
        BY <1>1, <1>4, <3>2 DEF Reconciles, r
      <4>2. stop'[run] = stop[run] /\ applied'[run] = applied[run]
        BY <1>0, <1>1, <1>3, <3>2 DEF PresenceTypeOK
      <4> QED
        BY <1>1, <1>12, <2>3, <4>1, <4>2 DEF PresenceGets
    <3> QED
      BY <3>1, <3>2
  <2> QED
    BY <1>4, <2>1, <2>2, <2>4, <2>5
<1> QED
  BY <1>0, <1>1, <1>4, <1>6, <1>10, <1>11, <1>12, ThreadMoves DEF MemTypeOK

LEMMA StepAnnounces ==
  ASSUME IInv, NEW t \in Threads, Announces(t)
  PROVE  IInv'
<1> DEFINE new == [run |-> thread[t].run, gen |-> thread[t].gen, online |-> FALSE, step |-> "waiting"]
<1>0. /\ ThreadTypeOK /\ MemTypeOK /\ PresenceTypeOK /\ Generations /\ LoopsApplied
      /\ thread[t] \in ThreadSet /\ account \in BOOLEAN
  BY DEF IInv, Types, ThreadTypeOK, RowTypeOK
<1>1. /\ UNCHANGED <<row, pairing, runtime, counts, loggedIn, history>>
      /\ UNCHANGED mem /\ UNCHANGED <<run, stop, applied, gen>>
      /\ thread[t].step = "announce" /\ thread[t].run \in Runs
      /\ thread[t].online \in BOOLEAN /\ thread[t].gen \in Nat
  BY <1>0 DEF Announces, runtime, ThreadTypeOK, ThreadSet
<1>a. account' \in BOOLEAN
  BY <1>0, <1>1 DEF Announces, Shows
<1>2. /\ ThreadTypeOK' /\ \A u \in Threads : u # t => thread'[u] = thread[u]
      /\ thread'[t].step = "idle"
  BY <1>0, ReturnsFacts DEF Announces
<1>3. loops' = IF thread[t].online THEN loops ELSE loops \union {new}
  BY DEF Announces
<1>4. /\ new \in LoopSet /\ new.run = thread[t].run /\ new.gen = thread[t].gen
      /\ new.online = FALSE
  BY <1>1 DEF LoopSet, LoopSteps
<1> HIDE DEF new
<1>5. PresenceTypeOK'
  BY <1>0, <1>1, <1>3, <1>4 DEF PresenceTypeOK
<1>6. Generations'
  BY <1>0, <1>1, <1>2, <1>3, <1>4 DEF Generations
<1>7. LoopsApplied'
  BY <1>0, <1>1, <1>2, <1>3, <1>4 DEF LoopsApplied, Stopped
<1>8. ASSUME NEW v \in asked, exists, CopiesHold(v), RuntimeGets(v), PresenceGets(v)
      PROVE  /\ \A u \in Threads : thread'[u].step = "reconcile" => mem'[thread'[u].run] = v
             /\ RuntimeGets(v)' /\ PresenceGets(v)'
  <2>1. \A u \in Threads : (Brings(u) => Brings(u)') /\ (Reconciles(u) => Reconciles(u)')
    BY <1>1, <1>2 DEF Brings, Reconciles
  <2> QED
    BY <1>1, <1>2, <1>8, <2>1 DEF CopiesHold, RuntimeGets, PresenceGets
<1> QED
  BY <1>0, <1>1, <1>a, <1>2, <1>5, <1>6, <1>7, <1>8, ThreadMoves DEF MemTypeOK

\* An event that tells the account it is offline.
LEMMA StepOffline ==
  ASSUME IInv, AppStateSyncComplete \/ GoesOffline
  PROVE  IInv'
<1>0. /\ ThreadTypeOK /\ MemTypeOK /\ Events \in Threads /\ thread[Events] \in ThreadSet
      /\ account \in BOOLEAN /\ run \in 0..MaxRuns
  BY EventsThread DEF IInv, Types, ThreadTypeOK, RowTypeOK, RunTypeOK
<1>1. /\ UNCHANGED <<row, pairing, runtime, counts, loggedIn, history>>
      /\ UNCHANGED <<mem, presence>> /\ UNCHANGED <<run, stop, applied>>
      /\ thread[Events].step \in {"idle", "goes offline"}
  BY DEF AppStateSyncComplete, GoesOffline, runtime, presence
<1>2. account' \in BOOLEAN
  BY <1>0 DEF AppStateSyncComplete, GoesOffline, Shows
<1>3. /\ ThreadTypeOK' /\ \A u \in Threads : u # Events => thread'[u] = thread[u]
      /\ thread'[Events].step \in {"idle", "goes offline"}
  <2>1. CASE AppStateSyncComplete
    <3> DEFINE a == [thread[Events] EXCEPT !.step = "goes offline", !.run = run]
    <3>1. a \in ThreadSet /\ a.step = "goes offline" /\ a.run = run
      BY <1>0 DEF ThreadSet, Steps
    <3>2. Becomes(Events, a)
      BY <1>0, <2>1 DEF AppStateSyncComplete, Becomes
    <3>3. run \in Runs
      <4>1. run # 0
        BY <2>1 DEF AppStateSyncComplete
      <4> QED
        BY <1>0, <4>1, RuntimeSettingsAssumption DEF Runs
    <3> HIDE DEF a
    <3> QED
      BY <1>0, <3>1, <3>2, <3>3, BecomesFacts
  <2>2. CASE GoesOffline
    BY <1>0, <2>2, ReturnsFacts DEF GoesOffline
  <2> QED
    BY <2>1, <2>2
<1>4. PresenceTypeOK' /\ Generations' /\ LoopsApplied'
  BY <1>1, <1>3, PresenceStays
<1>5. ASSUME NEW v \in asked, exists, CopiesHold(v), RuntimeGets(v), PresenceGets(v)
      PROVE  /\ \A u \in Threads : thread'[u].step = "reconcile" => mem'[thread'[u].run] = v
             /\ RuntimeGets(v)' /\ PresenceGets(v)'
  <2>1. \A u \in Threads : (Brings(u) => Brings(u)') /\ (Reconciles(u) => Reconciles(u)')
    BY <1>1, <1>3 DEF Brings, Reconciles
  <2> QED
    BY <1>1, <1>3, <1>5, <2>1 DEF CopiesHold, RuntimeGets, PresenceGets
<1> QED
  BY <1>0, <1>1, <1>2, <1>3, <1>4, <1>5, ThreadMoves DEF MemTypeOK

-----------------------------------------------------------------------------
(***************************************************************************)
(* Requests, and what else writes the row.                                 *)
(***************************************************************************)
LEMMA StartsFacts ==
  ASSUME IInv, NEW t \in Threads, Goes(t, "written")
  PROVE  /\ ThreadTypeOK' /\ \A u \in Threads : u # t => thread'[u] = thread[u]
         /\ thread'[t].step = "written"
<1>0. ThreadTypeOK /\ thread[t] \in ThreadSet
  BY DEF IInv, Types, ThreadTypeOK
<1> DEFINE a == [thread[t] EXCEPT !.step = "written"]
<1>1. a \in ThreadSet /\ a.step = "written"
  BY <1>0 DEF ThreadSet, Steps
<1>2. Becomes(t, a)
  BY <1>0 DEF Goes, Becomes
<1> HIDE DEF a
<1> QED
  BY <1>0, <1>1, <1>2, BecomesFacts

LEMMA StepUpdates ==
  ASSUME IInv, NEW t \in Handlers, UpdateAdvancedSettings(t) \/ UpdateOtherSettings(t)
  PROVE  IInv'
<1>0. /\ t \in Threads /\ RowTypeOK /\ CountTypeOK /\ MemTypeOK /\ Gone /\ RuntimeSettingsAssumption
      /\ Goes(t, "written")
  BY EventsThread, RuntimeSettingsAssumption
     DEF IInv, Types, UpdateAdvancedSettings, UpdateOtherSettings
<1>1. /\ UNCHANGED <<exists, pairing, runtime, loggedIn, mem, presence, account, gone>>
      /\ UNCHANGED <<run, boot, stop, applied, connects, pairings>> /\ updates' = t
  BY DEF UpdateAdvancedSettings, UpdateOtherSettings, runtime, presence, row, history
<1>2. /\ ThreadTypeOK' /\ \A u \in Threads : u # t => thread'[u] = thread[u]
      /\ thread'[t].step = "written" /\ Brings(t)'
  BY <1>0, StartsFacts DEF Brings
<1>3. PresenceTypeOK' /\ Generations' /\ LoopsApplied' /\ RunTypeOK' /\ RoomToStart'
  BY <1>1, <1>2, PresenceStays, RunStays
<1>4. CountTypeOK' /\ MemTypeOK'
  BY <1>0, <1>1 DEF CountTypeOK, MemTypeOK, Handlers
<1>5. CASE UpdateOtherSettings(t)
  <2>1. UNCHANGED <<online, asked>>
    BY <1>5 DEF UpdateOtherSettings, row, history
  <2>2. RowTypeOK' /\ Gone'
    BY <1>0, <1>1, <2>1 DEF RowTypeOK, Gone
  <2>3. ASSUME NEW v \in asked, exists, CopiesHold(v)
        PROVE  CopiesHold(v)' /\ RuntimeGets(v)' /\ PresenceGets(v)'
    <3>1. CopiesHold(v)'
      BY <1>1, <1>2, <2>1, <2>3 DEF CopiesHold
    <3> QED
      BY <1>0, <1>2, <3>1 DEF RuntimeGets, PresenceGets
  <2>4. Carried'
    BY <1>1, <2>1, <2>3 DEF IInv, Carried
  <2> QED
    BY <1>2, <1>3, <1>4, <2>2, <2>4 DEF IInv, Types
<1>6. CASE UpdateAdvancedSettings(t)
  <2>1. PICK value \in BOOLEAN : /\ online' = IF exists THEN value ELSE online
                                 /\ asked' = IF Quiet THEN {value} ELSE {}
    BY <1>6 DEF UpdateAdvancedSettings
  <2>2. RowTypeOK'
    BY <1>0, <1>1, <2>1 DEF RowTypeOK
  <2>3. Gone'
    BY <1>0, <1>1, <2>1, QuietFacts DEF Gone
  <2>4. ASSUME NEW v \in asked', exists
        PROVE  CopiesHold(v)' /\ RuntimeGets(v)' /\ PresenceGets(v)'
    <3>1. Quiet /\ online' = v
      BY <2>1, <2>4
    <3>2. CopiesHold(v)'
      BY <1>1, <1>2, <3>1, QuietFacts DEF CopiesHold
    <3> QED
      BY <1>0, <1>2, <3>2 DEF RuntimeGets, PresenceGets
  <2>5. Carried'
    BY <1>1, <2>4 DEF Carried
  <2> QED
    BY <1>2, <1>3, <1>4, <2>2, <2>3, <2>5 DEF IInv, Types
<1> QED
  BY <1>5, <1>6

LEMMA StepRow ==
  ASSUME IInv, PairSuccessReads \/ PairSuccessSaves \/ Delete
  PROVE  IInv'
<1>0. RowTypeOK /\ CountTypeOK /\ MemTypeOK /\ ThreadTypeOK /\ Gone /\ Carried
  BY DEF IInv, Types
<1>1. /\ UNCHANGED <<runtime, loggedIn, mem, presence, thread, account>>
      /\ UNCHANGED <<run, boot, stop, applied, updates, connects>>
  BY DEF PairSuccessReads, PairSuccessSaves, Delete, runtime, presence, counts
<1>2. PresenceTypeOK' /\ Generations' /\ LoopsApplied' /\ RunTypeOK' /\ RoomToStart'
  BY <1>1, PresenceStays, RunStays
<1>3. ThreadTypeOK' /\ MemTypeOK'
  BY <1>0, <1>1 DEF ThreadTypeOK, MemTypeOK
<1>4. CountTypeOK'
  BY <1>0, <1>1, RuntimeSettingsAssumption
     DEF CountTypeOK, PairSuccessReads, PairSuccessSaves, Delete, counts
<1>5. ASSUME online' = online, NEW v \in asked, exists, CopiesHold(v), RuntimeGets(v), PresenceGets(v),
             pairing'.on => pairing'.online = v
      PROVE  CopiesHold(v)' /\ RuntimeGets(v)' /\ PresenceGets(v)'
  BY <1>1, <1>5 DEF CopiesHold, RuntimeGets, PresenceGets, Brings, Reconciles
<1>6. CASE PairSuccessReads
  <2>1. /\ exists /\ ~pairing.on /\ pairing' = [on |-> TRUE, online |-> online]
        /\ UNCHANGED <<exists, online, asked, gone>>
    BY <1>6 DEF PairSuccessReads, row, history
  <2>2. RowTypeOK'
    BY <1>0, <1>1, <2>1 DEF RowTypeOK, ReadSet
  <2>3. Gone'
    BY <1>0, <2>1 DEF Gone
  <2>4. Carried'
    BY <1>0, <1>5, <2>1 DEF Carried, CopiesHold
  <2> QED
    BY <1>2, <1>3, <1>4, <2>2, <2>3, <2>4 DEF IInv, Types
<1>7. CASE PairSuccessSaves
  <2>1. /\ pairing.on /\ pairing' = Nothing /\ exists' = TRUE /\ online' = pairing.online
        /\ UNCHANGED <<asked, gone>>
    BY <1>7 DEF PairSuccessSaves, history
  <2>2. RowTypeOK' /\ ~pairing'.on
    BY <1>0, <1>1, <2>1 DEF RowTypeOK, ReadSet, Nothing
  <2>3. Gone'
    BY <1>0, <2>1, <2>2 DEF Gone
  <2>4. ASSUME NEW v \in asked PROVE CopiesHold(v)' /\ RuntimeGets(v)' /\ PresenceGets(v)'
    <3>1. exists
      BY <1>0, <2>1, <2>4 DEF Gone
    <3>2. CopiesHold(v) /\ RuntimeGets(v) /\ PresenceGets(v)
      BY <1>0, <2>4, <3>1 DEF Carried
    <3>3. online' = online
      BY <2>1, <3>2 DEF CopiesHold
    <3> QED
      BY <1>5, <2>2, <2>4, <3>1, <3>2, <3>3
  <2>5. Carried'
    BY <2>1, <2>4 DEF Carried
  <2> QED
    BY <1>2, <1>3, <1>4, <2>2, <2>3, <2>5 DEF IInv, Types
<1>8. CASE Delete
  <2>1. /\ exists' = FALSE /\ gone' = (IF pairing.on THEN "raced" ELSE "alone")
        /\ asked' = (IF pairing.on THEN {} ELSE asked) /\ UNCHANGED <<online, pairing>>
    BY <1>8 DEF Delete
  <2>2. RowTypeOK'
    BY <1>0, <1>1, <2>1 DEF RowTypeOK
  <2>3. Gone' /\ Carried'
    BY <2>1 DEF Gone, Carried
  <2> QED
    BY <1>2, <1>3, <1>4, <2>2, <2>3 DEF IInv, Types
<1> QED
  BY <1>6, <1>7, <1>8

-----------------------------------------------------------------------------
(***************************************************************************)
(* The runtime.                                                            *)
(***************************************************************************)
LEMMA StepStarts ==
  ASSUME IInv, StartInstance \/ InstallMyClient
  PROVE  IInv'
<1>0. /\ RowTypeOK /\ CountTypeOK /\ MemTypeOK /\ ThreadTypeOK /\ RunTypeOK /\ Carried /\ RoomToStart
      /\ MaxRuns \in Nat
  BY RuntimeSettingsAssumption DEF IInv, Types
<1>1. /\ UNCHANGED <<row, pairing, counts, loggedIn, presence, thread, account, history>>
      /\ UNCHANGED <<exists, online, asked, stop, applied, ending>>
  BY DEF StartInstance, InstallMyClient, row, history, presence
<1>2. /\ PresenceTypeOK' /\ Generations' /\ LoopsApplied' /\ RowTypeOK' /\ Gone' /\ CountTypeOK'
      /\ ThreadTypeOK'
  BY <1>0, <1>1, PresenceStays, RowStays, CountStays DEF RowTypeOK, ThreadTypeOK
<1>3. CASE StartInstance
  <2>1. /\ run = 0 /\ runs < MaxRuns /\ boot' = [on |-> TRUE, online |-> online]
        /\ UNCHANGED <<run, runs, mem>>
    BY <1>3 DEF StartInstance
  <2>2. RunTypeOK' /\ RoomToStart' /\ MemTypeOK'
    BY <1>0, <1>1, <2>1 DEF RunTypeOK, RowTypeOK, ReadSet, RoomToStart, MemTypeOK
  <2>3. ASSUME NEW v \in asked, exists, CopiesHold(v), RuntimeGets(v), PresenceGets(v)
        PROVE  CopiesHold(v)' /\ RuntimeGets(v)' /\ PresenceGets(v)'
    BY <1>1, <2>1, <2>3 DEF CopiesHold, RuntimeGets, PresenceGets
  <2>4. Carried'
    BY <1>0, <1>1, <2>3 DEF Carried
  <2> QED
    BY <1>2, <2>2, <2>4 DEF IInv, Types
<1>4. CASE InstallMyClient
  <2>1. /\ boot.on /\ boot' = Nothing /\ runs' = runs + 1 /\ run' = runs + 1
        /\ mem' = [mem EXCEPT ![runs + 1] = boot.online]
    BY <1>4 DEF InstallMyClient
  <2>2. runs + 1 \in Runs /\ run' # 0 /\ run = 0 /\ boot.online \in BOOLEAN
    BY <1>0, <2>1 DEF RunTypeOK, RoomToStart, Runs, ReadSet
  <2>3. ~boot'.on /\ boot' \in ReadSet
    BY <2>1 DEF Nothing, ReadSet
  <2>4. RunTypeOK' /\ RoomToStart'
    <3>1. loggedIn' = 0 /\ run' \in 0..MaxRuns /\ runs' \in 0..MaxRuns /\ run' <= runs'
      BY <1>0, <1>1, <2>1, <2>2 DEF RunTypeOK, Runs
    <3>2. ending' \in BOOLEAN /\ (ending' => run' # 0)
      BY <1>0, <1>1, <2>2 DEF RunTypeOK
    <3> QED
      BY <2>3, <3>1, <3>2 DEF RunTypeOK, RoomToStart
  <2>5. /\ MemTypeOK' /\ mem'[run'] = boot.online
        /\ \A r \in Runs : r # run' => mem'[r] = mem[r]
    BY <1>0, <2>1, <2>2 DEF MemTypeOK
  <2>6. ASSUME NEW v \in asked, exists, CopiesHold(v), RuntimeGets(v), PresenceGets(v)
        PROVE  CopiesHold(v)' /\ RuntimeGets(v)' /\ PresenceGets(v)'
    <3>1. boot.online = v
      BY <2>1, <2>6 DEF CopiesHold
    <3>2. \A u \in Threads : thread[u].step = "reconcile" => mem'[thread[u].run] = v
      BY <1>0, <2>5, <2>6, <3>1 DEF CopiesHold, ThreadTypeOK
    <3>3. CopiesHold(v)'
      BY <1>1, <2>3, <2>6, <3>2 DEF CopiesHold
    <3>4. RuntimeGets(v)'
      BY <2>5, <3>1 DEF RuntimeGets
    <3>5. PresenceGets(v)'
      BY <1>0, <1>1, <2>2 DEF PresenceGets, RunTypeOK
    <3> QED
      BY <3>3, <3>4, <3>5
  <2>7. Carried'
    BY <1>0, <1>1, <2>6 DEF Carried
  <2> QED
    BY <1>2, <2>4, <2>5, <2>7 DEF IInv, Types
<1> QED
  BY <1>3, <1>4

LEMMA StepConnected ==
  ASSUME IInv, Connected
  PROVE  IInv'
<1>0. /\ RowTypeOK /\ CountTypeOK /\ MemTypeOK /\ ThreadTypeOK /\ RunTypeOK /\ Carried /\ Gone
      /\ RoomToStart /\ Events \in Threads /\ thread[Events] \in ThreadSet /\ run \in 0..MaxRuns
  BY EventsThread DEF IInv, Types, ThreadTypeOK, RunTypeOK
<1>1. /\ UNCHANGED <<row, pairing, runtime, mem, presence, account, gone>>
      /\ UNCHANGED <<exists, online, run, runs, boot, ending, stop, applied, updates, pairings>>
      /\ run # 0 /\ loggedIn' = run /\ thread[Events].step = "idle"
      /\ connects < MaxConnects /\ connects' = connects + 1
      /\ asked' = IF Busy(Handlers) THEN {} ELSE asked
  BY DEF Connected, row, runtime, presence
<1>2. /\ ThreadTypeOK' /\ \A u \in Threads : u # Events => thread'[u] = thread[u]
      /\ thread'[Events].step = "reconcile" /\ thread'[Events].run = run
  <2> DEFINE a == [thread[Events] EXCEPT !.step = "reconcile", !.run = run]
  <2>1. a \in ThreadSet /\ a.step = "reconcile" /\ a.run = run
    BY <1>0 DEF ThreadSet, Steps
  <2>2. Becomes(Events, a)
    BY <1>0 DEF Connected, Becomes
  <2>3. run \in Runs
    BY <1>0, <1>1, RuntimeSettingsAssumption DEF Runs
  <2> HIDE DEF a
  <2> QED
    BY <1>0, <2>1, <2>2, <2>3, BecomesFacts
<1>3. PresenceTypeOK' /\ Generations' /\ LoopsApplied'
  BY <1>1, <1>2, PresenceStays
<1>4. RunTypeOK' /\ RoomToStart' /\ MemTypeOK'
  BY <1>0, <1>1 DEF RunTypeOK, RoomToStart, MemTypeOK
<1>5. CountTypeOK'
  BY <1>0, <1>1, RuntimeSettingsAssumption DEF CountTypeOK
<1>6. RowTypeOK' /\ Gone'
  BY <1>0, <1>1 DEF RowTypeOK, Gone
<1>7. ASSUME NEW v \in asked', exists
      PROVE  CopiesHold(v)' /\ RuntimeGets(v)' /\ PresenceGets(v)'
  <2>1. v \in asked /\ ~Busy(Handlers)
    BY <1>1, <1>7
  <2>2. CopiesHold(v) /\ RuntimeGets(v)
    BY <1>0, <1>7, <2>1 DEF Carried
  <2>3. \A t \in Threads : thread[t].step = "idle"
    BY <1>1, <2>1, RuntimeSettingsAssumption DEF Busy, Threads, Handlers, Events
  <2>4. mem[run] = v
    BY <1>1, <2>2, <2>3 DEF RuntimeGets, Brings
  <2>5. CopiesHold(v)'
    BY <1>1, <1>2, <2>2, <2>3, <2>4 DEF CopiesHold
  <2>6. RuntimeGets(v)'
    BY <1>1, <2>4 DEF RuntimeGets
  <2>7. Reconciles(Events)'
    BY <1>1, <1>2 DEF Reconciles
  <2>8. PresenceGets(v)'
    BY <1>0, <2>7 DEF PresenceGets
  <2> QED
    BY <2>5, <2>6, <2>8
<1>8. Carried'
  BY <1>1, <1>7 DEF Carried
<1> QED
  BY <1>2, <1>3, <1>4, <1>5, <1>6, <1>8 DEF IInv, Types

LEMMA StepStops ==
  ASSUME IInv, StopPresence \/ CleanUp
  PROVE  IInv'
<1>0. /\ RowTypeOK /\ CountTypeOK /\ MemTypeOK /\ ThreadTypeOK /\ RunTypeOK /\ PresenceTypeOK
      /\ Generations /\ LoopsApplied /\ Carried /\ RoomToStart
  BY DEF IInv, Types
<1>1. /\ UNCHANGED <<row, pairing, counts, mem, thread, history>>
      /\ UNCHANGED <<exists, online, asked, runs, boot, applied, gen, loops>>
  BY DEF StopPresence, CleanUp, row, history, presence
<1>2. /\ account' \in BOOLEAN
  BY <1>0 DEF StopPresence, CleanUp, RowTypeOK
<1>3. RowTypeOK' /\ Gone' /\ CountTypeOK' /\ ThreadTypeOK' /\ MemTypeOK'
  BY <1>0, <1>1, <1>2, RowStays, CountStays DEF ThreadTypeOK, MemTypeOK
<1>4. CASE StopPresence
  <2>1. /\ run # 0 /\ run' = run /\ ending' = TRUE /\ loggedIn' \in {0, loggedIn}
        /\ stop' = [stop EXCEPT ![run] = 0]
    BY <1>4 DEF StopPresence
  <2>2. run \in Runs
    BY <1>0, <2>1, RuntimeSettingsAssumption DEF RunTypeOK, Runs
  <2>3. RunTypeOK' /\ RoomToStart'
    BY <1>0, <1>1, <2>1 DEF RunTypeOK, RoomToStart
  <2>4. PresenceTypeOK'
    BY <1>0, <1>1, <2>1, <2>2 DEF PresenceTypeOK
  <2>5. \A r \in Runs : /\ stop'[r] = (IF r = run THEN 0 ELSE stop[r])
                        /\ stop[r] \in Nat /\ gen[r] \in Nat
    BY <1>0, <2>1, <2>2 DEF PresenceTypeOK
  <2>6. Generations'
    BY <1>0, <1>1, <2>5 DEF Generations
  <2>7. \A l \in loops : l.run \in Runs /\ l.gen \in Nat
    BY <1>0 DEF PresenceTypeOK, LoopSet
  <2>8. \A u \in Threads : thread[u].step = "announce" =>
            thread[u].run \in Runs /\ thread[u].gen \in Nat
    BY <1>0 DEF ThreadTypeOK, ThreadSet
  <2>9. \A l \in loops : stop'[l.run] = l.gen => l.online = applied[l.run]
    BY <1>0, <2>5, <2>7 DEF Generations, LoopsApplied, Stopped
  <2>a. \A u \in Threads : thread[u].step = "announce" /\ stop'[thread[u].run] = thread[u].gen =>
            thread[u].online = applied[thread[u].run]
    BY <1>0, <2>5, <2>8 DEF Generations, LoopsApplied
  <2>b. LoopsApplied'
    BY <1>1, <2>9, <2>a DEF LoopsApplied, Stopped
  <2>c. ASSUME NEW v \in asked, exists, CopiesHold(v), RuntimeGets(v)
        PROVE  CopiesHold(v)' /\ RuntimeGets(v)' /\ PresenceGets(v)'
    BY <1>1, <2>1, <2>2, <2>5, <2>c DEF CopiesHold, RuntimeGets, PresenceGets, Brings
  <2>d. Carried'
    BY <1>0, <1>1, <2>c DEF Carried
  <2> QED
    BY <1>3, <2>3, <2>4, <2>6, <2>b, <2>d DEF IInv, Types
<1>5. CASE CleanUp
  <2>1. run' = 0 /\ ending' = FALSE /\ loggedIn' = 0 /\ UNCHANGED presence
    BY <1>5 DEF CleanUp
  <2>2. PresenceTypeOK' /\ Generations' /\ LoopsApplied'
    BY <1>1, <2>1, PresenceStays
  <2>3. RunTypeOK' /\ RoomToStart'
    <3>1. loggedIn' = 0 /\ run' \in 0..MaxRuns /\ runs' \in 0..MaxRuns /\ run' <= runs'
      BY <1>0, <1>1, <2>1, RuntimeSettingsAssumption DEF RunTypeOK
    <3>2. ending' \in BOOLEAN /\ ~ending'
      BY <2>1
    <3>3. boot' \in ReadSet /\ (boot'.on => run' = 0) /\ RoomToStart'
      BY <1>0, <1>1, <2>1 DEF RunTypeOK, RoomToStart
    <3> QED
      BY <3>1, <3>2, <3>3 DEF RunTypeOK
  <2>4. ASSUME NEW v \in asked, exists, CopiesHold(v)
        PROVE  CopiesHold(v)' /\ RuntimeGets(v)' /\ PresenceGets(v)'
    BY <1>1, <2>1, <2>4 DEF CopiesHold, RuntimeGets, PresenceGets
  <2>5. Carried'
    BY <1>0, <1>1, <2>4 DEF Carried
  <2> QED
    BY <1>3, <2>2, <2>3, <2>5 DEF IInv, Types
<1> QED
  BY <1>4, <1>5

-----------------------------------------------------------------------------
(***************************************************************************)
(* The goroutines of the presence keep what they were started for.         *)
(***************************************************************************)
LEMMA StepLoops ==
  ASSUME IInv, NEW l \in loops, LoopStep(l) \/ SeesStop(l)
  PROVE  IInv'
<1>0. /\ RowTypeOK /\ ThreadTypeOK /\ MemTypeOK /\ PresenceTypeOK /\ Generations /\ LoopsApplied
      /\ Carried /\ l \in LoopSet
  BY DEF IInv, Types, PresenceTypeOK
<1>1. /\ UNCHANGED <<row, pairing, runtime, counts, loggedIn, mem, stop, applied, gen, thread, history>>
      /\ UNCHANGED <<exists, online, asked, run, boot>>
  BY DEF LoopStep, SeesStop, CyclesOffline, CyclesOnline, Pulses, PulseChecks, Restores, AtLoop,
     row, history, runtime
<1>2. account' \in BOOLEAN
  BY <1>0 DEF LoopStep, SeesStop, CyclesOffline, CyclesOnline, Pulses, PulseChecks, Restores, Shows,
     RowTypeOK
<1>3. \/ LoopEnds(l)
      \/ \E step \in LoopSteps : Turns(l, step)
  BY DEF LoopStep, SeesStop, CyclesOffline, CyclesOnline, Pulses, PulseChecks, Restores, LoopSteps
<1>4. \A k \in loops' : /\ k \in LoopSet
                        /\ \E old \in loops : k.run = old.run /\ k.gen = old.gen /\ k.online = old.online
  <2>1. CASE LoopEnds(l)
    BY <1>0, <2>1 DEF LoopEnds, PresenceTypeOK
  <2>2. ASSUME NEW step \in LoopSteps, Turns(l, step)
        PROVE  \A k \in loops' :
                  /\ k \in LoopSet
                  /\ \E old \in loops : k.run = old.run /\ k.gen = old.gen /\ k.online = old.online
    <3> DEFINE new == [l EXCEPT !.step = step]
    <3>1. new \in LoopSet /\ new.run = l.run /\ new.gen = l.gen /\ new.online = l.online
      BY <1>0 DEF LoopSet
    <3>2. loops' = (loops \ {l}) \union {new}
      BY <2>2 DEF Turns
    <3> HIDE DEF new
    <3> QED
      BY <1>0, <3>1, <3>2 DEF PresenceTypeOK
  <2> QED
    BY <1>3, <2>1, <2>2
<1>5. PresenceTypeOK'
  BY <1>0, <1>1, <1>4 DEF PresenceTypeOK
<1>6. Generations'
  BY <1>0, <1>1, <1>4 DEF Generations
<1>7. LoopsApplied'
  BY <1>0, <1>1, <1>4 DEF LoopsApplied, Stopped
<1>8. ThreadTypeOK' /\ MemTypeOK' /\ RunTypeOK' /\ RoomToStart' /\ RowTypeOK' /\ Gone' /\ CountTypeOK'
  BY <1>0, <1>1, <1>2, RunStays, RowStays, CountStays DEF ThreadTypeOK, MemTypeOK
<1>9. ASSUME NEW v \in asked, exists, CopiesHold(v), RuntimeGets(v), PresenceGets(v)
      PROVE  CopiesHold(v)' /\ RuntimeGets(v)' /\ PresenceGets(v)'
  BY <1>1, <1>9 DEF CopiesHold, RuntimeGets, PresenceGets, Brings, Reconciles
<1>10. Carried'
  BY <1>0, <1>1, <1>9 DEF Carried
<1> QED
  BY <1>5, <1>6, <1>7, <1>8, <1>10 DEF IInv, Types

-----------------------------------------------------------------------------
(***************************************************************************)
(* What holds of the specification.                                        *)
(***************************************************************************)
LEMMA InitIInv == Init => IInv
<1> SUFFICES ASSUME Init PROVE IInv
  OBVIOUS
<1>1. \A t \in Threads : thread[t] \in ThreadSet /\ thread[t].step = "idle"
  BY IdleType DEF Init
<1>2. ThreadTypeOK
  BY <1>1, IdleType DEF Init, ThreadTypeOK
<1>3. Nothing \in ReadSet /\ ~Nothing.on
  BY DEF Nothing, ReadSet
<1>a. pairing = Nothing /\ boot = Nothing
  BY DEF Init
<1>4. RowTypeOK
  <2>1. exists \in BOOLEAN /\ online \in BOOLEAN /\ account \in BOOLEAN
    BY DEF Init
  <2>2. asked \in SUBSET BOOLEAN /\ gone = "no"
    BY <2>1 DEF Init
  <2> QED
    BY <1>3, <1>a, <2>1, <2>2 DEF RowTypeOK
<1>b. CountTypeOK
  BY RuntimeSettingsAssumption DEF Init, CountTypeOK
<1>c. MemTypeOK
  BY DEF Init, MemTypeOK
<1>5. RunTypeOK /\ RoomToStart
  <2>1. run = 0 /\ runs = 0 /\ loggedIn = 0
    BY DEF Init
  <2>2. ending = FALSE
    BY DEF Init
  <2>3. run \in 0..MaxRuns /\ runs \in 0..MaxRuns /\ run <= runs /\ loggedIn \in {0, run}
    BY <2>1, RuntimeSettingsAssumption
  <2>4. ending \in BOOLEAN /\ ~ending
    BY <2>2
  <2> QED
    BY <1>3, <1>a, <2>3, <2>4 DEF RunTypeOK, RoomToStart
<1>6. PresenceTypeOK
  <2>1. /\ applied = [r \in Runs |-> FALSE] /\ gen = [r \in Runs |-> 0]
        /\ stop = [r \in Runs |-> 0] /\ loops = {}
    BY DEF Init
  <2>2. applied \in [Runs -> BOOLEAN]
    BY <2>1
  <2>3. gen \in [Runs -> Nat] /\ stop \in [Runs -> Nat] /\ loops \subseteq LoopSet
    BY <2>1
  <2> QED
    BY <2>2, <2>3 DEF PresenceTypeOK
<1>7. Generations /\ LoopsApplied
  <2>1. \A r \in Runs : stop[r] = 0 /\ gen[r] = 0
    BY DEF Init
  <2>2. loops = {}
    BY DEF Init
  <2> QED
    BY <1>1, <2>1, <2>2 DEF Generations, LoopsApplied
<1>8. Gone
  BY <1>3, <1>a DEF Init, Gone
<1>9. Carried
  <2>1. run = 0 /\ asked = {online}
    BY DEF Init
  <2>2. \A v \in asked : v = online
    BY <2>1
  <2>3. ~pairing.on /\ ~boot.on
    BY <1>3, <1>a
  <2> QED
    BY <1>1, <2>1, <2>2, <2>3 DEF Carried, CopiesHold, RuntimeGets, PresenceGets
<1> QED
  BY <1>2, <1>4, <1>b, <1>c, <1>5, <1>6, <1>7, <1>8, <1>9 DEF IInv, Types

LEMMA NextIInv == IInv /\ [Next]_vars => IInv'
<1> SUFFICES ASSUME IInv, [Next]_vars PROVE IInv'
  OBVIOUS
<1>1. CASE UNCHANGED vars
  <2>1. /\ UNCHANGED <<row, pairing, runtime, counts, loggedIn, mem, presence, thread, account, history>>
        /\ UNCHANGED <<exists, online, asked, run, boot, stop, applied>>
    BY <1>1 DEF vars, row, history, runtime, presence
  <2>2. RunTypeOK' /\ RoomToStart' /\ CountTypeOK' /\ PresenceTypeOK' /\ Generations' /\ LoopsApplied'
    BY <2>1, RunStays, CountStays, PresenceStays
  <2>3. RowTypeOK' /\ Gone' /\ ThreadTypeOK' /\ MemTypeOK'
    BY <2>1, RowStays DEF IInv, Types, ThreadTypeOK, MemTypeOK, RowTypeOK
  <2>4. Carried'
    BY <2>1 DEF IInv, Carried, CopiesHold, RuntimeGets, PresenceGets, Brings, Reconciles
  <2> QED
    BY <2>2, <2>3, <2>4 DEF IInv, Types
<1>2. ASSUME NEW t \in Threads, ThreadStep(t) PROVE IInv'
  BY <1>2, StepReadRow, StepSetInstance, StepReadsSetting, StepFindsApplied, StepApplies,
     StepAnnounces DEF ThreadStep
<1> QED
  BY <1>1, <1>2, StepUpdates, StepRow, StepStarts, StepConnected, StepOffline, StepStops, StepLoops
     DEF Next

LEMMA SpecIInv == Spec => []IInv
  BY InitIInv, NextIInv, PTL DEF Spec

\* Every variable stays in its set, and a goroutine that is past the map has
\* hold of a runtime.
THEOREM TypeCorrect == Spec => []TypeOK
<1>1. IInv => TypeOK
  BY TypeParts DEF IInv
<1> QED
  BY <1>1, SpecIInv, PTL

\* A setting that UpdateAdvancedSettings wrote alone is what the row, the
\* runtime and its presence have when all work is done, and a deleted row stays
\* deleted unless PairSuccess had read it.
THEOREM SettingPrevails == Spec => []SetPrevails
<1>1. IInv => SetPrevails
  <2> SUFFICES ASSUME IInv, Quiet, asked # {}
               PROVE  RowKept /\ RuntimeKept /\ PresenceKept
    BY DEF SetPrevails
  <2>1. \A t \in Threads : thread[t].step = "idle"
    BY QuietFacts
  <2>2. PICK v \in asked : TRUE
    OBVIOUS
  <2>3. exists => CopiesHold(v) /\ RuntimeGets(v) /\ PresenceGets(v)
    BY DEF IInv, Carried
  <2>4. RowKept
    BY <2>3 DEF IInv, Gone, RowKept, CopiesHold
  <2>5. RuntimeKept
    BY <2>1, <2>3 DEF RuntimeKept, RuntimeGets, Brings
  <2>6. exists /\ run # 0 /\ loggedIn = run /\ stop[run] # 0 => applied[run] = v
    BY <2>1, <2>3 DEF PresenceGets, Brings, Reconciles
  <2>7. PresenceKept
    BY <2>6 DEF IInv, LoopsApplied, PresenceKept
  <2> QED
    BY <2>4, <2>5, <2>7
<1> QED
  BY <1>1, SpecIInv, PTL
-----------------------------------------------------------------------------
(***************************************************************************)
(* One goroutine for each presence that was started.                       *)
(***************************************************************************)
Announcing(t) == thread[t].step = "announce"
OfOne(a, b)   == a.run = b.run /\ a.gen = b.gen

\* A presence has one goroutine: the one it was started with, or the one that
\* the handler which announces unavailable is about to start.
OnePresence ==
  /\ \A l, m \in loops : OfOne(l, m) => l = m
  /\ \A t \in Threads, l \in loops : Announcing(t) /\ OfOne(thread[t], l) => thread[t].online
  /\ \A t, u \in Threads : Announcing(t) /\ Announcing(u) /\ OfOne(thread[t], thread[u]) => t = u

\* Who announces did so before, and no goroutine is started or ends.
Still ==
  /\ UNCHANGED <<loops, gen>>
  /\ \A t \in Threads : Announcing(t)' => Announcing(t) /\ thread'[t] = thread[t]
  /\ \A r \in Runs : stop'[r] \in {stop[r], 0}

\* Goroutine t goes to a step that announces nothing.
LEMMA ThreadStill ==
  ASSUME IInv, NEW t \in Threads, NEW a, Becomes(t, a), a.step # "announce",
         UNCHANGED presence
  PROVE  Still
<1>1. thread'[t] = a /\ \A u \in Threads : u # t => thread'[u] = thread[u]
  BY DEF IInv, Types, ThreadTypeOK, Becomes
<1>2. stop' = stop /\ gen' = gen /\ loops' = loops
  BY DEF presence
<1> QED
  BY <1>1, <1>2 DEF Still, Announcing

LEMMA ReturnsStill ==
  ASSUME IInv, NEW t \in Threads, Returns(t), UNCHANGED presence
  PROVE  Still
<1>1. Becomes(t, Idle) /\ Idle.step # "announce"
  BY IdleType DEF Returns, Becomes
<1> QED
  BY <1>1, ThreadStill

LEMMA ThreadsStill ==
  ASSUME IInv, NEW t \in Threads,
         ReadRow(t) \/ SetInstance(t) \/ ReadsSetting(t) \/ FindsApplied(t)
  PROVE  Still
<1>0. thread[t] \in ThreadSet /\ UNCHANGED presence
  BY DEF IInv, Types, ThreadTypeOK, ReadRow, SetInstance, ReadsSetting, FindsApplied
<1>1. CASE Returns(t)
  BY <1>0, <1>1, ReturnsStill
<1>2. CASE ~Returns(t) /\ ReadRow(t)
  <2> DEFINE a == [thread[t] EXCEPT !.step = "read", !.online = online]
  <2>1. a.step = "read"
    BY <1>0 DEF ThreadSet
  <2>2. Becomes(t, a)
    BY <1>0, <1>2 DEF ReadRow, Becomes, IInv, Types, ThreadTypeOK
  <2> HIDE DEF a
  <2> QED
    BY <1>0, <2>1, <2>2, ThreadStill
<1>3. CASE ~Returns(t) /\ SetInstance(t)
  <2> DEFINE a == [Idle EXCEPT !.step = "reconcile", !.run = run]
  <2>1. a.step = "reconcile"
    BY DEF Idle
  <2>2. Becomes(t, a)
    BY <1>3 DEF SetInstance, Becomes
  <2> HIDE DEF a
  <2> QED
    BY <1>0, <2>1, <2>2, ThreadStill
<1>4. CASE ~Returns(t) /\ ReadsSetting(t)
  <2> DEFINE a == [thread[t] EXCEPT !.step = "apply", !.online = mem[thread[t].run]]
  <2>1. a.step = "apply"
    BY <1>0 DEF ThreadSet
  <2>2. Becomes(t, a)
    BY <1>4 DEF ReadsSetting, Becomes, IInv, Types, ThreadTypeOK
  <2> HIDE DEF a
  <2> QED
    BY <1>0, <2>1, <2>2, ThreadStill
<1> QED
  BY <1>1, <1>2, <1>3, <1>4 DEF FindsApplied

LEMMA EventsStill ==
  ASSUME IInv, Connected \/ AppStateSyncComplete \/ GoesOffline
  PROVE  Still
<1>0. Events \in Threads /\ thread[Events] \in ThreadSet /\ UNCHANGED presence
  BY EventsThread DEF IInv, Types, ThreadTypeOK, Connected, AppStateSyncComplete, GoesOffline
<1>1. CASE GoesOffline
  BY <1>0, <1>1, ReturnsStill DEF GoesOffline
<1>2. ASSUME NEW s \in {"reconcile", "goes offline"},
             thread' = [thread EXCEPT ![Events].step = s, ![Events].run = run]
      PROVE  Still
  <2> DEFINE a == [thread[Events] EXCEPT !.step = s, !.run = run]
  <2>1. a.step = s
    BY <1>0 DEF ThreadSet
  <2>2. Becomes(Events, a)
    BY <1>0, <1>2 DEF Becomes, IInv, Types, ThreadTypeOK
  <2> HIDE DEF a
  <2> QED
    BY <1>0, <2>1, <2>2, ThreadStill
<1> QED
  BY <1>1, <1>2 DEF Connected, AppStateSyncComplete

LEMMA UpdatesStill ==
  ASSUME IInv, NEW t \in Handlers, UpdateAdvancedSettings(t) \/ UpdateOtherSettings(t)
  PROVE  Still
<1>0. /\ t \in Threads /\ thread[t] \in ThreadSet /\ UNCHANGED presence
      /\ thread' = [thread EXCEPT ![t].step = "written"]
  BY EventsThread
     DEF IInv, Types, ThreadTypeOK, UpdateAdvancedSettings, UpdateOtherSettings, Goes
<1> DEFINE a == [thread[t] EXCEPT !.step = "written"]
<1>1. a.step = "written"
  BY <1>0 DEF ThreadSet
<1>2. Becomes(t, a)
  BY <1>0 DEF Becomes, IInv, Types, ThreadTypeOK
<1> HIDE DEF a
<1> QED
  BY <1>0, <1>1, <1>2, ThreadStill

\* The steps of the row and of the runtime: at most the presence is stopped.
LEMMA OthersStill ==
  ASSUME IInv,
         \/ PairSuccessReads \/ PairSuccessSaves \/ Delete
         \/ StartInstance \/ InstallMyClient \/ StopPresence \/ CleanUp
         \/ UNCHANGED vars
  PROVE  Still
<1>1. UNCHANGED <<thread, loops, gen>>
  BY DEF PairSuccessReads, PairSuccessSaves, Delete, StartInstance, InstallMyClient, StopPresence,
     CleanUp, vars, presence
<1>2. \/ stop' = stop
      \/ stop' = [stop EXCEPT ![run] = 0]
  BY DEF PairSuccessReads, PairSuccessSaves, Delete, StartInstance, InstallMyClient, StopPresence,
     CleanUp, vars, presence
<1>3. \A r \in Runs : stop'[r] \in {stop[r], 0}
  BY <1>2 DEF IInv, Types, PresenceTypeOK
<1> QED
  BY <1>1, <1>3 DEF Still, Announcing

LEMMA WhatStarts ==
  ASSUME IInv, [Next]_vars
  PROVE  \/ Still
         \/ \E t \in Threads : Applies(t)
         \/ \E t \in Threads : Announces(t)
         \/ \E l \in loops : LoopStep(l) \/ SeesStop(l)
  BY ThreadsStill, EventsStill, UpdatesStill, OthersStill DEF Next, ThreadStep

\* What reconcilePresence does to the presence of its runtime.
LEMMA AppliesFacts ==
  ASSUME IInv, NEW t \in Threads, Applies(t)
  PROVE  LET r == thread[t].run
             g == gen[r] + 1 IN
         /\ r \in Runs /\ gen[r] \in Nat
         /\ \A s \in Runs : stop'[s] = IF s = r THEN g ELSE stop[s]
         /\ Announcing(t)' /\ thread'[t].run = r /\ thread'[t].gen = g
         /\ thread'[t].online = thread[t].online
         /\ \A u \in Threads : u # t => thread'[u] = thread[u]
         /\ thread[t].online => loops' = loops \union {NewLoop(t)}
         /\ ~thread[t].online => loops' = loops
         /\ NewLoop(t).run = r /\ NewLoop(t).gen = g
<1> DEFINE r == thread[t].run
           g == gen[r] + 1
<1>1. /\ thread \in [Threads -> ThreadSet] /\ thread[t] \in ThreadSet /\ r \in Runs
      /\ gen \in [Runs -> Nat] /\ stop \in [Runs -> Nat]
  BY DEF IInv, Types, ThreadTypeOK, PresenceTypeOK, Applies
<1>2. /\ stop' = [stop EXCEPT ![r] = g]
      /\ thread' = [thread EXCEPT ![t].step = "announce", ![t].gen = g]
      /\ loops' = IF thread[t].online THEN loops \union {NewLoop(t)} ELSE loops
  BY DEF Applies
<1>3. NewLoop(t).run = r /\ NewLoop(t).gen = g
  BY DEF NewLoop
<1> HIDE DEF g
<1>4. \A s \in Runs : stop'[s] = IF s = r THEN g ELSE stop[s]
  BY <1>1, <1>2
<1>5. /\ thread'[t].step = "announce" /\ thread'[t].run = r /\ thread'[t].gen = g
      /\ thread'[t].online = thread[t].online
      /\ \A u \in Threads : u # t => thread'[u] = thread[u]
  BY <1>1, <1>2 DEF ThreadSet
<1> QED
  BY <1>1, <1>2, <1>3, <1>4, <1>5 DEF Announcing, g

LEMMA AppliesOne ==
  ASSUME IInv, OnePresence, NEW t \in Threads, Applies(t)
  PROVE  OnePresence'
<1> DEFINE r == thread[t].run
           g == gen[r] + 1
           new == NewLoop(t)
<1>1. /\ r \in Runs /\ gen[r] \in Nat
      /\ Announcing(t)' /\ thread'[t].run = r /\ thread'[t].gen = g
      /\ thread'[t].online = thread[t].online
      /\ \A u \in Threads : u # t => thread'[u] = thread[u]
      /\ thread[t].online => loops' = loops \union {new}
      /\ ~thread[t].online => loops' = loops
      /\ new.run = r /\ new.gen = g
  BY AppliesFacts
<1>2. \A l \in loops : l.gen \in Nat /\ (l.run = r => l.gen # g)
  BY <1>1 DEF IInv, Types, Generations, PresenceTypeOK, LoopSet
<1>3. \A u \in Threads : Announcing(u) /\ thread[u].run = r => thread[u].gen # g
  <2>1. \A u \in Threads : thread[u].gen \in Nat
    BY DEF IInv, Types, ThreadTypeOK, ThreadSet
  <2> QED
    BY <1>1, <2>1 DEF IInv, Generations, Announcing
<1>4. \A u \in Threads : u # t /\ Announcing(u)' => Announcing(u)
  BY <1>1 DEF Announcing
<1> HIDE DEF r, g, new
<1>5. \A l, m \in loops' : OfOne(l, m) => l = m
  BY <1>1, <1>2 DEF OnePresence, OfOne
<1>6. \A u \in Threads, l \in loops' :
        Announcing(u)' /\ OfOne(thread'[u], l) => thread'[u].online
  <2> SUFFICES ASSUME NEW u \in Threads, NEW l \in loops', Announcing(u)', OfOne(thread'[u], l)
               PROVE  thread'[u].online
    OBVIOUS
  <2>1. CASE u = t
    BY <1>1, <1>2, <2>1 DEF OfOne
  <2>2. CASE u # t
    BY <1>1, <1>3, <1>4, <2>2 DEF OnePresence, OfOne
  <2> QED
    BY <2>1, <2>2
<1>7. \A u, w \in Threads :
        Announcing(u)' /\ Announcing(w)' /\ OfOne(thread'[u], thread'[w]) => u = w
  <2> SUFFICES ASSUME NEW u \in Threads, NEW w \in Threads, u # w,
                      Announcing(u)', Announcing(w)', OfOne(thread'[u], thread'[w])
               PROVE  FALSE
    OBVIOUS
  <2>1. CASE u = t
    BY <1>1, <1>3, <1>4, <2>1 DEF OfOne
  <2>2. CASE w = t
    BY <1>1, <1>3, <1>4, <2>2 DEF OfOne
  <2>3. CASE u # t /\ w # t
    BY <1>1, <1>4, <2>3 DEF OnePresence
  <2> QED
    BY <2>1, <2>2, <2>3
<1> QED
  BY <1>5, <1>6, <1>7 DEF OnePresence, OfOne

LEMMA AnnouncesOne ==
  ASSUME IInv, OnePresence, NEW t \in Threads, Announces(t)
  PROVE  OnePresence'
<1> DEFINE new == [run |-> thread[t].run, gen |-> thread[t].gen, online |-> FALSE,
                   step |-> "waiting"]
<1>1. /\ thread'[t].step = "idle" /\ \A u \in Threads : u # t => thread'[u] = thread[u]
      /\ Announcing(t)
      /\ loops' = IF thread[t].online THEN loops ELSE loops \union {new}
  BY ReturnsFacts DEF IInv, Types, Announces, Announcing
<1>2. new.run = thread[t].run /\ new.gen = thread[t].gen
  OBVIOUS
<1>3. \A u \in Threads : Announcing(u)' => u # t /\ Announcing(u) /\ thread'[u] = thread[u]
  BY <1>1 DEF Announcing
<1> HIDE DEF new
<1>4. \A l, m \in loops' : OfOne(l, m) => l = m
  BY <1>1, <1>2 DEF OnePresence, OfOne
<1>5. \A u \in Threads, l \in loops' :
        Announcing(u)' /\ OfOne(thread'[u], l) => thread'[u].online
  <2> SUFFICES ASSUME NEW u \in Threads, NEW l \in loops', Announcing(u)', OfOne(thread'[u], l)
               PROVE  thread'[u].online
    OBVIOUS
  <2>1. u # t /\ Announcing(u) /\ thread'[u] = thread[u]
    BY <1>3
  <2>2. CASE l \in loops
    BY <2>1, <2>2 DEF OnePresence
  <2>3. CASE l = new
    BY <1>1, <1>2, <2>1, <2>3 DEF OnePresence, OfOne
  <2> QED
    BY <1>1, <2>2, <2>3
<1>6. \A u, w \in Threads :
        Announcing(u)' /\ Announcing(w)' /\ OfOne(thread'[u], thread'[w]) => u = w
  BY <1>3 DEF OnePresence
<1> QED
  BY <1>4, <1>5, <1>6 DEF OnePresence, OfOne

LEMMA LoopsOne ==
  ASSUME IInv, OnePresence, NEW l \in loops, LoopStep(l) \/ SeesStop(l)
  PROVE  OnePresence' /\ UNCHANGED <<stop, thread>>
<1>1. UNCHANGED <<stop, thread>>
  BY DEF LoopStep, SeesStop, CyclesOffline, CyclesOnline, Pulses, PulseChecks, Restores, AtLoop
<1>2. \/ LoopEnds(l)
      \/ \E step \in LoopSteps : Turns(l, step)
  BY DEF LoopStep, SeesStop, CyclesOffline, CyclesOnline, Pulses, PulseChecks, Restores, LoopSteps
<1>3. CASE LoopEnds(l)
  BY <1>1, <1>3 DEF LoopEnds, OnePresence, Announcing
<1>4. ASSUME NEW step \in LoopSteps, Turns(l, step)
      PROVE  OnePresence'
  <2> DEFINE new == [l EXCEPT !.step = step]
  <2>1. new.run = l.run /\ new.gen = l.gen
    BY DEF IInv, Types, PresenceTypeOK, LoopSet
  <2>2. loops' = (loops \ {l}) \union {new}
    BY <1>4 DEF Turns
  <2> HIDE DEF new
  <2>3. \A k, m \in loops' : OfOne(k, m) => k = m
    BY <2>1, <2>2 DEF OnePresence, OfOne
  <2>4. \A u \in Threads, k \in loops' : Announcing(u) /\ OfOne(thread[u], k) => thread[u].online
    BY <2>1, <2>2 DEF OnePresence, OfOne
  <2> QED
    BY <1>1, <2>3, <2>4 DEF OnePresence, OfOne, Announcing
<1> QED
  BY <1>1, <1>2, <1>3, <1>4

LEMMA NextOne == IInv /\ OnePresence /\ [Next]_vars => OnePresence'
<1> SUFFICES ASSUME IInv, OnePresence, [Next]_vars PROVE OnePresence'
  OBVIOUS
<1>1. CASE Still
  BY <1>1 DEF Still, OnePresence, OfOne
<1> QED
  BY <1>1, WhatStarts, AppliesOne, AnnouncesOne, LoopsOne

LEMMA SpecOne == Spec => [](IInv /\ OnePresence)
<1>1. Init => OnePresence
  <2> SUFFICES ASSUME Init PROVE OnePresence
    OBVIOUS
  <2>1. loops = {} /\ \A t \in Threads : thread[t].step = "idle"
    BY IdleType DEF Init
  <2> QED
    BY <2>1 DEF OnePresence, Announcing
<1> QED
  BY <1>1, NextOne, SpecIInv, PTL DEF Spec

\* A presence generation (presenceGen in reconcilePresence) has one goroutine,
\* whatever handlers and events reconcile at the same time: those that hold the
\* lock one after the other start different ones, and at most one of a runtime
\* is not stopped.
THEOREM OneGoroutineEach ==
  Spec => [](/\ OnePresence
             /\ \A l, m \in loops : l.run = m.run /\ ~Stopped(l) /\ ~Stopped(m) => l = m)
<1>1. OnePresence =>
        /\ OnePresence
        /\ \A l, m \in loops : l.run = m.run /\ ~Stopped(l) /\ ~Stopped(m) => l = m
  BY DEF OnePresence, OfOne, Stopped
<1> QED
  BY <1>1, SpecOne, PTL

\* A goroutine whose channel was closed stays stopped: no later reconciliation,
\* no end of the runtime and no other goroutine makes its generation current
\* again (presenceCurrent).
StoppedStays == [][\A l \in loops : Stopped(l) => Stopped(l)']_vars

THEOREM StoppedStaysStopped == Spec => StoppedStays
<1>1. IInv /\ [Next]_vars => [\A l \in loops : Stopped(l) => Stopped(l)']_vars
  <2> SUFFICES ASSUME IInv, [Next]_vars, NEW l \in loops, Stopped(l) PROVE Stopped(l)'
    OBVIOUS
  <2>1. /\ l.run \in Runs /\ l.gen \in Nat /\ 1 <= l.gen /\ l.gen <= gen[l.run]
    BY DEF IInv, Types, PresenceTypeOK, LoopSet, Generations
  <2>2. CASE Still
    BY <2>1, <2>2 DEF Still, Stopped
  <2>3. ASSUME NEW t \in Threads, Applies(t) PROVE Stopped(l)'
    <3>1. stop'[l.run] = IF l.run = thread[t].run THEN gen[thread[t].run] + 1 ELSE stop[l.run]
      BY <2>1, <2>3, AppliesFacts
    <3>2. gen[l.run] \in Nat
      BY <2>1 DEF IInv, Types, PresenceTypeOK
    <3> QED
      BY <2>1, <3>1, <3>2 DEF Stopped
  <2>4. ASSUME NEW t \in Threads, Announces(t) PROVE Stopped(l)'
    BY <2>4 DEF Announces, Stopped
  <2>5. ASSUME NEW m \in loops, LoopStep(m) \/ SeesStop(m) PROVE Stopped(l)'
    <3>1. stop' = stop
      BY <2>5 DEF LoopStep, SeesStop, CyclesOffline, CyclesOnline, Pulses, PulseChecks, Restores,
         AtLoop
    <3> QED
      BY <3>1 DEF Stopped
  <2> QED
    BY <2>2, <2>3, <2>4, <2>5, WhatStarts
<1> QED
  BY <1>1, SpecIInv, PTL DEF Spec, StoppedStays
=============================================================================
