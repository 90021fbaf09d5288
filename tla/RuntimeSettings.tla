--------------------------- MODULE RuntimeSettings ---------------------------
(***************************************************************************)
(* The settings of one instance in the three places that hold them: the    *)
(* row, the copy its runtime works with (MyClient.Instance), and the       *)
(* presence the runtime keeps up (presence.go).  alwaysOnline stands for   *)
(* them: it is the one that goes through all three.                        *)
(*                                                                         *)
(* A handler that changes settings writes its columns of the row, reads    *)
(* the row again, hands it to the runtime and reconciles the presence;     *)
(* between these steps anything may happen: another handler, the pairing   *)
(* (which saves the whole row), a delete, a connection, the end of the     *)
(* runtime and the start of the next.                                      *)
(***************************************************************************)
EXTENDS Naturals

CONSTANTS MaxRuns,     \* runtimes the instance has, one after the other
          MaxUpdates,  \* requests that change settings
          MaxConnects, \* Connected events
          MaxPairings  \* PairSuccess events

ASSUME RuntimeSettingsAssumption ==
  MaxRuns \in Nat /\ MaxUpdates \in Nat /\ MaxConnects \in Nat /\ MaxPairings \in Nat

Runs     == 1..MaxRuns
Handlers == 1..MaxUpdates  \* each request has its goroutine
Events   == 0              \* and the event handler its own
Threads  == 0..MaxUpdates

VARIABLES
  exists, online,  \* the row, and its always_online
  pairing,         \* PairSuccess has read the row, and what it read
  boot,            \* StartInstance has read the row, and what it read
  run, ending,     \* the runtime in the map; its deferred functions run
  runs, updates, connects, pairings,
  loggedIn,        \* the runtime whose client is logged in
  mem,             \* Instance.AlwaysOnline of each MyClient
  stop, applied, gen, \* presenceStop (by its generation, 0 is nil), presenceOnline, presenceGen
  loops,           \* the goroutines of the presence
  thread,          \* the handlers and the events
  account,         \* what WhatsApp shows: available or not
  asked,           \* history: what the last request asked for, nothing certain
                   \* (empty) when another was at work then
  gone             \* history: the row was deleted, alone or while a pairing held a copy

row      == <<exists, online>>
runtime  == <<run, ending, runs, boot>>
presence == <<stop, applied, gen, loops>>
counts   == <<updates, connects, pairings>>
history  == <<asked, gone>>
vars     == <<row, pairing, runtime, counts, loggedIn, mem, presence, thread, account, history>>

Steps     == {"idle", "written", "read", "reconcile", "apply", "announce", "goes offline"}
ThreadSet == [step : Steps, run : 0..MaxRuns, online : BOOLEAN, gen : Nat]
Idle      == [step |-> "idle", run |-> 0, online |-> FALSE, gen |-> 0]

\* waiting for the ticker; between unavailable and available; a pulse, before
\* and after the check that it may end
LoopSteps == {"waiting", "pausing", "pulsed", "restoring"}
LoopSet   == [run : Runs, gen : Nat, online : BOOLEAN, step : LoopSteps]

ReadSet == [on : BOOLEAN, online : BOOLEAN]
Nothing == [on |-> FALSE, online |-> FALSE]

TypeOK ==
  /\ exists \in BOOLEAN /\ online \in BOOLEAN
  /\ pairing \in ReadSet /\ boot \in ReadSet
  /\ run \in 0..MaxRuns /\ runs \in 0..MaxRuns /\ run <= runs /\ ending \in BOOLEAN
  /\ (ending => run # 0) /\ (boot.on => run = 0)
  /\ updates \in 0..MaxUpdates /\ connects \in 0..MaxConnects /\ pairings \in 0..MaxPairings
  /\ loggedIn \in {0, run}
  /\ mem \in [Runs -> BOOLEAN] /\ applied \in [Runs -> BOOLEAN]
  /\ gen \in [Runs -> Nat] /\ stop \in [Runs -> Nat]
  /\ loops \subseteq LoopSet
  /\ thread \in [Threads -> ThreadSet]
  /\ \A t \in Threads : thread[t].step \notin {"idle", "written", "read"} => thread[t].run \in Runs
  /\ account \in BOOLEAN
  /\ asked \in SUBSET BOOLEAN /\ gone \in {"no", "alone", "raced"}

Init ==
  /\ exists = TRUE /\ online \in BOOLEAN
  /\ pairing = Nothing /\ boot = Nothing
  /\ run = 0 /\ ending = FALSE /\ runs = 0
  /\ updates = 0 /\ connects = 0 /\ pairings = 0
  /\ loggedIn = 0
  /\ mem = [r \in Runs |-> FALSE] /\ applied = [r \in Runs |-> FALSE]
  /\ gen = [r \in Runs |-> 0] /\ stop = [r \in Runs |-> 0]
  /\ loops = {} /\ thread = [t \in Threads |-> Idle]
  /\ account = FALSE
  /\ asked = {online} /\ gone = "no"

-----------------------------------------------------------------------------
Goes(t, step) == thread' = [thread EXCEPT ![t].step = step]
Returns(t)    == thread' = [thread EXCEPT ![t] = Idle]

Busy(S)  == \E t \in S : thread[t].step # "idle"
Quiet    == ~Busy(Threads) /\ ~pairing.on /\ ~boot.on

\* SendPresence through the client of runtime r: it arrives when that is logged in
Shows(r, available) == account' = IF loggedIn = r THEN available ELSE account
-----------------------------------------------------------------------------
(***************************************************************************)
(* A handler.  Only the columns of the request are written.                *)
(***************************************************************************)
UpdateAdvancedSettings(t) ==
  /\ t = updates + 1 /\ updates' = t
  /\ Goes(t, "written")
  /\ \E value \in BOOLEAN :
       /\ online' = IF exists THEN value ELSE online
       /\ asked'  = IF Quiet THEN {value} ELSE {}
  /\ UNCHANGED <<exists, pairing, runtime, connects, pairings, loggedIn, mem, presence, account, gone>>

\* Connect and Rename: other columns, and the same way into the runtime
UpdateOtherSettings(t) ==
  /\ t = updates + 1 /\ updates' = t
  /\ Goes(t, "written")
  /\ UNCHANGED <<row, pairing, runtime, connects, pairings, loggedIn, mem, presence, account, history>>

ReadRow(t) ==
  /\ thread[t].step = "written"
  /\ IF exists THEN thread' = [thread EXCEPT ![t].step = "read", ![t].online = online]
     ELSE Returns(t)
  /\ UNCHANGED <<row, pairing, runtime, counts, loggedIn, mem, presence, account, history>>

\* Mutant of SetInstance: whatever the map has is taken for a runtime.
SetUnchecked(t) ==
  /\ thread[t].step = "read"
  /\ thread' = [thread EXCEPT ![t] = [Idle EXCEPT !.step = "reconcile", !.run = run]]
  /\ mem' = [r \in Runs |-> IF r = run THEN thread[t].online ELSE mem[r]]
  /\ UNCHANGED <<row, pairing, runtime, counts, loggedIn, presence, account, history>>

\* the runtime in the map, which gets what was read
SetInstance(t) ==
  /\ thread[t].step = "read"
  /\ IF run # 0
     THEN /\ thread' = [thread EXCEPT ![t] = [Idle EXCEPT !.step = "reconcile", !.run = run]]
          /\ mem' = [mem EXCEPT ![run] = thread[t].online]
     ELSE Returns(t) /\ UNCHANGED mem
  /\ UNCHANGED <<row, pairing, runtime, counts, loggedIn, presence, account, history>>

(***************************************************************************)
(* reconcilePresence: the setting is read before the lock.                 *)
(***************************************************************************)
ReadsSetting(t) ==
  /\ thread[t].step = "reconcile"
  /\ IF loggedIn = thread[t].run
     THEN thread' = [thread EXCEPT ![t].step = "apply", ![t].online = mem[thread[t].run]]
     ELSE Returns(t)
  /\ UNCHANGED <<row, pairing, runtime, counts, loggedIn, mem, presence, account, history>>

NewLoop(t) == [run |-> thread[t].run, gen |-> gen[thread[t].run] + 1, online |-> thread[t].online,
               step |-> "waiting"]

\* Mutant of AlreadyApplied: a presence that runs is left alone.
AlreadyRunning(t) == stop[thread[t].run] # 0

AlreadyApplied(t) == stop[thread[t].run] # 0 /\ applied[thread[t].run] = thread[t].online

FindsApplied(t) ==
  /\ thread[t].step = "apply" /\ AlreadyApplied(t) /\ Returns(t)
  /\ UNCHANGED <<row, pairing, runtime, counts, loggedIn, mem, presence, account, history>>

\* closing the old channel stops the goroutine of the old setting
Applies(t) ==
  /\ thread[t].step = "apply" /\ ~AlreadyApplied(t)
  /\ LET r == thread[t].run IN
       /\ gen' = [gen EXCEPT ![r] = @ + 1]
       /\ stop' = [stop EXCEPT ![r] = gen[r] + 1]
       /\ applied' = [applied EXCEPT ![r] = thread[t].online]
       /\ thread' = [thread EXCEPT ![t].step = "announce", ![t].gen = gen[r] + 1]
       /\ loops' = IF thread[t].online THEN loops \union {NewLoop(t)} ELSE loops
  /\ UNCHANGED <<row, pairing, runtime, counts, loggedIn, mem, account, history>>

\* unavailable is announced before its goroutine starts
Announces(t) ==
  /\ thread[t].step = "announce" /\ Returns(t)
  /\ Shows(thread[t].run, thread[t].online)
  /\ loops' = IF thread[t].online THEN loops
              ELSE loops \union {[run |-> thread[t].run, gen |-> thread[t].gen, online |-> FALSE,
                                  step |-> "waiting"]}
  /\ UNCHANGED <<row, pairing, runtime, counts, loggedIn, mem, stop, applied, gen, history>>

-----------------------------------------------------------------------------
(***************************************************************************)
(* The row, by others.                                                     *)
(***************************************************************************)
\* PairSuccess, of a client that is not logged in, reads the row and saves it
\* whole; without a row it panics and the event is lost
PairSuccessReads ==
  /\ run # 0 /\ ~ending /\ loggedIn = 0 /\ ~pairing.on /\ exists /\ pairings < MaxPairings
  /\ pairings' = pairings + 1
  /\ pairing' = [on |-> TRUE, online |-> online]
  /\ UNCHANGED <<row, runtime, updates, connects, loggedIn, mem, presence, thread, account, history>>

PairSuccessSaves ==
  /\ pairing.on /\ pairing' = Nothing
  /\ exists' = TRUE /\ online' = pairing.online
  /\ UNCHANGED <<runtime, counts, loggedIn, mem, presence, thread, account, history>>

\* After the runtime was stopped and waited for; another may be on its way.  (A
\* wait that gives up, and a start that is done before the row goes, are not here.)
Delete ==
  /\ exists /\ run = 0 /\ exists' = FALSE /\ gone' = IF pairing.on THEN "raced" ELSE "alone"
  /\ asked' = IF pairing.on THEN {} ELSE asked
  /\ UNCHANGED <<online, pairing, runtime, counts, loggedIn, mem, presence, thread, account>>

-----------------------------------------------------------------------------
(***************************************************************************)
(* The runtime.                                                            *)
(***************************************************************************)
\* StartInstance reads the row to start from.  (/connect starts from the row its
\* middleware read, which may be older: not modelled, and a setting written in
\* between has that request at work beside it.)
StartInstance ==
  /\ run = 0 /\ ~boot.on /\ runs < MaxRuns /\ exists
  /\ boot' = [on |-> TRUE, online |-> online]
  /\ UNCHANGED <<row, pairing, run, ending, runs, counts, loggedIn, mem, presence, thread, account, history>>

InstallMyClient ==
  /\ boot.on /\ boot' = Nothing
  /\ runs' = runs + 1 /\ run' = runs + 1 /\ mem' = [mem EXCEPT ![runs + 1] = boot.online]
  /\ UNCHANGED <<row, pairing, ending, counts, loggedIn, presence, thread, account, history>>

\* Connected, and PushNameSetting; a client that was just paired has to connect
\* again first, which takes longer than to save the row
Connected ==
  /\ run # 0 /\ ~ending /\ ~pairing.on /\ thread[Events].step = "idle"
  /\ connects < MaxConnects /\ connects' = connects + 1
  /\ loggedIn' = run
  /\ thread' = [thread EXCEPT ![Events].step = "reconcile", ![Events].run = run]
  /\ asked' = IF Busy(Handlers) THEN {} ELSE asked
  /\ UNCHANGED <<row, pairing, runtime, updates, pairings, mem, presence, account, gone>>

\* AppStateSyncComplete of the critical block
AppStateSyncComplete ==
  /\ run # 0 /\ loggedIn = run /\ thread[Events].step = "idle" /\ ~mem[run]
  /\ thread' = [thread EXCEPT ![Events].step = "goes offline", ![Events].run = run]
  /\ UNCHANGED <<row, pairing, runtime, counts, loggedIn, mem, presence, account, history>>

GoesOffline ==
  /\ thread[Events].step = "goes offline" /\ Returns(Events)
  /\ Shows(thread[Events].run, FALSE)
  /\ UNCHANGED <<row, pairing, runtime, counts, loggedIn, mem, presence, history>>

\* The deferred functions of StartClient: the presence is stopped first, the
\* client disconnected last, and the account of a client that is gone is not
\* available.  A lost session is not connected again
\* (EnableAutoReconnect is off): it ends the runtime, as a stop does.
StopPresence ==
  /\ run # 0 /\ ~ending /\ ending' = TRUE
  /\ \/ UNCHANGED <<loggedIn, account>>
     \/ loggedIn' = 0 /\ account' = FALSE
  /\ stop' = [stop EXCEPT ![run] = 0]
  /\ UNCHANGED <<row, pairing, run, runs, boot, counts, mem, applied, gen, loops, thread, history>>

CleanUp ==
  /\ ending /\ run' = 0 /\ ending' = FALSE
  /\ loggedIn' = 0 /\ account' = FALSE
  /\ UNCHANGED <<row, pairing, runs, boot, counts, mem, presence, thread, history>>

-----------------------------------------------------------------------------
(***************************************************************************)
(* The goroutines of the presence.                                         *)
(***************************************************************************)
Stopped(l) == stop[l.run] # l.gen

Turns(l, step) == loops' = (loops \ {l}) \union {[l EXCEPT !.step = step]}
LoopEnds(l)    == loops' = loops \ {l}

AtLoop(l, kind, step) ==
  /\ l.online = kind /\ l.step = step
  /\ UNCHANGED <<row, pairing, runtime, counts, loggedIn, mem, stop, applied, gen, thread, history>>

SeesStop(l) ==
  /\ l.step \in {"waiting", "pausing"} /\ AtLoop(l, l.online, l.step)
  /\ Stopped(l) /\ LoopEnds(l) /\ UNCHANGED account

\* The select takes the ticker or the timer when they are ready, though the
\* channel be closed too.  The goroutine of a deleted instance ends; otherwise
\* unavailable, and available some seconds later.
CyclesOffline(l) ==
  /\ AtLoop(l, TRUE, "waiting")
  /\ IF exists THEN Turns(l, "pausing") /\ Shows(l.run, FALSE)
     ELSE LoopEnds(l) /\ UNCHANGED account

CyclesOnline(l) ==
  /\ AtLoop(l, TRUE, "pausing") /\ Turns(l, "waiting") /\ Shows(l.run, TRUE)

\* presenceCurrent and the session, before and after the pulse
MayPulse(l) == ~Stopped(l) /\ loggedIn = l.run

Pulses(l) ==
  /\ AtLoop(l, FALSE, "waiting") /\ ~Stopped(l)
  /\ IF MayPulse(l) THEN Turns(l, "pulsed") /\ Shows(l.run, TRUE)
     ELSE LoopEnds(l) /\ UNCHANGED account

PulseChecks(l) ==
  /\ AtLoop(l, FALSE, "pulsed")
  /\ IF MayPulse(l) THEN Turns(l, "restoring") ELSE Turns(l, "waiting")
  /\ UNCHANGED account

\* Mutant of Restores: the pulse ends there, and available stays.
PulseForgets(l) ==
  /\ AtLoop(l, FALSE, "restoring") /\ Turns(l, "waiting") /\ UNCHANGED account

\* (SendPresence of a client that is logged in does not fail here; the code
\* tries it three times and leaves it at that.)
Restores(l) ==
  /\ AtLoop(l, FALSE, "restoring") /\ Turns(l, "waiting") /\ Shows(l.run, FALSE)

LoopStep(l) ==
  \/ CyclesOffline(l) \/ CyclesOnline(l) \/ Pulses(l) \/ PulseChecks(l) \/ Restores(l)

ThreadStep(t) ==
  \/ ReadRow(t) \/ SetInstance(t)
  \/ ReadsSetting(t) \/ FindsApplied(t) \/ Applies(t) \/ Announces(t)

Next ==
  \/ \E t \in Handlers : UpdateAdvancedSettings(t) \/ UpdateOtherSettings(t)
  \/ \E t \in Threads : ThreadStep(t)
  \/ PairSuccessReads \/ PairSuccessSaves \/ Delete
  \/ StartInstance \/ InstallMyClient \/ Connected \/ AppStateSyncComplete \/ GoesOffline
  \/ StopPresence \/ CleanUp
  \/ \E l \in loops : LoopStep(l) \/ SeesStop(l)

\* Some goroutine that can go on does, some presence goroutine takes its timer,
\* and some select that finds a closed channel takes it: less than the scheduler
\* gives each of them.  Nothing is asked of WhatsApp, of the operator or of the
\* runtime.
Spec ==
  /\ Init /\ [][Next]_vars
  /\ WF_vars(GoesOffline \/ \E t \in Threads : ThreadStep(t))
  /\ WF_vars(\E l \in loops : LoopStep(l))
  /\ WF_vars(\E l \in loops : SeesStop(l))
-----------------------------------------------------------------------------
(***************************************************************************)
(* What the settings must keep.                                            *)
(***************************************************************************)
\* When nobody is at work, and nobody else was when the last setting was
\* written, the three places agree on it: the row, the copy of the runtime, and
\* (while the session lasts) the presence it keeps up and each of its
\* goroutines.  A deleted row stays deleted, unless the pairing had read it
\* before.  (A setting written beside another piece of work can be lost in
\* either place; the next one that is written alone repairs it.)
RowKept == (gone = "alone" => ~exists) /\ (exists => online \in asked)

RuntimeKept == exists /\ run # 0 => mem[run] \in asked

PresenceKept ==
  exists /\ run # 0 /\ loggedIn = run /\ stop[run] # 0 =>
    applied[run] \in asked /\ \A l \in loops : l.run = run /\ ~Stopped(l) => l.online \in asked

SetPrevails == Quiet /\ asked # {} => RowKept /\ RuntimeKept /\ PresenceKept

\* An account whose session lasts is seen again and again as the presence that
\* was applied says, whatever a cycle, a pulse or a change of the setting did to
\* it on the way.
Steady == gone = "no" /\ run # 0 /\ ~ending /\ stop[run] # 0

PresenceFollows == <>[]Steady => []<>(Steady => account = applied[run])
=============================================================================
