# Formal model of evo-go

TLA+ specifications of this gateway: what keeps one WhatsApp socket per instance,
what brings it back and what keeps it down, how an instance is paired (QR code or
passkey), where its settings are and who keeps its presence up, what each request
of the API does step by step, how the typebot answers a contact, what becomes of a
message's receipts and how events reach RabbitMQ, WebSocket tabs and webhooks. TLC
checks small instances of every module; TLAPS proves the main safety properties
for all values of the constants.

Run, from this directory, `tlc -config X.cfg MCX.tla` for a run (each `.cfg` is
named after its module) and `tlapm XProofs.tla` for the proofs of a module.

## 1. Inventory of the system

| component | state | operations | interacts with |
|---|---|---|---|
| Runtime registry (`runtime_lifecycle.go`, `StartClient`, `ClearInstanceCache`) | `runtimes`, the maps `clientPointer`, `myClientPointer`, `killChannel`, one `done` channel and one kill channel per runtime | reserve, publish, connect, stop, clean up, restart with time-out, clear | everything that needs a client; WhatsApp sockets |
| Reconnection supervisor (`ScheduleReconnect`, `watchdog.go`, `temp_ban.go`) | `reconnects` (slot, failures), the columns `connected` and `disconnect_reason` | schedule, wait, recheck, stop, start, probe, reschedule; watchdog tick | event handlers, API calls, registry, database |
| Passkey ceremony (`ceremony/store.go`, handler, `passkey-helper/content.js`) | maps by token and by instance, expiry | start, five state updates, look-up, submit, confirm | client events, public endpoints, browser tab |
| QR window (`qr_emitter.go`, `qr_env.go`, `qr_store.go`) | the stored code, count, the channel of rotations | check, publish, wait, rotate, tear down, serve | registry, pairing, passkey, row of the instance |
| Message receipts (`pkg/receipt`, the receipt handler) | table `message_receipts`, cache `processedMessages` | handle a batch, record, clean up | client events, sends, Postgres |
| Event routing (`CallWebhook`, `event_groups.go`) | none: two tables | is it subscribed, which global group | every event |
| Event delivery (`pkg/events`, `sendToQueueOrWebhook`) | shared AMQP connection, lists of tabs, retries | publish and reconnect, register, write, prune, post and retry | brokers, tabs, webhooks |
| Typebot (`pkg/typebot`) | sessions, cache of own numbers, bucket of sends | process a message, pause, close, limit | messages, operator, Typebot server |
| Sending (`pkg/sendMessage`, `connected_client.go`) | none, but it asks the supervisor | acquire a connected client, send, retry | supervisor, WhatsApp, receipts, events |
| Instance administration (`pkg/instance`) | the row of the instance | create, connect, disconnect, reconnect, logout, delete, pair, proxy, settings | registry, supervisor, database |
| Settings and presence (`UpdateInstanceSettings`, `presence.go`, PairSuccess) | the row, `MyClient.Instance`, `presenceStop`, `presenceOnline`, `presenceGen`, a goroutine per presence | write, hand over, reconcile, cycle, pulse, stop | settings requests, pairing, runtime, WhatsApp |
| License (`pkg/core`, `pkg/gate`) | activation, API key | activate, heartbeat, gate | license server, HTTP |
| Other services (chat, message, group, user, label, community, newsletter, poll, call) | none, but they start a runtime that is not there | some calls of whatsmeow per request, in an order | client, registry |
| HTTP (`routes.go`, the middlewares, the handlers) | none | authenticate, validate the number, bind, answer | services |
| Storage, configuration, logs, telemetry, manager | none that a protocol depends on | input and output | – |

The database, whatsmeow, WhatsApp, the broker and the browser are the
environment. whatsmeow runs the handlers of Connected, Disconnected and
KeepAlive events in goroutines of their own, so they overlap with each other and
with API calls; that is where most hard behaviours come from. The others are:
locks released between a check and what relies on it, waits with a time-out
whose peer then answers, full-row writes, retries, and a process that restarts
and loses every map, timer and goroutine. `PROJECT.json` lists each of those
hazards at its line with the property that would catch it, or why none does.

What makes each component correct:

- registry: one socket per instance; what the maps hold belongs to the runtime
  that is registered; a stop is never lost; `done` means released.
- supervisor: one reconnection at a time; an instance that should be up is never
  forgotten; one that should be down stays down; a deleted device is not started
  for ever.
- passkey: the two maps agree; a stage has the data the tab needs; a finished
  ceremony stays finished; the code stays visible.
- QR: the limit counts for the runtime; the code on screen can be scanned; the
  window closes.
- settings: the row, the runtime and the presence agree once all work is done;
  WhatsApp shows the presence that was applied; what was deleted stays deleted.
- requests: an error leaves nothing half done; nobody gets a message twice without
  need; no number nobody checked is acted on; every request is answered.
- typebot: a pause stays; one conversation per contact; the limit is kept.
- receipts: first dates win, whatever the order; the status never goes back.
- delivery: a channel or a tab that fails does not keep an event from the others; a
  webhook is called for what was subscribed and for nothing else.

## 2. Modules

| modules | role |
|---|---|
| `SocketLease` | abstract: a lease granted to one holder at a time, never given back twice |
| `RuntimeRegistry`, `MC…`, `…Proofs` | life of the runtimes of an instance; implements `SocketLease` |
| `ReconnectSupervisor`, `MC…`, `…Proofs` | the supervisor, watchdog, API calls and handlers over the row of the instance |
| `PasskeyCeremony`, `MC…`, `…Proofs` | store, endpoints, events and the tab |
| `QRWindow`, `MC…`, `…Proofs` | emitter, stored code, GET /instance/qr |
| `MessageReceipts`, `MC…` | receipt handler, writers, table |
| `EventRouting` | the tables of subscriptions and of global groups |
| `EventDelivery`, `MC…`, `…Proofs` | fan-out, AMQP, tabs, webhooks; extends `EventRouting` |
| `RequestSteps` | the vocabulary in which an operation is written as a recipe: its steps, and what a failure of each does |
| `SendRecipes`, `AccountRecipes`, `InstanceRecipes` | one recipe for each function of the send service, of the services that act on the account, and of the instance service |
| `NumberFields` | what the six validators of the router and the handlers make of the "number" of a body |
| `Handlers`, `Routes` | what each handler does before and after its service; the 105 routes with their middlewares |
| `Requests`, `MCRequests` | the machine that runs any recipe beside an instance that goes up and down |
| `MessagingProofs` | the proofs about `Requests` and about `MessageReceipts`, whose definitions bear names of their own for it (`ReceiptsInit`, `ReceiptsNext`, `ReceiptsTypeOK`) |
| `Typebot`, `MC…`, `…Proofs` | the conversation of one contact |
| `RuntimeSettings`, `MC…`, `…Proofs` | the settings in the row, the runtime and the presence |

A step is what the code does between two points where another goroutine can act
(a lock taken, a channel, a database or network call). `map` in `PROJECT.json`
gives the lines each definition stands for. Definitions named "Mutant of …" are
plausible bugs: no specification uses them, and each violates the property it
was written for.

**RuntimeRegistry.** `phase[t]` is where the `StartClient` goroutine of token `t`
is; `ReserveRuntime` to `CleanUp` and `FinishRuntime` follow the function from
top to bottom with its three early ends (`FailBeforeClient`, `FailProxy`,
`ConnectFails`). `call[c]` is a goroutine in `restartInstance` or
`ClearInstanceCache`, with the `done` channel it holds. Every map is keyed by
instance and both mutexes are held within one action only, so instances do not
interact and one is modelled.

**ReconnectSupervisor.** `thread[g]` is a goroutine that handles an event, serves
an API call or supervises. `SetConnected` and `SetReason` are the two SQL updates
of `UpdateConnected`. Where they are one step (the QR limit, and a start that finds
no device) the device is gone, and then nothing that reads the row depends on the
reason. The registry's runtime is reduced to what the supervisor can see. A
crash clears all memory and leaves the row.

**PasskeyCeremony.** Each endpoint is three steps (resolve the token, send, write
the outcome), between which events arrive, and a lost connection two: the handler
looks for an active ceremony (`losing`) and then makes an error of the one it finds.
The tab polls, clicks and gives up as `content.js` does. WhatsApp's side is the external variable `link`.

**QRWindow.** `emitter[t]` is the goroutine of `runQREmitter`: it checks runtime,
pairing, passkey and socket one at a time (`qrCheck`), then publishes, so the
others act in between. Nobody waits for an emitter, so one may outlive its
runtime. At the limit it logs the client out first (`ForceLogout`), which undoes a
pairing that came after its check.

**MessageReceipts.** `pending` are the goroutines of `RecordReceipt`; they finish
in any order, fail, or are lost with the process. `Least` is the `LEAST` of
Postgres, which ignores NULL. `Expire`, `Restart`, `Age` and `Cleanup` let keys,
goroutines and rows go.

**EventRouting, EventDelivery.** `Delivers` and `Group` are the two switches,
written out separately since they are separate in the code. `pc[w]` is the
goroutine of an event for its instance or for the global queues. `ensureConnection`
reads `p.conn` twice (`Ensure`, `IsClosed`) and uses a third time to open the
channel, each a step, since nothing locks it. A publication fails when the
connection or its channel is gone, which the broker may close alone. A tab is
written to between `BeginWrite` and `EndWrite`, holding its `writeMu`: that two
events never write together is the guard of `BeginWrite` and no result. A panic ends the goroutine
(`panicked`), as `utils.Recover` at its top does.

**Requests.** The services keep no state, so an operation is data: a sequence of
stages, each a sequence of steps, run at most `attempts` times (the `…WithRetry`
loops). A definition of the recipe modules bears the name of the function it
stands for, and functions that call each other are concatenated as they do.
`Requests` executes one recipe: router and handler (`Authenticate`,
`ValidateNumber`, `Bind`, …), the two ways to a client (`EnsureConnected` of the
services starts an instance that has none, `TakeSession` and its companions are
`ConnectedClient`), WhatsApp (`AskWhatsApp`, `ActOnAccount`, `SendMessageTo`,
`SendIsCut`), the database and what is left to goroutines. Every step may fail, a
call may fail though it took effect, and the runtime is lost, ends, returns,
disconnects or is logged out meanwhile (`Moves`). What is checked is the order in
which each handler and service does its steps. `OrderAssumption` names that order:
a stage sends once and is not started again after it (`SendsOnce`), what can fail
comes before what changes something (`ChecksFirst`, but for the kinds of change
`Leaves` names for the operation), and a JID is made of the number before anything
is acted on (`ParsesFirst`). A runtime that `EnsureStarts` has started for a request
is such a change, of kind "client": it stays when a later step fails. TLC evaluates
the assumption on the 105 recipes; `LeavesAreExact` says that no operation could do
with fewer kinds.

**Typebot.** `work[w]` is the goroutine of a message: it reads the bot, then the
session (`Find…`, one action per decision of `ProcessMessage`), then asks, answers
and saves the whole row. `age` is the order of `updated_at`, by which the session
in use is found; rows written in one statement share it. `overlapped` and
`rearranged` record that two messages were in work together, and that a status write
of the operator left an open session behind another row, opened one whose flow the
Typebot has ended, or opened one while a message was in work (`Rearranges`). TLC finds
the order broken without any one of the three. A flow (`used`, `live`) is a conversation on the Typebot's
side, which may end by itself; a session has the one it was created with.

**RuntimeSettings.** `alwaysOnline` stands for the settings, as it alone goes
through all three places. `thread[t]` is a handler between its write, its read of
the row, the hand-over to the runtime and `reconcilePresence`, which reads the
setting before its lock; thread 0 is the event handler. `loops` are the goroutines
of `presence.go`: their `select` may take the timer though the channel is closed.
`StopPresence` is deferred after, so runs before, the clean-up that disconnects
the client. `asked` is what the last request asked for, empty when another piece
of work ran beside it. Left out: a wait for the runtime that gives up during a
delete, a start that is finished before the row goes, and a client that is
connected before the pairing saved its row.

## 3. Runs

All bounds are CONSTANTs given in the `.cfg` files.

| run | question | bounds | result |
|---|---|---|---|
| `RuntimeRegistry` | one socket, exact maps, `done` means released, lease implemented, stops arrive | 2 runtimes, 1 caller: a runtime ends while its successor is reserved, and the caller meets either | holds |
| `ReconnectSupervisor` | slot exclusive and released, no QR loop, nobody forgotten | a goroutine besides the watchdog and the runtime, 2 API calls, 3 faults: enough for a loss, a failure or crash during recovery, and one more | holds |
| `ReconnectSupervisor_disconnect` | does a disconnect stay? | 2 goroutines, 1 call, 1 fault | **violated** |
| `PasskeyCeremony` | maps, data, finality | 2 instances, 3 tokens, 2 codes: one instance replaces its ceremony while the other has one | holds |
| `QRWindow` | limit, current secret, the window closes | 1 runtime, 2 batches of 3 codes, limit 4, so the limit falls in the second batch; 1 rotation fits the channel | holds |
| `MessageReceipts` | first dates, monotone status | a message with every type of receipt and one of a group, 2 dates, 2 writers at once: two dates in both orders | holds |
| `EventDelivery` | tabs, webhooks: who gets an event, who does not, who is reached | an event on all three channels and one for the tabs only; 2 tabs, 2 AMQP connections, 2 attempts; one webhook that answers and one that hangs | holds |
| `Requests` | what an error leaves behind, how often a message goes out, whom an operation acts on, is everyone answered | every operation, key, shape of number and failure; 2 clients of the instance, 2 moves: a drop and a return, or a logout under the request | holds |
| `Requests_conflict` | does 409 mean that nothing was sent? | same | **violated** |
| `Typebot` | what a pause is worth, one conversation, the limit | 3 messages, 2 in work at once, 2 sessions, limit 1, 2 acts of the operator at any moment: a pause between, beside or under a message, a session paused and opened again, and the first message over the limit | holds |
| `Typebot_pause` | does a pause stand until the operator ends it? | same | **violated** |
| `RuntimeSettings` | do row, runtime and presence agree, is the presence shown | 1 runtime, 2 requests, 1 connection, 1 pairing: two changes of the presence in both orders, and a pairing over either | holds |

`qrRotate` has capacity 4 and QRCODE_MAX_COUNT defaults to 7; a slot of 1 and a
limit of 4 reach the same boundaries. The delivery run has one goroutine
on AMQP, since two of them exceed what TLC finishes with the tabs beside them; a
second QR runtime likewise. `RuntimeSettings` also holds with two runtimes one
after the other, which takes longer than a run should.
Deadlock checking is off only where the system rests: nothing asked for, paired,
answered, or everything delivered.

`Leaves` in `MCRequests` is a finding in itself, kept as a table: of the 105
operations, 40 leave nothing behind when they answer an error, 54 may leave the
instance started though it was down (`ensureClientConnected`), even one its operator
disconnected, and eleven more than that, each named with what it is. `AllOrNothing`
says that nothing else is left.

### What the violations show

1. **A disconnect undone.** A supervisor past its recheck starts the instance
   after /instance/disconnect succeeded. A Disconnected handler that runs late
   and overwrites `byAPI` is another, likelier trace of the same property. Once all
   of these are done the disconnect stays, as `DisconnectRests` proves.
2. **409 after the text went out.** POST /send/event sends its text, then the
   event. When the session is gone by then, the answer is the 409 that tells the
   client to reconnect the instance and, it will think, send again.
3. **A pause undone.** A message in work when the operator pauses the contact saves
   the session it had read, and with it the status. `PauseHolds` is what remains
   true: a pause that found nobody in work stays.

## 4. Fairness

- Goroutines that can run do run (weak fairness of the steps of each one).
  Nothing is assumed about API calls, faults, scans, crashes or the broker.
- `ReconnectSupervisor`: an event that was dispatched reaches its handler, and
  the ticker of the watchdog ticks; faults are bounded, so recovery has a quiet
  period in the end.
- `QRWindow`: the timer of `qrWait` is one case of a `select` that rotations also
  wake; Go picks among ready cases at random, so strong fairness.
- `EventDelivery`: a write returns, since it has a deadline of 10 seconds, dials
  return, and so does a request to a server that answers. The webhook client has
  no time-out, so no fairness is assumed for addresses in `Hung`.
- `Requests`: a request that can go on does (weak fairness of all its steps
  together); each wait of it has a deadline. Nothing is assumed about the instance.
- `Typebot`: each goroutine goes on; the calls to the Typebot have a time-out.
- `RuntimeSettings`: some handler that can go on does, some presence goroutine takes
  its timer, some select that finds its channel closed takes it. That is weaker
  than the scheduler, which does so for each of them.

## 5. Proofs

Each `…Proofs` module proves, for every value of the constants, its type
invariant and the properties below from an inductive invariant.

| theorem | argument |
|---|---|
| `RuntimeRegistryProofs!OneSocketAlways`, `MapsAlwaysBelong`, `DoneAlwaysMeansReleased` | `OneSocket` alone is not inductive: nothing says the owner of a socket is the registered runtime. `IInv` adds that a token is alive exactly when it is registered, that tokens are handed out in order, that only running phases have sockets, and that a cleaned runtime has left the maps |
| `RuntimeRegistryProofs!RegistryImplementsLease` | each step, under `IInv`, is a step of `SocketLease` or a stutter |
| `RuntimeRegistryProofs!StopsGoThrough` | the phases of a runtime are numbered in the order of `StartClient` and of its deferred functions (`Rank`): its own steps go up, no other step takes it down, and a signal is in the channel until the runtime takes it |
| `RuntimeRegistryProofs!CallersWaitForAnEnd` | a done channel is read while its runtime is registered, and a registered runtime leaves only by closing it |
| `RuntimeRegistryProofs!NobodyEndsUnasked` | each signal is put under the token of the runtime that was found in the map, and only the signal of its own token ends a runtime |
| `ReconnectSupervisorProofs!SlotAlwaysExclusive`, `NeverAQRLoop` | the kind of a goroutine limits where it can be (`PcMatchesKind`), and a supervisor that has made its last start is not before another (`LastStart`) |
| `ReconnectSupervisorProofs!HolderAlwaysGoesOn` | the places of a goroutine that holds the slot are numbered (`Place`); each of its steps goes up or gives the slot back, and with `SlotExclusive` no other goroutine moves it or takes the slot from it |
| `ReconnectSupervisorProofs!DisconnectRests` | `Resting`: the reason is `byAPI`, no runtime is there and nobody is past the recheck or about to write the row. What remains, a supervisor or a watchdog yet to read the row, finds that it is to stay down. So the disconnect of the finding is undone by those already past the recheck, by a request that asks for the instance again (a call that starts it, /forcereconnect), or where the row cannot be read |
| `PasskeyCeremonyProofs!StoreAlwaysCoherent`, `StageAlwaysHasData`, `OverStaysFinal` | the first two are inductive together; the third needs that only the tab of a token that was issued changes (`TabKnowsToken`) |
| `QRWindowProofs!LimitAlwaysHolds` | codes shown never exceed the count the emitter carries or returns (`Counted`) |
| `QRWindowProofs!SecretAlwaysCurrent` | the property is about an empty channel, so the invariant says what a full one means: it holds the last secrets, one after the other (`Rising`), and no code to come is older than the secret before the first of them (`Behind`) |
| `QRWindowProofs!WindowAlwaysCloses` | an emitter returns only because its runtime stops, was paired or is in a passkey ceremony, or from a teardown that put the signal; the signal is taken by the runtime only when it stops |
| `MessagingProofs!AllOrNothingHolds` | for any table of operations in the order of `OrderAssumption`. The property speaks of answered requests; `DoneIsBehind` says of each moment that what was done is at a place the request has reached and is a step that changes something, and `NothingLeft` that, of the kinds `Leaves` does not name, one that can still be refused has done nothing but the call it is in or the start it waits for |
| `MessagingProofs!NoRepeatHolds` | `CopiesCounted`: up to the current stage, a message more went out only for a drop (`cuts`) or in an attempt that is over |
| `MessagingProofs!ActsOnANumberHolds` | `NumberKnown`: past the step that parses the number, the number is one a JID can be made of, and before it nothing was done |
| `MessagingProofs!ConflictIsHonest` | the finding on 409 cannot occur in an operation of which `Leaves` names no sent message: only the wait for a session answers 409, and `NothingLeft` says what was done by then |
| `MessagingProofs!StepsGoFurther` | every step takes a request further in the order of stage, attempt, step and wait, whatever the instance does meanwhile. That order is finite, so `Answered` needs fairness only for the steps to be taken |
| `MessagingProofs!EarliestKept`, `DeliveredFirst`, `DatesKept`, `StatusKept`, `WritesCommute` | `LEAST` commutes and repeats without effect, so a row is the minimum of what was written |
| `EventDeliveryProofs!RegistrationStaysExact`, `OpenTabsAlwaysGot` | each tab an event copied is still to be written, was written or is not open (`CopiedTabs`) |
| `EventDeliveryProofs!PostedExactlyAlways` | the goroutines of the addresses start last, all in one step; `Course` says of an event on its way that it may be wanted by its subscription and that it is only in channels that are enabled |
| `EventDeliveryProofs!DeliveryAlwaysGoesOn`, `PostsAlwaysGoOn` | attempts left, place within an attempt, dials left and tabs left only go down in that order (`Further`), and each goroutine moves alone. With finitely many tabs that order is finite, which is what `WebhookReached` needs besides fairness |
| `EventDeliveryProofs!TablesAgree` | each group of the global queues is a subset of what the subscription of that name delivers |
| `TypebotProofs!PauseIsKept` | `PauseHolds` speaks of the rows updated last; `PauseFound` adds that there is one, or the next message would open a session over the pause |
| `TypebotProofs!OrderIsKept` | one open session is not inductive: `InOrder` says, unless the operator rearranged the sessions, of the goroutine in work, that it alone is, that its row is the one updated last and unchanged since it was read, that its flow is kept, and `Counts` that the count it carries is that of the answers. `Opened` and `FreshCount` relate rows to the flows used |
| `RuntimeSettingsProofs!SettingPrevails` | `Carried`: while one piece of work is on its way, each copy of the setting is the value asked for or is still to be replaced by the one who carries it; `Generations` and `LoopsApplied` tie each goroutine of the presence to what was applied with its generation, `Gone` the deleted row to a pairing that still holds a copy |
| `RuntimeSettingsProofs!OneGoroutineEach`, `StoppedStaysStopped` | a generation is handed out under the lock and is greater than all before it (`Generations`); it is that of one goroutine or of one handler that is about to start it (`OnePresence`), and a channel that was closed is replaced by a later one or by none |

The assumptions are the named ASSUMEs of the modules (natural or positive bounds,
`NoToken` outside `Tokens`, maps into known events), which TLC evaluates.

Only model-checked:

- the liveness properties (`StopReachesRuntime`, `SlotReleased`, `NeverForgotten`,
  `WindowCloses`, `WebhookReached`, `Answered`, `PresenceFollows`), since fairness
  and ENABLED are out of the prover's reach. For five of them the part that needs
  neither is a theorem, that the steps lead one way and nothing is taken back on it:
  `StopsGoThrough`, `HolderAlwaysGoesOn`, `WindowAlwaysCloses`,
  `DeliveryAlwaysGoesOn` with `PostsAlwaysGoOn`, and `StepsGoFurther`. What they
  leave to fairness is that a step that can be taken is taken.
- that the 105 recipes are in the order `OrderAssumption` asks for, a table to
  evaluate rather than to reason about;
- the violations, which are traces.

## 6. Limits of the models

- The database answers or fails as a whole; locks of rows, and the failure of a
  write that the code only logs, are modelled where a property depends on them
  (receipts, the supervisor's reads) and left out elsewhere.
- In the supervisor, `StartClient`'s reservation is atomic with `StartInstance`;
  a signal may be missed while the runtime starts (`RuntimeRegistry` has the
  detail); a ban only lengthens the delay; deleting a device is one step with the
  logout that causes it; delete of an instance is not included. `StartClient` of an
  instance without a device writes both columns a moment after the start, with the
  reason it has read; the model writes the flag with the start.
- In `RuntimeSettings`, `SendPresence` through a client that is logged in succeeds
  (the code tries three times to be unavailable again after a pulse, then leaves it
  at that until the next), and a runtime starts from the row as `StartInstance`
  reads it, where /connect passes on what its middleware read.
- In `QRWindow` a batch of codes comes while no emitter of its runtime is at work,
  as whatsmeow sends them.
- Times are order only: delays end, entries expire, nothing has a length.
- `Requests` has one request at a time: two of them meet only in what they share,
  which the other modules have. Loops over the items of a body run twice
  (`Items`). The content of messages, and what WhatsApp answers, is left out.
- `Typebot` has one contact of one instance; the cache of own numbers is the choice
  to leave a message alone, the bucket of sends a delay.
- Not modelled: the license (obfuscated upstream code, and open by default), NATS,
  the bodies of events, the recovery of the app state, storage, telemetry and the
  manager; `PROJECT.json` says why for each component. The old table of messages
  (`DATABASE_SAVE_MESSAGES`, off by default) is left out.

Observations made while modelling. The first five were traces of these modules;
the properties that showed them are not part of the runs, since nothing that holds
is lost with them:

- *A runtime that cannot be stopped.* `ClearInstanceCache` looks for a runtime
  (`whatsmeow.go:2965`) and deletes the kill channel under another lock. A runtime
  reserved in between loses its channel, which the comment above rules out.
- *A restart announced as a logout.* When the wait of `restartInstance` times out
  while the runtime already leaves, its mark is removed (`runtime_lifecycle.go:219`)
  and the kill branch announces LoggedOut.
- *The passkey code hidden.* SubmitPasskeyResponse writes "awaiting confirmation"
  (`whatsmeow.go:3110`) after the event with the code was handled; written by
  instance, it takes the challenge of a newer ceremony for answered as well.
- *A dead QR code served.* The emitter stores a code whose checks are several calls
  old (`qr_env.go:74`); the runtime has ended, and the next reader gets the code.
- *A broker failure takes the webhook with it.* Two goroutines reconnect; one fails
  and sets `p.conn` to nil under the other (`rabbitmq_producer.go:105`), which
  panics and, recovered, skips WebSocket and webhook.
- `SendList` takes its client without waiting for a session: unless the number is
  looked up, it answers 500 where `docs/CHANGELOG-0.8.0-E-CATALOGO-DE-ROTAS.md:11`
  promises 409 of every `/send/*`.
- A request to a service other than the send service starts an instance its
  operator disconnected (`ensureClientConnected`), and leaves it started when the
  request then fails: so may 54 operations, with nothing else left behind.
- Joining a community to its groups overwrites the list of successes with the one
  of failures (`community_service.go:123`, `154`).
- `UpdateBot` reads, changes and saves the whole row; two requests lose one change.
- Writing the status of an older session makes it the one in use; a message in work
  brings a deleted session back; two first messages at once open two sessions, and
  messages at once may count as one (`typebot_service.go:120`); a message the Typebot
  fails to answer is not counted.
- Of two reconciliations at once the older value may stay, as the setting is read
  before the lock (`presence.go:32`).
- A reconciliation between `stopPresence` and the end of the session leaves a
  goroutine behind until its next timer.
- The pairing saves the whole row: it brings a deleted row back, and takes settings
  back that were written since it read.
- LoggedOut may be announced up to three times for one logout (the event, the
  kill branch, the API).
- A panic recovered at the top of the supervisor's goroutine
  (`runtime_lifecycle.go:322`) would leave the slot taken until a restart.
- A disconnect of an instance without a client starts it first
  (`ensureClientConnected`).
- A passkey ceremony that fails leaves a runtime whose emitter has gone
  (`qr_emitter.go:101`); an emitter past its checks may write over the row of the
  next runtime (`qr_emitter.go:73`).
- A batch of receipts with some new ids goes to the webhook whole; a receipt of
  another device of the account takes the key of the contact's
  (`whatsmeow.go:1915-1932`); batches with the same ids in another order can
  deadlock in Postgres, which loses one of them.
- Publications ask for confirms that nobody reads; `CallWebhook`'s default
  subscription is unreachable, since `strings.Split` never returns fewer than
  one part (`whatsmeow.go:2354`); retries of webhooks overtake each other.
- A failure to list the instances refreshes the typebot's cache of own numbers all
  the same (`protection.go:89`): for a minute, not only "the next message" as 59-63
  says, other instances of the server are answered.

## 7. Plan

Done: registry, supervisor, passkey, QR window, receipts, event delivery, then the
requests, the typebot and the settings. What would come next:

1. The bucket of sends (`protection.go:135-224`), with the theorem that any run of
   sends takes at least the time the rate asks for.
2. Two requests at once over one row, with the columns they share.
3. The supervisor over the registry's abstraction (`SocketLease`), instead of the
   reduced runtime it has.
4. The recovery of the app state.
5. The part of `NeverForgotten` and `PresenceFollows` that needs no fairness, as a
   theorem like those of the other liveness properties.

A project of about a dozen runs stays easy to repeat, so a run that shows a defect
is kept only while the property is not simply one of the observations above.
