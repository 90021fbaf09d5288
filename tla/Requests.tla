------------------------------ MODULE Requests ------------------------------
(***************************************************************************)
(* One request to the API, from the router to its answer, while the        *)
(* runtime of the instance it is about goes up and down.                   *)
(*                                                                         *)
(* What a request does is a recipe (RequestSteps).  The actions below run  *)
(* any recipe: the checks of the router and of the handler, the two ways   *)
(* to get hold of a client (the services start an instance that has none,  *)
(* the send service waits for the supervisor), the calls to WhatsApp, the  *)
(* writes, and what each failure leads to.                                 *)
(***************************************************************************)
EXTENDS RequestSteps, NumberFields

CONSTANTS Recipe,    \* the recipe of each operation
          Leaves,    \* the kinds of change each may leave behind when it fails later
          MaxGen,    \* clients the instance has, one after the other
          MaxMoves   \* what happens to the instance during one request

Ops == DOMAIN Recipe

ASSUME RequestsAssumption ==
  /\ MaxGen \in Nat \ {0} /\ MaxMoves \in Nat
  /\ Leaves \in [Ops -> SUBSET Changes]
  /\ \A o \in Ops :
       /\ Recipe[o] \in Seq(StageSet)
       /\ Recipe[o] # << >>
       /\ \A p \in DOMAIN Recipe[o] : Recipe[o][p].steps # << >>

\* The order of the steps in the handlers and services (RequestSteps).
ASSUME OrderAssumption ==
  \A o \in Ops :
    /\ SendsOnce(Recipe[o])
    /\ ChecksFirst(Recipe[o], Leaves[o])
    /\ Has(Recipe[o], "bind") => ParsesFirst(Recipe[o])

VARIABLES
  op,          \* what is asked for
  recipe,      \* its recipe
  caller,      \* whose key the request carries
  ownId,       \* the request names the id of its message
  field,       \* the number, as the validators left it
  stage, step, attempt,  \* where the request is
  waiting,     \* what it waits for: nothing, the start it asked for, the supervisor
  held,        \* the client it holds, by generation; 0 is nil
  did,         \* the steps that changed something
  copies,      \* of each stage, the messages the recipient can tell apart
  cuts,        \* transmissions that ended with the socket dropping
  answer,
  client,      \* the entry of the map: none, a client whose socket is down, or up
  gen,         \* its generation
  paired,      \* its device has an id
  decision,    \* reconnectDecision of the row
  moves

position == <<stage, step, attempt, waiting>>
result   == <<did, copies, cuts>>
instance == <<client, gen, paired, decision, moves>>
request  == <<op, recipe, caller, ownId>>
vars     == <<request, field, position, held, result, answer, instance>>

Callers == {"admin", "owner", "foreign", "nobody"}

\* Whose keys each of the three middlewares and authorizeInstanceScope let pass.
\* With Auth the key itself says which instance the request is about.
MayPass(who) ==
  CASE who = "Auth" -> {"owner"}
    [] who = "AuthAdmin" -> {"admin"}
    [] who = "AuthInstanceOrAdmin" -> {"admin", "owner", "foreign"}
    [] OTHER -> {"admin", "owner"}

TypeOK ==
  /\ op \in Ops /\ recipe = Recipe[op] /\ caller \in Callers /\ ownId \in BOOLEAN
  /\ field \in [form : BOOLEAN, is : Fields \ {"refused"}]
  /\ stage \in DOMAIN recipe /\ step \in DOMAIN recipe[stage].steps
  /\ attempt \in 1..recipe[stage].attempts
  /\ waiting \in {"nothing", "start", "supervisor"}
  /\ held \in 0..MaxGen
  /\ did \subseteq Nat \X Nat
  /\ copies \in [DOMAIN recipe -> Nat]
  /\ cuts \in Nat
  /\ answer \in {"none", "ok", "refused", "conflict", "failed"}
  /\ client \in {"none", "down", "up"} /\ gen \in 0..MaxGen /\ paired \in BOOLEAN
  /\ decision \in {"proceed", "later", "stop"}
  /\ moves \in 0..MaxMoves

-----------------------------------------------------------------------------
Steps   == recipe[stage].steps
Current == Steps[step]
Here    == <<stage, step>>

\* a step of later attempts only, on the first one
TooEarly == Current.late /\ attempt = 1

At(kind) == answer = "none" /\ waiting = "nothing" /\ Current.kind = kind /\ ~TooEarly

(***************************************************************************)
(* On to the next step, to the next stage, or the handler answers 200.     *)
(***************************************************************************)
LeaveStage ==
  IF stage < Len(recipe)
  THEN stage' = stage + 1 /\ step' = 1 /\ attempt' = 1 /\ UNCHANGED answer
  ELSE answer' = "ok" /\ UNCHANGED <<stage, step, attempt>>

Advance ==
  /\ waiting' = "nothing"
  /\ IF step < Len(Steps) THEN step' = step + 1 /\ UNCHANGED <<stage, attempt, answer>>
     ELSE LeaveStage

\* Mutant of Repeats: one attempt too many.
RepeatsOnceMore(dropped) ==
  /\ Current.fails = "again" \/ (Current.fails = "retry" /\ dropped)
  /\ attempt <= recipe[stage].attempts

\* Mutant of Repeats: whatever the error.
RepeatsOnAnyError(dropped) ==
  /\ Current.fails \in {"again", "retry"}
  /\ attempt < recipe[stage].attempts

(***************************************************************************)
(* The step failed; dropped says that the error is the one of a socket     *)
(* that is not there (isConnectionDrop).                                   *)
(***************************************************************************)
Repeats(dropped) ==
  /\ Current.fails = "again" \/ (Current.fails = "retry" /\ dropped)
  /\ attempt < recipe[stage].attempts

\* writeSendError: no session is a 409; an address that was refused is a 422
Verdicts ==
  IF Current.fails = "refuse" THEN {"refused"}
  ELSE IF Current.kind = "session" THEN {"conflict"}
  ELSE IF Current.arg = "url" THEN {"refused", "failed"} ELSE {"failed"}

\* Mutant of Fail: an error the code logs and goes on after is the answer.
FailOnIgnored(dropped) ==
  /\ waiting' = "nothing"
  /\ IF Repeats(dropped)
     THEN step' = 1 /\ attempt' = attempt + 1 /\ UNCHANGED <<stage, answer>>
     ELSE answer' \in Verdicts /\ UNCHANGED <<stage, step, attempt>>

Fail(dropped) ==
  IF Current.fails = "ignore" THEN Advance
  ELSE /\ waiting' = "nothing"
       /\ IF Repeats(dropped)
          THEN step' = 1 /\ attempt' = attempt + 1 /\ UNCHANGED <<stage, answer>>
          ELSE answer' \in Verdicts /\ UNCHANGED <<stage, step, attempt>>

\* the client the request holds is the one that runs, and its session is up
Usable == held # 0 /\ held = gen /\ client = "up" /\ paired
-----------------------------------------------------------------------------
(***************************************************************************)
(* The router and the handler.                                             *)
(***************************************************************************)
\* the path names an instance, which need not be the one of the key
NamesInstance == \E s \in StepsOf(recipe) : s.arg = "AuthInstanceOrAdmin"

Init ==
  /\ op \in Ops /\ recipe = Recipe[op] /\ caller \in Callers
  /\ caller = "foreign" => NamesInstance
  /\ ownId \in IF Has(recipe, "send") THEN BOOLEAN ELSE {FALSE}
  /\ field = [form |-> FALSE, is |-> "missing"]
  /\ stage = 1 /\ step = 1 /\ attempt = 1 /\ waiting = "nothing" /\ held = 0
  /\ did = {} /\ copies = [s \in DOMAIN recipe |-> 0] /\ cuts = 0
  /\ answer = "none"
  /\ client \in {"none", "down", "up"} /\ gen = IF client = "none" THEN 0 ELSE 1
  /\ paired \in BOOLEAN /\ decision \in IF paired THEN {"proceed", "later", "stop"} ELSE {"stop"}
  /\ moves = 0

\* the request does without this step, or without the whole stage
Skip ==
  /\ answer = "none" /\ waiting = "nothing" /\ (Current.opt \/ TooEarly)
  /\ Advance /\ UNCHANGED <<request, field, held, result, instance>>

SkipStage ==
  /\ answer = "none" /\ waiting = "nothing"
  /\ recipe[stage].opt /\ step = 1 /\ attempt = 1
  /\ LeaveStage /\ UNCHANGED <<waiting, request, field, held, result, instance>>

Authenticate ==
  /\ At("allow")
  /\ IF caller \in MayPass(Current.arg) THEN Advance ELSE Fail(FALSE)
  /\ UNCHANGED <<request, field, held, result, instance>>

ValidateNumber ==
  /\ At("number")
  /\ \E content \in Contents, number \in Shapes, formatJid \in BOOLEAN :
       /\ content = "form" => number \in Texts
       /\ LET seen == Validated(Current.arg, content, number, formatJid)
          IN IF seen = "refused" THEN Fail(FALSE) /\ UNCHANGED field
             ELSE Advance /\ field' = [form |-> content = "form", is |-> seen]
  /\ UNCHANGED <<request, held, result, instance>>

Bind ==
  /\ At("bind")
  /\ \/ Readable(Current.arg, field.form, field.is) /\ Advance
     \/ Fail(FALSE)
  /\ UNCHANGED <<request, field, held, result, instance>>

RequireNumber ==
  /\ At("present")
  /\ IF field.is \in NoNumber THEN Fail(FALSE) ELSE Advance
  /\ UNCHANGED <<request, field, held, result, instance>>

\* Mutant of ParseNumber: ParseJID's second result is ignored.
ParseNotEmpty ==
  /\ At("parse")
  /\ IF field.is \in NoNumber THEN Fail(FALSE) ELSE Advance
  /\ UNCHANGED <<request, field, held, result, instance>>

\* ParseJID and the like, on what the handler handed over
ParseNumber ==
  /\ At("parse")
  /\ IF field.is \in NoNumber \union NotJids THEN Fail(FALSE) ELSE Advance
  /\ UNCHANGED <<request, field, held, result, instance>>

\* a check of the request, or something read: it succeeds or it does not
Look ==
  /\ At("check") \/ At("local")
  /\ Advance \/ Fail(FALSE)
  /\ UNCHANGED <<request, field, held, result, instance>>

-----------------------------------------------------------------------------
(***************************************************************************)
(* ensureClientConnected of the services.  Without a client it starts the  *)
(* instance, whatever took it down, and looks again after two seconds.     *)
(* What it started stays, whatever becomes of the request.                 *)
(***************************************************************************)
EnsureConnected ==
  /\ At("client") /\ client # "none"
  /\ IF client = "up" THEN held' = gen /\ Advance ELSE Fail(FALSE) /\ UNCHANGED held
  /\ UNCHANGED <<request, field, result, instance>>

EnsureStarts ==
  /\ At("client") /\ client = "none"
  /\ \/ /\ waiting' = "start" /\ did' = did \union {Here}
        /\ UNCHANGED <<stage, step, attempt, answer>>
     \/ Fail(FALSE) /\ UNCHANGED did
  /\ UNCHANGED <<request, field, held, copies, cuts, instance>>

EnsureLooksAgain ==
  /\ answer = "none" /\ waiting = "start"
  /\ IF client = "up" THEN held' = gen /\ Advance ELSE Fail(FALSE) /\ UNCHANGED held
  /\ UNCHANGED <<request, field, result, instance>>

(***************************************************************************)
(* ConnectedClient: it waits for a paired instance that reconnects, and    *)
(* asks the supervisor once when there is no runtime and there should be   *)
(* one.  Its error is one isConnectionDrop knows.                          *)
(***************************************************************************)
SessionReady == client = "up" /\ paired
SessionGone  == client # "none" /\ ~paired

TakeSession ==
  /\ \/ At("session")
     \/ answer = "none" /\ waiting = "supervisor"
  /\ SessionReady
  /\ held' = gen /\ Advance
  /\ UNCHANGED <<request, field, result, instance>>

SessionAbsent ==
  /\ \/ At("session") /\ (SessionGone \/ (client = "none" /\ decision = "stop"))
     \/ answer = "none" /\ waiting = "supervisor" /\ SessionGone
  /\ Fail(TRUE)
  /\ UNCHANGED <<request, field, held, result, instance>>

AskSupervisor ==
  /\ At("session") /\ client = "none" /\ decision # "stop"
  /\ waiting' = "supervisor"
  /\ UNCHANGED <<request, field, stage, step, attempt, held, result, answer, instance>>

AwaitSession ==
  /\ At("session") /\ client = "down" /\ paired
  /\ waiting' = "supervisor"
  /\ UNCHANGED <<request, field, stage, step, attempt, held, result, answer, instance>>

\* Mutant of SessionTimesOut: the wait has no deadline while the instance
\* should be up.
SessionWaitsOn ==
  /\ answer = "none" /\ waiting = "supervisor" /\ ~SessionReady /\ decision = "stop"
  /\ Fail(TRUE)
  /\ UNCHANGED <<request, field, held, result, instance>>

SessionTimesOut ==
  /\ answer = "none" /\ waiting = "supervisor" /\ ~SessionReady
  /\ Fail(TRUE)
  /\ UNCHANGED <<request, field, held, result, instance>>

RereadMap ==
  /\ At("reread")
  /\ held' = IF client = "none" THEN 0 ELSE gen
  /\ Advance
  /\ UNCHANGED <<request, field, result, instance>>

-----------------------------------------------------------------------------
(***************************************************************************)
(* WhatsApp.  A call may fail although it took effect: its answer is lost. *)
(* A nil client answers ErrClientIsNil, which is no drop.                  *)
(***************************************************************************)
AskWhatsApp ==
  /\ At("ask")
  /\ \/ Usable /\ Advance
     \/ Fail(held # 0 /\ ~Usable)
  /\ UNCHANGED <<request, field, held, result, instance>>

ActOnAccount ==
  /\ At("act")
  /\ \/ /\ Usable /\ did' = did \union {Here}
        /\ Advance \/ Fail(FALSE)
     \/ Fail(held # 0 /\ ~Usable) /\ UNCHANGED did
  /\ UNCHANGED <<request, field, held, copies, cuts, instance>>

\* one more message for the recipient, unless the id is one he already has
Transmit ==
  /\ did' = did \union {Here}
  /\ copies' = [copies EXCEPT ![stage] = IF ownId /\ Current.arg = "id" /\ @ > 0 THEN @ ELSE @ + 1]

SendMessageTo ==
  /\ At("send")
  /\ \/ /\ Usable /\ Transmit
        /\ Advance \/ Fail(FALSE)
     \/ Fail(held # 0 /\ ~Usable) /\ UNCHANGED <<did, copies>>
  /\ UNCHANGED <<request, field, held, cuts, instance>>

\* The socket drops with the message on its way.  Whether isConnectionDrop
\* knows the text of that error is for the library to say.
SendIsCut ==
  /\ At("send") /\ Usable /\ moves < MaxMoves
  /\ Transmit /\ cuts' = cuts + 1
  /\ client' = "down" /\ moves' = moves + 1
  /\ \E recognised \in BOOLEAN : Fail(recognised)
  /\ UNCHANGED <<request, field, held, gen, paired, decision>>

\* a device that was removed meanwhile has no id: the handler panics, and answers 500
OwnJid ==
  /\ At("own")
  /\ IF paired THEN Advance ELSE Fail(FALSE)
  /\ UNCHANGED <<request, field, held, result, instance>>

-----------------------------------------------------------------------------
Write ==
  /\ At("save")
  /\ \/ did' = did \union {Here} /\ Advance
     \/ Fail(FALSE) /\ UNCHANGED did
  /\ UNCHANGED <<request, field, held, copies, cuts, instance>>

Run ==
  /\ At("start")
  /\ \/ did' = did \union {Here} /\ Advance
     \/ Fail(FALSE) /\ UNCHANGED did
  /\ UNCHANGED <<request, field, held, copies, cuts, instance>>

EmitEvent ==
  /\ At("emit")
  /\ did' = did \union {Here} /\ Advance
  /\ UNCHANGED <<request, field, held, copies, cuts, instance>>

-----------------------------------------------------------------------------
(***************************************************************************)
(* What happens to the instance meanwhile (RuntimeRegistry and             *)
(* ReconnectSupervisor have the details).                                  *)
(***************************************************************************)
Moves ==
  /\ answer = "none" /\ moves < MaxMoves /\ moves' = moves + 1
  /\ UNCHANGED <<request, field, position, held, result, answer>>

LoseSocket   == Moves /\ client = "up" /\ client' = "down" /\ UNCHANGED <<gen, paired, decision>>
EndRuntime   == Moves /\ client # "none" /\ client' = "none" /\ UNCHANGED <<gen, paired, decision>>
StartRuntime ==
  /\ Moves /\ client = "none" /\ gen < MaxGen
  /\ client' \in {"down", "up"} /\ gen' = gen + 1
  /\ UNCHANGED <<paired, decision>>
Connects     == Moves /\ client = "down" /\ client' = "up" /\ UNCHANGED <<gen, paired, decision>>
OperatorDisconnects ==
  /\ Moves /\ paired /\ decision' = "stop" /\ client' = "none" /\ UNCHANGED <<gen, paired>>
LogOut       ==
  /\ Moves /\ client = "up" /\ paired
  /\ paired' = FALSE /\ decision' = "stop" /\ client' = "down" /\ UNCHANGED gen

RequestStep ==
  \/ Skip \/ SkipStage \/ Authenticate \/ ValidateNumber \/ Bind \/ RequireNumber
  \/ ParseNumber \/ Look
  \/ EnsureConnected \/ EnsureStarts \/ EnsureLooksAgain
  \/ TakeSession \/ SessionAbsent \/ AskSupervisor \/ AwaitSession \/ SessionTimesOut \/ RereadMap
  \/ AskWhatsApp \/ ActOnAccount \/ SendMessageTo \/ SendIsCut \/ OwnJid
  \/ Write \/ Run \/ EmitEvent

InstanceMove ==
  LoseSocket \/ EndRuntime \/ StartRuntime \/ Connects \/ OperatorDisconnects \/ LogOut

Next == RequestStep \/ InstanceMove

\* a request that can go on does: its goroutine runs, and every wait of it ends
Spec == Init /\ [][Next]_vars /\ WF_vars(RequestStep)
-----------------------------------------------------------------------------
(***************************************************************************)
(* What the requests must keep.                                            *)
(***************************************************************************)
Refusals == {"refused", "conflict", "failed"}

KindAt(d) == recipe[d[1]].steps[d[2]].kind

\* A request that is answered with an error has left nothing behind but what
\* the failed call itself may have done and the kinds of change in Leaves: no
\* handler writes, sends, calls WhatsApp, starts or stops a runtime before a
\* check that can still fail, unless Leaves says so of that operation. A
\* transmission the socket dropped under, and a device removed under the
\* request, are beyond the handlers.
AllOrNothing ==
  answer \in Refusals /\ cuts = 0 /\ paired =>
    \A d \in did : d = Here \/ KindAt(d) \in Leaves[op]

\* The loops of the send service repeat a message only when the socket
\* dropped under it, so that a recipient gets one message more for each drop
\* at most, and never more than the loop has attempts; under the id of the
\* request he gets one.
SendsWithId(p) ==
  \A i \in DOMAIN recipe[p].steps :
     recipe[p].steps[i].kind = "send" => recipe[p].steps[i].arg = "id"

NoRepeatUnlessDropped ==
  \A p \in DOMAIN recipe :
     /\ copies[p] <= 1 + cuts /\ copies[p] <= recipe[p].attempts
     /\ ownId /\ SendsWithId(p) => copies[p] <= 1

\* No message leaves, and no account changes, for a number no JID can be made
\* of, whatever validator the route has and whatever content type hides the
\* number from it. By then the runtime may have been started for the request.
ActsOnANumber ==
  (\E d \in did : KindAt(d) \in Acts) /\ Has(recipe, "bind") =>
    field.is \in {"digits", "jid", "jids", "list"}

\* Every request is answered, however often the socket drops and the runtime
\* goes: no wait for a session and no repetition is without end.
Answered == <>(answer # "none")

\* send_handler.go, writeSendError: a 409 tells the client to reconnect the
\* instance, apart from a send that failed.  With no transmission cut, nothing
\* was sent then.
ConflictMeansNothingSent ==
  answer = "conflict" /\ cuts = 0 => \A p \in DOMAIN copies : copies[p] = 0
=============================================================================
