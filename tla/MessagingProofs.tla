--------------------------- MODULE MessagingProofs ---------------------------
(***************************************************************************)
(* Proofs about the requests to the API (Requests) and about the receipts  *)
(* of the messages they send (MessageReceipts).                            *)
(*                                                                         *)
(* The requests.  The theorems hold for every table of operations: all     *)
(* that they ask of a recipe is the order OrderAssumption names.  They say *)
(* why the handlers are right: what can fail comes before what changes     *)
(* something, but for the kinds of change Leaves names, a stage sends one  *)
(* message and nothing after it starts the stage again, and a JID is made  *)
(* of the number before anything is acted on.                              *)
(*                                                                         *)
(* The receipts, for every set of messages and every range of timestamps.  *)
(* RowIsEarliest is inductive together with the types: a write adds its    *)
(* date to the set of dates seen of each column it sets and the upsert     *)
(* takes the minimum of the two; a cleanup forgets the row and the dates   *)
(* at once.  DeliveredByThen follows from it, and the two action           *)
(* properties from what LEAST does to a date.                              *)
(***************************************************************************)
EXTENDS Requests, MessageReceipts, TLAPS

\* What the validators hand on is one of the fields they may hand on.
LEMMA ValidatedType ==
    ASSUME NEW form, NEW content \in Contents, NEW number \in Shapes, NEW formatJid \in BOOLEAN
    PROVE  Validated(form, content, number, formatJid) \in Fields
<1> USE DEF Contents, Shapes, Fields
<1>1. JIDFields(content, number) \in Fields
  BY DEF JIDFields, FormField, Normalized
<1>2. NumberField(content, number) \in Fields
  BY DEF NumberField, FormField, Normalized
<1>3. NumberFieldWithFormatJid(content, number, formatJid) \in Fields
  BY DEF NumberFieldWithFormatJid, Normalized
<1>4. MultipleNumbers(content, number) \in Fields
  BY DEF MultipleNumbers
<1>5. ContactFields(content, number) \in Fields
  BY DEF ContactFields, Normalized
<1> HIDE DEF Fields
<1> QED
  BY <1>1, <1>2, <1>3, <1>4, <1>5 DEF Validated

-----------------------------------------------------------------------------
\* The recipes have stages, and the stages steps.
LEMMA RecipeType ==
    ASSUME NEW o \in Ops
    PROVE  /\ Len(Recipe[o]) \in Nat \ {0}
           /\ DOMAIN Recipe[o] = 1 .. Len(Recipe[o])
           /\ \A p \in DOMAIN Recipe[o] :
                /\ Recipe[o][p] \in StageSet
                /\ Recipe[o][p].attempts \in Nat \ {0}
                /\ Recipe[o][p].opt \in BOOLEAN
                /\ Recipe[o][p].steps \in Seq(StepSet)
                /\ Len(Recipe[o][p].steps) \in Nat \ {0}
                /\ DOMAIN Recipe[o][p].steps = 1 .. Len(Recipe[o][p].steps)
                /\ \A i \in DOMAIN Recipe[o][p].steps : Recipe[o][p].steps[i] \in StepSet
<1>1. Recipe[o] \in Seq(StageSet) /\ Recipe[o] # << >>
  BY RequestsAssumption
<1>2. Len(Recipe[o]) \in Nat \ {0} /\ DOMAIN Recipe[o] = 1 .. Len(Recipe[o])
  BY <1>1
<1>3. ASSUME NEW p \in DOMAIN Recipe[o]
      PROVE  /\ Recipe[o][p] \in StageSet
             /\ Recipe[o][p].steps # << >>
  BY <1>1, <1>2, <1>3, RequestsAssumption
<1>4. ASSUME NEW st \in StageSet, st.steps # << >>
      PROVE  /\ st.attempts \in Nat \ {0}
             /\ st.opt \in BOOLEAN
             /\ st.steps \in Seq(StepSet)
             /\ Len(st.steps) \in Nat \ {0}
             /\ DOMAIN st.steps = 1 .. Len(st.steps)
             /\ \A i \in DOMAIN st.steps : st.steps[i] \in StepSet
  <2>1. st.attempts \in Nat \ {0} /\ st.opt \in BOOLEAN /\ st.steps \in Seq(StepSet)
    BY <1>4 DEF StageSet
  <2> QED
    BY <1>4, <2>1
<1> QED
  BY <1>2, <1>3, <1>4

\* Where a request is, in terms of its recipe.
LEMMA PlaceType ==
    ASSUME TypeOK
    PROVE  /\ Len(recipe) \in Nat \ {0}
           /\ DOMAIN recipe = 1 .. Len(recipe)
           /\ \A p \in DOMAIN recipe :
                /\ recipe[p].attempts \in Nat \ {0}
                /\ recipe[p].opt \in BOOLEAN
                /\ Len(recipe[p].steps) \in Nat \ {0}
                /\ DOMAIN recipe[p].steps = 1 .. Len(recipe[p].steps)
                /\ \A i \in DOMAIN recipe[p].steps : recipe[p].steps[i] \in StepSet
           /\ stage \in Nat \ {0} /\ step \in Nat \ {0} /\ attempt \in Nat \ {0}
           /\ Current \in StepSet
BY RecipeType DEF TypeOK, Current, Steps

-----------------------------------------------------------------------------
(***************************************************************************)
(* The three things a step does with the request: it goes on, it starts    *)
(* the stage again, or it ends the request with an error.                  *)
(***************************************************************************)
Onward ==
  /\ waiting' = "nothing"
  /\ \/ step < Len(Steps) /\ step' = step + 1 /\ UNCHANGED <<stage, attempt, answer>>
     \/ /\ step = Len(Steps) \/ recipe[stage].opt
        /\ stage < Len(recipe) /\ stage' = stage + 1 /\ step' = 1 /\ attempt' = 1
        /\ UNCHANGED answer
     \/ answer' = "ok" /\ UNCHANGED <<stage, step, attempt>>

Restarts ==
  /\ waiting' = "nothing" /\ Current.fails \in {"again", "retry"}
  /\ attempt < recipe[stage].attempts /\ attempt' = attempt + 1 /\ step' = 1
  /\ UNCHANGED <<stage, answer>>

Ends ==
  /\ waiting' = "nothing" /\ Current.fails # "ignore"
  /\ answer' \in Refusals /\ UNCHANGED <<stage, step, attempt>>
  /\ answer' = "conflict" => Current.kind = "session"

LEMMA AdvanceOnward ==
    ASSUME TypeOK, Advance
    PROVE  Onward
BY PlaceType DEF Advance, LeaveStage, Onward, TypeOK, Steps

LEMMA FailCases ==
    ASSUME TypeOK, NEW dropped \in BOOLEAN, Fail(dropped)
    PROVE  \/ Onward /\ Current.fails = "ignore"
           \/ Restarts /\ (dropped \/ Current.fails = "again")
           \/ Ends
<1>1. CASE Current.fails = "ignore"
  BY <1>1, AdvanceOnward DEF Fail
<1>2. CASE Current.fails # "ignore"
  BY <1>2 DEF Fail, Repeats, Verdicts, Restarts, Ends, Refusals
<1> QED
  BY <1>1, <1>2

\* The place of a request stays in its recipe.
LEMMA PlaceKept ==
    ASSUME TypeOK, UNCHANGED request, answer = "none", Onward \/ Restarts \/ Ends
    PROVE  /\ stage' \in DOMAIN recipe' /\ step' \in DOMAIN recipe'[stage'].steps
           /\ attempt' \in 1 .. recipe'[stage'].attempts
           /\ waiting' = "nothing"
           /\ answer' \in {"none", "ok", "refused", "conflict", "failed"}
<1> DEFINE S(p) == DOMAIN recipe[p].steps
           A(p) == recipe[p].attempts
<1>1. recipe' = recipe
  BY DEF request
<1>2. /\ DOMAIN recipe = 1 .. Len(recipe) /\ Len(recipe) \in Nat
      /\ \A p \in DOMAIN recipe : /\ S(p) = 1 .. Len(recipe[p].steps)
                                /\ Len(recipe[p].steps) \in Nat \ {0}
                                /\ A(p) \in Nat \ {0}
      /\ stage \in DOMAIN recipe /\ step \in S(stage) /\ attempt \in 1 .. A(stage)
  BY PlaceType DEF TypeOK
<1>3. SUFFICES /\ stage' \in DOMAIN recipe /\ step' \in S(stage')
               /\ attempt' \in 1 .. A(stage')
  BY <1>1 DEF Onward, Restarts, Ends, Refusals
<1>4. \A p \in DOMAIN recipe : 1 \in S(p) /\ 1 \in 1 .. A(p)
  BY <1>2
<1>5. CASE UNCHANGED <<stage, step, attempt>>
  BY <1>2, <1>5
<1>6. CASE step < Len(Steps) /\ step' = step + 1 /\ UNCHANGED <<stage, attempt>>
  BY <1>2, <1>6 DEF Steps
<1>7. CASE stage < Len(recipe) /\ stage' = stage + 1 /\ step' = 1 /\ attempt' = 1
  <2>1. stage' \in DOMAIN recipe
    BY <1>2, <1>7
  <2> QED
    BY <1>4, <1>7, <2>1
<1>8. CASE attempt < A(stage) /\ attempt' = attempt + 1 /\ step' = 1 /\ UNCHANGED stage
  BY <1>2, <1>4, <1>8
<1> QED
  BY <1>5, <1>6, <1>7, <1>8 DEF Onward, Restarts, Ends

-----------------------------------------------------------------------------
(***************************************************************************)
(* What the steps of a request have in common.  A step that waits leaves   *)
(* the request where it is, with a runtime it may have started; every      *)
(* other one moves the request, and is one of                              *)
(* those that change nothing, those that change something, and those that  *)
(* transmit a message, with the socket dropping under it or not.           *)
(***************************************************************************)
Waits ==
  /\ waiting = "nothing" /\ waiting' \in {"start", "supervisor"}
  /\ waiting' = "start" => Current.kind = "client" /\ did' = did \union {Here}
  /\ waiting' = "supervisor" => Current.kind = "session" /\ did' = did
  /\ UNCHANGED <<stage, step, attempt, answer, copies, cuts>>

\* what goes on fails when the device is gone only, and the request with it
Fails ==
  /\ Restarts \/ Ends
  /\ waiting = "start" => Ends \/ Current.fails = "again"
  /\ GoesOn(Current) => Ends /\ Current.kind = "own" /\ paired = FALSE

Idle == UNCHANGED result /\ (Onward \/ Fails)

ChangesSomething ==
  /\ Current.kind \in Acts \ {"send"} /\ did' = did \union {Here}
  /\ UNCHANGED <<copies, cuts>>
  /\ Onward \/ Ends \/ (Restarts /\ Current.fails = "again")
  /\ Current.kind = "emit" => Onward

Transmits ==
  /\ Current.kind = "send" /\ Transmit /\ UNCHANGED cuts
  /\ Onward \/ Ends \/ (Restarts /\ Current.fails = "again")

IsCut ==
  /\ Current.kind = "send" /\ Transmit /\ cuts' = cuts + 1
  /\ Onward \/ Ends \/ Restarts

\* a request waits where it asked for a client
WaitsForAClient ==
  /\ waiting = "start" => Current.kind = "client"
  /\ waiting = "supervisor" => Current.kind = "session"

LEMMA StepCases ==
    ASSUME TypeOK, WaitsForAClient, RequestStep
    PROVE  /\ answer = "none" /\ UNCHANGED <<request, paired>>
           /\ Waits \/ Idle \/ ChangesSomething \/ Transmits \/ IsCut
<1> USE DEF At
<1>1. ASSUME NEW dropped \in BOOLEAN, Fail(dropped), UNCHANGED result,
             Current.kind \notin {"reread", "emit"},
             Current.kind = "own" => paired = FALSE,
             waiting = "start" => dropped = FALSE
      PROVE  Idle
  BY <1>1, FailCases DEF Idle, Fails, GoesOn, Restarts, Ends
<1>2. ASSUME Advance, UNCHANGED result
      PROVE  Idle
  BY <1>2, AdvanceOnward DEF Idle
<1>3. ASSUME Advance \/ Fail(FALSE)
      PROVE  Onward \/ Ends \/ (Restarts /\ Current.fails = "again")
  BY <1>3, AdvanceOnward, FailCases
<1>4. CASE Skip
  BY <1>2, <1>4 DEF Skip, instance
<1>5. CASE SkipStage
  <2>1. Onward
    BY <1>5, PlaceType DEF SkipStage, LeaveStage, Onward, TypeOK
  <2> QED
    BY <1>5, <2>1 DEF SkipStage, Idle, instance
<1>6. CASE Authenticate
  BY <1>1, <1>2, <1>6 DEF Authenticate, instance
<1>7. CASE ValidateNumber
  <2>1. Advance \/ Fail(FALSE)
    BY <1>7 DEF ValidateNumber
  <2> QED
    BY <1>1, <1>2, <1>7, <2>1 DEF ValidateNumber, instance
<1>8. CASE Bind
  BY <1>1, <1>2, <1>8 DEF Bind, instance
<1>9. CASE RequireNumber
  BY <1>1, <1>2, <1>9 DEF RequireNumber, instance
<1>10. CASE ParseNumber
  BY <1>1, <1>2, <1>10 DEF ParseNumber, instance
<1>11. CASE Look
  BY <1>1, <1>2, <1>11 DEF Look, instance
<1>12. CASE EnsureConnected
  BY <1>1, <1>2, <1>12 DEF EnsureConnected, instance
<1>13. CASE EnsureStarts
  <2>1. CASE Fail(FALSE) /\ UNCHANGED did
    BY <1>1, <1>13, <2>1 DEF EnsureStarts, result, instance
  <2>2. CASE /\ waiting' = "start" /\ did' = did \union {Here}
             /\ UNCHANGED <<stage, step, attempt, answer>>
    BY <1>13, <2>2 DEF EnsureStarts, Waits, instance
  <2> QED
    BY <1>13, <2>1, <2>2 DEF EnsureStarts
<1>14. CASE EnsureLooksAgain
  BY <1>1, <1>2, <1>14 DEF EnsureLooksAgain, WaitsForAClient, instance
<1>15. CASE TakeSession
  BY <1>2, <1>15 DEF TakeSession, instance
<1>16. CASE SessionAbsent
  BY <1>1, <1>16 DEF SessionAbsent, WaitsForAClient, instance
<1>17. CASE AskSupervisor
  BY <1>17 DEF AskSupervisor, Waits, result, instance
<1>18. CASE AwaitSession
  BY <1>18 DEF AwaitSession, Waits, result, instance
<1>19. CASE SessionTimesOut
  BY <1>1, <1>19 DEF SessionTimesOut, WaitsForAClient, instance
<1>20. CASE RereadMap
  BY <1>2, <1>20 DEF RereadMap, instance
<1>21. CASE AskWhatsApp
  BY <1>1, <1>2, <1>21 DEF AskWhatsApp, instance
<1>22. CASE ActOnAccount
  <2>1. CASE did' = did \union {Here} /\ (Advance \/ Fail(FALSE))
    BY <1>3, <1>22, <2>1 DEF ActOnAccount, ChangesSomething, Acts, instance
  <2>2. CASE Fail(held # 0 /\ ~Usable) /\ UNCHANGED did
    BY <1>1, <1>22, <2>2 DEF ActOnAccount, result, instance
  <2> QED
    BY <1>22, <2>1, <2>2 DEF ActOnAccount
<1>23. CASE SendMessageTo
  <2>1. CASE Transmit /\ (Advance \/ Fail(FALSE))
    BY <1>3, <1>23, <2>1 DEF SendMessageTo, Transmits, instance
  <2>2. CASE Fail(held # 0 /\ ~Usable) /\ UNCHANGED <<did, copies>>
    BY <1>1, <1>23, <2>2 DEF SendMessageTo, result, instance
  <2> QED
    BY <1>23, <2>1, <2>2 DEF SendMessageTo
<1>24. CASE SendIsCut
  BY <1>24, FailCases DEF SendIsCut, IsCut
<1>25. CASE OwnJid
  <2>1. CASE paired = TRUE
    BY <1>2, <1>25, <2>1 DEF OwnJid, instance
  <2>2. CASE paired = FALSE
    BY <1>1, <1>25, <2>2 DEF OwnJid, instance
  <2> QED
    BY <2>1, <2>2 DEF TypeOK
<1>26. CASE Write
  <2>1. CASE did' = did \union {Here} /\ Advance
    BY <1>3, <1>26, <2>1 DEF Write, ChangesSomething, Acts, instance
  <2>2. CASE Fail(FALSE) /\ UNCHANGED did
    BY <1>1, <1>26, <2>2 DEF Write, result, instance
  <2> QED
    BY <1>26, <2>1, <2>2 DEF Write
<1>27. CASE Run
  <2>1. CASE did' = did \union {Here} /\ Advance
    BY <1>3, <1>27, <2>1 DEF Run, ChangesSomething, Acts, instance
  <2>2. CASE Fail(FALSE) /\ UNCHANGED did
    BY <1>1, <1>27, <2>2 DEF Run, result, instance
  <2> QED
    BY <1>27, <2>1, <2>2 DEF Run
<1>28. CASE EmitEvent
  BY AdvanceOnward, <1>28 DEF EmitEvent, ChangesSomething, Acts, instance
<1> QED
  BY <1>4, <1>5, <1>6, <1>7, <1>8, <1>9, <1>10, <1>11, <1>12, <1>13, <1>14, <1>15, <1>16,
     <1>17, <1>18, <1>19, <1>20, <1>21, <1>22, <1>23, <1>24, <1>25, <1>26, <1>27, <1>28
     DEF RequestStep

\* The four ways to move, and that no step goes back to an earlier stage.
LEMMA StepMoves ==
    ASSUME TypeOK, WaitsForAClient, RequestStep
    PROVE  /\ Waits \/ Onward \/ Restarts \/ Ends
           /\ stage' \in Nat /\ stage <= stage'
<1>1. Waits \/ Onward \/ Restarts \/ Ends
  BY StepCases DEF Idle, Fails, ChangesSomething, Transmits, IsCut
<1>2. stage' = stage \/ stage' = stage + 1
  BY <1>1 DEF Waits, Onward, Restarts, Ends
<1> QED
  BY <1>1, <1>2, PlaceType

-----------------------------------------------------------------------------
\* What a step of the request does to the number, the client and the instance.
LEMMA RestType ==
    ASSUME TypeOK, RequestStep
    PROVE  /\ field' \in [form : BOOLEAN, is : Fields \ {"refused"}]
           /\ held' \in 0 .. MaxGen
           /\ client' \in {"none", "down", "up"} /\ gen' \in 0 .. MaxGen
           /\ paired' \in BOOLEAN /\ decision' \in {"proceed", "later", "stop"}
           /\ moves' \in 0 .. MaxMoves
<1> USE DEF TypeOK
<1>1. UNCHANGED instance => UNCHANGED <<client, gen, paired, decision, moves>>
  BY DEF instance
<1>2. CASE UNCHANGED <<field, held, instance>>
  BY <1>2 DEF instance
<1>3. CASE ValidateNumber
  <2>1. UNCHANGED <<held, instance>>
    BY <1>3 DEF ValidateNumber
  <2>2. PICK content \in Contents, number \in Shapes, formatJid \in BOOLEAN :
          LET seen == Validated(Current.arg, content, number, formatJid)
          IN IF seen = "refused" THEN Fail(FALSE) /\ UNCHANGED field
             ELSE Advance /\ field' = [form |-> content = "form", is |-> seen]
    BY <1>3 DEF ValidateNumber
  <2>3. Validated(Current.arg, content, number, formatJid) \in Fields
    BY ValidatedType
  <2> DEFINE seen == Validated(Current.arg, content, number, formatJid)
             f == [form |-> content = "form", is |-> seen]
  <2>4. CASE seen = "refused"
    BY <1>1, <2>1, <2>2, <2>4
  <2>5. CASE seen # "refused"
    <3>1. field' = f
      BY <2>2, <2>5
    <3>2. (content = "form") \in BOOLEAN /\ seen \in Fields \ {"refused"}
      BY <2>3, <2>5
    <3>3. f \in [form : BOOLEAN, is : Fields \ {"refused"}]
      <4> HIDE DEF seen
      <4> QED
        BY <3>2
    <3> QED
      BY <1>1, <2>1, <3>1, <3>3
  <2> QED
    BY <2>4, <2>5
<1>4. CASE held' = gen /\ UNCHANGED <<field, instance>>
  BY <1>4 DEF instance
<1>5. CASE RereadMap
  BY <1>5, RequestsAssumption DEF RereadMap, instance
<1>6. CASE SendIsCut
  BY <1>6, RequestsAssumption DEF SendIsCut
<1> QED
  BY <1>2, <1>3, <1>4, <1>5, <1>6
     DEF RequestStep, Skip, SkipStage, Authenticate, Bind, RequireNumber, ParseNumber, Look,
         EnsureConnected, EnsureStarts, EnsureLooksAgain, TakeSession, SessionAbsent,
         AskSupervisor, AwaitSession, SessionTimesOut, AskWhatsApp, ActOnAccount, SendMessageTo,
         OwnJid, Write, Run, EmitEvent

\* The instance moves without the request.
LEMMA MoveCases ==
    ASSUME TypeOK, InstanceMove
    PROVE  /\ UNCHANGED <<request, field, position, held, result, answer>>
           /\ client' \in {"none", "down", "up"} /\ gen' \in 0 .. MaxGen
           /\ paired' \in BOOLEAN /\ paired' \in {paired, FALSE}
           /\ decision' \in {"proceed", "later", "stop"}
           /\ moves' \in 0 .. MaxMoves
<1>1. Moves
  BY DEF InstanceMove, LoseSocket, EndRuntime, StartRuntime, Connects, OperatorDisconnects, LogOut
<1>2. moves' \in 0 .. MaxMoves
  BY <1>1, RequestsAssumption DEF Moves, TypeOK
<1>3. gen' \in 0 .. MaxGen
  BY RequestsAssumption
     DEF TypeOK, InstanceMove, LoseSocket, EndRuntime, StartRuntime, Connects,
         OperatorDisconnects, LogOut
<1>4. paired' = paired \/ paired' = FALSE
  BY DEF InstanceMove, LoseSocket, EndRuntime, StartRuntime, Connects, OperatorDisconnects, LogOut
<1>5. client' \in {"none", "down", "up"} /\ decision' \in {"proceed", "later", "stop"}
  BY DEF TypeOK, InstanceMove, LoseSocket, EndRuntime, StartRuntime, Connects,
         OperatorDisconnects, LogOut
<1> QED
  BY <1>1, <1>2, <1>3, <1>4, <1>5 DEF Moves, TypeOK

\* What a transmission adds to the messages of its stage.
LEMMA TransmitCounts ==
    ASSUME TypeOK, Transmit
    PROVE  /\ did' = did \union {Here}
           /\ copies' \in [DOMAIN recipe -> Nat]
           /\ \A p \in DOMAIN recipe : p # stage => copies'[p] = copies[p]
           /\ copies'[stage] <= copies[stage] + 1
           /\ ownId /\ Current.arg = "id" /\ copies[stage] <= 1 => copies'[stage] <= 1
BY DEF TypeOK, Transmit

LEMMA TypeStep ==
    ASSUME TypeOK, WaitsForAClient, [Next]_vars
    PROVE  TypeOK' /\ WaitsForAClient'
<1>1. CASE RequestStep
  <2>1. answer = "none" /\ UNCHANGED request
    BY <1>1, StepCases
  <2>2. /\ op' \in Ops /\ recipe' = Recipe[op'] /\ caller' \in Callers /\ ownId' \in BOOLEAN
        /\ recipe' = recipe
    BY <2>1 DEF TypeOK, request
  <2>3. Here \in Nat \X Nat
    BY PlaceType DEF Here
  <2>4. did' \subseteq Nat \X Nat /\ copies' \in [DOMAIN recipe -> Nat] /\ cuts' \in Nat
    <3>1. CASE Waits \/ Idle
      BY <2>3, <3>1 DEF Waits, Idle, result, TypeOK
    <3>2. CASE ChangesSomething
      BY <2>3, <3>2 DEF ChangesSomething, TypeOK
    <3>3. CASE Transmits \/ IsCut
      BY <2>3, <3>3, TransmitCounts DEF Transmits, IsCut, TypeOK
    <3> QED
      BY <1>1, <3>1, <3>2, <3>3, StepCases
  <2>5. CASE Waits
    <3>1. UNCHANGED <<stage, step, attempt, answer>> /\ waiting' \in {"start", "supervisor"}
      BY <2>5 DEF Waits
    <3>2. TypeOK'
      BY <1>1, <2>2, <2>4, <3>1, RestType DEF TypeOK
    <3>3. Current' = Current
      BY <2>2, <3>1 DEF Current, Steps
    <3> QED
      BY <2>5, <3>2, <3>3 DEF Waits, WaitsForAClient
  <2>6. CASE Onward \/ Restarts \/ Ends
    <3>1. /\ stage' \in DOMAIN recipe' /\ step' \in DOMAIN recipe'[stage'].steps
          /\ attempt' \in 1 .. recipe'[stage'].attempts
          /\ waiting' = "nothing"
          /\ answer' \in {"none", "ok", "refused", "conflict", "failed"}
      BY <2>1, <2>6, PlaceKept
    <3>2. TypeOK'
      BY <1>1, <2>2, <2>4, <3>1, RestType DEF TypeOK
    <3> QED
      BY <3>1, <3>2 DEF WaitsForAClient
  <2> QED
    BY <1>1, <2>5, <2>6, StepMoves
<1>2. CASE InstanceMove
  BY <1>2, MoveCases
     DEF TypeOK, WaitsForAClient, request, position, result, Current, Steps
<1>3. CASE UNCHANGED vars
  BY <1>3 DEF vars, TypeOK, WaitsForAClient, request, position, result, instance, Current, Steps
<1> QED
  BY <1>1, <1>2, <1>3 DEF Next

LEMMA TypeInit ==
    ASSUME Init
    PROVE  TypeOK /\ WaitsForAClient
<1>1. op \in Ops /\ recipe = Recipe[op]
  BY DEF Init
<1>2. /\ stage \in DOMAIN recipe /\ step \in DOMAIN recipe[stage].steps
      /\ attempt \in 1 .. recipe[stage].attempts
  <2>1. 1 \in DOMAIN recipe /\ recipe = Recipe[op]
    BY <1>1, RecipeType
  <2>2. 1 \in DOMAIN recipe[1].steps /\ 1 \in 1 .. recipe[1].attempts
    BY <1>1, <2>1, RecipeType
  <2> QED
    BY <2>1, <2>2 DEF Init
<1>3. field \in [form : BOOLEAN, is : Fields \ {"refused"}]
  BY DEF Init, Fields
<1>4. ownId \in BOOLEAN
  BY DEF Init
<1>5. gen \in 0 .. MaxGen
  BY RequestsAssumption DEF Init
<1>6. client \in {"none", "down", "up"} /\ paired \in BOOLEAN
      /\ decision \in {"proceed", "later", "stop"}
  BY DEF Init
<1>7. held \in 0 .. MaxGen /\ moves \in 0 .. MaxMoves /\ cuts \in Nat
  BY RequestsAssumption DEF Init
<1>8. did \subseteq Nat \X Nat /\ copies \in [DOMAIN recipe -> Nat]
  BY DEF Init
<1> QED
  BY <1>1, <1>2, <1>3, <1>4, <1>6, <1>7, <1>8, <1>5 DEF Init, TypeOK, WaitsForAClient

\* The variables of a request keep their types, whatever it asks for: in every
\* state it is at a step of its recipe, within its attempts.
THEOREM RequestsTypeCorrect == Spec => []TypeOK
<1>1. Init => TypeOK /\ WaitsForAClient
  BY TypeInit
<1>2. TypeOK /\ WaitsForAClient /\ [Next]_vars => (TypeOK /\ WaitsForAClient)'
  BY TypeStep
<1> QED
  BY <1>1, <1>2, PTL DEF Spec

-----------------------------------------------------------------------------
(***************************************************************************)
(* AllOrNothing.                                                           *)
(***************************************************************************)
\* What was done are steps of the recipe that change something, none of a
\* stage to come.
DoneIsBehind ==
  \A p, i \in Nat : <<p, i>> \in did =>
    /\ p \in DOMAIN recipe /\ i \in DOMAIN recipe[p].steps
    /\ recipe[p].steps[i].kind \in Changes
    /\ p <= stage

\* no drop of the socket
Clean == cuts = 0

\* it was done, and is none of what the operation may leave behind
Kept(p, i) == <<p, i>> \in did /\ recipe[p].steps[i].kind \notin Leaves[op]

\* the device was removed under the request
DeviceGone == Current.kind = "own" /\ paired = FALSE

\* While it runs, what it must not leave behind lies strictly behind it, so that
\* the order of its steps rules out that anything fails, or is the start of the
\* runtime it waits for; after an error only the failed call itself may have
\* done something.
NothingLeft ==
  Clean =>
    /\ answer = "none" =>
         \A p, i \in Nat : Kept(p, i) =>
             \/ Before(p, i, stage, step)
             \/ <<p, i>> = Here /\ waiting = "start"
    /\ answer \in Refusals =>
         (\A p, i \in Nat : Kept(p, i) => <<p, i>> = Here) \/ DeviceGone

LEMMA DoneStep ==
    ASSUME TypeOK, WaitsForAClient, DoneIsBehind, [Next]_vars
    PROVE  DoneIsBehind'
<1>1. CASE RequestStep
  <2>1. answer = "none" /\ recipe' = recipe
    BY <1>1, StepCases DEF request
  <2>2. stage \in Nat /\ step \in Nat /\ stage' \in Nat /\ stage <= stage'
    BY <1>1, PlaceType, StepMoves
  <2>3. /\ stage \in DOMAIN recipe /\ step \in DOMAIN recipe[stage].steps
        /\ Current = recipe[stage].steps[step]
    BY DEF TypeOK, Current, Steps
  <2>4. CASE did' = did
    BY <2>1, <2>2, <2>4, PlaceType DEF DoneIsBehind
  <2>5. CASE did' = did \union {Here} /\ Current.kind \in Changes
    <3> SUFFICES ASSUME NEW p \in Nat, NEW i \in Nat, <<p, i>> \in did'
                 PROVE  /\ p \in DOMAIN recipe /\ i \in DOMAIN recipe[p].steps
                        /\ recipe[p].steps[i].kind \in Changes
                        /\ p <= stage'
      BY <2>1 DEF DoneIsBehind
    <3>1. <<p, i>> \in did \/ (p = stage /\ i = step)
      BY <2>5 DEF Here
    <3>2. CASE <<p, i>> \in did
      <4>1. p <= stage
        BY <3>2 DEF DoneIsBehind
      <4> QED
        BY <2>2, <3>2, <4>1 DEF DoneIsBehind
    <3>3. CASE p = stage /\ i = step
      BY <2>2, <2>3, <2>5, <3>3
    <3> QED
      BY <3>1, <3>2, <3>3
  <2> QED
    BY <1>1, <2>4, <2>5, StepCases
       DEF Waits, Idle, ChangesSomething, Transmits, IsCut, Transmit, result, Acts, Changes
<1>2. CASE InstanceMove
  BY <1>2, MoveCases DEF DoneIsBehind, request, position, result
<1>3. CASE UNCHANGED vars
  BY <1>3 DEF vars, DoneIsBehind, request, position, result
<1> QED
  BY <1>1, <1>2, <1>3 DEF Next

LEMMA CleanBefore ==
    ASSUME TypeOK, WaitsForAClient, [Next]_vars, Clean'
    PROVE  Clean
<1>1. CASE RequestStep
  <2>1. cuts' = cuts \/ cuts' = cuts + 1
    BY <1>1, StepCases DEF Waits, Idle, ChangesSomething, Transmits, IsCut, result
  <2> QED
    BY <2>1 DEF Clean, TypeOK
<1>2. CASE InstanceMove
  BY <1>2, MoveCases DEF Clean, result
<1>3. CASE UNCHANGED vars
  BY <1>3 DEF vars, Clean, result
<1> QED
  BY <1>1, <1>2, <1>3 DEF Next

LEMMA NothingLeftStep ==
    ASSUME TypeOK, WaitsForAClient, DoneIsBehind, NothingLeft, [Next]_vars
    PROVE  NothingLeft'
<1> SUFFICES ASSUME Clean'
             PROVE  /\ answer' = "none" =>
                         \A p, i \in Nat : Kept(p, i)' =>
                             \/ Before(p, i, stage', step')
                             \/ <<p, i>> = Here' /\ waiting' = "start"
                    /\ answer' \in Refusals =>
                         (\A p, i \in Nat : Kept(p, i)' => <<p, i>> = Here') \/ DeviceGone'
  BY DEF NothingLeft
<1>1. Clean
  BY CleanBefore
<1>2. CASE RequestStep
  <2>1. answer = "none" /\ recipe' = recipe /\ op' = op
    BY <1>2, StepCases DEF request
  <2>2. \A p, i \in Nat : Kept(p, i) =>
            \/ Before(p, i, stage, step)
            \/ <<p, i>> = Here /\ waiting = "start"
    BY <1>1, <2>1 DEF NothingLeft
  <2>3. /\ stage \in DOMAIN recipe /\ step \in DOMAIN recipe[stage].steps
        /\ Current = recipe[stage].steps[step]
        /\ stage \in Nat /\ step \in Nat
    BY PlaceType DEF TypeOK, Current, Steps
  <2>4. ChecksFirst(recipe, Leaves[op])
    BY OrderAssumption DEF TypeOK
  <2>5. ASSUME NEW p \in Nat, NEW i \in Nat, Kept(p, i), <<p, i>> # Here
        PROVE  GoesOn(Current)
    <3>1. Before(p, i, stage, step)
      BY <2>2, <2>5
    <3>2. p \in DOMAIN recipe /\ i \in DOMAIN recipe[p].steps
          /\ recipe[p].steps[i].kind \in Changes \ Leaves[op]
      BY <2>5 DEF DoneIsBehind, Kept
    <3> QED
      BY <2>3, <2>4, <3>1, <3>2 DEF ChecksFirst
  <2>6. Current.fails = "again" /\ Current.kind \in Changes => Current.kind \in Leaves[op]
    BY <2>3, <2>4 DEF ChecksFirst
  <2>7. \A p, i \in Nat : Kept(p, i)' => Kept(p, i) \/ (<<p, i>> \in did' /\ <<p, i>> \notin did)
    BY <2>1 DEF Kept
  <2>8. ASSUME Onward, did' \subseteq did \union {Here}
        PROVE  /\ answer' \notin Refusals
               /\ answer' = "none" => \A p, i \in Nat : Kept(p, i)' => Before(p, i, stage', step')
    <3>1. answer' \notin Refusals
      BY <2>1, <2>8 DEF Onward, Refusals
    <3>2. ASSUME NEW p \in Nat, NEW i \in Nat, Kept(p, i)', answer' = "none"
          PROVE  Before(p, i, stage', step')
      <4>1. Before(p, i, stage, step) \/ (p = stage /\ i = step)
        BY <2>2, <2>7, <2>8, <3>2 DEF Here
      <4>2. stage' = stage + 1 \/ (stage' = stage /\ step' = step + 1)
        BY <2>8, <3>2 DEF Onward
      <4> QED
        BY <2>3, <4>1, <4>2 DEF Before
    <3> QED
      BY <3>1, <3>2
  <2>9. ASSUME Ends, ~GoesOn(Current), did' \subseteq did \union {Here}
        PROVE  answer' # "none" /\ \A p, i \in Nat : Kept(p, i)' => <<p, i>> = Here'
    <3>1. answer' # "none" /\ Here' = Here
      BY <2>9 DEF Ends, Refusals, Here
    <3> QED
      BY <2>5, <2>7, <2>9, <3>1
  <2>10. CASE Waits
    <3>1. /\ UNCHANGED <<stage, step, answer>> /\ Here' = Here /\ waiting = "nothing"
          /\ did' = did \/ (did' = did \union {Here} /\ waiting' = "start")
      BY <2>10 DEF Waits, Here
    <3> QED
      BY <2>1, <2>2, <2>7, <3>1 DEF Refusals
  <2>11. CASE Idle
    <3>1. did' = did
      BY <2>11 DEF Idle, result
    <3>2. CASE Onward
      BY <2>8, <3>1, <3>2
    <3>3. CASE Ends /\ ~GoesOn(Current)
      BY <2>9, <3>1, <3>3
    <3>4. CASE Fails /\ Restarts /\ ~GoesOn(Current)
      <4>1. answer' = "none" /\ (waiting = "start" => Ends \/ Current.fails = "again")
        BY <2>1, <3>4 DEF Fails, Restarts
      <4>2. ASSUME NEW p \in Nat, NEW i \in Nat, Kept(p, i)
            PROVE  FALSE
        <5>1. p = stage /\ i = step
          BY <2>5, <3>4, <4>2 DEF Here
        <5>2. waiting = "start"
          BY <2>2, <2>3, <4>2, <5>1 DEF Before
        <5>3. Current.kind \in Changes \ Leaves[op]
          BY <2>3, <4>2, <5>1 DEF Kept, DoneIsBehind
        <5>4. ~Ends
          BY <4>1 DEF Ends, Refusals
        <5> QED
          BY <2>6, <4>1, <5>2, <5>3, <5>4
      <4> QED
        BY <2>7, <3>1, <4>1, <4>2 DEF Refusals
    <3>5. CASE Fails /\ GoesOn(Current)
      <4>1. Ends /\ Current.kind = "own" /\ paired = FALSE
        BY <3>5 DEF Fails
      <4>2. Current' = Current /\ paired' = paired /\ answer' # "none"
        BY <1>2, <2>1, <4>1, StepCases DEF Ends, Current, Steps, Refusals
      <4> QED
        BY <4>1, <4>2 DEF DeviceGone
    <3> QED
      BY <2>11, <3>2, <3>3, <3>4, <3>5 DEF Idle, Fails
  <2>12. CASE ChangesSomething \/ Transmits
    <3>1. /\ did' = did \union {Here} /\ Current.kind \in Acts
          /\ Onward \/ Ends \/ (Restarts /\ Current.fails = "again")
          /\ Current.kind = "emit" => Onward
      BY <2>12 DEF ChangesSomething, Transmits, Transmit, Acts
    <3>2. CASE Onward
      BY <2>8, <3>1, <3>2
    <3>3. ~Onward /\ Current.fails # "ignore" => ~GoesOn(Current)
      BY <3>1 DEF GoesOn, Acts
    <3>4. CASE Ends /\ ~Onward
      BY <2>9, <3>1, <3>3, <3>4 DEF Ends
    <3>5. CASE Restarts /\ Current.fails = "again" /\ ~Onward
      <4>1. answer' = "none" /\ Current.kind \in Leaves[op]
        BY <2>1, <2>6, <3>1, <3>5 DEF Restarts, Changes
      <4>2. ASSUME NEW p \in Nat, NEW i \in Nat, Kept(p, i)'
            PROVE  FALSE
        <5>1. p = stage /\ i = step
          BY <2>5, <2>7, <3>1, <3>3, <3>5, <4>2 DEF Here
        <5> QED
          BY <2>1, <2>3, <4>1, <4>2, <5>1 DEF Kept
      <4> QED
        BY <4>1, <4>2 DEF Refusals
    <3> QED
      BY <3>1, <3>2, <3>4, <3>5
  <2>13. ~IsCut
    BY <1>1 DEF IsCut, Clean, TypeOK
  <2> QED
    BY <1>2, <2>10, <2>11, <2>12, <2>13, StepCases
<1>3. CASE InstanceMove
  <2>1. /\ UNCHANGED <<stage, step, did, answer, recipe, op, waiting>>
        /\ paired' \in {paired, FALSE}
    BY <1>3, MoveCases DEF request, position, result
  <2>2. Here' = Here /\ (DeviceGone => DeviceGone')
    BY <2>1 DEF Here, DeviceGone, Current, Steps
  <2>3. \A p, i \in Nat : Kept(p, i)' <=> Kept(p, i)
    BY <2>1 DEF Kept
  <2> QED
    BY <1>1, <2>1, <2>2, <2>3 DEF NothingLeft
<1>4. CASE UNCHANGED vars
  <2>1. UNCHANGED <<stage, step, did, answer, recipe, op, waiting, paired>>
    BY <1>4 DEF vars, request, position, result, instance
  <2>2. Here' = Here /\ DeviceGone' = DeviceGone
    BY <2>1 DEF Here, DeviceGone, Current, Steps
  <2>3. \A p, i \in Nat : Kept(p, i)' <=> Kept(p, i)
    BY <2>1 DEF Kept
  <2> QED
    BY <1>1, <2>1, <2>2, <2>3 DEF NothingLeft
<1> QED
  BY <1>2, <1>3, <1>4 DEF Next

\* A request that is answered with an error has left nothing behind but what the
\* failed call itself may have done and what Leaves says of its operation,
\* whatever the instance does meanwhile. It rests on the order of the steps in
\* the handlers and services alone (OrderAssumption), which TLC evaluates on
\* each of them.
THEOREM AllOrNothingHolds == Spec => []AllOrNothing
<1> DEFINE Inv == TypeOK /\ WaitsForAClient /\ DoneIsBehind /\ NothingLeft
<1>1. Init => Inv
  <2>1. Init => did = {} /\ answer = "none"
    BY DEF Init
  <2> QED
    BY <2>1, TypeInit DEF DoneIsBehind, NothingLeft, Kept, Refusals
<1>2. Inv /\ [Next]_vars => Inv'
  BY TypeStep, DoneStep, NothingLeftStep
<1>3. Inv => AllOrNothing
  <2> SUFFICES ASSUME Inv, answer \in Refusals, cuts = 0, paired, NEW d \in did,
                      KindAt(d) \notin Leaves[op]
               PROVE  d = Here
    BY DEF AllOrNothing
  <2>1. d[1] \in Nat /\ d[2] \in Nat /\ d = <<d[1], d[2]>>
    BY DEF TypeOK
  <2>2. Kept(d[1], d[2])
    BY <2>1 DEF Kept, KindAt
  <2> QED
    BY <2>1, <2>2 DEF NothingLeft, Clean, DeviceGone, TypeOK
<1> QED
  BY <1>1, <1>2, <1>3, PTL DEF Spec

-----------------------------------------------------------------------------
(***************************************************************************)
(* NoRepeatUnlessDropped.                                                  *)
(***************************************************************************)
\* the message of this stage is still to be sent
Unsent == \E i \in DOMAIN Steps : Steps[i].kind = "send" /\ step <= i

\* A stage to come has sent nothing, and as long as the message of this stage
\* is still to be sent, each copy that went out was one the socket dropped
\* under, and of an earlier attempt.
CopiesCounted ==
  /\ \A p \in DOMAIN recipe :
       /\ copies[p] <= 1 + cuts /\ copies[p] <= recipe[p].attempts
       /\ stage < p => copies[p] = 0
       /\ ownId /\ SendsWithId(p) => copies[p] <= 1
  /\ answer = "none" => /\ copies[stage] <= attempt
                        /\ Unsent => copies[stage] <= cuts /\ copies[stage] < attempt

LEMMA CopiesStep ==
    ASSUME TypeOK, WaitsForAClient, CopiesCounted, [Next]_vars
    PROVE  CopiesCounted'
<1>1. CASE RequestStep
  <2>1. answer = "none" /\ recipe' = recipe /\ ownId' = ownId
    BY <1>1, StepCases DEF request
  <2>2. /\ stage \in DOMAIN recipe /\ step \in DOMAIN recipe[stage].steps
        /\ Current = recipe[stage].steps[step] /\ Steps = recipe[stage].steps
        /\ DOMAIN recipe \subseteq Nat /\ DOMAIN recipe[stage].steps \subseteq Nat
        /\ stage \in Nat /\ step \in Nat /\ cuts \in Nat
    <3>1. stage \in DOMAIN recipe /\ step \in DOMAIN recipe[stage].steps /\ cuts \in Nat
      BY DEF TypeOK
    <3>2. /\ DOMAIN recipe = 1 .. Len(recipe)
          /\ DOMAIN recipe[stage].steps = 1 .. Len(recipe[stage].steps)
      BY <3>1, PlaceType
    <3>3. DOMAIN recipe \subseteq Nat /\ DOMAIN recipe[stage].steps \subseteq Nat
      BY <3>2
    <3> QED
      BY <3>1, <3>3 DEF Current, Steps
  <2>3. /\ attempt \in Nat \ {0} /\ attempt <= recipe[stage].attempts
        /\ \A p \in DOMAIN recipe : copies[p] \in Nat /\ recipe[p].attempts \in Nat \ {0}
    BY PlaceType DEF TypeOK
  <2>4. SendsOnce(recipe)
    BY OrderAssumption DEF TypeOK
  <2>5. /\ copies[stage] <= attempt
        /\ Unsent => copies[stage] <= cuts /\ copies[stage] < attempt
    BY <2>1 DEF CopiesCounted
  <2>6. (Waits \/ Onward \/ Restarts \/ Ends) /\ stage' \in Nat /\ stage <= stage'
    BY <1>1, StepMoves
  <2>7. CASE Waits
    <3>1. UNCHANGED <<copies, cuts, stage, step, attempt, answer>>
      BY <2>7 DEF Waits
    <3> QED
      BY <2>1, <3>1 DEF CopiesCounted, SendsWithId, Steps, Unsent
  <2>8. CASE UNCHANGED <<copies, cuts>> /\ ~Waits
    <3>1. \A p \in DOMAIN recipe :
            /\ copies'[p] <= 1 + cuts' /\ copies'[p] <= recipe[p].attempts
            /\ stage' < p => copies'[p] = 0
            /\ ownId /\ SendsWithId(p) => copies'[p] <= 1
      BY <2>2, <2>6, <2>8 DEF CopiesCounted
    <3>2. ASSUME answer' = "none"
          PROVE  /\ copies[stage'] <= attempt'
                 /\ Unsent' => copies[stage'] <= cuts /\ copies[stage'] < attempt'
      <4>1. CASE stage' = stage + 1 /\ attempt' = 1 /\ stage' \in DOMAIN recipe
        <5>1. copies[stage'] = 0
          BY <2>2, <4>1 DEF CopiesCounted
        <5> QED
          BY <2>2, <4>1, <5>1
      <4>2. CASE stage' = stage /\ attempt' = attempt /\ step' = step + 1
        <5>1. Unsent' => Unsent
          BY <2>1, <2>2, <4>2 DEF Unsent, Steps
        <5> QED
          BY <2>5, <4>2, <5>1
      <4>3. CASE Restarts
        <5>1. Unsent' => Unsent
          BY <2>1, <2>2, <2>4, <4>3 DEF Unsent, Steps, Restarts, SendsOnce
        <5>2. copies[stage] \in Nat /\ stage' = stage /\ attempt' = attempt + 1
          BY <2>2, <2>3, <4>3 DEF Restarts
        <5> QED
          BY <2>3, <2>5, <5>1, <5>2
      <4> QED
        BY <2>2, <2>6, <2>8, <3>2, <4>1, <4>2, <4>3, PlaceType DEF Onward, Ends, Refusals
    <3> QED
      BY <2>1, <2>8, <3>1, <3>2 DEF CopiesCounted, SendsWithId
  <2>9. CASE Transmits \/ IsCut
    <3>1. Current.kind = "send" /\ Transmit /\ (Onward \/ Restarts \/ Ends)
      BY <2>9 DEF Transmits, IsCut
    <3>2. copies[stage] <= cuts /\ copies[stage] < attempt
      BY <2>2, <2>5, <3>1 DEF Unsent
    <3>3. /\ \A p \in DOMAIN recipe : p # stage => copies'[p] = copies[p]
          /\ copies'[stage] <= copies[stage] + 1 /\ copies'[stage] \in Nat
          /\ ownId /\ Current.arg = "id" /\ copies[stage] <= 1 => copies'[stage] <= 1
      BY <2>2, <3>1, TransmitCounts
    <3>4. cuts' \in Nat /\ cuts <= cuts'
      BY <2>2, <2>9 DEF Transmits, IsCut
    <3>5. \A p \in DOMAIN recipe :
            /\ copies'[p] <= 1 + cuts' /\ copies'[p] <= recipe[p].attempts
            /\ stage' < p => copies'[p] = 0
      BY <2>2, <2>3, <2>6, <3>1, <3>2, <3>3, <3>4 DEF CopiesCounted
    <3>6. ASSUME NEW p \in DOMAIN recipe, ownId, SendsWithId(p)
          PROVE  copies'[p] <= 1
      <4>1. copies[p] <= 1
        BY <3>6 DEF CopiesCounted
      <4>2. CASE p = stage
        <5>1. Current.arg = "id"
          BY <2>2, <3>1, <3>6, <4>2 DEF SendsWithId
        <5> QED
          BY <3>3, <3>6, <4>1, <4>2, <5>1
      <4> QED
        BY <3>3, <4>1, <4>2
    <3>7. ASSUME answer' = "none"
          PROVE  /\ copies'[stage'] <= attempt'
                 /\ Unsent' => copies'[stage'] <= cuts' /\ copies'[stage'] < attempt'
      <4>1. CASE stage' = stage + 1 /\ attempt' = 1 /\ stage' \in DOMAIN recipe
        <5>1. copies'[stage'] = 0
          BY <2>2, <3>3, <4>1 DEF CopiesCounted
        <5> QED
          BY <3>4, <4>1, <5>1
      <4>2. CASE stage' = stage /\ attempt' = attempt /\ step' = step + 1
        <5>1. ~Unsent'
          BY <2>1, <2>2, <2>4, <3>1, <4>2 DEF Unsent, Steps, SendsOnce
        <5> QED
          BY <2>2, <2>3, <3>2, <3>3, <4>2, <5>1
      <4>3. CASE Restarts
        <5>1. Current.fails # "again"
          BY <2>2, <2>4, <3>1 DEF SendsOnce
        <5>2. stage' = stage /\ attempt' = attempt + 1 /\ step' # step + 1 /\ ~Ends
          BY <2>1, <2>2, <3>7, <4>3, PlaceType DEF Restarts, Ends, Refusals
        <5>3. ~Onward
          BY <2>2, <2>3, <3>7, <5>2 DEF Onward
        <5>4. cuts' = cuts + 1
          BY <2>9, <5>1, <5>2, <5>3 DEF Transmits, IsCut
        <5> QED
          BY <2>2, <2>3, <3>2, <3>3, <5>2, <5>4
      <4> QED
        BY <2>1, <2>2, <3>1, <3>7, <4>1, <4>2, <4>3, PlaceType DEF Onward, Ends, Refusals
    <3> QED
      BY <2>1, <3>5, <3>6, <3>7 DEF CopiesCounted, SendsWithId
  <2> QED
    BY <1>1, <2>6, <2>7, <2>8, <2>9, StepCases DEF Idle, ChangesSomething, result
<1>2. CASE InstanceMove
  BY <1>2, MoveCases
     DEF CopiesCounted, SendsWithId, Steps, Unsent, request, position, result
<1>3. CASE UNCHANGED vars
  BY <1>3 DEF vars, CopiesCounted, SendsWithId, Steps, Unsent, request, position, result
<1> QED
  BY <1>1, <1>2, <1>3 DEF Next

\* A recipient gets one message more for each drop of the socket at most, never
\* more than the loop has attempts, and one under an id of the request, whatever
\* the operation, as long as each of its stages sends one message and nothing
\* after it starts the stage again.
THEOREM NoRepeatHolds == Spec => []NoRepeatUnlessDropped
<1> DEFINE Inv == TypeOK /\ WaitsForAClient /\ CopiesCounted
<1>1. Init => Inv
  <2>1. Init => /\ cuts = 0 /\ \A p \in DOMAIN recipe : copies[p] = 0
                /\ stage \in DOMAIN recipe /\ attempt = 1
    BY TypeInit DEF Init, TypeOK
  <2>2. Init => \A p \in DOMAIN recipe : recipe[p].attempts \in Nat \ {0}
    BY TypeInit, PlaceType
  <2> QED
    BY <2>1, <2>2, TypeInit DEF CopiesCounted
<1>2. Inv /\ [Next]_vars => Inv'
  BY TypeStep, CopiesStep
<1>3. Inv => NoRepeatUnlessDropped
  BY DEF CopiesCounted, NoRepeatUnlessDropped
<1> QED
  BY <1>1, <1>2, <1>3, PTL DEF Spec

-----------------------------------------------------------------------------
(***************************************************************************)
(* ActsOnANumber.                                                          *)
(***************************************************************************)
\* the numbers JIDs can be made of
JidFields == {"digits", "jid", "jids", "list"}

\* the request went through this step of its recipe
Passed(q, j) == (q < stage /\ ~recipe[q].opt) \/ (q = stage /\ j < step)

IsParse(q, j) == /\ q \in DOMAIN recipe /\ j \in DOMAIN recipe[q].steps
                 /\ recipe[q].steps[j].kind = "parse" /\ Mandatory(recipe[q].steps[j])

HasActed == \E p, i \in Nat : <<p, i>> \in did /\ recipe[p].steps[i].kind \in Acts

\* A request that went through the parse of its number, or acted on something,
\* has a number a JID can be made of.
NumberKnown ==
  Has(recipe, "bind") =>
    /\ \A q, j \in Nat : IsParse(q, j) /\ Passed(q, j) => field.is \in JidFields
    /\ HasActed => field.is \in JidFields

LEMMA GoodField ==
    ASSUME TypeOK, field.is \notin NoNumber \union NotJids
    PROVE  field.is \in JidFields
BY DEF TypeOK, Fields, NoNumber, NotJids, JidFields

\* Only a number a JID can be made of passes a mandatory parse.
LEMMA ParsePassed ==
    ASSUME TypeOK, WaitsForAClient, RequestStep, Current.kind = "parse", Mandatory(Current),
           \/ stage' = stage /\ step' = step + 1
           \/ stage' = stage + 1 /\ ~recipe[stage].opt
    PROVE  field.is \in JidFields
<1>1. stage \in Nat /\ step \in Nat \ {0}
  BY PlaceType
<1>2. ~Ends /\ ~Restarts
  BY <1>1 DEF Ends, Restarts
<1>3. ~Fail(FALSE)
  BY <1>2, FailCases DEF Mandatory
<1>4. ~Skip
  BY DEF Skip, Mandatory, TooEarly
<1>5. ~SkipStage
  BY <1>1, PlaceType DEF SkipStage, LeaveStage, TypeOK
<1>6. waiting = "nothing"
  BY DEF WaitsForAClient, TypeOK
<1>7. ParseNumber
  BY <1>4, <1>5, <1>6
     DEF RequestStep, At, Authenticate, ValidateNumber, Bind, RequireNumber, Look,
         EnsureConnected, EnsureStarts, EnsureLooksAgain, TakeSession, SessionAbsent,
         AskSupervisor, AwaitSession, SessionTimesOut, RereadMap, AskWhatsApp, ActOnAccount,
         SendMessageTo, SendIsCut, OwnJid, Write, Run, EmitEvent
<1> QED
  BY <1>3, <1>7, GoodField DEF ParseNumber

\* The field changes in the validators of the router, and nowhere else.
LEMMA FieldKept ==
    ASSUME RequestStep, UNCHANGED <<op, recipe>>
    PROVE  field' = field \/ Current.kind = "number"
BY DEF RequestStep, At, Skip, SkipStage, Authenticate, ValidateNumber, Bind, RequireNumber,
       ParseNumber, Look, EnsureConnected, EnsureStarts, EnsureLooksAgain, TakeSession,
       SessionAbsent, AskSupervisor, AwaitSession, SessionTimesOut, RereadMap, AskWhatsApp,
       ActOnAccount, SendMessageTo, SendIsCut, OwnJid, Write, Run, EmitEvent

LEMMA NumberStep ==
    ASSUME TypeOK, WaitsForAClient, DoneIsBehind, NumberKnown, [Next]_vars
    PROVE  NumberKnown'
<1>1. CASE RequestStep
  <2>1. answer = "none" /\ recipe' = recipe /\ op' = op
    BY <1>1, StepCases DEF request
  <2> SUFFICES ASSUME Has(recipe, "bind")
               PROVE  /\ \A q, j \in Nat : IsParse(q, j) /\ Passed(q, j)' => field'.is \in JidFields
                      /\ HasActed' => field'.is \in JidFields
    BY <2>1 DEF NumberKnown, IsParse
  <2>2. /\ stage \in DOMAIN recipe /\ step \in DOMAIN recipe[stage].steps
        /\ Current = recipe[stage].steps[step]
        /\ stage \in Nat /\ step \in Nat \ {0}
        /\ DOMAIN Steps = 1 .. Len(Steps) /\ Steps = recipe[stage].steps
    BY PlaceType DEF TypeOK, Current, Steps
  <2>3. ParsesFirst(recipe)
    BY OrderAssumption DEF TypeOK
  <2>4. /\ \A q, j \in Nat : IsParse(q, j) /\ Passed(q, j) => field.is \in JidFields
        /\ HasActed => field.is \in JidFields
    BY DEF NumberKnown
  <2>5. Waits \/ Onward \/ Restarts \/ Ends
    BY <1>1, StepMoves
  <2>6. ASSUME NEW q \in Nat, NEW j \in Nat, IsParse(q, j), Passed(q, j)'
        PROVE  \/ Passed(q, j)
               \/ /\ q = stage /\ j = step
                  /\ \/ stage' = stage /\ step' = step + 1
                     \/ stage' = stage + 1 /\ ~recipe[stage].opt
    <3>1. (q < stage' /\ ~recipe[q].opt) \/ (q = stage' /\ j < step')
      BY <2>1, <2>6 DEF Passed
    <3>2. CASE UNCHANGED <<stage, step>>
      BY <3>1, <3>2 DEF Passed
    <3>3. CASE stage' = stage /\ step' = 1
      BY <2>2, <2>6, <3>1, <3>3, PlaceType DEF Passed, IsParse
    <3>4. CASE stage' = stage /\ step' = step + 1
      BY <2>2, <3>1, <3>4 DEF Passed
    <3>5. CASE /\ step = Len(Steps) \/ recipe[stage].opt
               /\ stage' = stage + 1 /\ step' = 1
      <4>1. j >= 1
        BY <2>6, PlaceType DEF IsParse
      <4>2. q < stage \/ q = stage
        BY <2>2, <3>1, <3>5, <4>1
      <4>3. CASE q = stage
        <5>1. step = Len(Steps) /\ ~recipe[stage].opt
          BY <2>2, <3>1, <3>5, <4>3
        <5>2. j <= step
          BY <2>2, <2>6, <4>3, <5>1 DEF IsParse
        <5> QED
          BY <2>2, <3>5, <4>3, <5>1, <5>2 DEF Passed
      <4> QED
        BY <2>2, <3>1, <3>5, <4>2, <4>3 DEF Passed
    <3> QED
      BY <2>5, <3>2, <3>3, <3>4, <3>5 DEF Waits, Onward, Restarts, Ends
  <2>7. ASSUME NEW q \in Nat, NEW j \in Nat, IsParse(q, j), Passed(q, j)'
        PROVE  field.is \in JidFields
    <3>1. CASE Passed(q, j)
      BY <2>4, <2>7, <3>1
    <3>2. CASE /\ q = stage /\ j = step
               /\ \/ stage' = stage /\ step' = step + 1
                  \/ stage' = stage + 1 /\ ~recipe[stage].opt
      <4>1. Current.kind = "parse" /\ Mandatory(Current)
        BY <2>2, <2>7, <3>2 DEF IsParse
      <4> QED
        BY <1>1, <3>2, <4>1, ParsePassed
    <3> QED
      BY <2>6, <2>7, <3>1, <3>2
  <2>8. ASSUME NEW p \in DOMAIN recipe, NEW i \in DOMAIN recipe[p].steps,
               recipe[p].steps[i].kind \in Acts
        PROVE  \E q, j \in Nat : /\ IsParse(q, j)
                                 /\ (q < p /\ ~recipe[q].opt) \/ (q = p /\ j < i)
    <3>1. PICK q \in DOMAIN recipe : \E j \in DOMAIN recipe[q].steps :
            /\ recipe[q].steps[j].kind = "parse" /\ Mandatory(recipe[q].steps[j])
            /\ (q < p /\ ~recipe[q].opt) \/ (q = p /\ j < i)
      BY <2>3, <2>8 DEF ParsesFirst
    <3>2. q \in Nat /\ DOMAIN recipe[q].steps \subseteq Nat
      <4>1. DOMAIN recipe = 1 .. Len(recipe)
            /\ DOMAIN recipe[q].steps = 1 .. Len(recipe[q].steps)
        BY PlaceType
      <4> QED
        BY <4>1
    <3> QED
      BY <3>1, <3>2 DEF IsParse
  <2>9. CASE Current.kind = "number"
    <3>1. \A q, j \in Nat : IsParse(q, j) => stage < q
      BY <2>2, <2>3, <2>9 DEF ParsesFirst, IsParse
    <3>2. \A q, j \in Nat : IsParse(q, j) => ~Passed(q, j)'
      BY <2>2, <2>6, <3>1 DEF Passed
    <3>3. did' = did
      BY <1>1, <2>9, StepCases
         DEF Waits, Idle, ChangesSomething, Transmits, IsCut, result, Acts
    <3>4. ~HasActed
      <4> SUFFICES ASSUME NEW p \in Nat, NEW i \in Nat, <<p, i>> \in did,
                          recipe[p].steps[i].kind \in Acts
                   PROVE  FALSE
        BY DEF HasActed
      <4>1. p \in DOMAIN recipe /\ i \in DOMAIN recipe[p].steps /\ p <= stage
        BY DEF DoneIsBehind
      <4>2. PICK q \in Nat : \E j \in Nat : IsParse(q, j) /\ (q < p \/ q = p)
        BY <2>8, <4>1
      <4> QED
        BY <2>2, <3>1, <4>1, <4>2
    <3>5. ~HasActed'
      BY <2>1, <3>3, <3>4 DEF HasActed
    <3> QED
      BY <3>2, <3>5
  <2>10. CASE Current.kind # "number"
    <3>1. field' = field
      BY <1>1, <2>1, <2>10, FieldKept
    <3>2. ASSUME ~HasActed, HasActed'
          PROVE  field.is \in JidFields
      <4>0. did' = did \/ did' = did \union {Here}
        BY <1>1, StepCases
           DEF Waits, Idle, ChangesSomething, Transmits, IsCut, Transmit, result
      <4>1. Current.kind \in Acts
        BY <2>1, <2>2, <3>2, <4>0 DEF HasActed, Here
      <4>2. \E q, j \in Nat : /\ IsParse(q, j)
                              /\ (q < stage /\ ~recipe[q].opt) \/ (q = stage /\ j < step)
        BY <2>2, <2>8, <4>1
      <4> QED
        BY <2>4, <4>2 DEF Passed
    <3> QED
      BY <2>4, <2>7, <3>1, <3>2
  <2> QED
    BY <2>9, <2>10
<1>2. CASE InstanceMove
  BY <1>2, MoveCases DEF NumberKnown, HasActed, IsParse, Passed, request, position, result
<1>3. CASE UNCHANGED vars
  BY <1>3 DEF vars, NumberKnown, HasActed, IsParse, Passed, request, position, result
<1> QED
  BY <1>1, <1>2, <1>3 DEF Next

\* No message leaves, and no account changes, for a number no JID can be made
\* of, whatever the validator and the content type, as long as the operation
\* makes a JID of its number before it changes anything.
THEOREM ActsOnANumberHolds == Spec => []ActsOnANumber
<1> DEFINE Inv == TypeOK /\ WaitsForAClient /\ DoneIsBehind /\ NumberKnown
<1>1. Init => Inv
  <2>1. Init => did = {} /\ stage = 1 /\ step = 1
    BY DEF Init
  <2>2. ASSUME Init, NEW q \in Nat, NEW j \in Nat, IsParse(q, j)
        PROVE  ~Passed(q, j)
    <3>1. q >= 1 /\ j >= 1
      BY <2>2, TypeInit, PlaceType DEF IsParse
    <3> QED
      BY <2>1, <2>2, <3>1 DEF Passed
  <2> QED
    BY <2>1, <2>2, TypeInit DEF DoneIsBehind, NumberKnown, HasActed
<1>2. Inv /\ [Next]_vars => Inv'
  BY TypeStep, DoneStep, NumberStep
<1>3. Inv => ActsOnANumber
  <2> SUFFICES ASSUME Inv, Has(recipe, "bind"), NEW d \in did, KindAt(d) \in Acts
               PROVE  field.is \in JidFields
    BY DEF ActsOnANumber, JidFields
  <2>1. d[1] \in Nat /\ d[2] \in Nat /\ d = <<d[1], d[2]>>
    BY DEF TypeOK
  <2>2. HasActed
    BY <2>1 DEF HasActed, KindAt
  <2> QED
    BY <2>2 DEF NumberKnown
<1> QED
  BY <1>1, <1>2, <1>3, PTL DEF Spec

-----------------------------------------------------------------------------
(***************************************************************************)
(* ConflictMeansNothingSent is refuted by the operation that may leave a   *)
(* message behind; of the others it is true.                               *)
(***************************************************************************)
\* A copy that went out is a step that was done, and a 409 comes of a step that
\* asked for the session.
ConflictFacts ==
  /\ \A p \in DOMAIN recipe :
       copies[p] # 0 => \E i \in Nat : <<p, i>> \in did /\ recipe[p].steps[i].kind = "send"
  /\ answer = "conflict" => Current.kind = "session"

LEMMA ConflictStep ==
    ASSUME TypeOK, WaitsForAClient, ConflictFacts, [Next]_vars
    PROVE  ConflictFacts'
<1>1. CASE RequestStep
  <2>1. answer = "none" /\ recipe' = recipe
    BY <1>1, StepCases DEF request
  <2>2. answer' = "conflict" => Current'.kind = "session"
    <3>1. answer' = "conflict" => Ends
      BY <1>1, <2>1, StepMoves DEF Waits, Onward, Restarts
    <3>2. Ends => Current' = Current
      BY <2>1 DEF Ends, Current, Steps
    <3> QED
      BY <3>1, <3>2 DEF Ends
  <2>3. CASE UNCHANGED copies /\ did \subseteq did'
    BY <2>1, <2>2, <2>3 DEF ConflictFacts
  <2>4. CASE Transmit /\ Current.kind = "send"
    <3>1. /\ did' = did \union {Here}
          /\ \A p \in DOMAIN recipe : p # stage => copies'[p] = copies[p]
      BY <2>4, TransmitCounts
    <3>2. stage \in Nat /\ step \in Nat
      BY PlaceType
    <3>3. \A p \in DOMAIN recipe :
            copies'[p] # 0 => \E i \in Nat : <<p, i>> \in did' /\ recipe[p].steps[i].kind = "send"
      BY <2>4, <3>1, <3>2 DEF ConflictFacts, Here, Current, Steps
    <3> QED
      BY <2>1, <2>2, <3>3 DEF ConflictFacts
  <2> QED
    BY <1>1, <2>3, <2>4, StepCases
       DEF Waits, Idle, ChangesSomething, Transmits, IsCut, result
<1>2. CASE InstanceMove
  BY <1>2, MoveCases DEF ConflictFacts, Current, Steps, request, position, result
<1>3. CASE UNCHANGED vars
  BY <1>3 DEF vars, ConflictFacts, Current, Steps, request, position, result
<1> QED
  BY <1>1, <1>2, <1>3 DEF Next

\* A 409 tells the truth, that nothing was sent, of every operation that does not
\* send before a step that can fail; POST /send/event is the only one that does.
THEOREM ConflictIsHonest == Spec => [](ConflictMeansNothingSent \/ "send" \in Leaves[op])
<1> DEFINE Inv == TypeOK /\ WaitsForAClient /\ DoneIsBehind /\ NothingLeft /\ ConflictFacts
<1>1. Init => Inv
  <2>1. Init => did = {} /\ answer = "none" /\ \A p \in DOMAIN recipe : copies[p] = 0
    BY DEF Init
  <2> QED
    BY <2>1, TypeInit DEF DoneIsBehind, NothingLeft, Kept, ConflictFacts, Refusals
<1>2. Inv /\ [Next]_vars => Inv'
  BY TypeStep, DoneStep, NothingLeftStep, ConflictStep
<1>3. Inv => ConflictMeansNothingSent \/ "send" \in Leaves[op]
  <2> SUFFICES ASSUME Inv, "send" \notin Leaves[op], answer = "conflict", cuts = 0,
                      NEW p \in DOMAIN copies, copies[p] # 0
               PROVE  FALSE
    BY DEF ConflictMeansNothingSent
  <2>1. Current.kind = "session"
    BY DEF ConflictFacts
  <2>2. PICK i \in Nat : <<p, i>> \in did /\ recipe[p].steps[i].kind = "send"
    BY DEF ConflictFacts, TypeOK
  <2>3. p \in Nat /\ Kept(p, i)
    BY <2>2 DEF Kept, TypeOK
  <2>4. p = stage /\ i = step
    BY <2>1, <2>3 DEF NothingLeft, Clean, DeviceGone, Refusals, Here
  <2> QED
    BY <2>1, <2>2, <2>4 DEF Current, Steps
<1> QED
  BY <1>1, <1>2, <1>3, PTL DEF Spec

-----------------------------------------------------------------------------
(***************************************************************************)
(* The part of Answered that needs no fairness.                            *)
(***************************************************************************)
\* Each step of the request answers it or takes it further: to a later stage, a
\* later attempt, a later step, or from asking to waiting.
Further ==
  \/ answer' # "none"
  \/ stage' > stage
  \/ stage' = stage /\ attempt' > attempt
  \/ stage' = stage /\ attempt' = attempt /\ step' > step
  \/ UNCHANGED <<stage, attempt, step>> /\ waiting = "nothing" /\ waiting' # "nothing"

\* No wait and no repetition of a request is without end: its steps go one way
\* through stages, attempts and steps, of which its recipe has finitely many
\* (RequestsTypeCorrect), and a step that is answered is the last.
THEOREM StepsGoFurther == Spec => [][RequestStep => answer = "none" /\ Further]_vars
<1>1. TypeOK /\ WaitsForAClient /\ [Next]_vars => [RequestStep => answer = "none" /\ Further]_vars
  <2> SUFFICES ASSUME TypeOK, WaitsForAClient, RequestStep
               PROVE  answer = "none" /\ Further
    OBVIOUS
  <2>1. answer = "none" /\ (Waits \/ Onward \/ Restarts \/ Ends)
    BY StepCases, StepMoves
  <2>2. stage \in Nat /\ step \in Nat /\ attempt \in Nat
    BY PlaceType
  <2> QED
    BY <2>1, <2>2 DEF Further, Waits, Onward, Restarts, Ends, Refusals
<1>2. Init => TypeOK /\ WaitsForAClient
  BY TypeInit
<1>3. TypeOK /\ WaitsForAClient /\ [Next]_vars => (TypeOK /\ WaitsForAClient)'
  BY TypeStep
<1> QED
  BY <1>1, <1>2, <1>3, PTL DEF Spec

-----------------------------------------------------------------------------
(***************************************************************************)
(* The receipts.                                                           *)
(***************************************************************************)
\* LEAST is commutative on the writes: two writes of a column give the same date
\* in either order, and a write that is repeated changes nothing.
THEOREM WritesCommute ==
    ASSUME NEW r \in Nat, NEW a \in Nat, NEW b \in Nat
    PROVE  /\ Least(Least(r, a), b) = Least(Least(r, b), a)
           /\ Least(Least(r, a), a) = Least(r, a)
BY DEF Least, Null

LEMMA LeastType ==
    ASSUME MaxTime \in Nat, NEW r \in 0 .. MaxTime, NEW a \in 0 .. MaxTime
    PROVE  /\ Least(r, a) \in 0 .. MaxTime
           /\ r # Null => Least(r, a) \in 1 .. r
BY DEF Least, Null

LEMMA SetsType ==
    ASSUME NEW s \in States
    PROVE  /\ Sets(s) \subseteq Columns
           /\ s \in Sets(s)
BY DEF Sets, Columns, States

-----------------------------------------------------------------------------
LEMMA ReceiptsTyping == ReceiptsSpec => []ReceiptsTypeOK
<1>1. ReceiptsInit => ReceiptsTypeOK
  BY ConstantsAssumption DEF ReceiptsInit, ReceiptsTypeOK, NoDates, Null
<1>2. ReceiptsTypeOK /\ [ReceiptsNext]_receiptsVars => ReceiptsTypeOK'
  <2> SUFFICES ASSUME ReceiptsTypeOK, [ReceiptsNext]_receiptsVars PROVE ReceiptsTypeOK'
    OBVIOUS
  <2> USE ConstantsAssumption DEF ReceiptsTypeOK
  <2>1. ASSUME NEW t \in Types, NEW ids \in SUBSET Messages,
               NEW fromMe \in BOOLEAN, NEW at \in Times,
               HandleReceipt(t, ids, fromMe, at)
        PROVE  ReceiptsTypeOK'
    <3> DEFINE fresh == {m \in ids : <<m, t>> \notin processed}
    <3>1. processed' = processed \cup (fresh \X {t})
      BY <2>1 DEF HandleReceipt
    <3>2. processed' \subseteq Keys
      BY <3>1 DEF Keys
    <3>3. pending' \subseteq Writers
      <4>1. CASE UNCHANGED pending
        BY <4>1
      <4>2. ASSUME NEW s \in RecordState[t], RecordReceipt(fresh, s, at)
            PROVE  pending' \subseteq Writers
        <5>1. s \in States
          BY DEF RecordState, States, Types
        <5>2. [ids |-> fresh, state |-> s, at |-> at] \in Writers
          BY <5>1 DEF Writers
        <5> QED
          BY <4>2, <5>2 DEF RecordReceipt
      <4> QED
        BY <2>1, <4>1, <4>2 DEF HandleReceipt
    <3> QED
      BY <2>1, <3>2, <3>3 DEF HandleReceipt
  <2>2. ASSUME NEW m \in Messages, NEW at \in Times, RecordMessageSent(m, at)
        PROVE  ReceiptsTypeOK'
    <3>1. [ids |-> {m}, state |-> "sent", at |-> at] \in Writers
      BY DEF Writers, States
    <3> QED
      BY <2>2, <3>1 DEF RecordMessageSent, RecordReceipt
  <2>3. ASSUME NEW w \in pending, Record(w)
        PROVE  ReceiptsTypeOK'
    <3>1. /\ w.ids \subseteq Messages
          /\ w.state \in States
          /\ w.at \in Times
      BY DEF Writers
    <3>2. \A m \in Messages, c \in Columns :
              Least(row[m][c], IF c \in Sets(w.state) THEN w.at ELSE Null)
                  \in 0 .. MaxTime
      <4>1. w.at \in 0 .. MaxTime /\ Null \in 0 .. MaxTime /\ MaxTime \in Nat
        BY <3>1 DEF Times, Null
      <4>2. \A m \in Messages, c \in Columns : row[m][c] \in 0 .. MaxTime
        OBVIOUS
      <4> QED
        BY <4>1, <4>2, LeastType
    <3>3. row' \in [Messages -> [Columns -> 0 .. MaxTime]]
      BY <2>3, <3>2 DEF Record
    <3>4. written' \subseteq Messages \X States \X Times
      BY <2>3, <3>1 DEF Record
    <3> QED
      BY <2>3, <3>3, <3>4 DEF Record
  <2>4. ASSUME NEW w \in pending, RecordFails(w)
        PROVE  ReceiptsTypeOK'
    BY <2>4 DEF RecordFails
  <2>5. ASSUME NEW k \in processed, Expire(k)
        PROVE  ReceiptsTypeOK'
    BY <2>5 DEF Expire
  <2>6. CASE Restart
    BY <2>6 DEF Restart
  <2>7. ASSUME NEW m \in Messages, Age(m)
        PROVE  ReceiptsTypeOK'
    BY <2>7 DEF Age
  <2>8. CASE Cleanup
    <3>1. row' \in [Messages -> [Columns -> 0 .. MaxTime]]
      BY <2>8 DEF Cleanup, NoDates, Null
    <3> QED
      BY <2>8, <3>1 DEF Cleanup
  <2>9. CASE UNCHANGED receiptsVars
    BY <2>9 DEF receiptsVars
  <2> QED
    BY <2>1, <2>2, <2>3, <2>4, <2>5, <2>6, <2>7, <2>8, <2>9 DEF ReceiptsNext
<1> QED
  BY <1>1, <1>2, PTL DEF ReceiptsSpec

\* The state of the receipts is well typed in every reachable state.
THEOREM ReceiptsTypeCorrect == ReceiptsSpec => []ReceiptsTypeOK
BY ReceiptsTyping

-----------------------------------------------------------------------------
\* Each date is that of the first occurrence recorded, for every order of the
\* receipts, every batch and every interleaving of the goroutines.
THEOREM EarliestKept == ReceiptsSpec => []RowIsEarliest
<1>1. ReceiptsInit => RowIsEarliest
  <2> SUFFICES ASSUME ReceiptsInit, NEW m \in Messages, NEW c \in Columns
               PROVE  Seen(m, c) = {} /\ row[m][c] = Null
    BY DEF RowIsEarliest
  <2> QED
    BY DEF ReceiptsInit, Seen, NoDates
<1>2. ReceiptsTypeOK /\ RowIsEarliest /\ [ReceiptsNext]_receiptsVars => RowIsEarliest'
  <2> SUFFICES ASSUME ReceiptsTypeOK, RowIsEarliest, [ReceiptsNext]_receiptsVars
               PROVE  RowIsEarliest'
    OBVIOUS
  <2>1. ASSUME NEW w \in pending, Record(w)
        PROVE  RowIsEarliest'
    <3> SUFFICES ASSUME NEW m \in Messages, NEW c \in Columns
                 PROVE  IF Seen(m, c)' = {}
                        THEN row'[m][c] = Null
                        ELSE /\ row'[m][c] \in Seen(m, c)'
                             /\ \A at \in Seen(m, c)' : row'[m][c] <= at
      BY DEF RowIsEarliest
    <3>1. /\ w.ids \subseteq Messages
          /\ w.state \in States
          /\ w.at \in Times
      BY DEF ReceiptsTypeOK, Writers
    <3>2. row[m][c] \in 0 .. MaxTime
      BY DEF ReceiptsTypeOK
    <3>3. IF Seen(m, c) = {}
          THEN row[m][c] = Null
          ELSE /\ row[m][c] \in Seen(m, c)
               /\ \A at \in Seen(m, c) : row[m][c] <= at
      BY DEF RowIsEarliest
    <3>4. Seen(m, c) \subseteq Times
      BY DEF Seen
    <3>5. CASE m \in w.ids /\ c \in Sets(w.state)
      <4>1. row'[m][c] = Least(row[m][c], w.at)
        BY <2>1, <3>5 DEF Record
      <4>2. Seen(m, c)' = Seen(m, c) \cup {w.at}
        <5>1. <<m, w.state, w.at>> \in written'
          BY <2>1, <3>5 DEF Record
        <5>2. \A s \in States, at \in Times :
                  <<m, s, at>> \in written'
                      <=> \/ <<m, s, at>> \in written
                          \/ s = w.state /\ at = w.at
          BY <2>1, <3>5 DEF Record
        <5> QED
          BY <3>1, <3>5, <5>1, <5>2 DEF Seen
      <4> QED
        BY <3>1, <3>2, <3>3, <3>4, <4>1, <4>2, ConstantsAssumption
           DEF Least, Null, Times
    <3>6. CASE ~(m \in w.ids /\ c \in Sets(w.state))
      <4>1. row'[m][c] = row[m][c]
        BY <2>1, <3>2, <3>6 DEF Record, Least, Null
      <4>2. Seen(m, c)' = Seen(m, c)
        <5>1. \A s \in States, at \in Times :
                  <<m, s, at>> \in written'
                      <=> \/ <<m, s, at>> \in written
                          \/ m \in w.ids /\ s = w.state /\ at = w.at
          BY <2>1 DEF Record
        <5> QED
          BY <3>6, <5>1 DEF Seen
      <4> QED
        BY <3>3, <4>1, <4>2
    <3> QED
      BY <3>5, <3>6
  <2>2. CASE Cleanup
    <3> SUFFICES ASSUME NEW m \in Messages, NEW c \in Columns
                 PROVE  IF Seen(m, c)' = {}
                        THEN row'[m][c] = Null
                        ELSE /\ row'[m][c] \in Seen(m, c)'
                             /\ \A at \in Seen(m, c)' : row'[m][c] <= at
      BY DEF RowIsEarliest
    <3>1. CASE m \in stale
      <4>1. row'[m][c] = Null
        BY <2>2, <3>1 DEF Cleanup, NoDates
      <4>2. Seen(m, c)' = {}
        BY <2>2, <3>1 DEF Cleanup, Seen
      <4> QED
        BY <4>1, <4>2
    <3>2. CASE m \notin stale
      <4>1. row'[m][c] = row[m][c]
        BY <2>2, <3>2 DEF Cleanup
      <4>2. Seen(m, c)' = Seen(m, c)
        BY <2>2, <3>2 DEF Cleanup, Seen
      <4> QED
        BY <4>1, <4>2 DEF RowIsEarliest
    <3> QED
      BY <3>1, <3>2
  <2>3. ASSUME UNCHANGED <<row, written>>
        PROVE  RowIsEarliest'
    BY <2>3 DEF RowIsEarliest, Seen
  <2> QED
    BY <2>1, <2>2, <2>3 DEF ReceiptsNext, HandleReceipt, RecordMessageSent, RecordFails,
                            Expire, Restart, Age, receiptsVars
<1> QED
  BY <1>1, <1>2, ReceiptsTyping, PTL DEF ReceiptsSpec

\* A message read or played is always delivered, and no later.
THEOREM DeliveredFirst == ReceiptsSpec => []DeliveredByThen
<1>1. ReceiptsTypeOK /\ RowIsEarliest => DeliveredByThen
  <2> SUFFICES ASSUME ReceiptsTypeOK, RowIsEarliest,
                      NEW m \in Messages, NEW c \in {"read", "played"},
                      row[m][c] # Null
               PROVE  /\ row[m]["delivered"] # Null
                      /\ row[m]["delivered"] <= row[m][c]
    BY DEF DeliveredByThen
  <2>1. c \in Columns /\ "delivered" \in Columns
    BY DEF Columns, States
  <2>2. row[m][c] \in Seen(m, c)
    BY <2>1 DEF RowIsEarliest
  <2>3. PICK s \in States : c \in Sets(s) /\ <<m, s, row[m][c]>> \in written
    BY <2>2 DEF Seen
  <2>4. "delivered" \in Sets(s)
    BY <2>3 DEF Sets
  <2>5. row[m][c] \in Seen(m, "delivered")
    BY <2>2, <2>3, <2>4 DEF Seen
  <2>6. /\ row[m]["delivered"] \in Seen(m, "delivered")
        /\ row[m]["delivered"] <= row[m][c]
    BY <2>1, <2>5 DEF RowIsEarliest
  <2>7. Null \notin Times
    BY DEF Null, Times
  <2> QED
    BY <2>6, <2>7 DEF Seen
<1> QED
  BY <1>1, ReceiptsTyping, EarliestKept, PTL

-----------------------------------------------------------------------------
\* What a step does to the dates of a row that it keeps.
LEMMA DatesStep ==
    ASSUME ReceiptsTypeOK, [ReceiptsNext]_receiptsVars, NEW m \in Messages, row'[m] # NoDates,
           NEW c \in Columns, row[m][c] # Null
    PROVE  row'[m][c] \in 1 .. row[m][c]
<1>1. row[m][c] \in 0 .. MaxTime
  BY DEF ReceiptsTypeOK
<1>2. ASSUME NEW w \in pending, Record(w)
      PROVE  row'[m][c] \in 1 .. row[m][c]
  <2>1. w.at \in Times
    BY DEF ReceiptsTypeOK, Writers
  <2>2. \/ row'[m][c] = row[m][c]
        \/ row'[m][c] = Least(row[m][c], w.at)
        \/ row'[m][c] = Least(row[m][c], Null)
    BY <1>2 DEF Record
  <2>3. /\ Least(row[m][c], w.at) \in 1 .. row[m][c]
        /\ Least(row[m][c], Null) \in 1 .. row[m][c]
    <3>1. w.at \in 0 .. MaxTime /\ Null \in 0 .. MaxTime /\ MaxTime \in Nat
      BY <2>1, ConstantsAssumption DEF Times, Null
    <3> QED
      BY <1>1, <3>1, LeastType
  <2> QED
    BY <1>1, <2>2, <2>3 DEF Null
<1>3. CASE Cleanup
  BY <1>1, <1>3 DEF Cleanup, Null
<1>4. CASE UNCHANGED row
  BY <1>1, <1>4 DEF Null
<1> QED
  BY <1>2, <1>3, <1>4 DEF ReceiptsNext, HandleReceipt, RecordMessageSent, RecordFails,
                          Expire, Restart, Age, receiptsVars

\* No step erases or delays a date of a row it keeps.
THEOREM DatesKept == ReceiptsSpec => DatesOnlyEarlier
<1>1. ReceiptsTypeOK /\ [ReceiptsNext]_receiptsVars =>
        [\A m \in Messages, c \in Columns :
             row[m][c] # Null /\ row'[m] # NoDates
                 => row'[m][c] \in 1 .. row[m][c]]_receiptsVars
  BY DatesStep
<1> QED
  BY <1>1, ReceiptsTyping, PTL DEF ReceiptsSpec, DatesOnlyEarlier

\* No step takes the status of a row it keeps back.
THEOREM StatusKept == ReceiptsSpec => StatusNeverGoesBack
<1>1. ReceiptsTypeOK /\ [ReceiptsNext]_receiptsVars =>
        [\A m \in Messages :
             row'[m] # NoDates => Status(row'[m]) >= Status(row[m])]_receiptsVars
  <2> SUFFICES ASSUME ReceiptsTypeOK, [ReceiptsNext]_receiptsVars, NEW m \in Messages, row'[m] # NoDates
               PROVE  Status(row'[m]) >= Status(row[m])
    OBVIOUS
  <2>1. \A c \in Columns : row[m][c] # Null => row'[m][c] # Null
    BY DatesStep DEF Null
  <2> QED
    BY <2>1 DEF Columns, States, Status, Null
<1> QED
  BY <1>1, ReceiptsTyping, PTL DEF ReceiptsSpec, StatusNeverGoesBack
=============================================================================
