---------------------------- MODULE RequestSteps ----------------------------
(***************************************************************************)
(* The vocabulary in which the operations of the API are written down.     *)
(*                                                                         *)
(* A handler and the service it calls run from top to bottom and leave at  *)
(* the first step that fails.  A recipe keeps exactly that: the order of   *)
(* the steps, what each of them touches, and what its failure does.  What  *)
(* a step carries (texts, images, names) is left out.                      *)
(*                                                                         *)
(* A recipe is a sequence of stages.  A stage is a sequence of steps which *)
(* runs at most `attempts' times (the ...WithRetry loops of the send       *)
(* service); only the failures the code repeats start it again.  A step,   *)
(* or a whole stage, can be one the request may do without.                *)
(***************************************************************************)
EXTENDS Naturals, Sequences, Functions

(***************************************************************************)
(* What a step touches:                                                    *)
(*   allow    the key of the caller, before anything else                  *)
(*   number   the "number" of the body, in a validator of the router       *)
(*   bind     the body, read into a struct with a number                   *)
(*   present  the number the handler read: it must not be empty            *)
(*   parse    the number again, in the service: a JID can be made of it    *)
(*   check    only the request itself                                      *)
(*   local    the database, a file, a conversion, an address: read only    *)
(*   client   ensureClientConnected of the services: without a client it   *)
(*            starts the instance, which stays started                     *)
(*   session  ConnectedClient, the one the send service uses: it asks the  *)
(*            supervisor for what should be up in any case                 *)
(*   reread   the map of clients, read again without waiting               *)
(*   ask      WhatsApp, a question, an upload or a sign of presence         *)
(*   act      WhatsApp, a change of the account                            *)
(*   send     WhatsApp, a message with an id                               *)
(*   own      client.Store.ID, dereferenced                                *)
(*   save     the database, a change                                       *)
(*   start    a runtime, asked to start, to start again, to stop or to pair *)
(*   emit     an event, handed to the goroutines that deliver it           *)
(***************************************************************************)
Kinds == {"allow", "number", "bind", "present", "parse", "check", "local", "client", "session",
          "reread", "ask", "act", "send", "own", "save", "start", "emit"}

(***************************************************************************)
(* What a failure of the step does:                                        *)
(*   refuse   the handler answers 4xx                                      *)
(*   conflict the service returns the error, the handler answers 409       *)
(*   give up  the service returns the error, the handler answers 5xx       *)
(*   retry    the same, unless the error says that the socket dropped and  *)
(*            attempts are left (isConnectionDrop)                         *)
(*   again    the same, unless attempts are left, whatever the error       *)
(*   ignore   the code logs it and goes on                                 *)
(***************************************************************************)
Outcomes == {"refuse", "conflict", "give up", "retry", "again", "ignore"}

\* opt: the request may do without; late: only from the second attempt on
\* arg: who may pass, which validator, how the number is read, an address or
\* whether the message has the id the request names; "" elsewhere
StepSet  == [kind : Kinds, fails : Outcomes, opt : BOOLEAN, late : BOOLEAN, arg : STRING]
StageSet == [attempts : Nat \ {0}, opt : BOOLEAN, steps : Seq(StepSet)]

Step(kind, fails) == [kind |-> kind, fails |-> fails, opt |-> FALSE, late |-> FALSE, arg |-> ""]

Opt(s)    == [s EXCEPT !.opt = TRUE]
Late(s)   == [s EXCEPT !.late = TRUE]
Refuse(s) == [s EXCEPT !.fails = "refuse"]
Ignore(s) == [s EXCEPT !.fails = "ignore"]
Again(s)  == [s EXCEPT !.fails = "again"]
Retry(s)  == [s EXCEPT !.fails = "retry"]

\* in a handler
Allow(who)   == [Step("allow", "refuse") EXCEPT !.arg = who]
\* a validator of the router, and how the handler reads and requires the field
Number(form) == [Step("number", "refuse") EXCEPT !.arg = form]
Read(type)   == [Step("bind", "refuse") EXCEPT !.arg = type]
HasNumber    == Step("present", "refuse")
Body         == Step("check", "refuse")
Required     == Step("check", "refuse")
\* the handler's own step whose failure it answers with 5xx
Reads        == Step("local", "give up")

\* in a service
Parse   == Step("parse", "give up")
Invalid == Step("check", "give up")
Local   == Step("local", "give up")
\* a file fetched from an address of the request
Fetch   == [Local EXCEPT !.arg = "url"]
Save    == Step("save", "give up")
Client  == Step("client", "give up")
Session == Step("session", "conflict")
Reread  == Step("reread", "give up")
Ask     == Step("ask", "give up")
Act     == Step("act", "give up")
Send    == Step("send", "give up")
\* with the id of the request, when it names one
SendAs(id) == [Send EXCEPT !.arg = id]
Own     == Step("own", "give up")
Start   == Step("start", "give up")
Stop    == Step("start", "give up")
Emit    == Step("emit", "ignore")

\* a loop of the code over the items of the request: Items of them
Items   == 2
Each(s) == [i \in 1..Items |-> s]

Stage(n, optional, steps) == <<[attempts |-> n, opt |-> optional, steps |-> steps]>>

Once(steps)        == Stage(1, FALSE, steps)
Attempts(n, steps) == Stage(n, FALSE, steps)
May(n, steps)      == Stage(n, TRUE, steps)

StepsOf(recipe) == UNION {Range(recipe[p].steps) : p \in DOMAIN recipe}
Has(recipe, kind) == \E s \in StepsOf(recipe) : s.kind = kind

-----------------------------------------------------------------------------
(***************************************************************************)
(* The order the steps of a recipe keep.  Requests assumes it of the       *)
(* recipes of the code and rests its invariants on it.                     *)
(***************************************************************************)
\* the kinds that act on something, and those that leave something behind
Acts    == {"act", "send", "save", "start", "emit"}
Changes == Acts \union {"client"}

\* step i of stage p comes before step j of stage q
Before(p, i, q, j) == p < q \/ (p = q /\ i < j)

\* the request goes on after it, unless the device is removed meanwhile (own)
GoesOn(s) ==
  s.fails = "ignore" \/ s.kind \in {"reread", "emit"} \/ (s.kind = "own" /\ s.fails = "give up")

\* What can fail comes before what changes something, and no change is repeated,
\* except for the kinds of change an operation may leave behind.
ChecksFirst(recipe, leaves) ==
  \A p, q \in DOMAIN recipe :
    \A i \in DOMAIN recipe[p].steps, j \in DOMAIN recipe[q].steps :
      recipe[p].steps[i].kind \in Changes \ leaves =>
        /\ recipe[p].steps[i].fails # "again"
        /\ Before(p, i, q, j) => GoesOn(recipe[q].steps[j])

\* A stage sends one message, and nothing after the message starts it again.
SendsOnce(recipe) ==
  \A p \in DOMAIN recipe : \A i, j \in DOMAIN recipe[p].steps :
    recipe[p].steps[i].kind = "send" =>
      /\ recipe[p].steps[i].fails # "again"
      /\ i < j => /\ recipe[p].steps[j].kind # "send"
                 /\ recipe[p].steps[j].fails \notin {"again", "retry"}

\* no request leaves this step out, and none goes on when it fails
Mandatory(s) == ~s.opt /\ ~s.late /\ s.fails # "ignore"

\* Where the body has a number, a JID is made of it before anything is acted on,
\* in the same stage or in one before it that is not left out, and after the
\* validators of the router.
ParsesFirst(recipe) ==
  /\ \A p, q \in DOMAIN recipe :
       \A i \in DOMAIN recipe[p].steps, j \in DOMAIN recipe[q].steps :
         recipe[p].steps[i].kind = "number" /\ recipe[q].steps[j].kind = "parse" => p < q
  /\ \A p \in DOMAIN recipe : \A i \in DOMAIN recipe[p].steps :
       recipe[p].steps[i].kind \in Acts =>
         \E q \in DOMAIN recipe : \E j \in DOMAIN recipe[q].steps :
           /\ recipe[q].steps[j].kind = "parse" /\ Mandatory(recipe[q].steps[j])
           /\ (q < p /\ ~recipe[q].opt) \/ (q = p /\ j < i)
=============================================================================
