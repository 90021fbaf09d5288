--------------------------- MODULE PasskeyCeremony ---------------------------
(***************************************************************************)
(* Pairing with a passkey: the ceremony store                               *)
(* (pkg/passkey/ceremony/store.go), the events of the WhatsApp client that  *)
(* write it by instance, the public endpoints that reach it by token        *)
(* (pkg/passkey/handler, SubmitPasskeyResponse, ConfirmPasskey) and the tab *)
(* of the browser extension that polls it (passkey-helper/content.js).      *)
(*                                                                         *)
(* An endpoint resolves the token, calls WhatsApp for up to 45 seconds and  *)
(* writes the outcome: three steps between which the client keeps emitting  *)
(* events.  Every operation of the store holds its mutex throughout.        *)
(* WhatsApp's side of a pairing (link) is external: it asks, accepts or     *)
(* refuses what it is sent, fails, or drops the connection.                 *)
(***************************************************************************)
EXTENDS Naturals

CONSTANTS
    Instances,
    Tokens,    (* what newToken returns: no value comes twice; bound        *)
    NoToken,
    MaxCodes   (* bound: confirmation codes WhatsApp sends                  *)

ASSUME NoTokenAssumption == NoToken \notin Tokens

VARIABLES
    byToken,  \* the ceremonies, by token: a map whose domain changes
    byInst,   \* the token in use for each instance, or NoToken
    expired,  \* tokens of the map whose expiresAt has passed
    owner,    \* instanceID of every ceremony ever started, by token
    tab,      \* the tab of the extension opened for each token
    link,     \* how far WhatsApp is with each instance
    codes,    \* confirmation codes sent
    losing    \* instances whose Disconnected handler found an active ceremony

store == <<byToken, byInst, expired>>
vars  == <<store, owner, tab, link, codes, losing>>

Stage == {"challenge", "awaiting", "confirmation", "confirmed", "error"}
Entry == [stage: Stage, key: BOOLEAN, code: Nat]

\* What the tab shows, what its button would send, and how far a click is:
\* token resolved, sent to WhatsApp with success or without.
Tab == [shown: {"nothing", "ceremony", "over"},
        button: {"none", "response", "confirm"},
        request: {"none", "resolved", "sent", "refused"}]

NewTab == [shown |-> "nothing", button |-> "none", request |-> "none"]

\* "down" is an instance without a client, "idle" a client that asks nothing.
Link == {"down", "idle", "asked", "answered", "coded", "accepted", "paired"}

Live == DOMAIN byToken

Init ==
    /\ byToken = [tok \in {} |-> 0]
    /\ byInst = [i \in Instances |-> NoToken]
    /\ expired = {}
    /\ owner = [tok \in {} |-> 0]
    /\ tab = [tok \in Tokens |-> NewTab]
    /\ link = [i \in Instances |-> "idle"]
    /\ codes = 0
    /\ losing = {}

(***************************************************************************)
(* The store.                                                               *)
(***************************************************************************)
Keep(map, keys) == [k \in keys |-> map[k]]

\* Mutant of Delete: expiresAt outlives the entry.
DeleteKeepingExpired(gone) ==
    /\ byToken' = Keep(byToken, Live \ gone)
    /\ byInst' = [i \in Instances |-> IF byInst[i] \in gone THEN NoToken
                                      ELSE byInst[i]]
    /\ UNCHANGED expired

\* delete: the tokens leave both maps.
Delete(gone) ==
    /\ byToken' = Keep(byToken, Live \ gone)
    /\ byInst' = [i \in Instances |-> IF byInst[i] \in gone THEN NoToken
                                      ELSE byInst[i]]
    /\ expired' = expired \ gone

\* Mutant of StartCeremony: the token it replaces stays in the map.
StartBesidesOld(i, tok) ==
    /\ byToken' = [k \in (Live \ expired) \cup {tok} |->
           IF k = tok THEN [stage |-> "challenge", key |-> TRUE, code |-> 0]
           ELSE byToken[k]]
    /\ byInst' = [j \in Instances |->
           IF j = i THEN tok
           ELSE IF byInst[j] \in expired THEN NoToken ELSE byInst[j]]
    /\ expired' = {}

\* Store.Start: prune, drop the token in use, put the new one in both maps.
StartCeremony(i, tok) ==
    /\ byToken' = [k \in (Live \ (expired \cup {byInst[i]})) \cup {tok} |->
           IF k = tok THEN [stage |-> "challenge", key |-> TRUE, code |-> 0]
           ELSE byToken[k]]
    /\ byInst' = [j \in Instances |->
           IF j = i THEN tok
           ELSE IF byInst[j] \in expired THEN NoToken ELSE byInst[j]]
    /\ expired' = {}

\* setStateByInstance: the ceremony of the instance, whichever it is by now,
\* and five more minutes for it.  Without one it does nothing.
Put(i, entry) ==
    /\ byInst' = byInst
    /\ IF byInst[i] \in Live
       THEN /\ byToken' = [byToken EXCEPT ![byInst[i]] = entry]
            /\ expired' = expired \ {byInst[i]}
       ELSE UNCHANGED <<byToken, expired>>

Current(i) == byToken[byInst[i]]

SetConfirmation(i, code) ==
    Put(i, [Current(i) EXCEPT !.stage = "confirmation", !.code = code])

\* Mutant of SetAwaitingConfirmation: only the challenge is dropped.
DropChallenge(i) ==
    Put(i, [Current(i) EXCEPT !.key = FALSE])

SetAwaitingConfirmation(i) ==
    Put(i, [Current(i) EXCEPT !.stage = "awaiting", !.key = FALSE])

SetConfirmed(i) == Put(i, [Current(i) EXCEPT !.stage = "confirmed"])

SetError(i) == Put(i, [Current(i) EXCEPT !.stage = "error"])

\* Store.Clear
Clear(i) == Delete({byInst[i]} \cap Live)

\* HasActiveByInstance: what keeps the QR emitter from ending the runtime.
HasActive(i) ==
    /\ byInst[i] \in Live \ expired
    /\ Current(i).stage # "error"

\* Five minutes without an update.
Expire(tok) ==
    /\ tok \in Live \ expired
    /\ expired' = expired \cup {tok}
    /\ UNCHANGED <<byToken, byInst, owner, tab, link, codes, losing>>

(***************************************************************************)
(* Events of the WhatsApp client.                                           *)
(***************************************************************************)
Becomes(i, to) == link' = [link EXCEPT ![i] = to]

\* PairPasskeyRequest, possibly a second time.
PasskeyRequest(i, tok) ==
    /\ link[i] \in Link \ {"down", "paired"}
    /\ tok \notin DOMAIN owner
    /\ StartCeremony(i, tok)
    /\ owner' = [k \in DOMAIN owner \cup {tok} |-> IF k = tok THEN i ELSE owner[k]]
    /\ Becomes(i, "asked")
    /\ UNCHANGED <<tab, codes, losing>>

\* PairPasskeyConfirmation: never confirmed automatically.
PasskeyConfirmation(i) ==
    /\ link[i] = "answered"
    /\ codes < MaxCodes
    /\ codes' = codes + 1
    /\ SetConfirmation(i, codes + 1)
    /\ Becomes(i, "coded")
    /\ UNCHANGED <<owner, tab, losing>>

PasskeyError(i) ==
    /\ link[i] \in {"asked", "answered", "coded", "accepted"}
    /\ SetError(i)
    /\ Becomes(i, "idle")
    /\ UNCHANGED <<owner, tab, codes, losing>>

PairSuccess(i) ==
    /\ link[i] = "accepted"
    /\ Clear(i)
    /\ Becomes(i, "paired")
    /\ UNCHANGED <<owner, tab, codes, losing>>

\* Disconnected before pairing: the handler looks for an active ceremony (one
\* such handler of an instance at a time: bound) ...
ConnectionLost(i) ==
    /\ link[i] \in {"asked", "answered", "coded", "accepted"}
    /\ i \notin losing
    /\ losing' = IF HasActive(i) THEN losing \cup {i} ELSE losing
    /\ Becomes(i, "idle")
    /\ UNCHANGED <<store, owner, tab, codes>>

\* ... and makes an error of the one that is there by then.
CeremonyFails(i) ==
    /\ i \in losing
    /\ SetError(i)
    /\ losing' = losing \ {i}
    /\ UNCHANGED <<owner, tab, link, codes>>

\* The runtime ends without a pairing; a new one, once the handlers of the old
\* have returned, clears the ceremony.
RuntimeEnds(i) ==
    /\ link[i] \in Link \ {"down", "paired"}
    /\ Becomes(i, "down")
    /\ UNCHANGED <<store, owner, tab, codes, losing>>

NewPairing(i) ==
    /\ link[i] = "down"
    /\ i \notin losing
    /\ Clear(i)
    /\ Becomes(i, "idle")
    /\ UNCHANGED <<owner, tab, codes, losing>>

(***************************************************************************)
(* The extension and the endpoints it calls.                                *)
(***************************************************************************)

\* The button after a poll; an error leaves "try again" where it is.
ButtonAt(stage, button) ==
    CASE stage = "challenge"    -> "response"
      [] stage = "confirmation" -> "confirm"
      [] stage = "error"        -> button
      [] OTHER                  -> "none"

\* Mutant of Poll: Lookup answers 404 without pruning.
PollWithoutPrune(tok) ==
    /\ tok \in DOMAIN owner
    /\ tab[tok].request = "none"
    /\ tab[tok].shown # "over"
    /\ UNCHANGED store
    /\ IF tok \in Live \ expired
       THEN tab' = [tab EXCEPT ![tok].shown = "ceremony",
                        ![tok].button = ButtonAt(byToken[tok].stage, @)]
       ELSE tab' = IF tab[tok].shown = "nothing" THEN tab
                   ELSE [tab EXCEPT ![tok].shown = "over", ![tok].button = "none"]
    /\ UNCHANGED <<owner, link, codes, losing>>

\* GET /passkey-ceremony/{token}: Lookup prunes, then answers the stage or 404.
\* A 404 after the ceremony was seen ends the polling.
Poll(tok) ==
    /\ tok \in DOMAIN owner
    /\ tab[tok].request = "none"
    /\ tab[tok].shown # "over"
    /\ Delete(expired)
    /\ IF tok \in Live \ expired
       THEN tab' = [tab EXCEPT ![tok].shown = "ceremony",
                        ![tok].button = ButtonAt(byToken[tok].stage, @)]
       ELSE tab' = IF tab[tok].shown = "nothing" THEN tab
                   ELSE [tab EXCEPT ![tok].shown = "over", ![tok].button = "none"]
    /\ UNCHANGED <<owner, link, codes, losing>>

\* A click: the endpoint resolves the token (InstanceForToken does not prune).
Click(tok) ==
    /\ tab[tok].button # "none"
    /\ tab[tok].request = "none"
    /\ tok \in Live \ expired
    /\ tab' = [tab EXCEPT ![tok].request = "resolved"]
    /\ UNCHANGED <<store, owner, link, codes, losing>>

\* SendPasskeyResponse or SendPasskeyConfirmation on the client found now: it
\* is accepted only when WhatsApp waits for it, and may fail even then.
Send(tok) ==
    /\ tab[tok].request = "resolved"
    /\ link[owner[tok]] # "down"
    /\ \/ /\ tab[tok].button = "response"
          /\ link[owner[tok]] = "asked"
          /\ Becomes(owner[tok], "answered")
          /\ tab' = [tab EXCEPT ![tok].request = "sent"]
       \/ /\ tab[tok].button = "confirm"
          /\ link[owner[tok]] = "coded"
          /\ Becomes(owner[tok], "accepted")
          /\ tab' = [tab EXCEPT ![tok].request = "sent"]
       \/ /\ link' = link
          /\ tab' = [tab EXCEPT ![tok].request = "refused"]
    /\ UNCHANGED <<store, owner, codes, losing>>

\* Without a client the endpoint fails and the ceremony is left as it was.
SendWithoutClient(tok) ==
    /\ tab[tok].request = "resolved"
    /\ link[owner[tok]] = "down"
    /\ tab' = [tab EXCEPT ![tok].request = "none"]
    /\ UNCHANGED <<store, owner, link, codes, losing>>

\* The outcome is written by instance, then the answer reaches the tab: success
\* hides the button, a failure offers to try again.
Accepted(tok) ==
    /\ tab[tok].request = "sent"
    /\ IF tab[tok].button = "response" THEN SetAwaitingConfirmation(owner[tok])
       ELSE SetConfirmed(owner[tok])
    /\ tab' = [tab EXCEPT ![tok].request = "none", ![tok].button = "none"]
    /\ UNCHANGED <<owner, link, codes, losing>>

Refused(tok) ==
    /\ tab[tok].request = "refused"
    /\ SetError(owner[tok])
    /\ tab' = [tab EXCEPT ![tok].request = "none"]
    /\ UNCHANGED <<owner, link, codes, losing>>

-----------------------------------------------------------------------------
Event(i) ==
    \/ \E tok \in Tokens : PasskeyRequest(i, tok)
    \/ PasskeyConfirmation(i) \/ PasskeyError(i) \/ PairSuccess(i)
    \/ ConnectionLost(i) \/ CeremonyFails(i) \/ RuntimeEnds(i) \/ NewPairing(i)

TabStep(tok) ==
    \/ Poll(tok) \/ Click(tok) \/ Send(tok) \/ SendWithoutClient(tok)
    \/ Accepted(tok) \/ Refused(tok)

Next ==
    \/ \E i \in Instances : Event(i)
    \/ \E tok \in Tokens : TabStep(tok) \/ Expire(tok)

Spec == Init /\ [][Next]_vars

-----------------------------------------------------------------------------
(***************************************************************************)
(* Properties.                                                              *)
(***************************************************************************)
TypeOK ==
    /\ Live \subseteq Tokens
    /\ byToken \in [Live -> Entry]
    /\ byInst \in [Instances -> Tokens \cup {NoToken}]
    /\ expired \subseteq Live
    /\ DOMAIN owner \subseteq Tokens
    /\ owner \in [DOMAIN owner -> Instances]
    /\ tab \in [Tokens -> Tab]
    /\ link \in [Instances -> Link]
    /\ codes \in Nat
    /\ losing \subseteq Instances

\* The two maps agree: an instance has at most one ceremony, the one its token
\* names, and no token is left that nothing leads to.  The public endpoints
\* trust it: a token that resolves is the one the events of its instance write.
StoreCoherent ==
    /\ \A i \in Instances : byInst[i] # NoToken =>
           byInst[i] \in Live /\ owner[byInst[i]] = i
    /\ \A tok \in Live : tok \in DOMAIN owner /\ byInst[owner[tok]] = tok

\* The extension finds what the stage promises: a challenge has the public key
\* to sign, a confirmation has the code to compare (store.go:21-23).
StageHasData ==
    \A tok \in Live :
        /\ byToken[tok].stage = "challenge" => byToken[tok].key
        /\ byToken[tok].stage = "confirmation" => byToken[tok].code > 0

\* Once a tab was told that its ceremony is over it stops polling, so the
\* ceremony must not come back, not even by an update that arrives late and
\* gives an expired entry five more minutes.
OverIsFinal == \A tok \in Tokens : tab[tok].shown = "over" => tok \notin Live
=============================================================================
