------------------------ MODULE PasskeyCeremonyProofs ------------------------
(***************************************************************************)
(* The ceremony store keeps its two maps coherent, for any number of        *)
(* instances, ceremonies and tabs, and whatever the order of the events and *)
(* of the answers that arrive late.                                         *)
(*                                                                         *)
(* OverIsFinal needs more than itself: a ceremony could only come back if a *)
(* token were used twice, and a tab that ended knows a token that was used. *)
(***************************************************************************)
EXTENDS PasskeyCeremony, TLAPS

StoreTypeOK ==
    /\ Live \subseteq Tokens
    /\ byToken \in [Live -> Entry]
    /\ byInst \in [Instances -> Tokens \cup {NoToken}]
    /\ expired \subseteq Live
    /\ DOMAIN owner \subseteq Tokens
    /\ owner \in [DOMAIN owner -> Instances]

RestTypeOK ==
    /\ tab \in [Tokens -> Tab]
    /\ link \in [Instances -> Link]
    /\ codes \in Nat
    /\ losing \subseteq Instances

\* What the operations of the store keep.
StoreInv == StoreTypeOK /\ StoreCoherent /\ StageHasData

\* A tab that did anything knows a token that was used.
TabKnowsToken == \A tok \in Tokens : tok \in DOMAIN owner \/ tab[tok] = NewTab

IInv == StoreInv /\ RestTypeOK /\ OverIsFinal /\ TabKnowsToken

\* The type invariant in two parts.
LEMMA TypeParts == TypeOK <=> StoreTypeOK /\ RestTypeOK
  BY DEF TypeOK, StoreTypeOK, RestTypeOK

\* Before any ceremony the maps are empty.
LEMMA InitIInv == Init => IInv
<1> SUFFICES ASSUME Init PROVE IInv
  OBVIOUS
<1>1. Live = {} /\ DOMAIN owner = {}
  BY DEF Init, Live
<1>2. StoreTypeOK
  BY <1>1 DEF Init, StoreTypeOK, Live
<1>3. RestTypeOK
  BY DEF Init, RestTypeOK, NewTab, Tab, Link
<1>4. StoreCoherent /\ StageHasData
  BY <1>1 DEF Init, StoreCoherent, StageHasData
<1>5. OverIsFinal /\ TabKnowsToken
  BY DEF Init, OverIsFinal, TabKnowsToken, NewTab
<1> QED
  BY <1>2, <1>3, <1>4, <1>5 DEF IInv, StoreInv

-----------------------------------------------------------------------------
(***************************************************************************)
(* The operations of the store.                                             *)
(***************************************************************************)
\* delete takes tokens out of both maps and leaves the others alone.
LEMMA DeleteKeepsStore ==
    ASSUME StoreInv, NEW gone, Delete(gone), owner' = owner
    PROVE  StoreInv' /\ Live' = Live \ gone
<1>1. StoreTypeOK /\ StoreCoherent /\ StageHasData
  BY DEF StoreInv
<1>2. Live' = Live \ gone
  BY DEF Delete, Keep, Live
<1>3. \A tok \in Live' : byToken'[tok] = byToken[tok]
  BY <1>2 DEF Delete, Keep, Live
<1>4. \A i \in Instances :
          byInst'[i] = IF byInst[i] \in gone THEN NoToken ELSE byInst[i]
  BY DEF Delete
<1>5. StoreTypeOK'
  <2>1. byToken' \in [Live' -> Entry]
    BY <1>1, <1>2 DEF Delete, Keep, Live, StoreTypeOK
  <2>2. byInst' \in [Instances -> Tokens \cup {NoToken}]
    BY <1>1 DEF Delete, StoreTypeOK
  <2> QED
    BY <1>1, <1>2, <2>1, <2>2 DEF Delete, StoreTypeOK
<1>6. StoreCoherent'
  BY <1>1, <1>2, <1>4, NoTokenAssumption DEF StoreCoherent, StoreTypeOK
<1>7. StageHasData'
  BY <1>1, <1>2, <1>3 DEF StageHasData
<1> QED
  BY <1>2, <1>5, <1>6, <1>7 DEF StoreInv

\* An update of the ceremony of an instance touches that ceremony only.
LEMMA PutKeepsStore ==
    ASSUME StoreInv, NEW i \in Instances, NEW entry, Put(i, entry), owner' = owner,
           byInst[i] \in Live =>
               /\ entry \in Entry
               /\ entry.stage = "challenge" => entry.key
               /\ entry.stage = "confirmation" => entry.code > 0
    PROVE  StoreInv' /\ Live' = Live
<1>1. StoreTypeOK /\ StoreCoherent /\ StageHasData
  BY DEF StoreInv
<1>2. CASE byInst[i] \notin Live
  <2>1. UNCHANGED <<byToken, byInst, expired, owner>>
    BY <1>2 DEF Put
  <2> QED
    BY <1>1, <2>1 DEF StoreInv, StoreTypeOK, StoreCoherent, StageHasData, Live
<1>3. CASE byInst[i] \in Live
  <2>1. /\ byToken' = [byToken EXCEPT ![byInst[i]] = entry]
        /\ expired' = expired \ {byInst[i]} /\ byInst' = byInst
    BY <1>3 DEF Put
  <2>2. Live' = Live
    BY <1>1, <2>1 DEF Live, StoreTypeOK
  <2>3. StoreTypeOK'
    BY <1>1, <1>3, <2>1, <2>2 DEF StoreTypeOK
  <2>4. StoreCoherent'
    BY <1>1, <2>1, <2>2 DEF StoreCoherent
  <2>5. StageHasData'
    BY <1>1, <1>3, <2>1, <2>2 DEF StageHasData, StoreTypeOK
  <2> QED
    BY <2>2, <2>3, <2>4, <2>5 DEF StoreInv
<1> QED
  BY <1>2, <1>3

\* The stages an update may write carry what they promise.
LEMMA UpdatesKeepStore ==
    ASSUME StoreInv, NEW i \in Instances, owner' = owner, codes \in Nat,
           \/ SetConfirmation(i, codes + 1) \/ SetAwaitingConfirmation(i)
           \/ SetConfirmed(i) \/ SetError(i)
    PROVE  StoreInv' /\ Live' = Live
<1>1. byInst[i] \in Live => Current(i) \in Entry
  BY DEF StoreInv, StoreTypeOK, Current
<1>2. CASE SetConfirmation(i, codes + 1)
  <2>1. PICK code \in Nat : code = codes + 1
    OBVIOUS
  <2> DEFINE entry == [Current(i) EXCEPT !.stage = "confirmation", !.code = code]
  <2>2. byInst[i] \in Live =>
            entry \in Entry /\ entry.stage = "confirmation" /\ entry.code = code
    BY <1>1 DEF Entry, Stage
  <2>3. Put(i, entry)
    BY <1>2, <2>1 DEF SetConfirmation
  <2> HIDE DEF entry
  <2> QED
    BY <2>1, <2>2, <2>3, PutKeepsStore
<1>3. CASE SetAwaitingConfirmation(i)
  <2> DEFINE entry == [Current(i) EXCEPT !.stage = "awaiting", !.key = FALSE]
  <2>1. byInst[i] \in Live => entry \in Entry /\ entry.stage = "awaiting"
    BY <1>1 DEF Entry, Stage
  <2>2. Put(i, entry)
    BY <1>3 DEF SetAwaitingConfirmation
  <2> HIDE DEF entry
  <2> QED
    BY <2>1, <2>2, PutKeepsStore
<1>4. CASE SetConfirmed(i)
  <2> DEFINE entry == [Current(i) EXCEPT !.stage = "confirmed"]
  <2>1. byInst[i] \in Live => entry \in Entry /\ entry.stage = "confirmed"
    BY <1>1 DEF Entry, Stage
  <2>2. Put(i, entry)
    BY <1>4 DEF SetConfirmed
  <2> HIDE DEF entry
  <2> QED
    BY <2>1, <2>2, PutKeepsStore
<1>5. CASE SetError(i)
  <2> DEFINE entry == [Current(i) EXCEPT !.stage = "error"]
  <2>1. byInst[i] \in Live => entry \in Entry /\ entry.stage = "error"
    BY <1>1 DEF Entry, Stage
  <2>2. Put(i, entry)
    BY <1>5 DEF SetError
  <2> HIDE DEF entry
  <2> QED
    BY <2>1, <2>2, PutKeepsStore
<1> QED
  BY <1>2, <1>3, <1>4, <1>5

\* Start replaces the ceremony of its instance by one with a new token.
LEMMA StartKeepsStore ==
    ASSUME StoreInv, NEW i \in Instances, NEW tok \in Tokens,
           tok \notin DOMAIN owner, StartCeremony(i, tok),
           owner' = [k \in DOMAIN owner \cup {tok} |-> IF k = tok THEN i ELSE owner[k]]
    PROVE  StoreInv' /\ Live' \subseteq Live \cup {tok}
<1>1. StoreTypeOK /\ StoreCoherent /\ StageHasData
  BY DEF StoreInv
<1> DEFINE kept == Live \ (expired \cup {byInst[i]})
           new  == [stage |-> "challenge", key |-> TRUE, code |-> 0]
<1>2. Live' = kept \cup {tok}
  BY DEF StartCeremony, Live
<1>3. tok \notin Live
  BY <1>1 DEF StoreCoherent
<1>4. byToken'[tok] = new /\ \A k \in kept : byToken'[k] = byToken[k]
  BY <1>2, <1>3 DEF StartCeremony, Live
<1>5. /\ byInst'[i] = tok
      /\ \A j \in Instances \ {i} :
             byInst'[j] = IF byInst[j] \in expired THEN NoToken ELSE byInst[j]
  BY DEF StartCeremony
<1>6. DOMAIN owner' = DOMAIN owner \cup {tok}
  OBVIOUS
<1>7. owner'[tok] = i /\ \A k \in DOMAIN owner : owner'[k] = owner[k]
  OBVIOUS
<1>8. StoreTypeOK'
  <2>1. new \in Entry
    BY DEF Entry, Stage
  <2>2. byToken' \in [Live' -> Entry]
    BY <1>1, <1>2, <2>1 DEF StartCeremony, Live, StoreTypeOK
  <2>3. byInst' \in [Instances -> Tokens \cup {NoToken}]
    BY <1>1 DEF StartCeremony, StoreTypeOK
  <2>4. owner' \in [DOMAIN owner' -> Instances]
    BY <1>1, <1>6, <1>7 DEF StoreTypeOK
  <2> QED
    BY <1>1, <1>2, <1>6, <2>2, <2>3, <2>4 DEF StartCeremony, StoreTypeOK
<1>9. StoreCoherent'
  <2>1. ASSUME NEW j \in Instances, byInst'[j] # NoToken
        PROVE  byInst'[j] \in Live' /\ owner'[byInst'[j]] = j
    <3>1. CASE j = i
      BY <1>2, <1>5, <1>7, <3>1
    <3>2. CASE j # i
      <4>1. byInst'[j] = byInst[j] /\ byInst[j] \in Live \ expired
            /\ owner[byInst[j]] = j /\ byInst[j] \in DOMAIN owner
        BY <1>1, <1>5, <2>1, <3>2 DEF StoreCoherent
      <4>2. byInst[j] # byInst[i]
        BY <1>1, <3>2, <4>1, NoTokenAssumption DEF StoreCoherent, StoreTypeOK
      <4> QED
        BY <1>2, <1>7, <4>1, <4>2
    <3> QED
      BY <3>1, <3>2
  <2>2. ASSUME NEW k \in Live'
        PROVE  k \in DOMAIN owner' /\ byInst'[owner'[k]] = k
    <3>1. CASE k = tok
      BY <1>5, <1>6, <1>7, <3>1
    <3>2. CASE k \in kept
      <4>1. k \in DOMAIN owner /\ byInst[owner[k]] = k /\ k \notin expired
            /\ k # byInst[i] /\ owner[k] \in Instances
        BY <1>1, <3>2 DEF StoreCoherent, StoreTypeOK
      <4> QED
        BY <1>5, <1>6, <1>7, <4>1
    <3> QED
      BY <1>2, <2>2, <3>1, <3>2
  <2> QED
    BY <2>1, <2>2 DEF StoreCoherent
<1>10. StageHasData'
  BY <1>1, <1>2, <1>4 DEF StageHasData
<1> QED
  BY <1>2, <1>8, <1>9, <1>10 DEF StoreInv

-----------------------------------------------------------------------------
(***************************************************************************)
(* The steps.                                                               *)
(***************************************************************************)
\* A step that starts no ceremony and ends no tab cannot bring one back.
LEMMA KeepsOver ==
    ASSUME IInv, StoreInv', RestTypeOK', owner' = owner, Live' \subseteq Live,
           \A tok \in Tokens : tab'[tok].shown = tab[tok].shown,
           \A tok \in Tokens : tok \in DOMAIN owner \/ tab'[tok] = tab[tok]
    PROVE  IInv'
  BY DEF IInv, OverIsFinal, TabKnowsToken

\* The events of the client keep the invariant.
LEMMA EventIInv ==
    ASSUME IInv, NEW i \in Instances, Event(i)
    PROVE  IInv'
<1>1. StoreInv /\ RestTypeOK
  BY DEF IInv
<1>2. \A to \in Link : Becomes(i, to) => link' \in [Instances -> Link]
  BY <1>1 DEF Becomes, RestTypeOK
<1>3. ASSUME NEW to \in Link, Becomes(i, to), owner' = owner, tab' = tab,
             codes' \in Nat, losing' \subseteq Instances, StoreInv', Live' \subseteq Live
      PROVE  IInv'
  <2>1. RestTypeOK'
    BY <1>1, <1>2, <1>3 DEF RestTypeOK
  <2> QED
    BY <1>3, <2>1, KeepsOver
<1>4. ASSUME UNCHANGED <<store, owner>>
      PROVE  StoreInv' /\ Live' = Live
  BY <1>1, <1>4 DEF StoreInv, StoreTypeOK, StoreCoherent, StageHasData, store, Live
<1>5. codes \in Nat /\ losing \subseteq Instances
  BY <1>1 DEF RestTypeOK
<1>6. ASSUME NEW tok \in Tokens, PasskeyRequest(i, tok)
      PROVE  IInv'
  <2>1. StoreInv' /\ Live' \subseteq Live \cup {tok}
    BY <1>1, <1>6, StartKeepsStore DEF PasskeyRequest
  <2>2. RestTypeOK'
    BY <1>1, <1>2, <1>6 DEF PasskeyRequest, RestTypeOK, Link
  <2>3. tab' = tab /\ DOMAIN owner' = DOMAIN owner \cup {tok} /\ tok \notin DOMAIN owner
    BY <1>6 DEF PasskeyRequest
  <2>4. TabKnowsToken'
    BY <2>3 DEF IInv, TabKnowsToken
  <2>5. OverIsFinal'
    BY <2>1, <2>3 DEF IInv, OverIsFinal, TabKnowsToken, NewTab
  <2> QED
    BY <2>1, <2>2, <2>4, <2>5 DEF IInv
<1>7. CASE PasskeyConfirmation(i)
  <2>1. StoreInv' /\ Live' = Live
    BY <1>1, <1>5, <1>7, UpdatesKeepStore DEF PasskeyConfirmation
  <2> QED
    BY <1>3, <1>5, <1>7, <2>1 DEF PasskeyConfirmation, Link
<1>8. CASE PasskeyError(i)
  <2>1. StoreInv' /\ Live' = Live
    BY <1>1, <1>5, <1>8, UpdatesKeepStore DEF PasskeyError
  <2> QED
    BY <1>3, <1>5, <1>8, <2>1 DEF PasskeyError, Link
<1>9. CASE PairSuccess(i)
  <2>1. StoreInv' /\ Live' \subseteq Live
    BY <1>1, <1>9, DeleteKeepsStore DEF PairSuccess, Clear
  <2> QED
    BY <1>3, <1>5, <1>9, <2>1 DEF PairSuccess, Link
<1>10. CASE ConnectionLost(i)
  <2>1. StoreInv' /\ Live' = Live
    BY <1>4, <1>10 DEF ConnectionLost
  <2>2. losing' \subseteq Instances
    BY <1>5, <1>10 DEF ConnectionLost
  <2> QED
    BY <1>3, <1>5, <1>10, <2>1, <2>2 DEF ConnectionLost, Link
<1>13. CASE CeremonyFails(i)
  <2>1. StoreInv' /\ Live' = Live
    BY <1>1, <1>5, <1>13, UpdatesKeepStore DEF CeremonyFails
  <2>2. RestTypeOK'
    BY <1>1, <1>13 DEF CeremonyFails, RestTypeOK
  <2> QED
    BY <1>13, <2>1, <2>2, KeepsOver DEF CeremonyFails
<1>11. CASE RuntimeEnds(i)
  <2>1. StoreInv' /\ Live' = Live
    BY <1>4, <1>11 DEF RuntimeEnds
  <2> QED
    BY <1>3, <1>5, <1>11, <2>1 DEF RuntimeEnds, Link
<1>12. CASE NewPairing(i)
  <2>1. StoreInv' /\ Live' \subseteq Live
    BY <1>1, <1>12, DeleteKeepsStore DEF NewPairing, Clear
  <2> QED
    BY <1>3, <1>5, <1>12, <2>1 DEF NewPairing, Link
<1> QED
  BY <1>6, <1>7, <1>8, <1>9, <1>10, <1>11, <1>12, <1>13 DEF Event

\* A tab that acts has a token that was used.
LEMMA ActsOnStarted ==
    ASSUME IInv, NEW tok \in Tokens, TabStep(tok)
    PROVE  tok \in DOMAIN owner
<1>1. CASE tab[tok] = NewTab
  BY <1>1 DEF TabStep, Poll, Click, Send, SendWithoutClient, Accepted, Refused,
     NewTab
<1>2. CASE tab[tok] # NewTab
  BY <1>2 DEF IInv, TabKnowsToken
<1> QED
  BY <1>1, <1>2

\* The answer to a request updates the ceremony in use, if there is one.
LEMMA AnswerKeepsStore ==
    ASSUME IInv, NEW tok \in Tokens, Accepted(tok) \/ Refused(tok)
    PROVE  StoreInv' /\ Live' = Live
<1>1. tok \in DOMAIN owner
  BY ActsOnStarted DEF TabStep
<1>2. owner[tok] \in Instances /\ codes \in Nat /\ StoreInv
  BY <1>1 DEF IInv, StoreInv, StoreTypeOK, RestTypeOK
<1>3. owner' = owner
  BY DEF Accepted, Refused
<1>4. \/ SetAwaitingConfirmation(owner[tok]) \/ SetConfirmed(owner[tok])
      \/ SetError(owner[tok])
  BY DEF Accepted, Refused
<1> QED
  BY <1>2, <1>3, <1>4, UpdatesKeepStore

\* The requests of a tab keep the invariant.
LEMMA TabStepIInv ==
    ASSUME IInv, NEW tok \in Tokens, TabStep(tok)
    PROVE  IInv'
<1>1. StoreInv /\ RestTypeOK /\ StoreTypeOK
  BY DEF IInv, StoreInv
<1>2. tab[tok] \in Tab /\ tab \in [Tokens -> Tab] /\ codes \in Nat
  BY <1>1 DEF RestTypeOK
<1>0. tok \in DOMAIN owner
  BY ActsOnStarted
<1>3. ASSUME UNCHANGED <<store, owner>>
      PROVE  StoreInv' /\ Live' = Live
  BY <1>1, <1>3 DEF StoreInv, StoreTypeOK, StoreCoherent, StageHasData, store, Live
<1> DEFINE TabsKept == \A k \in Tokens :
               /\ tab'[k].shown = tab[k].shown
               /\ k \in DOMAIN owner \/ tab'[k] = tab[k]
<1>4. ASSUME NEW request \in {"none", "resolved", "sent", "refused"},
             \/ tab' = [tab EXCEPT ![tok].request = request]
             \/ tab' = [tab EXCEPT ![tok].request = request, ![tok].button = "none"]
      PROVE  /\ tab' \in [Tokens -> Tab]
             /\ TabsKept
  BY <1>0, <1>2, <1>4 DEF Tab
<1>5. CASE Poll(tok)
  <2>1. StoreInv' /\ Live' = Live \ expired
    BY <1>1, <1>5, DeleteKeepsStore DEF Poll
  <2>2. tok \in Live \ expired =>
            ButtonAt(byToken[tok].stage, tab[tok].button)
                \in {"none", "response", "confirm"}
    BY <1>1, <1>2 DEF ButtonAt, StoreTypeOK, Entry, Stage, Tab
  <2>3. PICK shown \in {"nothing", "ceremony", "over"},
             button \in {"none", "response", "confirm"} :
            /\ tab' = [tab EXCEPT ![tok].shown = shown, ![tok].button = button]
            /\ shown = "over" => tok \notin Live \ expired
    <3>1. CASE tok \notin Live \ expired /\ tab[tok].shown = "nothing"
      <4>1. tab' = [tab EXCEPT ![tok].shown = "nothing",
                               ![tok].button = tab[tok].button]
        BY <1>2, <1>5, <3>1 DEF Poll, Tab
      <4> QED
        BY <1>2, <4>1 DEF Tab
    <3>2. CASE ~(tok \notin Live \ expired /\ tab[tok].shown = "nothing")
      BY <1>5, <2>2, <3>2 DEF Poll
    <3> QED
      BY <3>1, <3>2
  <2>4. /\ tab' \in [Tokens -> Tab] /\ tab'[tok].shown = shown
        /\ \A k \in Tokens \ {tok} : tab'[k] = tab[k]
    BY <1>2, <2>3 DEF Tab
  <2>5. RestTypeOK'
    BY <1>1, <1>5, <2>4 DEF Poll, RestTypeOK
  <2>6. owner' = owner /\ tok \in DOMAIN owner
    BY <1>5 DEF Poll
  <2>7. OverIsFinal' /\ TabKnowsToken'
    BY <2>1, <2>3, <2>4, <2>6 DEF IInv, OverIsFinal, TabKnowsToken
  <2> QED
    BY <2>1, <2>5, <2>7 DEF IInv
<1>6. CASE Click(tok)
  <2>1. RestTypeOK' /\ TabsKept
    BY <1>1, <1>4, <1>6 DEF Click, RestTypeOK
  <2> QED
    BY <1>3, <1>6, <2>1, KeepsOver DEF Click
<1>7. CASE Send(tok)
  <2>1. tab' \in [Tokens -> Tab] /\ TabsKept
    BY <1>4, <1>7 DEF Send
  <2>2. link' \in [Instances -> Link]
    BY <1>1, <1>7 DEF Send, Becomes, RestTypeOK, Link
  <2>3. RestTypeOK'
    BY <1>1, <1>2, <1>7, <2>1, <2>2 DEF Send, RestTypeOK
  <2> QED
    BY <1>3, <1>7, <2>1, <2>3, KeepsOver DEF Send
<1>8. CASE SendWithoutClient(tok)
  <2>1. RestTypeOK' /\ TabsKept
    BY <1>1, <1>4, <1>8 DEF SendWithoutClient, RestTypeOK
  <2> QED
    BY <1>3, <1>8, <2>1, KeepsOver DEF SendWithoutClient
<1>9. CASE Accepted(tok)
  <2>1. RestTypeOK' /\ TabsKept
    BY <1>1, <1>4, <1>9 DEF Accepted, RestTypeOK
  <2>2. StoreInv' /\ Live' = Live
    BY <1>1, <1>9, AnswerKeepsStore
  <2> QED
    BY <1>9, <2>1, <2>2, KeepsOver DEF Accepted
<1>10. CASE Refused(tok)
  <2>1. RestTypeOK' /\ TabsKept
    BY <1>1, <1>4, <1>10 DEF Refused, RestTypeOK
  <2>2. StoreInv' /\ Live' = Live
    BY <1>1, <1>10, AnswerKeepsStore
  <2> QED
    BY <1>10, <2>1, <2>2, KeepsOver DEF Refused
<1> QED
  BY <1>5, <1>6, <1>7, <1>8, <1>9, <1>10 DEF TabStep

\* The passing of time keeps the invariant, and so does a step of no change.
LEMMA TimeIInv ==
    ASSUME IInv, (\E tok \in Tokens : Expire(tok)) \/ UNCHANGED vars
    PROVE  IInv'
<1>1. /\ UNCHANGED <<byToken, byInst, owner, tab, link, codes, losing>>
      /\ expired' \subseteq Live
  BY DEF vars, store, Expire, IInv, StoreInv, StoreTypeOK
<1>2. StoreInv' /\ RestTypeOK' /\ Live' = Live
  BY <1>1 DEF IInv, StoreInv, StoreTypeOK, StoreCoherent, StageHasData, RestTypeOK,
     Live
<1> QED
  BY <1>1, <1>2, KeepsOver

-----------------------------------------------------------------------------
\* The invariant is inductive.
THEOREM Inductive == Spec => []IInv
<1>1. IInv /\ [Next]_vars => IInv'
  BY EventIInv, TabStepIInv, TimeIInv DEF Next
<1> QED
  BY InitIInv, <1>1, PTL DEF Spec

\* The model's variables keep their types for every value of the constants.
THEOREM TypeCorrect == Spec => []TypeOK
<1>1. IInv => TypeOK
  BY TypeParts DEF IInv, StoreInv
<1> QED
  BY Inductive, <1>1, PTL

\* The two maps of the store always agree (store.go:58-62): a token resolves to
\* the ceremony its instance has, and an instance has at most one.
THEOREM StoreAlwaysCoherent == Spec => []StoreCoherent
  BY Inductive, PTL DEF IInv, StoreInv

\* A stage always comes with what the extension needs in it (store.go:21-23).
THEOREM StageAlwaysHasData == Spec => []StageHasData
  BY Inductive, PTL DEF IInv, StoreInv

\* A ceremony a tab was told is over never comes back (store.go:168-178).
THEOREM OverStaysFinal == Spec => []OverIsFinal
  BY Inductive, PTL DEF IInv
=============================================================================
