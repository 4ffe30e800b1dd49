--------------------------- MODULE BrowserProofs ---------------------------
(***************************************************************************)
(* The browser extension is a client of the bridge, and what it knows.     *)
(***************************************************************************)
EXTENDS Browser, BridgeProofs

(* The extension as a client of the bridge. *)
PagesShown == page \in [Tabs -> Pages] /\ front \in Tabs

LEMMA StepOfBridge ==
    ASSUME PagesShown, [Next]_vars
    PROVE  [BridgeNext]_bridgeVars /\ PagesShown'
<1>1. CASE BridgeStep /\ UNCHANGED browserVars
  BY <1>1 DEF BridgeNext, browserVars, tabVars, PagesShown
<1>2. ASSUME NEW r \in Requests, Send(r), UNCHANGED browserVars
      PROVE  [BridgeNext]_bridgeVars /\ PagesShown'
  BY <1>2 DEF BridgeNext, browserVars, tabVars, PagesShown
<1>3. ASSUME NEW r \in Requests, NEW a \in Asks, NEW what \in Bounded, Open(r, a, what),
             UNCHANGED tabVars
      PROVE  [BridgeNext]_bridgeVars /\ PagesShown'
  BY <1>3 DEF BridgeNext, tabVars, PagesShown
<1>4. ASSUME NEW r \in Requests, Query(r) \/ Typed(r) \/ PopupOpen(r) \/ PopupLogin(r)
      PROVE  [BridgeNext]_bridgeVars /\ PagesShown'
  <2>1. /\ [kind |-> "page", page |-> page[front]] \in Asks
        /\ [kind |-> "typed", page |-> page[front]] \in Asks
        /\ [kind |-> "loggedin"] \in Asks /\ [kind |-> "login"] \in Asks
    BY DEF PagesShown, Asks, PageAsk
  <2>2. {"queries", "typed", "popup"} \subseteq Bounded  BY DEF Bounded
  <2>3. CASE Query(r)  BY <2>1, <2>2, <2>3, <1>3 DEF Query
  <2>4. CASE Typed(r)  BY <2>1, <2>2, <2>4, <1>3 DEF Typed, browserVars
  <2>5. CASE PopupOpen(r)  BY <2>1, <2>2, <2>5, <1>3 DEF PopupOpen
  <2>6. CASE PopupLogin(r)  BY <2>1, <2>2, <2>6, <1>3 DEF PopupLogin
  <2>7. QED  BY <1>4, <2>3, <2>4, <2>5, <2>6
<1>5. CASE PopupClose
  <2>1. \E rs \in SUBSET Requests : Leave(rs)  BY <1>5 DEF PopupClose
  <2>2. QED  BY <1>5, <2>1 DEF PopupClose, BridgeNext, tabVars, PagesShown
<1>6. CASE TabEvent
  <2>1. PagesShown'  BY <1>6 DEF TabEvent, Activate, Navigate, PagesShown
  <2>2. QED  BY <1>6, <2>1 DEF TabEvent, BridgeNext
<1>7. ASSUME UNCHANGED <<bridgeVars, tabVars>> PROVE [BridgeNext]_bridgeVars /\ PagesShown'
  BY <1>7 DEF tabVars, PagesShown
<1>8. ASSUME NEW r \in Requests, Progress(r) \/ Done(r)
      PROVE  [BridgeNext]_bridgeVars /\ PagesShown'
  BY <1>7, <1>8 DEF Progress, Done
<1>9. ASSUME NEW m \in mail, Deliver(m) \/ SaveCreds(m)
      PROVE  [BridgeNext]_bridgeVars /\ PagesShown'
  BY <1>7, <1>9 DEF Deliver, SaveCreds
<1>10. CASE ClickData \/ Suspend  BY <1>7, <1>10 DEF ClickData, Suspend
<1>11. CASE UNCHANGED vars  BY <1>7, <1>11 DEF vars, browserVars
<1>12. QED
  BY <1>1, <1>2, <1>4, <1>5, <1>6, <1>8, <1>9, <1>10, <1>11 DEF Next

(* The extension is one of the clients the bridge is proved for: whatever  *)
(* is said of the bridge holds of the two together.                        *)
THEOREM ExtensionIsClient == Spec => BridgeSpec
<1>1. Init => BridgeInit /\ PagesShown  BY TabsPages DEF Init, PagesShown
<1>2. QED  BY <1>1, StepOfBridge, PTL DEF Spec, BridgeSpec

(* Answers are delivered to the extension, what it is told of the session  *)
(* is true or about to be, the lists it is given show the vault, and it is *)
(* not timed out without having been silent; each request is answered      *)
(* once, and for what it has asked.                                        *)
THEOREM ExtensionServed ==
    Spec => /\ []AnswerDelivered /\ []FirstStepPending /\ []ListShowsVault
            /\ TimeoutIsSilence /\ ServiceKept
BY ExtensionIsClient, BridgeDelivers, BridgeFirstStep, BridgeLists, BridgeSilence, BridgeServes, PTL

-----------------------------------------------------------------------------
(* A request is over when its script has been told all. *)
Told == /\ DOMAIN told = Requests
        /\ \A r \in Requests : told[r] = "all" => conn[r] # "unused" /\ Over(r)

AlertInv == Told /\ AlertHasCause

(* The alert is set by the end of a login that was not answered with a     *)
(* JWT; that request stays as it is.                                       *)
LEMMA AlertInductive ==
    ASSUME AlertInv, BridgeInv, PagesShown, [Next]_vars
    PROVE  AlertInv'
<1> USE DEF AlertInv
<1>1. ASSUME NEW r \in Requests, conn[r] # "unused" PROVE Keeps(r)
  BY <1>1, StepOfBridge, StaysOver
<1>2. ASSUME told' = told, popup' = popup \/ popup' # "alert" PROVE AlertInv'
  <2>1. Told'  BY <1>1, <1>2 DEF Told, Keeps
  <2>2. ASSUME popup = "alert" PROVE AlertHasCause'
    <3>1. CASE phase = "down"
      <4>1. phase' = "down"
        BY <3>1, StepOfBridge, StaysDown
      <4>2. QED  BY <4>1 DEF AlertHasCause
    <3>2. ASSUME NEW r \in Requests, asked[r].kind = "login", told[r] = "all",
                 answer[r] = Refusal \/ (answer[r] = NoAnswer /\ conn[r] = "timeout")
          PROVE  AlertHasCause'
      BY <1>1, <1>2, <3>2 DEF Told, Keeps, AlertHasCause
    <3>3. QED  BY <2>2, <3>1, <3>2 DEF AlertHasCause
  <2>3. QED  BY <1>2, <2>1, <2>2 DEF AlertHasCause
<1>3. ASSUME NEW r \in Requests, Progress(r) PROVE AlertInv'
  <2>1. /\ told' = [told EXCEPT ![r] = "part"] /\ told[r] = "nothing"
        /\ UNCHANGED <<popup, asked, conn, answer, phase>>
    BY <1>3 DEF Progress, bridgeVars, clients, poll
  <2>2. QED  BY <2>1 DEF Told, AlertHasCause, Over
<1>4. ASSUME NEW r \in Requests, Done(r) PROVE AlertInv'
  <2>1. /\ told' = [told EXCEPT ![r] = "all"] /\ InAir(r) /\ Over(r)
        /\ UNCHANGED <<asked, conn, answer, phase>>
    BY <1>4 DEF Done, bridgeVars, clients, poll, Over
  <2>2. Told'  BY <2>1 DEF Told, Over, InAir
  <2>3. ASSUME popup = "alert" PROVE AlertHasCause'
    BY <2>1, <2>3 DEF AlertHasCause, Told
  <2>4. ASSUME popup # "alert", popup' = "alert", phase # "down" PROVE AlertHasCause'
    <3>1. /\ IsLogin(r) /\ ~(conn[r] = "answered" /\ answer[r].kind \in {"yes", "jwt"})
      BY <1>4, <2>4 DEF Done, IsLogin
    <3>2. conn[r] \in Ended /\ r \notin gone
      BY <2>1, <2>4, <3>1 DEF Over, InAir, ByPopup, IsLogin
    <3>3. answer[r] = Refusal \/ (answer[r] = NoAnswer /\ conn[r] = "timeout")
      BY <3>1, <3>2, LoginEnds
    <3>4. QED  BY <2>1, <3>1, <3>3 DEF AlertHasCause, Told, IsLogin
  <2>5. CASE phase = "down" \/ popup' # "alert"  BY <2>1, <2>2, <2>5 DEF AlertHasCause
  <2>6. QED  BY <2>2, <2>3, <2>4, <2>5
<1>5. ASSUME NEW r \in Requests, Query(r) \/ Typed(r) \/ PopupOpen(r) \/ PopupLogin(r)
      PROVE  AlertInv'
  <2>1. told' = told  BY <1>5 DEF Query, Typed, PopupOpen, PopupLogin, browserVars
  <2>2. popup' = popup \/ popup' # "alert"
    BY <1>5 DEF Query, Typed, PopupOpen, PopupLogin, browserVars
  <2>3. QED  BY <1>2, <2>1, <2>2
<1>6. ASSUME NEW m \in mail, Deliver(m) \/ SaveCreds(m) PROVE AlertInv'
  BY <1>2, <1>6 DEF Deliver, SaveCreds
<1>7. CASE TabEvent  BY <1>2, <1>7 DEF TabEvent, Activate, Navigate
<1>8. CASE PopupClose \/ ClickData \/ Suspend
  BY <1>2, <1>8 DEF PopupClose, ClickData, Suspend
<1>9. CASE UNCHANGED browserVars  BY <1>2, <1>9 DEF browserVars
<1>10. QED
  BY <1>3, <1>4, <1>5, <1>6, <1>7, <1>8, <1>9 DEF Next, vars

(* "Wrong password or token" is never what the user is told of a login     *)
(* that has succeeded, for any number of requests and however long the     *)
(* handlers take (popup.js:36-45, sandbird.c:917-935).                     *)
THEOREM AlertsHaveCause == Spec => []AlertHasCause
<1>1. Init => AlertInv
  BY DEF Init, AlertInv, Told, AlertHasCause
<1>2. Init => PagesShown  BY TabsPages DEF Init, PagesShown
<1>3. AlertInv /\ PagesShown /\ BridgeInv /\ [Next]_vars => AlertInv' /\ PagesShown'
  BY AlertInductive, StepOfBridge
<1>4. Spec => []BridgeInv  BY ExtensionIsClient, BridgeInvariant, PTL
<1>5. AlertInv => AlertHasCause  BY DEF AlertInv
<1>6. QED  BY <1>1, <1>2, <1>3, <1>4, <1>5, PTL DEF Spec

-----------------------------------------------------------------------------
(* The last request of the background page; when none was in the air with  *)
(* it, it is the only one that still may change retrievedCredentials.      *)
BackgroundOpened == \A r \in Requests : ByBackground(r) => conn[r] # "unused"
LastAsked ==
    last # 0 =>
        /\ last \in Requests /\ ByBackground(last)
        /\ ~crossed => \A r \in Requests : ByBackground(r) /\ r # last => told[r] = "all"

RetrievedInv == Told /\ BackgroundOpened /\ LastAsked /\ RetrievedIsLastAsked

LEMMA RetrievedInductive ==
    ASSUME RetrievedInv, BridgeInv, PagesShown, [Next]_vars
    PROVE  RetrievedInv'
<1> USE DEF RetrievedInv
<1>1. ASSUME NEW r \in Requests, conn[r] # "unused" PROVE Keeps(r)
  BY <1>1, StepOfBridge, StaysOver
<1>2. conn \in [Requests -> Conns] /\ DOMAIN asked = Requests
  BY DEF BridgeInv, Logins, Silence, Shape
<1>3. ASSUME UNCHANGED <<told, retrieved, last, crossed>>,
             \/ asked' = asked
             \/ \E r \in Requests, a \in Asks, what \in Bounded : Open(r, a, what) /\ a.kind # "page"
      PROVE  RetrievedInv'
  <2>1. \A r \in Requests : ByBackground(r)' => ByBackground(r)
    <3>1. ASSUME NEW r \in Requests, NEW a \in Asks, a.kind # "page", asked' = [asked EXCEPT ![r] = a]
          PROVE  \A q \in Requests : ByBackground(q)' => ByBackground(q)
      BY <3>1, <1>2 DEF ByBackground
    <3>2. QED  BY <1>3, <3>1 DEF Open, ByBackground
  <2>2. Told'  BY <1>1, <1>3 DEF Told, Keeps
  <2>3. BackgroundOpened'  BY <1>1, <2>1 DEF BackgroundOpened, Keeps
  <2>4. LastAsked'
    BY <1>1, <1>3, <2>1 DEF BackgroundOpened, LastAsked, Keeps, ByBackground
  <2>5. RetrievedIsLastAsked'
    BY <1>1, <1>3 DEF RetrievedIsLastAsked, LastAsked, Told, Keeps, Body
  <2>6. QED  BY <2>2, <2>3, <2>4, <2>5
<1>4. ASSUME NEW r \in Requests, Progress(r) PROVE RetrievedInv'
  <2>1. /\ told' = [told EXCEPT ![r] = "part"] /\ told[r] = "nothing"
        /\ retrieved' = retrieved \/ ByBackground(r)
        /\ UNCHANGED <<asked, conn, answer, phase, last, crossed>>
    BY <1>4 DEF Progress, bridgeVars, clients, poll, asking
  <2>2. Told' /\ BackgroundOpened' /\ LastAsked'
    BY <2>1 DEF Told, BackgroundOpened, LastAsked, ByBackground, Over
  <2>3. RetrievedIsLastAsked'
    BY <2>1 DEF Told, LastAsked, RetrievedIsLastAsked, Body
  <2>4. QED  BY <2>2, <2>3
<1>5. ASSUME NEW r \in Requests, Done(r) PROVE RetrievedInv'
  <2>1. /\ told' = [told EXCEPT ![r] = "all"] /\ InAir(r) /\ Over(r)
        /\ retrieved' = IF ByBackground(r) THEN Body(r) ELSE retrieved
        /\ UNCHANGED <<asked, conn, answer, phase, last, crossed>>
    BY <1>5 DEF Done, Credentials, bridgeVars, clients, poll, asking, Over
  <2>2. Told' /\ BackgroundOpened' /\ LastAsked'
    BY <2>1 DEF Told, BackgroundOpened, LastAsked, ByBackground, Over, InAir
  <2>3. RetrievedIsLastAsked'
    BY <2>1 DEF Told, LastAsked, RetrievedIsLastAsked, Body, InAir
  <2>4. QED  BY <2>2, <2>3
<1>6. ASSUME NEW r \in Requests, Query(r) PROVE RetrievedInv'
  <2>1. /\ conn[r] = "unused" /\ conn' = [conn EXCEPT ![r] = "backlog"]
        /\ \E p : asked' = [asked EXCEPT ![r] = [kind |-> "page", page |-> p]]
        /\ told' = told /\ last' = r
        /\ crossed' = \E q \in Requests : ByBackground(q) /\ InAir(q)
    BY <1>6 DEF Query, Open, Opening
  <2>2. Told' /\ told[r] # "all"
    BY <1>1, <2>1 DEF Told, Keeps
  <2>3. /\ ByBackground(r)'
        /\ \A q \in Requests : q # r => (ByBackground(q)' <=> ByBackground(q))
    BY <1>2, <2>1 DEF ByBackground
  <2>4. BackgroundOpened'  BY <1>2, <2>1, <2>3 DEF BackgroundOpened
  <2>5. LastAsked'
    <3>1. ASSUME NEW q \in Requests, ByBackground(q), q # r, told[q] # "all" PROVE crossed'
      BY <2>1, <3>1 DEF BackgroundOpened, InAir, ByPopup, ByBackground
    <3>2. QED  BY <2>1, <2>3, <3>1 DEF LastAsked
  <2>6. RetrievedIsLastAsked'  BY <2>1, <2>2 DEF RetrievedIsLastAsked
  <2>7. QED  BY <2>2, <2>4, <2>5, <2>6
<1>7. CASE Suspend
  <2>1. last' = 0 /\ UNCHANGED <<told, asked, conn, answer, phase>>
    BY <1>7 DEF Suspend, bridgeVars, clients, poll
  <2>2. QED
    BY <2>1 DEF Told, Over, BackgroundOpened, ByBackground, LastAsked, RetrievedIsLastAsked
<1>8. ASSUME NEW r \in Requests, Typed(r) \/ PopupOpen(r) \/ PopupLogin(r) PROVE RetrievedInv'
  <2>1. UNCHANGED <<told, retrieved, last, crossed>>
    BY <1>8 DEF Typed, PopupOpen, PopupLogin, browserVars, scripts, asking
  <2>2. /\ [kind |-> "typed", page |-> page[front]] \in Asks
        /\ [kind |-> "loggedin"] \in Asks /\ [kind |-> "login"] \in Asks
        /\ {"typed", "popup"} \subseteq Bounded
    BY DEF PagesShown, Asks, PageAsk, Bounded
  <2>3. \E a \in Asks, what \in Bounded : Open(r, a, what) /\ a.kind # "page"
    BY <1>8, <2>2 DEF Typed, PopupOpen, PopupLogin
  <2>4. QED  BY <1>3, <2>1, <2>3
<1>9. ASSUME NEW m \in mail, Deliver(m) \/ SaveCreds(m) PROVE RetrievedInv'
  BY <1>3, <1>9 DEF Deliver, SaveCreds, bridgeVars, clients, asking
<1>10. CASE PopupClose \/ ClickData \/ TabEvent
  BY <1>3, <1>10 DEF PopupClose, Leave, ClickData, TabEvent, Elsewhere, Activate, Navigate, bridgeVars,
                     clients, asking, scripts
<1>11. CASE UNCHANGED browserVars /\ (BridgeStep \/ \E r \in Requests : Send(r))
  <2>1. asked' = asked
    BY <1>11 DEF BridgeStep, ServerStep, Select, Accept, PostLookup, Stream, Wait, Disconnected, Flush,
                 Finish, Handle, Waiting, LoginAnswered, SecondAnswered, ListAnswered, Tick, GuiLogin,
                 GuiSecond, GuiLogout, Send, clients
  <2>2. QED  BY <1>3, <1>11, <2>1 DEF browserVars, scripts, asking
<1>12. CASE UNCHANGED vars
  BY <1>3, <1>12 DEF vars, bridgeVars, clients, browserVars, scripts, asking
<1>13. QED
  BY <1>4, <1>5, <1>6, <1>7, <1>8, <1>9, <1>10, <1>11, <1>12 DEF Next

(* What the background page holds when it waits for nothing is the answer  *)
(* to its last request, unless requests were in the air together           *)
(* (background.js:34-47).                                                  *)
THEOREM HoldsLastAnswer == Spec => []RetrievedIsLastAsked
<1>1. Init => RetrievedInv
  BY DEF Init, BridgeInit, RetrievedInv, Told, BackgroundOpened, ByBackground, NoAsk, LastAsked,
         RetrievedIsLastAsked
<1>2. Init => PagesShown  BY TabsPages DEF Init, PagesShown
<1>3. RetrievedInv /\ PagesShown /\ BridgeInv /\ [Next]_vars => RetrievedInv' /\ PagesShown'
  BY RetrievedInductive, StepOfBridge
<1>4. Spec => []BridgeInv  BY ExtensionIsClient, BridgeInvariant, PTL
<1>5. RetrievedInv => RetrievedIsLastAsked  BY DEF RetrievedInv
<1>6. QED  BY <1>1, <1>2, <1>3, <1>4, <1>5, PTL DEF Spec

-----------------------------------------------------------------------------
(* Types: what is posted to the tabs, offered there and made a menu of are *)
(* lists, and the names chosen from them.                                  *)
LEMMA ListKinds ==
    /\ \A l \in Lists : l.kind \in {"list", "blank", "garbled"} => l.page \in Pages
    /\ NoText.kind \notin {"list", "blank", "garbled", "[]"}
    /\ \A l \in Lists : l.kind # "name"
    /\ \A n \in Names : n.kind = "name" /\ n \notin Lists
BY DEF Lists, ListAnswer, NoText, Names

LEMMA PostsLists ==
    ASSUME NEW text \in Lists \cup {NoText}, NEW texts \in Posted(text)
    PROVE  texts \subseteq Lists
<1>1. CASE texts = {}  BY <1>1
<1>2. CASE texts = {text} /\ text.kind \in {"list", "[]", "blank", "garbled"}
  BY <1>2, ListKinds
<1>3. QED  BY <1>1, <1>2 DEF Posted

LEMMA BodyIsList ==
    ASSUME BridgeTyped, BridgeInv, NEW r \in Requests, ByBackground(r)
    PROVE  Body(r) \in Lists \cup {NoText}
<1>1. asked[r] \in PageAsk
  <2>1. asked[r] \in Asks \cup {NoAsk}  BY DEF BridgeTyped, BridgeTypeOK
  <2>2. NoAsk.kind # "page"  BY DEF NoAsk
  <2>3. QED  BY <2>1, <2>2, AskKinds DEF ByBackground
<1>2. answer[r] \in {NoAnswer, [kind |-> "[]"]} \cup ListAnswer
  BY <1>1 DEF BridgeTyped, PagesGetLists
<1>3. conn[r] = "answered" => answer[r] # NoAnswer  BY DEF BridgeInv, Logins, Written
<1>4. QED  BY <1>2, <1>3 DEF Body, Lists

LEMMA BrowserTypedInductive ==
    ASSUME BrowserTypeOK, BridgeTyped, BridgeInv, [Next]_vars
    PROVE  BrowserTypeOK'
<1> USE DEF BrowserTypeOK
<1>1. CASE UNCHANGED browserVars
  BY <1>1 DEF browserVars, tabVars, scripts, asking
<1>2. ASSUME NEW t \in Tabs, Activate(t) \/ \E p \in Pages : Navigate(t, p) PROVE BrowserTypeOK'
  BY <1>2 DEF Activate, Navigate, GetTab, scripts, asking
<1>3. ASSUME NEW r \in Requests, Query(r) PROVE BrowserTypeOK'
  <2>1. PICK texts \in Posted(retrieved) : mail' = mail \cup [to : {front}, text : texts]
    BY <1>3 DEF Query
  <2>2. texts \subseteq Lists  BY <2>1, PostsLists
  <2>3. mail' \subseteq Mails  BY <2>1, <2>2 DEF Mails
  <2>4. queries' \in Nat  BY <1>3 DEF Query
  <2>5. last' \in 0 .. MaxRequests  BY <1>3, BoundsNat DEF Query, Requests
  <2>6. QED  BY <1>3, <2>3, <2>4, <2>5 DEF Query, tabVars
<1>4. ASSUME NEW r \in Requests, Typed(r) PROVE BrowserTypeOK'
  BY <1>1, <1>4 DEF Typed
<1>5. ASSUME NEW r \in Requests, Progress(r) PROVE BrowserTypeOK'
  BY <1>5 DEF Progress, tabVars, asking
<1>6. ASSUME NEW r \in Requests, Done(r) PROVE BrowserTypeOK'
  <2>1. retrieved' \in Lists \cup {NoText}  BY <1>6, BodyIsList DEF Done, Credentials
  <2>2. popup' \in {"closed", "form", "welcome", "alert"}  BY <1>6 DEF Done
  <2>3. QED  BY <1>6, <2>1, <2>2 DEF Done, tabVars, asking
<1>7. ASSUME NEW r \in Requests, PopupOpen(r) \/ PopupLogin(r) PROVE BrowserTypeOK'
  BY <1>7 DEF PopupOpen, PopupLogin, tabVars, scripts, asking
<1>8. CASE PopupClose
  BY <1>8 DEF PopupClose, tabVars, scripts, asking
<1>9. ASSUME NEW m \in mail, Deliver(m) PROVE BrowserTypeOK'
  <2>1. m \in Mails  OBVIOUS
  <2>2. m.to \in Tabs /\ m.text \in Lists \cup Names  BY <1>9, <2>1 DEF Deliver, Mails
  <2>3. mail' \subseteq Mails  BY <1>9, <2>2 DEF Deliver, Mails
  <2>4. QED  BY <1>9, <2>2, <2>3 DEF Deliver, tabVars, asking
<1>10. ASSUME NEW m \in mail, SaveCreds(m) PROVE BrowserTypeOK'
  BY <1>10 DEF SaveCreds, tabVars, asking
<1>11. CASE ClickData
  <2>1. menu.page \in Pages  BY <1>11, ListKinds DEF ClickData
  <2>2. mail' \subseteq Mails  BY <1>11, <2>1 DEF ClickData, Mails, Names
  <2>3. QED  BY <1>11, <2>2 DEF ClickData, tabVars, asking
<1>12. CASE Suspend
  <2>1. last' \in 0 .. MaxRequests  BY <1>12, BoundsNat DEF Suspend
  <2>2. QED  BY <1>12, <2>1 DEF Suspend, tabVars
<1>13. QED
  BY <1>1, <1>2, <1>3, <1>4, <1>5, <1>6, <1>7, <1>8, <1>9, <1>10, <1>11, <1>12
  DEF Next, TabEvent, vars

(* The extension and the bridge keep their types together: what the page   *)
(* is given to fill in is a list the bridge has written whole, or a name   *)
(* out of one, for any number of tabs, pages and requests.                 *)
THEOREM Typing == Spec => []TypeOK
<1>1. Init => BrowserTypeOK
  <2>1. Init => PagesShown  BY TabsPages DEF Init, PagesShown
  <2>2. 0 \in 0 .. MaxRequests  BY BoundsNat
  <2>3. Init => offer \in [Tabs -> Lists \cup Names \cup {NoText}]  BY DEF Init
  <2>4. Init => told \in [Requests -> {"nothing", "part", "all"}]  BY DEF Init
  <2>5. Init => /\ queries \in Nat /\ last \in 0 .. MaxRequests
                /\ popup \in {"closed", "form", "welcome", "alert"}
    BY <2>2 DEF Init
  <2>6. Init => /\ retrieved \in Lists \cup {NoText} /\ menu \in Lists \cup {NoText}
                /\ mail \subseteq Mails /\ listening \in BOOLEAN /\ crossed \in BOOLEAN
    BY Zenon DEF Init
  <2>7. QED  BY <2>1, <2>3, <2>4, <2>5, <2>6 DEF BrowserTypeOK, PagesShown
<1>2. BrowserTypeOK /\ BridgeTyped /\ BridgeInv /\ [Next]_vars => BrowserTypeOK'
  BY BrowserTypedInductive
<1>3. Spec => []BridgeInv /\ []BridgeTyped
  BY ExtensionIsClient, BridgeInvariant, BridgeTypedHolds, PTL
<1>4. BridgeTyped /\ BrowserTypeOK => TypeOK  BY DEF BridgeTyped, TypeOK
<1>5. QED  BY <1>1, <1>2, <1>3, <1>4, PTL DEF Spec
=============================================================================
