------------------------------ MODULE Browser ------------------------------
(***************************************************************************)
(* The browser extension (background.js, content.js, chooseAccount.js,     *)
(* popup.js) as the client of the bridge.                                  *)
(*                                                                         *)
(* The background page asks for the accounts of the page in front each     *)
(* time a tab is updated or activated, and at once posts what it has from  *)
(* the request before; the content script of the tab offers that for the   *)
(* fields, and hands it on for the context menu.  The browser may suspend  *)
(* the background page, which is not persistent (manifest.json:27).        *)
(***************************************************************************)
EXTENDS Bridge

CONSTANT Tabs
ASSUME TabsPages == Tabs # {} /\ Pages # {}

Background == "background"   \* the address of messages to the background page

VARIABLES
    page, front,      \* the page in each tab; the tab in front
    queries,          \* calls of chrome.tabs.query still to be called back
    told,             \* how much of its answer each XMLHttpRequest has been given
    retrieved,        \* retrievedCredentials
    mail,             \* messages on their way
    offer,            \* what the content script of each tab fills in
    menu, listening,  \* the context menu; whether a choice in it is heard
    popup,
    last, crossed     \* history: the last request of the background page;
                      \* whether an earlier one was still unanswered then

tabVars == <<page, front>>
scripts == <<retrieved, mail, offer, menu, listening>>
asking == <<last, crossed>>
browserVars == <<tabVars, queries, told, scripts, popup, asking>>
vars == <<bridgeVars, browserVars>>

(* An unfinished text, or none, is no JSON. *)
NoText == [kind |-> "no text"]
Lists == {[kind |-> "[]"]} \cup ListAnswer
Names == [kind : {"name"}, page : Pages]    \* a name chosen for the page
Mails == [to : Tabs \cup {Background}, text : Lists \cup Names]

BrowserTypeOK ==
    /\ page \in [Tabs -> Pages] /\ front \in Tabs
    /\ queries \in Nat
    /\ told \in [Requests -> {"nothing", "part", "all"}]
    /\ retrieved \in Lists \cup {NoText}
    /\ mail \subseteq Mails
    /\ offer \in [Tabs -> Lists \cup Names \cup {NoText}]
    /\ menu \in Lists \cup {NoText} /\ listening \in BOOLEAN
    /\ popup \in {"closed", "form", "welcome", "alert"}
    /\ last \in 0 .. MaxRequests /\ crossed \in BOOLEAN

TypeOK == BridgeTypeOK /\ BrowserTypeOK

Init ==
    /\ BridgeInit
    /\ page = [t \in Tabs |-> CHOOSE p \in Pages : TRUE] /\ front = CHOOSE t \in Tabs : TRUE
    /\ queries = 0
    /\ told = [r \in Requests |-> "nothing"]
    /\ retrieved = NoText /\ mail = {} /\ offer = [t \in Tabs |-> NoText]
    /\ menu = NoText /\ listening = FALSE
    /\ popup = "closed"
    /\ last = 0 /\ crossed = FALSE

ByPopup(r) == asked[r].kind \in {"loggedin", "login"}
ByBackground(r) == asked[r].kind = "page"
InAir(r) == conn[r] # "unused" /\ told[r] # "all" /\ ~(ByPopup(r) /\ r \in gone)

(* What is posted of a text: nothing when JSON.parse throws, as it may for *)
(* a list that a % has garbled.                                            *)
(* Fault: the text is posted without being parsed.                         *)
PostedUnparsed(text) == {{text}}

Posted(text) == CASE text.kind \in {"list", "[]", "blank"} -> {{text}}
                  [] text.kind = "garbled" -> {{}, {text}}
                  [] OTHER -> {{}}

-----------------------------------------------------------------------------
(* Tabs.  The listeners of onUpdated and onActivated are the same function. *)

GetTab == queries' = queries + 1

Navigate(t, p) ==
    /\ page' = [page EXCEPT ![t] = p]
    /\ offer' = [offer EXCEPT ![t] = NoText]
    /\ GetTab
    /\ UNCHANGED <<front, told, retrieved, mail, menu, listening, popup, asking>>

Activate(t) ==
    /\ t # front /\ front' = t
    /\ GetTab
    /\ UNCHANGED <<page, told, scripts, popup, asking>>

(* The callback of chrome.tabs.query: the request is sent, and the answer  *)
(* there is, which is that of an earlier one, is posted to the tab.        *)
Query(r) ==
    /\ queries > 0 /\ queries' = queries - 1
    /\ Open(r, [kind |-> "page", page |-> page[front]], "queries")
    /\ \E texts \in Posted(retrieved) : mail' = mail \cup [to : {front}, text : texts]
    /\ last' = r
    /\ crossed' = \E q \in Requests : ByBackground(q) /\ InAir(q)
    /\ UNCHANGED <<tabVars, told, retrieved, offer, menu, listening, popup>>

(* The content script asks on every input, and ignores the answer. *)
Typed(r) ==
    /\ Open(r, [kind |-> "typed", page |-> page[front]], "typed")
    /\ UNCHANGED browserVars

-----------------------------------------------------------------------------
(* onreadystatechange.  States 2 and 3 give what has arrived, 4 the whole. *)

Body(r) == IF conn[r] = "answered" THEN answer[r] ELSE NoText

Progress(r) ==
    /\ InAir(r) /\ told[r] = "nothing" /\ conn[r] \in {"rest", "flushed", "answered"}
    /\ told' = [told EXCEPT ![r] = "part"]
    /\ retrieved' = IF ByBackground(r) THEN NoText ELSE retrieved
    /\ UNCHANGED <<bridgeVars, tabVars, queries, mail, offer, menu, listening, popup, asking>>

(* Fault: an empty answer is not taken over. *)
FilledBody(r) == IF Body(r) = NoText THEN retrieved ELSE Body(r)

Credentials(r) == Body(r)

(* The popup welcomes the user when the answer is "yes", or when a login   *)
(* was answered with 200, and alerts when it was not.                      *)
Done(r) ==
    /\ InAir(r) /\ (conn[r] \in Ended \/ phase = "down")
    /\ told' = [told EXCEPT ![r] = "all"]
    /\ retrieved' = IF ByBackground(r) THEN Credentials(r) ELSE retrieved
    /\ popup' = IF ~ByPopup(r) THEN popup
                ELSE IF conn[r] = "answered" /\ answer[r].kind \in {"yes", "jwt"} THEN "welcome"
                ELSE IF asked[r].kind = "login" THEN "alert" ELSE popup
    /\ UNCHANGED <<bridgeVars, tabVars, queries, mail, offer, menu, listening, asking>>

-----------------------------------------------------------------------------
(* Messages.  fillCreds of the content script fills in what came last, and *)
(* sends it on; saveCreds makes a menu of a list, of a name it makes none. *)

Deliver(m) ==
    /\ m \in mail /\ m.to # Background
    /\ offer' = [offer EXCEPT ![m.to] = m.text]
    /\ mail' = (mail \ {m}) \cup {[to |-> Background, text |-> m.text]}
    /\ UNCHANGED <<bridgeVars, tabVars, queries, told, retrieved, menu, listening, popup, asking>>

SaveCreds(m) ==
    /\ m \in mail /\ m.to = Background
    /\ mail' = mail \ {m}
    /\ IF m.text \in Lists THEN menu' = m.text /\ listening' = TRUE
                           ELSE UNCHANGED <<menu, listening>>
    /\ UNCHANGED <<bridgeVars, tabVars, queries, told, retrieved, offer, popup, asking>>

(* clickData: a name of the menu, with an empty password. *)
ClickData ==
    /\ listening /\ menu.kind \in {"list", "blank", "garbled"}
    /\ mail' = mail \cup {[to |-> front, text |-> [kind |-> "name", page |-> menu.page]]}
    /\ UNCHANGED <<bridgeVars, tabVars, queries, told, retrieved, offer, menu, listening, popup,
                   asking>>

(* The background page is unloaded when it has nothing to wait for.  The   *)
(* menu stays, but what clickData was given to listen is gone.             *)
Suspend ==
    /\ queries = 0 /\ \A r \in Requests : ByBackground(r) => ~InAir(r)
    /\ \A m \in mail : m.to # Background
    /\ retrieved' = NoText /\ listening' = FALSE
    /\ last' = 0 /\ crossed' = FALSE
    /\ UNCHANGED <<bridgeVars, tabVars, queries, told, mail, offer, menu, popup>>

-----------------------------------------------------------------------------
(* The popup *)

PopupOpen(r) ==
    /\ popup = "closed" /\ popup' = "form"
    /\ Open(r, [kind |-> "loggedin"], "popup")
    /\ UNCHANGED <<tabVars, queries, told, scripts, asking>>

PopupLogin(r) ==
    /\ popup \in {"form", "alert"} /\ popup' = "form"
    /\ Open(r, [kind |-> "login"], "popup")
    /\ UNCHANGED <<tabVars, queries, told, scripts, asking>>

(* Its requests are given up. *)
PopupClose ==
    /\ popup # "closed" /\ popup' = "closed"
    /\ Leave({r \in Requests : ByPopup(r) /\ InAir(r)})
    /\ UNCHANGED <<tabVars, queries, told, scripts, asking>>

-----------------------------------------------------------------------------
TabEvent ==
    /\ \E t \in Tabs : Activate(t) \/ \E p \in Pages : Navigate(t, p)
    /\ Elsewhere

Next ==
    \/ BridgeStep /\ UNCHANGED browserVars
    \/ \E r \in Requests :
          \/ Send(r) /\ UNCHANGED browserVars
          \/ Query(r) \/ Typed(r) \/ Progress(r) \/ Done(r)
          \/ PopupOpen(r) \/ PopupLogin(r)
    \/ \E m \in mail : Deliver(m) \/ SaveCreds(m)
    \/ PopupClose
    \/ TabEvent \/ ClickData \/ Suspend

Spec == Init /\ [][Next]_vars /\ WF_vars(ServerStep /\ UNCHANGED browserVars)

-----------------------------------------------------------------------------
(* When the background page waits for nothing, retrievedCredentials holds  *)
(* the answer to its last request, which may be none, unless requests were *)
(* in the air together: streams are served from the newest on, so that an  *)
(* answer may overwrite one to a later request (background.js:34-47,       *)
(* sandbird.c:894, 955).                                                   *)
RetrievedIsLastAsked ==
    last # 0 /\ ~crossed /\ told[last] = "all" => retrieved = Body(last)

(* "Wrong password or token" is what the user is told of a login that was  *)
(* refused, or that the bridge closed unheard by its timeout, or when the  *)
(* program stopped: never of one that has succeeded, however long it took  *)
(* (popup.js:36-45, sandbird.c:917-935).                                   *)
AlertHasCause ==
    popup = "alert" =>
        \/ phase = "down"
        \/ \E r \in Requests : /\ asked[r].kind = "login" /\ told[r] = "all"
                               /\ \/ answer[r] = Refusal
                                  \/ answer[r] = NoAnswer /\ conn[r] = "timeout"
=============================================================================
