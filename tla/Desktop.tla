------------------------------ MODULE Desktop ------------------------------
(***************************************************************************)
(* The session of the desktop application: twokey.cpp, backend_client.cpp  *)
(* and the login of browser_extension_communicator.cpp.                    *)
(*                                                                         *)
(* Two threads share one BackendClient without a lock: the GUI thread and  *)
(* the one that serves the browser extension.  Each waits for the server   *)
(* in a loop that calls qApp->processEvents(); in the GUI thread a click,  *)
(* a token event or a queued signal may start another operation there, so  *)
(* the GUI thread runs a stack of operations, of which only the last one   *)
(* goes on.  A message box is such a wait too, without clicks.  Between    *)
(* two waits a thread is interrupted by the other one only.                *)
(*                                                                         *)
(* The server is the one of AuthServer and VaultStore, one request being   *)
(* one step; of an account the vault keeps the key it is encrypted with.   *)
(***************************************************************************)
EXTENDS Naturals, Sequences

CONSTANTS Users,        \* each has an account, a password and a token
          WrongKey,     \* the key of a password that is nobody's
          NoKey,        \* no key; also: no token
          MaxLogins,    \* bound: login attempts
          MaxTasks,     \* bound: other operations started
          MaxDepth,     \* bound: operations nested in the GUI thread
          Vaults        \* bound: what the vaults may hold at first

ASSUME BoundsNat == MaxLogins \in Nat /\ MaxTasks \in Nat /\ MaxDepth \in Nat
ASSUME KeysDiffer == WrongKey \notin Users /\ NoKey \notin Users
ASSUME VaultsTyped == Vaults \subseteq [Users -> SUBSET (Users \cup {WrongKey, NoKey})]

Threads == {"gui", "browser"}
Keys == Users \cup {WrongKey, NoKey}
NoJwt == <<"none">>
Jwts == {NoJwt} \cup ({"first"} \X (1 .. MaxLogins)) \cup ({"full"} \X Users)
NoAnswer == <<"none">>
TokenAnswers == {NoAnswer} \cup (Users \X (1 .. MaxLogins))

VARIABLES
    token,      \* whose token is plugged in, NoKey when none is
    page,       \* the page of the stacked widget
    jwt, key,   \* BackendClient::jwt and encryptionkey
    answer,     \* BackendClient::tokenChallengeResponse
    stack,      \* the operations each thread is in, the running one last
    queued,     \* successfulLogin signals the GUI thread has not handled
    session,    \* server: logins whose second step is not done
    vault,      \* server: the keys each user's accounts are encrypted with
    logins, tasks,  \* how many have been started
    raced,      \* history: operations have overlapped since the last login
    alone,      \* history: nothing has overlapped the login that runs
    strayed,    \* history: a browser's login has failed over a GUI session
    turned,     \* history: a registration has turned the page of a session
    indexed     \* history: how an empty list came to be indexed

client == <<page, jwt, key, answer>>
server == <<session, vault>>
history == <<raced, alone, strayed, turned, indexed>>
vars == <<token, client, stack, queued, server, logins, tasks, history>>

Asking == {"askLogin", "ask2fa", "askSites", "askAccounts", "askAgain",
           "askAdd", "askDelete", "askChange", "askRegister"}
Boxes == {"box", "boxLoad"}
Frame == [op : {"login", "load", "add", "delete", "change", "register"},
          step : Asking \cup Boxes \cup {"exchange", "derive", "post", "encrypt"},
          user : Users \cup {NoKey}, password : Keys, sid : 0 .. MaxLogins,
          jwt : Jwts, answer : TokenAnswers, key : Keys]

TypeOK ==
    /\ token \in Users \cup {NoKey}
    /\ page \in {"login", "register", "manager", "addaccount"}
    /\ jwt \in Jwts /\ key \in Keys /\ answer \in TokenAnswers
    /\ stack \in [Threads -> Seq(Frame)]
    /\ queued \in Nat
    /\ session \subseteq [id : 1 .. MaxLogins, user : Users, password : Keys]
    /\ vault \in [Users -> SUBSET Keys]
    /\ logins \in 0 .. MaxLogins /\ tasks \in 0 .. MaxTasks
    /\ raced \in BOOLEAN /\ alone \in BOOLEAN /\ strayed \in BOOLEAN
    /\ turned \in BOOLEAN /\ indexed \in {"never", "excused", "bare"}

Init ==
    /\ token \in Users \cup {NoKey}
    /\ page = "login"
    /\ jwt = NoJwt /\ key = NoKey /\ answer = NoAnswer
    /\ stack = [t \in Threads |-> <<>>]
    /\ queued = 0
    /\ session = {}
    /\ vault \in Vaults
    /\ logins = 0 /\ tasks = 0
    /\ raced = FALSE /\ alone = FALSE /\ strayed = FALSE /\ turned = FALSE
    /\ indexed = "never"

-----------------------------------------------------------------------------
Top(t) == stack[t][Len(stack[t])]
Doing(t) == IF stack[t] = <<>> THEN "idle" ELSE Top(t).step
Below(t) == SubSeq(stack[t], 1, Len(stack[t]) - 1)
Pop(t) == stack' = [stack EXCEPT ![t] = Below(t)]
Become(t, f) == stack' = [stack EXCEPT ![t] = Append(Below(t), f)]
Push(t, f) == stack' = [stack EXCEPT ![t] = Append(@, f)]

(* The GUI thread handles signals in a wait, and clicks in one that is not *)
(* a message box.                                                          *)
Listens == Doing("gui") \in {"idle"} \cup Asking \cup Boxes
Clickable == Doing("gui") \in {"idle"} \cup Asking /\ Len(stack["gui"]) < MaxDepth

Busy == queued > 0 \/ \E t \in Threads : stack[t] # <<>>
LoginRuns == \E t \in Threads : \E i \in 1 .. Len(stack[t]) : stack[t][i].op = "login"

(* History: two operations overlap that touch the session.                 *)
Overlap(c) == /\ raced' = (raced \/ c)
              /\ alone' = (alone /\ ~c)

NewFrame == [op |-> "load", step |-> "askSites", user |-> NoKey, password |-> NoKey,
             sid |-> 0, jwt |-> jwt, answer |-> NoAnswer, key |-> NoKey]

-----------------------------------------------------------------------------
(* BackendClient::login and _2fa. *)

StartLogin(t, u, p) ==
    /\ logins < MaxLogins
    /\ logins' = logins + 1
    /\ Push(t, [NewFrame EXCEPT !.op = "login", !.step = "askLogin", !.user = u,
                               !.password = p, !.sid = logins', !.jwt = NoJwt])
    /\ raced' = (raced \/ Busy) /\ alone' = ~Busy
    /\ UNCHANGED <<token, client, queued, server, tasks, strayed, turned, indexed>>

(* on_login_button_clicked; the browser's login does not look for a token. *)
GuiLogin(u, p) ==
    /\ Clickable /\ page = "login" /\ token # NoKey
    /\ StartLogin("gui", u, p)

BrowserLogin(u, p) == stack["browser"] = <<>> /\ StartLogin("browser", u, p)

(* The answer to /login, or NORESPONSE, which leaves everything as it is.  *)
LoginAnswered(t) ==
    /\ Doing(t) = "askLogin"
    /\ LET f == Top(t)
       IN  \/ /\ IF t = "gui" THEN Become(t, [f EXCEPT !.step = "box"]) ELSE Pop(t)
              /\ UNCHANGED <<session, jwt>>
           \/ /\ session' = session \cup
                    {[id |-> f.sid, user |-> f.user, password |-> f.password]}
              /\ jwt' = <<"first", f.sid>>
              /\ Become(t, [f EXCEPT !.step = "exchange", !.user = NoKey])
    /\ UNCHANGED <<token, page, key, answer, queued, vault, logins, tasks, history>>

(* The token answers the challenge of this login, or is not heard.         *)
Exchange(t) ==
    /\ Doing(t) = "exchange"
    /\ \/ token # NoKey /\ answer' = <<token, Top(t).sid>>
       \/ answer' = NoAnswer
    /\ Become(t, [Top(t) EXCEPT !.step = "derive", !.sid = 0])
    /\ UNCHANGED <<token, page, jwt, key, queued, server, logins, tasks, history>>

(* Fault: a key that is there is kept. *)
DeriveOnce(t) ==
    /\ Doing(t) = "derive"
    /\ key' = IF key = NoKey THEN Top(t).password ELSE key
    /\ Become(t, [Top(t) EXCEPT !.step = "post", !.password = NoKey])
    /\ UNCHANGED <<token, page, jwt, answer, queued, server, logins, tasks, history>>

Derive(t) ==
    /\ Doing(t) = "derive"
    /\ key' = Top(t).password
    /\ Become(t, [Top(t) EXCEPT !.step = "post", !.password = NoKey])
    /\ UNCHANGED <<token, page, jwt, answer, queued, server, logins, tasks, history>>

Post2fa(t) ==
    /\ Doing(t) = "post"
    /\ Become(t, [Top(t) EXCEPT !.step = "ask2fa", !.jwt = jwt, !.answer = answer])
    /\ UNCHANGED <<token, client, queued, server, logins, tasks, history>>

(* The sessions the posted request completes (AuthServer: CheckAnswer).    *)
Passes(f) == {s \in session : /\ f.jwt = <<"first", s.id>>
                              /\ s.password = s.user
                              /\ f.answer = <<s.user, s.id>>}

(* Fault: the manager is loaded before the new JWT is stored. *)
GrantedLoadsEarly(t) ==
    /\ Doing(t) = "ask2fa"
    /\ \E s \in Passes(Top(t)) :
         /\ session' = session \ {s}
         /\ jwt' = <<"full", s.user>>
    /\ page' = "manager"
    /\ Become(t, NewFrame)
    /\ raced' = (raced /\ ~alone) /\ strayed' = (strayed /\ ~alone)
    /\ turned' = FALSE
    /\ UNCHANGED <<token, key, answer, queued, vault, logins, tasks, alone, indexed>>

(* SUCCESS: the GUI shows the manager and loads it in the same handler, the *)
(* browser's thread queues a signal that makes the GUI do so.              *)
Granted(t) ==
    /\ Doing(t) = "ask2fa"
    /\ \E s \in Passes(Top(t)) :
         /\ session' = session \ {s}
         /\ jwt' = <<"full", s.user>>
    /\ IF t = "gui"
         THEN /\ page' = "manager"
              /\ Become(t, [NewFrame EXCEPT !.jwt = jwt'])
              /\ UNCHANGED queued
         ELSE /\ Pop(t)
              /\ queued' = queued + 1
              /\ UNCHANGED page
    /\ raced' = (raced /\ ~alone)
    /\ strayed' = (strayed /\ ~alone)
    /\ turned' = FALSE
    /\ UNCHANGED <<token, key, answer, vault, logins, tasks, alone, indexed>>

(* INVALID, also when no answer comes: the access token of an answer       *)
(* without one is empty.                                                   *)
Refused(t) ==
    /\ Doing(t) = "ask2fa"
    /\ jwt' = NoJwt
    /\ IF t = "gui" THEN Become(t, [Top(t) EXCEPT !.step = "box"]) ELSE Pop(t)
    /\ strayed' = (strayed \/ page \in {"manager", "addaccount"})
    /\ turned' = FALSE
    /\ UNCHANGED <<token, page, key, answer, queued, server, logins, tasks,
                   raced, alone, indexed>>

LoginStep(t) == \/ LoginAnswered(t) \/ Exchange(t) \/ Derive(t) \/ Post2fa(t)
                \/ Granted(t) \/ Refused(t)

-----------------------------------------------------------------------------
(* loadWebsitesList and loadAccountsForWebsite. *)

(* Fault: one signal is counted twice. *)
BrowserSignalTwice ==
    /\ queued > 0 /\ Listens
    /\ queued' = queued - 2
    /\ page' = "manager"
    /\ Push("gui", NewFrame)
    /\ Overlap(LoginRuns) /\ turned' = FALSE
    /\ UNCHANGED <<token, jwt, key, answer, server, logins, tasks, strayed, indexed>>

(* loginFromBrowserExtension *)
BrowserSignal ==
    /\ queued > 0 /\ Listens
    /\ queued' = queued - 1
    /\ page' = "manager"
    /\ Push("gui", NewFrame)
    /\ Overlap(LoginRuns) /\ turned' = FALSE
    /\ UNCHANGED <<token, jwt, key, answer, server, logins, tasks, strayed, indexed>>

Restart ==
    /\ page' = "login" /\ jwt' = NoJwt /\ key' = NoKey /\ answer' = NoAnswer
    /\ stack' = [t \in Threads |-> <<>>] /\ queued' = 0
    /\ raced' = FALSE /\ alone' = FALSE /\ strayed' = FALSE
    /\ turned' = FALSE

LoadAccounts == Become("gui", [Top("gui") EXCEPT !.step = "askAccounts", !.jwt = jwt])

(* The list is empty when the vault is, when the request carried no full   *)
(* token, and when no answer came.  websites[0] of an empty list is        *)
(* undefined: the program stops, or goes on with whatever it finds there.  *)
SitesAnswered ==
    /\ Doing("gui") = "askSites"
    /\ LET f == Top("gui")
           Listed(u) == f.jwt = <<"full", u>> /\ vault[u] # {}
           excused == \/ raced \/ strayed
                      \/ \E u \in Users : f.jwt = <<"full", u>> /\ vault[u] = {}
       IN  \/ /\ \E u \in Users : Listed(u)
              /\ LoadAccounts
              /\ UNCHANGED <<client, queued, history>>
           \/ \E lost \in BOOLEAN :
                /\ lost \/ \A u \in Users : ~Listed(u)
                /\ indexed' = IF lost \/ excused THEN indexed ELSE "bare"
                /\ \/ /\ LoadAccounts
                      /\ UNCHANGED <<client, queued, raced, alone, strayed, turned>>
                   \/ Restart
    /\ UNCHANGED <<token, server, logins, tasks>>

AccountsAnswered ==
    /\ Doing("gui") \in {"askAccounts", "askAgain"}
    /\ IF Top("gui").op = "add" /\ Top("gui").step = "askAccounts"
         THEN Become("gui", [Top("gui") EXCEPT !.step = "askAgain", !.jwt = jwt])
         ELSE Pop("gui")
    /\ UNCHANGED <<token, client, queued, server, logins, tasks, history>>

-----------------------------------------------------------------------------
(* Operations of the manager pages. *)

StartTask(f) ==
    /\ Clickable /\ tasks < MaxTasks
    /\ tasks' = tasks + 1
    /\ Push("gui", f)
    /\ Overlap(LoginRuns)
    /\ UNCHANGED <<token, jwt, key, answer, queued, server, logins, strayed, turned, indexed>>

(* on_addaccount_button_clicked: the JWT is read before the fields are     *)
(* encrypted.                                                              *)
AddAccount ==
    /\ page = "addaccount" /\ page' = "manager"
    /\ StartTask([NewFrame EXCEPT !.op = "add", !.step = "encrypt"])

(* on_manager_delete_button_clicked *)
DeleteAccount ==
    /\ page = "manager" /\ UNCHANGED page
    /\ StartTask([NewFrame EXCEPT !.op = "delete", !.step = "encrypt"])

(* on_manager_save_button_clicked, with an edited name or password *)
ChangeAccount ==
    /\ page = "manager" /\ UNCHANGED page
    /\ StartTask([NewFrame EXCEPT !.op = "change", !.step = "encrypt"])

Request == [add |-> "askAdd", delete |-> "askDelete", change |-> "askChange"]

EncryptWithKey ==
    /\ Doing("gui") = "encrypt"
    /\ Become("gui", [Top("gui") EXCEPT !.key = key, !.step = Request[Top("gui").op]])
    /\ UNCHANGED <<token, client, queued, server, logins, tasks, history>>

(* Without a key the fields are empty, and refused.  What the server says  *)
(* of an addition is not looked at.                                        *)
AddAnswered ==
    /\ Doing("gui") = "askAdd"
    /\ LET f == Top("gui") IN
         \/ \E u \in Users : /\ f.jwt = <<"full", u>> /\ f.key # NoKey
                             /\ vault' = [vault EXCEPT ![u] = @ \cup {f.key}]
         \/ UNCHANGED vault
    /\ Become("gui", [Top("gui") EXCEPT !.step = "askSites", !.jwt = jwt])
    /\ UNCHANGED <<token, client, queued, session, logins, tasks, history>>

(* An account is found under the key it was stored with, and written under *)
(* the same.  A request whose token is not a full one is answered 200      *)
(* (VaultStore: InvalidToken).                                             *)
ChangeAnswered ==
    /\ Doing("gui") \in {"askDelete", "askChange"}
    /\ LET f == Top("gui") IN
         \/ /\ \E u \in Users : /\ f.jwt = <<"full", u>> /\ f.key \in vault[u]
                               /\ \/ UNCHANGED vault
                                  \/ f.op = "delete" /\ vault' = [vault EXCEPT ![u] = @ \ {f.key}]
            /\ Become("gui", [f EXCEPT !.step = "boxLoad"])
         \/ /\ f.jwt[1] # "full"
            /\ Become("gui", [f EXCEPT !.step = "boxLoad"])
            /\ UNCHANGED vault
         \/ /\ Become("gui", [f EXCEPT !.step = "box"])
            /\ UNCHANGED vault
    /\ UNCHANGED <<token, client, queued, session, logins, tasks, history>>

(* Fault: the operation below a message box does not return. *)
BoxStays ==
    /\ Doing("gui") = "boxLoad"
    /\ Become("gui", [Top("gui") EXCEPT !.step = "askSites", !.jwt = jwt])
    /\ UNCHANGED <<token, client, queued, server, logins, tasks, history>>

(* After a change only the accounts of the site are loaded. *)
CloseBox ==
    /\ \/ Doing("gui") = "box" /\ Pop("gui")
       \/ Doing("gui") = "boxLoad" /\ Top("gui").op = "change" /\ LoadAccounts
       \/ /\ Doing("gui") = "boxLoad" /\ Top("gui").op # "change"
          /\ Become("gui", [Top("gui") EXCEPT !.step = "askSites", !.jwt = jwt])
    /\ UNCHANGED <<token, client, queued, server, logins, tasks, history>>

(* on_register_button_clicked: when the registration was made the login    *)
(* page is shown, whatever is there by now.                                *)
Register ==
    /\ page = "register" /\ UNCHANGED page
    /\ StartTask([NewFrame EXCEPT !.op = "register", !.step = "askRegister", !.jwt = NoJwt])

RegisterAnswered ==
    /\ Doing("gui") = "askRegister" /\ Pop("gui")
    /\ \/ UNCHANGED <<page, turned>>
       \/ page' = "login" /\ turned' = (turned \/ page \in {"manager", "addaccount"})
    /\ UNCHANGED <<token, jwt, key, answer, queued, server, logins, tasks,
                   raced, alone, strayed, indexed>>

GuiStep == \/ SitesAnswered \/ AccountsAnswered \/ EncryptWithKey \/ AddAnswered
           \/ ChangeAnswered \/ RegisterAnswered \/ CloseBox

-----------------------------------------------------------------------------
(* Fault: the JWT survives a logout. *)
LogoutKeepsJwt ==
    /\ key' = NoKey /\ page' = "login"
    /\ Overlap(Busy) /\ turned' = FALSE
    /\ UNCHANGED <<jwt, answer, stack, queued, server, logins, tasks, strayed, indexed>>

(* BackendClient::logout *)
Logout == /\ jwt' = NoJwt /\ key' = NoKey
          /\ page' = "login"
          /\ Overlap(Busy) /\ turned' = FALSE
          /\ UNCHANGED <<answer, stack, queued, server, logins, tasks, strayed, indexed>>

LogoutButton == Clickable /\ page = "manager" /\ Logout /\ UNCHANGED token

(* changeStatus, after a scan.                                             *)
TokenGone == Listens /\ token # NoKey /\ token' = NoKey /\ Logout

TokenCame(u) == /\ Listens /\ token = NoKey /\ token' = u
                /\ UNCHANGED <<client, stack, queued, server, logins, tasks, history>>

Turn(from, to) == /\ Clickable /\ page = from /\ page' = to
                  /\ UNCHANGED <<token, jwt, key, answer, stack, queued, server, logins,
                                 tasks, history>>

TurnPage == \/ Turn("login", "register") \/ Turn("register", "login")
            \/ Turn("manager", "addaccount") \/ Turn("addaccount", "manager")

Next == \/ \E u \in Users : \E p \in {u, WrongKey} : GuiLogin(u, p) \/ BrowserLogin(u, p)
        \/ \E t \in Threads : LoginStep(t)
        \/ BrowserSignal \/ GuiStep
        \/ AddAccount \/ DeleteAccount \/ ChangeAccount \/ Register
        \/ LogoutButton \/ TokenGone \/ TurnPage
        \/ \E u \in Users : TokenCame(u)

(* The server answers or the connection breaks, and the user closes the    *)
(* boxes.  Nothing is assumed of clicks.                                   *)
Spec == /\ Init /\ [][Next]_vars
        /\ WF_vars(LoginStep("browser"))
        /\ WF_vars(LoginStep("gui") \/ GuiStep)
        /\ WF_vars(BrowserSignal)

-----------------------------------------------------------------------------
(* The key in memory is that of the user the JWT names, unless operations  *)
(* have overlapped since the last login that ran alone: that login, and    *)
(* every refusal and logout, sets the two together again                   *)
(* (backend_client.cpp:204, 216, 296, 324-334).                            *)
KeyFitsJwt ==
    ~raced => \A u \in Users : jwt = <<"full", u>> => key = u

(* No account is stored under a key its owner does not have, unless        *)
(* operations overlap: what is added can be read again                     *)
(* (backend_client.cpp:455-463).                                           *)
StoredReadable ==
    [][raced \/ \A u \in Users : vault'[u] \ vault[u] \subseteq {u}]_vars

(* The pages outside the manager keep no access token in memory once all   *)
(* is quiet, however operations have overlapped: neither a logout nor a    *)
(* refused login leaves one behind, and a login that succeeds in either    *)
(* thread ends on the manager.  Only a registration that is answered while *)
(* another page is shown may turn that of a session (twokey.cpp:184, 207,  *)
(* 424; backend_client.cpp:296).                                           *)
NoJwtOutside ==
    page \in {"login", "register"} /\ ~Busy => jwt = NoJwt \/ turned

(* The first of an empty list of sites is taken only for a vault without   *)
(* accounts, after a lost answer, after operations that overlapped, or     *)
(* after a browser's login failed over a session of the GUI                *)
(* (twokey.cpp:83-85).                                                     *)
EmptyListHasCause == indexed # "bare"

(* Operations that wait for each other's end all end: the last one started *)
(* waits for nobody (backend_client.cpp:186-189 and its like).             *)
WaitsEnd == []<>(stack["gui"] = <<>> /\ queued = 0)

-----------------------------------------------------------------------------
(* "TwoKey's token is not connected, please connect it to login."          *)
(* (twokey.cpp:145): the manager is not shown without a token.             *)
ManagerNeedsToken == page \in {"manager", "addaccount"} => token # NoKey
=============================================================================
