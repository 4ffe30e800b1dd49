------------------------------- MODULE Bridge -------------------------------
(***************************************************************************)
(* The bridge to the browser extension: the HTTP server of sandbird.c, a   *)
(* single thread that polls its streams, with the handler of               *)
(* browser_extension_communicator.cpp, which waits for the server of       *)
(* TwoKey while every other stream waits for it.  The GUI thread logs in   *)
(* and out of the same BackendClient meanwhile.                            *)
(*                                                                         *)
(* Each request has a connection of its own, numbered as they are opened.  *)
(* One tick of the clock is more than sb_Server.timeout, the 30 seconds a  *)
(* stream may be silent.                                                   *)
(***************************************************************************)
EXTENDS Codec, FiniteSets

CONSTANTS MaxRequests,  \* bound: the connections there are
          Budgets,      \* bounds: of a behaviour, how often each of Bounded happens
          Pages,        \* the pages the browser shows
          Address,      \* the address of each page, a text
          Accounts,     \* the accounts of the user's vault, a sequence
          UserKey,      \* the key they are encrypted with
          WrongKey      \* the key of a wrong master password

Requests == 1 .. MaxRequests
Bounded == {"queries", "typed", "popup", "ticks", "gui", "events"}
ASSUME KeyTyped == UserKey \in Int \ {NoKey}
ASSUME AccountsTyped ==
    Accounts \in Seq([site : CString, name : CString, password : CString])
ASSUME AddressesTyped == \A p \in Pages : IsAddress(Address[p])
ASSUME BoundsNat == MaxRequests \in Nat /\ Budgets \subseteq [Bounded -> Nat]
Listener == 0           \* stands for the listening socket in the fd set
Keys == {NoKey, UserKey, WrongKey}

NoAsk == [kind |-> "none"]
PageAsk == [kind : {"page", "typed"}, page : Pages]
Asks == PageAsk \cup {[kind |-> "loggedin"], [kind |-> "login"]}

NoAnswer == [kind |-> "none"]
ListAnswer == [kind : {"list", "blank", "garbled"}, page : Pages]
Refusal == [kind |-> "401"]
Answers == {NoAnswer, Refusal, [kind |-> "yes"], [kind |-> "jwt"], [kind |-> "[]"]}
             \cup ListAnswer

VARIABLES
    asked, sent, gone,   \* clients: what is asked; who has sent it; who has left
    conn,                \* each connection, its buffer and stream state
    answer,              \* what the handler has written
    old,                 \* streams with last_activity longer than the timeout ago
    phase, todo, ready,  \* sb_poll_server: where it is, streams to do, fd sets
    ahead,               \* the clock has ticked since srv->now was set
    jwt, key, gui,       \* BackendClient; the logins the GUI is in, the last running
    left,                \* what is left of the budget
    found,               \* whether the lookup posted is one the server can answer
    silent, late         \* history: silent that long; heard or accepted after the
                         \* poll had looked at the clock

clients == <<asked, sent, gone>>
poll == <<phase, todo, ready>>
time == <<ahead, left>>
backend == <<jwt, key, gui>>
history == <<silent, late>>
bridgeVars == <<clients, conn, answer, old, poll, time, backend, found, history>>

Accepted == {"header", "status", "data", "rest", "flushed"}
Live == {"backlog"} \cup Accepted
Ended == {"answered", "empty", "gone", "timeout"}
Conns == {"unused", "backlog"} \cup Accepted \cup Ended
Waits == {"login", "second", "denied", "lookup", "list"}

BridgeTypeOK ==
    /\ asked \in [Requests -> Asks \cup {NoAsk}]
    /\ sent \subseteq Requests /\ gone \subseteq Requests
    /\ conn \in [Requests -> Conns]
    /\ answer \in [Requests -> Answers]
    /\ old \subseteq Requests
    /\ phase \in {"select", "walk", "down"} \cup Waits
    /\ todo \subseteq Requests /\ ready \subseteq Requests \cup {Listener}
    /\ ahead \in BOOLEAN
    /\ jwt \in {"none", "first", "full"} /\ key \in Keys
    /\ gui \in Seq({"second", "denied"})
    /\ left \in [Bounded -> Nat]
    /\ found \in BOOLEAN
    /\ silent \subseteq Requests /\ late \subseteq Requests

BridgeInit ==
    /\ asked = [r \in Requests |-> NoAsk] /\ sent = {} /\ gone = {}
    /\ conn = [r \in Requests |-> "unused"]
    /\ answer = [r \in Requests |-> NoAnswer]
    /\ old = {}
    /\ phase = "select" /\ todo = {} /\ ready = {}
    /\ ahead = FALSE /\ left \in Budgets
    /\ jwt = "none" /\ key = NoKey /\ gui = <<>>
    /\ found = FALSE
    /\ silent = {} /\ late = {}

Spend(what) == left[what] > 0 /\ left' = [left EXCEPT ![what] = @ - 1]
Heard(r) == silent' = silent \ {r}

-----------------------------------------------------------------------------
(* Clients, connections and the clock. *)

Opening == {r \in Requests : conn[r] = "unused" /\ \A q \in 1 .. r - 1 : conn[q] # "unused"}

Open(r, a, what) ==
    /\ r \in Opening /\ Spend(what)
    /\ asked' = [asked EXCEPT ![r] = a]
    /\ conn' = [conn EXCEPT ![r] = "backlog"]
    /\ Heard(r)
    /\ UNCHANGED <<sent, gone, answer, old, poll, ahead, backend, found, late>>

Send(r) ==
    /\ conn[r] \in {"backlog", "header"} /\ r \notin sent \cup gone
    /\ sent' = sent \cup {r}
    /\ Heard(r)
    /\ late' = IF conn[r] = "header" /\ phase # "select" THEN late \cup {r} ELSE late
    /\ UNCHANGED <<asked, gone, conn, answer, old, poll, time, backend, found>>

Leave(rs) ==
    /\ gone' = gone \cup rs
    /\ UNCHANGED <<asked, sent, conn, answer, old, poll, time, backend, found, history>>

(* Something in the browser that is nothing to the bridge. *)
Elsewhere ==
    /\ Spend("events")
    /\ UNCHANGED <<clients, conn, answer, old, poll, ahead, backend, found, history>>

(* sb_Server.streams: new ones are put at its head, so that it is always   *)
(* in the order of their numbers, from the newest on.                      *)
Streams == {r \in Requests : conn[r] \in Accepted}

(* select() returns when a descriptor is ready, or after a second; the     *)
(* handler may wait for any time.                                          *)

(* Fault: a stream with nothing written yet is watched for neither.        *)
ReadableOnceWritten(r) == conn[r] # "status" /\ (conn[r] # "header" \/ r \in sent \cup gone)

Readable(r) == conn[r] # "header" \/ r \in sent \cup gone

Quiet == \A r \in Requests : /\ conn[r] # "backlog"
                             /\ r \in Streams => ~Readable(r)

Tick ==
    /\ phase \in Waits \/ (phase = "select" /\ Quiet /\ ~ahead)
    /\ Spend("ticks")
    /\ ahead' = TRUE
    /\ silent' = {r \in Requests : conn[r] \in Live}
    /\ UNCHANGED <<clients, conn, answer, old, poll, backend, found, late>>

-----------------------------------------------------------------------------
(* sb_poll_server *)

(* Fault: any time counts as more than the timeout. *)
AgedAtOnce == Streams

Aged == IF ahead THEN Streams ELSE old

Select ==
    /\ phase = "select" /\ (~Quiet \/ ahead)
    /\ phase' = "walk"
    /\ todo' = Streams
    /\ ready' = {r \in Streams : Readable(r)}
                  \cup (IF \E r \in Requests : conn[r] = "backlog" THEN {Listener} ELSE {})
    /\ old' = Aged
    /\ ahead' = FALSE
    /\ UNCHANGED <<clients, conn, answer, left, backend, found, history>>

(* The stream at the head is destroyed, or the next one comes. *)
Destroy(r, why) ==
    /\ conn' = [conn EXCEPT ![r] = why]
    /\ old' = old \ {r}
    /\ todo' = todo \ {r}

Active(r) == old' = old \ {r}
Current(r) == r \in todo /\ \A q \in todo : q <= r
Turn(r) == phase = "walk" /\ Current(r)

(* Neither readable nor writable: only the timeout is looked at. *)
Wait(r) ==
    /\ Turn(r) /\ r \notin ready
    /\ IF r \in old
         THEN Destroy(r, "timeout")
         ELSE todo' = todo \ {r} /\ UNCHANGED <<conn, old>>
    /\ UNCHANGED <<clients, answer, phase, ready, time, backend, found, silent, late>>

Disconnected(r) ==
    /\ Turn(r) /\ r \in ready
    /\ conn[r] = "header" /\ r \notin sent
    /\ Destroy(r, "gone")
    /\ UNCHANGED <<clients, answer, phase, ready, time, backend, found, silent, late>>

(* Fault: the timeout is looked at before anything is sent. *)
FlushInTime(r) ==
    /\ Turn(r) /\ r \in ready
    /\ conn[r] \in {"data", "rest"}
    /\ IF r \in gone \cup old
         THEN Destroy(r, "timeout")
         ELSE /\ conn' = [conn EXCEPT ![r] = "flushed"]
              /\ todo' = todo \ {r}
              /\ UNCHANGED old
    /\ UNCHANGED <<clients, answer, phase, ready, time, backend, found, history>>

(* sb_stream_send.  With an empty buffer the stream is closed. *)
Flush(r) ==
    /\ Turn(r) /\ r \in ready
    /\ conn[r] \in {"data", "rest"}
    /\ \/ /\ r \in gone
          /\ Destroy(r, "gone")
          /\ UNCHANGED silent
       \/ /\ conn' \in {[conn EXCEPT ![r] = "flushed"]} \cup
                       (IF conn[r] = "data" THEN {[conn EXCEPT ![r] = "rest"]} ELSE {})
          /\ Active(r) /\ Heard(r)
          /\ todo' = todo \ {r}
    /\ UNCHANGED <<clients, answer, phase, ready, time, backend, found, late>>

Finish(r) ==
    /\ Turn(r) /\ r \in ready
    /\ conn[r] \in {"status", "flushed"}
    /\ Destroy(r, IF conn[r] = "status" THEN "empty" ELSE "answered")
    /\ UNCHANGED <<clients, answer, phase, ready, time, backend, found, silent, late>>

(* Connections in the backlog become streams; srv->now is the time of the  *)
(* select() before the handlers.                                           *)
Accept ==
    /\ phase = "walk" /\ todo = {} /\ phase' = "select"
    /\ IF Listener \in ready
         THEN /\ conn' = [r \in Requests |-> IF conn[r] = "backlog" THEN "header" ELSE conn[r]]
              /\ late' = IF ahead THEN late \cup {r \in Requests : conn[r] = "backlog"} ELSE late
         ELSE UNCHANGED <<conn, late>>
    /\ ready' = {}
    /\ UNCHANGED <<clients, answer, old, todo, time, backend, found, silent>>

-----------------------------------------------------------------------------
(* event_handler, called by sb_stream_recv when the header is complete. *)

(* The handler writes an answer, or nothing, and returns. *)
Reply(r, a) ==
    /\ answer' = [answer EXCEPT ![r] = a]
    /\ conn' = [conn EXCEPT ![r] = IF a = NoAnswer THEN "status" ELSE "data"]
    /\ phase' = "walk" /\ todo' = todo \ {r}

Goto(r, p) ==
    /\ phase' = p
    /\ conn' = [conn EXCEPT ![r] = "status"]
    /\ UNCHANGED <<answer, todo>>

(* Fault: a connection that is closed is taken for the end of the header.  *)
CompleteOrClosed(r) == conn[r] = "header"

Complete(r) == conn[r] = "header" /\ r \in sent

(* With the URL of a page and no session nothing is written. *)
Handle(r) ==
    /\ Turn(r) /\ r \in ready
    /\ Complete(r)
    /\ CASE asked[r].kind = "loggedin" -> Reply(r, IF jwt # "none" THEN [kind |-> "yes"] ELSE Refusal)
         [] asked[r].kind = "login" -> Goto(r, "login")
         [] OTHER -> IF jwt # "none" THEN Goto(r, "lookup") ELSE Reply(r, NoAnswer)
    /\ Active(r)
    /\ UNCHANGED <<clients, ready, time, backend, found, history>>

(* BackendClient::login, in either thread.  Any body that answers the first *)
(* step replaces JWT and key, also the one that denies it; then the second *)
(* step is posted, without a JWT when the first was denied.                *)
FirstStep(where) ==
    \/ where = "second" /\ jwt' = "first" /\ key' = UserKey
    \/ where = "denied" /\ jwt' = "none" /\ key' = WrongKey

LoginAnswered(r) ==
    /\ phase = "login" /\ Current(r)
    /\ \/ Reply(r, Refusal) /\ UNCHANGED <<jwt, key>>
       \/ /\ \E p \in {"second", "denied"} : phase' = p /\ FirstStep(p)
          /\ UNCHANGED <<answer, conn, todo>>
    /\ UNCHANGED <<clients, old, ready, time, gui, found, history>>

(* Fault: a refused second step leaves the JWT of the first. *)
RefuseOnly(r) == Reply(r, Refusal) /\ UNCHANGED jwt

Refuse(r) == Reply(r, Refusal) /\ jwt' = "none"

SecondAnswered(r) ==
    /\ Current(r)
    /\ \/ phase = "second" /\ jwt' = "full" /\ Reply(r, [kind |-> "jwt"])
       \/ phase \in {"second", "denied"} /\ Refuse(r)
    /\ UNCHANGED <<clients, old, ready, time, key, gui, found, history>>

(* getAccountsForWebsite: the JWT and the key are read again. *)
PostLookup ==
    /\ phase = "lookup" /\ phase' = "list"
    /\ found' = (jwt = "full" /\ key = UserKey)
    /\ UNCHANGED <<clients, conn, answer, old, todo, ready, time, backend, history>>

-----------------------------------------------------------------------------
(* The answer to a page: the accounts the server finds under the cipher    *)
(* text of the site, read with the key there is when they arrive.          *)

Site(p) == StripURL(UrlVar(Address[p]))

Vault == [i \in 1 .. Len(Accounts) |->
            [f \in {"site", "name", "password"} |-> EncryptWithKey(UserKey, Accounts[i][f])]]

ListText == [p \in Pages |->
               JSONList(AccountsIn(UserKey, ViewAccounts(Vault, EncryptWithKey(UserKey, Site(p)))))]

(* Of accounts of one name the last one counts.                            *)
StoredFor(p) ==
    LET of == {i \in DOMAIN Accounts : Accounts[i].site = Site(p)}
        last == {i \in of : \A j \in of : j > i => Accounts[j].name # Accounts[i].name}
    IN  {<<Accounts[i].name, Accounts[i].password>> : i \in last}
Holds(p, chars) == \E s \in StoredFor(p) : chars \cap (ToSet(s[1]) \cup ToSet(s[2])) # {}

(* The user's key gives the list, no key gives blank entries, a wrong one  *)
(* any characters.  A quote or a backslash spoils the JSON, in which it is *)
(* not escaped.  sb_writef takes the list as its format: of a % it makes   *)
(* what is not the list, or reads an argument that is not there, and the   *)
(* program stops.  "[]" is also the answer when the server's was lost or a *)
(* refusal.                                                                *)
ListAnswered(r) ==
    /\ phase = "list" /\ Current(r) /\ found' = FALSE
    /\ LET p == asked[r].page
           lists == found /\ ListText[p] # <<>>
           Special(chars) == key = WrongKey \/ (key = UserKey /\ Holds(p, chars))
           special == Special({Percent, Quote, Backslash})
       IN  \/ Reply(r, [kind |-> "[]"])
           \/ /\ lists /\ ~special
              /\ Reply(r, [kind |-> IF key = UserKey THEN "list" ELSE "blank", page |-> p])
           \/ lists /\ special /\ Reply(r, [kind |-> "garbled", page |-> p])
           \/ lists /\ Special({Percent}) /\ phase' = "down" /\ UNCHANGED <<answer, conn, todo>>
    /\ UNCHANGED <<clients, old, ready, time, backend, history>>

-----------------------------------------------------------------------------
(* The GUI thread logs in and out (Desktop has it in full).  A login there *)
(* can be begun in the wait of another one, which then waits for its end.  *)

GuiLogin ==
    /\ phase # "down"
    /\ Spend("gui")
    /\ \E g \in {"second", "denied"} : gui' = Append(gui, g) /\ FirstStep(g)
    /\ UNCHANGED <<clients, conn, answer, old, poll, ahead, found, history>>

GuiSecond ==
    /\ phase # "down" /\ gui # <<>> /\ gui' = Front(gui)
    /\ jwt' \in {"none"} \cup (IF Last(gui) = "second" THEN {"full"} ELSE {})
    /\ UNCHANGED <<clients, conn, answer, old, poll, time, key, found, history>>

GuiLogout ==
    /\ phase # "down" /\ jwt' = "none" /\ key' = NoKey
    /\ Spend("gui")
    /\ UNCHANGED <<clients, conn, answer, old, poll, ahead, gui, found, history>>

-----------------------------------------------------------------------------
Stream(r) == Wait(r) \/ Disconnected(r) \/ Flush(r) \/ Finish(r) \/ Handle(r)

Waiting(r) == LoginAnswered(r) \/ SecondAnswered(r) \/ ListAnswered(r)

ServerStep == \/ Select \/ Accept \/ PostLookup
              \/ \E r \in Requests : Stream(r) \/ Waiting(r)

BridgeStep == ServerStep \/ Tick \/ GuiLogin \/ GuiSecond \/ GuiLogout

(* The bridge with any clients. *)
BridgeNext ==
    \/ BridgeStep \/ Elsewhere
    \/ \E r \in Requests : Send(r) \/ \E a \in Asks, what \in Bounded : Open(r, a, what)
    \/ \E rs \in SUBSET Requests : Leave(rs)

BridgeSpec == BridgeInit /\ [][BridgeNext]_bridgeVars

-----------------------------------------------------------------------------
(* A client that stays gets the whole of what the handler has written for  *)
(* it, however long handlers of others have kept the thread                *)
(* (sandbird.c:513-551, 905-929).                                          *)
AnswerDelivered ==
    \A r \in Requests : conn[r] \in Ended /\ r \notin gone /\ answer[r] # NoAnswer
                          => conn[r] = "answered"

(* A stream is closed by its timeout only after it has been silent for     *)
(* that long, unless it sends when the poll has already looked, or it was  *)
(* accepted in a poll whose handler had waited: srv->now is then old       *)
(* (sandbird.c:388, 898, 917).                                             *)
TimeoutIsSilence ==
    [][\A r \in Requests : conn[r] # "timeout" /\ conn'[r] = "timeout"
                              => r \in silent \cup late]_bridgeVars

(* Of a session there is more than the first step of a login, or a login   *)
(* past it is still going on in one of the two threads, however they nest: *)
(* so "yes" is never said to the extension on account of logins that have  *)
(* all failed                                                              *)
(* (browser_extension_communicator.cpp:127, backend_client.cpp:204, 296).  *)
FirstStepPending == jwt = "first" => "second" \in ToSet(gui) \/ phase = "second"

(* The list a page is given holds the accounts of its site, with the names *)
(* and passwords that were stored, unless a character means something to   *)
(* the format or to JSON, or the key has changed meanwhile                 *)
(* (backend_client.cpp:395-423, browser_extension_communicator.cpp:158).   *)
ListShowsVault ==
    \A r \in Requests :
        answer[r].kind = "list"
        => ParsedList(ListText[answer[r].page]) = StoredFor(answer[r].page)

(* The bridge implements Service: what is written is written once, for a   *)
(* request that was sent whole, and fits what this client has asked, the   *)
(* accounts of its own page in particular, whatever others ask meanwhile;  *)
(* it is given to a client that stays, and no request is taken up again    *)
(* (browser_extension_communicator.cpp:68-191, sandbird.c:449-551).        *)
Fitting(a) == CASE a.kind = "loggedin" -> {[kind |-> "yes"], Refusal}
                [] a.kind = "login" -> {[kind |-> "jwt"], Refusal}
                [] OTHER -> {[kind |-> "[]"]} \cup {l \in ListAnswer : l.page = a.page}

Standing == [r \in Requests |-> CASE conn[r] = "unused" -> "idle"
                                  [] conn[r] \in Ended -> "ended"
                                  [] OTHER -> "open"]
Given == [r \in Requests |-> IF conn[r] = "answered" THEN answer[r] ELSE NoAnswer]

Promise ==
    INSTANCE Service WITH
        Clients <- Requests, Questions <- Asks, Replies <- [a \in Asks |-> Fitting(a)],
        NoQuestion <- NoAsk, NoReply <- NoAnswer,
        written <- answer, state <- Standing, given <- Given

ServiceKept == Promise!Spec

(* Whoever has sent a request is let go: its stream is destroyed, with an  *)
(* answer or without, unless the program has stopped.                      *)
EveryRequestEnds ==
    \A r \in Requests : r \in sent ~> conn[r] \in Ended \/ phase = "down"
=============================================================================
