----------------------------- MODULE TokenLink -----------------------------
(***************************************************************************)
(* The serial link between the desktop application and the hardware token: *)
(* usb_event_handler.cpp (which token is there), usb_communicator.cpp (the *)
(* open port) and the firmware TokenArduinoCode.ino.                       *)
(*                                                                         *)
(* A token answers a challenge of 16 bytes with 32 characters, which reach *)
(* the application in two pieces.  readFromToken waits for some data or    *)
(* for three seconds, whichever comes first, and takes up to 32 characters *)
(* of what has arrived: a piece, the answer, or nothing.  The rest stays   *)
(* in the port's buffer.                                                   *)
(***************************************************************************)
EXTENDS Naturals, Sequences

CONSTANTS MaxPlugs,     \* bound: how often a token is plugged in
          MaxLogins     \* bound: how many challenges are written

ASSUME BoundsNat == MaxPlugs \in Nat /\ MaxLogins \in Nat

VARIABLES
    plugged,     \* the plug-in that is present, 0 when there is none
    plugs,       \* how many plug-ins there have been
    events,      \* udev events the timer has not handled yet
    available,   \* tokenIsAvailable
    handle,      \* the plug-in the open port belongs to, 0 when it is closed
    booting,     \* the token's boot loader runs: it does not read
    wire,        \* challenges on their way to the token
    answering,   \* pieces the token still has to send
    rx,          \* pieces in the port's buffer
    login,       \* the exchange that runs or ran last
    missed       \* history: a token came while the port of the last one was open

device == <<plugged, plugs, booting, wire, answering>>
host == <<available, handle, rx>>
vars == <<device, events, host, login, missed>>

Garbled == 0
Piece == [of : 0 .. MaxLogins, half : {1, 2}]
Whole(c) == << [of |-> c, half |-> 1], [of |-> c, half |-> 2] >>

(* heard is what readFromToken returned.  ready: the token was running and *)
(* its port open when the challenge was written, and it has stayed; quiet: *)
(* nothing of an earlier exchange was under way then; complete: the token  *)
(* had sent all it had to when it was read.                                *)
Login == [pc : {"idle", "waiting", "heard"}, challenge : 0 .. MaxLogins,
          heard : Seq(Piece), ready : BOOLEAN, quiet : BOOLEAN, complete : BOOLEAN]

TypeOK ==
    /\ plugs \in 0 .. MaxPlugs /\ plugged \in {0, plugs}
    /\ events \in Nat
    /\ available \in BOOLEAN /\ handle \in 0 .. plugs
    /\ booting \in BOOLEAN
    /\ wire \in Seq(0 .. MaxLogins)
    /\ answering \in Seq(Piece) /\ rx \in Seq(Piece)
    /\ login \in Login
    /\ missed \in BOOLEAN

(* The constructors of TwoKey scan once and open the port.                 *)
Init ==
    /\ plugs \in {0, 1} /\ plugs <= MaxPlugs
    /\ plugged = plugs /\ available = (plugs = 1) /\ handle = plugs
    /\ booting = (plugs = 1)
    /\ events = 0
    /\ wire = <<>> /\ answering = <<>> /\ rx = <<>>
    /\ login = [pc |-> "idle", challenge |-> 0, heard |-> <<>>,
                ready |-> FALSE, quiet |-> TRUE, complete |-> FALSE]
    /\ missed = FALSE

Broken == [login EXCEPT !.ready = IF login.pc = "waiting" THEN FALSE ELSE @]

-----------------------------------------------------------------------------
(* The user and the token. *)

Plug ==
    /\ plugged = 0 /\ plugs < MaxPlugs
    /\ plugs' = plugs + 1 /\ plugged' = plugs'
    /\ booting' = TRUE
    /\ events' = events + 1
    /\ missed' = (missed \/ handle # 0)
    /\ UNCHANGED <<wire, answering, host, login>>

Unplug ==
    /\ plugged # 0
    /\ plugged' = 0
    /\ wire' = <<>> /\ answering' = <<>> /\ booting' = FALSE
    /\ events' = events + 1
    /\ login' = Broken
    /\ UNCHANGED <<plugs, host, missed>>

Boot ==
    /\ booting
    /\ booting' = FALSE
    /\ UNCHANGED <<plugged, plugs, wire, answering, events, host, login, missed>>

(* loop(): one challenge at a time, answered in full.                      *)
TokenEncrypts ==
    /\ ~booting /\ wire # <<>> /\ answering = <<>>
    /\ wire' = Tail(wire)
    /\ answering' = Whole(Head(wire))
    /\ UNCHANGED <<plugged, plugs, booting, events, host, login, missed>>

(* A piece reaches the port, if this plug-in is the one that is open.      *)
TokenSends ==
    /\ answering # <<>>
    /\ answering' = Tail(answering)
    /\ rx' = IF handle = plugged THEN Append(rx, Head(answering)) ELSE rx
    /\ UNCHANGED <<plugged, plugs, booting, wire, events, available, handle, login, missed>>

-----------------------------------------------------------------------------
(* tick() takes one event; checkDeviceID() scans the ports and emits       *)
(* tokenStatusChanged, on which changeStatus() calls checkForToken().      *)

(* Fault: the port of a token that is gone stays open. *)
KeepPort == UNCHANGED <<handle, rx, booting, wire, answering, login, missed>>

CloseToken == /\ handle' = 0 /\ rx' = <<>>
              /\ login' = Broken
              /\ missed' = FALSE
              /\ UNCHANGED <<booting, wire, answering>>

(* Opening the port resets the token.  It fails when another program has   *)
(* the port.                                                               *)
OpenToken == \/ /\ handle' = plugged /\ rx' = <<>>
                /\ booting' = TRUE /\ wire' = <<>> /\ answering' = <<>>
                /\ login' = Broken
                /\ UNCHANGED missed
             \/ UNCHANGED <<handle, rx, booting, wire, answering, login, missed>>

CheckForToken ==
    \/ plugged = 0 /\ CloseToken
    \/ plugged # 0 /\ handle = 0 /\ OpenToken
    \/ /\ plugged # 0 /\ handle # 0
       /\ UNCHANGED <<handle, rx, booting, wire, answering, login, missed>>

(* Faults: one event is counted twice; a removal does not clear the status. *)
TickTwice ==
    /\ events > 0
    /\ events' = events - 2
    /\ available' = (plugged # 0)
    /\ CheckForToken
    /\ UNCHANGED <<plugged, plugs>>

TickInsertions ==
    /\ events > 0
    /\ events' = events - 1
    /\ available' = (available \/ plugged # 0)
    /\ CheckForToken
    /\ UNCHANGED <<plugged, plugs>>

Tick ==
    /\ events > 0
    /\ events' = events - 1
    /\ available' = (plugged # 0)
    /\ CheckForToken
    /\ UNCHANGED <<plugged, plugs>>

-----------------------------------------------------------------------------
(* One exchange of BackendClient::login.                                   *)

Outstanding == wire # <<>> \/ answering # <<>> \/ rx # <<>>

(* A challenge that meets the boot loader is lost, or loses its first      *)
(* bytes: the firmware then encrypts what it has after its own timeout.    *)
WriteToToken ==
    /\ login.pc # "waiting" /\ login.challenge < MaxLogins
    /\ LET c == login.challenge + 1 IN
         /\ IF handle = 0 \/ handle # plugged THEN UNCHANGED wire
            ELSE IF booting THEN \/ UNCHANGED wire
                                 \/ wire' = Append(wire, Garbled)
            ELSE wire' = Append(wire, c)
         /\ login' = [pc |-> "waiting", challenge |-> c, heard |-> <<>>,
                      ready |-> handle # 0 /\ handle = plugged /\ ~booting,
                      quiet |-> ~Outstanding, complete |-> FALSE]
    /\ UNCHANGED <<plugged, plugs, booting, answering, events, host, missed>>

(* Fault: half the length is read. *)
TakenHalf == IF rx = <<>> THEN 0 ELSE 1

Taken == IF Len(rx) < 2 THEN Len(rx) ELSE 2

(* Fault: the newest characters are taken, the older ones thrown away. *)
ReadNewest ==
    /\ login.pc = "waiting"
    /\ login' = [login EXCEPT !.pc = "heard",
                             !.heard = SubSeq(rx, Len(rx) - Taken + 1, Len(rx)),
                             !.complete = (wire = <<>> /\ answering = <<>>)]
    /\ rx' = <<>>
    /\ UNCHANGED <<device, events, available, handle, missed>>

ReadFromToken ==
    /\ login.pc = "waiting"
    /\ IF handle = 0
         THEN /\ login' = [login EXCEPT !.pc = "heard"]
              /\ UNCHANGED rx
         ELSE /\ login' = [login EXCEPT
                             !.pc = "heard",
                             !.heard = SubSeq(rx, 1, Taken),
                             !.complete = (wire = <<>> /\ answering = <<>>)]
              /\ rx' = SubSeq(rx, Taken + 1, Len(rx))
    /\ UNCHANGED <<device, events, available, handle, missed>>

Next == \/ Plug \/ Unplug \/ Boot \/ TokenEncrypts \/ TokenSends
        \/ Tick
        \/ WriteToToken \/ ReadFromToken

(* The timer fires every 250 ms, and the event loop runs again after a     *)
(* login at the latest.                                                    *)
Spec == Init /\ [][Next]_vars /\ WF_vars(Tick)

-----------------------------------------------------------------------------
(* A read that waits until the token has answered, on a port with nothing  *)
(* left over, returns the whole answer to the challenge of this login: a   *)
(* token that is there and answers in time makes a login fail only after   *)
(* a read that was short or late (usb_communicator.cpp:20-38).             *)
IntactExchangeMatches ==
    login.pc = "heard" /\ login.ready /\ login.quiet /\ login.complete
        => login.heard = Whole(login.challenge)

(* The reverse: while anything of an earlier exchange is under way no      *)
(* later one succeeds, however patient: reads never catch up, and only a   *)
(* close of the port ends it (usb_communicator.cpp:34, 40-45, 78).         *)
NoRecoveryOnOpenPort ==
    login.pc = "heard" /\ ~login.quiet => login.heard # Whole(login.challenge)

(* With every event handled, the status is the truth and the port is open  *)
(* on the token that is there, unless it could not be opened or the token  *)
(* was replaced faster than the timer looked: then the handle of the one   *)
(* that is gone is kept (usb_event_handler.cpp:86-108,                     *)
(* usb_communicator.cpp:59).                                               *)
HandleFollowsToken ==
    events = 0 => /\ available = (plugged # 0)
                  /\ handle \in {0, plugged} \/ missed

(* Once no token comes or goes any more, the status shows what is there.   *)
StatusConverges ==
    <>[](plugged # 0) \/ <>[](plugged = 0) => <>[](available = (plugged # 0))

-----------------------------------------------------------------------------
(* "The username, password, and/or token is incorrect." (twokey.cpp:159)   *)
(* is not said of a right token: when a token that was there and ready     *)
(* throughout the login has begun to answer in time, on a port with        *)
(* nothing left over, what is read is its answer.                          *)
TimelyTokenIsHeard ==
    /\ login.pc = "heard" /\ login.ready /\ login.quiet
    /\ login.heard # <<>>
    => login.heard = Whole(login.challenge)
=============================================================================
