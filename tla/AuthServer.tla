----------------------------- MODULE AuthServer -----------------------------
(***************************************************************************)
(* Registration and the two-step login of the Flask server                 *)
(* (src/Server/register.py, login.py, api.py).  A handler runs in one of   *)
(* the workers of the WSGI server; between two of its calls to MongoDB any *)
(* other handler may run, so each call is a step of its own and what a     *)
(* handler has read so far is the worker's local state, job[w].            *)
(*                                                                         *)
(* A JWT is the uuid it names; live holds the uuids some unexpired JWT     *)
(* names (the server keeps no list of tokens, it checks signature and      *)
(* expiry).  The challenge drawn with a session is told apart from every   *)
(* other one, so the session's id stands for it; the answer of a token to  *)
(* a challenge is the pair of the two, AES under the token's own key.      *)
(***************************************************************************)
EXTENDS Integers, FiniteSets

CONSTANTS Workers,      \* request handlers that may run at the same time
          Emails, Passwords,
          Devices,      \* hardware tokens in the devices collection
          Uuids,        \* what uuid4() can return
          Printed       \* the Serial field still holds the printed serial

ASSUME WorkersFinite == IsFiniteSet(Workers)
ASSUME PrintedIsNoUuid == Printed \notin Uuids

VARIABLES
    user,         \* documents of the user collection
    serial,       \* Serial field of each document of devices
    collections,  \* the collections created for users
    session,      \* documents of the session collection
    live,         \* the uuids named by an unexpired JWT
    job,          \* what each worker is doing
    unused,       \* history: uuids uuid4() has not returned
    overlap,      \* history: pairs of registrations that ran at the same time
    acked,        \* history: registrations answered 200
    granted,      \* history: accesses granted, with what was presented
    mints         \* history: how many accesses each session gave

db == <<user, serial, collections, session>>
history == <<overlap, acked, granted, mints>>
vars == <<db, live, job, unused, history>>

User == [id : Uuids, email : Emails, password : Passwords]
Answer == [device : Devices, challenge : Uuids]
Pending == [id : Uuids, email : Emails, password : Passwords, device : Devices]

Idle == [step |-> "idle"]
RegSteps == {"serial", "email", "insert", "collection", "bind"}
RegJob == [step : RegSteps, reg : Pending]
Asked == [step : {"session"}, sid : Uuids, answer : Answer]
Opened == [step : {"user"}, doc : User, answer : Answer]
Known == [step : {"device", "remove", "reply"}, doc : User, found : User, answer : Answer]
Job == {Idle} \cup RegJob \cup Asked \cup Opened \cup Known

Registering(w) == job[w].step \in RegSteps
UserDoc(r) == [id |-> r.id, email |-> r.email, password |-> r.password]

TypeOK ==
    /\ user \subseteq User
    /\ serial \in [Devices -> Uuids \cup {Printed}]
    /\ collections \subseteq Uuids
    /\ session \subseteq User
    /\ live \subseteq Uuids
    /\ job \in [Workers -> Job]
    /\ unused \subseteq Uuids
    /\ overlap \subseteq SUBSET Uuids
    /\ acked \subseteq Pending
    /\ granted \subseteq [user : User, doc : User, answer : Answer]
    /\ mints \in [Uuids -> Nat]

Init ==
    /\ user = {} /\ collections = {} /\ session = {} /\ live = {}
    /\ serial = [d \in Devices |-> Printed]
    /\ job = [w \in Workers |-> Idle]
    /\ unused = Uuids
    /\ overlap = {} /\ acked = {} /\ granted = {}
    /\ mints = [s \in Uuids |-> 0]

(* A handler moves to its next call, or returns. *)
Goto(w, s) == job' = [job EXCEPT ![w].step = s]
Return(w) == job' = [job EXCEPT ![w] = Idle]

-----------------------------------------------------------------------------
(* POST /reg *)

RegisterArrive(w, id, e, p, d) ==
    /\ job[w] = Idle
    /\ id \in unused
    /\ unused' = unused \ {id}
    /\ job' = [job EXCEPT ![w] =
                 [step |-> "serial",
                  reg |-> [id |-> id, email |-> e, password |-> p, device |-> d]]]
    /\ overlap' = overlap \cup {{id, job[v].reg.id} : v \in {x \in Workers : Registering(x)}}
    /\ UNCHANGED <<db, live, acked, granted, mints>>

(* Fault: the serial is not looked up. *)
AnySerial(w) ==
    /\ job[w].step = "serial"
    /\ Goto(w, "email")
    /\ UNCHANGED <<db, live, unused, history>>

SerialExist(w) ==
    /\ job[w].step = "serial"
    /\ IF serial[job[w].reg.device] = Printed THEN Goto(w, "email") ELSE Return(w)
    /\ UNCHANGED <<db, live, unused, history>>

(* Fault: the address is not looked up. *)
AnyEmail(w) ==
    /\ job[w].step = "email"
    /\ Goto(w, "insert")
    /\ UNCHANGED <<db, live, unused, history>>

EmailFree(w) ==
    /\ job[w].step = "email"
    /\ IF \E u \in user : u.email = job[w].reg.email
         THEN Return(w) ELSE Goto(w, "insert")
    /\ UNCHANGED <<db, live, unused, history>>

(* Fault: the token is bound before the collection is created. *)
InsertThenBind(w) ==
    /\ job[w].step = "insert"
    /\ user' = user \cup {UserDoc(job[w].reg)}
    /\ Goto(w, "bind")
    /\ UNCHANGED <<serial, collections, session, live, unused, history>>

InsertUser(w) ==
    /\ job[w].step = "insert"
    /\ user' = user \cup {UserDoc(job[w].reg)}
    /\ Goto(w, "collection")
    /\ UNCHANGED <<serial, collections, session, live, unused, history>>

CreateCollection(w) ==
    /\ job[w].step = "collection"
    /\ collections' = collections \cup {job[w].reg.id}
    /\ Goto(w, "bind")
    /\ UNCHANGED <<user, serial, session, live, unused, history>>

(* Fault: the binding is replaced, whoever has the token. *)
RebindAlways(d, id) == [serial EXCEPT ![d] = id]

(* update_one matches the printed serial, which another registration may   *)
(* have replaced by now; its result is not read and the answer is 200.     *)
Rebind(d, id) == IF serial[d] = Printed THEN [serial EXCEPT ![d] = id] ELSE serial

BindDevice(w) ==
    /\ job[w].step = "bind"
    /\ serial' = Rebind(job[w].reg.device, job[w].reg.id)
    /\ acked' = acked \cup {job[w].reg}
    /\ Return(w)
    /\ UNCHANGED <<user, collections, session, live, unused, overlap, granted, mints>>

-----------------------------------------------------------------------------
(* POST /login: one call to the database; nothing is checked yet. *)

(* Fault: the first step already names the user in its JWT. *)
LoginNamesUser(sid, e, p) ==
    /\ sid \in unused
    /\ unused' = unused \ {sid}
    /\ session' = session \cup {[id |-> sid, email |-> e, password |-> p]}
    /\ live' = live \cup {sid} \cup {u.id : u \in {x \in user : x.email = e}}
    /\ UNCHANGED <<user, serial, collections, job, history>>

Login(sid, e, p) ==
    /\ sid \in unused
    /\ unused' = unused \ {sid}
    /\ session' = session \cup {[id |-> sid, email |-> e, password |-> p]}
    /\ live' = live \cup {sid}
    /\ UNCHANGED <<user, serial, collections, job, history>>

-----------------------------------------------------------------------------
(* POST /2fa.  The JWT may be any live one: those of /login and of /2fa    *)
(* have the same shape and key.                                            *)

TwoFAArrive(w, t, a) ==
    /\ job[w] = Idle
    /\ t \in live
    /\ job' = [job EXCEPT ![w] = [step |-> "session", sid |-> t, answer |-> a]]
    /\ UNCHANGED <<db, live, unused, history>>

Sessions(w) == {s \in session : s.id = job[w].sid}

(* Fault: the password of the session is not handed on. *)
FindSessionOnly(w) ==
    /\ job[w].step = "session"
    /\ \E s \in Sessions(w) :
         job' = [job EXCEPT ![w] = [step |-> "user", doc |-> [id |-> s.id, email |-> s.email],
                                    answer |-> job[w].answer]]
    /\ UNCHANGED <<db, live, unused, history>>

FindSession(w) ==
    /\ job[w].step = "session"
    /\ \/ /\ Sessions(w) = {}
          /\ Return(w)
       \/ \E s \in Sessions(w) :
            job' = [job EXCEPT ![w] = [step |-> "user", doc |-> s, answer |-> job[w].answer]]
    /\ UNCHANGED <<db, live, unused, history>>

(* find_one takes any of the users with the address. *)
Accounts(w) == {u \in user : u.email = job[w].doc.email}

FindUser(w) ==
    /\ job[w].step = "user"
    /\ \/ /\ Accounts(w) = {}
          /\ Return(w)
       \/ \E u \in Accounts(w) :
            job' = [job EXCEPT ![w] = [step |-> "device", doc |-> job[w].doc,
                                       found |-> u, answer |-> job[w].answer]]
    /\ UNCHANGED <<db, live, unused, history>>

(* Fault: the password is not compared. *)
AcceptsAnyPassword(w, d) ==
    /\ serial[d] = job[w].found.id
    /\ job[w].answer = [device |-> d, challenge |-> job[w].doc.id]

(* A user without a token raises a TypeError, a wrong password or answer   *)
(* is refused; the session stays in each case.                             *)
Accepts(w, d) == /\ serial[d] = job[w].found.id
                 /\ job[w].found.password = job[w].doc.password
                 /\ job[w].answer = [device |-> d, challenge |-> job[w].doc.id]

CheckAnswer(w) ==
    /\ job[w].step = "device"
    /\ IF \E d \in Devices : Accepts(w, d) THEN Goto(w, "remove") ELSE Return(w)
    /\ UNCHANGED <<db, live, unused, history>>

(* Fault: the session is left. *)
KeepSession(w) ==
    /\ job[w].step = "remove"
    /\ Goto(w, "reply")
    /\ UNCHANGED <<db, live, unused, history>>

RemoveSession(w) ==
    /\ job[w].step = "remove"
    /\ session' = {s \in session : s.id # job[w].doc.id}
    /\ Goto(w, "reply")
    /\ UNCHANGED <<user, serial, collections, live, unused, history>>

Grant(w) ==
    /\ job[w].step = "reply"
    /\ live' = live \cup {job[w].found.id}
    /\ granted' = granted \cup {[user |-> job[w].found, doc |-> job[w].doc,
                                 answer |-> job[w].answer]}
    /\ mints' = [mints EXCEPT ![job[w].doc.id] = @ + 1]
    /\ Return(w)
    /\ UNCHANGED <<db, unused, overlap, acked>>

-----------------------------------------------------------------------------
(* The last unexpired JWT that names t expires. *)
Expire(t) ==
    /\ t \in live
    /\ live' = live \ {t}
    /\ UNCHANGED <<db, job, unused, history>>

(* A handler dies between two calls: the process stops, MongoDB does not   *)
(* answer, an exception is raised.  What it has written stays.             *)
Fail(w) ==
    /\ job[w] # Idle
    /\ Return(w)
    /\ UNCHANGED <<db, live, unused, history>>

Register(w) == \/ \E id \in Uuids, e \in Emails, p \in Passwords, d \in Devices :
                    RegisterArrive(w, id, e, p, d)
               \/ SerialExist(w) \/ EmailFree(w) \/ InsertUser(w)
               \/ CreateCollection(w) \/ BindDevice(w)

TwoFA(w) == \/ \E t \in Uuids, a \in Answer : TwoFAArrive(w, t, a)
            \/ FindSession(w) \/ FindUser(w) \/ CheckAnswer(w)
            \/ RemoveSession(w) \/ Grant(w)

Next == \/ \E w \in Workers : Register(w) \/ TwoFA(w) \/ Fail(w)
        \/ \E sid \in Uuids, e \in Emails, p \in Passwords : Login(sid, e, p)
        \/ \E t \in Uuids : Expire(t)

Spec == Init /\ [][Next]_vars

-----------------------------------------------------------------------------
(* Whoever was given access presented the password of the account and the  *)
(* answer, to the challenge of that very login, of the token bound to the  *)
(* account; handlers that interleave never mix two logins (login.py:70).   *)
TwoFactorBinding ==
    \A g \in granted :
        /\ g.user \in user
        /\ g.doc.email = g.user.email /\ g.doc.password = g.user.password
        /\ g.answer.challenge = g.doc.id
        /\ serial[g.answer.device] = g.user.id

(* The session is removed only after the token is minted (login.py:94-99), *)
(* so an answer can be accepted more than once, but only by the handlers   *)
(* that had read the session before: at most one for each worker.          *)
ReplayBounded == \A s \in Uuids : mints[s] <= Cardinality(Workers)

(* Two accounts share an address only when their registrations ran at the  *)
(* same time, between the check and the insertion (register.py:38-41).     *)
EmailUniqueUnlessRaced ==
    \A u, v \in user : u.email = v.email => u = v \/ {u.id, v.id} \in overlap

(* A registration answered 200 owns its token, unless the registration     *)
(* that owns it ran at the same time (register.py:35-46).                  *)
DeviceUnlessRaced ==
    \A r \in acked : \/ serial[r.device] = r.id
                      \/ {serial[r.device], r.id} \in overlap

(* A token is bound to a user that is stored and has a collection, however *)
(* the registration that bound it was interleaved or cut short; so no      *)
(* access is granted to a user without a vault (register.py:41-46).        *)
BoundIsComplete ==
    \A d \in Devices : serial[d] # Printed =>
        /\ serial[d] \in collections
        /\ \E u \in user : u.id = serial[d]

(* The JWT of a first step, whose shape and key are those of a full one,   *)
(* names no collection, and a JWT that names one was granted by a second   *)
(* step (login.py:30, login.py:95, controll_data.py:12).                   *)
FullTokenOnlyGranted ==
    \A t \in live \cap collections : \E g \in granted : g.user.id = t

Abstract == INSTANCE Enrolment
              WITH signedIn <- {<<g.user.id, g.answer.device>> : g \in granted}

(* The server implements the enrolment it promises: a binding is never     *)
(* undone or repeated, and access follows the binding.                     *)
EnrolmentKept == Abstract!Spec
=============================================================================
