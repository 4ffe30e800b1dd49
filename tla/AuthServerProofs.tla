-------------------------- MODULE AuthServerProofs --------------------------
(***************************************************************************)
(* Proofs about AuthServer, for any number of workers, users and tokens.   *)
(***************************************************************************)
EXTENDS AuthServer, FiniteSetTheorems, TLAPS

(* A step of a handler tells which of the job types the job is of.         *)
LEMMA JobOfStep ==
    ASSUME TypeOK, NEW w \in Workers
    PROVE  /\ job[w] \in Job
           /\ job[w].step = "idle" => job[w] = Idle
           /\ job[w].step \in RegSteps => job[w] \in RegJob
           /\ job[w].step = "session" => job[w] \in Asked
           /\ job[w].step = "user" => job[w] \in Opened
           /\ job[w].step \in {"device", "remove", "reply"} => job[w] \in Known
BY DEF TypeOK, Job, Idle, RegJob, RegSteps, Asked, Opened, Known

(* Every variable keeps its type: no handler leaves a half-built job or a  *)
(* document with a field missing.                                          *)
THEOREM Typing == Spec => []TypeOK
<1>1. Init => TypeOK
  BY DEF Init, TypeOK, Job
<1>2. TypeOK /\ [Next]_vars => TypeOK'
  <2> SUFFICES ASSUME TypeOK, [Next]_vars PROVE TypeOK'
    OBVIOUS
  <2>1. ASSUME NEW w \in Workers, NEW id \in Uuids, NEW e \in Emails,
               NEW p \in Passwords, NEW d \in Devices, RegisterArrive(w, id, e, p, d)
        PROVE  TypeOK'
    <3>1. [step |-> "serial", reg |-> [id |-> id, email |-> e, password |-> p, device |-> d]]
             \in Job
      BY DEF Job, RegJob, RegSteps, Pending
    <3>2. \A x \in Workers : Registering(x) => job[x].reg.id \in Uuids
      BY JobOfStep DEF Registering, RegJob, Pending
    <3>3. overlap' \subseteq SUBSET Uuids
      BY <2>1, <3>2 DEF RegisterArrive, TypeOK
    <3> QED
      BY <2>1, <3>1, <3>3 DEF RegisterArrive, TypeOK, db, history
  <2>2. ASSUME NEW w \in Workers, SerialExist(w) PROVE TypeOK'
    BY <2>2, JobOfStep
    DEF SerialExist, TypeOK, Goto, Return, Job, RegJob, RegSteps, Idle, db, history
  <2>3. ASSUME NEW w \in Workers, EmailFree(w) PROVE TypeOK'
    BY <2>3, JobOfStep
    DEF EmailFree, TypeOK, Goto, Return, Job, RegJob, RegSteps, Idle, db, history
  <2>4. ASSUME NEW w \in Workers, InsertUser(w) PROVE TypeOK'
    BY <2>4, JobOfStep
    DEF InsertUser, TypeOK, Goto, UserDoc, User, Pending, Job, RegJob, RegSteps, history
  <2>5. ASSUME NEW w \in Workers, CreateCollection(w) PROVE TypeOK'
    BY <2>5, JobOfStep
    DEF CreateCollection, TypeOK, Goto, Pending, Job, RegJob, RegSteps, history
  <2>6. ASSUME NEW w \in Workers, BindDevice(w) PROVE TypeOK'
    BY <2>6, JobOfStep
    DEF BindDevice, TypeOK, Rebind, Return, Pending, Job, RegJob, RegSteps, Idle
  <2>7. ASSUME NEW sid \in Uuids, NEW e \in Emails, NEW p \in Passwords, Login(sid, e, p)
        PROVE  TypeOK'
    BY <2>7 DEF Login, TypeOK, User, history
  <2>8. ASSUME NEW w \in Workers, NEW t \in Uuids, NEW a \in Answer, TwoFAArrive(w, t, a)
        PROVE  TypeOK'
    BY <2>8 DEF TwoFAArrive, TypeOK, Job, Asked, db, history
  <2>9. ASSUME NEW w \in Workers, FindSession(w) PROVE TypeOK'
    BY <2>9, JobOfStep
    DEF FindSession, Sessions, TypeOK, Return, Job, Asked, Opened, Idle, db, history
  <2>10. ASSUME NEW w \in Workers, FindUser(w) PROVE TypeOK'
    BY <2>10, JobOfStep
    DEF FindUser, Accounts, TypeOK, Return, Job, Opened, Known, Idle, db, history
  <2>11. ASSUME NEW w \in Workers, CheckAnswer(w) PROVE TypeOK'
    BY <2>11, JobOfStep
    DEF CheckAnswer, TypeOK, Goto, Return, Job, Known, Idle, db, history
  <2>12. ASSUME NEW w \in Workers, RemoveSession(w) PROVE TypeOK'
    BY <2>12, JobOfStep
    DEF RemoveSession, TypeOK, Goto, Job, Known, history
  <2>13. ASSUME NEW w \in Workers, Grant(w) PROVE TypeOK'
    BY <2>13, JobOfStep
    DEF Grant, TypeOK, Return, Job, Known, User, Idle, db
  <2>14. ASSUME NEW t \in Uuids, Expire(t) PROVE TypeOK'
    BY <2>14 DEF Expire, TypeOK, db, history
  <2>15. ASSUME NEW w \in Workers, Fail(w) PROVE TypeOK'
    BY <2>15 DEF Fail, TypeOK, Return, Job, Idle, db, history
  <2>16. CASE UNCHANGED vars
    BY <2>16 DEF vars, TypeOK, db, history
  <2> QED
    BY <2>1, <2>2, <2>3, <2>4, <2>5, <2>6, <2>7, <2>8, <2>9, <2>10, <2>11, <2>12,
       <2>13, <2>14, <2>15, <2>16 DEF Next, Register, TwoFA
<1> QED
  BY <1>1, <1>2, PTL DEF Spec

-----------------------------------------------------------------------------
(* The second step of a login.  What a handler has read of an account never *)
(* changes, and what it has compared stays true, because user documents are *)
(* only inserted and a binding is never replaced.                           *)
CheckedHolds ==
    \A w \in Workers :
        /\ job[w].step \in {"device", "remove", "reply"} =>
              /\ job[w].found \in user
              /\ job[w].found.email = job[w].doc.email
        /\ job[w].step \in {"remove", "reply"} =>
              /\ job[w].found.password = job[w].doc.password
              /\ job[w].answer.challenge = job[w].doc.id
              /\ serial[job[w].answer.device] = job[w].found.id

BindingInv == CheckedHolds /\ TwoFactorBinding

(* A step may change the job of the worker that takes it only.              *)
OthersUnchanged(w) == \A v \in Workers \ {w} : job'[v] = job[v]

(* Accounts are never removed, and a token that is bound keeps its binding. *)
Monotone == /\ user \subseteq user'
            /\ \A d \in Devices : serial[d] # Printed => serial'[d] = serial[d]

LEMMA StepMonotone ==
    ASSUME TypeOK, [Next]_vars
    PROVE  Monotone
BY JobOfStep
DEF Next, Register, TwoFA, RegisterArrive, SerialExist, EmailFree, InsertUser,
    CreateCollection, BindDevice, Login, TwoFAArrive, FindSession, FindUser,
    CheckAnswer, RemoveSession, Grant, Expire, Fail, Goto, Return, Rebind,
    vars, db, Monotone, TypeOK, RegJob, RegSteps, Pending

(* A worker whose job is as it was, or has just become idle or a job of     *)
(* another kind, keeps what CheckedHolds says of it.                        *)
LEMMA CheckedKept ==
    ASSUME TypeOK, CheckedHolds, Monotone, NEW w \in Workers,
           job'[w] = job[w] \/ job'[w].step \notin {"device", "remove", "reply"}
    PROVE  /\ job'[w].step \in {"device", "remove", "reply"} =>
                 /\ job'[w].found \in user'
                 /\ job'[w].found.email = job'[w].doc.email
           /\ job'[w].step \in {"remove", "reply"} =>
                 /\ job'[w].found.password = job'[w].doc.password
                 /\ job'[w].answer.challenge = job'[w].doc.id
                 /\ serial'[job'[w].answer.device] = job'[w].found.id
<1>1. CASE job'[w].step \notin {"device", "remove", "reply"}
  BY <1>1
<1>2. CASE job'[w] = job[w] /\ job[w].step \in {"device", "remove", "reply"}
  <2>1. job[w].found.id \in Uuids /\ job[w].answer.device \in Devices
    BY <1>2, JobOfStep DEF Known, User, Answer
  <2>2. /\ job[w].found \in user'
        /\ job[w].found.email = job[w].doc.email
    BY <1>2 DEF CheckedHolds, Monotone
  <2>3. job[w].step \in {"remove", "reply"} =>
                 /\ job[w].found.password = job[w].doc.password
                 /\ job[w].answer.challenge = job[w].doc.id
                 /\ serial'[job[w].answer.device] = job[w].found.id
    BY <2>1, PrintedIsNoUuid DEF CheckedHolds, Monotone
  <2> QED
    BY <1>2, <2>2, <2>3
<1> QED
  BY <1>1, <1>2

LEMMA GrantedKept ==
    ASSUME TypeOK, TwoFactorBinding, Monotone, NEW g \in granted
    PROVE  /\ g.user \in user'
           /\ g.doc.email = g.user.email /\ g.doc.password = g.user.password
           /\ g.answer.challenge = g.doc.id
           /\ serial'[g.answer.device] = g.user.id
<1>1. g.user.id \in Uuids /\ g.answer.device \in Devices
  BY DEF TypeOK, User, Answer
<1> QED
  BY <1>1, PrintedIsNoUuid DEF TwoFactorBinding, Monotone

LEMMA AlwaysBinding == Spec => []BindingInv
<1>1. Init => BindingInv
  BY DEF Init, BindingInv, CheckedHolds, TwoFactorBinding, Idle
<1>2. TypeOK /\ BindingInv /\ [Next]_vars => BindingInv'
  <2> SUFFICES ASSUME TypeOK, BindingInv, [Next]_vars PROVE BindingInv'
    OBVIOUS
  <2> USE DEF BindingInv
  <2>0. Monotone
    BY StepMonotone
  <2>1. ASSUME granted' = granted,
               \A w \in Workers : \/ job'[w] = job[w]
                                  \/ job'[w].step \notin {"device", "remove", "reply"}
        PROVE  BindingInv'
    <3>1. CheckedHolds'
      BY <2>0, <2>1, CheckedKept DEF CheckedHolds
    <3>2. TwoFactorBinding'
      BY <2>0, <2>1, GrantedKept DEF TwoFactorBinding
    <3> QED
      BY <3>1, <3>2
  <2>2. ASSUME NEW w \in Workers, Register(w) PROVE BindingInv'
    <3>1. granted' = granted
      BY <2>2 DEF Register, RegisterArrive, SerialExist, EmailFree, InsertUser,
              CreateCollection, BindDevice, history
    <3>2. \A v \in Workers : \/ job'[v] = job[v]
                              \/ job'[v].step \notin {"device", "remove", "reply"}
      BY <2>2, JobOfStep DEF Register, RegisterArrive, SerialExist, EmailFree, InsertUser,
              CreateCollection, BindDevice, Goto, Return, Idle, TypeOK, RegJob, RegSteps
    <3> QED
      BY <2>1, <3>1, <3>2
  <2>3. ASSUME NEW sid \in Uuids, NEW e \in Emails, NEW p \in Passwords, Login(sid, e, p)
        PROVE  BindingInv'
    BY <2>1, <2>3 DEF Login, history
  <2>4. ASSUME NEW w \in Workers, NEW t \in Uuids, NEW a \in Answer, TwoFAArrive(w, t, a)
        PROVE  BindingInv'
    BY <2>1, <2>4 DEF TwoFAArrive, history, TypeOK
  <2>5. ASSUME NEW w \in Workers, FindSession(w) PROVE BindingInv'
    BY <2>1, <2>5 DEF FindSession, Return, Idle, history, TypeOK
  <2>6. ASSUME NEW w \in Workers, FindUser(w) PROVE BindingInv'
    <3>1. CASE Return(w)
      BY <2>1, <2>6, <3>1 DEF FindUser, Return, Idle, history, TypeOK
    <3>2. CASE \E u \in Accounts(w) :
                 job' = [job EXCEPT ![w] = [step |-> "device", doc |-> job[w].doc,
                                            found |-> u, answer |-> job[w].answer]]
      <4>1. TwoFactorBinding'
        BY <2>0, <2>6, GrantedKept DEF FindUser, history, TwoFactorBinding
      <4>2. CheckedHolds'
        BY <2>0, <2>6, <3>2, CheckedKept
        DEF FindUser, Accounts, CheckedHolds, db, TypeOK
      <4> QED
        BY <4>1, <4>2
    <3> QED
      BY <2>6, <3>1, <3>2 DEF FindUser
  <2>7. ASSUME NEW w \in Workers, CheckAnswer(w) PROVE BindingInv'
    <3>1. CASE Return(w)
      BY <2>1, <2>7, <3>1 DEF CheckAnswer, Return, Idle, history, TypeOK
    <3>2. CASE Goto(w, "remove") /\ \E d \in Devices : Accepts(w, d)
      <4>1. TwoFactorBinding'
        BY <2>0, <2>7, GrantedKept DEF CheckAnswer, history, TwoFactorBinding
      <4>2. /\ job'[w].found = job[w].found /\ job'[w].doc = job[w].doc
            /\ job'[w].answer = job[w].answer
        BY <2>7, <3>2, JobOfStep DEF CheckAnswer, Goto, Known, TypeOK
      <4>3. CheckedHolds'
        BY <2>0, <2>7, <3>2, <4>2, CheckedKept
        DEF CheckAnswer, Goto, Accepts, CheckedHolds, db, TypeOK
      <4> QED
        BY <4>1, <4>3
    <3> QED
      BY <2>7, <3>1, <3>2 DEF CheckAnswer
  <2>8. ASSUME NEW w \in Workers, RemoveSession(w) PROVE BindingInv'
    <3>1. TwoFactorBinding'
      BY <2>0, <2>8, GrantedKept DEF RemoveSession, history, TwoFactorBinding
    <3>2. /\ job'[w].found = job[w].found /\ job'[w].doc = job[w].doc
          /\ job'[w].answer = job[w].answer
      BY <2>8, JobOfStep DEF RemoveSession, Goto, Known, TypeOK
    <3>3. CheckedHolds'
      BY <2>0, <2>8, <3>2, CheckedKept DEF RemoveSession, Goto, CheckedHolds, TypeOK
    <3> QED
      BY <3>1, <3>3
  <2>9. ASSUME NEW w \in Workers, Grant(w) PROVE BindingInv'
    <3>1. CheckedHolds'
      BY <2>0, <2>9, CheckedKept DEF Grant, Return, Idle, CheckedHolds, TypeOK
    <3>2. TwoFactorBinding'
      BY <2>0, <2>9, GrantedKept DEF Grant, db, CheckedHolds, TwoFactorBinding
    <3> QED
      BY <3>1, <3>2
  <2>10. ASSUME NEW t \in Uuids, Expire(t) PROVE BindingInv'
    BY <2>1, <2>10 DEF Expire, history
  <2>11. ASSUME NEW w \in Workers, Fail(w) PROVE BindingInv'
    BY <2>1, <2>11 DEF Fail, Return, Idle, history, TypeOK
  <2>12. CASE UNCHANGED vars
    BY <2>1, <2>12 DEF vars, history
  <2> QED
    BY <2>2, <2>3, <2>4, <2>5, <2>6, <2>7, <2>8, <2>9, <2>10, <2>11, <2>12 DEF Next, TwoFA
<1> QED
  BY <1>1, <1>2, Typing, PTL DEF Spec

(* What a handler has compared stays true until it answers.                 *)
LEMMA Checked == Spec => []CheckedHolds
<1>1. BindingInv => CheckedHolds  BY DEF BindingInv
<1>2. QED  BY <1>1, AlwaysBinding, PTL

(* Access is granted only with the password and the token of the account.   *)
THEOREM Binding == Spec => []TwoFactorBinding
<1>1. BindingInv => TwoFactorBinding  BY DEF BindingInv
<1>2. QED  BY <1>1, AlwaysBinding, PTL

-----------------------------------------------------------------------------
(* A step of another kind: it writes no account and lets no registration   *)
(* go on, though a handler may stop.                                       *)
Quiet ==
    /\ UNCHANGED <<user, serial, collections, overlap, acked>>
    /\ \A v \in Workers : job'[v].step \in RegSteps => job'[v] = job[v]

(* A registration goes from one call to the next.                          *)
Moves(w, s) ==
    /\ job[w] \in RegJob
    /\ job'[w].step = s /\ job'[w].reg = job[w].reg
    /\ OthersUnchanged(w)

LEMMA GotoMoves ==
    ASSUME TypeOK, NEW w \in Workers, job[w].step \in RegSteps, NEW s \in RegSteps, Goto(w, s)
    PROVE  Moves(w, s)
<1>1. job[w] \in RegJob  BY JobOfStep
<1>2. job'[w] = [job[w] EXCEPT !.step = s]  BY DEF Goto, TypeOK
<1>3. QED  BY <1>1, <1>2 DEF Moves, RegJob, OthersUnchanged, Goto, TypeOK

LEMMA ReturnQuiet ==
    ASSUME TypeOK, NEW w \in Workers, Return(w), NEW v \in Workers, job'[v].step \in RegSteps
    PROVE  job'[v] = job[v]
BY DEF Return, TypeOK, Idle, RegSteps

LEMMA ArriveEffect ==
    ASSUME TypeOK, NEW w \in Workers, NEW id \in Uuids, NEW e, NEW p, NEW d,
           RegisterArrive(w, id, e, p, d)
    PROVE  /\ job[w] = Idle /\ id \in unused /\ unused' = unused \ {id}
           /\ job'[w] = [step |-> "serial",
                         reg |-> [id |-> id, email |-> e, password |-> p, device |-> d]]
           /\ OthersUnchanged(w)
           /\ overlap \subseteq overlap'
           /\ \A v \in Workers : job[v].step \in RegSteps => {id, job[v].reg.id} \in overlap'
           /\ UNCHANGED <<user, serial, collections, session, live, acked, granted>>
BY DEF RegisterArrive, TypeOK, OthersUnchanged, db, Registering

LEMMA TwoFAQuiet ==
    ASSUME TypeOK, NEW w \in Workers, TwoFA(w)
    PROVE  Quiet /\ UNCHANGED unused
<1>1. ASSUME NEW t \in Uuids, NEW a \in Answer, TwoFAArrive(w, t, a)
      PROVE  Quiet /\ UNCHANGED unused
  BY <1>1 DEF TwoFAArrive, Quiet, db, history, TypeOK, RegSteps
<1>2. CASE FindSession(w)
  BY <1>2, ReturnQuiet DEF FindSession, Quiet, db, history, TypeOK, RegSteps
<1>3. CASE FindUser(w)
  BY <1>3, ReturnQuiet DEF FindUser, Quiet, db, history, TypeOK, RegSteps
<1>4. ASSUME Goto(w, "remove") \/ Goto(w, "reply"), job[w].step \in {"device", "remove"},
             NEW v \in Workers, job'[v].step \in RegSteps
      PROVE  job'[v] = job[v]
  <2>1. job[w] \in Known  BY <1>4, JobOfStep
  <2>2. CASE v = w  BY <1>4, <2>1, <2>2 DEF Goto, TypeOK, Known, RegSteps
  <2>3. CASE v # w  BY <1>4, <2>3 DEF Goto, TypeOK
  <2>4. QED  BY <2>2, <2>3
<1>5. CASE CheckAnswer(w)
  <2>1. \A v \in Workers : job'[v].step \in RegSteps => job'[v] = job[v]
    BY <1>4, <1>5, ReturnQuiet DEF CheckAnswer
  <2>2. QED  BY <1>5, <2>1 DEF CheckAnswer, Quiet, db, history
<1>6. CASE RemoveSession(w)
  <2>1. \A v \in Workers : job'[v].step \in RegSteps => job'[v] = job[v]
    BY <1>4, <1>6 DEF RemoveSession
  <2>2. QED  BY <1>6, <2>1 DEF RemoveSession, Quiet, history
<1>7. CASE Grant(w)  BY <1>7, ReturnQuiet DEF Grant, Quiet, db
<1>8. QED  BY <1>1, <1>2, <1>3, <1>5, <1>6, <1>7 DEF TwoFA

LEMMA OtherQuiet ==
    ASSUME TypeOK
    PROVE  /\ \A sid, e, p : Login(sid, e, p) => Quiet
           /\ \A t : Expire(t) => Quiet /\ UNCHANGED unused
           /\ \A w \in Workers : Fail(w) => Quiet /\ UNCHANGED <<unused, live>>
           /\ UNCHANGED vars => Quiet /\ UNCHANGED <<unused, live>>
BY ReturnQuiet DEF Login, Expire, Fail, Quiet, vars, db, history

(* What a step does to the registrations: the look for the token and the   *)
(* look for the address go on or return, the other calls write.            *)
LEMMA Steps ==
    ASSUME TypeOK, [Next]_vars
    PROVE  \/ Quiet
           \/ \E w \in Workers :
                \/ \E id \in Uuids, e \in Emails, p \in Passwords, d \in Devices :
                     RegisterArrive(w, id, e, p, d)
                \/ /\ Moves(w, "email") /\ serial[job[w].reg.device] = Printed
                   /\ UNCHANGED <<user, serial, collections, overlap, acked>>
                \/ /\ Moves(w, "insert")
                   /\ job[w].step = "email" /\ ~\E u \in user : u.email = job[w].reg.email
                   /\ UNCHANGED <<user, serial, collections, overlap, acked>>
                \/ /\ Moves(w, "collection") /\ InsertUser(w)
                \/ /\ Moves(w, "bind") /\ CreateCollection(w)
                \/ BindDevice(w)
<1>1. ASSUME NEW w \in Workers, SerialExist(w)
      PROVE  \/ Quiet
             \/ /\ Moves(w, "email") /\ serial[job[w].reg.device] = Printed
                /\ UNCHANGED <<user, serial, collections, overlap, acked>>
  <2>1. UNCHANGED <<user, serial, collections, overlap, acked>>
    BY <1>1 DEF SerialExist, db, history
  <2>2. CASE serial[job[w].reg.device] = Printed /\ Goto(w, "email")
    BY <1>1, <2>1, <2>2, GotoMoves DEF SerialExist, RegSteps
  <2>3. CASE Return(w)  BY <2>1, <2>3, ReturnQuiet DEF Quiet
  <2>4. QED  BY <1>1, <2>2, <2>3 DEF SerialExist
<1>2. ASSUME NEW w \in Workers, EmailFree(w)
      PROVE  \/ Quiet
             \/ /\ Moves(w, "insert")
                /\ job[w].step = "email" /\ ~\E u \in user : u.email = job[w].reg.email
                /\ UNCHANGED <<user, serial, collections, overlap, acked>>
  <2>1. UNCHANGED <<user, serial, collections, overlap, acked>>
    BY <1>2 DEF EmailFree, db, history
  <2>2. CASE ~(\E u \in user : u.email = job[w].reg.email) /\ Goto(w, "insert")
    BY <1>2, <2>1, <2>2, GotoMoves DEF EmailFree, RegSteps
  <2>3. CASE Return(w)  BY <2>1, <2>3, ReturnQuiet DEF Quiet
  <2>4. QED  BY <1>2, <2>2, <2>3 DEF EmailFree
<1>3. ASSUME NEW w \in Workers, InsertUser(w) PROVE Moves(w, "collection")
  BY <1>3, GotoMoves DEF InsertUser, RegSteps
<1>4. ASSUME NEW w \in Workers, CreateCollection(w) PROVE Moves(w, "bind")
  BY <1>4, GotoMoves DEF CreateCollection, RegSteps
<1>5. QED
  BY <1>1, <1>2, <1>3, <1>4, TwoFAQuiet, OtherQuiet DEF Next, Register

-----------------------------------------------------------------------------
(* Ids are drawn once: a registration's id is neither unused nor that of   *)
(* another one, and the two are in overlap; no token is bound to an id     *)
(* that a registration has still to bind.                                  *)
Drawn ==
    /\ \A v, w \in Workers :
         v # w /\ job[v].step \in RegSteps /\ job[w].step \in RegSteps =>
           /\ job[v].reg.id # job[w].reg.id
           /\ {job[v].reg.id, job[w].reg.id} \in overlap
    /\ \A w \in Workers : job[w].step \in RegSteps =>
           /\ job[w].reg.id \notin unused
           /\ \A d \in Devices : serial[d] # job[w].reg.id
    /\ \A d \in Devices : serial[d] \notin unused

LEMMA Shrinks == ASSUME TypeOK, [Next]_vars PROVE unused' \subseteq unused
BY TwoFAQuiet, OtherQuiet
DEF Next, Register, RegisterArrive, SerialExist, EmailFree, InsertUser, CreateCollection,
    BindDevice, Login

LEMMA DrawnInductive == TypeOK /\ Drawn /\ [Next]_vars => Drawn'
<1> SUFFICES ASSUME TypeOK, Drawn, [Next]_vars PROVE Drawn'
  OBVIOUS
<1>0. unused' \subseteq unused  BY Shrinks
<1>1. CASE Quiet  BY <1>0, <1>1 DEF Quiet, Drawn
<1>2. ASSUME NEW w \in Workers, NEW s \in RegSteps, Moves(w, s), UNCHANGED <<serial, overlap>>
      PROVE  Drawn'
  <2>1. job[w].step \in RegSteps  BY <1>2 DEF Moves, RegJob
  <2>2. \A v \in Workers : job'[v].step \in RegSteps =>
           job[v].step \in RegSteps /\ job'[v].reg = job[v].reg
    BY <1>2, <2>1 DEF Moves, OthersUnchanged
  <2>3. QED  BY <1>0, <1>2, <2>2 DEF Drawn
<1>3. ASSUME NEW w \in Workers, NEW id \in Uuids, NEW e \in Emails, NEW p \in Passwords,
             NEW d \in Devices, RegisterArrive(w, id, e, p, d)
      PROVE  Drawn'
  <2>1. /\ id \in unused /\ unused' = unused \ {id}
        /\ job'[w].step = "serial" /\ job'[w].reg.id = id
        /\ OthersUnchanged(w) /\ overlap \subseteq overlap'
        /\ \A v \in Workers : job[v].step \in RegSteps => {id, job[v].reg.id} \in overlap'
        /\ serial' = serial
    <3>1. job'[w] = [step |-> "serial",
                     reg |-> [id |-> id, email |-> e, password |-> p, device |-> d]]
      BY <1>3, ArriveEffect
    <3>2. QED  BY <1>3, <3>1, ArriveEffect
  <2>2. \A v \in Workers : v # w /\ job'[v].step \in RegSteps =>
           /\ job'[v].reg.id # id
           /\ {job'[v].reg.id, id} \in overlap'
    <3>1. SUFFICES ASSUME NEW v \in Workers, v # w, job'[v].step \in RegSteps
                   PROVE  job'[v].reg.id # id /\ {job'[v].reg.id, id} \in overlap'
      OBVIOUS
    <3>2. job'[v] = job[v]  BY <2>1, <3>1 DEF OthersUnchanged
    <3>3. {id, job[v].reg.id} = {job[v].reg.id, id}  OBVIOUS
    <3>4. QED  BY <2>1, <3>1, <3>2, <3>3 DEF Drawn
  <2>3. \A v, x \in Workers :
          v # x /\ job'[v].step \in RegSteps /\ job'[x].step \in RegSteps =>
            /\ job'[v].reg.id # job'[x].reg.id
            /\ {job'[v].reg.id, job'[x].reg.id} \in overlap'
    <3>1. SUFFICES ASSUME NEW v \in Workers, NEW x \in Workers, v # x,
                          job'[v].step \in RegSteps, job'[x].step \in RegSteps
                   PROVE  /\ job'[v].reg.id # job'[x].reg.id
                          /\ {job'[v].reg.id, job'[x].reg.id} \in overlap'
      OBVIOUS
    <3>2. CASE x = w  BY <2>1, <2>2, <3>1, <3>2
    <3>3. CASE v = w
      <4>1. {job'[v].reg.id, job'[x].reg.id} = {job'[x].reg.id, job'[v].reg.id}  OBVIOUS
      <4>2. QED  BY <2>1, <2>2, <3>1, <3>3, <4>1
    <3>4. CASE v # w /\ x # w  BY <2>1, <3>1, <3>4 DEF OthersUnchanged, Drawn
    <3>5. QED  BY <3>2, <3>3, <3>4
  <2>4. \A v \in Workers : job'[v].step \in RegSteps =>
           /\ job'[v].reg.id \notin unused'
           /\ \A x \in Devices : serial'[x] # job'[v].reg.id
    BY <2>1 DEF OthersUnchanged, Drawn
  <2>5. QED  BY <2>1, <2>3, <2>4 DEF Drawn
<1>4. ASSUME NEW w \in Workers, BindDevice(w) PROVE Drawn'
  <2>1. PICK r : r = job[w].reg  OBVIOUS
  <2>2. /\ job[w].step \in RegSteps /\ r.id \notin unused /\ r.device \in Devices
        /\ serial' = Rebind(r.device, r.id) /\ overlap' = overlap
    BY <1>4, <2>1, JobOfStep DEF BindDevice, RegSteps, Drawn, RegJob, Pending
  <2>3. \A v \in Workers : job'[v].step \in RegSteps => v # w /\ job'[v] = job[v]
    <3>1. Return(w)  BY <1>4 DEF BindDevice
    <3>2. job'[w].step \notin RegSteps  BY <3>1 DEF Return, TypeOK, Idle, RegSteps
    <3>3. QED  BY <3>1, <3>2, ReturnQuiet
  <2>4. \A d \in Devices : serial'[d] = serial[d] \/ serial'[d] = r.id
    BY <2>2 DEF Rebind, TypeOK
  <2>5. \A v \in Workers : job'[v].step \in RegSteps =>
           \A d \in Devices : serial'[d] # job'[v].reg.id
    <3>1. SUFFICES ASSUME NEW v \in Workers, job'[v].step \in RegSteps, NEW d \in Devices
                   PROVE  serial'[d] # job'[v].reg.id
      OBVIOUS
    <3>2. v # w /\ job'[v] = job[v] /\ job[v].step \in RegSteps  BY <2>3, <3>1
    <3>3. job[v].reg.id # job[w].reg.id  BY <2>2, <3>2 DEF Drawn
    <3>4. serial[d] # job[v].reg.id  BY <3>2 DEF Drawn
    <3>5. QED  BY <2>1, <2>4, <3>2, <3>3, <3>4
  <2>6. QED  BY <1>0, <2>2, <2>3, <2>4, <2>5 DEF Drawn
<1>5. QED
  BY <1>1, <1>2, <1>3, <1>4, Steps DEF RegSteps, InsertUser, CreateCollection, history

LEMMA AlwaysDrawn == Spec => [](TypeOK /\ Drawn)
<1>1. Init => Drawn
  BY PrintedIsNoUuid DEF Init, Drawn, Idle, RegSteps
<1>2. QED  BY <1>1, DrawnInductive, Typing, PTL DEF Spec

-----------------------------------------------------------------------------
(* A registration that has inserted its user finds it stored, and one that *)
(* has created its collection finds that.                                  *)
Written ==
    \A w \in Workers :
        /\ job[w].step \in {"collection", "bind"} => \E u \in user : u.id = job[w].reg.id
        /\ job[w].step = "bind" => job[w].reg.id \in collections

Complete == Written /\ BoundIsComplete

LEMMA CompleteInductive == TypeOK /\ Complete /\ [Next]_vars => Complete'
<1> SUFFICES ASSUME TypeOK, Complete, [Next]_vars PROVE Complete'
  OBVIOUS
<1>1. CASE Quiet
  <2>1. Written'
    <3>1. \A v \in Workers : job'[v].step \in {"collection", "bind"} => job'[v] = job[v]
      BY <1>1 DEF Quiet, RegSteps
    <3>2. QED  BY <1>1, <3>1 DEF Quiet, Complete, Written
  <2>2. QED  BY <1>1, <2>1 DEF Quiet, Complete, BoundIsComplete
<1>2. ASSUME NEW w \in Workers, OthersUnchanged(w), job'[w].step \in {"serial", "email", "insert"},
             UNCHANGED <<user, serial, collections>>
      PROVE  Complete'
  BY <1>2 DEF OthersUnchanged, Complete, Written, BoundIsComplete
<1>3. ASSUME NEW w \in Workers, Moves(w, "collection"), InsertUser(w) PROVE Complete'
  <2>1. /\ user' = user \cup {UserDoc(job[w].reg)} /\ UNCHANGED <<serial, collections>>
        /\ UserDoc(job[w].reg).id = job[w].reg.id
    BY <1>3 DEF InsertUser, UserDoc
  <2>2. QED  BY <1>3, <2>1 DEF Moves, OthersUnchanged, Complete, Written, BoundIsComplete
<1>4. ASSUME NEW w \in Workers, Moves(w, "bind"), CreateCollection(w) PROVE Complete'
  <2>1. /\ collections' = collections \cup {job[w].reg.id} /\ UNCHANGED <<serial, user>>
        /\ job[w].step = "collection"
    BY <1>4 DEF CreateCollection
  <2>2. QED  BY <1>4, <2>1 DEF Moves, OthersUnchanged, Complete, Written, BoundIsComplete
<1>5. ASSUME NEW w \in Workers, BindDevice(w) PROVE Complete'
  <2>1. /\ job[w].step = "bind" /\ UNCHANGED <<user, collections>>
        /\ serial' = Rebind(job[w].reg.device, job[w].reg.id)
    BY <1>5 DEF BindDevice
  <2>2. \A v \in Workers : job'[v].step \in RegSteps => job'[v] = job[v]
    BY <1>5, ReturnQuiet DEF BindDevice
  <2>3. \A d \in Devices : serial'[d] = serial[d] \/ serial'[d] = job[w].reg.id
    BY <2>1 DEF Rebind, TypeOK
  <2>4. QED  BY <2>1, <2>2, <2>3 DEF Complete, Written, BoundIsComplete, RegSteps
<1>6. ASSUME NEW w \in Workers, NEW id \in Uuids, NEW e \in Emails, NEW p \in Passwords,
             NEW d \in Devices, RegisterArrive(w, id, e, p, d)
      PROVE  Complete'
  <2>1. job'[w] = [step |-> "serial",
                   reg |-> [id |-> id, email |-> e, password |-> p, device |-> d]]
    BY <1>6, ArriveEffect
  <2>2. OthersUnchanged(w) /\ UNCHANGED <<user, serial, collections>>
    BY <1>6, ArriveEffect
  <2>3. job'[w].step = "serial"  BY <2>1
  <2>4. QED  BY <1>2, <2>2, <2>3
<1>7. QED  BY <1>1, <1>2, <1>3, <1>4, <1>5, <1>6, Steps DEF Moves

(* A token is bound to a user that is stored and has a collection, however *)
(* registrations interleave or stop: the binding is the last of the three  *)
(* writes (register.py:41-46).                                             *)
THEOREM BoundComplete == Spec => []BoundIsComplete
<1>1. Init => Complete
  BY DEF Init, Complete, Written, BoundIsComplete, Idle
<1>2. Complete => BoundIsComplete  BY DEF Complete
<1>3. QED  BY <1>1, <1>2, CompleteInductive, Typing, PTL DEF Spec

-----------------------------------------------------------------------------
(* A registration whose address was free knows of all that have taken it   *)
(* since: they ran at the same time.                                       *)
LookedUp ==
    \A w \in Workers : job[w].step = "insert" =>
        \A u \in user : u.email = job[w].reg.email => {u.id, job[w].reg.id} \in overlap

EmailInv == LookedUp /\ EmailUniqueUnlessRaced

LEMMA EmailInductive == TypeOK /\ Drawn /\ EmailInv /\ [Next]_vars => EmailInv'
<1> SUFFICES ASSUME TypeOK, Drawn, EmailInv, [Next]_vars PROVE EmailInv'
  OBVIOUS
<1>1. CASE Quiet
  <2>1. \A v \in Workers : job'[v].step = "insert" => job'[v] = job[v]
    BY <1>1 DEF Quiet, RegSteps
  <2>2. QED  BY <1>1, <2>1 DEF Quiet, EmailInv, LookedUp, EmailUniqueUnlessRaced
<1>2. ASSUME NEW w \in Workers, OthersUnchanged(w), user' = user, overlap \subseteq overlap',
             \/ job'[w].step # "insert"
             \/ /\ job'[w].reg = job[w].reg
                /\ ~\E u \in user : u.email = job[w].reg.email
      PROVE  EmailInv'
  <2>1. LookedUp'  BY <1>2 DEF OthersUnchanged, EmailInv, LookedUp
  <2>2. EmailUniqueUnlessRaced'  BY <1>2 DEF EmailInv, EmailUniqueUnlessRaced
  <2>3. QED  BY <2>1, <2>2 DEF EmailInv
<1>3. ASSUME NEW w \in Workers, Moves(w, "collection"), InsertUser(w) PROVE EmailInv'
  <2>1. PICK r : r = job[w].reg  OBVIOUS
  <2>2. PICK n : n = UserDoc(r)  OBVIOUS
  <2>3. /\ job[w].step = "insert" /\ user' = user \cup {n} /\ overlap' = overlap
        /\ n.id = r.id /\ n.email = r.email
    BY <1>3, <2>1, <2>2 DEF InsertUser, UserDoc, history
  <2>4. \A v \in Workers : job'[v].step = "insert" => v # w /\ job'[v] = job[v]
    BY <1>3 DEF Moves, OthersUnchanged
  <2>5. LookedUp'
    <3>1. SUFFICES ASSUME NEW v \in Workers, job'[v].step = "insert", NEW u \in user',
                          u.email = job'[v].reg.email
                   PROVE  {u.id, job'[v].reg.id} \in overlap'
      BY DEF LookedUp
    <3>2. CASE u \in user  BY <2>3, <2>4, <3>1, <3>2 DEF EmailInv, LookedUp
    <3>3. CASE u = n
      <4>1. {job[w].reg.id, job[v].reg.id} \in overlap
        BY <2>3, <2>4, <3>1 DEF Drawn, RegSteps
      <4>2. QED  BY <2>1, <2>3, <2>4, <3>1, <3>3, <4>1
    <3>4. QED  BY <2>3, <3>1, <3>2, <3>3
  <2>6. EmailUniqueUnlessRaced'
    <3>1. SUFFICES ASSUME NEW u \in user', NEW v \in user', u.email = v.email, u # v
                   PROVE  {u.id, v.id} \in overlap'
      BY DEF EmailUniqueUnlessRaced
    <3>2. \A x \in user : x.email = n.email => {x.id, n.id} \in overlap
      BY <2>1, <2>3 DEF EmailInv, LookedUp
    <3>3. CASE u \in user /\ v \in user
      BY <2>3, <3>1, <3>3 DEF EmailInv, EmailUniqueUnlessRaced
    <3>4. CASE v = n /\ u \in user  BY <2>3, <3>1, <3>2, <3>4
    <3>5. CASE u = n /\ v \in user
      <4>1. {u.id, v.id} = {v.id, u.id}  OBVIOUS
      <4>2. QED  BY <2>3, <3>1, <3>2, <3>5, <4>1
    <3>6. QED  BY <2>3, <3>1, <3>3, <3>4, <3>5
  <2>7. QED  BY <2>5, <2>6 DEF EmailInv
<1>4. ASSUME NEW w \in Workers, BindDevice(w) PROVE EmailInv'
  <2>1. UNCHANGED <<user, overlap>>  BY <1>4 DEF BindDevice
  <2>2. \A v \in Workers : job'[v].step = "insert" => job'[v] = job[v]
    BY <1>4, ReturnQuiet DEF BindDevice, RegSteps
  <2>3. QED  BY <2>1, <2>2 DEF EmailInv, LookedUp, EmailUniqueUnlessRaced
<1>5. ASSUME NEW w \in Workers, NEW id \in Uuids, NEW e \in Emails, NEW p \in Passwords,
             NEW d \in Devices, RegisterArrive(w, id, e, p, d)
      PROVE  EmailInv'
  <2>1. job'[w] = [step |-> "serial",
                   reg |-> [id |-> id, email |-> e, password |-> p, device |-> d]]
    BY <1>5, ArriveEffect
  <2>2. OthersUnchanged(w) /\ user' = user /\ overlap \subseteq overlap'
    BY <1>5, ArriveEffect
  <2>3. job'[w].step # "insert"  BY <2>1
  <2>4. QED  BY <1>2, <2>2, <2>3
<1>6. QED
  BY <1>1, <1>2, <1>3, <1>4, <1>5, Steps DEF Moves, CreateCollection, history

(* Two accounts share an address only when their registrations ran at the  *)
(* same time, between the look and the insertion (register.py:38-41).      *)
THEOREM EmailUnique == Spec => []EmailUniqueUnlessRaced
<1>1. Init => EmailInv
  BY DEF Init, EmailInv, LookedUp, EmailUniqueUnlessRaced
<1>2. EmailInv => EmailUniqueUnlessRaced  BY DEF EmailInv
<1>3. QED  BY <1>1, <1>2, EmailInductive, AlwaysDrawn, PTL DEF Spec

-----------------------------------------------------------------------------
(* Whoever has taken the token of a registration since it looked for it    *)
(* ran at the same time.                                                   *)
Clear ==
    \A w \in Workers : job[w].step \in {"email", "insert", "collection", "bind"} =>
        \/ serial[job[w].reg.device] = Printed
        \/ {serial[job[w].reg.device], job[w].reg.id} \in overlap

DeviceInv == Clear /\ DeviceUnlessRaced

LEMMA DeviceInductive == TypeOK /\ Drawn /\ DeviceInv /\ [Next]_vars => DeviceInv'
<1> SUFFICES ASSUME TypeOK, Drawn, DeviceInv, [Next]_vars PROVE DeviceInv'
  OBVIOUS
<1>1. CASE Quiet
  <2>1. \A v \in Workers : job'[v].step \in {"email", "insert", "collection", "bind"} =>
           job'[v] = job[v]
    BY <1>1 DEF Quiet, RegSteps
  <2>2. QED  BY <1>1, <2>1 DEF Quiet, DeviceInv, Clear, DeviceUnlessRaced
<1>2. ASSUME NEW w \in Workers, OthersUnchanged(w), UNCHANGED <<serial, acked>>,
             overlap \subseteq overlap',
             \/ job'[w].step = "serial"
             \/ /\ job'[w].reg = job[w].reg
                /\ \/ serial[job[w].reg.device] = Printed
                   \/ job[w].step \in {"email", "insert", "collection", "bind"}
      PROVE  DeviceInv'
  <2>1. Clear'  BY <1>2 DEF OthersUnchanged, DeviceInv, Clear
  <2>2. DeviceUnlessRaced'  BY <1>2 DEF DeviceInv, DeviceUnlessRaced
  <2>3. QED  BY <2>1, <2>2 DEF DeviceInv
<1>3. ASSUME NEW w \in Workers, BindDevice(w) PROVE DeviceInv'
  <2>1. PICK r : r = job[w].reg  OBVIOUS
  <2>2. /\ job[w].step = "bind" /\ r \in Pending /\ overlap' = overlap
        /\ serial' = Rebind(r.device, r.id) /\ acked' = acked \cup {r}
    BY <1>3, <2>1, JobOfStep DEF BindDevice, RegJob, RegSteps
  <2>3. \A v \in Workers : job'[v].step \in {"email", "insert", "collection", "bind"} =>
           v # w /\ job'[v] = job[v] /\ job[v] \in RegJob
    <3>1. Return(w)  BY <1>3 DEF BindDevice
    <3>2. job'[w].step \notin RegSteps  BY <3>1 DEF Return, TypeOK, Idle, RegSteps
    <3>3. QED  BY <3>1, <3>2, ReturnQuiet, JobOfStep DEF RegSteps
  <2>4. CASE serial[r.device] # Printed
    <3>1. serial' = serial  BY <2>2, <2>4 DEF Rebind
    <3>2. Clear'  BY <2>2, <2>3, <3>1 DEF DeviceInv, Clear
    <3>3. {serial[r.device], r.id} \in overlap
      BY <2>1, <2>2, <2>4 DEF DeviceInv, Clear
    <3>4. DeviceUnlessRaced'  BY <2>2, <3>1, <3>3 DEF DeviceInv, DeviceUnlessRaced
    <3>5. QED  BY <3>2, <3>4 DEF DeviceInv
  <2>5. CASE serial[r.device] = Printed
    <3>1. /\ r.device \in Devices /\ serial'[r.device] = r.id
          /\ \A d \in Devices : d # r.device => serial'[d] = serial[d]
      BY <2>2, <2>5 DEF Rebind, TypeOK, Pending
    <3>2. Clear'
      <4>1. SUFFICES ASSUME NEW v \in Workers,
                            job'[v].step \in {"email", "insert", "collection", "bind"}
                     PROVE  \/ serial'[job[v].reg.device] = Printed
                            \/ {serial'[job[v].reg.device], job[v].reg.id} \in overlap
        BY <2>2, <2>3 DEF Clear
      <4>2. {r.id, job[v].reg.id} \in overlap
        BY <2>1, <2>2, <2>3, <4>1 DEF Drawn, RegSteps
      <4>3. job[v].reg.device \in Devices  BY <2>3, <4>1 DEF RegJob, Pending
      <4>4. CASE job[v].reg.device = r.device  BY <3>1, <4>2, <4>4
      <4>5. CASE job[v].reg.device # r.device
        BY <2>3, <3>1, <4>1, <4>3, <4>5 DEF DeviceInv, Clear
      <4>6. QED  BY <4>4, <4>5
    <3>3. DeviceUnlessRaced'
      <4>1. SUFFICES ASSUME NEW a \in acked
                     PROVE  \/ serial'[a.device] = a.id
                            \/ {serial'[a.device], a.id} \in overlap
        BY <2>2, <3>1 DEF DeviceUnlessRaced
      <4>2. a.device \in Devices /\ a.id \in Uuids  BY DEF TypeOK, Pending
      <4>3. serial[a.device] # Printed
        <5>1. {Printed, a.id} \notin overlap  BY PrintedIsNoUuid DEF TypeOK
        <5>2. a.id # Printed  BY <4>2, PrintedIsNoUuid
        <5>3. serial[a.device] = a.id \/ {serial[a.device], a.id} \in overlap
          BY DEF DeviceInv, DeviceUnlessRaced
        <5>4. QED  BY <5>1, <5>2, <5>3
      <4>4. QED  BY <2>5, <3>1, <4>2, <4>3 DEF DeviceInv, DeviceUnlessRaced
    <3>4. QED  BY <3>2, <3>3 DEF DeviceInv
  <2>6. QED  BY <2>4, <2>5
<1>4. ASSUME NEW w \in Workers, NEW id \in Uuids, NEW e \in Emails, NEW p \in Passwords,
             NEW d \in Devices, RegisterArrive(w, id, e, p, d)
      PROVE  DeviceInv'
  <2>1. job'[w] = [step |-> "serial",
                   reg |-> [id |-> id, email |-> e, password |-> p, device |-> d]]
    BY <1>4, ArriveEffect
  <2>2. OthersUnchanged(w) /\ UNCHANGED <<serial, acked>> /\ overlap \subseteq overlap'
    BY <1>4, ArriveEffect
  <2>3. job'[w].step = "serial"  BY <2>1
  <2>4. QED  BY <1>2, <2>2, <2>3
<1>5. ASSUME NEW w \in Workers, NEW s \in {"insert", "collection", "bind"}, Moves(w, s),
             job[w].step \in {"email", "insert", "collection"},
             UNCHANGED <<serial, overlap, acked>>
      PROVE  DeviceInv'
  BY <1>2, <1>5 DEF Moves
<1>6. ASSUME NEW w \in Workers, Moves(w, "email"), serial[job[w].reg.device] = Printed,
             UNCHANGED <<serial, overlap, acked>>
      PROVE  DeviceInv'
  BY <1>2, <1>6 DEF Moves
<1>7. QED
  BY <1>1, <1>3, <1>4, <1>5, <1>6, Steps DEF InsertUser, CreateCollection, history

(* A registration answered 200 owns its token, unless the one that owns it *)
(* ran at the same time (register.py:35-46).                               *)
THEOREM DeviceOwned == Spec => []DeviceUnlessRaced
<1>1. Init => DeviceInv
  BY DEF Init, DeviceInv, Clear, DeviceUnlessRaced, Idle
<1>2. DeviceInv => DeviceUnlessRaced  BY DEF DeviceInv
<1>3. QED  BY <1>1, <1>2, DeviceInductive, AlwaysDrawn, PTL DEF Spec

-----------------------------------------------------------------------------
(* The id of a registration is in no token, and in no collection before it *)
(* creates its own; an unused id is in neither.                            *)
Fresh ==
    /\ \A w \in Workers : job[w].step \in {"serial", "email", "insert", "collection"} =>
           job[w].reg.id \notin collections \cup live
    /\ \A u \in unused : u \notin collections \cup live

FullInv == Fresh /\ FullTokenOnlyGranted

LEMMA FullInductive ==
    TypeOK /\ Drawn /\ Complete /\ CheckedHolds /\ FullInv /\ [Next]_vars => FullInv'
<1> SUFFICES ASSUME TypeOK, Drawn, Complete, CheckedHolds, FullInv, [Next]_vars
             PROVE  FullInv'
  OBVIOUS
<1>0. unused' \subseteq unused  BY Shrinks
<1>1. ASSUME \A v \in Workers : job'[v].step \in RegSteps => job'[v] = job[v],
             collections' = collections, granted \subseteq granted', live' \subseteq live
      PROVE  FullInv'
  <2>1. \A v \in Workers : job'[v].step \in {"serial", "email", "insert", "collection"} =>
           job'[v] = job[v]
    BY <1>1 DEF RegSteps
  <2>2. Fresh'  BY <1>0, <1>1, <2>1 DEF FullInv, Fresh
  <2>3. FullTokenOnlyGranted'  BY <1>1 DEF FullInv, FullTokenOnlyGranted
  <2>4. QED  BY <2>2, <2>3 DEF FullInv
<1>2. ASSUME NEW w \in Workers, NEW id \in Uuids, NEW e \in Emails, NEW p \in Passwords,
             NEW d \in Devices, RegisterArrive(w, id, e, p, d)
      PROVE  FullInv'
  <2>1. job'[w] = [step |-> "serial",
                   reg |-> [id |-> id, email |-> e, password |-> p, device |-> d]]
    BY <1>2, ArriveEffect
  <2>2. /\ OthersUnchanged(w) /\ id \in unused
        /\ UNCHANGED <<collections, live, granted>>
    BY <1>2, ArriveEffect
  <2>3. job'[w].reg.id = id  BY <2>1
  <2>4. Fresh'  BY <1>0, <2>2, <2>3 DEF OthersUnchanged, FullInv, Fresh
  <2>5. QED  BY <2>2, <2>4 DEF FullInv, FullTokenOnlyGranted
<1>3. ASSUME NEW w \in Workers, SerialExist(w) \/ EmailFree(w) \/ InsertUser(w) PROVE FullInv'
  <2>1. UNCHANGED <<collections, live, granted>>
    BY <1>3 DEF SerialExist, EmailFree, InsertUser, db, history
  <2>2. CASE Return(w)  BY <1>1, <2>1, <2>2, ReturnQuiet
  <2>3. ASSUME NEW s \in {"email", "insert", "collection"}, Goto(w, s),
               job[w].step \in {"serial", "email", "insert"}
        PROVE  FullInv'
    <3>1. Moves(w, s)  BY <2>3, GotoMoves DEF RegSteps
    <3>2. Fresh'  BY <1>0, <2>1, <2>3, <3>1 DEF Moves, OthersUnchanged, FullInv, Fresh
    <3>3. QED  BY <2>1, <3>2 DEF FullInv, FullTokenOnlyGranted
  <2>4. QED  BY <1>3, <2>2, <2>3 DEF SerialExist, EmailFree, InsertUser
<1>4. ASSUME NEW w \in Workers, CreateCollection(w) PROVE FullInv'
  <2>1. Moves(w, "bind")  BY <1>4, GotoMoves DEF CreateCollection, RegSteps
  <2>2. PICK r : r = job[w].reg.id  OBVIOUS
  <2>3. /\ job[w].step = "collection" /\ collections' = collections \cup {r}
        /\ UNCHANGED <<live, granted>>
    BY <1>4, <2>2 DEF CreateCollection, history
  <2>4. r \notin live /\ r \notin unused
    BY <2>2, <2>3 DEF FullInv, Fresh, Drawn, RegSteps
  <2>5. \A v \in Workers : job'[v].step \in {"serial", "email", "insert", "collection"} =>
           job'[v] = job[v] /\ job[v].reg.id # r
    BY <2>1, <2>2, <2>3 DEF Moves, OthersUnchanged, Drawn, RegSteps
  <2>6. Fresh'  BY <1>0, <2>3, <2>4, <2>5 DEF FullInv, Fresh
  <2>7. FullTokenOnlyGranted'  BY <2>3, <2>4 DEF FullInv, FullTokenOnlyGranted
  <2>8. QED  BY <2>6, <2>7 DEF FullInv
<1>5. ASSUME NEW w \in Workers, BindDevice(w) PROVE FullInv'
  BY <1>1, <1>5, ReturnQuiet DEF BindDevice
<1>6. ASSUME NEW sid \in Uuids, NEW e \in Emails, NEW p \in Passwords, Login(sid, e, p)
      PROVE  FullInv'
  <2>1. /\ sid \in unused /\ unused' = unused \ {sid} /\ live' = live \cup {sid}
        /\ UNCHANGED <<collections, job, granted>>
    BY <1>6 DEF Login, history
  <2>2. sid \notin collections  BY <2>1 DEF FullInv, Fresh
  <2>3. \A v \in Workers : job[v].step \in RegSteps => job[v].reg.id # sid
    BY <2>1 DEF Drawn
  <2>4. Fresh'  BY <2>1, <2>3 DEF FullInv, Fresh, RegSteps
  <2>5. FullTokenOnlyGranted'  BY <2>1, <2>2 DEF FullInv, FullTokenOnlyGranted
  <2>6. QED  BY <2>4, <2>5 DEF FullInv
<1>7. ASSUME NEW w \in Workers, TwoFA(w), ~Grant(w) PROVE FullInv'
  <2>1. UNCHANGED <<live, granted>>
    BY <1>7 DEF TwoFA, TwoFAArrive, FindSession, FindUser, CheckAnswer, RemoveSession, history
  <2>2. QED  BY <1>1, <1>7, <2>1, TwoFAQuiet DEF Quiet
<1>8. ASSUME NEW w \in Workers, Grant(w) PROVE FullInv'
  <2>1. PICK f : f = job[w].found  OBVIOUS
  <2>2. PICK g : g = [user |-> f, doc |-> job[w].doc, answer |-> job[w].answer]  OBVIOUS
  <2>3. /\ job[w].step = "reply" /\ live' = live \cup {f.id} /\ granted' = granted \cup {g}
        /\ UNCHANGED <<collections, unused>>
    BY <1>8, <2>1, <2>2 DEF Grant, db
  <2>4. Quiet  BY <1>8, TwoFAQuiet DEF TwoFA
  <2>5. f.id \in collections
    <3>1. job[w].answer.device \in Devices /\ f.id \in Uuids
      BY <2>1, <2>3, JobOfStep DEF Known, Answer, User
    <3>2. serial[job[w].answer.device] = f.id  BY <2>1, <2>3 DEF CheckedHolds
    <3>3. QED  BY <3>1, <3>2, PrintedIsNoUuid DEF Complete, BoundIsComplete
  <2>6. Fresh'
    <3>1. \A v \in Workers : job'[v].step \in {"serial", "email", "insert", "collection"} =>
             job'[v] = job[v]
      BY <2>4 DEF Quiet, RegSteps
    <3>2. QED  BY <2>3, <2>5, <3>1 DEF FullInv, Fresh
  <2>7. FullTokenOnlyGranted'
    <3>1. g \in granted' /\ g.user.id = f.id  BY <2>2, <2>3
    <3>2. QED  BY <2>3, <3>1 DEF FullInv, FullTokenOnlyGranted
  <2>8. QED  BY <2>6, <2>7 DEF FullInv
<1>9. ASSUME NEW t \in Uuids, Expire(t) PROVE FullInv'
  BY <1>1, <1>9, OtherQuiet DEF Expire, Quiet, history
<1>10. ASSUME NEW w \in Workers, Fail(w) PROVE FullInv'
  BY <1>1, <1>10, OtherQuiet DEF Fail, Quiet, history
<1>11. CASE UNCHANGED vars
  BY <1>1, <1>11, OtherQuiet DEF vars, Quiet, history
<1>12. QED
  BY <1>2, <1>3, <1>4, <1>5, <1>6, <1>7, <1>8, <1>9, <1>10, <1>11 DEF Next, Register, TwoFA

(* A token that names a user's collection was granted by a second step: the*)
(* id a first step draws is never that of a user (login.py:30, 95,         *)
(* controll_data.py:12).                                                   *)
THEOREM FullTokens == Spec => []FullTokenOnlyGranted
<1>1. Init => FullInv /\ Complete
  BY DEF Init, FullInv, Fresh, FullTokenOnlyGranted, Complete, Written, BoundIsComplete, Idle
<1>2. FullInv => FullTokenOnlyGranted  BY DEF FullInv
<1>3. QED
  BY <1>1, <1>2, FullInductive, CompleteInductive, AlwaysDrawn, Checked, PTL DEF Spec

-----------------------------------------------------------------------------
(* Every step of the server binds a free token to an id that no token is   *)
(* bound to, gives an access along a binding, or does neither.             *)
LEMMA StepEnrols ==
    ASSUME TypeOK, Drawn, CheckedHolds, [Next]_vars
    PROVE  [Abstract!Next]_(Abstract!vars)
<1> DEFINE signedIn == {<<g.user.id, g.answer.device>> : g \in granted}
<1>1. ASSUME UNCHANGED <<serial, granted>> PROVE UNCHANGED Abstract!vars
  BY <1>1 DEF Abstract!vars
<1>2. ASSUME NEW w \in Workers, BindDevice(w) PROVE [Abstract!Next]_(Abstract!vars)
  <2>1. PICK r : r = job[w].reg  OBVIOUS
  <2>2. /\ r \in Pending /\ serial' = Rebind(r.device, r.id) /\ granted' = granted
        /\ \A d \in Devices : serial[d] # r.id
    BY <1>2, <2>1, JobOfStep DEF BindDevice, RegJob, RegSteps, Drawn
  <2>3. CASE serial[r.device] # Printed
    BY <1>1, <2>2, <2>3 DEF Rebind
  <2>4. CASE serial[r.device] = Printed
    <3>1. Abstract!Bind(r.device, r.id)
      BY <2>2, <2>4 DEF Abstract!Bind, Rebind
    <3>2. QED  BY <2>2, <3>1 DEF Abstract!Next, Pending
  <2>5. QED  BY <2>3, <2>4
<1>3. ASSUME NEW w \in Workers, Grant(w) PROVE [Abstract!Next]_(Abstract!vars)
  <2>1. PICK u, d : u = job[w].found.id /\ d = job[w].answer.device  OBVIOUS
  <2>2. job[w].step = "reply" /\ serial' = serial  BY <1>3 DEF Grant, db
  <2>3. u \in Uuids /\ d \in Devices
    BY <2>1, <2>2, JobOfStep DEF Known, Answer, User
  <2>4. serial[d] = u  BY <2>1, <2>2 DEF CheckedHolds
  <2>5. PICK h : h = [user |-> job[w].found, doc |-> job[w].doc, answer |-> job[w].answer]
    OBVIOUS
  <2>6. granted' = granted \cup {h} /\ h.user.id = u /\ h.answer.device = d
    BY <1>3, <2>1, <2>5 DEF Grant
  <2>7. {<<g.user.id, g.answer.device>> : g \in granted'} = signedIn \cup {<<u, d>>}
    BY <2>6
  <2>8. Abstract!SignIn(d, u)
    BY <2>2, <2>4, <2>7 DEF Abstract!SignIn
  <2>9. QED  BY <2>3, <2>8 DEF Abstract!Next
<1>4. QED
  BY <1>1, <1>2, <1>3 DEF Next, Register, TwoFA, RegisterArrive, SerialExist, EmailFree,
     InsertUser, CreateCollection, Login, TwoFAArrive, FindSession, FindUser, CheckAnswer,
     RemoveSession, Expire, Fail, vars, db, history

(* The server implements the enrolment it promises (register.py:45,        *)
(* login.py:66-99).                                                        *)
THEOREM EnrolmentImplemented == Spec => EnrolmentKept
<1>1. Init => Abstract!Init  BY DEF Init, Abstract!Init
<1>2. QED
  BY <1>1, StepEnrols, AlwaysDrawn, Checked, PTL DEF Spec, EnrolmentKept, Abstract!Spec

-----------------------------------------------------------------------------
(* The handlers that have read session s and may still answer with an      *)
(* access.  Nobody joins them once the session is removed, and each leaves *)
(* with its answer.                                                        *)
Read == {"user", "device", "remove", "reply"}
Holding(s) == {w \in Workers : job[w].step \in Read /\ job[w].doc.id = s}

SessionIds ==
    /\ \A d \in session : d.id \notin unused
    /\ \A w \in Workers : job[w].step \in Read => job[w].doc.id \notin unused
    /\ \A w \in Workers : job[w].step = "reply" => \A d \in session : d.id # job[w].doc.id

Counted ==
    /\ \A s \in Uuids : s \in unused \/ (\E d \in session : d.id = s) => mints[s] = 0
    /\ \A s \in Uuids : mints[s] + Cardinality(Holding(s)) <= Cardinality(Workers)

ReplayInv == SessionIds /\ Counted

LEMMA HoldingFinite ==
    ASSUME NEW s
    PROVE  /\ IsFiniteSet(Holding(s)) /\ Cardinality(Holding(s)) \in Nat
           /\ Cardinality(Workers) \in Nat /\ Cardinality(Holding(s)) <= Cardinality(Workers)
<1>1. Holding(s) \subseteq Workers  BY DEF Holding
<1>2. QED  BY <1>1, WorkersFinite, FS_Subset, FS_CardinalityType

(* A handler that holds a session after the step held it before.           *)
LEMMA HoldersLeave ==
    ASSUME TypeOK, ReplayInv, unused' \subseteq unused, mints' = mints, session' \subseteq session,
           \A w \in Workers : job'[w].step \in Read =>
               /\ job[w].step \in Read /\ job'[w].doc.id = job[w].doc.id
               /\ job'[w].step = "reply" => \/ job[w].step = "reply"
                                            \/ \A d \in session' : d.id # job[w].doc.id
    PROVE  ReplayInv'
<1>1. SessionIds'  BY DEF ReplayInv, SessionIds, Read
<1>2. ASSUME NEW s \in Uuids
      PROVE  mints'[s] + Cardinality(Holding(s)') <= Cardinality(Workers)
  <2>1. Holding(s)' \subseteq Holding(s)  BY DEF Holding
  <2>2. /\ Cardinality(Holding(s)') <= Cardinality(Holding(s))
        /\ Cardinality(Holding(s)') \in Nat
    BY <2>1, HoldingFinite, FS_Subset, FS_CardinalityType
  <2>3. mints[s] \in Nat  BY DEF TypeOK
  <2>4. mints[s] + Cardinality(Holding(s)) <= Cardinality(Workers)  BY DEF ReplayInv, Counted
  <2>5. QED  BY <2>2, <2>3, <2>4, HoldingFinite
<1>3. Counted'  BY <1>2 DEF ReplayInv, Counted
<1>4. QED  BY <1>1, <1>3 DEF ReplayInv

LEMMA ReplayInductive == TypeOK /\ ReplayInv /\ [Next]_vars => ReplayInv'
<1> SUFFICES ASSUME TypeOK, ReplayInv, [Next]_vars PROVE ReplayInv'
  OBVIOUS
<1>0. unused' \subseteq unused  BY Shrinks
<1>1. ASSUME UNCHANGED <<session, mints>>, NEW w \in Workers, OthersUnchanged(w),
             \/ job'[w].step \notin Read
             \/ /\ job[w].step \in Read /\ job'[w].doc = job[w].doc /\ job'[w].step # "reply"
      PROVE  ReplayInv'
  BY <1>0, <1>1, HoldersLeave DEF OthersUnchanged
<1>2. ASSUME NEW w \in Workers, Return(w), UNCHANGED <<session, mints>> PROVE ReplayInv'
  BY <1>1, <1>2 DEF Return, OthersUnchanged, Read, Idle, TypeOK
<1>3. ASSUME NEW w \in Workers, Register(w) PROVE ReplayInv'
  <2>1. UNCHANGED <<session, mints>>
    BY <1>3 DEF Register, RegisterArrive, SerialExist, EmailFree, InsertUser,
            CreateCollection, BindDevice, db, history
  <2>2. OthersUnchanged(w) /\ job'[w].step \notin Read
    BY <1>3, JobOfStep
    DEF Register, RegisterArrive, SerialExist, EmailFree, InsertUser, CreateCollection,
        BindDevice, Goto, Return, Idle, OthersUnchanged, Read, RegJob, RegSteps, TypeOK
  <2>3. QED  BY <1>1, <2>1, <2>2
<1>4. ASSUME NEW sid \in Uuids, NEW e \in Emails, NEW p \in Passwords, Login(sid, e, p)
      PROVE  ReplayInv'
  <2>1. PICK n : n = [id |-> sid, email |-> e, password |-> p]  OBVIOUS
  <2>2. /\ sid \in unused /\ unused' = unused \ {sid} /\ session' = session \cup {n}
        /\ n.id = sid /\ UNCHANGED <<job, mints>>
    BY <1>4, <2>1 DEF Login, history
  <2>3. SessionIds'  BY <2>2 DEF ReplayInv, SessionIds, Read
  <2>4. \A s : Holding(s)' = Holding(s)  BY <2>2 DEF Holding
  <2>5. Counted'  BY <2>2, <2>4 DEF ReplayInv, Counted
  <2>6. QED  BY <2>3, <2>5 DEF ReplayInv
<1>5. ASSUME NEW w \in Workers, NEW t \in Uuids, NEW a \in Answer, TwoFAArrive(w, t, a)
      PROVE  ReplayInv'
  BY <1>1, <1>5 DEF TwoFAArrive, db, history, OthersUnchanged, Read, TypeOK
<1>6. ASSUME NEW w \in Workers, FindSession(w) PROVE ReplayInv'
  <2>1. UNCHANGED <<session, mints, unused>>  BY <1>6 DEF FindSession, db, history
  <2>2. CASE Return(w)  BY <1>2, <2>1, <2>2
  <2>3. ASSUME NEW d \in Sessions(w),
               job' = [job EXCEPT ![w] = [step |-> "user", doc |-> d, answer |-> job[w].answer]]
        PROVE  ReplayInv'
    <3>1. d \in session /\ d.id \in Uuids  BY DEF Sessions, TypeOK, User
    <3>2. job'[w].step = "user" /\ job'[w].doc = d /\ OthersUnchanged(w)
      BY <2>3 DEF TypeOK, OthersUnchanged
    <3>3. SessionIds'
      BY <2>1, <3>1, <3>2 DEF OthersUnchanged, ReplayInv, SessionIds, Read
    <3>4. ASSUME NEW s \in Uuids PROVE mints[s] + Cardinality(Holding(s)') <= Cardinality(Workers)
      <4>1. CASE s = d.id
        <5>1. mints[s] = 0  BY <3>1, <4>1 DEF ReplayInv, Counted
        <5>2. Holding(s)' \subseteq Workers  BY DEF Holding
        <5>3. QED  BY <5>1, <5>2, WorkersFinite, FS_Subset, FS_CardinalityType
      <4>2. CASE s # d.id
        <5>1. Holding(s)' \subseteq Holding(s)
          BY <3>2, <4>2 DEF Holding, OthersUnchanged
        <5>2. /\ Cardinality(Holding(s)') <= Cardinality(Holding(s))
              /\ Cardinality(Holding(s)') \in Nat
          BY <5>1, HoldingFinite, FS_Subset, FS_CardinalityType
        <5>3. mints[s] \in Nat  BY DEF TypeOK
        <5>4. mints[s] + Cardinality(Holding(s)) <= Cardinality(Workers)
          BY DEF ReplayInv, Counted
        <5>5. QED  BY <5>2, <5>3, <5>4, HoldingFinite
      <4>3. QED  BY <4>1, <4>2
    <3>5. Counted'  BY <2>1, <3>4 DEF ReplayInv, Counted
    <3>6. QED  BY <3>3, <3>5 DEF ReplayInv
  <2>4. QED  BY <1>6, <2>2, <2>3 DEF FindSession
<1>7. ASSUME NEW w \in Workers, FindUser(w) PROVE ReplayInv'
  BY <1>1, <1>2, <1>7 DEF FindUser, db, history, OthersUnchanged, Read, TypeOK
<1>8. ASSUME NEW w \in Workers, CheckAnswer(w) PROVE ReplayInv'
  <2>1. UNCHANGED <<session, mints>> /\ job[w].step = "device"
    BY <1>8 DEF CheckAnswer, db, history
  <2>2. CASE Return(w)  BY <1>2, <2>1, <2>2
  <2>3. CASE Goto(w, "remove")
    <3>1. job[w] \in Known  BY <2>1, JobOfStep
    <3>2. job'[w] = [job[w] EXCEPT !.step = "remove"] /\ OthersUnchanged(w)
      BY <2>3 DEF Goto, TypeOK, OthersUnchanged
    <3>3. job'[w].step = "remove" /\ job'[w].doc = job[w].doc  BY <3>1, <3>2 DEF Known
    <3>4. QED  BY <1>1, <2>1, <3>2, <3>3 DEF Read
  <2>4. QED  BY <1>8, <2>2, <2>3 DEF CheckAnswer
<1>9. ASSUME NEW w \in Workers, RemoveSession(w) PROVE ReplayInv'
  <2>1. /\ job[w].step = "remove" /\ Goto(w, "reply") /\ mints' = mints
        /\ session' = {s \in session : s.id # job[w].doc.id}
    BY <1>9 DEF RemoveSession, history
  <2>2. job[w] \in Known  BY <2>1, JobOfStep
  <2>3. job'[w] = [job[w] EXCEPT !.step = "reply"] /\ OthersUnchanged(w)
    BY <2>1 DEF Goto, TypeOK, OthersUnchanged
  <2>4. job'[w].doc = job[w].doc  BY <2>2, <2>3 DEF Known
  <2>5. QED  BY <1>0, <2>1, <2>3, <2>4, HoldersLeave DEF OthersUnchanged, Read
<1>10. ASSUME NEW w \in Workers, Grant(w) PROVE ReplayInv'
  <2>1. PICK s : s = job[w].doc.id  OBVIOUS
  <2>2. /\ job[w].step = "reply" /\ Return(w) /\ UNCHANGED <<session, unused>>
        /\ mints' = [mints EXCEPT ![s] = mints[s] + 1]
    BY <1>10, <2>1 DEF Grant, db
  <2>3. s \in Uuids  BY <2>1, <2>2, JobOfStep DEF Known, User
  <2>4. \A v \in Workers : job'[v].step \in Read => v # w /\ job'[v] = job[v]
    BY <2>2 DEF Return, TypeOK, Idle, Read
  <2>5. SessionIds'  BY <2>2, <2>4 DEF ReplayInv, SessionIds, Read
  <2>6. s \notin unused /\ ~\E d \in session : d.id = s
    BY <2>1, <2>2 DEF ReplayInv, SessionIds, Read
  <2>7. ASSUME NEW u \in Uuids PROVE mints'[u] + Cardinality(Holding(u)') <= Cardinality(Workers)
    <3>1. /\ mints[u] \in Nat /\ mints[u] + Cardinality(Holding(u)) <= Cardinality(Workers)
          /\ u # s => mints'[u] = mints[u]
          /\ mints'[s] = mints[s] + 1
      BY <2>2, <2>3 DEF TypeOK, ReplayInv, Counted
    <3>2. Holding(u)' \subseteq Holding(u)  BY <2>4 DEF Holding
    <3>3. /\ Cardinality(Holding(u)') <= Cardinality(Holding(u))
          /\ Cardinality(Holding(u)') \in Nat
      BY <3>2, HoldingFinite, FS_Subset, FS_CardinalityType
    <3>4. CASE u # s  BY <3>1, <3>3, <3>4, HoldingFinite
    <3>5. CASE u = s
      <4>1. w \in Holding(u)  BY <2>1, <2>2, <3>5 DEF Holding, Read
      <4>2. Holding(u)' \subseteq Holding(u) \ {w}  BY <2>4 DEF Holding
      <4>3. Cardinality(Holding(u) \ {w}) = Cardinality(Holding(u)) - 1
        BY <4>1, HoldingFinite, FS_RemoveElement
      <4>4. IsFiniteSet(Holding(u) \ {w})  BY HoldingFinite, FS_Subset
      <4>5. Cardinality(Holding(u)') <= Cardinality(Holding(u)) - 1
        BY <4>2, <4>3, <4>4, FS_Subset
      <4>6. QED  BY <3>1, <3>3, <3>5, <4>5, HoldingFinite
    <3>6. QED  BY <3>4, <3>5
  <2>8. Counted'  BY <2>2, <2>3, <2>6, <2>7 DEF ReplayInv, Counted, TypeOK
  <2>9. QED  BY <2>5, <2>8 DEF ReplayInv
<1>11. ASSUME NEW t \in Uuids, Expire(t) PROVE ReplayInv'
  BY <1>11, HoldersLeave DEF Expire, db, history
<1>12. ASSUME NEW w \in Workers, Fail(w) PROVE ReplayInv'
  BY <1>2, <1>12 DEF Fail, db, history
<1>13. CASE UNCHANGED vars
  BY <1>13, HoldersLeave DEF vars, db, history
<1>14. QED
  BY <1>3, <1>4, <1>5, <1>6, <1>7, <1>8, <1>9, <1>10, <1>11, <1>12, <1>13 DEF Next, TwoFA

(* A session gives at most one access for each worker: only the handlers   *)
(* that read it before the first one removed it (login.py:94-99).          *)
THEOREM ReplaysBounded == Spec => []ReplayBounded
<1>1. Init => ReplayInv
  <2> SUFFICES ASSUME Init PROVE ReplayInv
    OBVIOUS
  <2>1. SessionIds  BY DEF Init, SessionIds, Read, Idle
  <2>2. \A s \in Uuids : mints[s] = 0  BY DEF Init
  <2>3. QED  BY <2>1, <2>2, HoldingFinite DEF ReplayInv, Counted
<1>2. TypeOK /\ ReplayInv => ReplayBounded
  BY HoldingFinite DEF TypeOK, ReplayInv, Counted, ReplayBounded
<1>3. QED  BY <1>1, <1>2, ReplayInductive, Typing, PTL DEF Spec
=============================================================================
