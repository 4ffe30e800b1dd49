--------------------------- MODULE DesktopProofs ---------------------------
(***************************************************************************)
(* Proofs about Desktop, for any users, vaults and numbers of operations.  *)
(***************************************************************************)
EXTENDS Desktop, SequenceTheorems, TLAPS

Steps == Asking \cup Boxes \cup {"exchange", "derive", "post", "encrypt"}

LEMMA NewTyped ==
    ASSUME TypeOK
    PROVE  /\ NewFrame \in Frame /\ NewFrame.op = "load" /\ NewFrame.step = "askSites"
           /\ NewFrame.jwt = jwt
BY BoundsNat DEF TypeOK, NewFrame, Frame, Asking, Boxes, Keys, TokenAnswers

LEMMA SetStep ==
    ASSUME NEW f \in Frame, NEW s \in Steps
    PROVE  /\ [f EXCEPT !.step = s] \in Frame
           /\ [f EXCEPT !.step = s].op = f.op /\ [f EXCEPT !.step = s].step = s
           /\ [f EXCEPT !.step = s].jwt = f.jwt /\ [f EXCEPT !.step = s].key = f.key
           /\ [f EXCEPT !.step = s].sid = f.sid /\ [f EXCEPT !.step = s].password = f.password
           /\ [f EXCEPT !.step = s].answer = f.answer
BY DEF Frame, Steps

LEMMA SetJwt ==
    ASSUME NEW f \in Frame, NEW j \in Jwts
    PROVE  /\ [f EXCEPT !.jwt = j] \in Frame
           /\ [f EXCEPT !.jwt = j].op = f.op /\ [f EXCEPT !.jwt = j].step = f.step
           /\ [f EXCEPT !.jwt = j].jwt = j /\ [f EXCEPT !.jwt = j].key = f.key
           /\ [f EXCEPT !.jwt = j].password = f.password
BY DEF Frame

(* The operation that runs in a thread, and those below it.                *)
LEMMA Tops ==
    ASSUME TypeOK, NEW t \in Threads, stack[t] # <<>>
    PROVE  /\ Len(stack[t]) \in Nat \ {0} /\ Top(t) \in Frame
           /\ Below(t) \in Seq(Frame) /\ Len(Below(t)) = Len(stack[t]) - 1
           /\ \A i \in 1 .. Len(stack[t]) - 1 : Below(t)[i] = stack[t][i]
<1>1. stack[t] \in Seq(Frame)  BY DEF TypeOK
<1>2. Len(stack[t]) \in Nat \ {0}  BY <1>1, EmptySeq
<1>3. \A i \in 1 .. Len(stack[t]) : stack[t][i] \in Frame  BY <1>1, ElementOfSeq
<1>4. Top(t) \in Frame  BY <1>2, <1>3 DEF Top
<1>5. PICK n : n = Len(stack[t]) - 1  OBVIOUS
<1>6. /\ SubSeq(stack[t], 1, n) \in Seq(Frame)
      /\ Len(SubSeq(stack[t], 1, n)) = IF 1 <= n THEN n - 1 + 1 ELSE 0
      /\ \A i \in 1 .. n - 1 + 1 : SubSeq(stack[t], 1, n)[i] = stack[t][1 + i - 1]
  <2>1. n \in Int /\ \A i \in 1 .. n : stack[t][i] \in Frame  BY <1>2, <1>3, <1>5
  <2>2. QED  BY <2>1, SubSeqProperties
<1>7. QED  BY <1>2, <1>4, <1>5, <1>6 DEF Below

LEMMA BecomeEffect ==
    ASSUME TypeOK, NEW t \in Threads, stack[t] # <<>>, NEW f \in Frame, Become(t, f)
    PROVE  /\ stack' \in [Threads -> Seq(Frame)]
           /\ \A v \in Threads : v # t => stack'[v] = stack[v]
           /\ Len(stack'[t]) = Len(stack[t]) /\ stack'[t][Len(stack[t])] = f
           /\ \A i \in 1 .. Len(stack[t]) - 1 : stack'[t][i] = stack[t][i]
<1>1. PICK s : s = Append(Below(t), f)  OBVIOUS
<1>2. /\ s \in Seq(Frame) /\ Len(s) = Len(Below(t)) + 1 /\ s[Len(Below(t)) + 1] = f
      /\ \A i \in 1 .. Len(Below(t)) : s[i] = Below(t)[i]
  BY <1>1, Tops, AppendProperties
<1>3. stack' = [stack EXCEPT ![t] = s]  BY <1>1 DEF Become
<1>4. QED  BY <1>2, <1>3, Tops DEF TypeOK

LEMMA PushEffect ==
    ASSUME TypeOK, NEW t \in Threads, NEW f \in Frame, Push(t, f)
    PROVE  /\ stack' \in [Threads -> Seq(Frame)]
           /\ \A v \in Threads : v # t => stack'[v] = stack[v]
           /\ Len(stack'[t]) = Len(stack[t]) + 1 /\ stack'[t][Len(stack[t]) + 1] = f
           /\ \A i \in 1 .. Len(stack[t]) : stack'[t][i] = stack[t][i]
<1>1. PICK s : s = Append(stack[t], f)  OBVIOUS
<1>2. /\ s \in Seq(Frame) /\ Len(s) = Len(stack[t]) + 1 /\ s[Len(stack[t]) + 1] = f
      /\ \A i \in 1 .. Len(stack[t]) : s[i] = stack[t][i]
  BY <1>1, AppendProperties DEF TypeOK
<1>3. stack' = [stack EXCEPT ![t] = s]  BY <1>1 DEF Push
<1>4. QED  BY <1>2, <1>3 DEF TypeOK

LEMMA PopEffect ==
    ASSUME TypeOK, NEW t \in Threads, stack[t] # <<>>, Pop(t)
    PROVE  /\ stack' \in [Threads -> Seq(Frame)]
           /\ \A v \in Threads : v # t => stack'[v] = stack[v]
           /\ Len(stack'[t]) = Len(stack[t]) - 1
           /\ \A i \in 1 .. Len(stack[t]) - 1 : stack'[t][i] = stack[t][i]
BY Tops DEF Pop, TypeOK

LEMMA DoingTop ==
    ASSUME NEW t \in Threads, Doing(t) # "idle"
    PROVE  stack[t] # <<>> /\ Doing(t) = Top(t).step
BY DEF Doing


-----------------------------------------------------------------------------
LoginSteps == {"askLogin", "exchange", "derive", "post", "ask2fa"}

(* What a frame is always like: a login is in a step of a login or in a    *)
(* message box, and names a user as long as it asks for one.               *)
Sound(f) == /\ f \in Frame
            /\ f.step = "askLogin" => f.user \in Users
            /\ f.step \in {"askLogin", "exchange"} => f.sid \in 1 .. MaxLogins
            /\ f.step \in LoginSteps => f.op = "login"
            /\ f.op = "login" => f.step \in LoginSteps \cup {"box"}
            /\ f.step = "encrypt" => f.op \in {"add", "delete", "change"}
            /\ f.step \in {"askAdd", "askDelete", "askChange"} => f.op # "login"

Framed == \A t \in Threads : \A i \in 1 .. Len(stack[t]) : Sound(stack[t][i])

Typed == TypeOK /\ Framed

LEMMA TopSound ==
    ASSUME Typed, NEW t \in Threads, Doing(t) # "idle"
    PROVE  /\ stack[t] # <<>> /\ Doing(t) = Top(t).step /\ Sound(Top(t))
           /\ Top(t) = stack[t][Len(stack[t])] /\ Len(stack[t]) \in Nat \ {0}
<1>1. stack[t] # <<>> /\ Doing(t) = Top(t).step  BY DoingTop
<1>2. Len(stack[t]) \in Nat \ {0}  BY <1>1, Tops DEF Typed
<1>3. QED  BY <1>1, <1>2 DEF Typed, Framed, Top

LEMMA BecomeSound ==
    ASSUME Typed, NEW t \in Threads, stack[t] # <<>>, NEW f, Sound(f), Become(t, f)
    PROVE  stack' \in [Threads -> Seq(Frame)] /\ Framed'
<1>1. f \in Frame  BY DEF Sound
<1>2. Len(stack[t]) \in Nat \ {0}  BY Tops DEF Typed
<1>3. /\ stack' \in [Threads -> Seq(Frame)]
      /\ \A v \in Threads : v # t => stack'[v] = stack[v]
      /\ Len(stack'[t]) = Len(stack[t]) /\ stack'[t][Len(stack[t])] = f
      /\ \A i \in 1 .. Len(stack[t]) - 1 : stack'[t][i] = stack[t][i]
  BY <1>1, BecomeEffect DEF Typed
<1>4. ASSUME NEW v \in Threads, NEW i \in 1 .. Len(stack'[v])  PROVE Sound(stack'[v][i])
  <2>1. CASE v # t  BY <2>1, <1>3 DEF Typed, Framed
  <2>2. CASE v = t /\ i = Len(stack[t])  BY <2>2, <1>3
  <2>3. CASE v = t /\ i # Len(stack[t])
    <3>1. i \in 1 .. Len(stack[t]) - 1  BY <2>3, <1>2, <1>3
    <3>2. QED  BY <3>1, <2>3, <1>2, <1>3 DEF Typed, Framed
  <2>4. QED  BY <2>1, <2>2, <2>3
<1>5. QED  BY <1>3, <1>4 DEF Framed, Sound

LEMMA PushSound ==
    ASSUME Typed, NEW t \in Threads, NEW f, Sound(f), Push(t, f)
    PROVE  stack' \in [Threads -> Seq(Frame)] /\ Framed'
<1>1. f \in Frame  BY DEF Sound
<1>2. Len(stack[t]) \in Nat  BY LenProperties DEF Typed, TypeOK
<1>3. /\ stack' \in [Threads -> Seq(Frame)]
      /\ \A v \in Threads : v # t => stack'[v] = stack[v]
      /\ Len(stack'[t]) = Len(stack[t]) + 1 /\ stack'[t][Len(stack[t]) + 1] = f
      /\ \A i \in 1 .. Len(stack[t]) : stack'[t][i] = stack[t][i]
  BY <1>1, PushEffect DEF Typed
<1>4. ASSUME NEW v \in Threads, NEW i \in 1 .. Len(stack'[v])  PROVE Sound(stack'[v][i])
  <2>1. CASE v # t  BY <2>1, <1>3 DEF Typed, Framed
  <2>2. CASE v = t /\ i = Len(stack[t]) + 1  BY <2>2, <1>3
  <2>3. CASE v = t /\ i # Len(stack[t]) + 1
    <3>1. i \in 1 .. Len(stack[t])  BY <2>3, <1>2, <1>3
    <3>2. QED  BY <3>1, <2>3, <1>2, <1>3 DEF Typed, Framed
  <2>4. QED  BY <2>1, <2>2, <2>3
<1>5. QED  BY <1>3, <1>4 DEF Framed, Sound

LEMMA PopSound ==
    ASSUME Typed, NEW t \in Threads, stack[t] # <<>>, Pop(t)
    PROVE  stack' \in [Threads -> Seq(Frame)] /\ Framed'
<1>1. Len(stack[t]) \in Nat \ {0}  BY Tops DEF Typed
<1>2. /\ stack' \in [Threads -> Seq(Frame)]
      /\ \A v \in Threads : v # t => stack'[v] = stack[v]
      /\ Len(stack'[t]) = Len(stack[t]) - 1
      /\ \A i \in 1 .. Len(stack[t]) - 1 : stack'[t][i] = stack[t][i]
  BY PopEffect DEF Typed
<1>3. ASSUME NEW v \in Threads, NEW i \in 1 .. Len(stack'[v])  PROVE Sound(stack'[v][i])
  <2>1. CASE v # t  BY <2>1, <1>2 DEF Typed, Framed
  <2>2. CASE v = t
    <3>1. i \in 1 .. Len(stack[t]) - 1 /\ i \in 1 .. Len(stack[t])  BY <2>2, <1>1, <1>2
    <3>2. QED  BY <3>1, <2>2, <1>2 DEF Typed, Framed
  <2>3. QED  BY <2>1, <2>2
<1>4. QED  BY <1>2, <1>3 DEF Framed


-----------------------------------------------------------------------------
(* The steps, as the proofs see them: those of a login, and what the rest  *)
(* does to the session and to the frames of the GUI thread.                *)

(* A frame that adds names the user whose key is at hand, or was when the  *)
(* fields were encrypted.                                                  *)
Fits(f) == /\ f.step = "encrypt" => \A u \in Users : f.jwt = <<"full", u>> => key = u
           /\ f.step = "askAdd" => \A u \in Users : f.jwt = <<"full", u>> => f.key = u

Kept == <<jwt, key, session, logins>>

(* The operation that runs in the GUI goes on, or ends.                    *)
Works == /\ UNCHANGED <<Kept, queued, raced, alone>>
         /\ Doing("gui") \notin LoginSteps \cup {"idle"}
         /\ \/ /\ Top("gui").op # "login"
               /\ \E f : /\ Sound(f) /\ f.op # "login" /\ (Fits(Top("gui")) => Fits(f))
                         /\ Become("gui", f)
            \/ Pop("gui")

(* Another one starts, and is not a login.                                 *)
Enters == /\ UNCHANGED Kept /\ Overlap(LoginRuns)
          /\ queued' = queued \/ (queued > 0 /\ queued' = queued - 1)
          /\ \E f : /\ Sound(f) /\ f.op # "login" /\ f.step # "askAdd"
                    /\ f.jwt \in {jwt, NoJwt}
                    /\ Push("gui", f)

Leaves == /\ jwt' = NoJwt /\ key' = NoKey /\ Overlap(Busy)
          /\ UNCHANGED <<stack, queued, session, logins>>

Restarts == Restart /\ UNCHANGED <<session, logins>>

Idles == UNCHANGED <<Kept, stack, queued, raced, alone>>

Starts == \E t \in Threads, u \in Users : \E p \in {u, WrongKey} :
            StartLogin(t, u, p) /\ (t = "browser" => stack[t] = <<>>)

Summary == \/ Starts \/ (\E t \in Threads : LoginStep(t))
           \/ Works \/ Enters \/ Leaves \/ Restarts \/ Idles

(* What is left to the types of the variables the summary does not name.   *)
Plain == /\ token \in Users \cup {NoKey}
         /\ page \in {"login", "register", "manager", "addaccount"}
         /\ answer \in TokenAnswers
         /\ vault \in [Users -> SUBSET Keys]
         /\ tasks \in 0 .. MaxTasks
         /\ strayed \in BOOLEAN
         /\ turned \in BOOLEAN /\ indexed \in {"never", "excused", "bare"}

LEMMA SetOp ==
    ASSUME NEW f \in Frame, NEW o \in {"login", "load", "add", "delete", "change", "register"}
    PROVE  /\ [f EXCEPT !.op = o] \in Frame
           /\ [f EXCEPT !.op = o].op = o /\ [f EXCEPT !.op = o].jwt = f.jwt
BY DEF Frame

LEMMA NewSound ==
    ASSUME Typed, NEW o \in {"load", "add", "delete", "change", "register"},
           NEW s \in {"askSites", "encrypt", "askRegister"},
           s = "encrypt" => o \in {"add", "delete", "change"},
           NEW f, f = [NewFrame EXCEPT !.op = o, !.step = s]
    PROVE  Sound(f) /\ f.op # "login" /\ f.step # "askAdd" /\ f.jwt = jwt
<1>1. PICK n : n = NewFrame  OBVIOUS
<1>2. n \in Frame /\ n.jwt = jwt  BY <1>1, NewTyped DEF Typed
<1>3. PICK g : g = [n EXCEPT !.op = o]  OBVIOUS
<1>4. g \in Frame /\ g.op = o /\ g.jwt = jwt  BY <1>2, <1>3 DEF Frame
<1>5. f = [g EXCEPT !.step = s] /\ s \in Steps  BY <1>1, <1>3 DEF Steps, Asking
<1>6. f \in Frame /\ f.op = o /\ f.step = s /\ f.jwt = jwt  BY <1>4, <1>5 DEF Frame, Steps
<1>7. QED  BY <1>6 DEF Sound, LoginSteps

LEMMA StartTaskPlain ==
    ASSUME Typed, NEW f, StartTask(f), page' \in {page, "manager"}
    PROVE  Plain' /\ UNCHANGED <<Kept, queued>> /\ Push("gui", f) /\ Overlap(LoginRuns)
BY BoundsNat DEF Typed, TypeOK, Plain, StartTask, Kept, server

LEMMA AddSums ==
    ASSUME Typed, AddAccount  PROVE Summary /\ Plain'
<1>1. PICK f : f = [NewFrame EXCEPT !.op = "add", !.step = "encrypt"]  OBVIOUS
<1>3. StartTask(f) /\ page' = "manager"  BY <1>1 DEF AddAccount
<1>4. Sound(f) /\ f.op # "login" /\ f.step # "askAdd" /\ f.jwt = jwt
  BY <1>1, NewSound
<1>5. Plain' /\ UNCHANGED <<Kept, queued>> /\ Push("gui", f) /\ Overlap(LoginRuns)
  BY <1>3, StartTaskPlain
<1>6. QED  BY <1>4, <1>5 DEF Summary, Enters

LEMMA DeleteSums ==
    ASSUME Typed, DeleteAccount  PROVE Summary /\ Plain'
<1>1. PICK f : f = [NewFrame EXCEPT !.op = "delete", !.step = "encrypt"]  OBVIOUS
<1>3. StartTask(f) /\ page' = page  BY <1>1 DEF DeleteAccount
<1>4. Sound(f) /\ f.op # "login" /\ f.step # "askAdd" /\ f.jwt = jwt
  BY <1>1, NewSound
<1>5. Plain' /\ UNCHANGED <<Kept, queued>> /\ Push("gui", f) /\ Overlap(LoginRuns)
  BY <1>3, StartTaskPlain
<1>6. QED  BY <1>4, <1>5 DEF Summary, Enters

LEMMA ChangeSums ==
    ASSUME Typed, ChangeAccount  PROVE Summary /\ Plain'
<1>1. PICK f : f = [NewFrame EXCEPT !.op = "change", !.step = "encrypt"]  OBVIOUS
<1>3. StartTask(f) /\ page' = page  BY <1>1 DEF ChangeAccount
<1>4. Sound(f) /\ f.op # "login" /\ f.step # "askAdd" /\ f.jwt = jwt
  BY <1>1, NewSound
<1>5. Plain' /\ UNCHANGED <<Kept, queued>> /\ Push("gui", f) /\ Overlap(LoginRuns)
  BY <1>3, StartTaskPlain
<1>6. QED  BY <1>4, <1>5 DEF Summary, Enters

LEMMA RegisterSums ==
    ASSUME Typed, Register  PROVE Summary /\ Plain'
<1>1. PICK f : f = [NewFrame EXCEPT !.op = "register", !.step = "askRegister", !.jwt = NoJwt]
  OBVIOUS
<1>3. StartTask(f) /\ page' = page  BY <1>1 DEF Register
<1>4. Sound(f) /\ f.op # "login" /\ f.step # "askAdd" /\ f.jwt = NoJwt
  <2>1. PICK g : g = [NewFrame EXCEPT !.op = "register", !.step = "askRegister"]  OBVIOUS
  <2>2. Sound(g) /\ g.op = "register" /\ g.step = "askRegister"
    <3>1. PICK n : n = NewFrame  OBVIOUS
    <3>2. n \in Frame  BY <3>1, NewTyped DEF Typed
    <3>3. PICK h : h = [n EXCEPT !.op = "register"]  OBVIOUS
    <3>4. h \in Frame /\ h.op = "register"  BY <3>2, <3>3, SetOp
    <3>5. g = [h EXCEPT !.step = "askRegister"] /\ "askRegister" \in Steps
      BY <2>1, <3>1, <3>3 DEF Steps, Asking
    <3>6. g \in Frame /\ g.op = "register" /\ g.step = "askRegister"
      BY <3>4, <3>5, SetStep
    <3>7. QED  BY <3>6 DEF Sound, LoginSteps
  <2>3. f = [g EXCEPT !.jwt = NoJwt] /\ NoJwt \in Jwts  BY <1>1, <2>1 DEF Jwts
  <2>4. f \in Frame /\ f.op = g.op /\ f.step = g.step /\ f.jwt = NoJwt
    BY <2>2, <2>3, SetJwt DEF Sound
  <2>5. QED  BY <2>2, <2>4 DEF Sound, LoginSteps
<1>5. Plain' /\ UNCHANGED <<Kept, queued>> /\ Push("gui", f) /\ Overlap(LoginRuns)
  BY <1>3, StartTaskPlain
<1>6. QED  BY <1>4, <1>5 DEF Summary, Enters

LEMMA SignalSums ==
    ASSUME Typed, BrowserSignal  PROVE Summary /\ Plain'
<1>1. /\ Sound(NewFrame) /\ NewFrame.op # "login" /\ NewFrame.step # "askAdd"
      /\ NewFrame.jwt = jwt
  BY NewTyped DEF Typed, Sound, LoginSteps
<1>2. Enters  BY <1>1 DEF BrowserSignal, Enters, Kept, server
<1>3. QED  BY <1>2 DEF Summary, server, BrowserSignal, Plain, Typed, TypeOK

LEMMA LogoutSums ==
    ASSUME Typed, LogoutButton \/ TokenGone  PROVE Summary /\ Plain'
<1>1. Leaves  BY DEF LogoutButton, TokenGone, Logout, Leaves, server
<1>2. token' \in Users \cup {NoKey}  BY DEF LogoutButton, TokenGone, Typed, TypeOK
<1>3. QED  BY <1>1, <1>2 DEF Summary, LogoutButton, TokenGone, Logout, Plain, Typed, TypeOK, server

LEMMA IdleSums ==
    ASSUME Typed, TurnPage \/ (\E u \in Users : TokenCame(u)) \/ UNCHANGED vars
    PROVE  Summary /\ Plain'
<1>1. CASE TurnPage
  BY <1>1 DEF TurnPage, Turn, Summary, Idles, Kept, Plain, Typed, TypeOK, server, history
<1>2. CASE \E u \in Users : TokenCame(u)
  BY <1>2 DEF TokenCame, Summary, Idles, Kept, Plain, Typed, TypeOK, client, server, history
<1>3. CASE UNCHANGED vars
  BY <1>3 DEF vars, Summary, Idles, Kept, Plain, Typed, TypeOK, client, server, history
<1>4. QED  BY <1>1, <1>2, <1>3


LEMMA GoesOn ==
    ASSUME NEW f, Sound(f), f.op # "login",
           NEW s \in {"askSites", "askAccounts", "askAgain", "boxLoad", "box"}
    PROVE  LET g == [f EXCEPT !.step = s] IN Sound(g) /\ g.op # "login" /\ Fits(g)
<1>1. PICK g : g = [f EXCEPT !.step = s]  OBVIOUS
<1>2. f \in Frame /\ s \in Steps  BY DEF Sound, Steps, Asking, Boxes
<1>3. g \in Frame /\ g.op = f.op /\ g.step = s  BY <1>1, <1>2, SetStep
<1>4. QED  BY <1>1, <1>3 DEF Sound, Fits, LoginSteps

LEMMA GoesOnWithJwt ==
    ASSUME NEW f, Sound(f), f.op # "login", NEW j \in Jwts,
           NEW s \in {"askSites", "askAccounts", "askAgain"}
    PROVE  LET g == [f EXCEPT !.step = s, !.jwt = j] IN Sound(g) /\ g.op # "login" /\ Fits(g)
<1>1. PICK g : g = [f EXCEPT !.step = s]  OBVIOUS
<1>2. f \in Frame /\ s \in Steps  BY DEF Sound, Steps, Asking, Boxes
<1>3. g \in Frame /\ g.op = f.op /\ g.step = s  BY <1>1, <1>2, SetStep
<1>4. PICK h : h = [g EXCEPT !.jwt = j]  OBVIOUS
<1>5. h \in Frame /\ h.op = f.op /\ h.step = s  BY <1>3, <1>4, SetJwt
<1>6. [f EXCEPT !.step = s, !.jwt = j] = h  BY <1>1, <1>4
<1>7. QED  BY <1>5, <1>6 DEF Sound, Fits, LoginSteps

(* A step of the GUI thread that is not one of a login.                    *)
LEMMA GuiTop ==
    ASSUME Typed, Doing("gui") \notin LoginSteps \cup {"idle", "box"}
    PROVE  Sound(Top("gui")) /\ Top("gui").op # "login" /\ Top("gui").step = Doing("gui")
<1>1. "gui" \in Threads  BY DEF Threads
<1>2. Sound(Top("gui")) /\ Top("gui").step = Doing("gui")  BY <1>1, TopSound
<1>3. QED  BY <1>2 DEF Sound

LEMMA LoadWorks ==
    ASSUME Typed, Doing("gui") \notin LoginSteps \cup {"idle", "box"},
           NEW s \in {"askSites", "askAccounts", "askAgain"},
           Become("gui", [Top("gui") EXCEPT !.step = s, !.jwt = jwt]),
           UNCHANGED <<Kept, queued, raced, alone>>
    PROVE  Works
<1>1. Sound(Top("gui")) /\ Top("gui").op # "login"  BY GuiTop
<1>2. PICK f : f = Top("gui")  OBVIOUS
<1>3. PICK g : g = [f EXCEPT !.step = s, !.jwt = jwt]  OBVIOUS
<1>4. Sound(g) /\ g.op # "login" /\ Fits(g)
  BY <1>1, <1>2, <1>3, GoesOnWithJwt DEF Typed, TypeOK
<1>5. Become("gui", g)  BY <1>2, <1>3
<1>6. QED  BY <1>1, <1>4, <1>5 DEF Works

LEMMA StepWorks ==
    ASSUME Typed, Doing("gui") \notin LoginSteps \cup {"idle", "box"},
           NEW s \in {"boxLoad", "box"},
           Become("gui", [Top("gui") EXCEPT !.step = s]),
           UNCHANGED <<Kept, queued, raced, alone>>
    PROVE  Works
<1>1. Sound(Top("gui")) /\ Top("gui").op # "login"  BY GuiTop
<1>2. PICK f : f = Top("gui")  OBVIOUS
<1>3. PICK g : g = [f EXCEPT !.step = s]  OBVIOUS
<1>4. Sound(g) /\ g.op # "login" /\ Fits(g)  BY <1>1, <1>2, <1>3, GoesOn
<1>5. Become("gui", g)  BY <1>2, <1>3
<1>6. QED  BY <1>1, <1>4, <1>5 DEF Works

LEMMA SitesSums ==
    ASSUME Typed, SitesAnswered  PROVE Summary /\ Plain'
<1>1. Doing("gui") = "askSites" /\ UNCHANGED <<token, server, logins, tasks>>
  BY DEF SitesAnswered
<1>2. CASE LoadAccounts /\ UNCHANGED <<client, queued, raced, alone, strayed, turned>>
  <2>1. Works  BY <1>1, <1>2, LoadWorks DEF LoadAccounts, LoginSteps, Kept, client, server
  <2>2. indexed' \in {"never", "excused", "bare"}
    BY DEF SitesAnswered, Typed, TypeOK, history
  <2>3. QED  BY <1>1, <1>2, <2>1, <2>2 DEF Summary, Plain, Typed, TypeOK, client, server
<1>3. CASE Restart
  <2>1. Restarts  BY <1>1, <1>3 DEF Restarts, server
  <2>2. indexed' \in {"never", "excused", "bare"}
    BY DEF SitesAnswered, Typed, TypeOK, history
  <2>3. QED
    BY <1>1, <1>3, <2>1, <2>2 DEF Summary, Plain, Typed, TypeOK, server, Restart, TokenAnswers
<1>4. QED  BY <1>2, <1>3 DEF SitesAnswered, history

LEMMA AccountsSums ==
    ASSUME Typed, AccountsAnswered  PROVE Summary /\ Plain'
<1>1. Doing("gui") \notin LoginSteps \cup {"idle", "box"}
  BY DEF AccountsAnswered, LoginSteps
<1>2. UNCHANGED <<Kept, queued, raced, alone>> /\ Plain'
  BY DEF AccountsAnswered, Kept, client, server, history, Plain, Typed, TypeOK
<1>3. CASE Become("gui", [Top("gui") EXCEPT !.step = "askAgain", !.jwt = jwt])
  BY <1>1, <1>2, <1>3, LoadWorks DEF Summary
<1>4. CASE Pop("gui")  BY <1>1, <1>2, <1>4 DEF Summary, Works
<1>5. QED  BY <1>3, <1>4 DEF AccountsAnswered

LEMMA EncryptSums ==
    ASSUME Typed, EncryptWithKey  PROVE Summary /\ Plain'
<1>1. Doing("gui") = "encrypt" /\ Doing("gui") \notin LoginSteps \cup {"idle", "box"}
  BY DEF EncryptWithKey, LoginSteps
<1>2. UNCHANGED <<Kept, queued, raced, alone>> /\ Plain'
  BY DEF EncryptWithKey, Kept, client, server, history, Plain, Typed, TypeOK
<1>3. PICK f : f = Top("gui")  OBVIOUS
<1>4. Sound(f) /\ f.op # "login" /\ f.step = "encrypt"  BY <1>1, <1>3, GuiTop
<1>5. PICK s : s = Request[f.op]  OBVIOUS
<1>6. s \in {"askAdd", "askDelete", "askChange"} /\ (s = "askAdd" => f.op = "add")
  BY <1>4, <1>5 DEF Sound, Request
<1>7. PICK g : g = [f EXCEPT !.key = key, !.step = s]  OBVIOUS
<1>8. /\ g \in Frame /\ g.op = f.op /\ g.step = s /\ g.jwt = f.jwt /\ g.key = key
  BY <1>4, <1>6, <1>7 DEF Sound, Frame, Asking, Typed, TypeOK
<1>9. Sound(g) /\ g.op # "login" /\ (Fits(f) => Fits(g))
  BY <1>4, <1>6, <1>8 DEF Sound, Fits, LoginSteps
<1>10. Become("gui", g)  BY <1>3, <1>5, <1>7 DEF EncryptWithKey
<1>11. QED  BY <1>1, <1>2, <1>3, <1>4, <1>9, <1>10 DEF Summary, Works

LEMMA AddAnsweredSums ==
    ASSUME Typed, AddAnswered  PROVE Summary /\ Plain'
<1>1. Doing("gui") \notin LoginSteps \cup {"idle", "box"}
  BY DEF AddAnswered, LoginSteps
<1>2. UNCHANGED <<Kept, queued, raced, alone>>
  BY DEF AddAnswered, Kept, client, history
<1>3. Top("gui").key \in Keys  BY <1>1, GuiTop DEF Sound, Frame
<1>4. vault' \in [Users -> SUBSET Keys]
  BY <1>3 DEF AddAnswered, Typed, TypeOK
<1>5. Plain'  BY <1>4 DEF AddAnswered, Plain, Typed, TypeOK, client, history
<1>6. QED  BY <1>1, <1>2, <1>5, LoadWorks DEF Summary, AddAnswered

LEMMA ChangeAnsweredSums ==
    ASSUME Typed, ChangeAnswered  PROVE Summary /\ Plain'
<1>1. Doing("gui") \notin LoginSteps \cup {"idle", "box"}
  BY DEF ChangeAnswered, LoginSteps
<1>2. UNCHANGED <<Kept, queued, raced, alone>>
  BY DEF ChangeAnswered, Kept, client, history
<1>3. vault' \in [Users -> SUBSET Keys]
  BY DEF ChangeAnswered, Typed, TypeOK
<1>4. Plain'  BY <1>3 DEF ChangeAnswered, Plain, Typed, TypeOK, client, history
<1>5. \E s \in {"boxLoad", "box"} : Become("gui", [Top("gui") EXCEPT !.step = s])
  BY DEF ChangeAnswered
<1>6. QED  BY <1>1, <1>2, <1>4, <1>5, StepWorks DEF Summary

LEMMA CloseSums ==
    ASSUME Typed, CloseBox  PROVE Summary /\ Plain'
<1>1. UNCHANGED <<Kept, queued, raced, alone>> /\ Plain'
  BY DEF CloseBox, Kept, client, server, history, Plain, Typed, TypeOK
<1>2. CASE Doing("gui") = "box" /\ Pop("gui")
  BY <1>1, <1>2 DEF Summary, Works, LoginSteps
<1>3. CASE /\ Doing("gui") = "boxLoad"
           /\ \E s \in {"askSites", "askAccounts"} :
                Become("gui", [Top("gui") EXCEPT !.step = s, !.jwt = jwt])
  BY <1>1, <1>3, LoadWorks DEF Summary, LoginSteps
<1>4. QED  BY <1>2, <1>3 DEF CloseBox, LoadAccounts

LEMMA RegisterAnsweredSums ==
    ASSUME Typed, RegisterAnswered  PROVE Summary /\ Plain'
<1>1. UNCHANGED <<Kept, queued, raced, alone>>
  BY DEF RegisterAnswered, Kept, client, server, history
<1>2. Plain'  BY DEF RegisterAnswered, server, history, Plain, Typed, TypeOK
<1>3. QED  BY <1>1, <1>2 DEF Summary, Works, LoginSteps, RegisterAnswered

LEMMA NextSums ==
    ASSUME Typed, [Next]_vars
    PROVE  Summary /\ (Starts \/ (\E t \in Threads : LoginStep(t)) \/ Plain')
<1>1. ASSUME NEW u \in Users, NEW p \in {u, WrongKey}, GuiLogin(u, p) \/ BrowserLogin(u, p)
      PROVE  Starts
  BY <1>1 DEF GuiLogin, BrowserLogin, Starts, Threads
<1>2. ASSUME GuiStep  PROVE Summary /\ Plain'
  BY <1>2, SitesSums, AccountsSums, EncryptSums, AddAnsweredSums, ChangeAnsweredSums,
     CloseSums, RegisterAnsweredSums DEF GuiStep
<1>3. ASSUME AddAccount \/ DeleteAccount \/ ChangeAccount \/ Register \/ BrowserSignal
      PROVE  Summary /\ Plain'
  BY <1>3, AddSums, DeleteSums, ChangeSums, RegisterSums, SignalSums
<1>4. ASSUME \/ LogoutButton \/ TokenGone \/ TurnPage \/ UNCHANGED vars
             \/ \E u \in Users : TokenCame(u)
      PROVE  Summary /\ Plain'
  BY <1>4, LogoutSums, IdleSums
<1>5. QED  BY <1>1, <1>2, <1>3, <1>4 DEF Next, Summary


-----------------------------------------------------------------------------
(* Types. *)

Core == /\ jwt \in Jwts /\ key \in Keys /\ queued \in Nat
        /\ session \subseteq [id : 1 .. MaxLogins, user : Users, password : Keys]
        /\ logins \in 0 .. MaxLogins /\ raced \in BOOLEAN /\ alone \in BOOLEAN

LEMMA StartTyped ==
    ASSUME Typed, NEW t \in Threads, NEW u \in Users, NEW p \in {u, WrongKey},
           StartLogin(t, u, p)
    PROVE  /\ Typed' /\ logins' = logins + 1
           /\ \E f : /\ Push(t, f) /\ Sound(f) /\ f.op = "login" /\ f.step = "askLogin"
                     /\ f.sid = logins + 1
<1>1. logins' = logins + 1 /\ logins + 1 \in 1 .. MaxLogins
  BY BoundsNat DEF StartLogin, Typed, TypeOK
<1>2. PICK n : n = NewFrame  OBVIOUS
<1>3. n \in Frame  BY <1>2, NewTyped DEF Typed
<1>4. PICK f : f = [n EXCEPT !.op = "login", !.step = "askLogin", !.user = u,
                             !.password = p, !.sid = logins + 1, !.jwt = NoJwt]
  OBVIOUS
<1>5. /\ f \in Frame /\ f.op = "login" /\ f.step = "askLogin" /\ f.user = u
      /\ f.sid = logins + 1
  <2>1. PICK g : g = [n EXCEPT !.op = "login", !.step = "askLogin"]  OBVIOUS
  <2>2. g \in Frame /\ g.op = "login" /\ g.step = "askLogin"
    BY <1>3, <2>1 DEF Frame, Asking
  <2>3. PICK h : h = [g EXCEPT !.user = u, !.password = p]  OBVIOUS
  <2>4. h \in Frame /\ h.op = "login" /\ h.step = "askLogin" /\ h.user = u
    BY <2>2, <2>3 DEF Frame, Keys
  <2>5. logins + 1 \in 0 .. MaxLogins /\ NoJwt \in Jwts  BY <1>1 DEF Jwts
  <2>6. f = [h EXCEPT !.sid = logins + 1, !.jwt = NoJwt]  BY <1>4, <2>1, <2>3
  <2>7. QED  BY <2>4, <2>5, <2>6 DEF Frame
<1>6. Sound(f)  BY <1>1, <1>5 DEF Sound, LoginSteps
<1>7. Push(t, f)
  <2>1. [n EXCEPT !.op = "login", !.step = "askLogin", !.user = u,
                  !.password = p, !.sid = logins', !.jwt = NoJwt] = f
    BY <1>1, <1>4
  <2>2. QED  BY <1>2, <2>1 DEF StartLogin
<1>8. stack' \in [Threads -> Seq(Frame)] /\ Framed'  BY <1>6, <1>7, PushSound
<1>9. Plain'  BY DEF StartLogin, Plain, Typed, TypeOK, client, server
<1>10. Core'
  BY <1>1 DEF StartLogin, Core, Typed, TypeOK, client, server, Busy
<1>11. QED  BY <1>1, <1>5, <1>6, <1>7, <1>8, <1>9, <1>10 DEF Typed, TypeOK, Core, Plain

LEMMA AnsweredTyped ==
    ASSUME Typed, NEW t \in Threads, LoginAnswered(t)
    PROVE  Typed'
<1>1. stack[t] # <<>> /\ Sound(Top(t)) /\ Top(t).step = "askLogin"
  BY TopSound DEF LoginAnswered
<1>2. PICK f : f = Top(t)  OBVIOUS
<1>3. f \in Frame /\ f.op = "login" /\ f.user \in Users /\ f.sid \in 1 .. MaxLogins
  BY <1>1, <1>2 DEF Sound, LoginSteps
<1>4. stack' \in [Threads -> Seq(Frame)] /\ Framed'
  <2>1. CASE Pop(t)  BY <2>1, <1>1, PopSound
  <2>2. CASE Become(t, [f EXCEPT !.step = "box"])
    <3>1. PICK g : g = [f EXCEPT !.step = "box"]  OBVIOUS
    <3>2. g \in Frame /\ g.op = "login" /\ g.step = "box"
      BY <3>1, <1>3 DEF Frame, Boxes
    <3>3. Sound(g)  BY <3>2 DEF Sound, LoginSteps
    <3>4. QED  BY <3>1, <3>3, <2>2, <1>1, BecomeSound
  <2>3. CASE Become(t, [f EXCEPT !.step = "exchange", !.user = NoKey])
    <3>1. PICK g : g = [f EXCEPT !.step = "exchange", !.user = NoKey]  OBVIOUS
    <3>2. g \in Frame /\ g.op = "login" /\ g.step = "exchange"
      BY <3>1, <1>3 DEF Frame
    <3>3. g.sid = f.sid  BY <3>1, <1>3 DEF Frame
    <3>4. Sound(g)  BY <3>2, <3>3, <1>3 DEF Sound, LoginSteps
    <3>5. QED  BY <3>1, <3>4, <2>3, <1>1, BecomeSound
  <2>4. QED  BY <2>1, <2>2, <2>3, <1>2 DEF LoginAnswered
<1>5. session' \subseteq [id : 1 .. MaxLogins, user : Users, password : Keys] /\ jwt' \in Jwts
  <2>1. f.password \in Keys  BY <1>3 DEF Frame
  <2>2. <<"first", f.sid>> \in Jwts  BY <1>3 DEF Jwts
  <2>3. PICK r : r = [id |-> f.sid, user |-> f.user, password |-> f.password]  OBVIOUS
  <2>4. r \in [id : 1 .. MaxLogins, user : Users, password : Keys]
    BY <1>3, <2>1, <2>3
  <2>5. session' = session \/ session' = session \cup {r}
    BY <1>2, <2>3 DEF LoginAnswered
  <2>6. jwt' = jwt \/ jwt' = <<"first", f.sid>>  BY <1>2 DEF LoginAnswered
  <2>7. QED  BY <2>2, <2>4, <2>5, <2>6 DEF Typed, TypeOK
<1>6. Core' /\ Plain'
  BY <1>5 DEF LoginAnswered, Core, Plain, Typed, TypeOK, history
<1>7. QED  BY <1>4, <1>6 DEF Typed, TypeOK, Core, Plain

LEMMA ExchangeTyped ==
    ASSUME Typed, NEW t \in Threads, Exchange(t)
    PROVE  Typed'
<1>1. stack[t] # <<>> /\ Sound(Top(t)) /\ Top(t).step = "exchange"
  BY TopSound DEF Exchange
<1>2. PICK f : f = Top(t)  OBVIOUS
<1>3. f \in Frame /\ f.op = "login"  BY <1>1, <1>2 DEF Sound, LoginSteps
<1>4. PICK g : g = [f EXCEPT !.step = "derive", !.sid = 0]  OBVIOUS
<1>5. g \in Frame /\ g.op = "login" /\ g.step = "derive"
  <2>1. 0 \in 0 .. MaxLogins  BY BoundsNat
  <2>2. QED  BY <1>3, <1>4, <2>1 DEF Frame
<1>6. Sound(g)  BY <1>5 DEF Sound, LoginSteps
<1>7. Become(t, g)  BY <1>2, <1>4 DEF Exchange
<1>8. stack' \in [Threads -> Seq(Frame)] /\ Framed'  BY <1>1, <1>6, <1>7, BecomeSound
<1>9. answer' \in TokenAnswers
  <2>1. f.sid \in 1 .. MaxLogins  BY <1>1, <1>2 DEF Sound
  <2>2. answer' = NoAnswer \/ (token \in Users /\ answer' = <<token, f.sid>>)
    BY <1>2 DEF Exchange, Typed, TypeOK
  <2>3. QED  BY <2>1, <2>2 DEF TokenAnswers
<1>10. Core' /\ Plain'
  BY <1>9 DEF Exchange, Core, Plain, Typed, TypeOK, server, history
<1>11. QED  BY <1>8, <1>10 DEF Typed, TypeOK, Core, Plain


LEMMA DeriveTyped ==
    ASSUME Typed, NEW t \in Threads, Derive(t)
    PROVE  Typed'
<1>1. stack[t] # <<>> /\ Sound(Top(t)) /\ Top(t).step = "derive"
  BY TopSound DEF Derive
<1>2. PICK f : f = Top(t)  OBVIOUS
<1>3. f \in Frame /\ f.op = "login" /\ f.password \in Keys
  BY <1>1, <1>2 DEF Sound, LoginSteps, Frame
<1>4. PICK g : g = [f EXCEPT !.step = "post", !.password = NoKey]  OBVIOUS
<1>5. g \in Frame /\ g.op = "login" /\ g.step = "post"
  BY <1>3, <1>4 DEF Frame, Keys
<1>6. Sound(g)  BY <1>5 DEF Sound, LoginSteps
<1>7. Become(t, g)  BY <1>2, <1>4 DEF Derive
<1>8. stack' \in [Threads -> Seq(Frame)] /\ Framed'  BY <1>1, <1>6, <1>7, BecomeSound
<1>9. key' = f.password  BY <1>2 DEF Derive
<1>10. Core' /\ Plain'
  BY <1>3, <1>9 DEF Derive, Core, Plain, Typed, TypeOK, server, history
<1>11. QED  BY <1>8, <1>10 DEF Typed, TypeOK, Core, Plain

LEMMA PostTyped ==
    ASSUME Typed, NEW t \in Threads, Post2fa(t)
    PROVE  Typed'
<1>1. stack[t] # <<>> /\ Sound(Top(t)) /\ Top(t).step = "post"
  BY TopSound DEF Post2fa
<1>2. PICK f : f = Top(t)  OBVIOUS
<1>3. f \in Frame /\ f.op = "login"  BY <1>1, <1>2 DEF Sound, LoginSteps
<1>4. PICK g : g = [f EXCEPT !.step = "ask2fa", !.jwt = jwt, !.answer = answer]  OBVIOUS
<1>5. g \in Frame /\ g.op = "login" /\ g.step = "ask2fa"
  BY <1>3, <1>4 DEF Frame, Asking, Typed, TypeOK
<1>6. Sound(g)  BY <1>5 DEF Sound, LoginSteps
<1>7. Become(t, g)  BY <1>2, <1>4 DEF Post2fa
<1>8. stack' \in [Threads -> Seq(Frame)] /\ Framed'  BY <1>1, <1>6, <1>7, BecomeSound
<1>9. Core' /\ Plain'
  BY DEF Post2fa, Core, Plain, Typed, TypeOK, client, server, history
<1>10. QED  BY <1>8, <1>9 DEF Typed, TypeOK, Core, Plain

LEMMA GrantedTyped ==
    ASSUME Typed, NEW t \in Threads, Granted(t)
    PROVE  Typed'
<1>1. stack[t] # <<>> /\ Sound(Top(t))  BY TopSound DEF Granted
<1>2. PICK s \in Passes(Top(t)) : session' = session \ {s} /\ jwt' = <<"full", s.user>>
  BY DEF Granted
<1>3. s.user \in Users  BY DEF Passes, Typed, TypeOK
<1>4. jwt' \in Jwts  BY <1>2, <1>3 DEF Jwts
<1>5. stack' \in [Threads -> Seq(Frame)] /\ Framed'
  <2>1. CASE t = "gui"
    <3>1. PICK n : n = NewFrame  OBVIOUS
    <3>2. n \in Frame /\ n.op = "load" /\ n.step = "askSites"
      BY <3>1, NewTyped DEF Typed
    <3>3. PICK j : j = jwt'  OBVIOUS
    <3>4. PICK g : g = [n EXCEPT !.jwt = j]  OBVIOUS
    <3>5. g \in Frame /\ g.op = "load" /\ g.step = "askSites"
      BY <1>4, <3>2, <3>3, <3>4, SetJwt
    <3>6. Sound(g)  BY <3>5 DEF Sound, LoginSteps
    <3>7. Become(t, g)  BY <2>1, <3>1, <3>3, <3>4 DEF Granted
    <3>8. QED  BY <1>1, <3>6, <3>7, BecomeSound
  <2>2. CASE t # "gui"
    BY <2>2, <1>1, PopSound DEF Granted
  <2>3. QED  BY <2>1, <2>2
<1>6. queued' \in Nat /\ page' \in {page, "manager"}  BY DEF Granted, Typed, TypeOK
<1>7. Core' /\ Plain'
  BY <1>2, <1>4, <1>6 DEF Granted, Core, Plain, Typed, TypeOK
<1>8. QED  BY <1>5, <1>7 DEF Typed, TypeOK, Core, Plain

LEMMA RefusedTyped ==
    ASSUME Typed, NEW t \in Threads, Refused(t)
    PROVE  Typed'
<1>1. stack[t] # <<>> /\ Sound(Top(t)) /\ Top(t).step = "ask2fa"
  BY TopSound DEF Refused
<1>2. PICK f : f = Top(t)  OBVIOUS
<1>3. f \in Frame /\ f.op = "login"  BY <1>1, <1>2 DEF Sound, LoginSteps
<1>4. PICK g : g = [f EXCEPT !.step = "box"]  OBVIOUS
<1>5. g \in Frame /\ g.op = "login" /\ g.step = "box"
  BY <1>3, <1>4 DEF Frame, Boxes
<1>6. Sound(g)  BY <1>5 DEF Sound, LoginSteps
<1>7. Become(t, g) \/ Pop(t)  BY <1>2, <1>4 DEF Refused
<1>8. stack' \in [Threads -> Seq(Frame)] /\ Framed'
  BY <1>1, <1>6, <1>7, BecomeSound, PopSound
<1>9. Core' /\ Plain'
  BY DEF Refused, Core, Plain, Typed, TypeOK, server, Jwts
<1>10. QED  BY <1>8, <1>9 DEF Typed, TypeOK, Core, Plain

LEMMA LoginTyped ==
    ASSUME Typed, NEW t \in Threads, LoginStep(t)
    PROVE  Typed'
BY AnsweredTyped, ExchangeTyped, DeriveTyped, PostTyped, GrantedTyped, RefusedTyped
   DEF LoginStep

LEMMA TypedKept ==
    ASSUME Typed, [Next]_vars
    PROVE  Typed' /\ Summary
<1>1. Summary /\ (Starts \/ (\E t \in Threads : LoginStep(t)) \/ Plain')  BY NextSums
<1>2. "gui" \in Threads  BY DEF Threads
<1>3. CASE Starts  BY <1>1, <1>3, StartTyped DEF Starts
<1>4. CASE \E t \in Threads : LoginStep(t)  BY <1>1, <1>4, LoginTyped
<1>5. CASE Works /\ Plain'
  <2>1. stack["gui"] # <<>>  BY <1>2, <1>5, TopSound DEF Works
  <2>2. stack' \in [Threads -> Seq(Frame)] /\ Framed'
    BY <1>2, <1>5, <2>1, BecomeSound, PopSound DEF Works
  <2>3. Core'  BY <1>5 DEF Works, Kept, Core, Typed, TypeOK
  <2>4. QED  BY <1>1, <1>5, <2>2, <2>3 DEF Typed, TypeOK, Core, Plain
<1>6. CASE Enters /\ Plain'
  <2>1. stack' \in [Threads -> Seq(Frame)] /\ Framed'
    BY <1>2, <1>6, PushSound DEF Enters
  <2>2. Core'  BY <1>6 DEF Enters, Kept, Core, Typed, TypeOK, Overlap
  <2>3. QED  BY <1>1, <1>6, <2>1, <2>2 DEF Typed, TypeOK, Core, Plain
<1>7. CASE (Leaves \/ Idles) /\ Plain'
  <2>1. stack' = stack  BY <1>7 DEF Leaves, Idles
  <2>2. Framed'  BY <2>1 DEF Typed, Framed
  <2>3. Core'
    BY <1>7 DEF Leaves, Idles, Kept, Core, Typed, TypeOK, Overlap, Jwts, Keys
  <2>4. QED  BY <1>1, <1>7, <2>1, <2>2, <2>3 DEF Typed, TypeOK, Core, Plain
<1>8. CASE Restarts /\ Plain'
  <2>1. stack' = [t \in Threads |-> <<>>]  BY <1>8 DEF Restarts, Restart
  <2>2. <<>> \in Seq(Frame) /\ Len(<<>>) = 0  BY EmptySeq
  <2>3. stack' \in [Threads -> Seq(Frame)] /\ Framed'  BY <2>1, <2>2 DEF Framed
  <2>4. Core'  BY <1>8 DEF Restarts, Restart, Core, Typed, TypeOK, Jwts, Keys
  <2>5. QED  BY <1>1, <1>8, <2>3, <2>4 DEF Typed, TypeOK, Core, Plain
<1>9. QED  BY <1>1, <1>3, <1>4, <1>5, <1>6, <1>7, <1>8 DEF Summary

LEMMA TypedInit == Init => Typed
<1>1. SUFFICES ASSUME Init PROVE Typed  OBVIOUS
<1>2. <<>> \in Seq(Frame) /\ Len(<<>>) = 0  BY EmptySeq
<1>3. stack \in [Threads -> Seq(Frame)] /\ Framed  BY <1>1, <1>2 DEF Init, Framed
<1>4. vault \in [Users -> SUBSET Keys]  BY <1>1, VaultsTyped DEF Init, Keys
<1>5. Core
  <2>1. jwt \in Jwts /\ key \in Keys  BY <1>1 DEF Init, Jwts, Keys
  <2>2. queued \in Nat /\ session = {} /\ raced \in BOOLEAN /\ alone \in BOOLEAN
    BY <1>1 DEF Init
  <2>3. logins \in 0 .. MaxLogins  BY <1>1, BoundsNat DEF Init
  <2>4. QED  BY <2>1, <2>2, <2>3 DEF Core
<1>6. Plain
  <2>1. answer \in TokenAnswers  BY <1>1 DEF Init, TokenAnswers
  <2>2. tasks \in 0 .. MaxTasks  BY <1>1, BoundsNat DEF Init
  <2>3. strayed \in BOOLEAN /\ turned \in BOOLEAN  BY <1>1 DEF Init
  <2>4. QED  BY <1>1, <1>4, <2>1, <2>2, <2>3 DEF Init, Plain
<1>7. QED  BY <1>3, <1>5, <1>6 DEF Typed, TypeOK, Core, Plain

(* Every variable keeps its type; the operations keep theirs through all   *)
(* nesting (TypeOK).                                                       *)
THEOREM Typing == Spec => []TypeOK
<1>1. Typed /\ [Next]_vars => Typed'  BY TypedKept
<1>2. Typed => TypeOK  BY DEF Typed
<1>3. QED  BY TypedInit, <1>1, <1>2, PTL DEF Spec


-----------------------------------------------------------------------------
(* The key and the JWT.  A login that nothing overlaps is alone in both    *)
(* threads, and carries the password of the session its JWT names from one *)
(* step to the next; any other login leaves its mark in raced.             *)

Old == /\ \A s \in session : s.id <= logins
       /\ \A t \in Threads : \A i \in 1 .. Len(stack[t]) :
            stack[t][i].op = "login" => stack[t][i].sid <= logins

RaceSeen == LoginRuns /\ ~alone => raced

First == \E i \in 1 .. MaxLogins : jwt = <<"first", i>>

(* How far a login that is alone has come.                                 *)
Progress(f) ==
    /\ f.step = "askLogin" => \A s \in session : s.id # f.sid
    /\ f.step \in {"exchange", "derive"} =>
         First /\ \A s \in session : jwt = <<"first", s.id>> => s.password = f.password
    /\ f.step = "post" =>
         First /\ \A s \in session : jwt = <<"first", s.id>> => s.password = key
    /\ f.step = "ask2fa" =>
         First /\ \A s \in session : f.jwt = <<"first", s.id>> => s.password = key

Only(t) == /\ Len(stack[t]) = 1 /\ stack[t][1].op = "login" /\ queued = 0
           /\ \A v \in Threads : v # t => stack[v] = <<>>

Solo == alone /\ LoginRuns => \E t \in Threads : Only(t) /\ Progress(stack[t][1])

AddFits == ~raced => \A i \in 1 .. Len(stack["gui"]) : Fits(stack["gui"][i])

Inv == Typed /\ Old /\ RaceSeen /\ Solo /\ KeyFitsJwt /\ AddFits

LEMMA StartKeeps ==
    ASSUME Inv, NEW t \in Threads, NEW u \in Users, NEW p \in {u, WrongKey},
           StartLogin(t, u, p)
    PROVE  Inv'
<1>1. Typed' /\ logins' = logins + 1  BY StartTyped DEF Inv
<1>2. PICK f : /\ Push(t, f) /\ Sound(f) /\ f.op = "login" /\ f.step = "askLogin"
               /\ f.sid = logins + 1
  BY StartTyped DEF Inv
<1>3. Len(stack[t]) \in Nat /\ logins \in Nat /\ \A s \in session : s.id \in Nat
  BY LenProperties, BoundsNat DEF Inv, Typed, TypeOK
<1>4. /\ \A v \in Threads : v # t => stack'[v] = stack[v]
      /\ Len(stack'[t]) = Len(stack[t]) + 1 /\ stack'[t][Len(stack[t]) + 1] = f
      /\ \A i \in 1 .. Len(stack[t]) : stack'[t][i] = stack[t][i]
  BY <1>2, PushEffect DEF Inv, Typed, Sound
<1>5. ASSUME NEW v \in Threads, NEW i \in 1 .. Len(stack'[v])
      PROVE  \/ i \in 1 .. Len(stack[v]) /\ stack'[v][i] = stack[v][i]
             \/ stack'[v][i] = f
  BY <1>3, <1>4
<1>6. /\ UNCHANGED <<jwt, key, session, queued>>
      /\ raced' = (raced \/ Busy) /\ alone' = ~Busy
  BY DEF StartLogin, client, server
<1>7. Old'
  <2>1. \A s \in session' : s.id <= logins'  BY <1>1, <1>3, <1>6 DEF Inv, Old
  <2>2. ASSUME NEW v \in Threads, NEW i \in 1 .. Len(stack'[v]), stack'[v][i].op = "login"
        PROVE  stack'[v][i].sid <= logins'
    <3>1. CASE i \in 1 .. Len(stack[v]) /\ stack'[v][i] = stack[v][i]
      <4>1. stack[v][i].sid \in Nat  BY <3>1, BoundsNat DEF Inv, Typed, Framed, Sound, Frame
      <4>2. stack[v][i].sid <= logins  BY <3>1, <2>2 DEF Inv, Old
      <4>3. QED  BY <3>1, <4>1, <4>2, <1>1, <1>3
    <3>2. CASE stack'[v][i] = f  BY <3>2, <1>1, <1>2, <1>3
    <3>3. QED  BY <3>1, <3>2, <1>5
  <2>3. QED  BY <2>1, <2>2 DEF Old
<1>8. RaceSeen'  BY <1>6 DEF RaceSeen
<1>9. Solo'
  <2>1. CASE Busy  BY <2>1, <1>6 DEF Solo
  <2>2. CASE ~Busy
    <3>1. queued = 0  BY <2>2 DEF Busy, Inv, Typed, TypeOK
    <3>2. \A v \in Threads : stack[v] = <<>>  BY <2>2 DEF Busy
    <3>3. Len(stack[t]) = 0  BY <3>2, EmptySeq
    <3>4. Only(t)'  BY <3>1, <3>2, <3>3, <1>2, <1>4, <1>6 DEF Only
    <3>5. \A s \in session : s.id # f.sid  BY <1>2, <1>3 DEF Inv, Old
    <3>6. Progress(f)'  BY <3>5, <1>2, <1>6 DEF Progress
    <3>7. stack'[t][1] = f  BY <3>3, <1>4
    <3>8. Progress(stack[t][1])'  BY <3>6, <3>7 DEF Progress, First
    <3>9. QED  BY <3>4, <3>8 DEF Solo
  <2>3. QED  BY <2>1, <2>2
<1>10. KeyFitsJwt'  BY <1>6 DEF Inv, KeyFitsJwt
<1>11. AddFits'
  <2>1. SUFFICES ASSUME ~raced', NEW i \in 1 .. Len(stack'["gui"])
                 PROVE  Fits(stack["gui"][i])'
    BY DEF AddFits
  <2>2. "gui" \in Threads /\ ~raced  BY <2>1, <1>6 DEF Threads
  <2>3. CASE i \in 1 .. Len(stack["gui"]) /\ stack'["gui"][i] = stack["gui"][i]
    BY <2>2, <2>3, <1>6 DEF Inv, AddFits, Fits
  <2>4. CASE stack'["gui"][i] = f  BY <2>4, <1>2 DEF Fits
  <2>5. QED  BY <2>2, <2>3, <2>4, <1>5
<1>12. QED  BY <1>1, <1>7, <1>8, <1>9, <1>10, <1>11 DEF Inv


(* What is no login starts none and touches none.                          *)
LEMMA LoginsStay ==
    ASSUME Typed, Works \/ Enters \/ Leaves \/ Idles,
           NEW t \in Threads, NEW i \in 1 .. Len(stack'[t])
    PROVE  \/ i \in 1 .. Len(stack[t]) /\ stack'[t][i] = stack[t][i]
           \/ /\ t = "gui" /\ stack'[t][i].op # "login"
              /\ \/ Works /\ Len(stack[t]) \in 1 .. Len(stack[t])
                          /\ (Fits(stack[t][Len(stack[t])]) => Fits(stack'[t][i]))
                 \/ Enters /\ stack'[t][i].step # "askAdd" /\ stack'[t][i].jwt \in {jwt, NoJwt}
<1>1. "gui" \in Threads  BY DEF Threads
<1>2. CASE Leaves \/ Idles  BY <1>2 DEF Leaves, Idles
<1>3. CASE Works
  <2>1. stack["gui"] # <<>>  BY <1>1, <1>3, TopSound DEF Works
  <2>2. Len(stack["gui"]) \in Nat \ {0} /\ Top("gui") = stack["gui"][Len(stack["gui"])]
    BY <1>1, <2>1, Tops DEF Typed, Top
  <2>3. CASE Pop("gui")
    <3>1. /\ \A v \in Threads : v # "gui" => stack'[v] = stack[v]
          /\ Len(stack'["gui"]) = Len(stack["gui"]) - 1
          /\ \A k \in 1 .. Len(stack["gui"]) - 1 : stack'["gui"][k] = stack["gui"][k]
      BY <1>1, <2>1, <2>3, PopEffect DEF Typed
    <3>2. CASE t = "gui"
      <4>1. i \in 1 .. Len(stack["gui"]) - 1 /\ i \in 1 .. Len(stack["gui"])
        BY <3>1, <3>2, <2>2
      <4>2. QED  BY <4>1, <3>1, <3>2
    <3>3. CASE t # "gui"  BY <3>1, <3>3
    <3>4. QED  BY <3>2, <3>3
  <2>4. CASE \E f : /\ Sound(f) /\ f.op # "login" /\ (Fits(Top("gui")) => Fits(f))
                    /\ Become("gui", f)
    <3>1. PICK f : /\ Sound(f) /\ f.op # "login" /\ (Fits(Top("gui")) => Fits(f))
                   /\ Become("gui", f)
      BY <2>4
    <3>2. /\ \A v \in Threads : v # "gui" => stack'[v] = stack[v]
          /\ Len(stack'["gui"]) = Len(stack["gui"])
          /\ stack'["gui"][Len(stack["gui"])] = f
          /\ \A k \in 1 .. Len(stack["gui"]) - 1 : stack'["gui"][k] = stack["gui"][k]
      BY <1>1, <2>1, <3>1, BecomeEffect DEF Typed, Sound
    <3>3. CASE t = "gui" /\ i = Len(stack["gui"])
      <4>1. stack'[t][i] = f /\ stack[t][Len(stack[t])] = Top("gui")
        BY <2>2, <3>2, <3>3
      <4>2. Len(stack[t]) \in 1 .. Len(stack[t])  BY <2>2, <3>3
      <4>3. QED  BY <4>1, <4>2, <3>1, <3>3, <1>3
    <3>4. CASE t = "gui" /\ i # Len(stack["gui"])
      <4>1. i \in 1 .. Len(stack["gui"]) - 1 /\ i \in 1 .. Len(stack["gui"])
        BY <3>2, <3>4, <2>2
      <4>2. QED  BY <4>1, <3>2, <3>4
    <3>5. CASE t # "gui"  BY <3>2, <3>5
    <3>6. QED  BY <3>3, <3>4, <3>5
  <2>5. QED  BY <1>3, <2>3, <2>4 DEF Works
<1>4. CASE Enters
  <2>1. PICK f : /\ Sound(f) /\ f.op # "login" /\ f.step # "askAdd"
                 /\ f.jwt \in {jwt, NoJwt} /\ Push("gui", f)
    BY <1>4 DEF Enters
  <2>2. Len(stack["gui"]) \in Nat  BY <1>1, LenProperties DEF Typed, TypeOK
  <2>3. /\ \A v \in Threads : v # "gui" => stack'[v] = stack[v]
        /\ Len(stack'["gui"]) = Len(stack["gui"]) + 1
        /\ stack'["gui"][Len(stack["gui"]) + 1] = f
        /\ \A k \in 1 .. Len(stack["gui"]) : stack'["gui"][k] = stack["gui"][k]
    BY <1>1, <2>1, PushEffect DEF Typed, Sound
  <2>4. CASE t = "gui" /\ i = Len(stack["gui"]) + 1
    BY <2>1, <2>3, <2>4, <1>4
  <2>5. CASE t = "gui" /\ i # Len(stack["gui"]) + 1
    <3>1. i \in 1 .. Len(stack["gui"])  BY <2>2, <2>3, <2>5
    <3>2. QED  BY <3>1, <2>3, <2>5
  <2>6. CASE t # "gui"  BY <2>3, <2>6
  <2>7. QED  BY <2>4, <2>5, <2>6
<1>5. QED  BY <1>2, <1>3, <1>4

LEMMA OthersKeep ==
    ASSUME Inv, Typed', Works \/ Enters \/ Leaves \/ Idles
    PROVE  Inv'
<1>1. LoginRuns' => LoginRuns
  <2>1. SUFFICES ASSUME NEW t \in Threads, NEW i \in 1 .. Len(stack'[t]),
                        stack'[t][i].op = "login"
                 PROVE  LoginRuns
    BY DEF LoginRuns
  <2>2. i \in 1 .. Len(stack[t]) /\ stack'[t][i] = stack[t][i]
    BY <2>1, LoginsStay DEF Inv
  <2>3. QED  BY <2>1, <2>2 DEF LoginRuns
<1>2. UNCHANGED <<session, logins>> /\ (~raced' => ~raced) /\ (alone' => alone)
  <2>1. CASE Works \/ Idles  BY <2>1 DEF Works, Idles, Kept
  <2>2. CASE Enters  BY <2>2 DEF Enters, Kept, Overlap
  <2>3. CASE Leaves  BY <2>3 DEF Leaves, Overlap
  <2>4. QED  BY <2>1, <2>2, <2>3
<1>3. LoginRuns => Busy
  <2>1. SUFFICES ASSUME NEW t \in Threads, NEW i \in 1 .. Len(stack[t]) PROVE stack[t] # <<>>
    BY DEF LoginRuns, Busy
  <2>2. Len(<<>>) = 0  BY EmptySeq
  <2>3. QED  BY <2>2
<1>4. Old'
  <2>1. \A s \in session' : s.id <= logins'  BY <1>2 DEF Inv, Old
  <2>2. ASSUME NEW t \in Threads, NEW i \in 1 .. Len(stack'[t]), stack'[t][i].op = "login"
        PROVE  stack'[t][i].sid <= logins'
    <3>1. i \in 1 .. Len(stack[t]) /\ stack'[t][i] = stack[t][i]
      BY <2>2, LoginsStay DEF Inv
    <3>2. QED  BY <3>1, <2>2, <1>2 DEF Inv, Old
  <2>3. QED  BY <2>1, <2>2 DEF Old
<1>5. RaceSeen'
  <2>1. SUFFICES ASSUME LoginRuns', ~alone' PROVE raced'  BY DEF RaceSeen
  <2>2. LoginRuns /\ Busy  BY <2>1, <1>1, <1>3
  <2>3. CASE alone' = alone /\ raced' = raced  BY <2>1, <2>2, <2>3 DEF Inv, RaceSeen
  <2>4. CASE Enters \/ Leaves  BY <2>2, <2>4 DEF Enters, Leaves, Overlap
  <2>5. QED  BY <2>3, <2>4 DEF Works, Idles
<1>6. Solo'
  <2>1. SUFFICES ASSUME alone', LoginRuns'
                 PROVE  \E t \in Threads : Only(t)' /\ Progress(stack[t][1])'
    BY DEF Solo
  <2>2. alone /\ LoginRuns /\ Busy  BY <2>1, <1>1, <1>2, <1>3
  <2>3. PICK t \in Threads : Only(t) /\ Progress(stack[t][1])  BY <2>2 DEF Inv, Solo
  <2>4. CASE Idles
    BY <2>3, <2>4 DEF Idles, Kept, Only, Progress, First
  <2>5. CASE Works
    <3>1. "gui" \in Threads  BY DEF Threads
    <3>2. stack["gui"] # <<>>  BY <3>1, <2>5, TopSound DEF Works, Inv
    <3>3. t = "gui"  BY <3>1, <3>2, <2>3 DEF Only
    <3>4. Top("gui").op = "login"  BY <3>3, <2>3 DEF Only, Top
    <3>5. Pop("gui")  BY <3>4, <2>5 DEF Works
    <3>6. /\ \A v \in Threads : v # "gui" => stack'[v] = stack[v]
          /\ Len(stack'["gui"]) = Len(stack["gui"]) - 1
      BY <3>1, <3>2, <3>5, PopEffect DEF Inv, Typed
    <3>7. \A v \in Threads : Len(stack'[v]) = 0  BY <3>3, <3>6, <2>3, EmptySeq DEF Only
    <3>8. ~LoginRuns'  BY <3>7 DEF LoginRuns
    <3>9. QED  BY <3>8, <2>1
  <2>6. ~Enters /\ ~Leaves  BY <2>1, <2>2 DEF Enters, Leaves, Overlap
  <2>7. QED  BY <2>4, <2>5, <2>6
<1>7. KeyFitsJwt'
  <2>1. CASE UNCHANGED <<jwt, key>>  BY <2>1, <1>2 DEF Inv, KeyFitsJwt
  <2>2. CASE jwt' = NoJwt  BY <2>2 DEF KeyFitsJwt, NoJwt
  <2>3. QED  BY <2>1, <2>2 DEF Works, Enters, Leaves, Idles, Kept
<1>8. AddFits'
  <2>1. SUFFICES ASSUME ~raced', NEW i \in 1 .. Len(stack'["gui"])
                 PROVE  Fits(stack["gui"][i])'
    BY DEF AddFits
  <2>2. "gui" \in Threads /\ ~raced  BY <2>1, <1>2 DEF Threads
  <2>3. \A k \in 1 .. Len(stack["gui"]) : Fits(stack["gui"][k])
    BY <2>2 DEF Inv, AddFits
  <2>4. CASE Leaves
    <3>1. ~Busy /\ stack' = stack  BY <2>1, <2>4 DEF Leaves, Overlap
    <3>2. stack["gui"] = <<>>  BY <3>1, <2>2 DEF Busy
    <3>3. QED  BY <3>1, <3>2, <2>1, EmptySeq
  <2>5. CASE ~Leaves
    <3>1. key' = key /\ jwt' = jwt  BY <2>5 DEF Works, Enters, Idles, Kept
    <3>2. CASE i \in 1 .. Len(stack["gui"]) /\ stack'["gui"][i] = stack["gui"][i]
      BY <3>1, <3>2, <2>3 DEF Fits
    <3>3. CASE /\ Len(stack["gui"]) \in 1 .. Len(stack["gui"])
               /\ (Fits(stack["gui"][Len(stack["gui"])]) => Fits(stack'["gui"][i]))
      BY <3>1, <3>3, <2>3 DEF Fits
    <3>4. CASE stack'["gui"][i].step # "askAdd" /\ stack'["gui"][i].jwt \in {jwt, NoJwt}
      <4>1. \A u \in Users : jwt = <<"full", u>> => key = u  BY <2>2 DEF Inv, KeyFitsJwt
      <4>2. \A u \in Users : NoJwt # <<"full", u>>  BY DEF NoJwt
      <4>3. \A u \in Users : stack'["gui"][i].jwt = <<"full", u>> => key' = u
        BY <3>1, <3>4, <4>1, <4>2
      <4>4. QED  BY <3>4, <4>3 DEF Fits
    <3>5. QED  BY <3>2, <3>3, <3>4, <2>2, LoginsStay DEF Inv
  <2>6. QED  BY <2>4, <2>5
<1>9. QED  BY <1>4, <1>5, <1>6, <1>7, <1>8 DEF Inv


(* A step of a login: the login is alone, or the overlap has been seen.    *)
LEMMA LoginTop ==
    ASSUME Inv, NEW t \in Threads, Doing(t) \in LoginSteps
    PROVE  /\ stack[t] # <<>> /\ Sound(Top(t)) /\ Top(t).step = Doing(t)
           /\ Top(t).op = "login" /\ Top(t).sid <= logins /\ LoginRuns
           /\ alone => Only(t) /\ Progress(Top(t))
           /\ ~alone => raced
<1>1. /\ stack[t] # <<>> /\ Doing(t) = Top(t).step /\ Sound(Top(t))
      /\ Top(t) = stack[t][Len(stack[t])] /\ Len(stack[t]) \in Nat \ {0}
  BY TopSound DEF Inv, LoginSteps
<1>2. Top(t).op = "login" /\ LoginRuns  BY <1>1 DEF Sound, LoginRuns
<1>3. Top(t).sid <= logins  BY <1>1, <1>2 DEF Inv, Old
<1>4. ASSUME alone  PROVE Only(t) /\ Progress(Top(t))
  <2>1. PICK v \in Threads : Only(v) /\ Progress(stack[v][1])  BY <1>2, <1>4 DEF Inv, Solo
  <2>2. v = t  BY <1>1, <2>1 DEF Only
  <2>3. Top(t) = stack[t][1]  BY <1>1, <2>1, <2>2 DEF Only
  <2>4. QED  BY <2>1, <2>2, <2>3
<1>5. QED  BY <1>1, <1>2, <1>3, <1>4 DEF Inv, RaceSeen

(* The sessions and the frame a step leaves behind are no newer than the   *)
(* last login.                                                             *)
LEMMA OldKept ==
    ASSUME Inv, NEW t \in Threads, stack[t] # <<>>, UNCHANGED logins,
           \A s \in session' : s.id <= logins,
           \/ Pop(t)
           \/ \E g \in Frame : Become(t, g) /\ (g.op = "login" => g.sid <= logins)
    PROVE  Old'
<1>1. Len(stack[t]) \in Nat \ {0}  BY Tops DEF Inv, Typed
<1>2. ASSUME NEW v \in Threads, NEW i \in 1 .. Len(stack'[v]), stack'[v][i].op = "login"
      PROVE  stack'[v][i].sid <= logins
  <2>1. CASE Pop(t)
    <3>1. /\ \A w \in Threads : w # t => stack'[w] = stack[w]
          /\ Len(stack'[t]) = Len(stack[t]) - 1
          /\ \A k \in 1 .. Len(stack[t]) - 1 : stack'[t][k] = stack[t][k]
      BY <2>1, PopEffect DEF Inv, Typed
    <3>2. i \in 1 .. Len(stack[v]) /\ stack'[v][i] = stack[v][i]  BY <1>1, <3>1
    <3>3. QED  BY <3>2, <1>2 DEF Inv, Old
  <2>2. CASE \E g \in Frame : Become(t, g) /\ (g.op = "login" => g.sid <= logins)
    <3>1. PICK g \in Frame : Become(t, g) /\ (g.op = "login" => g.sid <= logins)  BY <2>2
    <3>2. /\ \A w \in Threads : w # t => stack'[w] = stack[w]
          /\ Len(stack'[t]) = Len(stack[t]) /\ stack'[t][Len(stack[t])] = g
          /\ \A k \in 1 .. Len(stack[t]) - 1 : stack'[t][k] = stack[t][k]
      BY <3>1, BecomeEffect DEF Inv, Typed
    <3>3. \/ i \in 1 .. Len(stack[v]) /\ stack'[v][i] = stack[v][i]
          \/ stack'[v][i] = g
      BY <1>1, <3>2
    <3>4. QED  BY <3>1, <3>3, <1>2 DEF Inv, Old
  <2>3. QED  BY <2>1, <2>2
<1>3. QED  BY <1>2 DEF Old

(* Once operations have overlapped, no more is claimed.                    *)
LEMMA RacedKeep ==
    ASSUME Inv, raced', ~alone'
    PROVE  RaceSeen' /\ Solo' /\ KeyFitsJwt' /\ AddFits'
BY DEF RaceSeen, Solo, KeyFitsJwt, AddFits

LEMMA AloneBecome ==
    ASSUME Typed, NEW t \in Threads, Only(t), NEW g \in Frame, Become(t, g)
    PROVE  /\ Len(stack'[t]) = 1 /\ stack'[t][1] = g
           /\ \A v \in Threads : v # t => stack'[v] = <<>>
           /\ g.step \notin {"encrypt", "askAdd"} => AddFits'
           /\ g.op = "login" /\ queued' = queued => Only(t)'
           /\ g.op # "login" => ~LoginRuns'
<1>1. stack[t] # <<>>  BY EmptySeq DEF Only
<1>2. /\ \A v \in Threads : v # t => stack'[v] = stack[v]
      /\ Len(stack'[t]) = Len(stack[t]) /\ stack'[t][Len(stack[t])] = g
  BY <1>1, BecomeEffect DEF Typed
<1>3. /\ Len(stack'[t]) = 1 /\ stack'[t][1] = g
      /\ \A v \in Threads : v # t => stack'[v] = <<>>
  BY <1>2 DEF Only
<1>4. \A v \in Threads : \A i \in 1 .. Len(stack'[v]) : v = t /\ stack'[v][i] = g
  BY <1>3, EmptySeq
<1>5. ASSUME g.step \notin {"encrypt", "askAdd"}  PROVE AddFits'
  <2>1. "gui" \in Threads  BY DEF Threads
  <2>2. \A i \in 1 .. Len(stack'["gui"]) : stack'["gui"][i] = g  BY <2>1, <1>4
  <2>3. \A i \in 1 .. Len(stack'["gui"]) : Fits(stack["gui"][i])'
    BY <2>2, <1>5 DEF Fits
  <2>4. QED  BY <2>3 DEF AddFits
<1>6. ASSUME g.op # "login"  PROVE ~LoginRuns'  BY <1>4, <1>6 DEF LoginRuns
<1>7. ASSUME g.op = "login", queued' = queued  PROVE Only(t)'
  BY <1>3, <1>7 DEF Only
<1>8. QED  BY <1>3, <1>5, <1>6, <1>7

LEMMA AlonePop ==
    ASSUME Typed, NEW t \in Threads, Only(t), Pop(t)
    PROVE  ~LoginRuns' /\ AddFits'
<1>1. stack[t] # <<>>  BY EmptySeq DEF Only
<1>2. /\ \A v \in Threads : v # t => stack'[v] = stack[v]
      /\ Len(stack'[t]) = Len(stack[t]) - 1
  BY <1>1, PopEffect DEF Typed
<1>3. \A v \in Threads : Len(stack'[v]) = 0  BY <1>2, EmptySeq DEF Only
<1>4. "gui" \in Threads  BY DEF Threads
<1>5. QED  BY <1>3, <1>4 DEF LoginRuns, AddFits


LEMMA AnsweredKeeps ==
    ASSUME Inv, NEW t \in Threads, LoginAnswered(t)
    PROVE  Inv'
<1>1. /\ stack[t] # <<>> /\ Sound(Top(t)) /\ Top(t).step = "askLogin"
      /\ Top(t).op = "login" /\ Top(t).sid <= logins
      /\ (alone => Only(t) /\ Progress(Top(t))) /\ (~alone => raced)
  BY LoginTop DEF LoginAnswered, LoginSteps
<1>2. Typed'  BY AnsweredTyped DEF Inv
<1>3. PICK f : f = Top(t)  OBVIOUS
<1>4. f \in Frame /\ f.sid \in 1 .. MaxLogins  BY <1>1, <1>3 DEF Sound
<1>5. UNCHANGED <<key, queued, logins, raced, alone>>  BY DEF LoginAnswered, history
<1>6. CASE UNCHANGED <<session, jwt>> /\ (Pop(t) \/ Become(t, [f EXCEPT !.step = "box"]))
  <2>1. PICK g : g = [f EXCEPT !.step = "box"]  OBVIOUS
  <2>2. g \in Frame /\ g.op = f.op /\ g.step = "box" /\ g.sid = f.sid
    BY <1>4, <2>1 DEF Frame, Boxes
  <2>3. Old'
    BY <1>1, <1>3, <1>5, <1>6, <2>1, <2>2, OldKept DEF Inv, Old
  <2>4. CASE ~alone  BY <1>1, <1>2, <1>5, <2>3, <2>4, RacedKeep DEF Inv
  <2>5. CASE alone
    <3>1. RaceSeen' /\ KeyFitsJwt'  BY <1>5, <1>6, <2>5 DEF Inv, RaceSeen, KeyFitsJwt
    <3>2. CASE Pop(t)
      BY <1>1, <1>2, <2>3, <2>5, <3>1, <3>2, AlonePop DEF Inv, Solo
    <3>3. CASE Become(t, g)
      <4>1. Only(t)' /\ stack'[t][1] = g /\ AddFits'
        BY <1>1, <1>3, <1>5, <2>2, <2>5, <3>3, AloneBecome DEF Inv
      <4>2. Progress(g)'  BY <2>2 DEF Progress
      <4>3. Progress(stack[t][1])'  BY <4>1, <4>2
      <4>4. QED  BY <1>2, <2>3, <3>1, <4>1, <4>3 DEF Inv, Solo
    <3>4. QED  BY <1>6, <2>1, <3>2, <3>3
  <2>6. QED  BY <2>4, <2>5
<1>7. CASE /\ session' = session \cup
                {[id |-> f.sid, user |-> f.user, password |-> f.password]}
           /\ jwt' = <<"first", f.sid>>
           /\ Become(t, [f EXCEPT !.step = "exchange", !.user = NoKey])
  <2>1. PICK g : g = [f EXCEPT !.step = "exchange", !.user = NoKey]  OBVIOUS
  <2>2. /\ g \in Frame /\ g.op = f.op /\ g.step = "exchange" /\ g.sid = f.sid
        /\ g.password = f.password
    BY <1>4, <2>1 DEF Frame
  <2>3. \A s \in session' : s \in session \/ (s.id = f.sid /\ s.password = f.password)
    BY <1>7
  <2>4. Old'
    <3>1. \A s \in session' : s.id <= logins  BY <1>1, <1>3, <2>3 DEF Inv, Old
    <3>2. QED  BY <1>1, <1>3, <1>5, <1>7, <2>1, <2>2, <3>1, OldKept
  <2>5. CASE ~alone  BY <1>1, <1>2, <1>5, <2>4, <2>5, RacedKeep DEF Inv
  <2>6. CASE alone
    <3>1. RaceSeen' /\ KeyFitsJwt'  BY <1>5, <1>7, <2>6 DEF RaceSeen, KeyFitsJwt
    <3>2. Only(t)' /\ stack'[t][1] = g /\ AddFits'
      BY <1>1, <1>3, <1>5, <1>7, <2>1, <2>2, <2>6, AloneBecome DEF Inv
    <3>3. First'  BY <1>4, <1>7 DEF First
    <3>4. \A s \in session : s.id # f.sid  BY <1>1, <1>3, <2>6 DEF Progress
    <3>5. \A s \in session' : jwt' = <<"first", s.id>> => s.password = g.password
      BY <1>7, <2>2, <2>3, <3>4
    <3>6. Progress(g)'  BY <2>2, <3>3, <3>5 DEF Progress
    <3>7. Progress(stack[t][1])'  BY <3>2, <3>6
    <3>8. QED  BY <1>2, <2>4, <3>1, <3>2, <3>7 DEF Inv, Solo
  <2>7. QED  BY <2>5, <2>6
<1>8. QED  BY <1>3, <1>6, <1>7 DEF LoginAnswered

LEMMA ExchangeKeeps ==
    ASSUME Inv, NEW t \in Threads, Exchange(t)
    PROVE  Inv'
<1>1. /\ stack[t] # <<>> /\ Sound(Top(t)) /\ Top(t).step = "exchange"
      /\ Top(t).op = "login"
      /\ (alone => Only(t) /\ Progress(Top(t))) /\ (~alone => raced)
  BY LoginTop DEF Exchange, LoginSteps
<1>2. Typed'  BY ExchangeTyped DEF Inv
<1>3. PICK f : f = Top(t)  OBVIOUS
<1>4. UNCHANGED <<jwt, key, queued, session, logins, raced, alone>>
  BY DEF Exchange, server, history
<1>5. PICK g : g = [f EXCEPT !.step = "derive", !.sid = 0]  OBVIOUS
<1>6. /\ g \in Frame /\ g.op = f.op /\ g.step = "derive" /\ g.sid = 0
      /\ g.password = f.password
  <2>1. f \in Frame /\ 0 \in 0 .. MaxLogins  BY <1>1, <1>3, BoundsNat DEF Sound
  <2>2. QED  BY <1>5, <2>1 DEF Frame
<1>7. Become(t, g)  BY <1>3, <1>5 DEF Exchange
<1>8. Old'
  <2>1. 0 <= logins  BY BoundsNat DEF Inv, Typed, TypeOK
  <2>2. QED  BY <1>1, <1>4, <1>6, <1>7, <2>1, OldKept DEF Inv, Old
<1>9. CASE ~alone  BY <1>1, <1>2, <1>4, <1>8, <1>9, RacedKeep DEF Inv
<1>10. CASE alone
  <2>1. RaceSeen' /\ KeyFitsJwt'  BY <1>4, <1>10 DEF Inv, RaceSeen, KeyFitsJwt
  <2>2. Only(t)' /\ stack'[t][1] = g /\ AddFits'
    BY <1>1, <1>3, <1>4, <1>6, <1>7, <1>10, AloneBecome DEF Inv
  <2>3. Progress(g)'  BY <1>1, <1>3, <1>4, <1>6, <1>10 DEF Progress, First
  <2>4. Progress(stack[t][1])'  BY <2>2, <2>3
  <2>5. QED  BY <1>2, <1>8, <2>1, <2>2, <2>4 DEF Inv, Solo
<1>11. QED  BY <1>9, <1>10

LEMMA DeriveKeeps ==
    ASSUME Inv, NEW t \in Threads, Derive(t)
    PROVE  Inv'
<1>1. /\ stack[t] # <<>> /\ Sound(Top(t)) /\ Top(t).step = "derive"
      /\ Top(t).op = "login" /\ Top(t).sid <= logins
      /\ (alone => Only(t) /\ Progress(Top(t))) /\ (~alone => raced)
  BY LoginTop DEF Derive, LoginSteps
<1>2. Typed'  BY DeriveTyped DEF Inv
<1>3. PICK f : f = Top(t)  OBVIOUS
<1>4. UNCHANGED <<jwt, queued, session, logins, raced, alone>> /\ key' = f.password
  BY <1>3 DEF Derive, server, history
<1>5. PICK g : g = [f EXCEPT !.step = "post", !.password = NoKey]  OBVIOUS
<1>6. g \in Frame /\ g.op = f.op /\ g.step = "post" /\ g.sid = f.sid
  <2>1. f \in Frame  BY <1>1, <1>3 DEF Sound
  <2>2. QED  BY <1>5, <2>1 DEF Frame, Keys
<1>7. Become(t, g)  BY <1>3, <1>5 DEF Derive
<1>8. Old'  BY <1>1, <1>3, <1>4, <1>6, <1>7, OldKept DEF Inv, Old
<1>9. CASE ~alone  BY <1>1, <1>2, <1>4, <1>8, <1>9, RacedKeep DEF Inv
<1>10. CASE alone
  <2>1. First /\ \A s \in session : jwt = <<"first", s.id>> => s.password = f.password
    BY <1>1, <1>3, <1>10 DEF Progress
  <2>2. RaceSeen'  BY <1>4, <1>10 DEF RaceSeen
  <2>3. KeyFitsJwt'  BY <1>4, <2>1 DEF KeyFitsJwt, First
  <2>4. Only(t)' /\ stack'[t][1] = g /\ AddFits'
    BY <1>1, <1>3, <1>4, <1>6, <1>7, <1>10, AloneBecome DEF Inv
  <2>5. Progress(g)'  BY <1>4, <1>6, <2>1 DEF Progress, First
  <2>6. Progress(stack[t][1])'  BY <2>4, <2>5
  <2>7. QED  BY <1>2, <1>8, <2>2, <2>3, <2>4, <2>6 DEF Inv, Solo
<1>11. QED  BY <1>9, <1>10

LEMMA PostKeeps ==
    ASSUME Inv, NEW t \in Threads, Post2fa(t)
    PROVE  Inv'
<1>1. /\ stack[t] # <<>> /\ Sound(Top(t)) /\ Top(t).step = "post"
      /\ Top(t).op = "login" /\ Top(t).sid <= logins
      /\ (alone => Only(t) /\ Progress(Top(t))) /\ (~alone => raced)
  BY LoginTop DEF Post2fa, LoginSteps
<1>2. Typed'  BY PostTyped DEF Inv
<1>3. PICK f : f = Top(t)  OBVIOUS
<1>4. UNCHANGED <<jwt, key, queued, session, logins, raced, alone>>
  BY DEF Post2fa, client, server, history
<1>5. PICK g : g = [f EXCEPT !.step = "ask2fa", !.jwt = jwt, !.answer = answer]  OBVIOUS
<1>6. g \in Frame /\ g.op = f.op /\ g.step = "ask2fa" /\ g.sid = f.sid /\ g.jwt = jwt
  <2>1. f \in Frame /\ jwt \in Jwts /\ answer \in TokenAnswers
    BY <1>1, <1>3 DEF Sound, Inv, Typed, TypeOK
  <2>2. QED  BY <1>5, <2>1 DEF Frame, Asking
<1>7. Become(t, g)  BY <1>3, <1>5 DEF Post2fa
<1>8. Old'  BY <1>1, <1>3, <1>4, <1>6, <1>7, OldKept DEF Inv, Old
<1>9. CASE ~alone  BY <1>1, <1>2, <1>4, <1>8, <1>9, RacedKeep DEF Inv
<1>10. CASE alone
  <2>1. RaceSeen' /\ KeyFitsJwt'  BY <1>4, <1>10 DEF Inv, RaceSeen, KeyFitsJwt
  <2>2. Only(t)' /\ stack'[t][1] = g /\ AddFits'
    BY <1>1, <1>3, <1>4, <1>6, <1>7, <1>10, AloneBecome DEF Inv
  <2>3. Progress(g)'  BY <1>1, <1>3, <1>4, <1>6, <1>10 DEF Progress, First
  <2>4. Progress(stack[t][1])'  BY <2>2, <2>3
  <2>5. QED  BY <1>2, <1>8, <2>1, <2>2, <2>4 DEF Inv, Solo
<1>11. QED  BY <1>9, <1>10


LEMMA GrantedKeeps ==
    ASSUME Inv, NEW t \in Threads, Granted(t)
    PROVE  Inv'
<1>1. /\ stack[t] # <<>> /\ Sound(Top(t)) /\ Top(t).step = "ask2fa"
      /\ Top(t).op = "login"
      /\ (alone => Only(t) /\ Progress(Top(t))) /\ (~alone => raced)
  BY LoginTop DEF Granted, LoginSteps
<1>2. Typed'  BY GrantedTyped DEF Inv
<1>3. PICK f : f = Top(t)  OBVIOUS
<1>4. PICK s \in Passes(f) : session' = session \ {s} /\ jwt' = <<"full", s.user>>
  BY <1>3 DEF Granted
<1>5. /\ s \in session /\ s.user \in Users /\ f.jwt = <<"first", s.id>>
      /\ s.password = s.user
  BY <1>4 DEF Passes, Inv, Typed, TypeOK
<1>6. UNCHANGED <<key, logins, alone>> /\ raced' = (raced /\ ~alone)  BY DEF Granted
<1>7. \/ Pop(t)
      \/ \E g \in Frame : /\ Become(t, g) /\ g.op = "load" /\ g.step = "askSites"
  <2>1. CASE t = "gui"
    <3>1. PICK n : n = NewFrame  OBVIOUS
    <3>2. n \in Frame /\ n.op = "load" /\ n.step = "askSites"
      BY <3>1, NewTyped DEF Inv, Typed
    <3>3. PICK j : j = jwt'  OBVIOUS
    <3>4. j \in Jwts  BY <1>2, <3>3 DEF Typed, TypeOK
    <3>5. PICK g : g = [n EXCEPT !.jwt = j]  OBVIOUS
    <3>6. g \in Frame /\ g.op = "load" /\ g.step = "askSites"
      BY <3>2, <3>4, <3>5, SetJwt
    <3>7. Become(t, g)  BY <2>1, <3>1, <3>3, <3>5 DEF Granted
    <3>8. QED  BY <3>6, <3>7
  <2>2. CASE t # "gui"  BY <2>2 DEF Granted
  <2>3. QED  BY <2>1, <2>2
<1>8. Old'
  <2>1. \A r \in session' : r.id <= logins  BY <1>4 DEF Inv, Old
  <2>2. QED  BY <1>1, <1>6, <1>7, <2>1, OldKept
<1>9. CASE ~alone  BY <1>1, <1>2, <1>6, <1>8, <1>9, RacedKeep DEF Inv
<1>10. CASE alone
  <2>1. s.password = key
    BY <1>1, <1>3, <1>5, <1>10 DEF Progress
  <2>2. KeyFitsJwt'  BY <1>4, <1>5, <1>6, <2>1 DEF KeyFitsJwt
  <2>3. ~LoginRuns' /\ AddFits'
    <3>1. CASE Pop(t)  BY <1>1, <1>10, <3>1, AlonePop DEF Inv
    <3>2. CASE \E g \in Frame : Become(t, g) /\ g.op = "load" /\ g.step = "askSites"
      BY <1>1, <1>10, <3>2, AloneBecome DEF Inv
    <3>3. QED  BY <1>7, <3>1, <3>2
  <2>4. RaceSeen' /\ Solo'  BY <2>3 DEF RaceSeen, Solo
  <2>5. QED  BY <1>2, <1>8, <2>2, <2>3, <2>4 DEF Inv
<1>11. QED  BY <1>9, <1>10

LEMMA RefusedKeeps ==
    ASSUME Inv, NEW t \in Threads, Refused(t)
    PROVE  Inv'
<1>1. /\ stack[t] # <<>> /\ Sound(Top(t)) /\ Top(t).step = "ask2fa"
      /\ Top(t).op = "login" /\ Top(t).sid <= logins
      /\ (alone => Only(t) /\ Progress(Top(t))) /\ (~alone => raced)
  BY LoginTop DEF Refused, LoginSteps
<1>2. Typed'  BY RefusedTyped DEF Inv
<1>3. PICK f : f = Top(t)  OBVIOUS
<1>4. UNCHANGED <<key, queued, session, logins, raced, alone>> /\ jwt' = NoJwt
  BY DEF Refused, server
<1>5. PICK g : g = [f EXCEPT !.step = "box"]  OBVIOUS
<1>6. g \in Frame /\ g.op = f.op /\ g.step = "box" /\ g.sid = f.sid
  <2>1. f \in Frame  BY <1>1, <1>3 DEF Sound
  <2>2. QED  BY <1>5, <2>1 DEF Frame, Boxes
<1>7. Become(t, g) \/ Pop(t)  BY <1>3, <1>5 DEF Refused
<1>8. Old'  BY <1>1, <1>3, <1>4, <1>6, <1>7, OldKept DEF Inv, Old
<1>9. CASE ~alone  BY <1>1, <1>2, <1>4, <1>8, <1>9, RacedKeep DEF Inv
<1>10. CASE alone
  <2>1. RaceSeen' /\ KeyFitsJwt'  BY <1>4, <1>10 DEF RaceSeen, KeyFitsJwt, NoJwt
  <2>2. CASE Pop(t)
    BY <1>1, <1>2, <1>8, <1>10, <2>1, <2>2, AlonePop DEF Inv, Solo
  <2>3. CASE Become(t, g)
    <3>1. Only(t)' /\ stack'[t][1] = g /\ AddFits'
      BY <1>1, <1>3, <1>4, <1>6, <1>10, <2>3, AloneBecome DEF Inv
    <3>2. Progress(g)'  BY <1>6 DEF Progress
    <3>3. Progress(stack[t][1])'  BY <3>1, <3>2
    <3>4. QED  BY <1>2, <1>8, <2>1, <3>1, <3>3 DEF Inv, Solo
  <2>4. QED  BY <1>7, <2>2, <2>3
<1>11. QED  BY <1>9, <1>10

LEMMA RestartKeeps ==
    ASSUME Inv, Typed', Restarts
    PROVE  Inv'
<1>1. \A t \in Threads : stack'[t] = <<>>  BY DEF Restarts, Restart
<1>2. \A t \in Threads : Len(stack'[t]) = 0  BY <1>1, EmptySeq
<1>3. ~LoginRuns'  BY <1>2 DEF LoginRuns
<1>4. Old'  BY <1>2 DEF Restarts, Inv, Old
<1>5. KeyFitsJwt'  BY DEF Restarts, Restart, KeyFitsJwt, NoJwt
<1>6. "gui" \in Threads  BY DEF Threads
<1>7. AddFits'  BY <1>2, <1>6 DEF AddFits
<1>8. QED  BY <1>3, <1>4, <1>5, <1>7 DEF Inv, RaceSeen, Solo

LEMMA InvKept ==
    ASSUME Inv, [Next]_vars
    PROVE  Inv'
<1>1. Typed' /\ Summary  BY TypedKept DEF Inv
<1>2. CASE Starts  BY <1>2, StartKeeps DEF Starts
<1>3. CASE \E t \in Threads : LoginStep(t)
  BY <1>3, AnsweredKeeps, ExchangeKeeps, DeriveKeeps, PostKeeps, GrantedKeeps, RefusedKeeps
     DEF LoginStep
<1>4. CASE Works \/ Enters \/ Leaves \/ Idles  BY <1>1, <1>4, OthersKeep
<1>5. CASE Restarts  BY <1>1, <1>5, RestartKeeps
<1>6. QED  BY <1>1, <1>2, <1>3, <1>4, <1>5 DEF Summary

LEMMA InvInit == Init => Inv
<1>1. SUFFICES ASSUME Init PROVE Inv  OBVIOUS
<1>2. Typed  BY <1>1, TypedInit
<1>3. \A t \in Threads : Len(stack[t]) = 0  BY <1>1, EmptySeq DEF Init
<1>4. ~LoginRuns  BY <1>3 DEF LoginRuns
<1>5. Old  BY <1>1, <1>3 DEF Init, Old
<1>6. KeyFitsJwt  BY <1>1 DEF Init, KeyFitsJwt, NoJwt
<1>7. "gui" \in Threads  BY DEF Threads
<1>8. AddFits  BY <1>3, <1>7 DEF AddFits
<1>9. QED  BY <1>2, <1>4, <1>5, <1>6, <1>8 DEF Inv, RaceSeen, Solo

(* The key in memory is that of the user the JWT names, unless operations  *)
(* have overlapped since the last login that ran alone (KeyFitsJwt).       *)
THEOREM KeyFits == Spec => []KeyFitsJwt
<1>1. Inv /\ [Next]_vars => Inv'  BY InvKept
<1>2. Inv => KeyFitsJwt  BY DEF Inv
<1>3. QED  BY InvInit, <1>1, <1>2, PTL DEF Spec

(* The vaults change in an addition and in a deletion only.                *)
LEMMA AddedReadable ==
    ASSUME Inv, [Next]_vars
    PROVE  raced \/ \A u \in Users : vault'[u] \ vault[u] \subseteq {u}
<1>1. CASE AddAnswered
  <2>1. "gui" \in Threads /\ Doing("gui") = "askAdd"
    BY <1>1 DEF AddAnswered, Threads
  <2>2. Top("gui").step = "askAdd" /\ Top("gui") = stack["gui"][Len(stack["gui"])]
        /\ Len(stack["gui"]) \in Nat \ {0}
    BY <2>1, TopSound DEF Inv
  <2>3. SUFFICES ASSUME ~raced PROVE \A u \in Users : vault'[u] \ vault[u] \subseteq {u}
    OBVIOUS
  <2>4. Fits(Top("gui"))  BY <2>2, <2>3 DEF Inv, AddFits
  <2>5. \A u \in Users : Top("gui").jwt = <<"full", u>> => Top("gui").key = u
    BY <2>2, <2>4 DEF Fits
  <2>6. \/ vault' = vault
        \/ \E u \in Users : vault' = [vault EXCEPT ![u] = @ \cup {u}]
    BY <1>1, <2>5 DEF AddAnswered
  <2>7. QED  BY <2>6 DEF Inv, Typed, TypeOK
<1>2. CASE ChangeAnswered
  <2>1. \/ vault' = vault
        \/ \E u \in Users, k \in {Top("gui").key} : vault' = [vault EXCEPT ![u] = @ \ {k}]
    BY <1>2 DEF ChangeAnswered
  <2>2. QED  BY <2>1 DEF Inv, Typed, TypeOK
<1>3. CASE vault' = vault  BY <1>3
<1>4. ASSUME NEW t \in Threads, LoginStep(t)  PROVE vault' = vault
  BY <1>4 DEF LoginStep, LoginAnswered, Exchange, Derive, Post2fa, Granted, Refused, server
<1>5. ASSUME GuiStep  PROVE AddAnswered \/ ChangeAnswered \/ vault' = vault
  BY <1>5 DEF GuiStep, SitesAnswered, AccountsAnswered, EncryptWithKey, RegisterAnswered,
              CloseBox, server
<1>6. ASSUME NEW u \in Users, NEW p \in {u, WrongKey}, GuiLogin(u, p) \/ BrowserLogin(u, p)
      PROVE  vault' = vault
  BY <1>6 DEF GuiLogin, BrowserLogin, StartLogin, server
<1>7. ASSUME AddAccount \/ DeleteAccount \/ ChangeAccount \/ Register \/ BrowserSignal
      PROVE  vault' = vault
  BY <1>7 DEF AddAccount, DeleteAccount, ChangeAccount, Register, BrowserSignal, StartTask, server
<1>8. ASSUME \/ LogoutButton \/ TokenGone \/ TurnPage \/ UNCHANGED vars
             \/ \E u \in Users : TokenCame(u)
      PROVE  vault' = vault
  BY <1>8 DEF LogoutButton, TokenGone, Logout, TurnPage, Turn, TokenCame, vars, server
<1>9. QED  BY <1>1, <1>2, <1>3, <1>4, <1>5, <1>6, <1>7, <1>8 DEF Next

(* What is added can be read again by its owner, unless operations overlap *)
(* (StoredReadable).                                                       *)
THEOREM AdditionsReadable == Spec => StoredReadable
<1>1. Inv /\ [Next]_vars => Inv'  BY InvKept
<1>2. Inv /\ [Next]_vars =>
        [raced \/ \A u \in Users : vault'[u] \ vault[u] \subseteq {u}]_vars
  BY AddedReadable
<1>3. QED  BY InvInit, <1>1, <1>2, PTL DEF Spec, StoredReadable

-----------------------------------------------------------------------------
(* The JWT and the page.  A JWT that is there while no page of a session   *)
(* is shown is that of a login on its way, or of one whose signal is.      *)

Underway == LoginSteps \ {"askLogin"}

Outstanding ==
    \/ queued > 0
    \/ \E t \in Threads : \E i \in 1 .. Len(stack[t]) : stack[t][i].step \in Underway

InSession == page \in {"manager", "addaccount"}

Outside == ~InSession /\ jwt # NoJwt => turned \/ Outstanding

(* What a step leaves of the frames.                                       *)
LEMMA FramesPushed ==
    ASSUME Typed, NEW t \in Threads, NEW g \in Frame, Push(t, g)
    PROVE  /\ \A v \in Threads : \A i \in 1 .. Len(stack[v]) :
                i \in 1 .. Len(stack'[v]) /\ stack'[v][i] = stack[v][i]
           /\ \A v \in Threads : \A i \in 1 .. Len(stack'[v]) :
                \/ i \in 1 .. Len(stack[v]) /\ stack'[v][i] = stack[v][i]
                \/ v = t /\ stack'[v][i] = g
<1>1. Len(stack[t]) \in Nat  BY LenProperties DEF Typed, TypeOK
<1>2. /\ \A v \in Threads : v # t => stack'[v] = stack[v]
      /\ Len(stack'[t]) = Len(stack[t]) + 1 /\ stack'[t][Len(stack[t]) + 1] = g
      /\ \A i \in 1 .. Len(stack[t]) : stack'[t][i] = stack[t][i]
  BY PushEffect DEF Typed
<1>3. \A i \in 1 .. Len(stack'[t]) : i \in 1 .. Len(stack[t]) \/ i = Len(stack[t]) + 1
  BY <1>1, <1>2
<1>4. \A i \in 1 .. Len(stack[t]) : i \in 1 .. Len(stack'[t])  BY <1>1, <1>2
<1>5. QED  BY <1>2, <1>3, <1>4

LEMMA FramesBecome ==
    ASSUME Typed, NEW t \in Threads, stack[t] # <<>>, NEW g \in Frame, Become(t, g)
    PROVE  /\ \A v \in Threads : \A i \in 1 .. Len(stack[v]) :
                /\ i \in 1 .. Len(stack'[v])
                /\ \/ stack'[v][i] = stack[v][i]
                   \/ v = t /\ stack[v][i] = Top(t) /\ stack'[v][i] = g
           /\ \A v \in Threads : \A i \in 1 .. Len(stack'[v]) :
                \/ i \in 1 .. Len(stack[v]) /\ stack'[v][i] = stack[v][i]
                \/ v = t /\ stack'[v][i] = g
           /\ Len(stack'[t]) \in 1 .. Len(stack'[t]) /\ stack'[t][Len(stack'[t])] = g
<1>1. Len(stack[t]) \in Nat \ {0}  BY Tops DEF Typed
<1>2. /\ \A v \in Threads : v # t => stack'[v] = stack[v]
      /\ Len(stack'[t]) = Len(stack[t]) /\ stack'[t][Len(stack[t])] = g
      /\ \A i \in 1 .. Len(stack[t]) - 1 : stack'[t][i] = stack[t][i]
  BY BecomeEffect DEF Typed
<1>3. \A i \in 1 .. Len(stack[t]) : i \in 1 .. Len(stack[t]) - 1 \/ i = Len(stack[t])
  BY <1>1
<1>4. Len(stack'[t]) \in 1 .. Len(stack'[t])  BY <1>1, <1>2
<1>5. QED  BY <1>2, <1>3, <1>4 DEF Top

LEMMA FramesPopped ==
    ASSUME Typed, NEW t \in Threads, stack[t] # <<>>, Pop(t)
    PROVE  /\ \A v \in Threads : \A i \in 1 .. Len(stack[v]) :
                \/ i \in 1 .. Len(stack'[v]) /\ stack'[v][i] = stack[v][i]
                \/ v = t /\ stack[v][i] = Top(t)
           /\ \A v \in Threads : \A i \in 1 .. Len(stack'[v]) :
                i \in 1 .. Len(stack[v]) /\ stack'[v][i] = stack[v][i]
<1>1. Len(stack[t]) \in Nat \ {0}  BY Tops DEF Typed
<1>2. /\ \A v \in Threads : v # t => stack'[v] = stack[v]
      /\ Len(stack'[t]) = Len(stack[t]) - 1
      /\ \A i \in 1 .. Len(stack[t]) - 1 : stack'[t][i] = stack[t][i]
  BY PopEffect DEF Typed
<1>3. \A i \in 1 .. Len(stack[t]) : i \in 1 .. Len(stack[t]) - 1 \/ i = Len(stack[t])
  BY <1>1
<1>4. \A i \in 1 .. Len(stack[t]) - 1 : i \in 1 .. Len(stack[t])  BY <1>1
<1>5. QED  BY <1>2, <1>3, <1>4 DEF Top

(* A login that is under way is not touched by what is no step of it.      *)
LEMMA UnderwayStays ==
    ASSUME Typed, Starts \/ Works \/ Enters \/ Idles,
           NEW t \in Threads, NEW i \in 1 .. Len(stack[t]), stack[t][i].step \in Underway
    PROVE  i \in 1 .. Len(stack'[t]) /\ stack'[t][i] = stack[t][i]
<1>1. "gui" \in Threads  BY DEF Threads
<1>2. CASE Starts
  <2>1. PICK v \in Threads, u \in Users : \E p \in {u, WrongKey} : StartLogin(v, u, p)
    BY <1>2 DEF Starts
  <2>2. PICK p \in {u, WrongKey} : StartLogin(v, u, p)  BY <2>1
  <2>3. PICK f : Push(v, f) /\ Sound(f)  BY <2>2, StartTyped
  <2>4. QED  BY <2>3, FramesPushed DEF Sound
<1>3. CASE Enters  BY <1>1, <1>3, FramesPushed DEF Enters, Sound
<1>4. CASE Works
  <2>1. stack["gui"] # <<>> /\ Top("gui").step \notin Underway
    BY <1>1, <1>4, TopSound DEF Works, Underway
  <2>2. QED  BY <1>1, <1>4, <2>1, FramesBecome, FramesPopped DEF Works, Sound
<1>5. CASE Idles  BY <1>5 DEF Idles
<1>6. QED  BY <1>2, <1>3, <1>4, <1>5

(* What the steps that are none of a login do to the page and the JWT.     *)
Aside == \/ InSession' \/ jwt' = NoJwt \/ turned'
         \/ UNCHANGED <<jwt, queued, turned>> /\ ~InSession

LEMMA StepsAside ==
    ASSUME Typed, [Next]_vars
    PROVE  (\E t \in Threads : LoginStep(t)) \/ (Aside /\ Summary)
<1>1. Summary  BY TypedKept
<1>2. ASSUME NEW u \in Users, NEW p \in {u, WrongKey}, GuiLogin(u, p) \/ BrowserLogin(u, p)
      PROVE  Aside
  BY <1>2 DEF GuiLogin, BrowserLogin, StartLogin, Aside, InSession, client
<1>3. ASSUME BrowserSignal  PROVE Aside  BY <1>3 DEF BrowserSignal, Aside, InSession
<1>4. ASSUME SitesAnswered  PROVE Aside
  BY <1>4 DEF SitesAnswered, Restart, Aside, InSession, client, history
<1>5. ASSUME AccountsAnswered \/ EncryptWithKey \/ AddAnswered \/ ChangeAnswered \/ CloseBox
      PROVE  Aside
  BY <1>5 DEF AccountsAnswered, EncryptWithKey, AddAnswered, ChangeAnswered, CloseBox,
              Aside, InSession, client, history
<1>6. ASSUME RegisterAnswered  PROVE Aside
  BY <1>6 DEF RegisterAnswered, Aside, InSession, Typed, TypeOK
<1>7. ASSUME AddAccount \/ DeleteAccount \/ ChangeAccount \/ Register  PROVE Aside
  BY <1>7 DEF AddAccount, DeleteAccount, ChangeAccount, Register, StartTask, Aside, InSession
<1>8. ASSUME LogoutButton \/ TokenGone  PROVE Aside
  BY <1>8 DEF LogoutButton, TokenGone, Logout, Aside
<1>9. ASSUME TurnPage \/ (\E u \in Users : TokenCame(u)) \/ UNCHANGED vars  PROVE Aside
  BY <1>9 DEF TurnPage, Turn, TokenCame, vars, client, history, Aside, InSession
<1>10. QED
  BY <1>1, <1>2, <1>3, <1>4, <1>5, <1>6, <1>7, <1>8, <1>9 DEF Next, GuiStep

LEMMA AsideKeeps ==
    ASSUME Typed, Outside, Aside, Summary, ~\E t \in Threads : LoginStep(t)
    PROVE  Outside'
<1>1. CASE InSession' \/ jwt' = NoJwt \/ turned'  BY <1>1 DEF Outside
<1>2. CASE UNCHANGED <<jwt, queued, turned>> /\ ~InSession /\ jwt # NoJwt
  <2>1. CASE Leaves \/ Restarts  BY <2>1 DEF Leaves, Restarts, Restart, Outside
  <2>2. CASE Starts \/ Works \/ Enters \/ Idles
    <3>1. turned \/ Outstanding  BY <1>2 DEF Outside
    <3>2. Outstanding => Outstanding'
      BY <1>2, <2>2, UnderwayStays DEF Outstanding
    <3>3. QED  BY <1>2, <3>1, <3>2 DEF Outside
  <2>3. QED  BY <2>1, <2>2 DEF Summary
<1>3. QED  BY <1>1, <1>2 DEF Aside, Outside

LEMMA LoginsOutside ==
    ASSUME Typed, Outside, NEW t \in Threads, LoginStep(t)
    PROVE  Outside'
<1>1. ASSUME stack[t] # <<>>, NEW g \in Frame, g.step \in Underway, Become(t, g)
      PROVE  Outstanding'
  BY <1>1, FramesBecome DEF Outstanding
<1>2. CASE LoginAnswered(t)
  <2>1. /\ stack[t] # <<>> /\ Sound(Top(t)) /\ Top(t).step = "askLogin"
        /\ UNCHANGED <<page, queued, turned>>
    BY <1>2, TopSound DEF LoginAnswered, history
  <2>2. PICK f : f = Top(t)  OBVIOUS
  <2>3. f \in Frame /\ f.step = "askLogin"  BY <2>1, <2>2 DEF Sound
  <2>4. CASE jwt' = jwt /\ (Pop(t) \/ Become(t, [f EXCEPT !.step = "box"]))
    <3>1. PICK g : g = [f EXCEPT !.step = "box"]  OBVIOUS
    <3>2. g \in Frame  BY <2>3, <3>1 DEF Frame, Boxes
    <3>3. ASSUME NEW v \in Threads, NEW i \in 1 .. Len(stack[v]), stack[v][i].step \in Underway
          PROVE  i \in 1 .. Len(stack'[v]) /\ stack'[v][i] = stack[v][i]
      <4>1. stack[v][i] # Top(t)  BY <2>1, <3>3 DEF Underway
      <4>2. Pop(t) \/ Become(t, g)  BY <2>4, <3>1
      <4>3. QED  BY <2>1, <3>2, <4>1, <4>2, FramesBecome, FramesPopped
    <3>4. Outstanding => Outstanding'  BY <2>1, <3>3 DEF Outstanding
    <3>5. QED  BY <2>1, <2>4, <3>4 DEF Outside, InSession
  <2>5. CASE Become(t, [f EXCEPT !.step = "exchange", !.user = NoKey])
    <3>1. PICK g : g = [f EXCEPT !.step = "exchange", !.user = NoKey]  OBVIOUS
    <3>2. g \in Frame /\ g.step = "exchange"  BY <2>3, <3>1 DEF Frame
    <3>3. QED  BY <1>1, <2>1, <2>5, <3>1, <3>2 DEF Outside, Underway, LoginSteps
  <2>6. QED  BY <1>2, <2>2, <2>4, <2>5 DEF LoginAnswered
<1>3. CASE Exchange(t)
  <2>1. stack[t] # <<>> /\ Sound(Top(t))  BY <1>3, TopSound DEF Exchange
  <2>2. PICK f : f = Top(t)  OBVIOUS
  <2>3. PICK g : g = [f EXCEPT !.step = "derive", !.sid = 0]  OBVIOUS
  <2>4. g \in Frame /\ g.step = "derive"
    <3>1. f \in Frame /\ 0 \in 0 .. MaxLogins  BY <2>1, <2>2, BoundsNat DEF Sound
    <3>2. QED  BY <2>3, <3>1 DEF Frame
  <2>5. Become(t, g)  BY <1>3, <2>2, <2>3 DEF Exchange
  <2>6. QED  BY <1>1, <2>1, <2>4, <2>5 DEF Outside, Underway, LoginSteps
<1>4. CASE Derive(t)
  <2>1. stack[t] # <<>> /\ Sound(Top(t))  BY <1>4, TopSound DEF Derive
  <2>2. PICK f : f = Top(t)  OBVIOUS
  <2>3. PICK g : g = [f EXCEPT !.step = "post", !.password = NoKey]  OBVIOUS
  <2>4. g \in Frame /\ g.step = "post"  BY <2>1, <2>2, <2>3 DEF Sound, Frame, Keys
  <2>5. Become(t, g)  BY <1>4, <2>2, <2>3 DEF Derive
  <2>6. QED  BY <1>1, <2>1, <2>4, <2>5 DEF Outside, Underway, LoginSteps
<1>5. CASE Post2fa(t)
  <2>1. stack[t] # <<>> /\ Sound(Top(t))  BY <1>5, TopSound DEF Post2fa
  <2>2. PICK f : f = Top(t)  OBVIOUS
  <2>3. PICK g : g = [f EXCEPT !.step = "ask2fa", !.jwt = jwt, !.answer = answer]  OBVIOUS
  <2>4. g \in Frame /\ g.step = "ask2fa"
    BY <2>1, <2>2, <2>3 DEF Sound, Frame, Asking, Typed, TypeOK
  <2>5. Become(t, g)  BY <1>5, <2>2, <2>3 DEF Post2fa
  <2>6. QED  BY <1>1, <2>1, <2>4, <2>5 DEF Outside, Underway, LoginSteps
<1>6. CASE Granted(t)
  <2>1. t = "gui" => InSession'  BY <1>6 DEF Granted, InSession
  <2>2. t # "gui" => queued' > 0  BY <1>6 DEF Granted, Typed, TypeOK
  <2>3. QED  BY <2>1, <2>2 DEF Outside, Outstanding
<1>7. CASE Refused(t)  BY <1>7 DEF Refused, Outside
<1>8. QED  BY <1>2, <1>3, <1>4, <1>5, <1>6, <1>7 DEF LoginStep

(* Once all is quiet, no access token is in memory behind the pages        *)
(* outside the manager, unless a registration has turned the page of a     *)
(* session (NoJwtOutside).                                                 *)
THEOREM NoneOutside == Spec => []NoJwtOutside
<1>1. Init => Outside  BY DEF Init, Outside
<1>2. Typed /\ Outside /\ [Next]_vars => Typed' /\ Outside'
  <2>1. SUFFICES ASSUME Typed, Outside, [Next]_vars PROVE Typed' /\ Outside'  OBVIOUS
  <2>2. Typed'  BY <2>1, TypedKept
  <2>3. CASE \E t \in Threads : LoginStep(t)  BY <2>1, <2>2, <2>3, LoginsOutside
  <2>4. CASE ~\E t \in Threads : LoginStep(t)  BY <2>1, <2>2, <2>4, StepsAside, AsideKeeps
  <2>5. QED  BY <2>2, <2>3, <2>4
<1>3. Typed /\ Outside => NoJwtOutside
  <2>1. SUFFICES ASSUME Typed, Outside, page \in {"login", "register"}, ~Busy
                 PROVE  jwt = NoJwt \/ turned
    BY DEF NoJwtOutside
  <2>2. ~InSession  BY <2>1 DEF InSession
  <2>3. \A t \in Threads : Len(stack[t]) = 0  BY <2>1, EmptySeq DEF Busy
  <2>4. ~Outstanding  BY <2>1, <2>3 DEF Busy, Outstanding
  <2>5. QED  BY <2>1, <2>2, <2>4 DEF Outside
<1>4. QED  BY TypedInit, <1>1, <1>2, <1>3, PTL DEF Spec

-----------------------------------------------------------------------------
(* The empty list.  As long as nothing has overlapped and no login from    *)
(* the browser has failed, a session that is shown, loaded or announced    *)
(* has its access token in memory; so a list is asked for with one.        *)

Managing == {"askSites", "askAccounts", "askAgain", "encrypt", "askAdd", "askDelete",
             "askChange", "boxLoad"}

Access(j) == \E u \in Users : j = <<"full", u>>

Begun == \E t \in Threads : \E i \in 1 .. Len(stack[t]) : stack[t][i].step \in Underway

Frames == {stack["gui"][i] : i \in 1 .. Len(stack["gui"])}

Shown == InSession /\ ~Begun

Admitted ==
    ~raced /\ ~strayed =>
        /\ queued > 0 \/ Shown => Access(jwt)
        /\ \A f \in Frames : f.step \in Managing => Access(jwt)
        /\ \A f \in Frames : f.step = "askSites" => Access(f.jwt)

(* A login of the GUI is made on the login page, and holds it there.       *)
LoginShown == ~raced /\ (\E f \in Frames : f.op = "login") => ~InSession

Caused == Inv /\ Admitted /\ LoginShown /\ EmptyListHasCause

LEMMA BegunRuns == ASSUME Typed  PROVE Begun => LoginRuns
BY DEF Typed, Framed, Sound, Begun, LoginRuns, Underway

(* Without a login, frames and signals the page decides.                   *)
LEMMA NothingRuns ==
    ASSUME Typed, ~Busy
    PROVE  /\ queued = 0 /\ Frames = {} /\ ~Begun /\ ~LoginRuns
           /\ \A t \in Threads : stack[t] = <<>> /\ Len(stack[t]) = 0
<1>1. queued = 0 /\ \A t \in Threads : stack[t] = <<>>  BY DEF Busy, Typed, TypeOK
<1>2. \A t \in Threads : Len(stack[t]) = 0  BY <1>1, EmptySeq
<1>3. "gui" \in Threads  BY DEF Threads
<1>4. Frames = {}  BY <1>2, <1>3 DEF Frames
<1>5. ~Begun /\ ~LoginRuns  BY <1>2 DEF Begun, LoginRuns
<1>6. QED  BY <1>1, <1>2, <1>4, <1>5

(* Only the answer to a request for the sites says how a list was indexed. *)
LEMMA IndexedHasCause ==
    ASSUME Caused, [Next]_vars
    PROVE  EmptyListHasCause'
<1>1. CASE SitesAnswered
  <2>1. Doing("gui") = "askSites" /\ "gui" \in Threads
    BY <1>1 DEF SitesAnswered, Threads
  <2>2. Top("gui") \in Frames /\ Top("gui").step = "askSites"
    BY <2>1, TopSound DEF Frames, Caused, Inv
  <2>3. PICK f : f = Top("gui")  OBVIOUS
  <2>4. ~raced /\ ~strayed => \E u \in Users : f.jwt = <<"full", u>>
    BY <2>2, <2>3 DEF Caused, Admitted, Access
  <2>5. CASE indexed' = indexed  BY <2>5 DEF Caused, EmptyListHasCause
  <2>6. CASE \E lost \in BOOLEAN :
               /\ lost \/ \A u \in Users : ~(f.jwt = <<"full", u>> /\ vault[u] # {})
               /\ indexed' = IF \/ lost \/ raced \/ strayed
                                \/ \E u \in Users : f.jwt = <<"full", u>> /\ vault[u] = {}
                               THEN indexed ELSE "bare"
    BY <2>4, <2>6 DEF Caused, EmptyListHasCause
  <2>7. QED  BY <1>1, <2>3, <2>5, <2>6 DEF SitesAnswered, history
<1>2. CASE indexed' = indexed  BY <1>2 DEF Caused, EmptyListHasCause
<1>3. ASSUME NEW t \in Threads, LoginStep(t)  PROVE indexed' = indexed
  BY <1>3 DEF LoginStep, LoginAnswered, Exchange, Derive, Post2fa, Granted, Refused, history
<1>4. ASSUME GuiStep  PROVE SitesAnswered \/ indexed' = indexed
  BY <1>4 DEF GuiStep, AccountsAnswered, EncryptWithKey, AddAnswered, ChangeAnswered,
              RegisterAnswered, CloseBox, history
<1>5. ASSUME NEW u \in Users, NEW p \in {u, WrongKey}, GuiLogin(u, p) \/ BrowserLogin(u, p)
      PROVE  indexed' = indexed
  BY <1>5 DEF GuiLogin, BrowserLogin, StartLogin
<1>6. ASSUME AddAccount \/ DeleteAccount \/ ChangeAccount \/ Register \/ BrowserSignal
      PROVE  indexed' = indexed
  BY <1>6 DEF AddAccount, DeleteAccount, ChangeAccount, Register, BrowserSignal, StartTask
<1>7. ASSUME \/ LogoutButton \/ TokenGone \/ TurnPage \/ UNCHANGED vars
             \/ \E u \in Users : TokenCame(u)
      PROVE  indexed' = indexed
  BY <1>7 DEF LogoutButton, TokenGone, Logout, TurnPage, Turn, TokenCame, vars, history
<1>8. QED  BY <1>1, <1>2, <1>3, <1>4, <1>5, <1>6, <1>7 DEF Next

(* A login starts: it overlaps something, or is the only thing there is.   *)
LEMMA StartAdmits ==
    ASSUME Caused, NEW t \in Threads, NEW u \in Users, NEW p \in {u, WrongKey},
           StartLogin(t, u, p), t = "gui" => ~InSession
    PROVE  Admitted' /\ LoginShown'
<1>1. /\ raced' = (raced \/ Busy)
      /\ UNCHANGED <<page, jwt, queued, strayed>>
  BY DEF StartLogin, client
<1>2. SUFFICES ASSUME ~raced, ~Busy PROVE Admitted' /\ LoginShown'
  BY <1>1 DEF Admitted, LoginShown
<1>3. /\ queued = 0 /\ Frames = {} /\ ~Begun
      /\ \A v \in Threads : stack[v] = <<>> /\ Len(stack[v]) = 0
  BY <1>2, NothingRuns DEF Caused, Inv
<1>4. PICK f : Push(t, f) /\ Sound(f) /\ f.op = "login" /\ f.step = "askLogin"
  BY StartTyped DEF Caused, Inv
<1>5. \A v \in Threads : \A i \in 1 .. Len(stack'[v]) : v = t /\ stack'[v][i] = f
  <2>1. \A v \in Threads : \A i \in 1 .. Len(stack'[v]) :
          \/ i \in 1 .. Len(stack[v]) /\ stack'[v][i] = stack[v][i]
          \/ v = t /\ stack'[v][i] = f
    BY <1>4, FramesPushed DEF Caused, Inv, Sound
  <2>2. QED  BY <1>3, <2>1
<1>6. "gui" \in Threads  BY DEF Threads
<1>7. ~Begun'  BY <1>4, <1>5 DEF Begun, Underway
<1>8. \A g \in Frames' : g = f /\ t = "gui"  BY <1>5, <1>6 DEF Frames
<1>9. Shown' => Shown  BY <1>1, <1>3 DEF Shown, InSession
<1>10. Admitted'
  BY <1>1, <1>2, <1>3, <1>4, <1>8, <1>9 DEF Admitted, Caused, Managing
<1>11. LoginShown'  BY <1>1, <1>8 DEF LoginShown, InSession
<1>12. QED  BY <1>10, <1>11

(* What a login that is alone leaves: one frame, or none.                  *)
LEMMA AloneLeaves ==
    ASSUME Typed, NEW t \in Threads, Only(t)
    PROVE  /\ queued = 0 /\ (t = "gui" => Frames = {Top(t)}) /\ (t # "gui" => Frames = {})
           /\ Begun => Top(t).step \in Underway
           /\ Pop(t) => Frames' = {} /\ ~Begun'
           /\ \A g \in Frame : Become(t, g) =>
                /\ t = "gui" => Frames' = {g}
                /\ t # "gui" => Frames' = {}
                /\ Begun' <=> g.step \in Underway
<1>1. stack[t] # <<>>  BY EmptySeq DEF Only
<1>2. "gui" \in Threads /\ \A v \in Threads : v # t => Len(stack[v]) = 0
  BY EmptySeq DEF Only, Threads
<1>3. /\ queued = 0 /\ (t = "gui" => Frames = {Top(t)}) /\ (t # "gui" => Frames = {})
      /\ Begun => Top(t).step \in Underway
  BY <1>2 DEF Only, Frames, Top, Begun
<1>4. ASSUME Pop(t)  PROVE Frames' = {} /\ ~Begun'
  <2>1. /\ \A v \in Threads : v # t => stack'[v] = stack[v]
        /\ Len(stack'[t]) = Len(stack[t]) - 1
    BY <1>1, <1>4, PopEffect DEF Typed
  <2>2. \A v \in Threads : Len(stack'[v]) = 0  BY <1>2, <2>1 DEF Only
  <2>3. QED  BY <1>2, <2>2 DEF Frames, Begun
<1>5. ASSUME NEW g \in Frame, Become(t, g)
      PROVE  /\ t = "gui" => Frames' = {g}
             /\ t # "gui" => Frames' = {}
             /\ Begun' <=> g.step \in Underway
  <2>1. /\ Len(stack'[t]) = 1 /\ stack'[t][1] = g
        /\ \A v \in Threads : v # t => stack'[v] = <<>>
    BY <1>5, AloneBecome
  <2>2. \A v \in Threads : v # t => Len(stack'[v]) = 0  BY <2>1, EmptySeq
  <2>3. QED  BY <1>2, <2>1, <2>2 DEF Frames, Begun
<1>6. QED  BY <1>3, <1>4, <1>5

(* The steps of a login after its start.                                   *)
LEMMA LoginAdmits ==
    ASSUME Caused, NEW t \in Threads, LoginStep(t)
    PROVE  Admitted' /\ LoginShown'
<1>1. Doing(t) \in LoginSteps
  BY DEF LoginStep, LoginAnswered, Exchange, Derive, Post2fa, Granted, Refused, LoginSteps
<1>2. /\ stack[t] # <<>> /\ Sound(Top(t)) /\ Top(t).step = Doing(t) /\ Top(t).op = "login"
      /\ (alone => Only(t)) /\ (~alone => raced)
  BY <1>1, LoginTop DEF Caused
<1>3. SUFFICES ASSUME ~raced' PROVE Admitted' /\ LoginShown'
  BY DEF Admitted, LoginShown
<1>4. Only(t)
  BY <1>2, <1>3 DEF LoginStep, LoginAnswered, Exchange, Derive, Post2fa, Granted, Refused, history
<1>5. /\ queued = 0 /\ (t = "gui" => Frames = {Top(t)}) /\ (t # "gui" => Frames = {})
      /\ Begun => Top(t).step \in Underway
      /\ Pop(t) => Frames' = {} /\ ~Begun'
      /\ \A g \in Frame : Become(t, g) =>
           /\ t = "gui" => Frames' = {g}
           /\ t # "gui" => Frames' = {}
           /\ Begun' <=> g.step \in Underway
  BY <1>4, AloneLeaves DEF Caused, Inv
<1>6. ~raced /\ t = "gui" => ~InSession  BY <1>2, <1>5 DEF Caused, LoginShown
<1>7. PICK f : f = Top(t)  OBVIOUS
<1>8. f \in Frame /\ f.op = "login"  BY <1>2, <1>7 DEF Sound
<1>9. ASSUME NEW g \in Frame, Become(t, g), g.op = "login", g.step \in Underway,
             UNCHANGED <<page, queued, raced>>
      PROVE  Admitted' /\ LoginShown'
  <2>1. Begun' /\ \A h \in Frames' : h = g /\ t = "gui"  BY <1>5, <1>9
  <2>2. Admitted'
    BY <1>5, <1>9, <2>1 DEF Admitted, Shown, Underway, LoginSteps, Managing
  <2>3. LoginShown'  BY <1>3, <1>6, <1>9, <2>1 DEF LoginShown, InSession
  <2>4. QED  BY <2>2, <2>3
<1>10. ASSUME UNCHANGED <<page, queued, raced>>, strayed' \/ ~Shown' \/ Access(jwt'),
              \/ t # "gui" /\ Pop(t)
              \/ t = "gui" /\ \E g \in Frame : Become(t, g) /\ g.op = "login" /\ g.step = "box"
       PROVE  Admitted' /\ LoginShown'
  <2>1. \A h \in Frames' : h.step = "box" /\ t = "gui"  BY <1>5, <1>10
  <2>2. Admitted'  BY <1>5, <1>10, <2>1 DEF Admitted, Managing
  <2>3. LoginShown'  BY <1>3, <1>6, <1>10, <2>1 DEF LoginShown, InSession
  <2>4. QED  BY <2>2, <2>3
<1>11. [f EXCEPT !.step = "box"] \in Frame /\ [f EXCEPT !.step = "box"].op = "login"
       /\ [f EXCEPT !.step = "box"].step = "box"
  BY <1>8, SetStep DEF Steps, Boxes
<1>12. CASE LoginAnswered(t)
  <2>1. UNCHANGED <<page, queued, raced, strayed>> /\ f.step = "askLogin"
    BY <1>2, <1>7, <1>12 DEF LoginAnswered, history
  <2>2. CASE /\ jwt' = jwt
             /\ IF t = "gui" THEN Become(t, [f EXCEPT !.step = "box"]) ELSE Pop(t)
    <3>1. ~Begun  BY <1>5, <1>7, <2>1 DEF Underway
    <3>2. strayed' \/ ~Shown' \/ Access(jwt')
      BY <1>3, <2>1, <2>2, <3>1 DEF Caused, Admitted, Shown, InSession
    <3>3. QED  BY <1>10, <1>11, <2>1, <2>2, <3>2
  <2>3. CASE Become(t, [f EXCEPT !.step = "exchange", !.user = NoKey])
    <3>1. PICK g : g = [f EXCEPT !.step = "exchange", !.user = NoKey]  OBVIOUS
    <3>2. g \in Frame /\ g.op = "login" /\ g.step = "exchange"  BY <1>8, <3>1 DEF Frame
    <3>3. QED  BY <1>9, <2>1, <2>3, <3>1, <3>2 DEF Underway, LoginSteps
  <2>4. QED  BY <1>7, <1>12, <2>2, <2>3 DEF LoginAnswered
<1>13. CASE Exchange(t)
  <2>1. PICK g : g = [f EXCEPT !.step = "derive", !.sid = 0]  OBVIOUS
  <2>2. g \in Frame /\ g.op = "login" /\ g.step = "derive"
    <3>1. 0 \in 0 .. MaxLogins  BY BoundsNat
    <3>2. QED  BY <1>8, <2>1, <3>1 DEF Frame
  <2>3. Become(t, g)  BY <1>7, <1>13, <2>1 DEF Exchange
  <2>4. QED  BY <1>9, <1>13, <2>2, <2>3 DEF Exchange, history, Underway, LoginSteps
<1>14. CASE Derive(t)
  <2>1. PICK g : g = [f EXCEPT !.step = "post", !.password = NoKey]  OBVIOUS
  <2>2. g \in Frame /\ g.op = "login" /\ g.step = "post"  BY <1>8, <2>1 DEF Frame, Keys
  <2>3. Become(t, g)  BY <1>7, <1>14, <2>1 DEF Derive
  <2>4. QED  BY <1>9, <1>14, <2>2, <2>3 DEF Derive, history, Underway, LoginSteps
<1>15. CASE Post2fa(t)
  <2>1. PICK g : g = [f EXCEPT !.step = "ask2fa", !.jwt = jwt, !.answer = answer]  OBVIOUS
  <2>2. g \in Frame /\ g.op = "login" /\ g.step = "ask2fa"
    BY <1>8, <2>1 DEF Frame, Asking, Caused, Inv, Typed, TypeOK
  <2>3. Become(t, g)  BY <1>7, <1>15, <2>1 DEF Post2fa
  <2>4. QED  BY <1>9, <1>15, <2>2, <2>3 DEF Post2fa, client, history, Underway, LoginSteps
<1>16. CASE Granted(t)
  <2>1. Access(jwt')
    <3>1. PICK s \in Passes(Top(t)) : jwt' = <<"full", s.user>>  BY <1>16 DEF Granted
    <3>2. s.user \in Users  BY DEF Passes, Caused, Inv, Typed, TypeOK
    <3>3. QED  BY <3>1, <3>2 DEF Access
  <2>2. \A g \in Frames' : g.op = "load" /\ g.jwt = jwt'
    <3>1. CASE t = "gui"
      <4>1. PICK n : n = NewFrame  OBVIOUS
      <4>2. n \in Frame /\ n.op = "load" /\ n.step = "askSites"
        BY <4>1, NewTyped DEF Caused, Inv, Typed
      <4>3. jwt' \in Jwts  BY <1>16, GrantedTyped DEF Caused, Inv, Typed, TypeOK
      <4>4. PICK j : j = jwt'  OBVIOUS
      <4>5. PICK g : g = [n EXCEPT !.jwt = j]  OBVIOUS
      <4>6. g \in Frame /\ g.op = "load" /\ g.jwt = jwt'
        BY <4>2, <4>3, <4>4, <4>5, SetJwt
      <4>7. Become(t, g)  BY <1>16, <3>1, <4>1, <4>4, <4>5 DEF Granted
      <4>8. QED  BY <1>5, <3>1, <4>6, <4>7
    <3>2. CASE t # "gui"  BY <1>5, <1>16, <3>2 DEF Granted
    <3>3. QED  BY <3>1, <3>2
  <2>3. QED  BY <2>1, <2>2 DEF Admitted, LoginShown
<1>17. CASE Refused(t)
  <2>1. UNCHANGED <<page, queued, raced>> /\ strayed' = (strayed \/ InSession)
    BY <1>17 DEF Refused, InSession
  <2>2. strayed' \/ ~Shown'  BY <2>1 DEF Shown, InSession
  <2>3. IF t = "gui" THEN Become(t, [f EXCEPT !.step = "box"]) ELSE Pop(t)
    BY <1>7, <1>17 DEF Refused
  <2>4. QED  BY <1>10, <1>11, <2>1, <2>2, <2>3
<1>18. QED  BY <1>12, <1>13, <1>14, <1>15, <1>16, <1>17 DEF LoginStep

(* The operation that runs in the GUI goes on, or ends: it asks for the    *)
(* sites with the JWT there is.                                            *)
LEMMA WorkAdmits ==
    ASSUME Caused, Doing("gui") \notin LoginSteps \cup {"idle"},
           UNCHANGED <<jwt, queued, raced, strayed>>, InSession' => InSession,
           \/ Pop("gui")
           \/ /\ Top("gui").step \in Managing
              /\ \E g \in Frame : /\ Become("gui", g) /\ g.op = Top("gui").op
                                  /\ g.step \in Managing \cup {"box"}
                                  /\ g.step = "askSites" => g.jwt = jwt
    PROVE  Admitted' /\ LoginShown'
<1>1. "gui" \in Threads  BY DEF Threads
<1>2. /\ stack["gui"] # <<>> /\ Top("gui") \in Frames
      /\ Top("gui").step \notin Underway
  BY <1>1, TopSound DEF Caused, Inv, Frames, Underway
<1>3. CASE Pop("gui")
  <2>1. Frames' \subseteq Frames
    BY <1>1, <1>2, <1>3, FramesPopped DEF Caused, Inv, Frames
  <2>2. Begun => Begun'  BY <1>1, <1>2, <1>3, FramesPopped DEF Caused, Inv, Begun
  <2>3. Admitted'  BY <2>1, <2>2 DEF Caused, Admitted, Shown
  <2>4. LoginShown'  BY <2>1 DEF Caused, LoginShown
  <2>5. QED  BY <2>3, <2>4
<1>4. CASE /\ Top("gui").step \in Managing
           /\ \E g \in Frame : /\ Become("gui", g) /\ g.op = Top("gui").op
                               /\ g.step \in Managing \cup {"box"}
                               /\ g.step = "askSites" => g.jwt = jwt
  <2>1. PICK g \in Frame : /\ Become("gui", g) /\ g.op = Top("gui").op
                           /\ g.step \in Managing \cup {"box"}
                           /\ g.step = "askSites" => g.jwt = jwt
    BY <1>4
  <2>2. Frames' \subseteq Frames \cup {g}
    BY <1>1, <1>2, <2>1, FramesBecome DEF Caused, Inv, Frames
  <2>3. ~raced /\ ~strayed => Access(jwt)  BY <1>2, <1>4 DEF Caused, Admitted
  <2>4. Admitted'  BY <2>1, <2>2, <2>3 DEF Caused, Admitted
  <2>5. LoginShown'  BY <1>2, <2>1, <2>2 DEF Caused, LoginShown
  <2>6. QED  BY <2>4, <2>5
<1>5. QED  BY <1>3, <1>4

(* Another operation starts, with the JWT there is.                        *)
LEMMA EntryAdmits ==
    ASSUME Caused, NEW g \in Frame, Push("gui", g), g.op # "login",
           UNCHANGED <<jwt, strayed>>, raced' = (raced \/ LoginRuns),
           queued' > 0 => queued > 0,
           g.step \in Managing => (queued > 0 \/ InSession) /\ g.jwt = jwt,
           InSession' => queued > 0 \/ InSession
    PROVE  Admitted' /\ LoginShown'
<1>1. "gui" \in Threads  BY DEF Threads
<1>2. SUFFICES ASSUME ~raced, ~LoginRuns PROVE Admitted' /\ LoginShown'
  BY DEF Admitted, LoginShown
<1>3. ~Begun  BY <1>2, BegunRuns DEF Caused, Inv
<1>4. Frames' \subseteq Frames \cup {g}
  BY <1>1, FramesPushed DEF Caused, Inv, Frames
<1>5. \A f \in Frames : f.op # "login"  BY <1>1, <1>2 DEF Frames, LoginRuns
<1>6. ~strayed /\ (queued > 0 \/ InSession) => Access(jwt)
  BY <1>2, <1>3 DEF Caused, Admitted, Shown
<1>7. "askSites" \in Managing  BY DEF Managing
<1>8. Admitted'  BY <1>2, <1>4, <1>6, <1>7 DEF Caused, Admitted, Shown
<1>9. LoginShown'  BY <1>4, <1>5 DEF LoginShown
<1>10. QED  BY <1>8, <1>9

LEMMA GuiAdmits ==
    ASSUME Caused, GuiStep
    PROVE  Admitted' /\ LoginShown'
<1>1. "gui" \in Threads  BY DEF Threads
<1>2. /\ Doing("gui") \notin LoginSteps \cup {"idle"} /\ Sound(Top("gui"))
      /\ Top("gui").step = Doing("gui")
  <2>1. Doing("gui") \notin LoginSteps \cup {"idle"}
    BY DEF GuiStep, SitesAnswered, AccountsAnswered, EncryptWithKey, AddAnswered,
           ChangeAnswered, RegisterAnswered, CloseBox, LoginSteps
  <2>2. QED  BY <1>1, <2>1, TopSound DEF Caused, Inv
<1>3. PICK f : f = Top("gui")  OBVIOUS
<1>4. f \in Frame /\ jwt \in Jwts /\ key \in Keys
  BY <1>2, <1>3 DEF Sound, Caused, Inv, Typed, TypeOK
(* The next step of the operation, which may read the JWT.                 *)
<1>5. ASSUME NEW s \in {"askSites", "askAccounts", "askAgain"},
             Become("gui", [f EXCEPT !.step = s, !.jwt = jwt]), f.step \in Managing,
             UNCHANGED <<page, jwt, queued, raced, strayed>>
      PROVE  Admitted' /\ LoginShown'
  <2>1. PICK g : g = [f EXCEPT !.step = s, !.jwt = jwt]  OBVIOUS
  <2>2. g \in Frame /\ g.op = f.op /\ g.step = s /\ g.jwt = jwt
    BY <1>4, <2>1 DEF Frame, Asking
  <2>3. s \in Managing  BY DEF Managing
  <2>4. QED  BY <1>2, <1>3, <1>5, <2>1, <2>2, <2>3, WorkAdmits DEF InSession
<1>6. ASSUME Pop("gui"), UNCHANGED <<jwt, queued, raced, strayed>>, InSession' => InSession
      PROVE  Admitted' /\ LoginShown'
  BY <1>2, <1>6, WorkAdmits
<1>7. CASE SitesAnswered
  <2>1. f.step \in Managing  BY <1>2, <1>3, <1>7 DEF SitesAnswered, Managing
  <2>2. CASE LoadAccounts /\ UNCHANGED <<page, jwt, queued, raced, strayed>>
    BY <1>3, <1>5, <2>1, <2>2 DEF LoadAccounts
  <2>3. CASE Restart
    <3>1. /\ page' = "login" /\ queued' = 0
          /\ \A t \in Threads : stack'[t] = <<>>
      BY <2>3 DEF Restart
    <3>2. Frames' = {}  BY <1>1, <3>1, EmptySeq DEF Frames
    <3>3. QED  BY <3>1, <3>2 DEF Admitted, LoginShown, Shown, InSession
  <2>4. QED  BY <1>7, <2>2, <2>3 DEF SitesAnswered, client, history
<1>8. CASE AccountsAnswered
  <2>1. f.step \in Managing /\ UNCHANGED <<page, jwt, queued, raced, strayed>>
    BY <1>2, <1>3, <1>8 DEF AccountsAnswered, Managing, client, history
  <2>2. QED  BY <1>3, <1>5, <1>6, <1>8, <2>1 DEF AccountsAnswered, InSession
<1>9. CASE EncryptWithKey
  <2>1. f.step = "encrypt" /\ UNCHANGED <<page, jwt, queued, raced, strayed>>
    BY <1>2, <1>3, <1>9 DEF EncryptWithKey, client, history
  <2>2. PICK s : s = Request[f.op]  OBVIOUS
  <2>3. s \in {"askAdd", "askDelete", "askChange"}
    BY <1>2, <1>3, <2>1, <2>2 DEF Sound, Request
  <2>4. PICK g : g = [f EXCEPT !.key = key, !.step = s]  OBVIOUS
  <2>5. g \in Frame /\ g.op = f.op /\ g.step = s
    BY <1>4, <2>3, <2>4 DEF Frame, Asking
  <2>6. Become("gui", g)  BY <1>3, <1>9, <2>2, <2>4 DEF EncryptWithKey
  <2>7. s \in Managing /\ s # "askSites" /\ f.step \in Managing  BY <2>1, <2>3 DEF Managing
  <2>8. QED  BY <1>2, <1>3, <2>1, <2>5, <2>6, <2>7, WorkAdmits DEF InSession
<1>10. CASE AddAnswered
  <2>1. f.step \in Managing /\ UNCHANGED <<page, jwt, queued, raced, strayed>>
    BY <1>2, <1>3, <1>10 DEF AddAnswered, Managing, client, history
  <2>2. QED  BY <1>3, <1>5, <1>10, <2>1 DEF AddAnswered
<1>11. CASE ChangeAnswered
  <2>1. f.step \in Managing /\ UNCHANGED <<page, jwt, queued, raced, strayed>>
    BY <1>2, <1>3, <1>11 DEF ChangeAnswered, Managing, client, history
  <2>2. PICK s \in {"boxLoad", "box"} : Become("gui", [f EXCEPT !.step = s])
    BY <1>3, <1>11 DEF ChangeAnswered
  <2>3. PICK g : g = [f EXCEPT !.step = s]  OBVIOUS
  <2>4. g \in Frame /\ g.op = f.op /\ g.step = s  BY <1>4, <2>3 DEF Frame, Boxes
  <2>5. s \in Managing \cup {"box"} /\ s # "askSites"  BY DEF Managing
  <2>6. QED  BY <1>2, <1>3, <2>1, <2>2, <2>3, <2>4, <2>5, WorkAdmits DEF InSession
<1>12. CASE RegisterAnswered
  BY <1>6, <1>12 DEF RegisterAnswered, InSession
<1>13. CASE CloseBox
  <2>1. UNCHANGED <<page, jwt, queued, raced, strayed>>
    BY <1>13 DEF CloseBox, client, history
  <2>2. CASE Pop("gui")  BY <1>6, <2>1, <2>2 DEF InSession
  <2>3. CASE /\ f.step = "boxLoad"
             /\ \E s \in {"askSites", "askAccounts"} :
                  Become("gui", [f EXCEPT !.step = s, !.jwt = jwt])
    BY <1>5, <2>1, <2>3 DEF Managing
  <2>4. QED  BY <1>2, <1>3, <1>13, <2>2, <2>3 DEF CloseBox, LoadAccounts
<1>14. QED  BY <1>7, <1>8, <1>9, <1>10, <1>11, <1>12, <1>13 DEF GuiStep

LEMMA TaskAdmits ==
    ASSUME Caused, NEW g, StartTask(g), Sound(g), g.op # "login",
           g.step \in Managing => InSession /\ g.jwt = jwt, InSession' => InSession
    PROVE  Admitted' /\ LoginShown'
BY EntryAdmits DEF StartTask, Overlap, Sound

LEMMA OthersAdmit ==
    ASSUME Caused, [Next]_vars, ~GuiStep, ~\E t \in Threads : LoginStep(t),
           ~\E u \in Users : \E p \in {u, WrongKey} : GuiLogin(u, p) \/ BrowserLogin(u, p)
    PROVE  Admitted' /\ LoginShown'
<1>1. CASE BrowserSignal
  <2>1. PICK n : n = NewFrame  OBVIOUS
  <2>2. n \in Frame /\ n.op # "login" /\ n.jwt = jwt
    BY <2>1, NewTyped DEF Caused, Inv, Typed
  <2>3. Push("gui", n) /\ queued > 0 /\ UNCHANGED <<jwt, strayed>>
        /\ raced' = (raced \/ LoginRuns)
    BY <1>1, <2>1 DEF BrowserSignal, Overlap
  <2>4. QED  BY <2>2, <2>3, EntryAdmits
<1>2. CASE AddAccount
  <2>1. PICK g : g = [NewFrame EXCEPT !.op = "add", !.step = "encrypt"]  OBVIOUS
  <2>2. Sound(g) /\ g.op # "login" /\ g.jwt = jwt  BY <2>1, NewSound DEF Caused, Inv
  <2>3. StartTask(g) /\ InSession  BY <1>2, <2>1 DEF AddAccount, InSession
  <2>4. QED  BY <2>2, <2>3, TaskAdmits
<1>3. CASE DeleteAccount
  <2>1. PICK g : g = [NewFrame EXCEPT !.op = "delete", !.step = "encrypt"]  OBVIOUS
  <2>2. Sound(g) /\ g.op # "login" /\ g.jwt = jwt  BY <2>1, NewSound DEF Caused, Inv
  <2>3. StartTask(g) /\ InSession  BY <1>3, <2>1 DEF DeleteAccount, InSession
  <2>4. QED  BY <2>2, <2>3, TaskAdmits
<1>4. CASE ChangeAccount
  <2>1. PICK g : g = [NewFrame EXCEPT !.op = "change", !.step = "encrypt"]  OBVIOUS
  <2>2. Sound(g) /\ g.op # "login" /\ g.jwt = jwt  BY <2>1, NewSound DEF Caused, Inv
  <2>3. StartTask(g) /\ InSession  BY <1>4, <2>1 DEF ChangeAccount, InSession
  <2>4. QED  BY <2>2, <2>3, TaskAdmits
<1>5. CASE Register
  <2>1. PICK n : n = NewFrame  OBVIOUS
  <2>2. n \in Frame  BY <2>1, NewTyped DEF Caused, Inv, Typed
  <2>3. PICK g : g = [n EXCEPT !.op = "register", !.step = "askRegister", !.jwt = NoJwt]
    OBVIOUS
  <2>4. g \in Frame /\ g.op = "register" /\ g.step = "askRegister"
    BY <2>2, <2>3 DEF Frame, Asking, Jwts
  <2>5. StartTask(g) /\ page' = page  BY <1>5, <2>1, <2>3 DEF Register
  <2>6. QED  BY <2>4, <2>5, TaskAdmits DEF Sound, LoginSteps, Managing, InSession
<1>6. CASE LogoutButton \/ TokenGone
  <2>1. /\ page' = "login" /\ UNCHANGED <<stack, queued, strayed>>
        /\ raced' = (raced \/ Busy)
    BY <1>6 DEF LogoutButton, TokenGone, Logout, Overlap
  <2>2. SUFFICES ASSUME ~raced, ~Busy PROVE Admitted' /\ LoginShown'
    BY <2>1 DEF Admitted, LoginShown
  <2>3. queued = 0 /\ Frames = {}  BY <2>2, NothingRuns DEF Caused, Inv
  <2>4. queued' = 0 /\ Frames' = {}  BY <2>1, <2>3 DEF Frames
  <2>5. QED  BY <2>1, <2>4 DEF Admitted, LoginShown, Shown, InSession
<1>7. CASE TurnPage \/ (\E u \in Users : TokenCame(u)) \/ UNCHANGED vars
  <2>1. UNCHANGED <<jwt, stack, queued, raced, strayed>> /\ (InSession' <=> InSession)
    BY <1>7 DEF TurnPage, Turn, TokenCame, vars, client, history, InSession
  <2>2. Frames' = Frames /\ (Begun' <=> Begun)  BY <2>1 DEF Frames, Begun
  <2>3. QED  BY <2>1, <2>2 DEF Caused, Admitted, LoginShown, Shown
<1>8. QED  BY <1>1, <1>2, <1>3, <1>4, <1>5, <1>6, <1>7 DEF Next

LEMMA CausedKept ==
    ASSUME Caused, [Next]_vars
    PROVE  Caused'
<1>1. Inv'  BY InvKept DEF Caused
<1>2. Admitted' /\ LoginShown'
  <2>1. CASE \E u \in Users : \E p \in {u, WrongKey} : GuiLogin(u, p) \/ BrowserLogin(u, p)
    <3>1. PICK u \in Users : \E p \in {u, WrongKey} : GuiLogin(u, p) \/ BrowserLogin(u, p)
      BY <2>1
    <3>2. PICK p \in {u, WrongKey} : GuiLogin(u, p) \/ BrowserLogin(u, p)  BY <3>1
    <3>3. CASE GuiLogin(u, p)  BY <3>3, StartAdmits DEF GuiLogin, InSession, Threads
    <3>4. CASE BrowserLogin(u, p)  BY <3>4, StartAdmits DEF BrowserLogin, Threads
    <3>5. QED  BY <3>2, <3>3, <3>4
  <2>2. QED  BY <2>1, LoginAdmits, GuiAdmits, OthersAdmit
<1>3. QED  BY <1>1, <1>2, IndexedHasCause DEF Caused

(* The first of an empty list is taken only for a vault without accounts,  *)
(* or for a cause that is named (EmptyListHasCause).                       *)
THEOREM IndexedForCause == Spec => []EmptyListHasCause
<1>1. Init => Caused
  <2>1. SUFFICES ASSUME Init PROVE Caused  OBVIOUS
  <2>2. Inv /\ ~Busy  BY <2>1, InvInit DEF Init, Busy
  <2>3. queued = 0 /\ Frames = {}  BY <2>2, NothingRuns DEF Inv
  <2>4. QED
    BY <2>1, <2>2, <2>3
    DEF Init, Caused, Admitted, LoginShown, Shown, InSession, EmptyListHasCause
<1>2. Caused /\ [Next]_vars => Caused'  BY CausedKept
<1>3. Caused => EmptyListHasCause  BY DEF Caused
<1>4. QED  BY <1>1, <1>2, <1>3, PTL DEF Spec
=============================================================================
