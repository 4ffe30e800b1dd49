-------------------------- MODULE TokenLinkProofs --------------------------
(***************************************************************************)
(* Proofs about TokenLink, for any number of plug-ins and logins.          *)
(***************************************************************************)
EXTENDS TokenLink, SequenceTheorems, TLAPS

LEMMA WholeTyped ==
    ASSUME NEW c \in 0 .. MaxLogins
    PROVE  /\ Whole(c) \in Seq(Piece) /\ Len(Whole(c)) = 2 /\ Whole(c) # <<>>
           /\ Whole(c)[1] = [of |-> c, half |-> 1] /\ Whole(c)[2] = [of |-> c, half |-> 2]
BY DEF Whole, Piece

(* What a read takes from the buffer and what it leaves.                   *)
LEMMA Split ==
    ASSUME TypeOK
    PROVE  /\ Taken \in Nat /\ Taken <= Len(rx) /\ (rx # <<>> => Taken >= 1)
           /\ SubSeq(rx, 1, Taken) \in Seq(Piece)
           /\ Len(SubSeq(rx, 1, Taken)) = Taken
           /\ \A i \in 1 .. Taken : SubSeq(rx, 1, Taken)[i] = rx[i]
           /\ SubSeq(rx, Taken + 1, Len(rx)) \in Seq(Piece)
           /\ \A i \in 1 .. Len(SubSeq(rx, Taken + 1, Len(rx))) :
                SubSeq(rx, Taken + 1, Len(rx))[i] = rx[Taken + i]
           /\ Len(SubSeq(rx, Taken + 1, Len(rx))) = Len(rx) - Taken
<1>1. rx \in Seq(Piece) /\ Len(rx) \in Nat /\ \A i \in 1 .. Len(rx) : rx[i] \in Piece
  BY LenProperties, ElementOfSeq DEF TypeOK
<1>2. Taken \in Nat /\ Taken <= Len(rx)  BY <1>1 DEF Taken
<1>3. rx # <<>> => Taken >= 1  BY <1>1, EmptySeq DEF Taken
<1>4. \A i \in 1 .. Taken : rx[i] \in Piece  BY <1>1, <1>2
<1>5. \A i \in Taken + 1 .. Len(rx) : rx[i] \in Piece  BY <1>1, <1>2
<1>6. /\ SubSeq(rx, 1, Taken) \in Seq(Piece)
      /\ Len(SubSeq(rx, 1, Taken)) = IF 1 <= Taken THEN Taken - 1 + 1 ELSE 0
      /\ \A i \in 1 .. Taken - 1 + 1 : SubSeq(rx, 1, Taken)[i] = rx[1 + i - 1]
  BY <1>2, <1>4, SubSeqProperties
<1>7. /\ SubSeq(rx, Taken + 1, Len(rx)) \in Seq(Piece)
      /\ Len(SubSeq(rx, Taken + 1, Len(rx)))
           = IF Taken + 1 <= Len(rx) THEN Len(rx) - (Taken + 1) + 1 ELSE 0
      /\ \A i \in 1 .. Len(rx) - (Taken + 1) + 1 :
           SubSeq(rx, Taken + 1, Len(rx))[i] = rx[(Taken + 1) + i - 1]
  BY <1>1, <1>2, <1>5, SubSeqProperties
<1>8. QED  BY <1>1, <1>2, <1>3, <1>6, <1>7

(* The login that has read, and one that is broken off.                    *)
LEMMA HeardTyped ==
    ASSUME login \in Login, NEW h \in Seq(Piece), NEW b \in BOOLEAN,
           login' = [login EXCEPT !.pc = "heard", !.heard = h, !.complete = b]
    PROVE  /\ login' \in Login
           /\ login'.pc = "heard" /\ login'.heard = h /\ login'.complete = b
           /\ login'.challenge = login.challenge
           /\ login'.ready = login.ready /\ login'.quiet = login.quiet
BY DEF Login

LEMMA NotHeardTyped ==
    ASSUME login \in Login, login' = [login EXCEPT !.pc = "heard"]
    PROVE  /\ login' \in Login
           /\ login'.pc = "heard" /\ login'.heard = login.heard
           /\ login'.complete = login.complete /\ login'.challenge = login.challenge
           /\ login'.ready = login.ready /\ login'.quiet = login.quiet
BY DEF Login

LEMMA BrokenTyped ==
    ASSUME login \in Login
    PROVE  /\ Broken \in Login
           /\ Broken.pc = login.pc /\ Broken.heard = login.heard
           /\ Broken.complete = login.complete /\ Broken.challenge = login.challenge
           /\ Broken.quiet = login.quiet
           /\ login.pc = "waiting" => ~Broken.ready
           /\ login.pc # "waiting" => Broken = login
BY DEF Broken, Login

(* What the three actions on the port may do to the link.                  *)
LEMMA PortCases ==
    ASSUME TypeOK, Tick
    PROVE  /\ UNCHANGED <<plugged, plugs>> /\ events' = events - 1 /\ events > 0
           /\ available' = (plugged # 0)
           /\ \/ plugged = 0 /\ CloseToken
              \/ /\ plugged # 0 /\ handle = 0 /\ handle' = plugged
                 /\ rx' = <<>> /\ wire' = <<>> /\ answering' = <<>> /\ booting' = TRUE
                 /\ login' = Broken /\ missed' = missed
              \/ /\ plugged # 0
                 /\ UNCHANGED <<handle, rx, booting, wire, answering, login, missed>>
BY DEF Tick, CheckForToken, OpenToken

LEMMA TypeInductive == TypeOK /\ [Next]_vars => TypeOK'
<1> SUFFICES ASSUME TypeOK, [Next]_vars PROVE TypeOK'
  OBVIOUS
<1> USE BoundsNat
<1>1. CASE Plug
  <2>1. plugs \in Nat /\ handle \in 0 .. plugs  BY DEF TypeOK
  <2>2. plugs' \in 0 .. MaxPlugs /\ plugged' = plugs' /\ handle' \in 0 .. plugs'
    BY <1>1, <2>1 DEF Plug, host
  <2>3. /\ events' \in Nat /\ booting' = TRUE /\ missed' \in BOOLEAN
        /\ UNCHANGED <<available, rx, wire, answering, login>>
    BY <1>1 DEF Plug, host, TypeOK
  <2>4. QED  BY <2>2, <2>3 DEF TypeOK
<1>2. CASE Unplug
  <2>1. Broken \in Login  BY BrokenTyped DEF TypeOK
  <2>2. events' \in Nat  BY <1>2 DEF Unplug, TypeOK
  <2>3. QED  BY <1>2, <2>1, <2>2, EmptySeq DEF Unplug, TypeOK, host
<1>3. CASE Boot  BY <1>3 DEF Boot, TypeOK, host
<1>4. CASE TokenEncrypts
  <2>1. Head(wire) \in 0 .. MaxLogins /\ Tail(wire) \in Seq(0 .. MaxLogins)
    BY <1>4, HeadTailProperties DEF TokenEncrypts, TypeOK
  <2>2. wire' = Tail(wire) /\ answering' = Whole(Head(wire))
    BY <1>4 DEF TokenEncrypts
  <2>3. answering' \in Seq(Piece)  BY <2>1, <2>2, WholeTyped
  <2>4. UNCHANGED <<plugged, plugs, booting, events, available, handle, rx, login, missed>>
    BY <1>4 DEF TokenEncrypts, host
  <2>5. QED  BY <2>1, <2>2, <2>3, <2>4 DEF TypeOK
<1>5. CASE TokenSends
  <2>1. Head(answering) \in Piece /\ Tail(answering) \in Seq(Piece)
    BY <1>5, HeadTailProperties DEF TokenSends, TypeOK
  <2>2. rx' \in Seq(Piece)  BY <1>5, <2>1 DEF TokenSends, TypeOK
  <2>3. QED  BY <1>5, <2>1, <2>2 DEF TokenSends, TypeOK
<1>6. CASE Tick
  <2>1. Broken \in Login  BY BrokenTyped DEF TypeOK
  <2>2. events' \in Nat  BY <1>6 DEF Tick, TypeOK
  <2>3. UNCHANGED <<plugged, plugs>> /\ available' \in BOOLEAN  BY <1>6, PortCases
  <2>4. /\ handle' \in 0 .. plugs /\ booting' \in BOOLEAN /\ missed' \in BOOLEAN
        /\ login' \in Login /\ wire' \in Seq(0 .. MaxLogins)
        /\ answering' \in Seq(Piece) /\ rx' \in Seq(Piece)
    <3>1. CASE plugged = 0 /\ CloseToken
      <4>1. /\ handle' = 0 /\ rx' = <<>> /\ login' = Broken /\ missed' = FALSE
            /\ UNCHANGED <<booting, wire, answering>>
        BY <3>1 DEF CloseToken
      <4>2. 0 \in 0 .. plugs  BY DEF TypeOK
      <4>3. QED  BY <2>1, <4>1, <4>2, EmptySeq DEF TypeOK
    <3>2. CASE /\ plugged # 0 /\ handle' = plugged
               /\ rx' = <<>> /\ wire' = <<>> /\ answering' = <<>> /\ booting' = TRUE
               /\ login' = Broken /\ missed' = missed
      BY <2>1, <3>2, EmptySeq DEF TypeOK
    <3>3. CASE UNCHANGED <<handle, rx, booting, wire, answering, login, missed>>
      BY <3>3 DEF TypeOK
    <3>4. QED  BY <1>6, <3>1, <3>2, <3>3, PortCases
  <2>5. QED  BY <2>2, <2>3, <2>4 DEF TypeOK
<1>7. CASE WriteToToken
  <2>1. login.challenge \in 0 .. MaxLogins /\ login.challenge + 1 \in 0 .. MaxLogins
    BY <1>7 DEF WriteToToken, TypeOK, Login
  <2>2. Garbled \in 0 .. MaxLogins  BY DEF Garbled
  <2>3. wire' \in Seq(0 .. MaxLogins)
    <3>1. \/ wire' = wire \/ wire' = Append(wire, Garbled)
          \/ wire' = Append(wire, login.challenge + 1)
      BY <1>7 DEF WriteToToken
    <3>2. wire \in Seq(0 .. MaxLogins)  BY DEF TypeOK
    <3>3. \A e \in 0 .. MaxLogins : Append(wire, e) \in Seq(0 .. MaxLogins)
      BY <3>2, AppendProperties
    <3>4. QED  BY <2>1, <2>2, <3>1, <3>2, <3>3
  <2>4. login' \in Login
    <3>1. <<>> \in Seq(Piece)  BY EmptySeq
    <3>2. QED  BY <1>7, <2>1, <3>1 DEF WriteToToken, Login
  <2>5. QED  BY <1>7, <2>3, <2>4 DEF WriteToToken, TypeOK, host
<1>8. CASE ReadFromToken
  <2>1. rx' \in Seq(Piece) /\ login' \in Login
    <3>1. CASE handle = 0
      BY <1>8, <3>1, NotHeardTyped DEF ReadFromToken, TypeOK
    <3>2. CASE handle # 0
      BY <1>8, <3>2, Split, HeardTyped DEF ReadFromToken, TypeOK
    <3>3. QED  BY <3>1, <3>2
  <2>2. QED  BY <1>8, <2>1 DEF ReadFromToken, TypeOK, device
<1>9. CASE UNCHANGED vars  BY <1>9 DEF vars, device, host, TypeOK
<1>10. QED
  BY <1>1, <1>2, <1>3, <1>4, <1>5, <1>6, <1>7, <1>8, <1>9 DEF Next

(* Every variable keeps its type.                                          *)
THEOREM Typing == Spec => []TypeOK
<1>1. Init => TypeOK
  <2> SUFFICES ASSUME Init PROVE TypeOK
    OBVIOUS
  <2>1. plugs \in 0 .. MaxPlugs /\ plugged \in {0, plugs} /\ handle \in 0 .. plugs
    BY BoundsNat DEF Init
  <2>2. login \in Login  BY BoundsNat, EmptySeq DEF Init, Login
  <2>3. QED  BY <2>1, <2>2, EmptySeq DEF Init, TypeOK
<1>2. QED  BY <1>1, TypeInductive, PTL DEF Spec

-----------------------------------------------------------------------------
(* Between two ticks: the port is that of the token that is there, unless  *)
(* it is closed, no token is there, or one came too fast.                  *)
Following ==
    /\ plugged = 0 \/ handle \in {0, plugged} \/ missed
    /\ HandleFollowsToken

LEMMA FollowingInductive == TypeOK /\ Following /\ [Next]_vars => Following'
<1> SUFFICES ASSUME TypeOK, Following, [Next]_vars PROVE Following'
  OBVIOUS
<1> USE DEF Following, HandleFollowsToken
<1>1. CASE Plug
  <2>1. events' # 0  BY <1>1 DEF Plug, TypeOK
  <2>2. handle' = handle /\ missed' = (missed \/ handle # 0)  BY <1>1 DEF Plug, host
  <2>3. handle' \in {0, plugged'} \/ missed'  BY <2>2
  <2>4. QED  BY <2>1, <2>3
<1>2. CASE Unplug  BY <1>2 DEF Unplug, TypeOK, host
<1>3. CASE Tick
  <2>1. plugged' = plugged /\ available' = (plugged # 0)  BY <1>3, PortCases
  <2>2. CASE plugged = 0 /\ handle' = 0  BY <2>1, <2>2
  <2>3. CASE plugged # 0 /\ handle' = plugged  BY <2>1, <2>3
  <2>4. CASE plugged # 0 /\ UNCHANGED <<handle, missed>>  BY <2>1, <2>4
  <2>5. QED  BY <1>3, <2>2, <2>3, <2>4, PortCases DEF CloseToken
<1>4. CASE UNCHANGED <<plugged, events, available, handle, missed>>  BY <1>4
<1>5. QED
  BY <1>1, <1>2, <1>3, <1>4
  DEF Next, Boot, TokenEncrypts, TokenSends, WriteToToken, ReadFromToken, vars, device, host

(* With every event handled the status is the truth, and the port is open  *)
(* on the token that is there or has one of the causes named               *)
(* (usb_event_handler.cpp:86-108, usb_communicator.cpp:59).                *)
THEOREM HandleFollows == Spec => []HandleFollowsToken
<1>1. Init => Following  BY DEF Init, Following, HandleFollowsToken
<1>2. Following => HandleFollowsToken  BY DEF Following
<1>3. QED  BY <1>1, <1>2, FollowingInductive, Typing, PTL DEF Spec

-----------------------------------------------------------------------------
(* Without a token nothing is under way to one, nor from one.              *)
Gone == plugged = 0 => wire = <<>> /\ answering = <<>> /\ ~booting

LEMMA GoneInductive == TypeOK /\ Gone /\ [Next]_vars => Gone'
<1> SUFFICES ASSUME TypeOK, Gone, [Next]_vars PROVE Gone'
  OBVIOUS
<1> USE DEF Gone
<1>1. CASE Plug
  <2>1. plugged' # 0  BY <1>1 DEF Plug, TypeOK
  <2>2. QED  BY <2>1
<1>2. CASE Unplug  BY <1>2 DEF Unplug
<1>3. CASE Boot  BY <1>3 DEF Boot
<1>4. CASE TokenEncrypts  BY <1>4 DEF TokenEncrypts
<1>5. CASE TokenSends  BY <1>5 DEF TokenSends
<1>6. CASE Tick  BY <1>6, PortCases DEF CloseToken
<1>7. CASE WriteToToken  BY <1>7 DEF WriteToToken
<1>8. CASE ReadFromToken  BY <1>8 DEF ReadFromToken, device
<1>9. CASE UNCHANGED vars  BY <1>9 DEF vars, device
<1>10. QED
  BY <1>1, <1>2, <1>3, <1>4, <1>5, <1>6, <1>7, <1>8, <1>9 DEF Next

-----------------------------------------------------------------------------
(* While an exchange waits that found a running token and an idle port,    *)
(* the challenge or the pieces of its answer are all there is on the link, *)
(* in their order.                                                         *)
OnTheWay(c) ==
    \/ wire = <<c>> /\ answering = <<>> /\ rx = <<>>
    \/ wire = <<>> /\ answering = Whole(c) /\ rx = <<>>
    \/ wire = <<>> /\ answering = <<Whole(c)[2]>> /\ rx = <<Whole(c)[1]>>
    \/ wire = <<>> /\ answering = <<>> /\ rx = Whole(c)

Undisturbed ==
    login.pc = "waiting" /\ login.ready /\ login.quiet
        => handle = plugged /\ plugged # 0 /\ ~booting /\ OnTheWay(login.challenge)

Intact == Undisturbed /\ IntactExchangeMatches

LEMMA Pieces ==
    ASSUME NEW c
    PROVE  /\ Whole(c) # <<>> /\ Head(Whole(c)) = Whole(c)[1]
           /\ Tail(Whole(c)) = <<Whole(c)[2]>>
           /\ Append(<<>>, Whole(c)[1]) = <<Whole(c)[1]>>
           /\ <<Whole(c)[2]>> # <<>> /\ Head(<<Whole(c)[2]>>) = Whole(c)[2]
           /\ Tail(<<Whole(c)[2]>>) = <<>>
           /\ Append(<<Whole(c)[1]>>, Whole(c)[2]) = Whole(c)
           /\ <<c>> # <<>> /\ Head(<<c>>) = c /\ Tail(<<c>>) = <<>>
           /\ Append(<<>>, c) = <<c>>
<1>1. \A x : <<x>> # <<>> /\ Head(<<x>>) = x  OBVIOUS
<1>2. \A x : Tail(<<x>>) = <<>>  OBVIOUS
<1>3. \A x : Append(<<>>, x) = <<x>>  OBVIOUS
<1>4. \A x, y : <<x, y>> # <<>> /\ Head(<<x, y>>) = x  OBVIOUS
<1>5. \A x, y : Tail(<<x, y>>) = <<y>>  OBVIOUS
<1>6. ASSUME NEW x, NEW y PROVE Append(<<x>>, y) = <<x, y>>
  <2>1. <<x>> \in Seq({x, y}) /\ Len(<<x>>) = 1 /\ <<x>>[1] = x  OBVIOUS
  <2>2. <<x, y>> \in Seq({x, y}) /\ Len(<<x, y>>) = 2  OBVIOUS
  <2>3. <<x, y>>[1] = x /\ <<x, y>>[2] = y  OBVIOUS
  <2>4. PICK s : s = Append(<<x>>, y)  OBVIOUS
  <2>5. s \in Seq({x, y}) /\ Len(s) = 2 /\ s[1] = x /\ s[2] = y
    BY <2>1, <2>4, AppendProperties
  <2>6. \A i \in 1 .. Len(s) : s[i] = <<x, y>>[i]  BY <2>3, <2>5
  <2>7. s = <<x, y>>  BY <2>2, <2>5, <2>6, SeqEqual
  <2>8. QED  BY <2>4, <2>7
<1>7. PICK x, y : Whole(c) = <<x, y>> /\ Whole(c)[1] = x /\ Whole(c)[2] = y  BY DEF Whole
<1>8. QED  BY <1>1, <1>2, <1>3, <1>4, <1>5, <1>6, <1>7

LEMMA IntactInductive == TypeOK /\ Gone /\ Intact /\ [Next]_vars => Intact'
<1> SUFFICES ASSUME TypeOK, Gone, Intact, [Next]_vars PROVE Intact'
  OBVIOUS
<1> USE DEF Intact
<1>1. ASSUME login' = Broken PROVE Intact'
  BY <1>1, BrokenTyped DEF Undisturbed, IntactExchangeMatches, TypeOK
<1>2. ASSUME login' = login, UNCHANGED <<handle, plugged, booting, wire, answering, rx>>
      PROVE  Intact'
  BY <1>2 DEF Undisturbed, IntactExchangeMatches, OnTheWay
<1>3. ASSUME login' = login, ~(login.pc = "waiting" /\ login.ready /\ login.quiet) PROVE Intact'
  BY <1>3 DEF Undisturbed, IntactExchangeMatches
<1>4. CASE Plug
  BY <1>3, <1>4 DEF Plug, Undisturbed
<1>5. CASE Unplug  BY <1>1, <1>5 DEF Unplug
<1>6. CASE Boot  BY <1>3, <1>6 DEF Boot, Undisturbed
<1>7. CASE login.pc = "waiting" /\ login.ready /\ login.quiet /\ (TokenEncrypts \/ TokenSends)
  <2>1. PICK c : c = login.challenge  OBVIOUS
  <2>2. handle = plugged /\ plugged # 0 /\ ~booting /\ OnTheWay(c)
    BY <1>7, <2>1 DEF Undisturbed
  <2>3. UNCHANGED <<handle, plugged, booting, login>>
    BY <1>7 DEF TokenEncrypts, TokenSends, host
  <2>4. \/ wire' = <<>> /\ answering' = Whole(c) /\ rx' = <<>>
        \/ wire' = <<>> /\ answering' = <<Whole(c)[2]>> /\ rx' = <<Whole(c)[1]>>
        \/ wire' = <<>> /\ answering' = <<>> /\ rx' = Whole(c)
    <3>1. CASE wire = <<c>> /\ answering = <<>> /\ rx = <<>>
      BY <1>7, <3>1, Pieces DEF TokenEncrypts, TokenSends, host
    <3>2. CASE wire = <<>> /\ answering = Whole(c) /\ rx = <<>>
      BY <1>7, <2>2, <3>2, Pieces DEF TokenEncrypts, TokenSends, host
    <3>3. CASE wire = <<>> /\ answering = <<Whole(c)[2]>> /\ rx = <<Whole(c)[1]>>
      BY <1>7, <2>2, <3>3, Pieces DEF TokenEncrypts, TokenSends, host
    <3>4. CASE wire = <<>> /\ answering = <<>> /\ rx = Whole(c)
      BY <1>7, <3>4 DEF TokenEncrypts, TokenSends
    <3>5. QED  BY <2>2, <3>1, <3>2, <3>3, <3>4 DEF OnTheWay
  <2>5. QED
    BY <1>7, <2>1, <2>2, <2>3, <2>4 DEF Undisturbed, OnTheWay, IntactExchangeMatches
<1>8. CASE ~(login.pc = "waiting" /\ login.ready /\ login.quiet) /\ (TokenEncrypts \/ TokenSends)
  BY <1>3, <1>8 DEF TokenEncrypts, TokenSends
<1>9. CASE Tick
  <2>1. CASE plugged = 0 /\ CloseToken  BY <1>1, <2>1 DEF CloseToken
  <2>2. QED  BY <1>1, <1>2, <1>9, <2>1, PortCases
<1>10. CASE WriteToToken
  <2>1. PICK c : c = login.challenge + 1  OBVIOUS
  <2>2. /\ login'.pc = "waiting" /\ login'.challenge = c
        /\ login'.ready = (handle # 0 /\ handle = plugged /\ ~booting)
        /\ login'.quiet = ~Outstanding
        /\ UNCHANGED <<plugged, booting, answering, handle, rx>>
    BY <1>10, <2>1 DEF WriteToToken, host
  <2>3. CASE handle # 0 /\ handle = plugged /\ ~booting /\ ~Outstanding
    <3>1. wire' = Append(wire, c)  BY <1>10, <2>1, <2>3 DEF WriteToToken
    <3>2. wire = <<>> /\ answering = <<>> /\ rx = <<>>  BY <2>3 DEF Outstanding
    <3>3. wire' = <<c>>  BY <3>1, <3>2, Pieces
    <3>4. QED
      BY <2>2, <2>3, <3>2, <3>3 DEF Undisturbed, OnTheWay, IntactExchangeMatches
  <2>4. CASE ~(handle # 0 /\ handle = plugged /\ ~booting /\ ~Outstanding)
    BY <2>2, <2>4 DEF Undisturbed, IntactExchangeMatches
  <2>5. QED  BY <2>3, <2>4
<1>11. CASE ReadFromToken
  <2>1. login'.pc = "heard" /\ login'.ready = login.ready /\ login'.quiet = login.quiet
        /\ login'.challenge = login.challenge
    BY <1>11, HeardTyped, NotHeardTyped, Split DEF ReadFromToken, TypeOK
  <2>2. Undisturbed'  BY <2>1 DEF Undisturbed
  <2>3. ASSUME login.ready, login.quiet, login'.complete
        PROVE  login'.heard = Whole(login.challenge)
    <3>1. handle # 0 /\ OnTheWay(login.challenge)
      BY <1>11, <2>3 DEF ReadFromToken, Undisturbed
    <3>2. login'.heard = SubSeq(rx, 1, Taken) /\ wire = <<>> /\ answering = <<>>
      BY <1>11, <2>3, <3>1, HeardTyped, Split DEF ReadFromToken, TypeOK
    <3>3. rx = Whole(login.challenge)
      BY <3>1, <3>2, Pieces DEF OnTheWay
    <3>4. Len(rx) = 2 /\ rx \in Seq(Piece)
      BY <3>3, WholeTyped DEF TypeOK, Login
    <3>5. Taken = Len(rx)  BY <3>4 DEF Taken
    <3>6. QED  BY <3>2, <3>3, <3>4, <3>5, SubSeqFull
  <2>4. QED  BY <2>1, <2>2, <2>3 DEF IntactExchangeMatches
<1>12. CASE UNCHANGED vars  BY <1>2, <1>12 DEF vars, device, host
<1>13. QED
  BY <1>4, <1>5, <1>6, <1>7, <1>8, <1>9, <1>10, <1>11, <1>12 DEF Next

LEMMA AlwaysGone == Spec => [](TypeOK /\ Gone)
<1>1. Init => Gone
  <2> SUFFICES ASSUME Init, plugged = 0 PROVE wire = <<>> /\ answering = <<>> /\ ~booting
    BY DEF Gone
  <2>1. plugs # 1 /\ booting = (plugs = 1)  BY DEF Init
  <2>2. ~booting  BY <2>1
  <2>3. QED  BY <2>2 DEF Init
<1>2. QED  BY <1>1, GoneInductive, Typing, PTL DEF Spec

(* A patient read on a port with nothing left over returns the answer to   *)
(* the challenge of its login (usb_communicator.cpp:20-38).                *)
THEOREM IntactExchange == Spec => []IntactExchangeMatches
<1>1. Init => Intact  BY DEF Init, Intact, Undisturbed, IntactExchangeMatches
<1>2. Intact => IntactExchangeMatches  BY DEF Intact
<1>3. QED  BY <1>1, <1>2, IntactInductive, AlwaysGone, PTL DEF Spec

-----------------------------------------------------------------------------
(* Nothing on the link is of a challenge that is still to come.            *)
Past ==
    /\ \A i \in 1 .. Len(wire) : wire[i] <= login.challenge
    /\ \A i \in 1 .. Len(answering) : answering[i].of <= login.challenge
    /\ \A i \in 1 .. Len(rx) : rx[i].of <= login.challenge

LEMMA TailOf ==
    ASSUME NEW S, NEW s \in Seq(S), s # <<>>
    PROVE  /\ Len(s) \in Nat /\ Len(s) >= 1 /\ Head(s) = s[1]
           /\ Tail(s) \in Seq(S) /\ Len(Tail(s)) = Len(s) - 1
           /\ \A i \in 1 .. Len(Tail(s)) : Tail(s)[i] = s[i + 1] /\ i + 1 \in 1 .. Len(s)
BY HeadTailProperties, LenProperties, EmptySeq

LEMMA PastInductive == TypeOK /\ Past /\ [Next]_vars => Past'
<1> SUFFICES ASSUME TypeOK, Past, [Next]_vars PROVE Past'
  OBVIOUS
<1>0. /\ wire \in Seq(0 .. MaxLogins) /\ answering \in Seq(Piece) /\ rx \in Seq(Piece)
      /\ login \in Login /\ login.challenge \in 0 .. MaxLogins
      /\ Len(wire) \in Nat /\ Len(answering) \in Nat /\ Len(rx) \in Nat
  BY LenProperties DEF TypeOK, Login
<1>elements. /\ \A i \in 1 .. Len(wire) : wire[i] \in 0 .. MaxLogins
             /\ \A i \in 1 .. Len(answering) : answering[i] \in Piece
             /\ \A i \in 1 .. Len(rx) : rx[i] \in Piece
  BY <1>0, ElementOfSeq
<1>1. Len(<<>>) = 0  OBVIOUS
<1>2. ASSUME login'.challenge = login.challenge,
             wire' = wire \/ wire' = <<>>, answering' = answering \/ answering' = <<>>,
             rx' = rx \/ rx' = <<>>
      PROVE  Past'
  BY <1>1, <1>2 DEF Past
<1>3. CASE Plug \/ Boot  BY <1>2, <1>3 DEF Plug, Boot, host
<1>4. CASE Unplug  BY <1>0, <1>2, <1>4, BrokenTyped DEF Unplug, host
<1>5. CASE TokenEncrypts
  <2>1. PICK c : c = Head(wire)  OBVIOUS
  <2>2. /\ wire # <<>> /\ wire' = Tail(wire) /\ answering' = Whole(c)
        /\ UNCHANGED <<rx, login>>
    BY <1>5, <2>1 DEF TokenEncrypts, host
  <2>3. c = wire[1] /\ 1 \in 1 .. Len(wire)  BY <1>0, <2>1, <2>2, TailOf
  <2>4. c \in 0 .. MaxLogins  BY <1>0, <2>3, ElementOfSeq
  <2>5. c <= login.challenge  BY <2>3 DEF Past
  <2>6. /\ Len(Whole(c)) = 2 /\ Whole(c)[1].of = c /\ Whole(c)[2].of = c
    BY DEF Whole
  <2>7. \A i \in 1 .. Len(wire') : wire'[i] <= login.challenge
    BY <1>0, <2>2, TailOf DEF Past
  <2>8. \A i \in 1 .. Len(answering') : answering'[i].of <= login.challenge
    <3>1. \A i \in 1 .. 2 : i = 1 \/ i = 2  OBVIOUS
    <3>2. QED  BY <2>2, <2>5, <2>6, <3>1
  <2>9. QED  BY <2>2, <2>7, <2>8 DEF Past
<1>6. CASE TokenSends
  <2>1. PICK p : p = Head(answering)  OBVIOUS
  <2>2. /\ answering # <<>> /\ answering' = Tail(answering) /\ UNCHANGED <<wire, login>>
        /\ rx' = rx \/ rx' = Append(rx, p)
    BY <1>6, <2>1 DEF TokenSends
  <2>3. p = answering[1] /\ 1 \in 1 .. Len(answering)  BY <1>0, <2>1, <2>2, TailOf
  <2>4. p \in Piece /\ p.of <= login.challenge
    BY <1>elements, <2>3 DEF Past
  <2>5. \A i \in 1 .. Len(answering') : answering'[i].of <= login.challenge
    BY <1>0, <2>2, TailOf DEF Past
  <2>6. \A i \in 1 .. Len(rx') : rx'[i].of <= login.challenge
    <3>1. CASE rx' = rx  BY <3>1 DEF Past
    <3>2. CASE rx' = Append(rx, p)
      <4>1. PICK r : r = Append(rx, p)  OBVIOUS
      <4>2. /\ Len(r) = Len(rx) + 1 /\ r[Len(rx) + 1] = p
            /\ \A i \in 1 .. Len(rx) : r[i] = rx[i]
        BY <1>0, <2>4, <4>1, AppendProperties
      <4>3. \A i \in 1 .. Len(r) : i \in 1 .. Len(rx) \/ i = Len(rx) + 1
        BY <1>0, <4>2
      <4>4. \A i \in 1 .. Len(r) : r[i].of <= login.challenge
        BY <2>4, <4>2, <4>3 DEF Past
      <4>5. QED  BY <3>2, <4>1, <4>4
    <3>3. QED  BY <2>2, <3>1, <3>2
  <2>7. QED  BY <2>2, <2>5, <2>6 DEF Past
<1>7. CASE Tick
  <2>1. Broken.challenge = login.challenge  BY <1>0, BrokenTyped
  <2>2. CASE plugged = 0 /\ CloseToken  BY <1>2, <2>1, <2>2 DEF CloseToken
  <2>3. QED  BY <1>2, <1>7, <2>1, <2>2, PortCases
<1>8. CASE WriteToToken
  <2>1. PICK c : c = login.challenge + 1  OBVIOUS
  <2>2. /\ login'.challenge = c /\ UNCHANGED <<answering, rx>> /\ c \in 0 .. MaxLogins
        /\ wire' = wire \/ wire' = Append(wire, Garbled) \/ wire' = Append(wire, c)
    BY <1>0, <1>8, <2>1, BoundsNat DEF WriteToToken, host
  <2>3. \A i \in 1 .. Len(wire') : wire'[i] <= c
    <3>1. \A i \in 1 .. Len(wire) : wire[i] <= c
      BY <1>0, <1>elements, <2>1 DEF Past
    <3>2. ASSUME NEW e \in 0 .. MaxLogins, e <= c, wire' = Append(wire, e)
          PROVE  \A i \in 1 .. Len(wire') : wire'[i] <= c
      <4>1. PICK v : v = Append(wire, e)  OBVIOUS
      <4>2. /\ Len(v) = Len(wire) + 1 /\ v[Len(wire) + 1] = e
            /\ \A i \in 1 .. Len(wire) : v[i] = wire[i]
        BY <1>0, <4>1, AppendProperties
      <4>3. \A i \in 1 .. Len(v) : i \in 1 .. Len(wire) \/ i = Len(wire) + 1
        BY <1>0, <4>2
      <4>4. \A i \in 1 .. Len(v) : v[i] <= c  BY <3>1, <3>2, <4>2, <4>3
      <4>5. QED  BY <3>2, <4>1, <4>4
    <3>3. Garbled \in 0 .. MaxLogins /\ Garbled <= c
      BY <2>2, BoundsNat DEF Garbled
    <3>4. c <= c  BY <2>2
    <3>5. QED  BY <2>2, <3>1, <3>2, <3>3, <3>4
  <2>4. /\ \A i \in 1 .. Len(answering) : answering[i].of <= c
        /\ \A i \in 1 .. Len(rx) : rx[i].of <= c
    <3>1. \A i \in 1 .. Len(answering) : answering[i].of \in 0 .. MaxLogins
      BY <1>elements DEF Piece
    <3>2. \A i \in 1 .. Len(rx) : rx[i].of \in 0 .. MaxLogins
      BY <1>elements DEF Piece
    <3>3. QED  BY <1>0, <2>1, <3>1, <3>2 DEF Past
  <2>5. QED  BY <2>2, <2>3, <2>4 DEF Past
<1>9. CASE ReadFromToken
  <2>1. UNCHANGED <<wire, answering>>  BY <1>9 DEF ReadFromToken, device
  <2>2. CASE handle = 0
    BY <1>0, <1>2, <1>9, <2>1, <2>2, NotHeardTyped DEF ReadFromToken
  <2>3. CASE handle # 0
    <3>1. login'.challenge = login.challenge
      BY <1>0, <1>9, <2>3, HeardTyped, Split DEF ReadFromToken
    <3>2. PICK r : r = SubSeq(rx, Taken + 1, Len(rx))  OBVIOUS
    <3>3. rx' = r  BY <1>9, <2>3, <3>2 DEF ReadFromToken
    <3>4. /\ Taken \in Nat /\ Taken <= Len(rx) /\ Len(r) = Len(rx) - Taken
          /\ \A i \in 1 .. Len(r) : r[i] = rx[Taken + i]
      BY <3>2, Split
    <3>5. \A i \in 1 .. Len(r) : Taken + i \in 1 .. Len(rx)  BY <1>0, <3>4
    <3>6. \A i \in 1 .. Len(r) : r[i].of <= login.challenge  BY <3>4, <3>5 DEF Past
    <3>7. QED  BY <2>1, <3>1, <3>3, <3>6 DEF Past
  <2>4. QED  BY <2>2, <2>3
<1>10. CASE UNCHANGED vars  BY <1>2, <1>10 DEF vars, device, host
<1>11. QED
  BY <1>3, <1>4, <1>5, <1>6, <1>7, <1>8, <1>9, <1>10 DEF Next

-----------------------------------------------------------------------------
(* While an exchange waits that found something of an earlier one on the   *)
(* link, what arrives next is not the answer to its challenge; and on      *)
(* another port than that of the token, its challenge is not on the link.  *)
Behind(c) ==
    /\ rx # <<>> => rx[1].of # c \/ rx[1].half # 1
    /\ rx = <<>> /\ answering # <<>> => answering[1].of # c \/ answering[1].half # 1
    /\ rx = <<>> /\ answering = <<>> /\ wire # <<>> => wire[1] # c
    /\ handle # plugged => /\ \A i \in 1 .. Len(wire) : wire[i] # c
                           /\ \A i \in 1 .. Len(answering) : answering[i].of # c

Stale ==
    /\ login.pc = "waiting" => login.heard = <<>>
    /\ login.pc = "waiting" /\ ~login.quiet => Behind(login.challenge)
    /\ NoRecoveryOnOpenPort

LEMMA StaleInductive == TypeOK /\ Gone /\ Past /\ Stale /\ [Next]_vars => Stale'
<1> SUFFICES ASSUME TypeOK, Gone, Past, Stale, [Next]_vars PROVE Stale'
  OBVIOUS
<1>0. /\ wire \in Seq(0 .. MaxLogins) /\ answering \in Seq(Piece) /\ rx \in Seq(Piece)
      /\ login \in Login /\ login.challenge \in 0 .. MaxLogins
      /\ Len(wire) \in Nat /\ Len(answering) \in Nat /\ Len(rx) \in Nat
  BY LenProperties DEF TypeOK, Login
<1>1. Len(<<>>) = 0  OBVIOUS
<1>2. ASSUME login'.pc = login.pc, login'.heard = login.heard, login'.quiet = login.quiet,
             login'.challenge = login.challenge,
             login.pc = "waiting" /\ ~login.quiet => Behind(login.challenge)'
      PROVE  Stale'
  BY <1>2 DEF Stale, NoRecoveryOnOpenPort, Behind
<1>3. ASSUME login' = login \/ login' = Broken,
             wire' = <<>>, answering' = <<>>, rx' = rx \/ rx' = <<>>
      PROVE  Stale'
  <2>1. /\ login'.pc = login.pc /\ login'.heard = login.heard /\ login'.quiet = login.quiet
        /\ login'.challenge = login.challenge
    BY <1>0, <1>3, BrokenTyped
  <2>2. ASSUME NEW c, Behind(c) PROVE Behind(c)'
    BY <1>1, <1>3, <2>2 DEF Behind
  <2>3. QED  BY <1>2, <2>1, <2>2 DEF Stale
<1>4. CASE Plug
  <2>1. wire = <<>> /\ answering = <<>>  BY <1>4 DEF Plug, Gone
  <2>2. QED  BY <1>3, <1>4, <2>1 DEF Plug, host
<1>5. CASE Unplug  BY <1>3, <1>5 DEF Unplug, host
<1>6. ASSUME UNCHANGED <<wire, answering, rx, handle, plugged, login>> PROVE Stale'
  BY <1>6 DEF Stale, Behind, NoRecoveryOnOpenPort
<1>7. CASE TokenEncrypts
  <2>1. PICK h : h = Head(wire)  OBVIOUS
  <2>2. /\ wire # <<>> /\ answering = <<>> /\ wire' = Tail(wire) /\ answering' = Whole(h)
        /\ UNCHANGED <<rx, handle, plugged, login>>
    BY <1>7, <2>1 DEF TokenEncrypts, host
  <2>3. h = wire[1] /\ 1 \in 1 .. Len(wire)  BY <1>0, <2>1, <2>2, TailOf
  <2>4. /\ Whole(h) # <<>> /\ Len(Whole(h)) = 2 /\ Whole(h)[1].of = h /\ Whole(h)[2].of = h
    BY Pieces DEF Whole
  <2>5. ASSUME NEW c, Behind(c) PROVE Behind(c)'
    <3>1. rx' # <<>> => rx'[1].of # c \/ rx'[1].half # 1  BY <2>2, <2>5 DEF Behind
    <3>2. rx' = <<>> => answering'[1].of # c
      BY <2>2, <2>3, <2>4, <2>5 DEF Behind
    <3>3. ASSUME handle # plugged
          PROVE  /\ \A i \in 1 .. Len(wire') : wire'[i] # c
                 /\ \A i \in 1 .. Len(answering') : answering'[i].of # c
      <4>1. \A i \in 1 .. Len(wire') : wire'[i] # c
        BY <1>0, <2>2, <2>5, <3>3, TailOf DEF Behind
      <4>2. h # c  BY <2>3, <2>5, <3>3 DEF Behind
      <4>3. \A i \in 1 .. 2 : i = 1 \/ i = 2  OBVIOUS
      <4>4. QED  BY <2>2, <2>4, <4>1, <4>2, <4>3
    <3>4. QED  BY <2>2, <2>4, <3>1, <3>2, <3>3 DEF Behind
  <2>6. QED  BY <1>2, <2>2, <2>5 DEF Stale
<1>8. CASE TokenSends
  <2>1. PICK p : p = Head(answering)  OBVIOUS
  <2>2. /\ answering # <<>> /\ answering' = Tail(answering)
        /\ rx' = (IF handle = plugged THEN Append(rx, p) ELSE rx)
        /\ UNCHANGED <<wire, handle, plugged, login>>
    BY <1>8, <2>1 DEF TokenSends
  <2>3. p = answering[1] /\ p \in Piece  BY <1>0, <2>1, <2>2, HeadTailProperties, TailOf
  <2>4. ASSUME NEW c, Behind(c) PROVE Behind(c)'
    <3>1. CASE handle = plugged
      <4>1. PICK r : r = Append(rx, p)  OBVIOUS
      <4>2. /\ r # <<>> /\ r[Len(rx) + 1] = p
            /\ \A i \in 1 .. Len(rx) : r[i] = rx[i]
        BY <1>0, <2>3, <4>1, AppendProperties
      <4>3. r[1].of # c \/ r[1].half # 1
        <5>1. CASE rx = <<>>
          <6>1. Len(rx) = 0  BY <1>1, <5>1
          <6>2. r[1] = p  BY <4>2, <6>1
          <6>3. QED  BY <2>2, <2>3, <2>4, <5>1, <6>2 DEF Behind
        <5>2. CASE rx # <<>>
          <6>1. 1 \in 1 .. Len(rx)  BY <1>0, <5>2, EmptySeq
          <6>2. QED  BY <2>4, <4>2, <5>2, <6>1 DEF Behind
        <5>3. QED  BY <5>1, <5>2
      <4>4. rx' = r /\ r # <<>>  BY <2>2, <3>1, <4>1, <4>2
      <4>5. QED  BY <2>2, <3>1, <4>3, <4>4 DEF Behind
    <3>2. CASE handle # plugged
      <4>1. rx' = rx /\ handle' # plugged'  BY <2>2, <3>2
      <4>2. \A i \in 1 .. Len(answering') : answering'[i].of # c
        BY <1>0, <2>2, <2>4, <3>2, TailOf DEF Behind
      <4>3. \A i \in 1 .. Len(wire') : wire'[i] # c  BY <2>2, <2>4, <3>2 DEF Behind
      <4>4. answering' # <<>> => 1 \in 1 .. Len(answering')
        BY <1>0, <2>2, TailOf, EmptySeq, LenProperties
      <4>5. wire' # <<>> => 1 \in 1 .. Len(wire')  BY <1>0, <2>2, EmptySeq
      <4>6. QED  BY <2>4, <4>1, <4>2, <4>3, <4>4, <4>5 DEF Behind
    <3>3. QED  BY <3>1, <3>2
  <2>5. QED  BY <1>2, <2>2, <2>4 DEF Stale
<1>9. CASE Tick
  <2>1. CASE plugged = 0 /\ CloseToken
    BY <1>3, <2>1 DEF CloseToken, Gone
  <2>2. CASE wire' = <<>> /\ answering' = <<>> /\ rx' = <<>> /\ login' = Broken
    BY <1>3, <2>2
  <2>3. CASE UNCHANGED <<wire, answering, rx, handle, plugged, login>>  BY <1>6, <2>3
  <2>4. QED  BY <1>9, <2>1, <2>2, <2>3, PortCases
<1>10. CASE WriteToToken
  <2>1. PICK c : c = login.challenge + 1  OBVIOUS
  <2>2. /\ login'.pc = "waiting" /\ login'.challenge = c /\ login'.heard = <<>>
        /\ login'.quiet = ~Outstanding
        /\ UNCHANGED <<answering, rx, handle, plugged>>
        /\ c \in 0 .. MaxLogins /\ c \in Nat /\ c > login.challenge
    BY <1>0, <1>10, <2>1, BoundsNat DEF WriteToToken, host
  <2>3. wire' = wire \/ /\ handle = plugged
                        /\ \E e \in 0 .. MaxLogins : wire' = Append(wire, e)
    BY <1>10, <2>1, <2>2, BoundsNat DEF WriteToToken, Garbled
  <2>4. /\ \A i \in 1 .. Len(wire) : wire[i] # c
        /\ \A i \in 1 .. Len(answering) : answering[i].of # c
        /\ \A i \in 1 .. Len(rx) : rx[i].of # c
    <3>1. /\ \A i \in 1 .. Len(wire) : wire[i] \in 0 .. MaxLogins
          /\ \A i \in 1 .. Len(answering) : answering[i] \in Piece
          /\ \A i \in 1 .. Len(rx) : rx[i] \in Piece
      BY <1>0, ElementOfSeq
    <3>2. QED  BY <1>0, <2>1, <2>2, <3>1 DEF Past, Piece
  <2>5. /\ wire # <<>> => 1 \in 1 .. Len(wire)
        /\ answering # <<>> => 1 \in 1 .. Len(answering)
        /\ rx # <<>> => 1 \in 1 .. Len(rx)
    BY <1>0, EmptySeq
  <2>6. ASSUME Outstanding PROVE Behind(c)'
    <3>1. rx' # <<>> => rx'[1].of # c  BY <2>2, <2>4, <2>5
    <3>2. answering' # <<>> => answering'[1].of # c  BY <2>2, <2>4, <2>5
    <3>3. rx = <<>> /\ answering = <<>> => wire # <<>>  BY <2>6 DEF Outstanding
    <3>4. CASE wire' = wire
      BY <2>2, <2>4, <2>5, <3>1, <3>2, <3>4 DEF Behind
    <3>5. ASSUME handle = plugged, NEW e \in 0 .. MaxLogins, wire' = Append(wire, e)
          PROVE  Behind(c)'
      <4>1. PICK v : v = Append(wire, e)  OBVIOUS
      <4>2. \A i \in 1 .. Len(wire) : v[i] = wire[i]  BY <1>0, <4>1, AppendProperties
      <4>3. wire # <<>> => v[1] # c  BY <2>4, <2>5, <4>2
      <4>4. QED  BY <2>2, <3>1, <3>2, <3>3, <3>5, <4>1, <4>3 DEF Behind
    <3>6. QED  BY <2>3, <3>4, <3>5
  <2>7. QED  BY <2>2, <2>6 DEF Stale, NoRecoveryOnOpenPort, Behind
<1>11. CASE ReadFromToken
  <2>0. PICK c : c = login.challenge  OBVIOUS
  <2>1. /\ login.pc = "waiting" /\ login'.pc = "heard" /\ login'.quiet = login.quiet
        /\ login'.challenge = c
    BY <1>0, <1>11, <2>0, HeardTyped, NotHeardTyped, Split DEF ReadFromToken
  <2>2. ASSUME ~login.quiet PROVE login'.heard # Whole(c)
    <3>1. Behind(c)  BY <2>0, <2>1, <2>2 DEF Stale
    <3>2. Whole(c) # <<>> /\ Whole(c)[1].of = c /\ Whole(c)[1].half = 1 /\ Len(Whole(c)) = 2
      BY Pieces DEF Whole
    <3>3. CASE handle = 0
      <4>1. login'.heard = login.heard
        BY <1>0, <1>11, <3>3, NotHeardTyped DEF ReadFromToken
      <4>2. QED  BY <2>1, <3>2, <4>1 DEF Stale
    <3>4. CASE handle # 0
      <4>1. PICK h : h = SubSeq(rx, 1, Taken)  OBVIOUS
      <4>2. login'.heard = h
        BY <1>0, <1>11, <3>4, <4>1, HeardTyped, Split DEF ReadFromToken
      <4>3. /\ Taken \in Nat /\ Taken <= Len(rx) /\ Len(h) = Taken
            /\ \A i \in 1 .. Taken : h[i] = rx[i]
        BY <4>1, Split
      <4>4. CASE rx = <<>>
        <5>1. Len(h) = 0  BY <1>1, <4>3, <4>4
        <5>2. QED  BY <3>2, <4>2, <5>1
      <4>5. CASE rx # <<>>
        <5>1. Taken >= 1  BY <4>5, Split
        <5>2. h[1] = rx[1]  BY <4>3, <5>1
        <5>3. QED  BY <3>1, <3>2, <4>2, <4>5, <5>2 DEF Behind
      <4>6. QED  BY <4>4, <4>5
    <3>5. QED  BY <3>3, <3>4
  <2>3. QED  BY <2>1, <2>2 DEF Stale, NoRecoveryOnOpenPort
<1>12. CASE UNCHANGED vars  BY <1>6, <1>12 DEF vars, device, host
<1>13. CASE Boot  BY <1>6, <1>13 DEF Boot, host
<1>14. QED
  BY <1>4, <1>5, <1>7, <1>8, <1>9, <1>10, <1>11, <1>12, <1>13 DEF Next

(* While anything of an earlier exchange is on the link no later login     *)
(* reads its answer, for any number of logins: reads take the oldest first *)
(* and never catch up (usb_communicator.cpp:34, 40-45, 78).                *)
THEOREM NoRecovery == Spec => []NoRecoveryOnOpenPort
<1>1. Init => Past /\ Stale
  <2>1. Len(<<>>) = 0  OBVIOUS
  <2>2. QED  BY <2>1 DEF Init, Past, Stale, NoRecoveryOnOpenPort
<1>2. Stale => NoRecoveryOnOpenPort  BY DEF Stale
<1>3. QED
  BY <1>1, <1>2, PastInductive, StaleInductive, AlwaysGone, PTL DEF Spec
=============================================================================
