----------------------- MODULE PasswordGeneratorProofs -----------------------
(***************************************************************************)
(* Proofs about PasswordGenerator, for any choice of lengths from four on. *)
(***************************************************************************)
EXTENDS PasswordGenerator, TLAPS

(* There is room for a special character in a password of any length.      *)
LEMMA CapPositive == TypeOK => Cap \in Nat /\ Cap >= 1
BY LengthsAreLong DEF TypeOK, Cap

LEMMA Room == \A n \in Nat : 0 \in 0 .. n /\ 0 \in 0 .. ((n + 4) \div 5) + 1
OBVIOUS

(* What is known of an unfinished password: it has the classes that have   *)
(* come up, all of them chosen; its special characters are those counted,  *)
(* up to the cap; a turn that added nothing drew the null character.       *)
DraftFits ==
    /\ i <= length
    /\ password.classes = seen /\ seen \subseteq mask
    /\ password.size <= i
    /\ "special" \notin mask => password.size = i /\ password.specials = 0
    /\ seen # {} => password.size >= 1
    /\ password.specials <= count /\ password.specials <= Cap
    /\ count >= 1 => "special" \in seen

Inv == /\ TypeOK
       /\ pc = "drawing" => DraftFits /\ mask # {}
       /\ pc # "drawing" => pc = "stuck" \/ (i = 0 /\ password = Nothing /\ seen = {} /\ count = 0)
       /\ LabelFits
       /\ StuckOnlySpecial

LEMMA InvInit == Init => Inv
BY LengthsAreLong
DEF Init, Inv, TypeOK, DraftFits, LabelFits, StuckOnlySpecial, Nothing, Password, Classes,
    Plain, Cap

(* A click starts a generation, or opens a message box.                    *)
LEMMA ClickKeepsInv ==
    ASSUME Inv, pc = "ready", mask' \subseteq Classes, length' \in Lengths, Regenerate(mask')
    PROVE  Inv'
<1>0. TypeOK /\ i = 0 /\ count = 0
  BY DEF Inv
<1>1. TypeOK'
  <2>1. i' = 0 /\ count' = 0 /\ label' = label /\ password' = password /\ seen' = seen
    BY <1>0 DEF Regenerate, draft
  <2>2. pc' \in {"ready", "drawing", "stuck"}
    BY DEF Regenerate
  <2>3. 0 \in 0 .. length' /\ 0 \in 0 .. Cap' + 1
    BY LengthsAreLong, Room DEF Cap
  <2> QED
    BY <1>0, <2>1, <2>2, <2>3 DEF TypeOK
<1>2. pc' = "drawing" => DraftFits' /\ mask' # {}
  BY LengthsAreLong DEF Inv, TypeOK, Regenerate, draft, DraftFits, Nothing, Cap
<1> QED
  BY <1>1, <1>2 DEF Inv, Regenerate, draft, LabelFits, StuckOnlySpecial, Nothing

(* A password with a character added is a password.                        *)
LEMMA Adding ==
    ASSUME password \in Password, NEW c \in Classes, NEW n \in Nat
    PROVE  /\ With(c, n).size = password.size + 1
           /\ With(c, n).specials = password.specials + n
           /\ With(c, n).classes = password.classes \cup {c}
           /\ With(c, n) \in Password
BY DEF With, Password

LEMMA DrawKeepsInv ==
    ASSUME Inv, Drawing, UNCHANGED <<settings, label, pc>>, TypeOK', DraftFits'
    PROVE  Inv'
BY DEF Inv, Drawing, settings, LabelFits, StuckOnlySpecial, Cap

LEMMA InvNext == Inv /\ [Next]_vars => Inv'
<1> SUFFICES ASSUME Inv, [Next]_vars PROVE Inv'
  OBVIOUS
<1>0. TypeOK /\ Cap \in Nat /\ Cap >= 1 /\ length \in Nat
  BY CapPositive, LengthsAreLong DEF Inv, TypeOK
<1>1. ASSUME NEW k \in Classes, Toggle(k) PROVE Inv'
  BY <1>1, <1>0, ClickKeepsInv DEF Toggle, TypeOK
<1>2. ASSUME NEW n \in Lengths, SetLength(n) PROVE Inv'
  BY <1>2, <1>0, ClickKeepsInv DEF SetLength, TypeOK
<1>3. ASSUME Press PROVE Inv'
  BY <1>3, <1>0, ClickKeepsInv DEF Press, settings, TypeOK
<1>4. ASSUME DrawPlain PROVE Inv'
  <2>0. PICK c \in mask \cap Plain : password' = With(c, 0) /\ seen' = seen \cup {c}
    BY <1>4 DEF DrawPlain
  <2>1. /\ password'.size = password.size + 1
        /\ password'.specials = password.specials
        /\ password'.classes = password.classes \cup {c}
        /\ password' \in Password
    <3>1. password \in Password /\ c \in Classes
      BY <1>0 DEF TypeOK, Classes
    <3>2. password.specials + 0 = password.specials
      BY <3>1 DEF Password
    <3> QED
      BY <2>0, <3>1, <3>2, Adding
  <2>2. TypeOK'
    BY <1>4, <2>0, <2>1, <1>0 DEF DrawPlain, Drawing, TypeOK, settings, Classes, Cap
  <2>3. DraftFits'
    BY <1>4, <2>0, <2>1, <1>0
    DEF Inv, DrawPlain, Drawing, DraftFits, TypeOK, Password, settings, Cap, Plain
  <2> QED
    BY <1>4, <2>2, <2>3, DrawKeepsInv DEF DrawPlain
<1>5. ASSUME DrawSpecial PROVE Inv'
  <2>1. CASE count' <= Cap
    <3>1. /\ password'.size = password.size + 1
          /\ password'.specials = password.specials + 1
          /\ password'.classes = password.classes \cup {"special"}
          /\ password' \in Password
      <4>1. password \in Password /\ "special" \in Classes
        BY <1>0 DEF TypeOK, Classes
      <4>2. password' = With("special", 1)
        BY <1>5, <2>1 DEF DrawSpecial, TakeSpecial
      <4> QED
        BY <4>1, <4>2, Adding
    <3>2. TypeOK'
      BY <1>5, <2>1, <3>1, <1>0
      DEF DrawSpecial, TakeSpecial, Drawing, TypeOK, settings, Classes, Cap
    <3>3. DraftFits'
      BY <1>5, <2>1, <3>1, <1>0
      DEF Inv, DrawSpecial, TakeSpecial, Drawing, DraftFits, TypeOK, Password, settings, Cap
    <3> QED
      BY <1>5, <3>2, <3>3, DrawKeepsInv DEF DrawSpecial
  <2>2. CASE ~(count' <= Cap)
    <3>1. "special" \in seen
      BY <1>5, <2>2, <1>0 DEF Inv, DrawSpecial, Drawing, DraftFits, TypeOK
    <3>2. TypeOK'
      BY <1>5, <2>2, <1>0
      DEF DrawSpecial, LeaveSpecial, Drawing, TypeOK, settings, Classes, Cap
    <3>3. DraftFits'
      BY <1>5, <2>2, <3>1, <1>0
      DEF Inv, DrawSpecial, LeaveSpecial, Drawing, DraftFits, TypeOK, Password, settings, Cap
    <3> QED
      BY <1>5, <3>2, <3>3, DrawKeepsInv DEF DrawSpecial
  <2> QED
    BY <2>1, <2>2
<1>6. ASSUME DrawNull PROVE Inv'
  <2>1. TypeOK'
    BY <1>6, <1>0 DEF DrawNull, Drawing, TypeOK, settings, Cap
  <2>2. DraftFits'
    BY <1>6, <1>0 DEF Inv, DrawNull, Drawing, DraftFits, TypeOK, Password, settings, Cap
  <2> QED
    BY <1>6, <2>1, <2>2, DrawKeepsInv DEF DrawNull
<1>7. ASSUME DrawNothing PROVE Inv'
  <2>1. mask = {"special"}
    BY <1>7, <1>0 DEF Inv, DrawNothing, Drawing, Options, TypeOK, Classes, Plain
  <2> QED
    BY <1>7, <1>0, <2>1
    DEF Inv, DrawNothing, settings, draft, TypeOK, LabelFits, StuckOnlySpecial, Cap
<1>8. ASSUME Finish PROVE Inv'
  <2>1. Nothing \in Password
    BY DEF Nothing, Password
  <2>2. TypeOK'
    BY <1>8, <1>0, <2>1 DEF Finish, Fresh, TypeOK, settings, Cap
  <2>3. CASE seen = mask
    BY <1>8, <1>0, <2>2, <2>3
    DEF Inv, Finish, Fresh, DraftFits, LabelFits, StuckOnlySpecial, TypeOK, Password,
        settings, Cap
  <2>4. CASE seen # mask
    BY <1>8, <1>0, <2>2, <2>4
    DEF Inv, Finish, Fresh, DraftFits, LabelFits, StuckOnlySpecial, Nothing, settings, Cap
  <2> QED
    BY <2>3, <2>4
<1>9. CASE UNCHANGED vars
  BY <1>9 DEF vars, settings, draft, Inv, TypeOK, DraftFits, LabelFits, StuckOnlySpecial, Cap
<1> QED
  BY <1>1, <1>2, <1>3, <1>4, <1>5, <1>6, <1>7, <1>8, <1>9 DEF Next

(* The indices of the generator stay within the password and its counts.   *)
THEOREM Typing == Spec => []TypeOK
<1>1. Inv => TypeOK
  BY DEF Inv
<1> QED
  BY InvInit, InvNext, <1>1, PTL DEF Spec

(* The password shown fits the settings, whatever lengths there are.       *)
THEOREM Fitting == Spec => []LabelFits
<1>1. Inv => LabelFits
  BY DEF Inv
<1> QED
  BY InvInit, InvNext, <1>1, PTL DEF Spec

(* Only special characters can make the generator hang.                    *)
THEOREM Hanging == Spec => []StuckOnlySpecial
<1>1. Inv => StuckOnlySpecial
  BY DEF Inv
<1> QED
  BY InvInit, InvNext, <1>1, PTL DEF Spec
=============================================================================
