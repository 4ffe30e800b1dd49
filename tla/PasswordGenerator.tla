-------------------------- MODULE PasswordGenerator --------------------------
(***************************************************************************)
(* The password dialog and the generator behind it (passworddialog.cpp,    *)
(* passwordgenerator.cpp).  The generator draws one character after the    *)
(* other and starts again unless each class that was asked for has come    *)
(* up.  Of a password only its length, its special characters and the      *)
(* classes it is made of are kept.                                         *)
(*                                                                         *)
(* The ninth special character is the null character: it is never put into *)
(* the password, but its turn counts.  Generation runs to its end in the   *)
(* GUI thread, no click comes in between.                                  *)
(***************************************************************************)
EXTENDS Naturals

CONSTANTS Lengths,  \* what the slider can be set to
          Default   \* the length set by the constructor

ASSUME LengthsAreLong == Lengths \subseteq {n \in Nat : n >= 4} /\ Default \in Lengths

Plain == {"lower", "upper", "number"}
Classes == Plain \cup {"special"}

VARIABLES
    mask, length,  \* passwordMask and passwordLength
    label,         \* the password shown
    pc,            \* "ready", "drawing", or "stuck" in the loop at repeat
    i, password,   \* the next character's index and what there is
    seen,          \* generatedMask
    count          \* specialCharacterCount

settings == <<mask, length>>
draft == <<i, password, seen, count>>
vars == <<settings, label, pc, draft>>

Password == [size : Nat, specials : Nat, classes : SUBSET Classes]
Nothing == [size |-> 0, specials |-> 0, classes |-> {}]

(* ceil(0.2 * length): with doubles the same, for all lengths up to 128.   *)
Cap == (length + 4) \div 5

TypeOK ==
    /\ mask \subseteq Classes /\ length \in Lengths
    /\ label \in Password
    /\ pc \in {"ready", "drawing", "stuck"}
    /\ i \in 0 .. length
    /\ password \in Password
    /\ seen \subseteq Classes
    /\ count \in 0 .. Cap + 1

(* The locals of generatePassword at its beginning, and when none runs.    *)
Fresh == i' = 0 /\ password' = Nothing /\ seen' = {} /\ count' = 0

(* The constructor generates a password of its own.                        *)
Init ==
    /\ mask = Plain /\ length = Default
    /\ label = Nothing
    /\ pc = "drawing"
    /\ i = 0 /\ password = Nothing /\ seen = {} /\ count = 0

(* on_RegenrateButton_clicked with mask m: without a class to draw from    *)
(* there is only a message box.                                            *)
Regenerate(m) ==
    /\ pc' = IF m = {} THEN "ready" ELSE "drawing"
    /\ UNCHANGED <<label, draft>>

(* A check box flips its bit, the slider sets the length; each of them,    *)
(* and the button, generates a password.                                   *)
Toggle(k) ==
    /\ pc = "ready"
    /\ mask' = (mask \ {k}) \cup ({k} \ mask)
    /\ Regenerate(mask')
    /\ UNCHANGED length

SetLength(n) ==
    /\ pc = "ready"
    /\ length' = n
    /\ Regenerate(mask)
    /\ UNCHANGED mask

Press ==
    /\ pc = "ready"
    /\ Regenerate(mask)
    /\ UNCHANGED settings

-----------------------------------------------------------------------------
(* One character. *)

Drawing == pc = "drawing" /\ i < length

(* The password with a character of class c added, n of it special.        *)
With(c, n) == [size |-> password.size + 1, specials |-> password.specials + n,
               classes |-> password.classes \cup {c}]

DrawPlain ==
    /\ Drawing
    /\ \E c \in mask \cap Plain :
         /\ password' = With(c, 0)
         /\ seen' = seen \cup {c}
    /\ i' = i + 1
    /\ UNCHANGED <<settings, label, pc, count>>

TakeSpecial == i' = i + 1 /\ password' = With("special", 1)

(* Faults: a special character too many costs a turn twice; it is taken.   *)
StepBack == i' = i - 1 /\ UNCHANGED password
TakeAny == TakeSpecial

(* A special character too many is drawn again.                            *)
LeaveSpecial == UNCHANGED <<i, password>>

(* Bound: the count is only compared with Cap, and stops one above it.     *)
DrawSpecial ==
    /\ Drawing /\ "special" \in mask
    /\ seen' = seen \cup {"special"}
    /\ count' = IF count > Cap THEN count ELSE count + 1
    /\ IF count' <= Cap THEN TakeSpecial ELSE LeaveSpecial
    /\ UNCHANGED <<settings, label, pc>>

DrawNull ==
    /\ Drawing /\ "special" \in mask
    /\ i' = i + 1
    /\ UNCHANGED <<settings, label, pc, password, seen, count>>

(* Fault: an option is set only if its coin falls. *)
OptionsOfCoins(null) == IF null THEN {} ELSE mask

(* The classes that have a character among the options, when the special   *)
(* one drawn is null or not.                                               *)
Options(null) == IF null THEN mask \ {"special"} ELSE mask

(* No coin fell: the loop at repeat draws until an option is not null, and *)
(* never ends if there is none.  Without a coin, a lower case letter is    *)
(* taken.                                                                  *)
DrawNothing ==
    /\ Drawing /\ "lower" \notin mask
    /\ \E null \in {FALSE} \cup {"special" \in mask} : Options(null) = {}
    /\ pc' = "stuck"
    /\ UNCHANGED <<settings, label, draft>>

(* Every class has come up, or the generator starts again.                 *)
Finish ==
    /\ pc = "drawing" /\ i = length
    /\ IF seen = mask THEN label' = password /\ pc' = "ready"
       ELSE UNCHANGED <<label, pc>>
    /\ Fresh
    /\ UNCHANGED settings

Next == \/ \E k \in Classes : Toggle(k)
        \/ \E n \in Lengths : SetLength(n)
        \/ Press
        \/ DrawPlain \/ DrawSpecial \/ DrawNull \/ DrawNothing \/ Finish

Spec == Init /\ [][Next]_vars

-----------------------------------------------------------------------------
(* The password shown is made of the classes that are chosen, each of      *)
(* them, has as many special characters as are allowed at most, and the    *)
(* length that is set, or less when special characters are chosen; the     *)
(* exception is a choice of no class at all, which leaves the password of  *)
(* an earlier one (passwordgenerator.cpp:93-120, passworddialog.cpp:69-73).*)
LabelFits ==
    pc = "ready" /\ mask # {} =>
        /\ label.classes = mask
        /\ label.size \in 1 .. length /\ label.specials <= Cap
        /\ "special" \notin mask => label.size = length /\ label.specials = 0

(* The generator hangs only when it has nothing but special characters to  *)
(* draw from (passwordgenerator.cpp:85-90).                                *)
StuckOnlySpecial == pc = "stuck" => mask = {"special"}
=============================================================================
