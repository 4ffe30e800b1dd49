------------------------- MODULE ManagerPageProofs -------------------------
(***************************************************************************)
(* Proofs about the manager page, for any accounts and any number of       *)
(* operations, nested or not.                                              *)
(***************************************************************************)
EXTENDS ManagerPage, FiniteSetTheorems, SequenceTheorems, TLAPS

Credentials == UNION {[S -> Secrets] : S \in SUBSET Names}

-----------------------------------------------------------------------------
(* The combo box and the fields. *)

(* The password of a name is a text; that of the empty text is empty. *)
LEMMA PasswordTyped ==
    ASSUME NEW c \in Credentials, NEW n \in Name
    PROVE  Password(c, n) \in Secret /\ Password(c, Blank) = Blank
BY BlankIsNothing DEF Credentials, Name, Secret, Password

LEMMA NoneTyped == None \in Credentials /\ \A n : Password(None, n) = Blank
<1>1. None \in [{} -> Secrets]  BY DEF None
<1>2. {} \in SUBSET Names  OBVIOUS
<1>3. QED  BY <1>1, <1>2 DEF Credentials, None, Password

LEMMA SelectedTyped ==
    ASSUME NEW f \in Fields, NEW c \in Credentials, NEW n \in Name
    PROVE  /\ Selected(f, c, n) \in Fields
           /\ Selected(f, c, n).username = n /\ Selected(f, c, n).oldUsername = n
           /\ Selected(f, c, n).password = Password(c, n)
           /\ Selected(f, c, n).oldPassword = Password(c, n)
           /\ Selected(f, c, n).website = f.website
<1>1. Password(c, n) \in Secret  BY PasswordTyped
<1>2. QED  BY <1>1 DEF Selected, Fields

(* What is shown is what the credentials say, for a list of names.         *)
LEMMA OrderIsSeq ==
    ASSUME NEW S \in SUBSET Names, NEW order \in Orders(S)
    PROVE  /\ order \in Seq(Names) /\ Len(order) \in Nat
           /\ \A i \in 1 .. Len(order) : order[i] \in S
<1>1. IsFiniteSet(S)  BY NamesFinite, FS_Subset
<1>2. Cardinality(S) \in Nat  BY <1>1, FS_CardinalityType
<1>3. order \in [1 .. Cardinality(S) -> S]  BY DEF Orders
<1>4. order \in Seq(S) /\ Len(order) = Cardinality(S)  BY <1>2, <1>3
<1>5. order \in Seq(Names)  BY <1>4, SeqMonotonic
<1>6. QED  BY <1>2, <1>3, <1>4, <1>5

(* The combo box after a load has as many entries as there are accounts,   *)
(* and its index is in range; where the index stays, so does the entry.    *)
LEMMA EntriesAre ==
    ASSUME combo \in Seq(Names), current \in 0 .. Len(combo), NEW order \in Seq(Names)
    PROVE  /\ Entries(order) \in Seq(Names) /\ Len(Entries(order)) = Len(order)
           /\ Index(order) \in 0 .. Len(order)
           /\ (combo # <<>> => current # 0) => (Index(order) = 0 <=> order = <<>>)
           /\ Index(order) = current /\ current # 0 =>
                combo # <<>> /\ Entries(order)[current] = combo[current]
           /\ combo = <<>> => /\ Entries(order) = order
                              /\ Index(order) = IF order = <<>> THEN 0 ELSE 1
<1> DEFINE m == IF Len(combo) < Len(order) THEN Len(combo) ELSE Len(order)
<1>1. /\ Len(combo) \in Nat /\ Len(order) \in Nat
      /\ combo # <<>> <=> Len(combo) # 0
      /\ order # <<>> <=> Len(order) # 0
  BY EmptySeq, LenProperties
<1>2. /\ \A i \in 1 .. Len(combo) : combo[i] \in Names
      /\ \A i \in 1 .. Len(order) : order[i] \in Names
  BY ElementOfSeq
<1>3. PICK k : k = m  OBVIOUS
<1>4. k \in Nat /\ k <= Len(combo) /\ k <= Len(order)  BY <1>1, <1>3
<1>5. /\ Kept(order) \in Seq(Names) /\ Len(Kept(order)) = k
      /\ \A i \in 1 .. k : Kept(order)[i] = combo[i]
  <2>1. \A i \in 1 .. k : combo[i] \in Names  BY <1>1, <1>2, <1>4
  <2>2. /\ SubSeq(combo, 1, k) \in Seq(Names)
        /\ Len(SubSeq(combo, 1, k)) = IF 1 <= k THEN k - 1 + 1 ELSE 0
        /\ \A i \in 1 .. k - 1 + 1 : SubSeq(combo, 1, k)[i] = combo[1 + i - 1]
    BY <1>4, <2>1, SubSeqProperties
  <2>3. QED  BY <1>3, <1>4, <2>2 DEF Kept
<1>6. PICK n : n = Len(order) - k  OBVIOUS
<1>7. n \in Nat /\ n <= Len(order)  BY <1>1, <1>4, <1>6
<1>8. PICK t : t = SubSeq(order, 1, n)  OBVIOUS
<1>9. t \in Seq(Names) /\ Len(t) = n
  <2>1. \A i \in 1 .. n : order[i] \in Names  BY <1>1, <1>2, <1>7
  <2>2. /\ SubSeq(order, 1, n) \in Seq(Names)
        /\ Len(SubSeq(order, 1, n)) = IF 1 <= n THEN n - 1 + 1 ELSE 0
    BY <1>7, <2>1, SubSeqProperties
  <2>3. QED  BY <1>7, <1>8, <2>2
<1>10. Entries(order) = Kept(order) \o t  BY <1>5, <1>6, <1>8 DEF Entries
<1>11. /\ Entries(order) \in Seq(Names) /\ Len(Entries(order)) = Len(order)
       /\ \A i \in 1 .. k : Entries(order)[i] = combo[i]
  <2>1. /\ Kept(order) \o t \in Seq(Names) /\ Len(Kept(order) \o t) = k + n
        /\ \A i \in 1 .. k + n : (Kept(order) \o t)[i] =
             IF i <= k THEN Kept(order)[i] ELSE t[i - k]
    BY <1>5, <1>9, ConcatProperties
  <2>2. QED  BY <1>1, <1>4, <1>5, <1>6, <1>7, <1>10, <2>1
<1>12. Kept(order) = <<>> <=> k = 0  BY <1>4, <1>5, EmptySeq
<1>13. Index(order) = IF k = 0 THEN IF Len(order) = 0 THEN 0 ELSE 1
                      ELSE IF current < k THEN current ELSE k
  BY <1>1, <1>5, <1>12 DEF Index
<1>14. Index(order) \in 0 .. Len(order)  BY <1>1, <1>4, <1>13
<1>15. k = 0 <=> Len(combo) = 0 \/ Len(order) = 0  BY <1>1, <1>3
<1>16. (combo # <<>> => current # 0) => (Index(order) = 0 <=> order = <<>>)
  BY <1>1, <1>4, <1>13, <1>15
<1>17. Index(order) = current /\ current # 0 =>
          combo # <<>> /\ Entries(order)[current] = combo[current]
  <2>1. SUFFICES ASSUME Index(order) = current, current # 0
                 PROVE  combo # <<>> /\ Entries(order)[current] = combo[current]
    OBVIOUS
  <2>2. combo # <<>> /\ current \in 1 .. k  BY <1>1, <1>4, <1>13, <1>15, <2>1
  <2>3. QED  BY <2>2, <1>11
<1>18. ASSUME combo = <<>>
       PROVE  Entries(order) = order /\ Index(order) = IF order = <<>> THEN 0 ELSE 1
  <2>1. k = 0 /\ n = Len(order)  BY <1>1, <1>6, <1>15, <1>18
  <2>2. t = order  BY <1>8, <2>1, SubSeqFull
  <2>3. Kept(order) = <<>>  BY <1>12, <2>1
  <2>4. QED  BY <1>1, <1>10, <1>13, <2>1, <2>2, <2>3, ConcatEmptySeq
<1>19. QED  BY <1>11, <1>14, <1>16, <1>17, <1>18

(* What a load makes of the fields: those of the old account stay as they  *)
(* are, or are those of the name that is shown.                            *)
LEMMA FilledTyped ==
    ASSUME TypeOK, NEW site \in Site, NEW S \in SUBSET Names, NEW order \in Orders(S),
           NEW c \in [S -> Secrets], NEW then \in {"first", "added", "pick", "bare"}
    PROVE  LET name == TextAt(Entries(order), Index(order))
               f == Followed(Filled(site, c, order), c, name, then)
           IN  /\ name \in Name /\ f \in Fields
               /\ order # <<>> => f.website = site
               /\ \/ /\ Index(order) = current
                     /\ f.username = fields.username
                     /\ f.oldUsername = fields.oldUsername
                     /\ f.oldPassword = fields.oldPassword
                  \/ /\ f.username = name /\ f.oldUsername = name
                     /\ f.oldPassword = Password(c, name)
               /\ then # "bare" => f.password = Password(c, name)
               /\ then = "bare" =>
                    f.password = IF order # <<>> THEN c[order[Len(order)]]
                                 ELSE IF Index(order) = current THEN fields.password
                                 ELSE Password(c, name)
<1> DEFINE name == TextAt(Entries(order), Index(order))
           g == Filled(site, c, order)
           f == Followed(g, c, name, then)
           h == IF Index(order) = current THEN fields ELSE Selected(fields, c, name)
<1>1. order \in Seq(Names) /\ Len(order) \in Nat /\ \A i \in 1 .. Len(order) : order[i] \in S
  BY OrderIsSeq
<1>2. c \in Credentials  BY DEF Credentials
<1>3. /\ fields \in Fields /\ combo \in Seq(Names) /\ current \in 0 .. Len(combo)
  BY DEF TypeOK
<1>4. /\ Entries(order) \in Seq(Names) /\ Len(Entries(order)) = Len(order)
      /\ Index(order) \in 0 .. Len(order)
  BY <1>1, <1>3, EntriesAre
<1>5. name \in Name
  <2>1. ASSUME Index(order) # 0 PROVE Entries(order)[Index(order)] \in Names
    <3>1. Index(order) \in 1 .. Len(Entries(order))  BY <1>1, <1>4, <2>1
    <3>2. QED  BY <1>4, <3>1, ElementOfSeq
  <2>2. QED  BY <2>1 DEF TextAt, Name
<1> HIDE DEF name
<1>6. Password(c, name) \in Secret  BY <1>2, <1>5, PasswordTyped
<1>7. /\ h \in Fields
      /\ IF Index(order) = current THEN h = fields
         ELSE /\ h.username = name /\ h.oldUsername = name
              /\ h.password = Password(c, name) /\ h.oldPassword = Password(c, name)
  BY <1>2, <1>3, <1>5, SelectedTyped
<1>8. g = IF order = <<>> THEN h
          ELSE [h EXCEPT !.website = site, !.password = c[order[Len(order)]]]
  BY DEF Filled, name
<1> HIDE DEF g, h
<1>9. order # <<>> => c[order[Len(order)]] \in Secret
  <2>1. order # <<>> => Len(order) \in 1 .. Len(order)  BY <1>1, EmptySeq
  <2>2. QED  BY <1>1, <2>1 DEF Secret
<1>10. /\ g \in Fields
       /\ g.username = h.username /\ g.oldUsername = h.oldUsername
       /\ g.oldPassword = h.oldPassword
       /\ IF order = <<>> THEN g = h
          ELSE g.website = site /\ g.password = c[order[Len(order)]]
  BY <1>7, <1>8, <1>9 DEF Fields
<1>11. CASE then \in {"first", "added"}
  <2>1. f = [g EXCEPT !.password = Password(c, name)]  BY <1>11 DEF Followed
  <2>2. f \in Fields /\ f.username = g.username /\ f.oldUsername = g.oldUsername
        /\ f.oldPassword = g.oldPassword /\ f.password = Password(c, name)
        /\ f.website = g.website
    BY <1>6, <1>10, <2>1 DEF Fields
  <2> HIDE DEF f
  <2>3. QED  BY <1>5, <1>7, <1>10, <1>11, <2>2 DEF f, g, name
<1>12. CASE then = "pick"
  <2>1. f = Selected(g, c, name)  BY <1>12 DEF Followed
  <2>2. /\ f \in Fields /\ f.username = name /\ f.oldUsername = name
        /\ f.password = Password(c, name) /\ f.oldPassword = Password(c, name)
        /\ f.website = g.website
    BY <1>2, <1>5, <1>10, <2>1, SelectedTyped
  <2> HIDE DEF f
  <2>3. QED  BY <1>5, <1>10, <1>12, <2>2 DEF f, g, name
<1>13. CASE then = "bare"
  <2>1. f = g  BY <1>13 DEF Followed
  <2>2. QED  BY <1>5, <1>7, <1>10, <1>13, <2>1 DEF g, name
<1>14. QED  BY <1>11, <1>12, <1>13
-----------------------------------------------------------------------------
(* The operations that wait. *)

LEMMA Kinds ==
    ASSUME NEW f \in Frame
    PROVE  /\ f.op = "sites" => f \in Listing
           /\ f.op = "accounts" => f \in Loading
           /\ f.op = "change" => f \in Changing
           /\ f.op = "delete" => f \in Deleting
           /\ f.op = "add" => f \in Adding
           /\ f.op \in {"sites", "accounts", "change", "delete", "add"}
BY DEF Frame, Listing, Loading, Changing, Deleting, Adding

LEMMA Requests ==
    /\ \A then \in {"first", "added"} :
         ListRequest(then) \in Frame /\ ListRequest(then).op = "sites"
    /\ \A site \in Site, then \in {"first", "added", "pick", "bare"} :
         LET f == AccountRequest(site, then)
         IN  /\ f \in Frame /\ f.op = "accounts" /\ f.step = "posted"
             /\ f.then = then /\ f.site = site
BY DEF ListRequest, AccountRequest, Frame, Listing, Loading, Steps

(* The running operation goes on, ends, or waits for another one. *)
LEMMA Running ==
    ASSUME TypeOK, stack # <<>>
    PROVE  /\ Len(stack) \in Nat \ {0} /\ Top \in Frame
           /\ Below \in Seq(Frame) /\ Len(Below) = Len(stack) - 1
           /\ Below = <<>> <=> Len(stack) = 1
<1>1. stack \in Seq(Frame) /\ Len(stack) \in Nat \ {0}  BY EmptySeq DEF TypeOK
<1>2. \A i \in 1 .. Len(stack) : stack[i] \in Frame  BY <1>1, ElementOfSeq
<1>3. PICK n : n = Len(stack) - 1  OBVIOUS
<1>4. /\ SubSeq(stack, 1, n) \in Seq(Frame)
      /\ Len(SubSeq(stack, 1, n)) = IF 1 <= n THEN n - 1 + 1 ELSE 0
  <2>1. n \in Int /\ \A i \in 1 .. n : stack[i] \in Frame  BY <1>1, <1>2, <1>3
  <2>2. QED  BY <2>1, SubSeqProperties
<1>5. Below \in Seq(Frame) /\ Len(Below) = Len(stack) - 1  BY <1>1, <1>3, <1>4 DEF Below
<1>6. QED  BY <1>1, <1>2, <1>5, EmptySeq DEF Top

LEMMA Pushed ==
    ASSUME NEW s \in Seq(Frame), NEW f \in Frame, stack' = Append(s, f)
    PROVE  /\ stack' \in Seq(Frame) /\ stack' # <<>> /\ Top' = f
           /\ Len(stack') = Len(s) + 1
<1>1. /\ Append(s, f) \in Seq(Frame) /\ Append(s, f) # <<>>
      /\ Len(Append(s, f)) = Len(s) + 1 /\ Append(s, f)[Len(s) + 1] = f
  BY AppendProperties
<1>2. QED  BY <1>1 DEF Top

LEMMA BecomeEffect ==
    ASSUME TypeOK, stack # <<>>, NEW f \in Frame, Become(f)
    PROVE  /\ stack' \in Seq(Frame) /\ stack' # <<>> /\ Top' = f
           /\ Len(stack') = Len(stack)
<1>1. Below \in Seq(Frame) /\ Len(Below) = Len(stack) - 1 /\ Len(stack) \in Nat  BY Running
<1>2. stack' = Append(Below, f)  BY DEF Become
<1>3. QED  BY <1>1, <1>2, Pushed

LEMMA PopEffect ==
    ASSUME TypeOK, stack # <<>>, stack' = Below
    PROVE  /\ stack' \in Seq(Frame) /\ Len(stack') = Len(stack) - 1
           /\ Len(stack) <= 1 => stack' = <<>>
BY Running

LEMMA ServedEffect ==
    ASSUME TypeOK, NEW i \in DOMAIN stack, NEW f \in Frame, Served(i, f)
    PROVE  /\ stack' \in Seq(Frame) /\ stack' # <<>> /\ stack # <<>>
           /\ Len(stack') = Len(stack) /\ stack[i] \in Frame
           /\ Len(stack) <= 1 => i = 1 /\ Top' = f /\ Top = stack[i]
<1>1. stack \in Seq(Frame) /\ i \in 1 .. Len(stack) /\ Len(stack) \in Nat
  BY LenProperties DEF TypeOK
<1>2. /\ stack' \in Seq(Frame) /\ Len(stack') = Len(stack) /\ stack'[i] = f
  BY <1>1, ExceptSeq DEF Served
<1>3. stack # <<>> /\ stack' # <<>>  BY <1>1, <1>2, EmptySeq
<1>4. stack[i] \in Frame  BY <1>1, ElementOfSeq
<1>5. \A n \in Nat : i \in 1 .. n /\ n <= 1 => i = 1 /\ n = 1  OBVIOUS
<1>6. Len(stack) <= 1 => i = 1 /\ Len(stack) = 1  BY <1>1, <1>5
<1>7. QED  BY <1>2, <1>3, <1>4, <1>6 DEF Top

LEMMA AskEffect ==
    ASSUME TypeOK, NEW f \in Frame, Ask(f)
    PROVE  /\ stack' \in Seq(Frame) /\ stack' # <<>> /\ Top' = f
           /\ Len(stack') = Len(stack) + 1 /\ (stack = <<>> => Len(stack') <= 1)
           /\ acts' \in 0 .. MaxActs /\ UNCHANGED <<edits, unused>>
<1>1. stack \in Seq(Frame) /\ acts \in 0 .. MaxActs /\ stack' = Append(stack, f)
  BY DEF TypeOK, Ask
<1>2. acts' \in 0 .. MaxActs  BY <1>1, BoundsNat DEF Ask
<1>3. stack = <<>> => Len(stack) = 0  BY EmptySeq
<1>4. QED  BY <1>1, <1>2, <1>3, Pushed DEF Ask

-----------------------------------------------------------------------------
(* Types. *)

LEMMA NothingTyped ==
    /\ \A s : s = <<>> => s \in Seq(Names) /\ 0 \in 0 .. Len(s)
    /\ Blank \in Name /\ Empty \in Fields
<1>1. <<>> \in Seq(Names) /\ Len(<<>>) = 0  BY EmptySeq
<1>2. ASSUME NEW s, s = <<>> PROVE s \in Seq(Names) /\ 0 \in 0 .. Len(s)
  <2>1. Len(s) = 0  BY <1>1, <1>2
  <2>2. QED  BY <1>1, <1>2, <2>1
<1>3. Blank \in Name /\ Empty \in Fields  BY DEF Name, Empty, Fields, Site, Secret
<1>4. QED  BY <1>2, <1>3

LEMMA ClearTyped ==
    ASSUME TypeOK, ClearCombo
    PROVE  /\ combo' = <<>> /\ current' = 0 /\ fields' \in Fields
           /\ typed' \subseteq typed /\ Remember({})
           /\ fields'.website = fields.website
           /\ IF combo = <<>> THEN fields' = fields
              ELSE /\ fields'.username = Blank /\ fields'.oldUsername = Blank
                   /\ fields'.password = Blank /\ fields'.oldPassword = Blank
<1>1. fields \in Fields  BY DEF TypeOK
<1>2. /\ combo' = <<>> /\ current' = 0 /\ Remember({})
      /\ fields' = IF combo = <<>> THEN fields ELSE Selected(fields, None, Blank)
  BY DEF ClearCombo
<1>3. typed' \subseteq typed  BY <1>2 DEF Remember
<1>4. /\ Selected(fields, None, Blank) \in Fields
      /\ Selected(fields, None, Blank).website = fields.website
      /\ Selected(fields, None, Blank).username = Blank
      /\ Selected(fields, None, Blank).oldUsername = Blank
      /\ Selected(fields, None, Blank).password = Blank
      /\ Selected(fields, None, Blank).oldPassword = Blank
  BY <1>1, NoneTyped, NothingTyped, SelectedTyped
<1>5. QED  BY <1>1, <1>2, <1>3, <1>4

(* What the server does to a vault keeps it a set of documents. *)
LEMMA ServeTyped ==
    ASSUME TypeOK, Serve
    PROVE  /\ vault' \subseteq Doc /\ unused' \subseteq Oids /\ stack' \in Seq(Frame)
           /\ UNCHANGED <<list, box, fields, credentials, form, acts, edits, history>>
<1>1. PICK i \in DOMAIN stack : View(i) \/ Add(i) \/ Delete(i) \/ Change(i) \/ Expired(i)
  BY DEF Serve
<1>2. stack[i] \in Frame
  BY LenProperties, ElementOfSeq DEF TypeOK
<1>3. vault \subseteq Doc /\ unused \subseteq Oids  BY DEF TypeOK
<1>4. CASE View(i)
  <2>1. ASSUME Posted(i, "sites")
        PROVE  [stack[i] EXCEPT !.step = "served", !.sites = {d.site : d \in vault}] \in Frame
    <3>1. stack[i] \in Listing  BY <1>2, <2>1, Kinds DEF Posted
    <3>2. {d.site : d \in vault} \subseteq Sites  BY <1>3 DEF Doc
    <3>3. QED  BY <3>1, <3>2 DEF Listing, Frame, Steps
  <2>2. ASSUME Posted(i, "accounts")
        PROVE  [stack[i] EXCEPT !.step = "served", !.rows = RowsOf(stack[i].site)] \in Frame
    <3>1. stack[i] \in Loading  BY <1>2, <2>2, Kinds DEF Posted
    <3>2. RowsOf(stack[i].site) \subseteq Row  BY <1>3 DEF RowsOf, Doc, Row
    <3>3. QED  BY <3>1, <3>2 DEF Loading, Frame, Steps
  <2>3. stack' \in Seq(Frame)  BY <1>4, <2>1, <2>2, ServedEffect DEF View
  <2>4. QED  BY <1>3, <1>4, <2>3 DEF View, Serve
<1>5. CASE Add(i)
  <2>1. stack[i] \in Adding  BY <1>2, <1>5, Kinds DEF Add, Posted
  <2>2. [stack[i] EXCEPT !.step = "served"] \in Frame  BY <2>1 DEF Adding, Frame, Steps
  <2>3. stack' \in Seq(Frame)  BY <1>5, <2>2, ServedEffect DEF Add
  <2>4. vault' \subseteq Doc /\ unused' \subseteq Oids
    BY <1>3, <1>5, <2>1 DEF Add, Adding, Doc
  <2>5. QED  BY <2>3, <2>4 DEF Serve
<1>6. CASE Delete(i)
  <2>1. stack[i] \in Deleting  BY <1>2, <1>6, Kinds DEF Delete, Posted
  <2>2. \A b \in BOOLEAN : [stack[i] EXCEPT !.step = "served", !.ok = b] \in Frame
    BY <2>1 DEF Deleting, Frame, Steps
  <2>3. stack' \in Seq(Frame)
    <3>1. (Matching(stack[i].site, stack[i].name) # {}) \in BOOLEAN  OBVIOUS
    <3>2. QED  BY <1>6, <2>2, <3>1, ServedEffect DEF Delete
  <2>4. vault' \subseteq Doc /\ unused' \subseteq Oids  BY <1>3, <1>6 DEF Delete
  <2>5. QED  BY <2>3, <2>4 DEF Serve
<1>7. CASE Change(i)
  <2>1. stack[i] \in Changing  BY <1>2, <1>7, Kinds DEF Change, Posted
  <2>2. \A b \in BOOLEAN : [stack[i] EXCEPT !.step = "served", !.ok = b] \in Frame
    BY <2>1 DEF Changing, Frame, Steps
  <2>3. stack' \in Seq(Frame)
    <3>1. (Matching(stack[i].site, stack[i].old) # {}) \in BOOLEAN  OBVIOUS
    <3>2. QED  BY <1>7, <2>2, <3>1, ServedEffect DEF Change
  <2>4. vault' \subseteq Doc
    <3>1. stack[i].name \in Names /\ stack[i].secret \in Secrets  BY <2>1 DEF Changing
    <3>2. ASSUME NEW d \in Doc
          PROVE  [d EXCEPT !.name = stack[i].name, !.secret = stack[i].secret] \in Doc
      BY <3>1 DEF Doc
    <3>3. QED  BY <1>3, <1>7, <3>2 DEF Change
  <2>5. QED  BY <1>3, <1>7, <2>3, <2>4 DEF Change, Serve
<1>8. CASE Expired(i)
  <2>1. stack[i] \in Deleting \cup Changing  BY <1>2, <1>8, Kinds DEF Expired, Posted
  <2>2. [stack[i] EXCEPT !.step = "served", !.ok = TRUE] \in Frame
    BY <2>1 DEF Deleting, Changing, Frame, Steps
  <2>3. stack' \in Seq(Frame)  BY <1>8, <2>2, ServedEffect DEF Expired
  <2>4. QED  BY <1>3, <1>8, <2>3 DEF Expired, Serve
<1>9. QED  BY <1>1, <1>4, <1>5, <1>6, <1>7, <1>8

(* An operation of the user is one that waits. *)
LEMMA AskedTyped ==
    ASSUME TypeOK
    PROVE  /\ \A s \in sites : s \in Site
           /\ Save => \E f \in Frame : /\ Ask(f) /\ f \in Changing /\ f.op = "change"
                                       /\ f.step = "posted" /\ ~f.ok
                                       /\ f.site = fields.website /\ f.old = fields.oldUsername
                                       /\ f.name = fields.username /\ f.secret = fields.password
                                       /\ f.meant = \/ {"website", "password"} \cap typed # {}
                                                    \/ bare \/ doubtful
           /\ Remove => \E f \in Frame : Ask(f) /\ f.op = "delete" /\ f.step = "posted" /\ ~f.ok
           /\ \A s \in Sites, n \in Names, p \in Secrets :
                AddAccount(s, n, p) => \E f \in Frame : Ask(f) /\ f.op = "add"
<1>1. fields \in Fields /\ sites \subseteq Sites  BY DEF TypeOK
<1>2. ASSUME Save
      PROVE  \E f \in Frame : /\ Ask(f) /\ f \in Changing /\ f.op = "change"
                              /\ f.step = "posted" /\ ~f.ok
                              /\ f.site = fields.website /\ f.old = fields.oldUsername
                              /\ f.name = fields.username /\ f.secret = fields.password
                              /\ f.meant = \/ {"website", "password"} \cap typed # {}
                                           \/ bare \/ doubtful
  <2> DEFINE f == [op |-> "change", step |-> "posted", site |-> fields.website,
                   old |-> fields.oldUsername, name |-> fields.username,
                   secret |-> fields.password, ok |-> FALSE,
                   meant |-> \/ {"website", "password"} \cap typed # {}
                             \/ bare \/ doubtful]
  <2>1. fields.username \in Names /\ fields.password \in Secrets
    BY <1>1, <1>2 DEF Save, Fields, Name, Secret
  <2>2. fields.website \in Site /\ fields.oldUsername \in Name  BY <1>1 DEF Fields
  <2>3. f \in Changing  BY <2>1, <2>2 DEF Changing, Steps
  <2>4. f \in Frame  BY <2>3 DEF Frame
  <2>5. Ask(f)  BY <1>2 DEF Save
  <2>6. QED  BY <2>3, <2>4, <2>5
<1>3. ASSUME Remove
      PROVE  \E f \in Frame : Ask(f) /\ f.op = "delete" /\ f.step = "posted" /\ ~f.ok
  <2> DEFINE f == [op |-> "delete", step |-> "posted", site |-> fields.website,
                   name |-> fields.username, ok |-> FALSE]
  <2>1. f \in Frame  BY <1>1 DEF Fields, Frame, Deleting, Steps
  <2>2. Ask(f)  BY <1>3 DEF Remove
  <2>3. QED  BY <2>1, <2>2
<1>4. ASSUME NEW s \in Sites, NEW n \in Names, NEW p \in Secrets, AddAccount(s, n, p)
      PROVE  \E f \in Frame : Ask(f) /\ f.op = "add"
  <2> DEFINE f == [op |-> "add", step |-> "posted", site |-> s, name |-> n, secret |-> p]
  <2>1. f \in Frame  BY DEF Frame, Adding, Steps
  <2>2. Ask(f)  BY <1>4 DEF AddAccount
  <2>3. QED  BY <2>1, <2>2
<1>5. QED  BY <1>1, <1>2, <1>3, <1>4 DEF Site

(* The answer to a load lists the rows the server has found, or nothing.   *)
LEMMA LoadEffect ==
    ASSUME TypeOK, AccountsAnswered
    PROVE  /\ stack # <<>> /\ Top \in Loading /\ Remember({})
           /\ UNCHANGED <<vault, list, form, bounds, mixed>>
           /\ \E S \in SUBSET Names, rows \in SUBSET Row :
                /\ rows = {} \/ (rows = Top.rows /\ Top.step = "served" /\ ~doubtful')
                /\ doubtful' \in BOOLEAN /\ (rows = {} \/ S = {r.name : r \in rows})
                /\ rows = {} => S = {}
                /\ \E order \in Orders(S), c \in [S -> Secrets] : Loaded(rows, order, c)
<1>1. stack # <<>> /\ Top.op = "accounts"  BY DEF AccountsAnswered, Waiting
<1>2. Top \in Loading  BY <1>1, Running, Kinds
<1>3. PICK lost \in Lost :
         LET rows == IF lost THEN {} ELSE Top.rows
             names == {r.name : r \in rows}
         IN  /\ \E order \in Orders(names), c \in [names -> Secrets] : Loaded(rows, order, c)
             /\ doubtful' = (doubtful /\ lost)
  BY DEF AccountsAnswered
<1> DEFINE rows == IF lost THEN {} ELSE Top.rows
           names == {r.name : r \in rows}
<1>4. lost \in BOOLEAN /\ (~lost => Top.step = "served")  BY <1>2 DEF Lost, Loading, Steps
<1>5. rows \in SUBSET Row /\ names \in SUBSET Names  BY <1>2 DEF Loading, Row
<1>6. rows = {} \/ (rows = Top.rows /\ Top.step = "served" /\ ~doubtful')  BY <1>3, <1>4
<1>7. doubtful' \in BOOLEAN /\ (rows = {} => names = {})  BY <1>3
<1>8. \E order \in Orders(names), c \in [names -> Secrets] : Loaded(rows, order, c)  BY <1>3
<1> HIDE DEF rows
<1>9. QED  BY <1>1, <1>2, <1>5, <1>6, <1>7, <1>8 DEF AccountsAnswered

LEMMA LoadTyped ==
    ASSUME TypeOK, AccountsAnswered
    PROVE  TypeOK'
<1>1. /\ stack # <<>> /\ Top \in Loading /\ Remember({})
      /\ UNCHANGED <<vault, list, form, bounds, mixed>>
  BY LoadEffect
<1>2. PICK S \in SUBSET Names, rows \in SUBSET Row :
         /\ doubtful' \in BOOLEAN
         /\ \E order \in Orders(S), c \in [S -> Secrets] : Loaded(rows, order, c)
  BY LoadEffect
<1>3. PICK order \in Orders(S), c \in [S -> Secrets] : Loaded(rows, order, c)  BY <1>2
<1>4. /\ Top.site \in Site /\ Top.then \in {"first", "added", "pick", "bare"}
  BY <1>1 DEF Loading
<1> DEFINE name == TextAt(Entries(order), Index(order))
           f == Followed(Filled(Top.site, c, order), c, name, Top.then)
<1>5. f \in Fields /\ Selected(f, None, Blank) \in Fields
  BY <1>4, FilledTyped, NoneTyped, NothingTyped, SelectedTyped
<1>6. /\ Entries(order) \in Seq(Names) /\ Index(order) \in 0 .. Len(Entries(order))
  BY OrderIsSeq, EntriesAre DEF TypeOK
<1>7. fields' \in Fields
  BY <1>3, <1>5 DEF Loaded
<1>8. combo' \in Seq(Names) /\ current' \in 0 .. Len(combo')
  BY <1>3, <1>6, NothingTyped DEF Loaded
<1>9. stack' \in Seq(Frame)
  <2>1. AccountRequest(form, "bare") \in Frame  BY Requests DEF TypeOK
  <2>2. QED  BY <1>1, <1>3, <2>1, BecomeEffect, PopEffect DEF Loaded
<1>10. credentials' \in Credentials /\ from' \in Site /\ bare' \in BOOLEAN /\ doubtful' \in BOOLEAN
  BY <1>2, <1>3, <1>4 DEF Loaded, Credentials
<1>11. typed' \subseteq typed  BY <1>1 DEF Remember
<1>12. QED
  BY <1>1, <1>7, <1>8, <1>9, <1>10, <1>11 DEF TypeOK, Credentials, list, bounds

LEMMA SitesTyped ==
    ASSUME TypeOK, SitesAnswered
    PROVE  TypeOK'
<1>1. stack # <<>> /\ Top.op = "sites"  BY DEF SitesAnswered, Waiting
<1>2. Top \in Listing  BY <1>1, Running, Kinds
<1>3. UNCHANGED <<vault, bounds>>  BY DEF SitesAnswered
<1>4. CASE Reopen
  <2>1. stack' \in Seq(Frame)
    <3>1. ListRequest("first") \in Frame  BY Requests
    <3>2. QED  BY <1>4, <3>1 DEF Reopen
  <2>2. sites' = {} /\ chosen' = Blank  BY <1>4 DEF Reopen, ClearList
  <2>3. combo' \in Seq(Names) /\ current' \in 0 .. Len(combo') /\ fields' \in Fields
    BY <1>4, NothingTyped DEF Reopen
  <2>4. /\ credentials' \in Credentials /\ form' \in Site /\ from' \in Site /\ typed' = {}
        /\ bare' = FALSE /\ mixed' = FALSE /\ doubtful' = FALSE
    BY <1>4, NoneTyped DEF Reopen, Site
  <2>5. QED
    BY <1>3, <2>1, <2>2, <2>3, <2>4 DEF TypeOK, Credentials, bounds
<1>5. ASSUME NEW found \in SUBSET Sites, NEW s \in Site,
             sites' = sites \cup found, Become(AccountRequest(s, Top.then)), ClearCombo,
             UNCHANGED <<chosen, credentials, form, from, bare, mixed, doubtful>>
      PROVE  TypeOK'
  <2>1. AccountRequest(s, Top.then) \in Frame  BY <1>2, Requests DEF Listing
  <2>2. stack' \in Seq(Frame)  BY <1>1, <1>5, <2>1, BecomeEffect
  <2>3. /\ combo' = <<>> /\ current' = 0 /\ fields' \in Fields /\ typed' \subseteq typed
    BY <1>5, ClearTyped
  <2>4. QED  BY <1>3, <1>5, <2>2, <2>3, NothingTyped DEF TypeOK, bounds
<1>6. QED
  <2>1. PICK lost \in Lost :
           LET found == IF lost THEN {} ELSE Top.sites
           IN  \/ found = {} /\ Reopen
               \/ \E s \in IF found = {} THEN {Blank} ELSE found :
                    /\ sites' = sites \cup found
                    /\ Become(AccountRequest(s, Top.then))
                    /\ ClearCombo
                    /\ UNCHANGED <<chosen, credentials, form, from, bare, mixed, doubtful>>
    BY DEF SitesAnswered
  <2> DEFINE found == IF lost THEN {} ELSE Top.sites
  <2>2. found \in SUBSET Sites  BY <1>2 DEF Listing
  <2>3. (IF found = {} THEN {Blank} ELSE found) \subseteq Site  BY <2>2 DEF Site
  <2>4. QED  BY <1>4, <1>5, <2>1, <2>2, <2>3

LEMMA TypeInductive ==
    ASSUME TypeOK, [Next]_vars
    PROVE  TypeOK'
<1>1. CASE Serve
  BY <1>1, ServeTyped DEF TypeOK, list, box, history
<1>2. CASE SitesAnswered  BY <1>2, SitesTyped
<1>3. CASE AccountsAnswered  BY <1>3, LoadTyped
<1>4. CASE AddAnswered
  <2>1. stack # <<>> /\ ListRequest("added") \in Frame
    BY <1>4, Requests DEF AddAnswered, Waiting
  <2>2. stack' \in Seq(Frame)  BY <1>4, <2>1, BecomeEffect DEF AddAnswered
  <2>3. QED  BY <1>4, <2>2 DEF AddAnswered, ClearList, TypeOK, box, bounds, history
<1>5. CASE Told
  <2>1. stack # <<>> /\ Top.op \in {"change", "delete"}  BY <1>5 DEF Told, Waiting
  <2>2. Top \in Changing \cup Deleting  BY <2>1, Running, Kinds
  <2>3. \A b \in BOOLEAN : [Top EXCEPT !.step = "box", !.ok = b] \in Frame
    BY <2>2 DEF Changing, Deleting, Frame
  <2>4. PICK lost \in Lost : /\ Become([Top EXCEPT !.step = "box", !.ok = Top.ok /\ ~lost])
                             /\ doubtful' = (doubtful \/ (Top.ok /\ lost))
    BY <1>5 DEF Told
  <2>5. (Top.ok /\ ~lost) \in BOOLEAN  OBVIOUS
  <2>6. stack' \in Seq(Frame)  BY <2>1, <2>3, <2>4, <2>5, BecomeEffect
  <2>7. doubtful' \in BOOLEAN  BY <2>4
  <2>8. QED  BY <1>5, <2>6, <2>7 DEF Told, TypeOK, list, box, bounds
<1>6. CASE CloseBox
  <2>1. stack # <<>>  BY <1>6 DEF CloseBox, InBox
  <2>2. /\ UNCHANGED <<vault, credentials, form, bounds, from, bare, mixed, doubtful>>
        /\ \/ stack' = Below /\ UNCHANGED <<list, box, fields, typed>>
           \/ Become(AccountRequest(fields.website, "bare")) /\ ClearCombo /\ UNCHANGED list
           \/ Become(ListRequest("first")) /\ ClearList /\ UNCHANGED <<box, fields, typed>>
    BY <1>6 DEF CloseBox
  <2>3. /\ AccountRequest(fields.website, "bare") \in Frame /\ ListRequest("first") \in Frame
    BY Requests DEF TypeOK, Fields
  <2>4. stack' \in Seq(Frame)  BY <2>1, <2>2, <2>3, BecomeEffect, PopEffect
  <2>5. CASE UNCHANGED <<box, fields, typed>>
    BY <2>2, <2>4, <2>5 DEF TypeOK, list, box, bounds, ClearList
  <2>6. CASE ClearCombo /\ UNCHANGED list
    BY <2>2, <2>4, <2>6, ClearTyped, NothingTyped DEF TypeOK, list, bounds
  <2>7. QED  BY <2>2, <2>5, <2>6
<1>7. ASSUME NEW s \in sites, PickSite(s) PROVE TypeOK'
  <2>1. AccountRequest(s, "pick") \in Frame  BY AskedTyped, Requests
  <2>2. /\ stack' \in Seq(Frame) /\ acts' \in 0 .. MaxActs /\ UNCHANGED <<edits, unused>>
    BY <1>7, <2>1, AskEffect DEF PickSite
  <2>3. /\ combo' = <<>> /\ current' = 0 /\ fields' \in Fields /\ typed' \subseteq typed
    BY <1>7, ClearTyped DEF PickSite
  <2>4. mixed' \in BOOLEAN  BY <1>7 DEF PickSite
  <2>5. QED  BY <1>7, <2>2, <2>3, <2>4, NothingTyped DEF PickSite, TypeOK
<1>8. CASE BrowserSignal
  <2>1. /\ stack' \in Seq(Frame) /\ acts' \in 0 .. MaxActs /\ UNCHANGED <<edits, unused>>
    BY <1>8, Requests, AskEffect DEF BrowserSignal
  <2>2. QED  BY <1>8, <2>1 DEF BrowserSignal, ClearList, TypeOK, box
<1>9. ASSUME NEW i \in DOMAIN combo, PickName(i) PROVE TypeOK'
  <2>1. i \in 1 .. Len(combo) /\ combo[i] \in Name /\ Len(combo) \in Nat
    BY LenProperties, ElementOfSeq DEF TypeOK, Name
  <2>2. credentials \in Credentials /\ fields \in Fields  BY DEF TypeOK, Credentials
  <2>3. fields' \in Fields  BY <1>9, <2>1, <2>2, SelectedTyped DEF PickName
  <2>4. typed' \subseteq typed  BY <1>9 DEF PickName, Remember
  <2>5. current' \in 0 .. Len(combo')
    <3>1. current' = i /\ combo' = combo  BY <1>9 DEF PickName
    <3>2. QED  BY <2>1, <3>1
  <2>6. QED  BY <1>9, <2>3, <2>4, <2>5 DEF PickName, TypeOK, list, bounds
<1>10. CASE Edit
  <2>1. ASSUME NEW x \in {"website", "username", "password"}, NEW text, Write(x, text),
               [fields EXCEPT ![x] = text] \in Fields
        PROVE  TypeOK'
    <3>1. edits' \in 0 .. MaxEdits  BY <2>1, BoundsNat DEF Write, TypeOK
    <3>2. typed' \subseteq {"website", "username", "password"}
      BY <2>1 DEF Write, Remember, TypeOK
    <3>3. QED  BY <2>1, <3>1, <3>2 DEF Write, TypeOK, list, box
  <2>2. fields \in Fields  BY DEF TypeOK
  <2>3. ASSUME NEW s \in Sites PROVE [fields EXCEPT !["website"] = s] \in Fields
    BY <2>2 DEF Fields, Site
  <2>4. ASSUME NEW n \in Names PROVE [fields EXCEPT !["username"] = n] \in Fields
    BY <2>2 DEF Fields, Name
  <2>5. ASSUME NEW p \in Secrets PROVE [fields EXCEPT !["password"] = p] \in Fields
    BY <2>2 DEF Fields, Secret
  <2>6. QED  BY <1>10, <2>1, <2>3, <2>4, <2>5 DEF Edit
<1>11. ASSUME NEW f \in Frame, Ask(f),
              UNCHANGED <<vault, list, box, fields, credentials, from, typed, bare, doubtful>>,
              mixed' \in BOOLEAN, form' \in Site
       PROVE  TypeOK'
  BY <1>11, AskEffect DEF TypeOK, list, box
<1>12. CASE Save
  BY <1>11, <1>12, AskedTyped DEF Save, TypeOK
<1>13. CASE Remove
  BY <1>11, <1>13, AskedTyped DEF Remove, TypeOK
<1>14. ASSUME NEW s \in Sites, NEW n \in Names, NEW p \in Secrets, AddAccount(s, n, p)
       PROVE  TypeOK'
  BY <1>11, <1>14, AskedTyped DEF AddAccount, Site
<1>15. CASE UNCHANGED vars
  BY <1>15 DEF vars, list, box, bounds, history, TypeOK
<1>16. QED
  BY <1>1, <1>2, <1>3, <1>4, <1>5, <1>6, <1>7, <1>8, <1>9, <1>10, <1>12, <1>13, <1>14, <1>15
  DEF Next, User

LEMMA InitTyped == Init => TypeOK
<1> SUFFICES ASSUME Init PROVE TypeOK
  OBVIOUS
<1>1. stack \in Seq(Frame)  BY Requests DEF Init
<1>2. vault \subseteq Doc /\ unused \subseteq Oids  BY DEF Init
<1>3. combo \in Seq(Names) /\ current \in 0 .. Len(combo) /\ fields \in Fields
  BY NothingTyped DEF Init
<1>4. credentials \in UNION {[S -> Secrets] : S \in SUBSET Names}
  BY NoneTyped DEF Init, Credentials
<1>5. acts \in 0 .. MaxActs /\ edits \in 0 .. MaxEdits  BY BoundsNat DEF Init
<1>6. QED  BY <1>1, <1>2, <1>3, <1>4, <1>5 DEF Init, TypeOK, Site

(* The fields, the combo box and the waiting operations keep their types,  *)
(* for any accounts and however deep the operations are nested.            *)
THEOREM Typing == Spec => []TypeOK
BY InitTyped, TypeInductive, PTL DEF Spec

-----------------------------------------------------------------------------
(* What the fields show. *)

(* The old account is the one the combo box shows, whatever waits; the     *)
(* user name is the old one until the user writes over it.                 *)
Shows ==
    /\ combo # <<>> => current # 0
    /\ fields.oldUsername = TextAt(combo, current)
    /\ combo = <<>> => fields.oldPassword = Blank
    /\ fields.username = fields.oldUsername \/ "username" \in typed

LEMMA ClearShows ==
    ASSUME TypeOK, Shows, ClearCombo
    PROVE  Shows' /\ fields'.oldUsername = Blank /\ fields'.oldPassword = Blank
<1>1. combo = <<>> => current = 0
  <2>1. Len(<<>>) = 0 /\ current \in 0 .. Len(combo)  BY EmptySeq DEF TypeOK
  <2>2. QED  BY <2>1
<1>2. combo = <<>> => fields.oldUsername = Blank  BY <1>1 DEF Shows, TextAt
<1>3. /\ combo' = <<>> /\ current' = 0 /\ Remember({})
      /\ IF combo = <<>> THEN fields' = fields
         ELSE /\ fields'.username = Blank /\ fields'.oldUsername = Blank
              /\ fields'.password = Blank /\ fields'.oldPassword = Blank
  BY ClearTyped
<1>4. fields'.oldUsername = Blank /\ fields'.oldPassword = Blank  BY <1>2, <1>3 DEF Shows
<1>5. fields'.username = fields'.oldUsername \/ "username" \in typed'
  BY <1>3 DEF Shows, Remember
<1>6. QED  BY <1>3, <1>4, <1>5 DEF Shows, TextAt

LEMMA LoadShows ==
    ASSUME TypeOK, Shows, AccountsAnswered
    PROVE  Shows'
<1>1. stack # <<>> /\ Top \in Loading /\ Remember({})  BY LoadEffect
<1>2. PICK S \in SUBSET Names, rows \in SUBSET Row :
         \E order \in Orders(S), c \in [S -> Secrets] : Loaded(rows, order, c)
  BY LoadEffect
<1>3. PICK order \in Orders(S), c \in [S -> Secrets] : Loaded(rows, order, c)  BY <1>2
<1> DEFINE name == TextAt(Entries(order), Index(order))
           f == Followed(Filled(Top.site, c, order), c, name, Top.then)
<1>4. Top.site \in Site /\ Top.then \in {"first", "added", "pick", "bare"}
  BY <1>1 DEF Loading
<1>5. /\ name \in Name /\ f \in Fields
      /\ \/ /\ Index(order) = current /\ f.username = fields.username
            /\ f.oldUsername = fields.oldUsername /\ f.oldPassword = fields.oldPassword
         \/ /\ f.username = name /\ f.oldUsername = name
            /\ f.oldPassword = Password(c, name)
  BY <1>4, FilledTyped
<1>6. order \in Seq(Names) /\ combo \in Seq(Names) /\ current \in 0 .. Len(combo)
  BY OrderIsSeq DEF TypeOK
<1>7. /\ Entries(order) \in Seq(Names) /\ Len(Entries(order)) = Len(order)
      /\ Index(order) = 0 <=> order = <<>>
      /\ Index(order) = current /\ current # 0 => Entries(order)[current] = combo[current]
  BY <1>6, EntriesAre DEF Shows
<1>8. Entries(order) = <<>> <=> order = <<>>
  BY <1>6, <1>7, EmptySeq
<1>9. f.oldUsername = name
  <2>1. CASE Index(order) = current /\ current # 0
    BY <1>5, <1>7, <2>1 DEF Shows, TextAt
  <2>2. CASE Index(order) = current /\ current = 0
    BY <1>5, <2>2 DEF Shows, TextAt
  <2>3. QED  BY <1>5, <2>1, <2>2
<1>10. order = <<>> => name = Blank /\ f.oldPassword = Blank
  <2>1. SUFFICES ASSUME order = <<>> PROVE name = Blank /\ f.oldPassword = Blank
    OBVIOUS
  <2>2. Index(order) = 0 /\ name = Blank  BY <1>7, <2>1 DEF TextAt
  <2>3. c \in Credentials  BY DEF Credentials
  <2>4. Password(c, Blank) = Blank  BY <2>3, NothingTyped, PasswordTyped
  <2>5. Index(order) = current => combo = <<>>  BY <2>2 DEF Shows
  <2> HIDE DEF name, f
  <2>6. QED  BY <1>5, <2>2, <2>4, <2>5 DEF Shows
<1>11. f.username = f.oldUsername \/ (f.username = fields.username /\ "username" \in typed)
  BY <1>5, <1>9 DEF Shows
<1>12. CASE Top.then = "added"
  <2>1. /\ combo' = <<>> /\ current' = 0
        /\ fields' = IF Entries(order) = <<>> THEN f ELSE Selected(f, None, Blank)
    BY <1>3, <1>12 DEF Loaded
  <2>2. /\ Selected(f, None, Blank).username = Blank
        /\ Selected(f, None, Blank).oldUsername = Blank
        /\ Selected(f, None, Blank).oldPassword = Blank
    BY <1>5, NoneTyped, NothingTyped, SelectedTyped
  <2> HIDE DEF f, name
  <2>3. /\ fields'.oldUsername = Blank /\ fields'.oldPassword = Blank
        /\ \/ fields'.username = fields'.oldUsername
           \/ fields'.username = fields.username /\ "username" \in typed
    BY <1>8, <1>9, <1>10, <1>11, <2>1, <2>2
  <2>4. QED  BY <1>1, <2>1, <2>3 DEF Shows, TextAt, Remember
<1>13. CASE Top.then # "added"
  <2>1. combo' = Entries(order) /\ current' = Index(order) /\ fields' = f
    BY <1>3, <1>13 DEF Loaded
  <2>2. fields'.oldUsername = TextAt(combo', current')  BY <1>9, <2>1
  <2> HIDE DEF f, name
  <2>3. /\ combo' # <<>> => current' # 0
        /\ combo' = <<>> => fields'.oldPassword = Blank
    BY <1>7, <1>8, <1>10, <2>1
  <2>4. QED  BY <1>1, <1>11, <2>1, <2>2, <2>3 DEF Shows, Remember
<1>14. QED  BY <1>12, <1>13

LEMMA ShowsInductive ==
    ASSUME TypeOK, Shows, [Next]_vars
    PROVE  Shows'
<1>1. ASSUME UNCHANGED <<box, fields, typed>> PROVE Shows'
  BY <1>1 DEF Shows, box, TextAt
<1>2. CASE Serve  BY <1>1, <1>2 DEF Serve, history
<1>3. CASE SitesAnswered
  <2>1. CASE Reopen
    BY <2>1 DEF Reopen, Shows, TextAt, Empty
  <2>2. CASE ClearCombo  BY <2>2, ClearShows
  <2>3. QED  BY <1>3, <2>1, <2>2 DEF SitesAnswered
<1>4. CASE AccountsAnswered  BY <1>4, LoadShows
<1>5. CASE AddAnswered \/ Told \/ BrowserSignal
  BY <1>1, <1>5 DEF AddAnswered, Told, BrowserSignal, history
<1>6. CASE CloseBox
  <2>1. ClearCombo \/ UNCHANGED <<box, fields, typed>>  BY <1>6 DEF CloseBox
  <2>2. QED  BY <1>1, <2>1, ClearShows
<1>7. ASSUME NEW s \in sites, PickSite(s) PROVE Shows'
  BY <1>7, ClearShows DEF PickSite
<1>8. ASSUME NEW i \in DOMAIN combo, PickName(i) PROVE Shows'
  <2>1. i \in 1 .. Len(combo) /\ combo[i] \in Name /\ combo # <<>>
    <3>1. combo \in Seq(Names) /\ i \in 1 .. Len(combo)  BY LenProperties DEF TypeOK
    <3>2. QED  BY <3>1, EmptySeq, ElementOfSeq DEF Name
  <2>2. credentials \in Credentials /\ fields \in Fields  BY DEF TypeOK, Credentials
  <2>3. fields'.username = combo[i] /\ fields'.oldUsername = combo[i]
    BY <1>8, <2>1, <2>2, SelectedTyped DEF PickName
  <2>4. i # 0 /\ current' = i /\ combo' = combo  BY <1>8, <2>1 DEF PickName
  <2>5. QED  BY <2>1, <2>3, <2>4 DEF Shows, TextAt
<1>9. CASE Edit
  <2>1. ASSUME NEW x \in {"website", "username", "password"}, NEW text, Write(x, text)
        PROVE  Shows'
    <3>1. /\ fields' = [fields EXCEPT ![x] = text] /\ UNCHANGED box
          /\ x \in typed' /\ \A y \in typed : fields'[y] = fields[y] => y \in typed'
      BY <2>1 DEF Write, Remember
    <3>2. fields \in Fields  BY DEF TypeOK
    <3>3. /\ fields'.oldUsername = fields.oldUsername /\ fields'.oldPassword = fields.oldPassword
          /\ x # "username" => fields'.username = fields.username
      BY <3>1, <3>2 DEF Fields
    <3>4. QED  BY <3>1, <3>3 DEF Shows, TextAt, box
  <2>2. QED  BY <1>9, <2>1 DEF Edit
<1>10. CASE Save \/ Remove  BY <1>1, <1>10 DEF Save, Remove
<1>11. ASSUME NEW s \in Sites, NEW n \in Names, NEW p \in Secrets, AddAccount(s, n, p)
       PROVE  Shows'
  BY <1>1, <1>11 DEF AddAccount
<1>12. CASE UNCHANGED vars  BY <1>1, <1>12 DEF vars, history
<1>13. QED
  BY <1>2, <1>3, <1>4, <1>5, <1>6, <1>7, <1>8, <1>9, <1>10, <1>11, <1>12 DEF Next, User

-----------------------------------------------------------------------------
(* The documents. *)

(* A document has an id of its own, which is not given again. *)
Documents ==
    /\ \A d, e \in vault : d.oid = e.oid => d = e
    /\ \A d \in vault : d.oid \notin unused

LEMMA DocumentsInductive ==
    ASSUME TypeOK, Documents, [Next]_vars
    PROVE  Documents'
<1>1. ASSUME UNCHANGED <<vault, unused>> PROVE Documents'
  BY <1>1 DEF Documents
<1>2. CASE Serve
  <2>1. PICK i \in DOMAIN stack : View(i) \/ Add(i) \/ Delete(i) \/ Change(i) \/ Expired(i)
    BY <1>2 DEF Serve
  <2>2. CASE View(i) \/ Expired(i)  BY <1>1, <2>2 DEF View, Expired
  <2>3. CASE Add(i)  BY <1>1, <2>3 DEF Add, Documents
  <2>4. CASE Delete(i)  BY <2>4 DEF Delete, Documents
  <2>5. CASE Change(i)
    <3>1. \/ vault' = vault
          \/ \E d \in vault : vault' = (vault \ {d}) \cup
               {[d EXCEPT !.name = stack[i].name, !.secret = stack[i].secret]}
      BY <2>5 DEF Change
    <3>2. \A d \in vault :
             [d EXCEPT !.name = stack[i].name, !.secret = stack[i].secret].oid = d.oid
      BY DEF TypeOK, Doc
    <3>3. unused' = unused  BY <2>5 DEF Change
    <3>4. QED  BY <3>1, <3>2, <3>3 DEF Documents
  <2>6. QED  BY <2>1, <2>2, <2>3, <2>4, <2>5
<1>3. UNCHANGED <<vault, unused>> \/ Serve
  BY DEF Next, User, Edit, SitesAnswered, AccountsAnswered, AddAnswered, Told, CloseBox, PickSite,
         PickName, Write, Save, Remove, AddAccount, BrowserSignal, Ask, bounds, vars
<1>4. QED  BY <1>1, <1>2, <1>3

-----------------------------------------------------------------------------
(* Operations that are not nested. *)

(* The fields show the selected account, as far as the user has not        *)
(* written over them.                                                      *)
Accurate ==
    /\ fields.oldPassword = Password(credentials, fields.oldUsername)
    /\ fields.password = fields.oldPassword \/ "password" \in typed \/ bare
    /\ combo = <<>> \/ fields.website = from \/ "website" \in typed
    /\ bare => combo # <<>>

(* Where a site has one account of a name, this is its password; the       *)
(* credentials are what is stored.                                         *)
StoredAs(site, name, secret) ==
    \A d \in vault : Matching(site, name) = {d} => d.secret = secret
Fresh == \A n \in DOMAIN credentials : StoredAs(from, n, credentials[n])

(* As long as operations have not been nested, at most one waits.  A save  *)
(* or a deletion leaves the fields alone, and the vault too until it has   *)
(* been handled; a load waits with an empty combo box, and its rows are    *)
(* those of the vault.                                                     *)
OnePage ==
    /\ Len(stack) <= 1
    /\ stack = <<>> => Accurate /\ (~doubtful => Fresh)
    /\ stack # <<>> /\ Top.op \in {"change", "delete"} =>
         /\ Accurate
         /\ Top.step = "posted" => ~Top.ok
         /\ ~Top.ok /\ ~doubtful => Fresh
    /\ stack # <<>> /\ Top.op = "change" /\ Top.step = "posted" /\ ~Top.meant =>
         StoredAs(Top.site, Top.old, Top.secret)
    /\ stack # <<>> /\ Top.op = "accounts" =>
         /\ combo = <<>>
         /\ Top.then = "bare" => fields.password = Blank \/ "password" \in typed
         /\ Top.step = "served" => Top.rows = RowsOf(Top.site)

LEMMA AccurateKept ==
    ASSUME UNCHANGED <<box, fields, credentials, from, typed, bare>>
    PROVE  Accurate' <=> Accurate
BY DEF Accurate, Password, box

LEMMA FreshKept ==
    ASSUME UNCHANGED <<vault, credentials, from>>
    PROVE  Fresh' <=> Fresh
BY DEF Fresh, StoredAs, Matching

(* A list of sites is asked for next, or the server adds an account. *)
LEMMA SitesNext ==
    ASSUME stack' # <<>>, Top'.op \in {"sites", "add"}, Len(stack') <= 1
    PROVE  OnePage'
BY DEF OnePage

(* The accounts of a site are asked for next. *)
LEMMA LoadNext ==
    ASSUME stack' # <<>>, NEW site \in Site, NEW then \in {"first", "added", "pick", "bare"},
           Top' = AccountRequest(site, then), Len(stack') <= 1, combo' = <<>>,
           then = "bare" => fields'.password = Blank \/ "password" \in typed'
    PROVE  OnePage'
<1>1. Top'.op = "accounts" /\ Top'.step = "posted" /\ Top'.then = then
  BY DEF AccountRequest
<1>2. QED  BY <1>1 DEF OnePage

LEMMA ServeOnePage ==
    ASSUME TypeOK, OnePage, Serve
    PROVE  OnePage'
<1>1. PICK i \in DOMAIN stack : View(i) \/ Add(i) \/ Delete(i) \/ Change(i) \/ Expired(i)
  BY DEF Serve
<1>2. stack[i] \in Frame  BY LenProperties, ElementOfSeq DEF TypeOK
<1>3. UNCHANGED <<box, fields, credentials, from, typed, bare, doubtful, combo>>
  BY DEF Serve, history, box
<1>4. Accurate' <=> Accurate  BY <1>3, AccurateKept
<1>5. Len(stack) <= 1  BY DEF OnePage
<1>6. ASSUME NEW f \in Frame, Served(i, f)
      PROVE  /\ stack' # <<>> /\ stack # <<>> /\ Len(stack') <= 1
             /\ Top' = f /\ Top = stack[i]
  BY <1>5, <1>6, ServedEffect
<1>7. CASE View(i)
  <2>1. ASSUME Posted(i, "sites"),
               Served(i, [stack[i] EXCEPT !.step = "served", !.sites = {d.site : d \in vault}])
        PROVE  OnePage'
    <3> DEFINE f == [stack[i] EXCEPT !.step = "served", !.sites = {d.site : d \in vault}]
    <3>1. stack[i] \in Listing  BY <1>2, <2>1, Kinds DEF Posted
    <3>2. {d.site : d \in vault} \subseteq Sites  BY DEF Doc, TypeOK
    <3>3. f \in Frame /\ f.op = "sites"  BY <3>1, <3>2 DEF Listing, Frame, Steps
    <3>4. QED  BY <1>6, <2>1, <3>3, SitesNext
  <2>2. ASSUME Posted(i, "accounts"),
               Served(i, [stack[i] EXCEPT !.step = "served", !.rows = RowsOf(stack[i].site)])
        PROVE  OnePage'
    <3> DEFINE f == [stack[i] EXCEPT !.step = "served", !.rows = RowsOf(stack[i].site)]
    <3>1. stack[i] \in Loading  BY <1>2, <2>2, Kinds DEF Posted
    <3>2. RowsOf(stack[i].site) \subseteq Row  BY DEF RowsOf, Doc, Row, TypeOK
    <3>3. /\ f \in Frame /\ f.op = "accounts" /\ f.then = stack[i].then /\ f.site = stack[i].site
          /\ f.rows = RowsOf(f.site)
      BY <3>1, <3>2 DEF Loading, Frame, Steps
    <3>4. stack' # <<>> /\ stack # <<>> /\ Len(stack') <= 1 /\ Top' = f /\ Top = stack[i]
      BY <1>6, <2>2, <3>3
    <3>5. vault' = vault  BY <1>7 DEF View
    <3>6. ASSUME NEW site PROVE RowsOf(site)' = RowsOf(site)  BY <3>5 DEF RowsOf
    <3>7. Top'.rows = RowsOf(Top.site)'  BY <3>3, <3>4, <3>6
    <3>8. stack[i].op = "accounts"  BY <2>2 DEF Posted
    <3> HIDE DEF f
    <3>9. QED  BY <1>3, <3>3, <3>4, <3>7, <3>8 DEF OnePage
  <2>3. QED  BY <1>7, <2>1, <2>2 DEF View
<1>8. CASE Add(i)
  <2>1. stack[i] \in Adding  BY <1>2, <1>8, Kinds DEF Add, Posted
  <2>2. /\ [stack[i] EXCEPT !.step = "served"] \in Frame
        /\ [stack[i] EXCEPT !.step = "served"].op = "add"
    BY <2>1 DEF Adding, Frame, Steps
  <2>3. QED  BY <1>6, <1>8, <2>2, SitesNext DEF Add
<1>9. ASSUME NEW b \in BOOLEAN, Posted(i, "change") \/ Posted(i, "delete"),
             Served(i, [stack[i] EXCEPT !.step = "served", !.ok = b]),
             ~b => vault' = vault
      PROVE  OnePage'
  <2> DEFINE f == [stack[i] EXCEPT !.step = "served", !.ok = b]
  <2>1. stack[i] \in Changing \cup Deleting  BY <1>2, <1>9, Kinds DEF Posted
  <2>2. f \in Frame /\ f.op = stack[i].op /\ f.ok = b /\ f.step = "served"
    BY <2>1 DEF Changing, Deleting, Frame, Steps
  <2>3. stack' # <<>> /\ stack # <<>> /\ Len(stack') <= 1 /\ Top' = f /\ Top = stack[i]
    BY <1>6, <1>9, <2>2
  <2>4. Top.op \in {"change", "delete"} /\ Top.step = "posted"  BY <1>9, <2>3 DEF Posted
  <2>5. Accurate /\ ~Top.ok /\ (~doubtful => Fresh)  BY <2>3, <2>4 DEF OnePage
  <2>6. ~b /\ ~doubtful' => Fresh'  BY <1>3, <1>9, <2>5, FreshKept
  <2> HIDE DEF f
  <2>7. QED  BY <1>4, <2>2, <2>3, <2>4, <2>5, <2>6 DEF OnePage
<1>10. CASE Delete(i)
  <2> DEFINE b == (Matching(stack[i].site, stack[i].name) # {})
  <2>1. /\ Posted(i, "delete") /\ (~b => vault' = vault)
        /\ Served(i, [stack[i] EXCEPT !.step = "served", !.ok = b])
    BY <1>10 DEF Delete
  <2>2. b \in BOOLEAN  OBVIOUS
  <2> HIDE DEF b
  <2>3. QED  BY <1>9, <2>1, <2>2
<1>11. CASE Change(i)
  <2> DEFINE b == (Matching(stack[i].site, stack[i].old) # {})
  <2>1. /\ Posted(i, "change") /\ (~b => vault' = vault)
        /\ Served(i, [stack[i] EXCEPT !.step = "served", !.ok = b])
    BY <1>11 DEF Change
  <2>2. b \in BOOLEAN  OBVIOUS
  <2> HIDE DEF b
  <2>3. QED  BY <1>9, <2>1, <2>2
<1>12. CASE Expired(i)  BY <1>9, <1>12 DEF Expired
<1>13. QED  BY <1>1, <1>7, <1>8, <1>10, <1>11, <1>12

(* After a load that was waited for alone the fields show the first        *)
(* account, and the credentials are what is stored.                        *)
LEMMA LoadOnePage ==
    ASSUME TypeOK, Shows, OnePage, AccountsAnswered
    PROVE  OnePage'
<1>1. stack # <<>> /\ Top \in Loading /\ Remember({}) /\ vault' = vault /\ form' = form
  BY LoadEffect
<1>2. PICK S \in SUBSET Names, rows \in SUBSET Row :
         /\ rows = {} \/ (rows = Top.rows /\ Top.step = "served")
         /\ rows = {} => S = {}
         /\ \E order \in Orders(S), c \in [S -> Secrets] : Loaded(rows, order, c)
  BY LoadEffect
<1>3. PICK order \in Orders(S), c \in [S -> Secrets] : Loaded(rows, order, c)  BY <1>2
<1> DEFINE name == TextAt(Entries(order), Index(order))
           f == Followed(Filled(Top.site, c, order), c, name, Top.then)
<1>4. /\ Top.site \in Site /\ Top.then \in {"first", "added", "pick", "bare"}
      /\ Top.op = "accounts" /\ Len(stack) <= 1 /\ combo = <<>>
  BY <1>1 DEF Loading, OnePage
<1>5. /\ name \in Name /\ f \in Fields
      /\ order # <<>> => f.website = Top.site
      /\ \/ /\ Index(order) = current /\ f.username = fields.username
            /\ f.oldUsername = fields.oldUsername /\ f.oldPassword = fields.oldPassword
         \/ /\ f.username = name /\ f.oldUsername = name
            /\ f.oldPassword = Password(c, name)
      /\ Top.then # "bare" => f.password = Password(c, name)
      /\ Top.then = "bare" =>
           f.password = IF order # <<>> THEN c[order[Len(order)]]
                        ELSE IF Index(order) = current THEN fields.password
                        ELSE Password(c, name)
  BY <1>4, FilledTyped
<1>6. /\ order \in Seq(Names) /\ Len(order) \in Nat
      /\ \A i \in 1 .. Len(order) : order[i] \in S
  BY OrderIsSeq
<1>7. current = 0
  <2>1. Len(<<>>) = 0 /\ current \in 0 .. Len(combo)  BY EmptySeq DEF TypeOK
  <2>2. QED  BY <1>4, <2>1
<1>8. /\ Entries(order) = order /\ Index(order) = IF order = <<>> THEN 0 ELSE 1
      /\ name = IF order = <<>> THEN Blank ELSE order[1]
  <2>1. Entries(order) = order /\ Index(order) = IF order = <<>> THEN 0 ELSE 1
    BY <1>4, <1>6, EntriesAre DEF TypeOK
  <2>2. QED  BY <2>1 DEF TextAt
<1>9. c \in Credentials  BY DEF Credentials
<1>10. Password(c, Blank) = Blank  BY <1>9, NothingTyped, PasswordTyped
<1>11. order # <<>> => /\ Len(order) # 0 /\ name \in S /\ Password(c, name) = c[name]
  BY <1>6, <1>8, EmptySeq DEF Password
<1>12. /\ order # <<>> => Len(order) = 1 \/ Len(order) > 1
       /\ Len(order) > 1 => order # <<>>
  <2>1. \A n \in Nat : (n # 0 => n = 1 \/ n > 1) /\ (n > 1 => n # 0)  OBVIOUS
  <2>2. order = <<>> => Len(order) = 0  BY EmptySeq
  <2>3. QED  BY <1>6, <1>11, <2>1, <2>2
<1>13. CASE Top.then = "added"
  <2>1. /\ Become(AccountRequest(form, "bare")) /\ combo' = <<>>
        /\ fields' = IF Entries(order) = <<>> THEN f ELSE Selected(f, None, Blank)
    BY <1>3, <1>13 DEF Loaded
  <2>2. Selected(f, None, Blank).password = Blank
    BY <1>5, NoneTyped, NothingTyped, SelectedTyped
  <2>3. order = <<>> => f.password = Blank  BY <1>5, <1>8, <1>10, <1>13
  <2>4. fields'.password = Blank  BY <1>8, <2>1, <2>2, <2>3
  <2>5. form \in Site /\ AccountRequest(form, "bare") \in Frame  BY Requests DEF TypeOK
  <2>6. stack' # <<>> /\ Top' = AccountRequest(form, "bare") /\ Len(stack') <= 1
    BY <1>1, <1>4, <2>1, <2>5, BecomeEffect
  <2>7. QED  BY <2>1, <2>4, <2>5, <2>6, LoadNext
<1>14. CASE Top.then # "added"
  <2>1. /\ stack' = Below /\ combo' = Entries(order) /\ fields' = f
        /\ credentials' = c /\ from' = Top.site
        /\ bare' = (Top.then = "bare" /\ Len(order) > 1)
    BY <1>3, <1>14 DEF Loaded
  <2>2. stack' = <<>> /\ Len(stack') <= 1
    <3>1. stack' = <<>>  BY <1>1, <1>4, <2>1, PopEffect
    <3>2. QED  BY <3>1, EmptySeq
  <2> HIDE DEF name, f
  <2>3. f.oldPassword = Password(c, f.oldUsername)
    <3>1. CASE order = <<>>
      <4>1. fields.oldUsername = Blank /\ fields.oldPassword = Blank
        BY <1>4, <1>7 DEF Shows, TextAt
      <4>2. QED  BY <1>5, <1>8, <1>10, <3>1, <4>1
    <3>2. CASE order # <<>>  BY <1>5, <1>7, <1>8, <3>2
    <3>3. QED  BY <3>1, <3>2
  <2>4. f.password = f.oldPassword \/ "password" \in typed' \/ bare'
    <3>1. f.oldPassword = Password(c, name)
      <4>1. CASE order = <<>>
        <5>1. fields.oldPassword = Blank  BY <1>4 DEF Shows
        <5>2. QED  BY <1>5, <1>8, <1>10, <4>1, <5>1
      <4>2. CASE order # <<>>  BY <1>5, <1>7, <1>8, <4>2
      <4>3. QED  BY <4>1, <4>2
    <3>2. CASE Top.then # "bare"  BY <1>5, <3>1, <3>2
    <3>3. CASE Top.then = "bare" /\ order = <<>>
      <4>1. f.password = fields.password  BY <1>5, <1>7, <1>8, <3>3
      <4>2. fields.password = Blank \/ "password" \in typed
        BY <1>1, <1>4, <3>3 DEF OnePage
      <4>3. "password" \in typed => "password" \in typed'
        BY <1>1, <2>1, <4>1 DEF Remember
      <4>4. QED  BY <1>8, <1>10, <3>1, <3>3, <4>1, <4>2, <4>3
    <3>4. CASE Top.then = "bare" /\ order # <<>>
      <4>1. CASE Len(order) = 1
        <5>1. f.password = c[order[1]]  BY <1>5, <3>4, <4>1
        <5>2. QED  BY <1>8, <1>11, <3>1, <3>4, <5>1
      <4>2. CASE Len(order) > 1  BY <2>1, <3>4, <4>2
      <4>3. QED  BY <1>12, <3>4, <4>1, <4>2
    <3>5. QED  BY <3>2, <3>3, <3>4
  <2>5. combo' = <<>> \/ fields'.website = from'  BY <1>5, <1>8, <2>1
  <2>6. bare' => combo' # <<>>  BY <1>8, <1>12, <2>1
  <2>7. Accurate'  BY <2>1, <2>3, <2>4, <2>5, <2>6 DEF Accurate, Password
  <2>8. Fresh'
    <3>1. ASSUME NEW n \in S, NEW d \in vault, Matching(Top.site, n) = {d}
          PROVE  d.secret = c[n]
      <4>1. rows = Top.rows /\ Top.step = "served"  BY <1>2
      <4>2. Top.rows = RowsOf(Top.site)  BY <1>1, <1>4, <4>1 DEF OnePage
      <4>3. [name |-> n, secret |-> c[n]] \in RowsOf(Top.site)
        BY <1>3, <4>1, <4>2 DEF Loaded
      <4>4. PICK e \in vault : e.site = Top.site /\ e.name = n /\ e.secret = c[n]
        BY <4>3 DEF RowsOf
      <4>5. e \in Matching(Top.site, n)  BY <4>4 DEF Matching
      <4>6. QED  BY <3>1, <4>4, <4>5
    <3>2. QED  BY <1>1, <2>1, <3>1 DEF Fresh, StoredAs, Matching
  <2>9. QED  BY <2>2, <2>7, <2>8 DEF OnePage
<1>15. QED  BY <1>13, <1>14

(* The other answers. *)
LEMMA AnswersOnePage ==
    ASSUME TypeOK, Shows, ~mixed => OnePage, ~mixed',
           SitesAnswered \/ AddAnswered \/ Told \/ CloseBox
    PROVE  OnePage'
<1>1. CASE SitesAnswered
  <2>1. stack # <<>> /\ Top.op = "sites"  BY <1>1 DEF SitesAnswered, Waiting
  <2>2. Top \in Listing  BY <2>1, Running, Kinds
  <2>3. CASE Reopen
    <3>1. stack' = << ListRequest("first") >> /\ ListRequest("first").op = "sites"
      BY <2>3, Requests DEF Reopen
    <3>2. stack' # <<>> /\ Len(stack') <= 1 /\ Top'.op = "sites"  BY <3>1 DEF Top
    <3>3. QED  BY <3>2, SitesNext
  <2>4. ASSUME NEW s \in Site, Become(AccountRequest(s, Top.then)), ClearCombo, mixed' = mixed
        PROVE  OnePage'
    <3>1. AccountRequest(s, Top.then) \in Frame /\ Top.then \in {"first", "added"}
      BY <2>2, Requests DEF Listing
    <3>2. Len(stack) <= 1  BY <2>4 DEF OnePage
    <3>3. stack' # <<>> /\ Top' = AccountRequest(s, Top.then) /\ Len(stack') <= 1
      BY <2>1, <2>4, <3>1, <3>2, BecomeEffect
    <3>4. combo' = <<>>  BY <2>4, ClearTyped
    <3>5. QED  BY <3>1, <3>3, <3>4, LoadNext
  <2>5. QED
    <3>1. PICK lost \in Lost :
             LET found == IF lost THEN {} ELSE Top.sites
             IN  \/ found = {} /\ Reopen
                 \/ \E s \in IF found = {} THEN {Blank} ELSE found :
                      /\ sites' = sites \cup found
                      /\ Become(AccountRequest(s, Top.then))
                      /\ ClearCombo
                      /\ UNCHANGED <<chosen, credentials, form, from, bare, mixed, doubtful>>
      BY <1>1 DEF SitesAnswered
    <3> DEFINE found == IF lost THEN {} ELSE Top.sites
    <3>2. (IF found = {} THEN {Blank} ELSE found) \subseteq Site  BY <2>2 DEF Listing, Site
    <3>3. QED  BY <2>3, <2>4, <3>1, <3>2
<1>2. CASE AddAnswered
  <2>1. stack # <<>> /\ OnePage /\ Become(ListRequest("added"))
    BY <1>2 DEF AddAnswered, Waiting, history
  <2>2. ListRequest("added") \in Frame /\ ListRequest("added").op = "sites"  BY Requests
  <2>3. stack' # <<>> /\ Top'.op = "sites" /\ Len(stack') <= 1
    BY <2>1, <2>2, BecomeEffect DEF OnePage
  <2>4. QED  BY <2>3, SitesNext
<1>3. CASE Told
  <2>1. stack # <<>> /\ Top.op \in {"change", "delete"} /\ OnePage
    BY <1>3 DEF Told, Waiting
  <2>2. Top \in Changing \cup Deleting  BY <2>1, Running, Kinds
  <2>3. PICK lost \in Lost : /\ Become([Top EXCEPT !.step = "box", !.ok = Top.ok /\ ~lost])
                             /\ doubtful' = (doubtful \/ (Top.ok /\ lost))
    BY <1>3 DEF Told
  <2> DEFINE b == Top.ok /\ ~lost
             f == [Top EXCEPT !.step = "box", !.ok = b]
  <2>4. b \in BOOLEAN  OBVIOUS
  <2>5. f \in Frame /\ f.op = Top.op /\ f.step = "box" /\ f.ok = b
    <3> HIDE DEF b
    <3>1. QED  BY <2>2, <2>4 DEF Changing, Deleting, Frame
  <2>6. stack' # <<>> /\ Top' = f /\ Len(stack') <= 1
    BY <2>1, <2>3, <2>5, BecomeEffect DEF OnePage
  <2>7. UNCHANGED <<vault, box, fields, credentials, from, typed, bare>>
    BY <1>3 DEF Told
  <2>8. Accurate'  BY <2>1, <2>7, AccurateKept DEF OnePage
  <2>9. ~b /\ ~doubtful' => Fresh'
    <3>1. ~b /\ ~doubtful' => ~Top.ok /\ ~doubtful  BY <2>3
    <3>2. QED  BY <2>1, <2>7, <3>1, FreshKept DEF OnePage
  <2> HIDE DEF f
  <2>10. QED  BY <2>1, <2>5, <2>6, <2>8, <2>9 DEF OnePage
<1>4. CASE CloseBox
  <2>1. stack # <<>> /\ Top.op \in {"change", "delete"} /\ OnePage
    BY <1>4 DEF CloseBox, InBox
  <2>2. UNCHANGED <<vault, credentials, from, bare, mixed, doubtful>>  BY <1>4 DEF CloseBox
  <2>3. CASE ~Top.ok
    <3>1. stack' = Below /\ UNCHANGED <<box, fields, typed>>  BY <1>4, <2>3 DEF CloseBox
    <3>2. stack' = <<>> /\ Len(stack') <= 1
      <4>1. stack' = <<>>  BY <2>1, <3>1, PopEffect DEF OnePage
      <4>2. QED  BY <4>1, EmptySeq
    <3>3. Accurate'  BY <2>1, <2>2, <3>1, AccurateKept DEF OnePage
    <3>4. ~doubtful' => Fresh'  BY <2>1, <2>2, <2>3, FreshKept DEF OnePage
    <3>5. QED  BY <3>2, <3>3, <3>4 DEF OnePage
  <2>4. CASE Top.ok /\ Top.op = "change"
    <3>1. Become(AccountRequest(fields.website, "bare")) /\ ClearCombo
      BY <1>4, <2>4 DEF CloseBox
    <3>2. fields.website \in Site /\ AccountRequest(fields.website, "bare") \in Frame
      BY Requests DEF TypeOK, Fields
    <3>3. /\ stack' # <<>> /\ Top' = AccountRequest(fields.website, "bare")
          /\ Len(stack') <= 1
      BY <2>1, <3>1, <3>2, BecomeEffect DEF OnePage
    <3>4. /\ combo' = <<>> /\ Remember({})
          /\ fields'.password = IF combo = <<>> THEN fields.password ELSE Blank
      BY <3>1, ClearTyped
    <3>5. combo = <<>> => fields.password = Blank \/ "password" \in typed
      BY <2>1 DEF OnePage, Accurate, Shows
    <3>6. fields'.password = Blank \/ "password" \in typed'
      BY <3>4, <3>5 DEF Remember
    <3>7. QED  BY <3>2, <3>3, <3>4, <3>6, LoadNext
  <2>5. CASE Top.ok /\ Top.op = "delete"
    <3>1. Become(ListRequest("first"))  BY <1>4, <2>5 DEF CloseBox
    <3>2. ListRequest("first") \in Frame /\ ListRequest("first").op = "sites"  BY Requests
    <3>3. stack' # <<>> /\ Top'.op = "sites" /\ Len(stack') <= 1
      BY <2>1, <3>1, <3>2, BecomeEffect DEF OnePage
    <3>4. QED  BY <3>3, SitesNext
  <2>6. QED  BY <2>1, <2>3, <2>4, <2>5
<1>5. QED  BY <1>1, <1>2, <1>3, <1>4

(* A save asks for what is shown: when nothing of it was written by the    *)
(* user, its password is the one that is stored.                           *)
LEMMA SaveKeeps ==
    ASSUME TypeOK, Shows, Accurate, ~doubtful => Fresh, Save,
           ~({"website", "password"} \cap typed # {} \/ bare \/ doubtful)
    PROVE  StoredAs(fields.website, fields.oldUsername, fields.password)
<1>1. /\ fields.password # Blank /\ fields.password = fields.oldPassword
      /\ fields.oldPassword = Password(credentials, fields.oldUsername)
  BY DEF Save, Accurate
<1>2. /\ fields.oldUsername \in DOMAIN credentials
      /\ fields.password = credentials[fields.oldUsername]
  BY <1>1 DEF Password
<1>3. combo # <<>>  BY <1>1 DEF Shows
<1>4. fields.website = from  BY <1>3 DEF Accurate
<1>5. QED  BY <1>2, <1>4 DEF Fresh

LEMMA UserOnePage ==
    ASSUME TypeOK, Shows, ~mixed => OnePage, ~mixed', User \/ BrowserSignal
    PROVE  OnePage'
<1>1. ASSUME NEW s \in sites, PickSite(s) PROVE OnePage'
  <2>1. s \in Site /\ AccountRequest(s, "pick") \in Frame  BY AskedTyped, Requests
  <2>2. stack = <<>> /\ Ask(AccountRequest(s, "pick")) /\ ClearCombo
    BY <1>1 DEF PickSite
  <2>3. stack' # <<>> /\ Top' = AccountRequest(s, "pick") /\ Len(stack') <= 1
    BY <2>1, <2>2, AskEffect
  <2>4. combo' = <<>>  BY <2>2, ClearTyped
  <2>5. QED  BY <2>1, <2>3, <2>4, LoadNext
<1>2. CASE BrowserSignal
  <2>1. stack = <<>> /\ Ask(ListRequest("first"))  BY <1>2 DEF BrowserSignal
  <2>2. ListRequest("first") \in Frame /\ ListRequest("first").op = "sites"  BY Requests
  <2>3. stack' # <<>> /\ Top'.op = "sites" /\ Len(stack') <= 1
    BY <2>1, <2>2, AskEffect
  <2>4. QED  BY <2>3, SitesNext
<1>3. ASSUME NEW i \in DOMAIN combo, PickName(i) PROVE OnePage'
  <2>1. i \in 1 .. Len(combo) /\ combo[i] \in Name /\ combo # <<>>
    <3>1. combo \in Seq(Names) /\ i \in 1 .. Len(combo)  BY LenProperties DEF TypeOK
    <3>2. QED  BY <3>1, EmptySeq, ElementOfSeq DEF Name
  <2>2. credentials \in Credentials /\ fields \in Fields  BY DEF TypeOK, Credentials
  <2>3. /\ fields'.website = fields.website /\ fields'.oldUsername = combo[i]
        /\ fields'.password = Password(credentials, combo[i])
        /\ fields'.oldPassword = Password(credentials, combo[i])
    BY <1>3, <2>1, <2>2, SelectedTyped DEF PickName
  <2>4. /\ UNCHANGED <<vault, stack, combo, credentials, from, mixed, doubtful>>
        /\ Remember({}) /\ bare' = FALSE
    BY <1>3 DEF PickName
  <2>5. Accurate => Accurate'
    <3>1. ASSUME "website" \in typed PROVE "website" \in typed'
      BY <2>3, <2>4, <3>1 DEF Remember
    <3>2. QED  BY <2>1, <2>3, <2>4, <3>1 DEF Accurate, Password
  <2>6. Fresh => Fresh'  BY <2>4, FreshKept
  <2>7. stack # <<>> /\ Top.op = "accounts" => FALSE  BY <2>1, <2>4 DEF OnePage
  <2>8. OnePage  BY <2>4
  <2>9. StoredAs(Top.site, Top.old, Top.secret)' <=> StoredAs(Top.site, Top.old, Top.secret)
    BY <2>4 DEF StoredAs, Matching, Top
  <2>10. Top' = Top  BY <2>4 DEF Top
  <2>11. QED  BY <2>4, <2>5, <2>6, <2>7, <2>8, <2>9, <2>10 DEF OnePage
<1>4. CASE Edit
  <2>1. ASSUME NEW x \in {"website", "username", "password"}, NEW text, Write(x, text)
        PROVE  OnePage'
    <3>1. /\ UNCHANGED <<vault, stack, combo, credentials, from, bare, mixed, doubtful>>
          /\ x \in typed' /\ \A y \in typed : fields'[y] = fields[y] => y \in typed'
      BY <2>1 DEF Write, Remember, box
    <3>2. /\ fields'.oldUsername = fields.oldUsername
          /\ fields'.oldPassword = fields.oldPassword
          /\ \/ fields'.password = fields.password
             \/ "password" \in typed'
          /\ \/ fields'.website = fields.website
             \/ "website" \in typed'
      <4>1. fields \in Fields /\ fields' = [fields EXCEPT ![x] = text]
        BY <2>1 DEF Write, TypeOK
      <4>2. QED  BY <3>1, <4>1 DEF Fields
    <3>3. /\ "password" \in typed => "password" \in typed'
          /\ "website" \in typed => "website" \in typed'
      BY <3>1, <3>2
    <3>4. Accurate => Accurate'  BY <3>1, <3>2, <3>3 DEF Accurate, Password
    <3>5. Fresh => Fresh'  BY <3>1, FreshKept
    <3>6. StoredAs(Top.site, Top.old, Top.secret)' <=> StoredAs(Top.site, Top.old, Top.secret)
      BY <3>1 DEF StoredAs, Matching, Top
    <3>7. Top' = Top /\ RowsOf(Top.site)' = RowsOf(Top.site)  BY <3>1 DEF Top, RowsOf
    <3>8. fields.password = Blank \/ "password" \in typed
             => fields'.password = Blank \/ "password" \in typed'
      BY <3>2, <3>3
    <3>9. OnePage  BY <3>1
    <3>10. QED  BY <3>1, <3>4, <3>5, <3>6, <3>7, <3>8, <3>9 DEF OnePage
  <2>2. QED  BY <1>4, <2>1 DEF Edit
<1>5. CASE Save
  <2>1. /\ stack = <<>> /\ OnePage
        /\ UNCHANGED <<vault, box, fields, credentials, from, typed, bare, doubtful>>
    BY <1>5 DEF Save
  <2>2. PICK f \in Frame :
           /\ Ask(f) /\ f.op = "change" /\ f.step = "posted" /\ ~f.ok
           /\ f.site = fields.website /\ f.old = fields.oldUsername
           /\ f.secret = fields.password
           /\ f.meant = \/ {"website", "password"} \cap typed # {}
                        \/ bare \/ doubtful
    BY <1>5, AskedTyped
  <2>3. stack' # <<>> /\ Top' = f /\ Len(stack') <= 1  BY <2>1, <2>2, AskEffect
  <2>4. Accurate /\ (~doubtful => Fresh)  BY <2>1 DEF OnePage
  <2>5. Accurate' /\ (~doubtful' => Fresh')
    BY <2>1, <2>4, AccurateKept, FreshKept
  <2>6. ~f.meant => StoredAs(f.site, f.old, f.secret)
    BY <1>5, <2>2, <2>4, SaveKeeps
  <2>7. ~Top'.meant => StoredAs(Top.site, Top.old, Top.secret)'
    <3>1. \A site, name : Matching(site, name)' = Matching(site, name)
      BY <2>1 DEF Matching
    <3>2. QED  BY <2>1, <2>3, <2>6, <3>1 DEF StoredAs
  <2>8. QED  BY <2>2, <2>3, <2>5, <2>7 DEF OnePage
<1>6. CASE Remove
  <2>1. /\ stack = <<>> /\ OnePage
        /\ UNCHANGED <<vault, box, fields, credentials, from, typed, bare, doubtful>>
    BY <1>6 DEF Remove
  <2>2. PICK f \in Frame : Ask(f) /\ f.op = "delete" /\ f.step = "posted" /\ ~f.ok
    BY <1>6, AskedTyped
  <2>3. stack' # <<>> /\ Top' = f /\ Len(stack') <= 1  BY <2>1, <2>2, AskEffect
  <2>4. Accurate' /\ (~doubtful' => Fresh')
    BY <2>1, AccurateKept, FreshKept DEF OnePage
  <2>5. QED  BY <2>2, <2>3, <2>4 DEF OnePage
<1>7. ASSUME NEW s \in Sites, NEW n \in Names, NEW p \in Secrets, AddAccount(s, n, p)
      PROVE  OnePage'
  <2>1. stack = <<>>  BY <1>7 DEF AddAccount
  <2>2. PICK f \in Frame : Ask(f) /\ f.op = "add"  BY <1>7, AskedTyped
  <2>3. stack' # <<>> /\ Top' = f /\ Len(stack') <= 1  BY <2>1, <2>2, AskEffect
  <2>4. QED  BY <2>2, <2>3, SitesNext
<1>8. QED  BY <1>1, <1>2, <1>3, <1>4, <1>5, <1>6, <1>7 DEF User

Paged == Shows /\ Documents /\ (~mixed => OnePage)

LEMMA PagedInductive ==
    ASSUME TypeOK, Paged, [Next]_vars
    PROVE  Paged'
<1>1. Shows' /\ Documents'  BY ShowsInductive, DocumentsInductive DEF Paged
<1>2. ASSUME ~mixed' PROVE OnePage'
  <2>1. CASE Serve  BY <1>2, <2>1, ServeOnePage DEF Paged, Serve, history
  <2>2. CASE AccountsAnswered
    <3>1. mixed' = mixed  BY <2>2, LoadEffect
    <3>2. QED  BY <1>2, <2>2, <3>1, LoadOnePage DEF Paged
  <2>3. CASE SitesAnswered \/ AddAnswered \/ Told \/ CloseBox
    BY <1>2, <2>3, AnswersOnePage DEF Paged
  <2>4. CASE User \/ BrowserSignal  BY <1>2, <2>4, UserOnePage DEF Paged
  <2>5. CASE UNCHANGED vars
    <3>1. OnePage  BY <1>2, <2>5 DEF Paged, vars, history
    <3>2. Accurate' <=> Accurate  BY <2>5, AccurateKept DEF vars, history
    <3>3. Fresh' <=> Fresh  BY <2>5, FreshKept DEF vars, history
    <3>4. /\ Top' = Top /\ RowsOf(Top.site)' = RowsOf(Top.site)
          /\ StoredAs(Top.site, Top.old, Top.secret)' <=> StoredAs(Top.site, Top.old, Top.secret)
      BY <2>5 DEF vars, Top, RowsOf, StoredAs, Matching
    <3>5. UNCHANGED <<stack, doubtful, combo, fields, typed>>  BY <2>5 DEF vars, box, history
    <3>6. QED  BY <3>1, <3>2, <3>3, <3>4, <3>5 DEF OnePage
  <2>6. QED  BY <2>1, <2>2, <2>3, <2>4, <2>5 DEF Next
<1>3. QED  BY <1>1, <1>2 DEF Paged

LEMMA InitPaged == Init => Paged
<1> SUFFICES ASSUME Init PROVE Paged
  OBVIOUS
<1>1. Shows  BY DEF Init, Shows, TextAt, Empty
<1>2. Documents  BY DEF Init, Documents
<1>3. stack = << ListRequest("first") >> /\ ListRequest("first").op = "sites"
  BY Requests DEF Init
<1>4. Len(stack) <= 1 /\ stack # <<>> /\ Top.op = "sites"  BY <1>3 DEF Top
<1>5. QED  BY <1>1, <1>2, <1>4 DEF Paged, OnePage

LEMMA PagedHolds == Spec => []Paged
<1>1. TypeOK /\ Paged /\ [Next]_vars => Paged'  BY PagedInductive
<1>2. QED  BY <1>1, InitPaged, Typing, PTL DEF Spec

(* Once nothing waits, the fields show one account, that of the combo box, *)
(* for any accounts of a site and any number of operations, unless they    *)
(* were nested or the last load left the password of the last account      *)
(* (twokey.cpp:89-111, 223, 297, 449-465).                                 *)
THEOREM FieldsShowOne == Spec => []FieldsAgree
<1>1. Paged => FieldsAgree  BY DEF Paged, Shows, OnePage, Accurate, FieldsAgree
<1>2. QED  BY <1>1, PagedHolds, PTL

-----------------------------------------------------------------------------
(* The only step that writes a password is the one that handles a change.  *)
LEMMA WritesPassword ==
    ASSUME TypeOK, Documents, [Next]_vars, NEW d \in vault, NEW e \in vault',
           d.oid = e.oid, d.secret # e.secret
    PROVE  \E i \in DOMAIN stack :
              /\ Posted(i, "change") /\ stack'[i] # stack[i]
              /\ d.name = stack[i].old /\ e.secret = stack[i].secret
              /\ Matching(stack[i].site, stack[i].old) # {}
<1>1. Serve \/ vault' = vault
  BY DEF Next, User, Edit, SitesAnswered, AccountsAnswered, AddAnswered, Told, CloseBox, PickSite,
         PickName, Write, Save, Remove, AddAccount, BrowserSignal, vars
<1>2. CASE vault' = vault  BY <1>2 DEF Documents
<1>3. CASE Serve
  <2>1. PICK i \in DOMAIN stack : View(i) \/ Add(i) \/ Delete(i) \/ Change(i) \/ Expired(i)
    BY <1>3 DEF Serve
  <2>2. CASE View(i) \/ Expired(i)  BY <1>2, <2>2 DEF View, Expired
  <2>3. CASE Add(i)
    <3>1. e \in vault \/ e.oid \in unused  BY <2>3 DEF Add
    <3>2. QED  BY <3>1 DEF Documents
  <2>4. CASE Delete(i)  BY <2>4 DEF Delete, Documents
  <2>5. CASE Change(i)
    <3>1. /\ Posted(i, "change")
          /\ Served(i, [stack[i] EXCEPT !.step = "served",
                                        !.ok = (Matching(stack[i].site, stack[i].old) # {})])
          /\ IF Matching(stack[i].site, stack[i].old) = {} THEN vault' = vault
             ELSE \E x \in {y \in vault : y.name = stack[i].old} :
                    vault' = (vault \ {x}) \cup
                               {[x EXCEPT !.name = stack[i].name, !.secret = stack[i].secret]}
      BY <2>5 DEF Change
    <3>2. Matching(stack[i].site, stack[i].old) # {}  BY <3>1 DEF Documents
    <3>3. PICK x \in vault :
             /\ x.name = stack[i].old
             /\ vault' = (vault \ {x}) \cup
                           {[x EXCEPT !.name = stack[i].name, !.secret = stack[i].secret]}
      BY <3>1, <3>2
    <3>4. x \in Doc  BY DEF TypeOK
    <3>5. e = [x EXCEPT !.name = stack[i].name, !.secret = stack[i].secret]
      BY <3>3 DEF Documents
    <3>6. e.oid = x.oid /\ e.secret = stack[i].secret  BY <3>4, <3>5 DEF Doc
    <3>7. d = x  BY <3>6 DEF Documents
    <3>8. stack'[i] # stack[i]
      <4>1. stack[i] \in Frame  BY LenProperties, ElementOfSeq DEF TypeOK
      <4>2. stack[i] \in Changing  BY <3>1, <4>1, Kinds DEF Posted
      <4>3. stack'[i].step = "served"  BY <3>1, <4>2 DEF Served, Changing
      <4>4. QED  BY <3>1, <4>3 DEF Posted
    <3>9. QED  BY <3>1, <3>2, <3>3, <3>6, <3>7, <3>8
  <2>6. QED  BY <2>1, <2>2, <2>3, <2>4, <2>5
<1>4. QED  BY <1>1, <1>2, <1>3

(* No save replaces a stored password by one the user has not written, for *)
(* any accounts and any number of operations, unless they were nested, the *)
(* fields were those of a load after a save or an addition, an answer was  *)
(* lost, or the account is not the one the save is about                   *)
(* (twokey.cpp:257-303).                                                   *)
THEOREM PasswordsKept == Spec => PasswordKept
<1>1. ASSUME TypeOK, Paged, [Next]_vars
      PROVE  \A d \in vault, e \in vault' :
                d.oid = e.oid /\ d.secret # e.secret =>
                  \/ mixed \/ Matching(d.site, d.name) # {d}
                  \/ \E i \in DOMAIN stack : /\ Posted(i, "change") /\ stack'[i] # stack[i]
                                             /\ stack[i].meant \/ stack[i].site # d.site
  <2>1. SUFFICES ASSUME NEW d \in vault, NEW e \in vault', d.oid = e.oid, d.secret # e.secret,
                        ~mixed, Matching(d.site, d.name) = {d}
                 PROVE  \E i \in DOMAIN stack : /\ Posted(i, "change") /\ stack'[i] # stack[i]
                                                /\ stack[i].meant \/ stack[i].site # d.site
    OBVIOUS
  <2>2. PICK i \in DOMAIN stack :
           /\ Posted(i, "change") /\ stack'[i] # stack[i]
           /\ d.name = stack[i].old /\ e.secret = stack[i].secret
    BY <1>1, <2>1, WritesPassword DEF Paged
  <2>3. OnePage  BY <1>1, <2>1 DEF Paged
  <2>4. i = 1 /\ Len(stack) = 1 /\ stack # <<>>
    <3>1. stack \in Seq(Frame) /\ i \in 1 .. Len(stack) /\ Len(stack) \in Nat
      BY <1>1, LenProperties DEF TypeOK
    <3>2. \A n \in Nat : i \in 1 .. n /\ n <= 1 => i = 1 /\ n = 1  OBVIOUS
    <3>3. Len(stack) <= 1  BY <2>3 DEF OnePage
    <3>4. i = 1 /\ Len(stack) = 1  BY <3>1, <3>2, <3>3
    <3>5. Len(<<>>) # 1  BY EmptySeq
    <3>6. QED  BY <3>4, <3>5
  <2>5. Top = stack[i]  BY <2>4 DEF Top
  <2>6. ~stack[i].meant => StoredAs(stack[i].site, stack[i].old, stack[i].secret)
    BY <2>2, <2>3, <2>4, <2>5 DEF OnePage, Posted
  <2>7. ~stack[i].meant /\ stack[i].site = d.site => d.secret = e.secret
    BY <2>1, <2>2, <2>6 DEF StoredAs
  <2>8. QED  BY <2>1, <2>2, <2>7
<1>2. QED  BY <1>1, PagedHolds, Typing, PTL DEF Spec, PasswordKept
=============================================================================
