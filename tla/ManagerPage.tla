----------------------------- MODULE ManagerPage -----------------------------
(***************************************************************************)
(* The manager page of the desktop application against the vault           *)
(* (twokey.cpp): the list of sites, the combo box with the user names of   *)
(* one site, the text fields, and what is cached of the account they show. *)
(*                                                                         *)
(* Every request is waited for in a loop that goes on handling clicks, so  *)
(* the operations form a stack, of which only the last one goes on; the    *)
(* server may handle their requests in any order.  Logins and logouts are  *)
(* in Desktop; here the session is valid, or has expired.                  *)
(*                                                                         *)
(* Which page is in front, whether the fields can be written and whether   *)
(* the password dialog is open only tell which clicks come first; they can *)
(* always be made, and are part of the operation they lead to.             *)
(***************************************************************************)
EXTENDS Naturals, Sequences, FiniteSets

CONSTANTS Sites, Names, Secrets,  \* what accounts are made of
          Blank,                  \* the empty text
          Oids,                   \* ids of the stored documents
          MaxActs,                \* bound: operations that ask the server
          MaxEdits,               \* bound: texts written into a field
          MaxDepth                \* bound: operations nested

ASSUME BlankIsNothing == Blank \notin Sites \cup Names \cup Secrets
ASSUME NamesFinite == IsFiniteSet(Names)  \* a QLineEdit holds 32767 characters at most
ASSUME BoundsNat == {MaxActs, MaxEdits, MaxDepth} \subseteq Nat

VARIABLES
    vault,           \* documents of the user's collection
    stack,           \* the operations that wait, the running one last
    sites, chosen,   \* manager_accounts_list and its current item
    combo, current,  \* manager_accounts_combobox and its index, 0 for none
    fields,          \* the text fields, oldUsername and oldPassword
    credentials,     \* user names and passwords of the site loaded last
    form,            \* addaccount_website
    acts, edits,     \* how many there have been
    unused,          \* history: document ids not given yet
    from,            \* history: the site credentials are of
    typed,           \* history: the fields that hold what the user wrote
    bare,            \* history: a load put the last account's password there
    mixed,           \* history: operations have been nested
    doubtful         \* history: the answer to a change has been lost

list == <<sites, chosen>>
box == <<combo, current>>
bounds == <<acts, edits, unused>>
history == <<from, typed, bare, mixed, doubtful>>
vars == <<vault, stack, list, box, fields, credentials, form, bounds, history>>

Doc == [oid : Oids, site : Sites, name : Names, secret : Secrets]
Row == [name : Names, secret : Secrets]
Site == Sites \cup {Blank}
Name == Names \cup {Blank}
Secret == Secrets \cup {Blank}
Fields == [website : Site, username : Name, password : Secret,
           oldUsername : Name, oldPassword : Secret]

(* then tells what follows a load: loadWebsitesList sets the password again *)
(* (first), and may be followed by a load of the site just added (added);   *)
(* the list of sites selects the account again (pick); a save and an        *)
(* addition do nothing more (bare).                                         *)
Steps == {"posted", "served"}
Listing == [op : {"sites"}, step : Steps, then : {"first", "added"}, sites : SUBSET Sites]
Loading == [op : {"accounts"}, step : Steps, then : {"first", "added", "pick", "bare"},
            site : Site, rows : SUBSET Row]
Changing == [op : {"change"}, step : Steps \cup {"box"}, site : Site, old : Name,
             name : Names, secret : Secrets, ok : BOOLEAN, meant : BOOLEAN]
Deleting == [op : {"delete"}, step : Steps \cup {"box"}, site : Site, name : Name,
             ok : BOOLEAN]
Adding == [op : {"add"}, step : Steps, site : Sites, name : Names, secret : Secrets]
Frame == Listing \cup Loading \cup Changing \cup Deleting \cup Adding

TypeOK ==
    /\ vault \subseteq Doc
    /\ stack \in Seq(Frame)
    /\ sites \subseteq Sites /\ chosen \in sites \cup {Blank}
    /\ combo \in Seq(Names) /\ current \in 0 .. Len(combo)
    /\ fields \in Fields
    /\ credentials \in UNION {[S -> Secrets] : S \in SUBSET Names}
    /\ form \in Site
    /\ acts \in 0 .. MaxActs /\ edits \in 0 .. MaxEdits /\ unused \subseteq Oids
    /\ from \in Site /\ typed \subseteq {"website", "username", "password"}
    /\ bare \in BOOLEAN /\ mixed \in BOOLEAN /\ doubtful \in BOOLEAN

None == [n \in {} |-> Blank]
Empty == [website |-> Blank, username |-> Blank, password |-> Blank,
          oldUsername |-> Blank, oldPassword |-> Blank]
ListRequest(then) == [op |-> "sites", step |-> "posted", then |-> then, sites |-> {}]
AccountRequest(site, then) ==
    [op |-> "accounts", step |-> "posted", then |-> then, site |-> site, rows |-> {}]

(* The page opens with a login, on accounts that differ in site or name.   *)
Init ==
    /\ vault \in SUBSET Doc \ {{}}
    /\ \A d, e \in vault :
         d.oid = e.oid \/ (d.site = e.site /\ d.name = e.name) => d = e
    /\ unused = Oids \ {d.oid : d \in vault}
    /\ stack = << ListRequest("first") >>
    /\ sites = {} /\ chosen = Blank
    /\ combo = <<>> /\ current = 0
    /\ fields = Empty /\ credentials = None /\ form = Blank
    /\ acts = 0 /\ edits = 0
    /\ from = Blank /\ typed = {}
    /\ bare = FALSE /\ mixed = FALSE /\ doubtful = FALSE

Top == stack[Len(stack)]
Below == SubSeq(stack, 1, Len(stack) - 1)
Become(f) == stack' = Append(Below, f)
Waiting(op) == IF stack = <<>> THEN FALSE ELSE Top.op = op /\ Top.step \in Steps
InBox(op) == IF stack = <<>> THEN FALSE ELSE Top.op = op /\ Top.step = "box"

(* An answer may be lost at any time, or arrive once the server has given  *)
(* it.                                                                     *)
Lost == IF Top.step = "posted" THEN {TRUE} ELSE BOOLEAN

(* A wait handles clicks, a message box does not.                          *)
Clickable == IF stack = <<>> THEN TRUE ELSE Top.step # "box"

(* History: what the user has written and nothing has replaced.            *)
Remember(more) == typed' = {x \in typed : fields'[x] = fields[x]} \cup more

-----------------------------------------------------------------------------
(* The combo box and the fields. *)

Password(c, n) == IF n \in DOMAIN c THEN c[n] ELSE Blank

(* Fault: oldPassword stays that of the account shown before. *)
SelectedInPart(f, c, n) ==
    [f EXCEPT !.username = n, !.oldUsername = n, !.password = Password(c, n)]

(* on_manager_accounts_combobox_currentIndexChanged *)
Selected(f, c, n) ==
    [f EXCEPT !.username = n, !.oldUsername = n,
              !.password = Password(c, n), !.oldPassword = Password(c, n)]

(* A combo box that loses its last entry selects the empty text, for which *)
(* there is no password.                                                   *)
ClearCombo ==
    /\ combo' = <<>> /\ current' = 0
    /\ fields' = IF combo = <<>> THEN fields ELSE Selected(fields, None, Blank)
    /\ Remember({})

(* The accounts arrive in the order in which the hash has them.  The combo *)
(* box is empty, unless a load that started while this one waited has      *)
(* filled it; then as many of its entries stay as the site has accounts,   *)
(* and new ones fill up the rest.  A first entry is selected when it is    *)
(* added.                                                                  *)
Kept(order) == SubSeq(combo, 1, IF Len(combo) < Len(order) THEN Len(combo) ELSE Len(order))
Entries(order) == Kept(order) \o SubSeq(order, 1, Len(order) - Len(Kept(order)))
Index(order) == IF Kept(order) = <<>> THEN IF order = <<>> THEN 0 ELSE 1
                ELSE IF current < Len(Kept(order)) THEN current ELSE Len(Kept(order))
TextAt(items, i) == IF i = 0 THEN Blank ELSE items[i]

(* The password field is set to the password of each account in turn, so   *)
(* that of the last one stays.                                             *)
Filled(site, c, order) ==
    LET f == IF Index(order) = current THEN fields
             ELSE Selected(fields, c, TextAt(Entries(order), Index(order)))
    IN  IF order = <<>> THEN f
        ELSE [f EXCEPT !.website = site, !.password = c[order[Len(order)]]]

(* Fault: the list of sites does not select the account again. *)
PickIsBare(f, c, name, then) ==
    IF then \in {"first", "added"} THEN [f EXCEPT !.password = Password(c, name)] ELSE f

(* What the callers of loadAccountsForWebsite do to the fields.            *)
Followed(f, c, name, then) ==
    CASE then \in {"first", "added"} -> [f EXCEPT !.password = Password(c, name)]
      [] then = "pick" -> Selected(f, c, name)
      [] then = "bare" -> f

Orders(S) == {o \in [1 .. Cardinality(S) -> S] : \A x \in S : \E i \in DOMAIN o : o[i] = x}

(* The rows are shown in some order, with one password for each name.  After *)
(* an addition the load of the first site is followed by one of the site   *)
(* that was added.                                                         *)
Loaded(rows, order, c) ==
    LET name == TextAt(Entries(order), Index(order))
        f == Followed(Filled(Top.site, c, order), c, name, Top.then)
    IN  /\ \A n \in DOMAIN c : [name |-> n, secret |-> c[n]] \in rows
        /\ credentials' = c /\ from' = Top.site
        /\ bare' = (Top.then = "bare" /\ Len(order) > 1)
        /\ IF Top.then = "added"
             THEN /\ Become(AccountRequest(form, "bare"))
                  /\ combo' = <<>> /\ current' = 0
                  /\ fields' = IF Entries(order) = <<>> THEN f ELSE Selected(f, None, Blank)
             ELSE /\ stack' = Below
                  /\ combo' = Entries(order) /\ current' = Index(order)
                  /\ fields' = f

(* A lost answer lists no accounts. *)
AccountsAnswered ==
    /\ Waiting("accounts")
    /\ \E lost \in Lost :
       LET rows == IF lost THEN {} ELSE Top.rows
           names == {r.name : r \in rows}
       IN  /\ \E order \in Orders(names), c \in [names -> Secrets] : Loaded(rows, order, c)
           /\ doubtful' = (doubtful /\ lost)
    /\ Remember({})
    /\ UNCHANGED <<vault, list, form, bounds, mixed>>

-----------------------------------------------------------------------------
(* The server handles request i of those that wait.  What happens inside a *)
(* handler is in VaultStore.                                               *)

Served(i, f) == stack' = [stack EXCEPT ![i] = f]
Posted(i, op) == stack[i].op = op /\ stack[i].step = "posted"
Matching(site, name) == {d \in vault : d.site = site /\ d.name = name}
RowsOf(site) == {[name |-> d.name, secret |-> d.secret] : d \in {x \in vault : x.site = site}}

View(i) ==
    /\ \/ /\ Posted(i, "sites")
          /\ Served(i, [stack[i] EXCEPT !.step = "served", !.sites = {d.site : d \in vault}])
       \/ /\ Posted(i, "accounts")
          /\ Served(i, [stack[i] EXCEPT !.step = "served", !.rows = RowsOf(stack[i].site)])
    /\ UNCHANGED <<vault, unused>>

Add(i) ==
    /\ Posted(i, "add")
    /\ Served(i, [stack[i] EXCEPT !.step = "served"])
    /\ IF Matching(stack[i].site, stack[i].name) # {}
         THEN UNCHANGED <<vault, unused>>
         ELSE \E o \in unused :
                /\ unused' = unused \ {o}
                /\ vault' = vault \cup {[oid |-> o, site |-> stack[i].site,
                                         name |-> stack[i].name, secret |-> stack[i].secret]}

Delete(i) ==
    /\ Posted(i, "delete")
    /\ LET M == Matching(stack[i].site, stack[i].name)
       IN  /\ Served(i, [stack[i] EXCEPT !.step = "served", !.ok = (M # {})])
           /\ IF M = {} THEN UNCHANGED vault ELSE \E d \in M : vault' = vault \ {d}
    /\ UNCHANGED unused

(* The update writes any account with the old name (VaultStore: Targets).  *)
Change(i) ==
    /\ Posted(i, "change")
    /\ LET r == stack[i]
           found == Matching(r.site, r.old) # {}
       IN  /\ Served(i, [r EXCEPT !.step = "served", !.ok = found])
           /\ IF ~found THEN UNCHANGED vault
              ELSE \E d \in {x \in vault : x.name = r.old} :
                     vault' = (vault \ {d}) \cup
                                {[d EXCEPT !.name = r.name, !.secret = r.secret]}
    /\ UNCHANGED unused

(* The token has expired: 200, and nothing is done. *)
Expired(i) ==
    /\ Posted(i, "delete") \/ Posted(i, "change")
    /\ Served(i, [stack[i] EXCEPT !.step = "served", !.ok = TRUE])
    /\ UNCHANGED <<vault, unused>>

Serve == /\ \E i \in DOMAIN stack : View(i) \/ Add(i) \/ Delete(i) \/ Change(i) \/ Expired(i)
         /\ UNCHANGED <<list, box, fields, credentials, form, acts, edits, history>>

-----------------------------------------------------------------------------
(* The answers. *)

(* Fault: the current item outlives the list. *)
KeepChosen == sites' = {} /\ UNCHANGED chosen

ClearList == sites' = {} /\ chosen' = Blank

(* The program stops, and opens the page again after another login.        *)
Reopen ==
    /\ stack' = << ListRequest("first") >> /\ ClearList
    /\ combo' = <<>> /\ current' = 0
    /\ fields' = Empty /\ credentials' = None /\ form' = Blank
    /\ from' = Blank /\ typed' = {}
    /\ bare' = FALSE /\ mixed' = FALSE /\ doubtful' = FALSE

(* websites[0] of an empty list is undefined: the program stops, or goes   *)
(* on with what it finds there.                                            *)
SitesAnswered ==
    /\ Waiting("sites")
    /\ \E lost \in Lost :
         LET found == IF lost THEN {} ELSE Top.sites
         IN  \/ found = {} /\ Reopen
             \/ \E s \in IF found = {} THEN {Blank} ELSE found :
                  /\ sites' = sites \cup found
                  /\ Become(AccountRequest(s, Top.then))
                  /\ ClearCombo
                  /\ UNCHANGED <<chosen, credentials, form, from, bare, mixed, doubtful>>
    /\ UNCHANGED <<vault, bounds>>

(* What the server says of an addition is not looked at.                   *)
AddAnswered ==
    /\ Waiting("add")
    /\ ClearList
    /\ Become(ListRequest("added"))
    /\ UNCHANGED <<vault, box, fields, credentials, form, bounds, history>>

(* A message box tells of a change or a deletion.  What the handler does   *)
(* to the credentials is replaced by the load that follows before it is    *)
(* read.                                                                   *)
Told ==
    /\ Waiting("change") \/ Waiting("delete")
    /\ \E lost \in Lost :
         /\ Become([Top EXCEPT !.step = "box", !.ok = Top.ok /\ ~lost])
         /\ doubtful' = (doubtful \/ (Top.ok /\ lost))
    /\ UNCHANGED <<vault, list, box, fields, credentials, form, bounds, from, typed, bare,
                   mixed>>

CloseBox ==
    /\ InBox("change") \/ InBox("delete")
    /\ IF ~Top.ok
         THEN stack' = Below /\ UNCHANGED <<list, box, fields, typed>>
       ELSE IF Top.op = "change"
         THEN /\ Become(AccountRequest(fields.website, "bare"))
              /\ ClearCombo
              /\ UNCHANGED list
         ELSE /\ Become(ListRequest("first"))
              /\ ClearList
              /\ UNCHANGED <<box, fields, typed>>
    /\ UNCHANGED <<vault, credentials, form, bounds, from, bare, mixed, doubtful>>

-----------------------------------------------------------------------------
(* The user. *)

Ask(f) == /\ acts < MaxActs /\ Len(stack) < MaxDepth
          /\ acts' = acts + 1
          /\ stack' = Append(stack, f)
          /\ UNCHANGED <<edits, unused>>

(* on_manager_accounts_list_currentItemChanged *)
PickSite(s) ==
    /\ Clickable
    /\ s # chosen /\ chosen' = s
    /\ Ask(AccountRequest(s, "pick"))
    /\ ClearCombo
    /\ mixed' = (stack # <<>>)
    /\ UNCHANGED <<vault, sites, credentials, form, from, bare, doubtful>>

(* loginFromBrowserExtension, also below a message box. *)
BrowserSignal ==
    /\ Ask(ListRequest("first"))
    /\ ClearList
    /\ mixed' = (stack # <<>>)
    /\ UNCHANGED <<vault, box, fields, credentials, form, from, typed, bare, doubtful>>

PickName(i) ==
    /\ Clickable
    /\ i # current /\ current' = i
    /\ fields' = Selected(fields, credentials, combo[i])
    /\ Remember({}) /\ bare' = FALSE
    /\ UNCHANGED <<vault, stack, list, combo, credentials, form, bounds, from, mixed,
                   doubtful>>

(* The user types, or accepts a generated password: fillGeneratedPassword  *)
(* writes it whether the fields can be edited or not.  A blank text would  *)
(* only keep a save from being sent.                                       *)
Write(x, text) ==
    /\ Clickable
    /\ edits < MaxEdits /\ edits' = edits + 1 /\ acts < MaxActs
    /\ fields' = [fields EXCEPT ![x] = text]
    /\ Remember({x})
    /\ UNCHANGED <<vault, stack, list, box, credentials, form, acts, unused, from, bare,
                   mixed, doubtful>>

Edit == \/ \E s \in Sites : Write("website", s)
        \/ \E n \in Names : Write("username", n)
        \/ \E p \in Secrets : Write("password", p)

(* on_manager_save_button_clicked: blank or unchanged fields end it.       *)
Save ==
    /\ Clickable
    /\ fields.username # Blank /\ fields.password # Blank
    /\ fields.password # fields.oldPassword \/ fields.username # fields.oldUsername
    /\ Ask([op |-> "change", step |-> "posted", site |-> fields.website,
            old |-> fields.oldUsername, name |-> fields.username,
            secret |-> fields.password, ok |-> FALSE,
            meant |-> \/ {"website", "password"} \cap typed # {}
                      \/ bare \/ doubtful])
    /\ mixed' = (mixed \/ stack # <<>>)
    /\ UNCHANGED <<vault, list, box, fields, credentials, form, from, typed, bare, doubtful>>

(* on_manager_delete_button_clicked *)
Remove ==
    /\ Clickable
    /\ Ask([op |-> "delete", step |-> "posted", site |-> fields.website,
            name |-> fields.username, ok |-> FALSE])
    /\ mixed' = (mixed \/ stack # <<>>)
    /\ UNCHANGED <<vault, list, box, fields, credentials, form, from, typed, bare, doubtful>>

(* on_addaccount_button_clicked *)
AddAccount(s, n, p) ==
    /\ Clickable
    /\ form' = s
    /\ Ask([op |-> "add", step |-> "posted", site |-> s, name |-> n, secret |-> p])
    /\ mixed' = (mixed \/ stack # <<>>)
    /\ UNCHANGED <<vault, list, box, fields, credentials, from, typed, bare, doubtful>>

User == \/ \E s \in sites : PickSite(s)
        \/ \E i \in DOMAIN combo : PickName(i)
        \/ Edit \/ Save \/ Remove
        \/ \E s \in Sites, n \in Names, p \in Secrets : AddAccount(s, n, p)

Next == \/ Serve \/ SitesAnswered \/ AccountsAnswered \/ AddAnswered \/ Told \/ CloseBox
        \/ User \/ BrowserSignal

Spec == Init /\ [][Next]_vars

-----------------------------------------------------------------------------
(* Once nothing waits, the fields show one account: the selected user      *)
(* name, its password, and the site both were loaded from, as far as the   *)
(* user has not written over them.  The exceptions are operations that     *)
(* were nested, and the load after a save or an addition, which leaves the *)
(* password of the last account of a site under the name of the first      *)
(* (twokey.cpp:89-111, 223, 297, 449-465).                                 *)
FieldsAgree ==
    stack = <<>> /\ ~mixed =>
        /\ fields.oldUsername = TextAt(combo, current)
        /\ fields.oldPassword = Password(credentials, fields.oldUsername)
        /\ fields.username = fields.oldUsername \/ "username" \in typed
        /\ fields.password = fields.oldPassword \/ "password" \in typed \/ bare
        /\ combo = <<>> \/ fields.website = from \/ "website" \in typed

(* A stored password is replaced only by one the user wrote, as when a     *)
(* user name alone is edited, unless the fields are those of a load after  *)
(* a save or an addition, operations were nested, the answer to a change   *)
(* was lost, or the account is not the one the save is about: it is of     *)
(* another site, or has a double (twokey.cpp:257-303).                     *)
PasswordKept ==
    [][\A d \in vault, e \in vault' :
          d.oid = e.oid /\ d.secret # e.secret =>
            \/ mixed \/ Matching(d.site, d.name) # {d}
            \/ \E i \in DOMAIN stack : /\ Posted(i, "change") /\ stack'[i] # stack[i]
                                       /\ stack[i].meant \/ stack[i].site # d.site]_vars
=============================================================================
