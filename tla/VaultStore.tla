----------------------------- MODULE VaultStore -----------------------------
(***************************************************************************)
(* The vault of one user as the server keeps it: the handlers of           *)
(* src/Server/controll_data.py over the collection named by the user's     *)
(* public id.  The same account may be signed in on several computers, so  *)
(* handlers interleave between their calls to MongoDB.  Urls, user names   *)
(* and passwords arrive encrypted and are only compared for equality.      *)
(*                                                                         *)
(* A handler decodes the JWT once at its start, and a second time in       *)
(* get_all_user_data: the token may expire in between.                     *)
(***************************************************************************)
EXTENDS FiniteSets

CONSTANTS Workers,              \* request handlers that may run at once
          Urls, Names, Secrets, \* encrypted urls, user names and passwords
          Oids                  \* ids of the stored documents

VARIABLES
    vault,      \* documents of the user's collection
    job,        \* what each worker is doing
    unused,     \* history: document ids not given yet
    overlap,    \* history: pairs of additions that ran at the same time
    unchecked,  \* history: documents inserted without a look for duplicates
    renamed,    \* history: documents an update has given another name
    answer      \* history: the last answer that was sent

history == <<overlap, unchecked, renamed, answer>>
vars == <<vault, job, unused, history>>

Account == [oid : Oids, url : Urls, name : Names, secret : Secrets]
Idle == [op |-> "none"]
Adding == [op : {"add"}, step : {"look", "insert"}, account : Account, blind : BOOLEAN]
Updating == [op : {"update"}, step : {"look", "write"}, url : Urls, old : Names,
             name : Names, secret : Secrets, lost : BOOLEAN]

(* effect tells what the operation has done to the vault: nothing, what it *)
(* was asked, or to another site's account; excused, whether its token was *)
(* invalid, another handler has changed or removed the account it was      *)
(* about, or its user name is in use on another site too.                  *)
Answers == [op : {"add", "update", "delete"}, code : {"200", "400"},
            effect : {"none", "own", "other"}, excused : BOOLEAN]

TypeOK ==
    /\ vault \subseteq Account
    /\ job \in [Workers -> {Idle} \cup Adding \cup Updating]
    /\ unused \subseteq Oids
    /\ overlap \subseteq SUBSET Oids
    /\ unchecked \subseteq Oids /\ renamed \subseteq Oids
    /\ answer \in Answers \cup {Idle}

Init ==
    /\ vault = {}
    /\ job = [w \in Workers |-> Idle]
    /\ unused = Oids
    /\ overlap = {} /\ unchecked = {} /\ renamed = {} /\ answer = Idle

Answer(op, code, effect, excused) ==
    answer' = [op |-> op, code |-> code, effect |-> effect, excused |-> excused]

Return(w) == job' = [job EXCEPT ![w] = Idle]

(* A request with a token that is invalid or has expired is answered 200   *)
(* all the same, one with an empty field 400.                              *)
Turned(op, code, excused) ==
    /\ Answer(op, code, "none", excused)
    /\ UNCHANGED <<vault, job, unused, overlap, unchecked, renamed>>

InvalidToken(op) == Turned(op, "200", TRUE)
EmptyField(op) == Turned(op, "400", FALSE)

-----------------------------------------------------------------------------
(* POST /Add-acc *)

AddArrive(w, a) ==
    /\ job[w] = Idle
    /\ a.oid \in unused
    /\ unused' = unused \ {a.oid}
    /\ job' = [job EXCEPT ![w] = [op |-> "add", step |-> "look", account |-> a,
                                  blind |-> FALSE]]
    /\ overlap' = overlap \cup
         {{a.oid, job[v].account.oid} : v \in {x \in Workers : job[x].op = "add"}}
    /\ UNCHANGED <<vault, unchecked, renamed, answer>>

Stored(url, name) == \E a \in vault : a.url = url /\ a.name = name

(* Fault: an addition does not look for duplicates. *)
AddWithoutLook(w, expired) ==
    /\ job[w].op = "add" /\ job[w].step = "look"
    /\ job' = [job EXCEPT ![w].step = "insert"]
    /\ UNCHANGED <<vault, unused, overlap, unchecked, renamed, answer>>

(* get_all_user_data returns 0 when the token has expired by now; then     *)
(* nothing is compared and the account is inserted.                        *)
AddLook(w, expired) ==
    /\ job[w].op = "add" /\ job[w].step = "look"
    /\ IF ~expired /\ Stored(job[w].account.url, job[w].account.name)
         THEN Return(w) /\ Answer("add", "400", "none", FALSE)
         ELSE /\ job' = [job EXCEPT ![w].step = "insert", ![w].blind = expired]
              /\ UNCHANGED answer
    /\ UNCHANGED <<vault, unused, overlap, unchecked, renamed>>

(* An account that was inserted is answered 400.                           *)
AddInsert(w) ==
    /\ job[w].op = "add" /\ job[w].step = "insert"
    /\ vault' = vault \cup {job[w].account}
    /\ unchecked' = IF job[w].blind THEN unchecked \cup {job[w].account.oid} ELSE unchecked
    /\ Answer("add", "400", "own", FALSE)
    /\ Return(w)
    /\ UNCHANGED <<unused, overlap, renamed>>

-----------------------------------------------------------------------------
(* History: the updates of account a that have looked for it lose it.      *)
Losing(jobs, a) ==
    [w \in Workers |->
       IF /\ jobs[w].op = "update" /\ jobs[w].step = "write"
          /\ jobs[w].url = a.url /\ jobs[w].old = a.name
         THEN [jobs[w] EXCEPT !.lost = TRUE] ELSE jobs[w]]

(* Fault: the answers are the wrong way round. *)
DeleteInverted(url, name) ==
    LET Matches == {a \in vault : a.url = url /\ a.name = name}
    IN  /\ \/ /\ Matches = {}
              /\ Answer("delete", "200", "none", FALSE)
              /\ UNCHANGED <<vault, job>>
           \/ \E a \in Matches : /\ vault' = vault \ {a}
                                 /\ job' = Losing(job, a)
                                 /\ Answer("delete", "400", "own", FALSE)
        /\ UNCHANGED <<unused, overlap, unchecked, renamed>>

(* POST /delete-acc: find_one_and_delete is a single call.                 *)

Delete(url, name) ==
    LET Matches == {a \in vault : a.url = url /\ a.name = name}
    IN  /\ \/ /\ Matches = {}
              /\ Answer("delete", "400", "none", FALSE)
              /\ UNCHANGED <<vault, job>>
           \/ \E a \in Matches : /\ vault' = vault \ {a}
                                 /\ job' = Losing(job, a)
                                 /\ Answer("delete", "200", "own", FALSE)
        /\ UNCHANGED <<unused, overlap, unchecked, renamed>>

-----------------------------------------------------------------------------
(* POST /update *)

UpdateArrive(w, url, old, name, secret) ==
    /\ job[w] = Idle
    /\ job' = [job EXCEPT ![w] = [op |-> "update", step |-> "look", url |-> url,
                                  old |-> old, name |-> name, secret |-> secret,
                                  lost |-> FALSE]]
    /\ UNCHANGED <<vault, unused, history>>

(* Fault: an update does not look for its account. *)
UpdateWithoutLook(w, expired) ==
    /\ job[w].op = "update" /\ job[w].step = "look"
    /\ job' = [job EXCEPT ![w].step = "write"]
    /\ UNCHANGED <<vault, unused, history>>

UpdateLook(w, expired) ==
    /\ job[w].op = "update" /\ job[w].step = "look"
    /\ IF ~expired /\ Stored(job[w].url, job[w].old)
         THEN /\ job' = [job EXCEPT ![w].step = "write"]
              /\ UNCHANGED answer
         ELSE Return(w) /\ Answer("update", "400", "none", FALSE)
    /\ UNCHANGED <<vault, unused, overlap, unchecked, renamed>>

(* update_one looks for the old user name alone, whatever the url.         *)
Targets(r) == {a \in vault : a.name = r.old}

(* Faults: the document is replaced, its fields not set; its url is set.   *)
Replaced(a, r) == [name |-> r.name, secret |-> r.secret]
Moved(a, r) == [a EXCEPT !.url = r.url, !.name = r.name, !.secret = r.secret]

Updated(a, r) == [a EXCEPT !.name = r.name, !.secret = r.secret]

UpdateWrite(w) ==
    LET r == job[w]
        shared == \E a, b \in Targets(r) : a.url # b.url
    IN  /\ r.op = "update" /\ r.step = "write"
        /\ \/ /\ Targets(r) = {}
              /\ Answer("update", "200", "none", r.lost)
              /\ Return(w)
              /\ UNCHANGED <<vault, renamed>>
           \/ \E a \in Targets(r) :
                /\ vault' = (vault \ {a}) \cup {Updated(a, r)}
                /\ renamed' = IF r.name # r.old THEN renamed \cup {a.oid} ELSE renamed
                /\ job' = [(IF r.name # r.old THEN Losing(job, a) ELSE job)
                            EXCEPT ![w] = Idle]
                /\ Answer("update", "200", IF a.url = r.url THEN "own" ELSE "other",
                          r.lost \/ shared)
        /\ UNCHANGED <<unused, overlap, unchecked>>

-----------------------------------------------------------------------------
(* A handler dies between two calls; no answer is sent. *)
Fail(w) ==
    /\ job[w] # Idle
    /\ Return(w)
    /\ UNCHANGED <<vault, unused, history>>

Next ==
    \/ \E w \in Workers :
         \/ \E a \in Account : AddArrive(w, a)
         \/ \E expired \in BOOLEAN : AddLook(w, expired) \/ UpdateLook(w, expired)
         \/ AddInsert(w)
         \/ \E url \in Urls, old, name \in Names, secret \in Secrets :
              UpdateArrive(w, url, old, name, secret)
         \/ UpdateWrite(w)
         \/ Fail(w)
    \/ \E url \in Urls, name \in Names : Delete(url, name)
    \/ \E op \in {"add", "update", "delete"} : InvalidToken(op) \/ EmptyField(op)

Spec == Init /\ [][Next]_vars

-----------------------------------------------------------------------------
(* A site and a user name are stored twice only when the two additions ran *)
(* at the same time, when the token of one expired between the two checks  *)
(* of its handler, or when an update renamed one (controll_data.py:57-88   *)
(* and 127): additions one after the other never store an account twice.   *)
KeyUniqueUnlessRaced ==
    \A a, b \in vault : a.url = b.url /\ a.name = b.name =>
        \/ a = b
        \/ {a.oid, b.oid} \in overlap
        \/ {a.oid, b.oid} \cap (unchecked \cup renamed) # {}

(* What a client may conclude from an answer: a refused deletion or update *)
(* changed nothing, and neither did an addition answered 200, the code the *)
(* desktop client takes for success (backend_client.cpp:477).              *)
AnswerTells ==
    /\ answer.op \in {"delete", "update"} /\ answer.code = "400" => answer.effect = "none"
    /\ answer.op = "add" /\ answer.code = "200" => answer.effect = "none"

(* An update answered 200 has written the account it was asked to, unless  *)
(* its token was invalid, another handler took the account away between    *)
(* the look and the write, or the user name is in use on a second site     *)
(* (controll_data.py:116-127).                                             *)
UpdateDoneUnlessExcused ==
    answer.op = "update" /\ answer.code = "200" => answer.effect = "own" \/ answer.excused

(* An update that meets a deletion of its account does not bring it back,  *)
(* and no update moves an account to another site: documents appear only   *)
(* as additions and keep their url (controll_data.py:126-127).             *)
NoResurrection ==
    [][\A b \in vault' :
          \/ \E a \in vault : a.oid = b.oid /\ a.url = b.url
          \/ \E w \in Workers : job[w].op = "add" /\ job[w].account = b]_vars

-----------------------------------------------------------------------------
(* "The account information was updated successfuly." (twokey.cpp:290): an *)
(* update for a site writes no account of another site.                    *)
UpdateStaysOnSite == answer.op = "update" => answer.effect # "other"

(* "Account removed successfuly." (twokey.cpp:523): a deletion answered    *)
(* 200 has removed an account.                                             *)
DeleteConfirmed == answer.op = "delete" /\ answer.code = "200" => answer.effect = "own"
=============================================================================
